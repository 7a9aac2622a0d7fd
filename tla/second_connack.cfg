SPECIFICATION Spec
CONSTANTS
    MaxConnects = 1
    MaxRequests = 0
    MaxPublishes = 0
    MaxPings = 0
    MaxBacklog = 0
    IdSpace = 2
    BrokerFaults = {"answersTwice"}
PROPERTY SecondConnackRefused
