SPECIFICATION LiveSpec
CONSTANTS
    MaxConnects = 1
    MaxRequests = 1
    MaxPublishes = 0
    MaxPings = 1
    MaxBacklog = 0
    IdSpace = 2
    BrokerFaults = {}
PROPERTY EveryRequestReported
