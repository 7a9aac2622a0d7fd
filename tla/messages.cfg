SPECIFICATION Spec
CONSTANTS
    MaxConnects = 2
    MaxRequests = 0
    MaxPublishes = 2
    MaxPings = 0
    MaxBacklog = 1
    IdSpace = 3
    BrokerFaults = {"answersTwice", "badFrame", "textMessage"}
INVARIANT DeliveredInOrder
INVARIANT AcknowledgedAsDelivered
