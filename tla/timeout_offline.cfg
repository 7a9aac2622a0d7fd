SPECIFICATION Spec
CONSTANTS
    MaxConnects = 1
    MaxRequests = 0
    MaxPublishes = 0
    MaxPings = 1
    MaxBacklog = 1
    IdSpace = 2
    BrokerFaults = {}
PROPERTY TimeoutOnlyAfterPing
