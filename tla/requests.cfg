SPECIFICATION Spec
CONSTANTS
    MaxConnects = 2
    MaxRequests = 3
    MaxPublishes = 0
    MaxPings = 0
    MaxBacklog = 0
    IdSpace = 2
    BrokerFaults = {}
INVARIANT TypeOK
INVARIANT OnePlacePerCallback
INVARIANT EveryCallbackAccountedFor
INVARIANT HonestCallbacks
PROPERTY ImplementsLedger
