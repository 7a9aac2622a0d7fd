SPECIFICATION LiveSpec
CONSTANTS
    MaxConnects = 2
    MaxRequests = 1
    MaxPublishes = 0
    MaxPings = 1
    MaxBacklog = 0
    IdSpace = 2
    BrokerFaults = {"noAnswer"}
INVARIANT SessionAgreesWithSocket
INVARIANT OnePingInFlight
PROPERTY FirstConnectionAcknowledged
PROPERTY TimeoutMeansNoPong
PROPERTY DisconnectCompletes
PROPERTY AnswerReachesCallback
PROPERTY ImplementsFairLedger
PROPERTY SilentBrokerDetected
