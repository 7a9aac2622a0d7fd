SPECIFICATION Spec
CONSTANTS
    ConnectFrom = {"connected", "messageReceived", "disconnected", "CONNECTING", "DISCONNECTING"}
    DisconnectFrom = {"connected", "messageReceived", "disconnected", "OFFLINE"}
    SslErrorKinds = {"hostName", "selfSigned"}
    AllowedSslErrors = {"selfSigned"}
    MaxConnects = 3
    MaxPosted = 2
INVARIANTS
    AgreesWhenIdle
    DisconnectedMeansOffline
    NewConnectionIsKept
    WishRespected
    OnlyAllowedErrors
