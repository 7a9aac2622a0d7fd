SPECIFICATION Spec
CONSTANTS
    Characters = {35, 43, 47, 97}
    MaxTextLength = 3
    MessageSizes = {0, 1, 122}
    FieldSizes = {1, 65534}
    Cuts = {0, 1, 2, 3, 5}
    Identifiers = {1, 127, 128, 255, 256, 32768, 65535}
    Lengths = {0, 1, 127, 128, 129, 255, 256, 16383, 16384, 16385, 2097151, 2097152, 268435455, 268435456}
    UserNames <- MCUserNames
    Passwords <- MCPasswords
    FormerWills <- MCFormerWills
INVARIANTS
    FrameTypeOK
    PacketsReadBack
    AnswersNameTheRequest
    AsciiPublicationsReported
    PartOfPacketRefused
    LengthReadBack
    TopicRulesDecide
