SPECIFICATION Spec
CONSTANTS
    Characters = {97}
    MaxTextLength = 1
    MessageSizes = {1}
    FieldSizes = {}
    Cuts = {}
    Identifiers = {1}
    Lengths = {0}
    UserNames <- MCUserNames
    Passwords <- MCPasswords
    FormerWills <- MCFormerWills
INVARIANT
    OnlyLowestBitCleared
