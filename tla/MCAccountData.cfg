SPECIFICATION DataSpec
CONSTANTS
    Accounts = {"a", "b", "c"}
    Messages = {"m1", "m2"}
    LoginOf <- MCLoginOf
    Sender <- MCSender
    Recipient <- MCRecipient
    NullRead = {"m2"}
    Page = 1
    Limit = 1
    Requests = {r, s}
    NoCount = NoCount
    Peers <- MCPeers
    Budget = 3
    Mishaps = 1
INVARIANTS NothingLost NoHalfAccount MirrorsAgree DeletedIsGone UnreadIsSignalled
SYMMETRY RequestSymmetry
CHECK_DEADLOCK FALSE
