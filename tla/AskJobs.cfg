SPECIFICATION FairSpec
CONSTANTS
    Ask = {a1, a2}
    Cancel = {c1}
    Delete = {d1}
    Key = {k1}
    NoKey = NoKey
    None = None
    MaxTrouble = 1
INVARIANTS OneJobPerKey ConversationKept EndingIsTrue NothingLeftEmpty
PROPERTY StreamsEnd
CHECK_DEADLOCK FALSE
