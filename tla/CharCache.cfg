CONSTANTS
    name = name
    here = here
    there = there
    Members <- TwoMembers
    Ids = {c1}
    None = None
    Failure = Failure
    TTL = 2
    Deadline = 1
SPECIFICATION FairSpec
INVARIANTS TypeOK ServedIsRecent NoCharacterIsCurrent
PROPERTY SelfHeals
