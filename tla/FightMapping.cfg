CONSTANTS
    anna = anna
    bert = bert
    here = here
    there = there
    NoServer = NoServer
    NoFight = NoFight
    JobMap <- Jobs
    Lower <- Spellings
    Reports <- SmallReports
SPECIFICATION Spec
INVARIANTS PlayersAreThemselves ZoneFitsEncounter
CHECK_DEADLOCK FALSE
