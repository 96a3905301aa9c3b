SPECIFICATION FairSpec
CONSTANTS
    KeySpace = 6
    NoKey = NoKey
    Callers = {c1, c2}
    s1 = s1
    s2 = s2
    SendRoom = 1
    BufSize = 2
INVARIANTS NextFreeKey ParsedAsWhole
    TextExact ShownExact ReadNeverBlocks AnswersMatch OkMeansAll DemoOutcome
PROPERTIES ComesToRest
CHECK_DEADLOCK FALSE
