SPECIFICATION Spec
CONSTANTS
    c1 = c1
    c2 = c2
    Client = {c1}
    NFD = 4
    ADDRS = 2
    MAXLINE = 8
    UINT = 10
    Asks <- MCAsks
    CrowdAsks <- MCCrowdAsks
    CrowdAnswers <- MCCrowdAnswers
    Answers <- MCAnswers
    Slow = {c1}
INVARIANTS RequestIsForwarded ResponseIsForwarded LogIsTrue
PROPERTIES EveryConnectionEnds
CHECK_DEADLOCK FALSE
