SPECIFICATION Spec
CONSTANTS
    c1 = c1
    c2 = c2
    Client <- MCClient
    NFD = 4
    ADDRS = 1
    MAXLINE = 8
    UINT = 10
    Asks <- MCAsks
    CrowdAsks <- MCCrowdAsks
    CrowdAnswers <- MCCrowdAnswers
    Answers <- MCAnswers
    Slow = {}
INVARIANT DescriptorsAreHeld
PROPERTIES EndsOnlyWhenRefused
CHECK_DEADLOCK FALSE
