SPECIFICATION FairSpec
CONSTANTS
    Parts = {"crossed", "drift"}
    x1 = x1
    x2 = x2
PROPERTY
    RelationsSettle
CHECK_DEADLOCK FALSE
