SPECIFICATION CacheSpec
CONSTANTS
 Reader = {"r1", "r2"}
 MaxWrites = 1
 MaxVersion = 1
INVARIANT NextReadHasTexts
CHECK_DEADLOCK FALSE
