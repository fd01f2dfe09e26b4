CONSTANTS
    MaxTsn = 7
    MaxAccepted = 6
    MaxDuplicates = 1
    MaxGaps = 2
    GapModulus = 8
SPECIFICATION FairSpec
INVARIANTS TypeOK BlocksSorted  OwedSackIsScheduled
PROPERTIES OwedSackIsSent 
