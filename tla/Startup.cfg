SPECIFICATION FairSpec
CONSTANT Partitions = {0, 1, 2}
INVARIANTS NodesInDevfs NamesKept Served
PROPERTY Ready
CHECK_DEADLOCK FALSE
