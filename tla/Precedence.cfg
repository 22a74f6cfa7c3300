CONSTANTS Sources <- Difference
          Nodes <- DifferenceNodes
SPECIFICATION FairSpec
INVARIANT ReadsBack
CHECK_DEADLOCK FALSE
