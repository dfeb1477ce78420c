SPECIFICATION FairCollectorSpec
CONSTANTS Before <- Starts
          After <- Ends
          HasEquals = {"x=y"}
          Absent = Absent
INVARIANTS CollectorInv UnopenedIsRefused CompleteIsAccepted
PROPERTIES DiffReturns
CHECK_DEADLOCK FALSE
