SPECIFICATION FairSpec
CONSTANTS s1 = s1
          s2 = s2
          None = None
          Streams <- OneClient
          AuthCap = 1
          ReqCap = 1
          RespCap = 1
          MaxRequests = 3
          MaxOutput = 0
          SentKinds <- AllKinds
          Senders <- OneClient
          Flaky <- NoClient
          Timers = FALSE
INVARIANTS StartRecordedFirst
PROPERTIES FifoRequests ExitCodeIsRelayed StartedRunCloses
CHECK_DEADLOCK FALSE
