SPECIFICATION Spec
CONSTANTS s1 = s1
          s2 = s2
          None = None
          Streams <- OneClient
          AuthCap = 1
          ReqCap = 1
          RespCap = 1
          MaxRequests = 1
          MaxOutput = 1
          SentKinds <- OnlyConfig
          Senders <- OneClient
          Flaky <- NoClient
          Timers = FALSE
INVARIANTS SendNeverPanics
CHECK_DEADLOCK FALSE
