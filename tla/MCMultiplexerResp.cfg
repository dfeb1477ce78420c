SPECIFICATION Spec
CONSTANTS s1 = s1
          s2 = s2
          None = None
          Streams <- Clients
          AuthCap = 1
          ReqCap = 1
          RespCap = 1
          MaxRequests = 1
          MaxOutput = 1
          SentKinds <- OnlyConfig
          Senders <- OneClient
          Flaky <- OtherClient
          Timers = TRUE
INVARIANTS ResponsesInv
PROPERTIES FifoResponses
CHECK_DEADLOCK FALSE
