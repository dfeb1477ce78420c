SPECIFICATION Spec
CONSTANTS s1 = s1
          s2 = s2
          s3 = s3
          h1 = h1
          h2 = h2
          x = x
          y = y
          v1 = v1
          v2 = v2
          IDs = {s1, s2, s3}
          Capacity = 2
          Handlers = {h1, h2}
          Vars = {x, y}
          Values = {v1, v2}
          Large = Large
          Output = y
          KnownNames = {x}
          Requests <- SomeRequests
          Effects <- SomeEffects
          None = None
SYMMETRY Symmetry
INVARIANTS SessionsInv AllOrNothing
PROPERTIES RecencySpec OnlyOwnChanges
CHECK_DEADLOCK FALSE
