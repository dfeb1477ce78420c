SPECIFICATION FairSpec
CONSTANTS Writers = {w1, w2}
          Readers = {r1, r2}
          Size = 2
          MaxWrite = 3
          MaxRead = 2
          MaxSent = 3
          None = None
INVARIANTS RingInv
PROPERTIES BytesInOrder AllGetOn
