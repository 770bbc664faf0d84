\* Two search folders, each worked on by a worker of its own.
CONSTANTS Folders = {f1, f2}
          Messages = {m1}
          Places = {1, 2}
          Target = {1}
          Workers = {w1, w2}
          Serves <- ServesOne
          Objs = {o1, o2}
          None = None
          MaxSteps = 2
          MaxErrors = 1
          Batch = 2
SPECIFICATION MCSpec
SYMMETRY Together
INVARIANTS TypeOK NoUseAfterFree NothingMissed NothingStale RestartIsSafe
