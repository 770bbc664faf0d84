\* Two workers cancel the searches of two folders; no message changes.
CONSTANTS Folders = {f1, f2}
          Messages = {m1}
          Places = {1}
          Target = {1}
          Workers = {w1, w2}
          Serves <- ServesOne
          Objs = {o1, o2}
          None = None
          MaxSteps = 0
          MaxErrors = 0
          Batch = 1
SPECIFICATION FairSpec
PROPERTY CancelEnds
