SPECIFICATION Spec
CONSTANTS
  Bodies = {b1}
  Writers = {w1}
  Requests = {r1}
  Sweeper = sweeper
  Shares = {"copying"}
  \* transfer.Transition refuses what is already finalizing.
  Finalizable = {"receiving"}
  Abortable = {"receiving", "finalizing", "aborted"}
  MaxGen = 2
  MaxPubs = 1
INVARIANT
  PresentPartMeansUnpublished
