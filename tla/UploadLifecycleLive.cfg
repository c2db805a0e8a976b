SPECIFICATION FairSpec
CONSTANTS
  Bodies = {b1, b2}
  Writers = {w1, w2}
  Requests = {r1}
  Sweeper = sweeper
  Shares = {"local"}
  \* transfer.Transition refuses what is already finalizing.
  Finalizable = {"receiving"}
  Abortable = {"receiving", "finalizing", "aborted"}
  MaxGen = 2
  MaxPubs = 1
PROPERTIES
  RowLockFreed
  TerminalCompletes
