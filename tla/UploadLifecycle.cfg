SPECIFICATION Spec
CONSTANTS
  Bodies = {b1, b2}
  Writers = {w1, w2}
  Requests = {r1, r2}
  Sweeper = sweeper
  Shares = {"copying", "local"}
  \* transfer.Transition refuses what is already finalizing.
  Finalizable = {"receiving"}
  Abortable = {"receiving", "finalizing", "aborted"}
  MaxGen = 3
  MaxPubs = 2
SYMMETRY Symmetry
INVARIANTS
  TypeOK
  TerminalExclusive
  RowLockExclusive
  LiveSessionHasPart
  PublishedWhole
  
  GateReopens
PROPERTY
  AbortIsFinal
