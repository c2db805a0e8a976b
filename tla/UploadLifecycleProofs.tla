------------------------ MODULE UploadLifecycleProofs ------------------------
(***************************************************************************)
(* What UploadLifecycle guarantees for every number of handlers, requests  *)
(* and ranges, and on every kind of share, provided a row that is already  *)
(* finalizing cannot be marked finalizing again.                           *)
(***************************************************************************)
EXTENDS UploadLifecycle, FiniteSetTheorems, TLAPS

\* transfer.Transition refuses finalizing -> finalizing.
NoRefinalize == Finalizable \subseteq {"receiving"}

-----------------------------------------------------------------------------
(* The inductive invariant, in parts.                                      *)

TGated == TCritical \cup {"fence"}

\* The barrier: who counts as active, who keeps the entry alive, and what the
\* holder of the terminal token may rely on.
FenceInv ==
  /\ \A w \in Writers : wpc[w] \in WAdmitted <=> w \in barrier.active
  /\ barrier.active \subseteq barrier.refs
  /\ \A t \in Terms : tpc[t] \in TGated \cup {"enter"} => t \in barrier.refs
  /\ \A t \in Terms : tpc[t] \in TGated => barrier.token = t /\ barrier.closing
  /\ \A t \in Terms : tpc[t] \in TCritical => barrier.active = {}

\* A writer past its second check works on a receiving row, and what it has
\* written is in the file before the range is recorded.
WriterInv ==
  /\ recorded \subseteq content
  /\ \A w \in Writers :
       /\ wpc[w] # "idle" => wbody[w] \in Bodies
       /\ wpc[w] \in {"checked", "written"} => row = "receiving"
       /\ wpc[w] = "written" => wbody[w] \in content /\ part

\* What each terminal operation knows of the row while it is on its way.
TermInv ==
  \A t \in Terms :
    /\ tpc[t] = "marked" => /\ row = "finalizing" /\ part /\ recorded = Bodies
                            /\ share = "local" => pubs = 0
    /\ tpc[t] = "copied" => share = "copying"
    /\ tpc[t] \in {"copied", "published", "saved"} =>
         row \in {"finalizing", "done"} /\ pubs > 0
    /\ tpc[t] \in {"aborted", "unlinked"} => row = "aborted"
    /\ tpc[t] \in {"collecting", "swept"} =>
         row \in {"receiving", "aborted", "done"} /\ ~Receiving
    /\ tpc[t] = "recovered" => row \in {"finalizing", "done"} /\ ~part

\* On a local share the rename takes the part's name away for good.
RenameInv == share = "local" /\ pubs > 0 => ~part /\ row # "receiving"

\* No operation brings the session back from here.
Ended == row \in {"gone", "done", "aborted"} \/ (row = "finalizing" /\ ~part)

\* A closed gate is either this operation's to reopen or stands before a
\* session that has ended.
GateInv ==
  share = "local" =>
    /\ barrier.closing /\ barrier.token = None => Ended
    /\ \A t \in Terms : tpc[t] \in TGated =>
         IF owner[t] THEN barrier.gen = tgen[t] ELSE Ended

LifeInv ==
  /\ TypeOK /\ FenceInv /\ WriterInv /\ TermInv /\ RenameInv /\ GateInv
  /\ LiveSessionHasPart /\ PublishedWhole

-----------------------------------------------------------------------------
(* The barrier's operations.                                               *)

(* releaseWriter either makes the barrier anew or only drops the reference. *)
LEMMA ReleaseFacts ==
  ASSUME NEW b \in BarrierType, NEW p
  PROVE  /\ Release(b, p) \in BarrierType
         /\ \/ b.refs \subseteq {p} /\ Release(b, p) = NewBarrier
            \/ /\ Release(b, p).refs = b.refs \ {p}
               /\ Release(b, p).active = b.active
               /\ Release(b, p).token = b.token
               /\ Release(b, p).closing = b.closing
               /\ Release(b, p).gen = b.gen
BY DEF Release, BarrierType, NewBarrier

(* finishWriters gives the token back on the way. *)
LEMMA FinishFacts ==
  ASSUME NEW b \in BarrierType, NEW t
  PROVE  /\ Finish(b, t) \in BarrierType
         /\ \/ b.refs \subseteq {t} /\ Finish(b, t) = NewBarrier
            \/ /\ Finish(b, t).refs = b.refs \ {t}
               /\ Finish(b, t).active = b.active
               /\ Finish(b, t).token = None
               /\ Finish(b, t).closing = b.closing
               /\ Finish(b, t).gen = b.gen
<1> DEFINE c == [b EXCEPT !.token = None, !.terminalActive = FALSE]
<1>1. c \in BarrierType /\ c.refs = b.refs /\ c.active = b.active
      /\ c.token = None /\ c.closing = b.closing /\ c.gen = b.gen
  BY DEF BarrierType
<1>2. Finish(b, t) = Release(c, t)
  BY DEF Finish
<1> HIDE DEF c
<1> QED
  BY <1>1, <1>2, ReleaseFacts

(* reopenWriters opens the gate only for the operation that closed it. *)
LEMMA ReopenFacts ==
  ASSUME NEW b \in BarrierType, NEW t
  PROVE  /\ Reopen(b, t) \in BarrierType
         /\ Reopen(b, t).refs = b.refs /\ Reopen(b, t).active = b.active
         /\ Reopen(b, t).closing => b.closing
         /\ Reopen(b, t).closing /\ owner[t] => b.gen # tgen[t]
<1>1. CASE owner[t] /\ b.closing /\ b.gen = tgen[t]
  <2>1. Reopen(b, t) = [b EXCEPT !.closing = FALSE, !.gen = @ + 1]
    BY <1>1 DEF Reopen
  <2>2. Reopen(b, t) \in BarrierType
    <3>1. \A f \in BOOLEAN, n \in Nat :
            [b EXCEPT !.closing = f, !.gen = n] \in BarrierType
      BY DEF BarrierType
    <3>2. b.gen + 1 \in Nat
      BY DEF BarrierType
    <3> QED
      BY <2>1, <3>1, <3>2, Zenon
  <2>3. ~Reopen(b, t).closing
    BY <2>1 DEF BarrierType
  <2>4. Reopen(b, t).refs = b.refs /\ Reopen(b, t).active = b.active
    BY <2>1 DEF BarrierType
  <2> QED
    BY <2>2, <2>3, <2>4
<1>2. CASE ~(owner[t] /\ b.closing /\ b.gen = tgen[t])
  BY <1>2 DEF Reopen
<1> QED
  BY <1>1, <1>2

(* A terminal operation past its fence is alone. *)
LEMMA Alone ==
  ASSUME LifeInv, NEW t \in Terms, tpc[t] \in TGated
  PROVE  /\ \A u \in Terms : tpc[u] \in TGated => u = t
         /\ tpc[t] \in TCritical =>
              \A w \in Writers : wpc[w] \notin WAdmitted
BY DEF LifeInv, FenceInv

-----------------------------------------------------------------------------
(* The ways a terminal operation goes on or returns.                       *)

(* It goes on within its critical section. *)
LEMMA StepFacts ==
  ASSUME LifeInv, NEW t \in Terms, NEW pc \in TCritical,
         tpc[t] \in TCritical, TStep(t, pc), share' = share, Ended => Ended'
  PROVE  FenceInv' /\ GateInv'
<1>1. FenceInv'
  BY DEF LifeInv, TypeOK, FenceInv, TStep, TGoto, writerVars, TGated
<1>2. GateInv'
  BY DEF LifeInv, TypeOK, GateInv, TStep, TGoto, TGated
<1> QED
  BY <1>1, <1>2

(* It returns with the session still alive, or gives its fence up. *)
LEMMA ReturnFacts ==
  ASSUME LifeInv, NEW t \in Terms,
         tpc[t] \in TGated, TReturn(t), share' = share, Ended => Ended'
  PROVE  barrier' \in BarrierType /\ FenceInv' /\ GateInv'
<1> DEFINE b == Reopen(barrier, t)
<1>0. barrier \in BarrierType /\ barrier' = Finish(b, t)
  BY DEF LifeInv, TypeOK, TReturn
<1>1. b \in BarrierType /\ b.refs = barrier.refs /\ b.active = barrier.active
  BY <1>0, ReopenFacts
<1>2. /\ barrier' \in BarrierType
      /\ \/ barrier.refs \subseteq {t} /\ barrier' = NewBarrier
         \/ /\ barrier'.refs = barrier.refs \ {t}
            /\ barrier'.active = barrier.active
            /\ barrier'.token = None /\ barrier'.closing = b.closing
  BY <1>0, <1>1, FinishFacts
<1>3. \A u \in Terms : u # t => tpc'[u] = tpc[u] /\ tpc[u] \notin TGated
  BY Alone DEF LifeInv, TypeOK, TReturn, TIdle, TGoto
<1>4. tpc'[t] = "idle" /\ UNCHANGED wpc
  BY DEF LifeInv, TypeOK, TReturn, TIdle, TGoto, writerVars
<1>5. FenceInv'
  <2>1. t \notin Writers
    BY ProcsAssumption
  <2>2. \A u \in Terms : tpc'[u] \notin TGated
    BY <1>3, <1>4 DEF TGated, TCritical, THolding
  <2>3. \A u \in Terms : tpc'[u] = "enter" => u \in barrier.refs /\ u # t
    BY <1>3, <1>4 DEF LifeInv, FenceInv
  <2>4. CASE barrier.refs \subseteq {t} /\ barrier' = NewBarrier
    BY <2>1, <2>2, <2>3, <2>4, <1>4 DEF LifeInv, FenceInv, NewBarrier, TGated
  <2>5. CASE /\ barrier'.refs = barrier.refs \ {t}
             /\ barrier'.active = barrier.active
    <3>1. barrier.active \subseteq Writers
      BY DEF LifeInv, TypeOK, BarrierType
    <3>2. barrier'.active \subseteq barrier'.refs
      BY <2>1, <2>5, <3>1 DEF LifeInv, FenceInv
    <3>3. \A w \in Writers : wpc'[w] \in WAdmitted <=> w \in barrier'.active
      BY <1>4, <2>5 DEF LifeInv, FenceInv
    <3> QED
      BY <2>2, <2>3, <2>5, <3>2, <3>3 DEF FenceInv, TGated
  <2> QED
    BY <1>2, <2>4, <2>5
<1>6. GateInv'
  <2>1. \A u \in Terms : tpc'[u] \notin TGated
    BY <1>3, <1>4 DEF TGated, TCritical, THolding
  <2>2. share = "local" /\ b.closing => Ended
    BY <1>0, ReopenFacts DEF LifeInv, GateInv
  <2> QED
    BY <1>2, <2>1, <2>2 DEF GateInv, NewBarrier
<1> QED
  BY <1>2, <1>5, <1>6

(* It returns having ended the session, and the gate stays closed. *)
LEMMA EndFacts ==
  ASSUME LifeInv, NEW t \in Terms,
         tpc[t] \in TGated, TEnd(t), share' = share, share = "local" => Ended'
  PROVE  barrier' \in BarrierType /\ FenceInv' /\ GateInv'
<1>0. barrier \in BarrierType /\ barrier' = Finish(barrier, t)
  BY DEF LifeInv, TypeOK, TEnd
<1>2. /\ barrier' \in BarrierType
      /\ \/ barrier.refs \subseteq {t} /\ barrier' = NewBarrier
         \/ /\ barrier'.refs = barrier.refs \ {t}
            /\ barrier'.active = barrier.active
  BY <1>0, FinishFacts
<1>3. \A u \in Terms : u # t => tpc'[u] = tpc[u] /\ tpc[u] \notin TGated
  BY Alone DEF LifeInv, TypeOK, TEnd, TIdle, TGoto
<1>4. tpc'[t] = "idle" /\ UNCHANGED wpc
  BY DEF LifeInv, TypeOK, TEnd, TIdle, TGoto, writerVars
<1>5. FenceInv'
  <2>1. t \notin Writers
    BY ProcsAssumption
  <2>2. \A u \in Terms : tpc'[u] \notin TGated
    BY <1>3, <1>4 DEF TGated, TCritical, THolding
  <2>3. \A u \in Terms : tpc'[u] = "enter" => u \in barrier.refs /\ u # t
    BY <1>3, <1>4 DEF LifeInv, FenceInv
  <2>4. CASE barrier.refs \subseteq {t} /\ barrier' = NewBarrier
    BY <2>1, <2>2, <2>3, <2>4, <1>4 DEF LifeInv, FenceInv, NewBarrier, TGated
  <2>5. CASE /\ barrier'.refs = barrier.refs \ {t}
             /\ barrier'.active = barrier.active
    <3>1. barrier.active \subseteq Writers
      BY DEF LifeInv, TypeOK, BarrierType
    <3>2. barrier'.active \subseteq barrier'.refs
      BY <2>1, <2>5, <3>1 DEF LifeInv, FenceInv
    <3>3. \A w \in Writers : wpc'[w] \in WAdmitted <=> w \in barrier'.active
      BY <1>4, <2>5 DEF LifeInv, FenceInv
    <3> QED
      BY <2>2, <2>3, <2>5, <3>2, <3>3 DEF FenceInv, TGated
  <2> QED
    BY <1>2, <2>4, <2>5
<1>6. GateInv'
  <2>1. \A u \in Terms : tpc'[u] \notin TGated
    BY <1>3, <1>4 DEF TGated, TCritical, THolding
  <2> QED
    BY <2>1 DEF GateInv
<1> QED
  BY <1>2, <1>5, <1>6

-----------------------------------------------------------------------------
(* One lemma per action.                                                   *)

(* A fence is given up. *)
LEMMA TGiveUpPreserves ==
  ASSUME NoRefinalize, LifeInv, NEW t \in Terms, TGiveUp(t)
  PROVE  LifeInv'
<1>1. tpc[t] \in TGated /\ tpc[t] \in TGated /\ share' = share
  BY DEF TGiveUp, At, durableVars, lockVars, TGated, TCritical, THolding
<1>2. /\ \A u \in Terms : tpc[u] \in TGated => u = t
      /\ tpc[t] \in TCritical => \A w \in Writers : wpc[w] \notin WAdmitted
  BY <1>1, Alone
<1>3. UNCHANGED writerVars
  BY DEF TGiveUp, TReturn
<1>4. Ended => Ended'
  BY <1>1 DEF TGiveUp, At, durableVars, lockVars, LifeInv, TypeOK,
    RenameInv, TermInv, Ended, Receiving
<1>5. barrier' \in BarrierType /\ FenceInv' /\ GateInv'
  BY <1>1, <1>4, ReturnFacts DEF TGiveUp
<1>6. TypeOK'
  BY <1>3, <1>5 DEF TGiveUp, At, durableVars, lockVars, LifeInv, TypeOK,
    TReturn, TIdle, TGoto, writerVars, Terms, Procs, TCritical, THolding
<1>7. WriterInv'
  BY <1>1, <1>2, <1>3 DEF TGiveUp, At, durableVars, lockVars, LifeInv,
    WriterInv, WAdmitted, writerVars
<1>8. TermInv'
  BY <1>1, <1>2 DEF TGiveUp, At, durableVars, lockVars, LifeInv, TypeOK,
    TermInv, LiveSessionHasPart, RenameInv, Receiving, TGated, TCritical,
    THolding, TReturn, TIdle, TGoto
<1>9. (RenameInv /\ LiveSessionHasPart /\ PublishedWhole)'
  BY <1>1 DEF TGiveUp, At, durableVars, lockVars, LifeInv, TypeOK,
    WriterInv, TermInv, RenameInv, LiveSessionHasPart, PublishedWhole,
    Receiving
<1> QED
  BY <1>5, <1>6, <1>7, <1>8, <1>9 DEF LifeInv

(* A refusal under the row lock. *)
LEMMA TRefusePreserves ==
  ASSUME NoRefinalize, LifeInv, NEW t \in Terms, TRefuse(t)
  PROVE  LifeInv'
<1>1. tpc[t] \in TCritical /\ tpc[t] \in TGated /\ share' = share
  BY DEF TRefuse, At, Unlock, durableVars, lockVars, TGated, TCritical,
    THolding
<1>2. /\ \A u \in Terms : tpc[u] \in TGated => u = t
      /\ tpc[t] \in TCritical => \A w \in Writers : wpc[w] \notin WAdmitted
  BY <1>1, Alone
<1>3. UNCHANGED writerVars
  BY DEF TRefuse, TReturn
<1>4. Ended => Ended'
  BY <1>1 DEF TRefuse, At, Unlock, durableVars, lockVars, LifeInv, TypeOK,
    RenameInv, TermInv, Ended, Receiving
<1>5. barrier' \in BarrierType /\ FenceInv' /\ GateInv'
  BY <1>1, <1>4, ReturnFacts DEF TRefuse
<1>6. TypeOK'
  BY <1>3, <1>5 DEF TRefuse, At, Unlock, durableVars, lockVars, LifeInv,
    TypeOK, TReturn, TIdle, TGoto, writerVars, Terms, Procs, TCritical,
    THolding
<1>7. WriterInv'
  BY <1>1, <1>2, <1>3 DEF TRefuse, At, Unlock, durableVars, lockVars,
    LifeInv, WriterInv, WAdmitted, writerVars
<1>8. TermInv'
  BY <1>1, <1>2 DEF TRefuse, At, Unlock, durableVars, lockVars, LifeInv,
    TypeOK, TermInv, LiveSessionHasPart, RenameInv, Receiving, TGated,
    TCritical, THolding, TReturn, TIdle, TGoto
<1>9. (RenameInv /\ LiveSessionHasPart /\ PublishedWhole)'
  BY <1>1 DEF TRefuse, At, Unlock, durableVars, lockVars, LifeInv, TypeOK,
    WriterInv, TermInv, RenameInv, LiveSessionHasPart, PublishedWhole,
    Receiving
<1> QED
  BY <1>5, <1>6, <1>7, <1>8, <1>9 DEF LifeInv

(* Finalize marks a complete, receiving row. *)
LEMMA FinMarkPreserves ==
  ASSUME NoRefinalize, LifeInv, NEW t \in Terms, FinMark(t)
  PROVE  LifeInv'
<1>1. tpc[t] \in TCritical /\ tpc[t] \in TGated /\ share' = share
  BY DEF FinMark, At, durableVars, lockVars, TGated, TCritical, THolding
<1>2. /\ \A u \in Terms : tpc[u] \in TGated => u = t
      /\ tpc[t] \in TCritical => \A w \in Writers : wpc[w] \notin WAdmitted
  BY <1>1, Alone
<1>3. UNCHANGED writerVars
  BY DEF FinMark, TStep
<1>4. Ended => Ended'
  BY <1>1, NoRefinalize DEF FinMark, At, durableVars, lockVars, LifeInv,
    TypeOK, RenameInv, TermInv, Ended, Receiving, NoRefinalize
<1>5. barrier' \in BarrierType /\ FenceInv' /\ GateInv'
  <2>1. "marked" \in TCritical
    BY DEF TCritical, THolding
  <2> QED
    BY <1>1, <1>4, <2>1, StepFacts DEF FinMark, TStep, LifeInv, TypeOK
<1>6. TypeOK'
  BY <1>3, <1>5 DEF FinMark, At, durableVars, lockVars, LifeInv, TypeOK,
    TStep, TGoto, writerVars, Terms, Procs, TCritical, THolding
<1>7. WriterInv'
  BY <1>1, <1>2, <1>3 DEF FinMark, At, durableVars, lockVars, LifeInv,
    WriterInv, WAdmitted, writerVars
<1>8. TermInv'
  BY <1>1, <1>2, NoRefinalize DEF FinMark, At, durableVars, lockVars,
    LifeInv, TypeOK, TermInv, LiveSessionHasPart, RenameInv, Receiving,
    TGated, TCritical, THolding, TStep, TGoto, NoRefinalize
<1>9. (RenameInv /\ LiveSessionHasPart /\ PublishedWhole)'
  BY <1>1 DEF FinMark, At, durableVars, lockVars, LifeInv, TypeOK,
    WriterInv, TermInv, RenameInv, LiveSessionHasPart, PublishedWhole,
    Receiving
<1> QED
  BY <1>5, <1>6, <1>7, <1>8, <1>9 DEF LifeInv

(* Finalize fails before it has published; the part is still there. *)
LEMMA FinFailPreserves ==
  ASSUME NoRefinalize, LifeInv, NEW t \in Terms, FinFail(t)
  PROVE  LifeInv'
<1>1. tpc[t] \in TCritical /\ tpc[t] \in TGated /\ share' = share
  BY DEF FinFail, At, SavedReceiving, Unlock, durableVars, lockVars, TGated,
    TCritical, THolding
<1>2. /\ \A u \in Terms : tpc[u] \in TGated => u = t
      /\ tpc[t] \in TCritical => \A w \in Writers : wpc[w] \notin WAdmitted
  BY <1>1, Alone
<1>3. UNCHANGED writerVars
  BY DEF FinFail, TReturn
<1>4. Ended => Ended'
  BY <1>1 DEF FinFail, At, SavedReceiving, Unlock, durableVars, lockVars,
    LifeInv, TypeOK, RenameInv, TermInv, Ended, Receiving
<1>5. barrier' \in BarrierType /\ FenceInv' /\ GateInv'
  BY <1>1, <1>4, ReturnFacts DEF FinFail
<1>6. TypeOK'
  BY <1>3, <1>5 DEF FinFail, At, SavedReceiving, Unlock, durableVars,
    lockVars, LifeInv, TypeOK, TReturn, TIdle, TGoto, writerVars, Terms,
    Procs, TCritical, THolding
<1>7. WriterInv'
  BY <1>1, <1>2, <1>3 DEF FinFail, At, SavedReceiving, Unlock, durableVars,
    lockVars, LifeInv, WriterInv, WAdmitted, writerVars
<1>8. TermInv'
  BY <1>1, <1>2 DEF FinFail, At, SavedReceiving, Unlock, durableVars,
    lockVars, LifeInv, TypeOK, TermInv, LiveSessionHasPart, RenameInv,
    Receiving, TGated, TCritical, THolding, TReturn, TIdle, TGoto
<1>9. (RenameInv /\ LiveSessionHasPart /\ PublishedWhole)'
  BY <1>1 DEF FinFail, At, SavedReceiving, Unlock, durableVars, lockVars,
    LifeInv, TypeOK, WriterInv, TermInv, RenameInv, LiveSessionHasPart,
    PublishedWhole, Receiving
<1> QED
  BY <1>5, <1>6, <1>7, <1>8, <1>9 DEF LifeInv

(* The part becomes the destination. *)
LEMMA FinPublishPreserves ==
  ASSUME NoRefinalize, LifeInv, NEW t \in Terms, FinPublish(t)
  PROVE  LifeInv'
<1>1. tpc[t] \in TCritical /\ tpc[t] \in TGated /\ share' = share
  BY DEF FinPublish, At, durableVars, lockVars, TGated, TCritical, THolding
<1>2. /\ \A u \in Terms : tpc[u] \in TGated => u = t
      /\ tpc[t] \in TCritical => \A w \in Writers : wpc[w] \notin WAdmitted
  BY <1>1, Alone
<1>3. UNCHANGED writerVars
  BY DEF FinPublish, TStep
<1>4. Ended => Ended'
  BY <1>1 DEF FinPublish, At, durableVars, lockVars, LifeInv, TypeOK,
    RenameInv, TermInv, Ended, Receiving
<1>5. barrier' \in BarrierType /\ FenceInv' /\ GateInv'
  <2> DEFINE pc == IF share = "copying" THEN "copied" ELSE "published"
  <2>1. pc \in TCritical
    BY DEF TCritical, THolding
  <2> QED
    BY <1>1, <1>4, <2>1, StepFacts DEF FinPublish, TStep, LifeInv, TypeOK
<1>6. TypeOK'
  BY <1>3, <1>5 DEF FinPublish, At, durableVars, lockVars, LifeInv, TypeOK,
    TStep, TGoto, writerVars, Terms, Procs, TCritical, THolding
<1>7. WriterInv'
  BY <1>1, <1>2, <1>3 DEF FinPublish, At, durableVars, lockVars, LifeInv,
    WriterInv, WAdmitted, writerVars
<1>8. TermInv'
  BY <1>1, <1>2 DEF FinPublish, At, durableVars, lockVars, LifeInv, TypeOK,
    TermInv, LiveSessionHasPart, RenameInv, Receiving, TGated, TCritical,
    THolding, TStep, TGoto
<1>9. (RenameInv /\ LiveSessionHasPart /\ PublishedWhole)'
  BY <1>1 DEF FinPublish, At, durableVars, lockVars, LifeInv, TypeOK,
    WriterInv, TermInv, RenameInv, LiveSessionHasPart, PublishedWhole,
    Receiving
<1> QED
  BY <1>5, <1>6, <1>7, <1>8, <1>9 DEF LifeInv

(* A copying share removes its scratch file. *)
LEMMA FinScratchPreserves ==
  ASSUME NoRefinalize, LifeInv, NEW t \in Terms, FinScratch(t)
  PROVE  LifeInv'
<1>1. tpc[t] \in TCritical /\ tpc[t] \in TGated /\ share' = share
  BY DEF FinScratch, At, durableVars, lockVars, TGated, TCritical, THolding
<1>2. /\ \A u \in Terms : tpc[u] \in TGated => u = t
      /\ tpc[t] \in TCritical => \A w \in Writers : wpc[w] \notin WAdmitted
  BY <1>1, Alone
<1>3. UNCHANGED writerVars
  BY DEF FinScratch, TStep
<1>4. Ended => Ended'
  BY <1>1 DEF FinScratch, At, durableVars, lockVars, LifeInv, TypeOK,
    RenameInv, TermInv, Ended, Receiving
<1>5. barrier' \in BarrierType /\ FenceInv' /\ GateInv'
  <2>1. "published" \in TCritical
    BY DEF TCritical, THolding
  <2> QED
    BY <1>1, <1>4, <2>1, StepFacts DEF FinScratch, TStep, LifeInv, TypeOK
<1>6. TypeOK'
  BY <1>3, <1>5 DEF FinScratch, At, durableVars, lockVars, LifeInv, TypeOK,
    TStep, TGoto, writerVars, Terms, Procs, TCritical, THolding
<1>7. WriterInv'
  BY <1>1, <1>2, <1>3 DEF FinScratch, At, durableVars, lockVars, LifeInv,
    WriterInv, WAdmitted, writerVars
<1>8. TermInv'
  BY <1>1, <1>2 DEF FinScratch, At, durableVars, lockVars, LifeInv, TypeOK,
    TermInv, LiveSessionHasPart, RenameInv, Receiving, TGated, TCritical,
    THolding, TStep, TGoto
<1>9. (RenameInv /\ LiveSessionHasPart /\ PublishedWhole)'
  BY <1>1 DEF FinScratch, At, durableVars, lockVars, LifeInv, TypeOK,
    WriterInv, TermInv, RenameInv, LiveSessionHasPart, PublishedWhole,
    Receiving
<1> QED
  BY <1>5, <1>6, <1>7, <1>8, <1>9 DEF LifeInv

(* The terminal state is saved, or not. *)
LEMMA FinDonePreserves ==
  ASSUME NoRefinalize, LifeInv, NEW t \in Terms, FinDone(t)
  PROVE  LifeInv'
<1>1. tpc[t] \in TCritical /\ tpc[t] \in TGated /\ share' = share
  BY DEF FinDone, At, Saved, ForgetRow, LockUsers, durableVars, lockVars,
    TGated, TCritical, THolding
<1>2. /\ \A u \in Terms : tpc[u] \in TGated => u = t
      /\ tpc[t] \in TCritical => \A w \in Writers : wpc[w] \notin WAdmitted
  BY <1>1, Alone
<1>3. UNCHANGED writerVars
  BY DEF FinDone, TStep
<1>4. Ended => Ended'
  BY <1>1 DEF FinDone, At, Saved, ForgetRow, LockUsers, durableVars,
    lockVars, LifeInv, TypeOK, RenameInv, TermInv, Ended, Receiving
<1>5. barrier' \in BarrierType /\ FenceInv' /\ GateInv'
  <2>1. "saved" \in TCritical
    BY DEF TCritical, THolding
  <2> QED
    BY <1>1, <1>4, <2>1, StepFacts DEF FinDone, TStep, LifeInv, TypeOK
<1>6. TypeOK'
  BY <1>3, <1>5 DEF FinDone, At, Saved, ForgetRow, LockUsers, durableVars,
    lockVars, LifeInv, TypeOK, TStep, TGoto, writerVars, Terms, Procs,
    TCritical, THolding
<1>7. WriterInv'
  BY <1>1, <1>2, <1>3 DEF FinDone, At, Saved, ForgetRow, LockUsers,
    durableVars, lockVars, LifeInv, WriterInv, WAdmitted, writerVars
<1>8. TermInv'
  BY <1>1, <1>2 DEF FinDone, At, Saved, ForgetRow, LockUsers, durableVars,
    lockVars, LifeInv, TypeOK, TermInv, LiveSessionHasPart, RenameInv,
    Receiving, TGated, TCritical, THolding, TStep, TGoto
<1>9. (RenameInv /\ LiveSessionHasPart /\ PublishedWhole)'
  BY <1>1 DEF FinDone, At, Saved, ForgetRow, LockUsers, durableVars,
    lockVars, LifeInv, TypeOK, WriterInv, TermInv, RenameInv,
    LiveSessionHasPart, PublishedWhole, Receiving
<1> QED
  BY <1>5, <1>6, <1>7, <1>8, <1>9 DEF LifeInv

(* The row is deleted, or not; the session has ended. *)
LEMMA FinDeletePreserves ==
  ASSUME NoRefinalize, LifeInv, NEW t \in Terms, FinDelete(t)
  PROVE  LifeInv'
<1>1. tpc[t] \in TCritical /\ tpc[t] \in TGated /\ share' = share
  BY DEF FinDelete, At, Saved, Unlock, durableVars, lockVars, TGated,
    TCritical, THolding
<1>2. /\ \A u \in Terms : tpc[u] \in TGated => u = t
      /\ tpc[t] \in TCritical => \A w \in Writers : wpc[w] \notin WAdmitted
  BY <1>1, Alone
<1>3. UNCHANGED writerVars
  BY DEF FinDelete, TEnd
<1>4. share = "local" => Ended'
  BY <1>1 DEF FinDelete, At, Saved, Unlock, durableVars, lockVars, LifeInv,
    TypeOK, RenameInv, TermInv, Ended, Receiving
<1>5. barrier' \in BarrierType /\ FenceInv' /\ GateInv'
  BY <1>1, <1>4, EndFacts DEF FinDelete
<1>6. TypeOK'
  BY <1>3, <1>5 DEF FinDelete, At, Saved, Unlock, durableVars, lockVars,
    LifeInv, TypeOK, TEnd, TIdle, TGoto, writerVars, Terms, Procs,
    TCritical, THolding
<1>7. WriterInv'
  BY <1>1, <1>2, <1>3 DEF FinDelete, At, Saved, Unlock, durableVars,
    lockVars, LifeInv, WriterInv, WAdmitted, writerVars
<1>8. TermInv'
  BY <1>1, <1>2 DEF FinDelete, At, Saved, Unlock, durableVars, lockVars,
    LifeInv, TypeOK, TermInv, LiveSessionHasPart, RenameInv, Receiving,
    TGated, TCritical, THolding, TEnd, TIdle, TGoto
<1>9. (RenameInv /\ LiveSessionHasPart /\ PublishedWhole)'
  BY <1>1 DEF FinDelete, At, Saved, Unlock, durableVars, lockVars, LifeInv,
    TypeOK, WriterInv, TermInv, RenameInv, LiveSessionHasPart,
    PublishedWhole, Receiving
<1> QED
  BY <1>5, <1>6, <1>7, <1>8, <1>9 DEF LifeInv

(* Abort finds the session gone. *)
LEMMA AbortGonePreserves ==
  ASSUME NoRefinalize, LifeInv, NEW t \in Terms, AbortGone(t)
  PROVE  LifeInv'
<1>1. tpc[t] \in TCritical /\ tpc[t] \in TGated /\ share' = share
  BY DEF AbortGone, At, Unlock, durableVars, lockVars, TGated, TCritical,
    THolding
<1>2. /\ \A u \in Terms : tpc[u] \in TGated => u = t
      /\ tpc[t] \in TCritical => \A w \in Writers : wpc[w] \notin WAdmitted
  BY <1>1, Alone
<1>3. UNCHANGED writerVars
  BY DEF AbortGone, TEnd
<1>4. share = "local" => Ended'
  BY <1>1 DEF AbortGone, At, Unlock, durableVars, lockVars, LifeInv, TypeOK,
    RenameInv, TermInv, Ended, Receiving
<1>5. barrier' \in BarrierType /\ FenceInv' /\ GateInv'
  BY <1>1, <1>4, EndFacts DEF AbortGone
<1>6. TypeOK'
  BY <1>3, <1>5 DEF AbortGone, At, Unlock, durableVars, lockVars, LifeInv,
    TypeOK, TEnd, TIdle, TGoto, writerVars, Terms, Procs, TCritical,
    THolding
<1>7. WriterInv'
  BY <1>1, <1>2, <1>3 DEF AbortGone, At, Unlock, durableVars, lockVars,
    LifeInv, WriterInv, WAdmitted, writerVars
<1>8. TermInv'
  BY <1>1, <1>2 DEF AbortGone, At, Unlock, durableVars, lockVars, LifeInv,
    TypeOK, TermInv, LiveSessionHasPart, RenameInv, Receiving, TGated,
    TCritical, THolding, TEnd, TIdle, TGoto
<1>9. (RenameInv /\ LiveSessionHasPart /\ PublishedWhole)'
  BY <1>1 DEF AbortGone, At, Unlock, durableVars, lockVars, LifeInv, TypeOK,
    WriterInv, TermInv, RenameInv, LiveSessionHasPart, PublishedWhole,
    Receiving
<1> QED
  BY <1>5, <1>6, <1>7, <1>8, <1>9 DEF LifeInv

(* Abort marks the row. *)
LEMMA AbortMarkPreserves ==
  ASSUME NoRefinalize, LifeInv, NEW t \in Terms, AbortMark(t)
  PROVE  LifeInv'
<1>1. tpc[t] \in TCritical /\ tpc[t] \in TGated /\ share' = share
  BY DEF AbortMark, At, Unlock, durableVars, lockVars, TGated, TCritical,
    THolding
<1>2. /\ \A u \in Terms : tpc[u] \in TGated => u = t
      /\ tpc[t] \in TCritical => \A w \in Writers : wpc[w] \notin WAdmitted
  BY <1>1, Alone
<1>3. UNCHANGED writerVars
  BY DEF AbortMark, TStep
<1>4. Ended => Ended'
  BY <1>1 DEF AbortMark, At, Unlock, durableVars, lockVars, LifeInv, TypeOK,
    RenameInv, TermInv, Ended, Receiving
<1>5. barrier' \in BarrierType /\ FenceInv' /\ GateInv'
  <2>1. "aborted" \in TCritical
    BY DEF TCritical, THolding
  <2> QED
    BY <1>1, <1>4, <2>1, StepFacts DEF AbortMark, TStep, LifeInv, TypeOK
<1>6. TypeOK'
  BY <1>3, <1>5 DEF AbortMark, At, Unlock, durableVars, lockVars, LifeInv,
    TypeOK, TStep, TGoto, writerVars, Terms, Procs, TCritical, THolding
<1>7. WriterInv'
  BY <1>1, <1>2, <1>3 DEF AbortMark, At, Unlock, durableVars, lockVars,
    LifeInv, WriterInv, WAdmitted, writerVars
<1>8. TermInv'
  BY <1>1, <1>2 DEF AbortMark, At, Unlock, durableVars, lockVars, LifeInv,
    TypeOK, TermInv, LiveSessionHasPart, RenameInv, Receiving, TGated,
    TCritical, THolding, TStep, TGoto
<1>9. (RenameInv /\ LiveSessionHasPart /\ PublishedWhole)'
  BY <1>1 DEF AbortMark, At, Unlock, durableVars, lockVars, LifeInv, TypeOK,
    WriterInv, TermInv, RenameInv, LiveSessionHasPart, PublishedWhole,
    Receiving
<1> QED
  BY <1>5, <1>6, <1>7, <1>8, <1>9 DEF LifeInv

(* Abort removes the part. *)
LEMMA AbortUnlinkPreserves ==
  ASSUME NoRefinalize, LifeInv, NEW t \in Terms, AbortUnlink(t)
  PROVE  LifeInv'
<1>1. tpc[t] \in TCritical /\ tpc[t] \in TGated /\ share' = share
  BY DEF AbortUnlink, At, durableVars, lockVars, TGated, TCritical, THolding
<1>2. /\ \A u \in Terms : tpc[u] \in TGated => u = t
      /\ tpc[t] \in TCritical => \A w \in Writers : wpc[w] \notin WAdmitted
  BY <1>1, Alone
<1>3. UNCHANGED writerVars
  BY DEF AbortUnlink, TStep
<1>4. Ended => Ended'
  BY <1>1 DEF AbortUnlink, At, durableVars, lockVars, LifeInv, TypeOK,
    RenameInv, TermInv, Ended, Receiving
<1>5. barrier' \in BarrierType /\ FenceInv' /\ GateInv'
  <2>1. "unlinked" \in TCritical
    BY DEF TCritical, THolding
  <2> QED
    BY <1>1, <1>4, <2>1, StepFacts DEF AbortUnlink, TStep, LifeInv, TypeOK
<1>6. TypeOK'
  BY <1>3, <1>5 DEF AbortUnlink, At, durableVars, lockVars, LifeInv, TypeOK,
    TStep, TGoto, writerVars, Terms, Procs, TCritical, THolding
<1>7. WriterInv'
  BY <1>1, <1>2, <1>3 DEF AbortUnlink, At, durableVars, lockVars, LifeInv,
    WriterInv, WAdmitted, writerVars
<1>8. TermInv'
  BY <1>1, <1>2 DEF AbortUnlink, At, durableVars, lockVars, LifeInv, TypeOK,
    TermInv, LiveSessionHasPart, RenameInv, Receiving, TGated, TCritical,
    THolding, TStep, TGoto
<1>9. (RenameInv /\ LiveSessionHasPart /\ PublishedWhole)'
  BY <1>1 DEF AbortUnlink, At, durableVars, lockVars, LifeInv, TypeOK,
    WriterInv, TermInv, RenameInv, LiveSessionHasPart, PublishedWhole,
    Receiving
<1> QED
  BY <1>5, <1>6, <1>7, <1>8, <1>9 DEF LifeInv

(* Abort's cleanup fails; the row stays aborted. *)
LEMMA AbortStopsPreserves ==
  ASSUME NoRefinalize, LifeInv, NEW t \in Terms, AbortStops(t)
  PROVE  LifeInv'
<1>1. tpc[t] \in TCritical /\ tpc[t] \in TGated /\ share' = share
  BY DEF AbortStops, At, ForgetRow, LockUsers, durableVars, lockVars,
    TGated, TCritical, THolding
<1>2. /\ \A u \in Terms : tpc[u] \in TGated => u = t
      /\ tpc[t] \in TCritical => \A w \in Writers : wpc[w] \notin WAdmitted
  BY <1>1, Alone
<1>3. UNCHANGED writerVars
  BY DEF AbortStops, TEnd
<1>4. share = "local" => Ended'
  BY <1>1 DEF AbortStops, At, ForgetRow, LockUsers, durableVars, lockVars,
    LifeInv, TypeOK, RenameInv, TermInv, Ended, Receiving
<1>5. barrier' \in BarrierType /\ FenceInv' /\ GateInv'
  BY <1>1, <1>4, EndFacts DEF AbortStops
<1>6. TypeOK'
  BY <1>3, <1>5 DEF AbortStops, At, ForgetRow, LockUsers, durableVars,
    lockVars, LifeInv, TypeOK, TEnd, TIdle, TGoto, writerVars, Terms, Procs,
    TCritical, THolding
<1>7. WriterInv'
  BY <1>1, <1>2, <1>3 DEF AbortStops, At, ForgetRow, LockUsers, durableVars,
    lockVars, LifeInv, WriterInv, WAdmitted, writerVars
<1>8. TermInv'
  BY <1>1, <1>2 DEF AbortStops, At, ForgetRow, LockUsers, durableVars,
    lockVars, LifeInv, TypeOK, TermInv, LiveSessionHasPart, RenameInv,
    Receiving, TGated, TCritical, THolding, TEnd, TIdle, TGoto
<1>9. (RenameInv /\ LiveSessionHasPart /\ PublishedWhole)'
  BY <1>1 DEF AbortStops, At, ForgetRow, LockUsers, durableVars, lockVars,
    LifeInv, TypeOK, WriterInv, TermInv, RenameInv, LiveSessionHasPart,
    PublishedWhole, Receiving
<1> QED
  BY <1>5, <1>6, <1>7, <1>8, <1>9 DEF LifeInv

(* Abort deletes the row, or not. *)
LEMMA AbortDeletePreserves ==
  ASSUME NoRefinalize, LifeInv, NEW t \in Terms, AbortDelete(t)
  PROVE  LifeInv'
<1>1. tpc[t] \in TCritical /\ tpc[t] \in TGated /\ share' = share
  BY DEF AbortDelete, At, Saved, ForgetRow, LockUsers, durableVars,
    lockVars, TGated, TCritical, THolding
<1>2. /\ \A u \in Terms : tpc[u] \in TGated => u = t
      /\ tpc[t] \in TCritical => \A w \in Writers : wpc[w] \notin WAdmitted
  BY <1>1, Alone
<1>3. UNCHANGED writerVars
  BY DEF AbortDelete, TEnd
<1>4. share = "local" => Ended'
  BY <1>1 DEF AbortDelete, At, Saved, ForgetRow, LockUsers, durableVars,
    lockVars, LifeInv, TypeOK, RenameInv, TermInv, Ended, Receiving
<1>5. barrier' \in BarrierType /\ FenceInv' /\ GateInv'
  BY <1>1, <1>4, EndFacts DEF AbortDelete
<1>6. TypeOK'
  BY <1>3, <1>5 DEF AbortDelete, At, Saved, ForgetRow, LockUsers,
    durableVars, lockVars, LifeInv, TypeOK, TEnd, TIdle, TGoto, writerVars,
    Terms, Procs, TCritical, THolding
<1>7. WriterInv'
  BY <1>1, <1>2, <1>3 DEF AbortDelete, At, Saved, ForgetRow, LockUsers,
    durableVars, lockVars, LifeInv, WriterInv, WAdmitted, writerVars
<1>8. TermInv'
  BY <1>1, <1>2 DEF AbortDelete, At, Saved, ForgetRow, LockUsers,
    durableVars, lockVars, LifeInv, TypeOK, TermInv, LiveSessionHasPart,
    RenameInv, Receiving, TGated, TCritical, THolding, TEnd, TIdle, TGoto
<1>9. (RenameInv /\ LiveSessionHasPart /\ PublishedWhole)'
  BY <1>1 DEF AbortDelete, At, Saved, ForgetRow, LockUsers, durableVars,
    lockVars, LifeInv, TypeOK, WriterInv, TermInv, RenameInv,
    LiveSessionHasPart, PublishedWhole, Receiving
<1> QED
  BY <1>5, <1>6, <1>7, <1>8, <1>9 DEF LifeInv

(* The sweep's listing was stale. *)
LEMMA SweepSkipPreserves ==
  ASSUME NoRefinalize, LifeInv, SweepSkip
  PROVE  LifeInv'
<1>0. Sweeper \in Terms
  BY DEF Terms
<1>1. tpc[Sweeper] \in TCritical /\ tpc[Sweeper] \in TGated /\ share' = share
  BY DEF SweepSkip, At, Unlock, durableVars, lockVars, TGated, TCritical,
    THolding
<1>2. /\ \A u \in Terms : tpc[u] \in TGated => u = Sweeper
      /\ tpc[Sweeper] \in TCritical => \A w \in Writers : wpc[w] \notin WAdmitted
  BY <1>0, <1>1, Alone
<1>3. UNCHANGED writerVars
  BY DEF SweepSkip, TReturn
<1>4. Ended => Ended'
  BY <1>0, <1>1 DEF SweepSkip, At, Unlock, durableVars, lockVars, LifeInv,
    TypeOK, RenameInv, TermInv, Ended, Receiving
<1>5. barrier' \in BarrierType /\ FenceInv' /\ GateInv'
  BY <1>0, <1>1, <1>4, ReturnFacts DEF SweepSkip
<1>6. TypeOK'
  BY <1>0, <1>3, <1>5 DEF SweepSkip, At, Unlock, durableVars, lockVars,
    LifeInv, TypeOK, TReturn, TIdle, TGoto, writerVars, Terms, Procs,
    TCritical, THolding
<1>7. WriterInv'
  BY <1>0, <1>1, <1>2, <1>3 DEF SweepSkip, At, Unlock, durableVars,
    lockVars, LifeInv, WriterInv, WAdmitted, writerVars
<1>8. TermInv'
  BY <1>0, <1>1, <1>2 DEF SweepSkip, At, Unlock, durableVars, lockVars,
    LifeInv, TypeOK, TermInv, LiveSessionHasPart, RenameInv, Receiving,
    TGated, TCritical, THolding, TReturn, TIdle, TGoto
<1>9. (RenameInv /\ LiveSessionHasPart /\ PublishedWhole)'
  BY <1>0, <1>1 DEF SweepSkip, At, Unlock, durableVars, lockVars, LifeInv,
    TypeOK, WriterInv, TermInv, RenameInv, LiveSessionHasPart,
    PublishedWhole, Receiving
<1> QED
  BY <1>5, <1>6, <1>7, <1>8, <1>9 DEF LifeInv

(* The sweep finds the row expired or over. *)
LEMMA CollectMarkPreserves ==
  ASSUME NoRefinalize, LifeInv, CollectMark
  PROVE  LifeInv'
<1>0. Sweeper \in Terms
  BY DEF Terms
<1>1. tpc[Sweeper] \in TCritical /\ tpc[Sweeper] \in TGated /\ share' = share
  BY DEF CollectMark, At, Unlock, durableVars, lockVars, TGated, TCritical,
    THolding
<1>2. /\ \A u \in Terms : tpc[u] \in TGated => u = Sweeper
      /\ tpc[Sweeper] \in TCritical => \A w \in Writers : wpc[w] \notin WAdmitted
  BY <1>0, <1>1, Alone
<1>3. UNCHANGED writerVars
  BY DEF CollectMark, TStep
<1>4. Ended => Ended'
  BY <1>0, <1>1 DEF CollectMark, At, Unlock, durableVars, lockVars, LifeInv,
    TypeOK, RenameInv, TermInv, Ended, Receiving
<1>5. barrier' \in BarrierType /\ FenceInv' /\ GateInv'
  <2>1. "collecting" \in TCritical
    BY DEF TCritical, THolding
  <2> QED
    BY <1>0, <1>1, <1>4, <2>1, StepFacts DEF CollectMark, TStep, LifeInv,
      TypeOK
<1>6. TypeOK'
  BY <1>0, <1>3, <1>5 DEF CollectMark, At, Unlock, durableVars, lockVars,
    LifeInv, TypeOK, TStep, TGoto, writerVars, Terms, Procs, TCritical,
    THolding
<1>7. WriterInv'
  BY <1>0, <1>1, <1>2, <1>3 DEF CollectMark, At, Unlock, durableVars,
    lockVars, LifeInv, WriterInv, WAdmitted, writerVars
<1>8. TermInv'
  BY <1>0, <1>1, <1>2 DEF CollectMark, At, Unlock, durableVars, lockVars,
    LifeInv, TypeOK, TermInv, LiveSessionHasPart, RenameInv, Receiving,
    TGated, TCritical, THolding, TStep, TGoto
<1>9. (RenameInv /\ LiveSessionHasPart /\ PublishedWhole)'
  BY <1>0, <1>1 DEF CollectMark, At, Unlock, durableVars, lockVars, LifeInv,
    TypeOK, WriterInv, TermInv, RenameInv, LiveSessionHasPart,
    PublishedWhole, Receiving
<1> QED
  BY <1>5, <1>6, <1>7, <1>8, <1>9 DEF LifeInv

(* A finalizing row with its part receives again. *)
LEMMA RecoverReceivePreserves ==
  ASSUME NoRefinalize, LifeInv, RecoverReceive
  PROVE  LifeInv'
<1>0. Sweeper \in Terms
  BY DEF Terms
<1>1. tpc[Sweeper] \in TCritical /\ tpc[Sweeper] \in TGated /\ share' = share
  BY DEF RecoverReceive, At, SavedReceiving, Unlock, durableVars, lockVars,
    TGated, TCritical, THolding
<1>2. /\ \A u \in Terms : tpc[u] \in TGated => u = Sweeper
      /\ tpc[Sweeper] \in TCritical => \A w \in Writers : wpc[w] \notin WAdmitted
  BY <1>0, <1>1, Alone
<1>3. UNCHANGED writerVars
  BY DEF RecoverReceive, TReturn
<1>4. Ended => Ended'
  BY <1>0, <1>1 DEF RecoverReceive, At, SavedReceiving, Unlock, durableVars,
    lockVars, LifeInv, TypeOK, RenameInv, TermInv, Ended, Receiving
<1>5. barrier' \in BarrierType /\ FenceInv' /\ GateInv'
  BY <1>0, <1>1, <1>4, ReturnFacts DEF RecoverReceive
<1>6. TypeOK'
  BY <1>0, <1>3, <1>5 DEF RecoverReceive, At, SavedReceiving, Unlock,
    durableVars, lockVars, LifeInv, TypeOK, TReturn, TIdle, TGoto,
    writerVars, Terms, Procs, TCritical, THolding
<1>7. WriterInv'
  BY <1>0, <1>1, <1>2, <1>3 DEF RecoverReceive, At, SavedReceiving, Unlock,
    durableVars, lockVars, LifeInv, WriterInv, WAdmitted, writerVars
<1>8. TermInv'
  BY <1>0, <1>1, <1>2 DEF RecoverReceive, At, SavedReceiving, Unlock,
    durableVars, lockVars, LifeInv, TypeOK, TermInv, LiveSessionHasPart,
    RenameInv, Receiving, TGated, TCritical, THolding, TReturn, TIdle, TGoto
<1>9. (RenameInv /\ LiveSessionHasPart /\ PublishedWhole)'
  BY <1>0, <1>1 DEF RecoverReceive, At, SavedReceiving, Unlock, durableVars,
    lockVars, LifeInv, TypeOK, WriterInv, TermInv, RenameInv,
    LiveSessionHasPart, PublishedWhole, Receiving
<1> QED
  BY <1>5, <1>6, <1>7, <1>8, <1>9 DEF LifeInv

(* A finalizing row without its part is published. *)
LEMMA RecoverDonePreserves ==
  ASSUME NoRefinalize, LifeInv, RecoverDone
  PROVE  LifeInv'
<1>0. Sweeper \in Terms
  BY DEF Terms
<1>1. tpc[Sweeper] \in TCritical /\ tpc[Sweeper] \in TGated /\ share' = share
  BY DEF RecoverDone, At, Saved, Unlock, durableVars, lockVars, TGated,
    TCritical, THolding
<1>2. /\ \A u \in Terms : tpc[u] \in TGated => u = Sweeper
      /\ tpc[Sweeper] \in TCritical => \A w \in Writers : wpc[w] \notin WAdmitted
  BY <1>0, <1>1, Alone
<1>3. UNCHANGED writerVars
  BY DEF RecoverDone, TStep
<1>4. Ended => Ended'
  BY <1>0, <1>1 DEF RecoverDone, At, Saved, Unlock, durableVars, lockVars,
    LifeInv, TypeOK, RenameInv, TermInv, Ended, Receiving
<1>5. barrier' \in BarrierType /\ FenceInv' /\ GateInv'
  <2>1. "recovered" \in TCritical
    BY DEF TCritical, THolding
  <2> QED
    BY <1>0, <1>1, <1>4, <2>1, StepFacts DEF RecoverDone, TStep, LifeInv,
      TypeOK
<1>6. TypeOK'
  BY <1>0, <1>3, <1>5 DEF RecoverDone, At, Saved, Unlock, durableVars,
    lockVars, LifeInv, TypeOK, TStep, TGoto, writerVars, Terms, Procs,
    TCritical, THolding
<1>7. WriterInv'
  BY <1>0, <1>1, <1>2, <1>3 DEF RecoverDone, At, Saved, Unlock, durableVars,
    lockVars, LifeInv, WriterInv, WAdmitted, writerVars
<1>8. TermInv'
  BY <1>0, <1>1, <1>2 DEF RecoverDone, At, Saved, Unlock, durableVars,
    lockVars, LifeInv, TypeOK, TermInv, LiveSessionHasPart, RenameInv,
    Receiving, TGated, TCritical, THolding, TStep, TGoto
<1>9. (RenameInv /\ LiveSessionHasPart /\ PublishedWhole)'
  BY <1>0, <1>1 DEF RecoverDone, At, Saved, Unlock, durableVars, lockVars,
    LifeInv, TypeOK, WriterInv, TermInv, RenameInv, LiveSessionHasPart,
    PublishedWhole, Receiving
<1> QED
  BY <1>5, <1>6, <1>7, <1>8, <1>9 DEF LifeInv

(* The published row is deleted, or not. *)
LEMMA RecoverDeletePreserves ==
  ASSUME NoRefinalize, LifeInv, RecoverDelete
  PROVE  LifeInv'
<1>0. Sweeper \in Terms
  BY DEF Terms
<1>1. tpc[Sweeper] \in TCritical /\ tpc[Sweeper] \in TGated /\ share' = share
  BY DEF RecoverDelete, At, Saved, ForgetRow, LockUsers, durableVars,
    lockVars, TGated, TCritical, THolding
<1>2. /\ \A u \in Terms : tpc[u] \in TGated => u = Sweeper
      /\ tpc[Sweeper] \in TCritical => \A w \in Writers : wpc[w] \notin WAdmitted
  BY <1>0, <1>1, Alone
<1>3. UNCHANGED writerVars
  BY DEF RecoverDelete, TEnd
<1>4. share = "local" => Ended'
  BY <1>0, <1>1 DEF RecoverDelete, At, Saved, ForgetRow, LockUsers,
    durableVars, lockVars, LifeInv, TypeOK, RenameInv, TermInv, Ended,
    Receiving
<1>5. barrier' \in BarrierType /\ FenceInv' /\ GateInv'
  BY <1>0, <1>1, <1>4, EndFacts DEF RecoverDelete
<1>6. TypeOK'
  BY <1>0, <1>3, <1>5 DEF RecoverDelete, At, Saved, ForgetRow, LockUsers,
    durableVars, lockVars, LifeInv, TypeOK, TEnd, TIdle, TGoto, writerVars,
    Terms, Procs, TCritical, THolding
<1>7. WriterInv'
  BY <1>0, <1>1, <1>2, <1>3 DEF RecoverDelete, At, Saved, ForgetRow,
    LockUsers, durableVars, lockVars, LifeInv, WriterInv, WAdmitted,
    writerVars
<1>8. TermInv'
  BY <1>0, <1>1, <1>2 DEF RecoverDelete, At, Saved, ForgetRow, LockUsers,
    durableVars, lockVars, LifeInv, TypeOK, TermInv, LiveSessionHasPart,
    RenameInv, Receiving, TGated, TCritical, THolding, TEnd, TIdle, TGoto
<1>9. (RenameInv /\ LiveSessionHasPart /\ PublishedWhole)'
  BY <1>0, <1>1 DEF RecoverDelete, At, Saved, ForgetRow, LockUsers,
    durableVars, lockVars, LifeInv, TypeOK, WriterInv, TermInv, RenameInv,
    LiveSessionHasPart, PublishedWhole, Receiving
<1> QED
  BY <1>5, <1>6, <1>7, <1>8, <1>9 DEF LifeInv

(* The sweep removes the part of an expired session, or gives up. *)
LEMMA CollectUnlinkPreserves ==
  ASSUME LifeInv, CollectUnlink
  PROVE  LifeInv'
<1>0. Sweeper \in Terms
  BY DEF Terms
<1>1. tpc[Sweeper] \in TCritical /\ tpc[Sweeper] \in TGated /\ share' = share
  BY DEF CollectUnlink, At, TGated, TCritical, THolding
<1>2. /\ \A u \in Terms : tpc[u] \in TGated => u = Sweeper
      /\ \A w \in Writers : wpc[w] \notin WAdmitted
  BY <1>0, <1>1, Alone
<1>3. UNCHANGED writerVars
  BY DEF CollectUnlink, TStep, TReturn
<1>4. Ended => Ended'
  BY <1>0 DEF CollectUnlink, LifeInv, TypeOK, Ended
<1>5. barrier' \in BarrierType /\ FenceInv' /\ GateInv'
  <2>1. CASE TStep(Sweeper, "swept")
    <3>1. "swept" \in TCritical
      BY DEF TCritical
    <3> QED
      BY <1>0, <1>1, <1>4, <2>1, <3>1, StepFacts DEF TStep, LifeInv, TypeOK
  <2>2. CASE TReturn(Sweeper)
    BY <1>0, <1>1, <1>4, <2>2, ReturnFacts
  <2> QED
    BY <2>1, <2>2 DEF CollectUnlink
<1>p. part' \in BOOLEAN /\ (~part => ~part')
  <2>1. part' = FALSE \/ part' = part
    BY DEF CollectUnlink
  <2>2. part \in BOOLEAN
    BY DEF LifeInv, TypeOK
  <2>3. part' \in BOOLEAN
    BY <2>1, <2>2, Zenon
  <2>4. ~part => ~part'
    BY <2>1
  <2> QED
    BY <2>3, <2>4
<1>6. TypeOK'
  <2>1. CASE TStep(Sweeper, "swept")
    BY <1>0, <1>3, <1>5, <1>p, <2>1 DEF CollectUnlink, lockVars, LifeInv,
      TypeOK, TStep, TGoto, writerVars, TCritical
  <2>2. CASE TReturn(Sweeper)
    BY <1>0, <1>3, <1>5, <1>p, <2>2 DEF CollectUnlink, lockVars, LifeInv,
      TypeOK, TReturn, TIdle, TGoto, writerVars
  <2> QED
    BY <2>1, <2>2 DEF CollectUnlink
<1>7. WriterInv'
  BY <1>2, <1>3 DEF CollectUnlink, LifeInv, WriterInv, WAdmitted, writerVars
<1>8. TermInv'
  BY <1>0, <1>1, <1>2 DEF CollectUnlink, At, LifeInv, TypeOK, TermInv,
    Receiving, TGated, TCritical, THolding, TReturn, TStep, TIdle, TGoto
<1>9. (RenameInv /\ LiveSessionHasPart /\ PublishedWhole)'
  BY <1>0, <1>p DEF CollectUnlink, At, LifeInv, TermInv, RenameInv,
    LiveSessionHasPart, PublishedWhole, Receiving
<1> QED
  BY <1>5, <1>6, <1>7, <1>8, <1>9 DEF LifeInv

(* The sweep deletes the row, or fails to. *)
LEMMA CollectDeletePreserves ==
  ASSUME LifeInv, CollectDelete
  PROVE  LifeInv'
<1>0. Sweeper \in Terms
  BY DEF Terms
<1>1. tpc[Sweeper] \in TCritical /\ tpc[Sweeper] \in TGated /\ share' = share
  BY DEF CollectDelete, At, TGated, TCritical, THolding
<1>2. /\ \A u \in Terms : tpc[u] \in TGated => u = Sweeper
      /\ \A w \in Writers : wpc[w] \notin WAdmitted
  BY <1>0, <1>1, Alone
<1>3. UNCHANGED writerVars
  BY DEF CollectDelete, TEnd, TReturn
<1>5. barrier' \in BarrierType /\ FenceInv' /\ GateInv'
  <2>1. CASE row' = "gone" /\ TEnd(Sweeper)
    BY <1>0, <1>1, <2>1, EndFacts DEF Ended
  <2>2. CASE UNCHANGED row /\ TReturn(Sweeper)
    <3>1. Ended => Ended'
      BY <2>2 DEF CollectDelete, Ended
    <3> QED
      BY <1>0, <1>1, <2>2, <3>1, ReturnFacts
  <2> QED
    BY <2>1, <2>2 DEF CollectDelete
<1>6. TypeOK'
  <2>1. rowLock' \in Procs \cup {None} /\ orphans' \subseteq Procs
    BY DEF CollectDelete, ForgetRow, LockUsers, lockVars, LifeInv, TypeOK, Procs
  <2>2. TIdle(Sweeper)
    BY DEF CollectDelete, TEnd, TReturn
  <2> QED
    BY <1>0, <1>3, <1>5, <2>1, <2>2 DEF CollectDelete, LifeInv, TypeOK, TIdle,
      TGoto, writerVars
<1>7. WriterInv'
  BY <1>2, <1>3 DEF CollectDelete, LifeInv, WriterInv, WAdmitted, writerVars
<1>8. TermInv'
  BY <1>0, <1>1, <1>2 DEF CollectDelete, At, LifeInv, TypeOK, TermInv,
    TGated, TCritical, THolding, TReturn, TEnd, TIdle, TGoto
<1>9. (RenameInv /\ LiveSessionHasPart /\ PublishedWhole)'
  BY <1>0 DEF CollectDelete, At, LifeInv, RenameInv, LiveSessionHasPart,
    PublishedWhole, Receiving
<1> QED
  BY <1>5, <1>6, <1>7, <1>8, <1>9 DEF LifeInv

-----------------------------------------------------------------------------
(* The way to the fence.                                                   *)

(* A step that leaves the durable state alone leaves what is said of it. *)
LEMMA SameSession ==
  ASSUME LifeInv, UNCHANGED durableVars
  PROVE  /\ (RenameInv /\ LiveSessionHasPart /\ PublishedWhole)'
         /\ share' = share /\ (Ended' <=> Ended) /\ (Receiving' <=> Receiving)
BY DEF LifeInv, durableVars, RenameInv, LiveSessionHasPart, PublishedWhole,
  Ended, Receiving

(* A goroutine looks the barrier up: a reference more changes nothing else. *)
LEMMA EnterFacts ==
  ASSUME LifeInv, NEW t \in Terms, tpc[t] \in {"idle", "listed"},
         TGoto(t, "enter"), barrier' = Retain(barrier, t),
         UNCHANGED <<durableVars, writerVars, owner, tgen>>
  PROVE  barrier' \in BarrierType /\ FenceInv' /\ GateInv'
<1>1. barrier \in BarrierType /\ t \in Procs
  BY DEF LifeInv, TypeOK, Procs
<1>2. /\ barrier' \in BarrierType
      /\ barrier'.refs = barrier.refs \cup {t}
      /\ barrier'.active = barrier.active /\ barrier'.token = barrier.token
      /\ barrier'.closing = barrier.closing /\ barrier'.gen = barrier.gen
  BY <1>1 DEF Retain, BarrierType
<1>3. \A u \in Terms : tpc'[u] \in TGated <=> tpc[u] \in TGated
  BY DEF LifeInv, TypeOK, TGoto, TGated, TCritical, THolding
<1>4. \A u \in Terms : tpc'[u] \in TCritical <=> tpc[u] \in TCritical
  BY DEF LifeInv, TypeOK, TGoto, TCritical, THolding
<1>5. \A u \in Terms : u # t => tpc'[u] = tpc[u]
  BY DEF LifeInv, TypeOK, TGoto
<1>6. FenceInv'
  BY <1>2, <1>3, <1>4, <1>5 DEF LifeInv, FenceInv, writerVars
<1>7. GateInv'
  BY <1>2, <1>3, SameSession DEF LifeInv, GateInv
<1> QED
  BY <1>2, <1>6, <1>7

(* A request comes in. *)
LEMMA TCallPreserves ==
  ASSUME LifeInv, NEW t \in Terms, NEW k, TCall(t, k)
  PROVE  LifeInv'
<1>1. barrier' \in BarrierType /\ FenceInv' /\ GateInv'
  BY EnterFacts DEF TCall
<1>2. TypeOK'
  BY <1>1 DEF TCall, LifeInv, TypeOK, TGoto, durableVars, lockVars, writerVars
<1>3. WriterInv' /\ TermInv'
  BY SameSession DEF TCall, LifeInv, TypeOK, WriterInv, TermInv, TGoto,
    durableVars, writerVars
<1> QED
  BY <1>1, <1>2, <1>3, SameSession DEF LifeInv, TCall

(* The sweep reads its list. *)
LEMMA SweepListPreserves ==
  ASSUME LifeInv, SweepList
  PROVE  LifeInv'
<1>0. Sweeper \in Terms
  BY DEF Terms
<1>1. TypeOK'
  BY <1>0 DEF SweepList, LifeInv, TypeOK, TGoto, durableVars, lockVars,
    writerVars
<1>2. \A u \in Terms : /\ tpc'[u] \in TGated <=> tpc[u] \in TGated
                       /\ tpc'[u] \in TCritical <=> tpc[u] \in TCritical
                       /\ tpc'[u] = "enter" <=> tpc[u] = "enter"
  BY <1>0 DEF SweepList, LifeInv, TypeOK, TGoto, TGated, TCritical, THolding
<1>3. FenceInv' /\ GateInv'
  BY <1>2, SameSession DEF SweepList, LifeInv, FenceInv, GateInv, writerVars
<1>4. WriterInv' /\ TermInv'
  BY <1>0, SameSession DEF SweepList, LifeInv, TypeOK, WriterInv, TermInv,
    TGoto, durableVars, writerVars
<1> QED
  BY <1>1, <1>3, <1>4, SameSession DEF LifeInv, SweepList

(* The sweep goes to the barrier of a listed session. *)
LEMMA SweepEnterPreserves ==
  ASSUME LifeInv, SweepEnter
  PROVE  LifeInv'
<1>0. Sweeper \in Terms
  BY DEF Terms
<1>1. barrier' \in BarrierType /\ FenceInv' /\ GateInv'
  BY <1>0, EnterFacts DEF SweepEnter
<1>2. TypeOK'
  BY <1>0, <1>1 DEF SweepEnter, LifeInv, TypeOK, TGoto, durableVars, lockVars,
    writerVars
<1>3. WriterInv' /\ TermInv'
  BY <1>0, SameSession DEF SweepEnter, LifeInv, TypeOK, WriterInv, TermInv,
    TGoto, durableVars, writerVars
<1> QED
  BY <1>1, <1>2, <1>3, SameSession DEF LifeInv, SweepEnter

(* The terminal token is taken and the gate is closed. *)
LEMMA TClosePreserves ==
  ASSUME LifeInv, NEW t \in Terms, TClose(t)
  PROVE  LifeInv'
<1> DEFINE g == IF barrier.closing THEN barrier.gen ELSE barrier.gen + 1
<1>1. barrier \in BarrierType /\ barrier.token = None /\ g \in Nat
  BY DEF LifeInv, TypeOK, TClose, BarrierType
<1>2. t # None /\ \A u \in Terms : tpc[u] \notin TGated
  BY <1>1, ProcsAssumption DEF LifeInv, FenceInv, Procs
<1>3. /\ barrier' \in BarrierType
      /\ barrier'.refs = barrier.refs /\ barrier'.active = barrier.active
      /\ barrier'.token = t /\ barrier'.closing /\ barrier'.gen = g
  <2>1. \A f \in BOOLEAN, h \in BOOLEAN : LET b == [barrier EXCEPT
              !.token = t, !.closing = f, !.gen = g, !.terminalActive = h]
          IN /\ b \in BarrierType
             /\ b.refs = barrier.refs /\ b.active = barrier.active
             /\ b.token = t /\ b.closing = f /\ b.gen = g
    BY <1>1 DEF BarrierType
  <2>2. (kind[t] \in {"finalize", "abort"}) \in BOOLEAN
    OBVIOUS
  <2>3. barrier' = [barrier EXCEPT !.token = t, !.closing = TRUE, !.gen = g,
                      !.terminalActive = kind[t] \in {"finalize", "abort"}]
    BY DEF TClose
  <2> QED
    BY <2>1, <2>2, <2>3, Zenon
<1>4. /\ tpc'[t] = "fence" /\ owner'[t] = ~barrier.closing /\ tgen'[t] = g
      /\ \A u \in Terms : u # t => tpc'[u] = tpc[u]
  BY DEF TClose, LifeInv, TypeOK, TGoto
<1>5. FenceInv'
  BY <1>2, <1>3, <1>4 DEF TClose, LifeInv, FenceInv, TGated, TCritical,
    THolding, writerVars
<1>6. GateInv'
  BY <1>1, <1>2, <1>3, <1>4, SameSession DEF TClose, LifeInv, GateInv
<1>7. TypeOK'
  <2>1. (~barrier.closing) \in BOOLEAN
    OBVIOUS
  <2>2. owner' \in [Terms -> BOOLEAN]
    BY <2>1 DEF TClose, LifeInv, TypeOK
  <2> QED
    BY <1>1, <1>3, <2>2 DEF TClose, LifeInv, TypeOK, TGoto, durableVars,
      lockVars, writerVars
<1>8. WriterInv' /\ TermInv'
  BY <1>4, SameSession DEF TClose, LifeInv, WriterInv, TermInv, durableVars,
    writerVars
<1> QED
  BY <1>5, <1>6, <1>7, <1>8, SameSession DEF LifeInv, TClose

(* The caller leaves before it has the token. *)
LEMMA TLeavePreserves ==
  ASSUME LifeInv, NEW t \in Terms, TLeave(t)
  PROVE  LifeInv'
<1>1. barrier \in BarrierType /\ barrier' = Release(barrier, t)
      /\ t \notin Writers /\ barrier.active \subseteq Writers
  BY ProcsAssumption DEF LifeInv, TypeOK, TLeave, BarrierType
<1>2. /\ barrier' \in BarrierType
      /\ \/ barrier.refs \subseteq {t} /\ barrier' = NewBarrier
         \/ /\ barrier'.refs = barrier.refs \ {t}
            /\ barrier'.active = barrier.active
            /\ barrier'.token = barrier.token
            /\ barrier'.closing = barrier.closing
            /\ barrier'.gen = barrier.gen
  BY <1>1, ReleaseFacts
<1>3. /\ tpc[t] = "enter" /\ tpc'[t] = "idle"
      /\ \A u \in Terms : u # t => /\ tpc'[u] = tpc[u] /\ owner'[u] = owner[u]
                                   /\ tgen'[u] = tgen[u]
  BY DEF TLeave, TIdle, TGoto, LifeInv, TypeOK
<1>4. \A u \in Terms : tpc'[u] \in TGated \cup {"enter"} =>
        u # t /\ u \in barrier.refs /\ tpc[u] \in TGated \cup {"enter"}
  BY <1>3 DEF LifeInv, FenceInv, TGated, TCritical, THolding
<1>5. FenceInv'
  <2>1. CASE barrier.refs \subseteq {t} /\ barrier' = NewBarrier
    <3>1. \A w \in Writers : wpc[w] \notin WAdmitted
      BY <1>1, <2>1 DEF LifeInv, FenceInv
    <3> QED
      BY <1>4, <2>1, <3>1 DEF TLeave, FenceInv, NewBarrier, TGated, writerVars
  <2>2. CASE /\ barrier'.refs = barrier.refs \ {t}
             /\ barrier'.active = barrier.active
             /\ barrier'.token = barrier.token
             /\ barrier'.closing = barrier.closing
    BY <1>1, <1>3, <1>4, <2>2 DEF TLeave, LifeInv, FenceInv, TGated,
      TCritical, THolding, writerVars
  <2> QED
    BY <1>2, <2>1, <2>2
<1>6. GateInv'
  <2>1. CASE barrier.refs \subseteq {t} /\ barrier' = NewBarrier
    BY <1>4, <2>1 DEF GateInv, NewBarrier
  <2>2. CASE /\ barrier'.token = barrier.token
             /\ barrier'.closing = barrier.closing
             /\ barrier'.gen = barrier.gen
    BY <1>3, <1>4, <2>2, SameSession DEF TLeave, LifeInv, GateInv, TGated,
      TCritical, THolding
  <2> QED
    BY <1>2, <2>1, <2>2
<1>7. TypeOK'
  BY <1>2 DEF TLeave, TIdle, TGoto, LifeInv, TypeOK, durableVars, lockVars,
    writerVars
<1>8. WriterInv' /\ TermInv'
  BY <1>3, SameSession DEF TLeave, LifeInv, WriterInv, TermInv, durableVars,
    writerVars
<1> QED
  BY <1>5, <1>6, <1>7, <1>8, SameSession DEF LifeInv, TLeave

(* The last admitted body has left. *)
LEMMA TFencedPreserves ==
  ASSUME LifeInv, NEW t \in Terms, TFenced(t)
  PROVE  LifeInv'
<1>1. tpc[t] \in TGated /\ "lock" \in TCritical
  BY DEF TFenced, TGated, TCritical
<1>2. tpc'[t] = "lock" /\ \A u \in Terms : u # t => tpc'[u] = tpc[u]
  BY DEF TFenced, LifeInv, TypeOK, TGoto
<1>3. FenceInv' /\ GateInv'
  BY <1>1, <1>2, SameSession DEF TFenced, LifeInv, FenceInv, GateInv, TGated,
    writerVars
<1>4. TypeOK'
  BY <1>1 DEF TFenced, TGoto, LifeInv, TypeOK, durableVars, lockVars, writerVars
<1>5. WriterInv' /\ TermInv'
  BY <1>2, SameSession DEF TFenced, LifeInv, WriterInv, TermInv, durableVars,
    writerVars
<1> QED
  BY <1>3, <1>4, <1>5, SameSession DEF LifeInv, TFenced

(* The row lock is taken. *)
LEMMA TLockPreserves ==
  ASSUME LifeInv, NEW t \in Terms, TLock(t)
  PROVE  LifeInv'
<1>1. tpc[t] \in TCritical /\ "locked" \in TCritical
  BY DEF TLock, TCritical, THolding
<1>2. tpc'[t] = "locked" /\ \A u \in Terms : u # t => tpc'[u] = tpc[u]
  BY DEF TLock, LifeInv, TypeOK, TGoto
<1>3. FenceInv' /\ GateInv'
  BY <1>1, SameSession, StepFacts DEF TLock, TStep
<1>4. TypeOK'
  BY <1>1 DEF TLock, Lock, TGoto, LifeInv, TypeOK, durableVars, lockVars,
    writerVars, Procs
<1>5. WriterInv' /\ TermInv'
  BY <1>2, SameSession DEF TLock, LifeInv, WriterInv, TermInv, durableVars,
    writerVars
<1> QED
  BY <1>3, <1>4, <1>5, SameSession DEF LifeInv, TLock

-----------------------------------------------------------------------------
(* PATCH handlers.                                                         *)

(* A writer's step that neither takes nor gives back a lease. *)
LEMMA WriterStepFacts ==
  ASSUME LifeInv, NEW w \in Writers, NEW pc, WGoto(w, pc),
         pc \in WAdmitted <=> wpc[w] \in WAdmitted,
         UNCHANGED <<barrier, termVars>>, share' = share, Ended' <=> Ended
  PROVE  FenceInv' /\ GateInv'
<1>1. \A v \in Writers : wpc'[v] \in WAdmitted <=> wpc[v] \in WAdmitted
  BY DEF LifeInv, TypeOK, WGoto
<1>2. FenceInv'
  BY <1>1 DEF LifeInv, FenceInv, termVars
<1>3. GateInv'
  BY DEF LifeInv, GateInv, termVars
<1> QED
  BY <1>2, <1>3

(* The handler returns and its lease goes back; the barrier may go with it. *)
LEMMA LeaseFacts ==
  ASSUME LifeInv, NEW w \in Writers, wpc[w] \in WAdmitted, WIdle(w),
         LeaseReleased(w), UNCHANGED termVars, share' = share, Ended' <=> Ended
  PROVE  barrier' \in BarrierType /\ FenceInv' /\ GateInv'
<1> DEFINE c == [barrier EXCEPT !.active = @ \ {w}]
<1>1. /\ c \in BarrierType /\ c.refs = barrier.refs
      /\ c.active = barrier.active \ {w} /\ c.token = barrier.token
      /\ c.closing = barrier.closing /\ c.gen = barrier.gen
  BY DEF LifeInv, TypeOK, BarrierType
<1>2. barrier' = Release(c, w)
  BY DEF LeaseReleased
<1> HIDE DEF c
<1>3. /\ barrier' \in BarrierType
      /\ \/ barrier.refs \subseteq {w} /\ barrier' = NewBarrier
         \/ /\ barrier'.refs = barrier.refs \ {w}
            /\ barrier'.active = barrier.active \ {w}
            /\ barrier'.token = barrier.token
            /\ barrier'.closing = barrier.closing
            /\ barrier'.gen = barrier.gen
  BY <1>1, <1>2, ReleaseFacts
<1>4. /\ wpc'[w] = "idle" /\ "idle" \notin WAdmitted
      /\ \A v \in Writers : v # w => wpc'[v] = wpc[v]
  BY DEF LifeInv, TypeOK, WIdle, WGoto, WAdmitted
<1>5. w \notin Terms
  BY ProcsAssumption
<1>6. CASE barrier.refs \subseteq {w} /\ barrier' = NewBarrier
  <2>1. \A t \in Terms : tpc'[t] \notin TGated \cup {"enter"}
    BY <1>5, <1>6 DEF LifeInv, FenceInv, termVars
  <2>2. \A v \in Writers : wpc'[v] \notin WAdmitted
    BY <1>4, <1>6 DEF LifeInv, FenceInv
  <2>3. FenceInv'
    BY <1>6, <2>1, <2>2 DEF FenceInv, NewBarrier, TGated
  <2>4. GateInv'
    BY <1>6, <2>1 DEF GateInv, NewBarrier
  <2> QED
    BY <1>3, <2>3, <2>4
<1>7. CASE /\ barrier'.refs = barrier.refs \ {w}
           /\ barrier'.active = barrier.active \ {w}
           /\ barrier'.token = barrier.token
           /\ barrier'.closing = barrier.closing
           /\ barrier'.gen = barrier.gen
  <2>1. FenceInv'
    BY <1>4, <1>5, <1>7 DEF LifeInv, FenceInv, termVars
  <2>2. GateInv'
    BY <1>7 DEF LifeInv, GateInv, termVars
  <2> QED
    BY <1>3, <2>1, <2>2
<1> QED
  BY <1>3, <1>6, <1>7

(* A chunk arrives. *)
LEMMA WStartPreserves ==
  ASSUME LifeInv, NEW w \in Writers, NEW b \in Bodies, WStart(w, b)
  PROVE  LifeInv'
<1>1. "lock1" \in WAdmitted <=> wpc[w] \in WAdmitted
  BY DEF WStart, WAdmitted
<1>2. FenceInv' /\ GateInv'
  BY <1>1, WriterStepFacts, SameSession DEF WStart
<1>3. TypeOK'
  BY DEF WStart, WGoto, WLocking, LifeInv, TypeOK, durableVars, lockVars,
    termVars
<1>4. WriterInv' /\ TermInv'
  BY SameSession DEF WStart, WGoto, LifeInv, TypeOK, WriterInv, TermInv,
    durableVars, termVars
<1> QED
  BY <1>2, <1>3, <1>4, SameSession DEF LifeInv, WStart

(* The row lock is taken. *)
LEMMA WLockPreserves ==
  ASSUME LifeInv, NEW w \in Writers, WLock(w)
  PROVE  LifeInv'
<1>1. PICK pc \in {"got1", "got2"} :
        /\ WGoto(w, pc) /\ wpc[w] = IF pc = "got1" THEN "lock1" ELSE "lock2"
  BY DEF WLock
<1>2. pc \in WAdmitted <=> wpc[w] \in WAdmitted
  BY <1>1 DEF WAdmitted
<1>3. FenceInv' /\ GateInv'
  BY <1>1, <1>2, WriterStepFacts, SameSession DEF WLock
<1>4. TypeOK'
  BY <1>1 DEF WLock, WGoto, Lock, WLocking, LifeInv, TypeOK, durableVars,
    lockVars, termVars, Procs
<1>5. WriterInv' /\ TermInv'
  BY <1>1, SameSession DEF WLock, WGoto, LifeInv, TypeOK, WriterInv, TermInv,
    durableVars, termVars
<1> QED
  BY <1>3, <1>4, <1>5, SameSession DEF LifeInv, WLock

(* The chunk's row is read. *)
LEMMA WLoadPreserves ==
  ASSUME LifeInv, NEW w \in Writers, WLoad(w)
  PROVE  LifeInv'
<1>1. "admit" \in WAdmitted <=> wpc[w] \in WAdmitted
  BY DEF WLoad, WAdmitted
<1>2. FenceInv' /\ GateInv'
  BY <1>1, WriterStepFacts, SameSession DEF WLoad
<1>3. TypeOK'
  BY DEF WLoad, WGoto, WLocking, LifeInv, TypeOK, durableVars, lockVars,
    termVars
<1>4. WriterInv' /\ TermInv'
  BY SameSession DEF WLoad, WGoto, LifeInv, TypeOK, WriterInv, TermInv,
    durableVars, termVars
<1> QED
  BY <1>2, <1>3, <1>4, SameSession DEF LifeInv, WLoad

(* The chunk is refused. *)
LEMMA WRefusePreserves ==
  ASSUME LifeInv, NEW w \in Writers, WRefuse(w)
  PROVE  LifeInv'
<1>1. "idle" \in WAdmitted <=> wpc[w] \in WAdmitted
  BY DEF WRefuse, WAdmitted
<1>2. FenceInv' /\ GateInv'
  BY <1>1, WriterStepFacts, SameSession DEF WRefuse, WIdle
<1>3. TypeOK'
  BY DEF WRefuse, WIdle, WGoto, Unlock, LifeInv, TypeOK, durableVars, termVars
<1>4. WriterInv' /\ TermInv'
  BY SameSession DEF WRefuse, WIdle, WGoto, LifeInv, TypeOK, WriterInv,
    TermInv, durableVars, termVars
<1> QED
  BY <1>2, <1>3, <1>4, SameSession DEF LifeInv, WRefuse

(* The writer is admitted through an open gate, so nobody is past a fence. *)
LEMMA WAdmitPreserves ==
  ASSUME LifeInv, NEW w \in Writers, WAdmit(w)
  PROVE  LifeInv'
<1>1. barrier \in BarrierType /\ ~barrier.closing /\ w \in Procs
  BY DEF LifeInv, TypeOK, WAdmit, Procs
<1>2. /\ barrier' \in BarrierType
      /\ barrier'.refs = barrier.refs \cup {w}
      /\ barrier'.active = barrier.active \cup {w}
      /\ barrier'.token = barrier.token
      /\ barrier'.closing = barrier.closing /\ barrier'.gen = barrier.gen
  BY <1>1 DEF WAdmit, Retain, BarrierType
<1>3. /\ wpc'[w] = "body" /\ "body" \in WAdmitted
      /\ \A v \in Writers : v # w => wpc'[v] = wpc[v]
  BY DEF WAdmit, LifeInv, TypeOK, WGoto, WAdmitted
<1>4. \A t \in Terms : tpc[t] \notin TGated
  BY <1>1 DEF LifeInv, FenceInv
<1>5. FenceInv' /\ GateInv'
  BY <1>1, <1>2, <1>3, <1>4 DEF WAdmit, LifeInv, FenceInv, GateInv, TGated,
    termVars
<1>6. TypeOK'
  BY <1>1, <1>2 DEF WAdmit, WGoto, Unlock, LifeInv, TypeOK, BarrierType,
    durableVars, termVars
<1>7. WriterInv' /\ TermInv'
  BY SameSession DEF WAdmit, WGoto, LifeInv, TypeOK, WriterInv, TermInv,
    durableVars, termVars
<1> QED
  BY <1>5, <1>6, <1>7, SameSession DEF LifeInv, WAdmit

(* The body has been staged. *)
LEMMA WStagedPreserves ==
  ASSUME LifeInv, NEW w \in Writers, WStaged(w)
  PROVE  LifeInv'
<1>1. "lock2" \in WAdmitted <=> wpc[w] \in WAdmitted
  BY DEF WStaged, WAdmitted
<1>2. FenceInv' /\ GateInv'
  BY <1>1, WriterStepFacts, SameSession DEF WStaged
<1>3. TypeOK'
  BY DEF WStaged, WGoto, WLocking, LifeInv, TypeOK, durableVars, lockVars,
    termVars
<1>4. WriterInv' /\ TermInv'
  BY SameSession DEF WStaged, WGoto, LifeInv, TypeOK, WriterInv, TermInv,
    durableVars, termVars
<1> QED
  BY <1>2, <1>3, <1>4, SameSession DEF LifeInv, WStaged

(* The body breaks off. *)
LEMMA WBodyFailsPreserves ==
  ASSUME LifeInv, NEW w \in Writers, WBodyFails(w)
  PROVE  LifeInv'
<1>1. wpc[w] \in WAdmitted
  BY DEF WBodyFails, WAdmitted
<1>2. barrier' \in BarrierType /\ FenceInv' /\ GateInv'
  BY <1>1, LeaseFacts, SameSession DEF WBodyFails
<1>3. TypeOK'
  BY <1>2 DEF WBodyFails, WIdle, WGoto, LifeInv, TypeOK, durableVars, lockVars,
    termVars
<1>4. WriterInv' /\ TermInv'
  BY SameSession DEF WBodyFails, WIdle, WGoto, LifeInv, TypeOK, WriterInv,
    TermInv, durableVars, termVars
<1> QED
  BY <1>2, <1>3, <1>4, SameSession DEF LifeInv, WBodyFails

(* The row is still receiving when it is read again. *)
LEMMA WCheckPreserves ==
  ASSUME LifeInv, NEW w \in Writers, WCheck(w)
  PROVE  LifeInv'
<1>1. "checked" \in WAdmitted <=> wpc[w] \in WAdmitted
  BY DEF WCheck, WAdmitted
<1>2. FenceInv' /\ GateInv'
  BY <1>1, WriterStepFacts, SameSession DEF WCheck
<1>3. TypeOK'
  BY DEF WCheck, WGoto, WLocking, LifeInv, TypeOK, durableVars, lockVars,
    termVars
<1>4. WriterInv' /\ TermInv'
  BY SameSession DEF WCheck, WGoto, LifeInv, TypeOK, WriterInv, TermInv,
    durableVars, termVars, Receiving
<1> QED
  BY <1>2, <1>3, <1>4, SameSession DEF LifeInv, WCheck

(* The bytes go into the part, which no publication has taken yet. *)
LEMMA WWritePreserves ==
  ASSUME LifeInv, NEW w \in Writers, WWrite(w)
  PROVE  LifeInv'
<1>1. "written" \in WAdmitted <=> wpc[w] \in WAdmitted
  BY DEF WWrite, WAdmitted
<1>2. FenceInv' /\ GateInv'
  BY <1>1, WriterStepFacts DEF WWrite, Ended
<1>3. wbody[w] \in Bodies /\ row = "receiving"
  BY DEF WWrite, LifeInv, WriterInv
<1>4. TypeOK'
  BY <1>3 DEF WWrite, WGoto, WLocking, LifeInv, TypeOK, lockVars, termVars
<1>5. WriterInv' /\ TermInv'
  BY <1>3 DEF WWrite, WGoto, LifeInv, TypeOK, WriterInv, TermInv, termVars,
    Receiving
<1>6. (RenameInv /\ LiveSessionHasPart /\ PublishedWhole)'
  BY DEF WWrite, LifeInv, RenameInv, LiveSessionHasPart, PublishedWhole,
    Receiving
<1> QED
  BY <1>2, <1>4, <1>5, <1>6 DEF LifeInv

(* The range is recorded: the session lives on, and its part is there. *)
LEMMA WRecordPreserves ==
  ASSUME LifeInv, NEW w \in Writers, WRecord(w)
  PROVE  LifeInv'
<1>1. wpc[w] \in WAdmitted
  BY DEF WRecord, WAdmitted
<1>2. barrier' \in BarrierType /\ FenceInv' /\ GateInv'
  BY <1>1, LeaseFacts DEF WRecord, Ended
<1>3. wbody[w] \in Bodies /\ row = "receiving" /\ wbody[w] \in content /\ part
  BY DEF WRecord, LifeInv, WriterInv
<1>4. TypeOK'
  <2>1. expired' \in BOOLEAN
    BY Zenon DEF WRecord
  <2> QED
    BY <1>2, <1>3, <2>1 DEF WRecord, WIdle, WGoto, Unlock, LifeInv, TypeOK,
      termVars
<1>5. WriterInv'
  BY <1>3 DEF WRecord, WIdle, WGoto, LifeInv, TypeOK, WriterInv
<1>6. \A t \in Terms : tpc[t] \notin TCritical
  BY <1>1 DEF LifeInv, FenceInv
<1>7. TermInv'
  BY <1>6 DEF WRecord, TermInv, TCritical, THolding, termVars
<1>8. (RenameInv /\ LiveSessionHasPart /\ PublishedWhole)'
  BY <1>3 DEF WRecord, LifeInv, RenameInv, LiveSessionHasPart, PublishedWhole
<1> QED
  BY <1>2, <1>4, <1>5, <1>7, <1>8 DEF LifeInv

(* The commit is abandoned. *)
LEMMA WAbandonPreserves ==
  ASSUME LifeInv, NEW w \in Writers, WAbandon(w)
  PROVE  LifeInv'
<1>1. wpc[w] \in WAdmitted
  BY DEF WAbandon, WAdmitted
<1>2. barrier' \in BarrierType /\ FenceInv' /\ GateInv'
  BY <1>1, LeaseFacts, SameSession DEF WAbandon
<1>3. TypeOK'
  BY <1>2 DEF WAbandon, WIdle, WGoto, Unlock, LifeInv, TypeOK, durableVars,
    termVars
<1>4. WriterInv' /\ TermInv'
  BY SameSession DEF WAbandon, WIdle, WGoto, LifeInv, TypeOK, WriterInv,
    TermInv, durableVars, termVars
<1> QED
  BY <1>2, <1>3, <1>4, SameSession DEF LifeInv, WAbandon

-----------------------------------------------------------------------------
(* Time and failure.                                                       *)

(* The lifetime passes. *)
LEMMA ExpirePreserves ==
  ASSUME LifeInv, Expire
  PROVE  LifeInv'
<1>1. TypeOK'
  <2>1. expired' \in BOOLEAN
    BY Zenon DEF Expire
  <2> QED
    BY <2>1 DEF Expire, LifeInv, TypeOK, lockVars, writerVars, termVars
<1>2. FenceInv' /\ GateInv'
  BY DEF Expire, LifeInv, FenceInv, GateInv, Ended, writerVars, termVars
<1>3. WriterInv' /\ TermInv'
  BY DEF Expire, LifeInv, WriterInv, TermInv, Receiving, writerVars, termVars
<1>4. (RenameInv /\ LiveSessionHasPart /\ PublishedWhole)'
  BY DEF Expire, LifeInv, RenameInv, LiveSessionHasPart, PublishedWhole,
    Receiving
<1> QED
  BY <1>1, <1>2, <1>3, <1>4 DEF LifeInv

\* The process has just started.
Started ==
  /\ barrier = NewBarrier /\ rowLock = None /\ orphans = {}
  /\ wpc = [w \in Writers |-> "idle"] /\ wbody = [w \in Writers |-> None]
  /\ wgen = [w \in Writers |-> 0] /\ tpc = [t \in Terms |-> "idle"]
  /\ kind = [t \in Terms |-> "none"] /\ owner = [t \in Terms |-> FALSE]
  /\ tgen = [t \in Terms |-> 0]

(* Then all that is said of goroutines holds. *)
LEMMA StartFacts ==
  Started /\ recorded \subseteq content =>
    /\ barrier \in BarrierType /\ owner \in [Terms -> BOOLEAN]
    /\ FenceInv /\ WriterInv /\ TermInv /\ GateInv
<1> SUFFICES ASSUME Started, recorded \subseteq content
             PROVE  /\ barrier \in BarrierType /\ owner \in [Terms -> BOOLEAN]
                    /\ FenceInv /\ WriterInv /\ TermInv /\ GateInv
  OBVIOUS
<1>1. barrier \in BarrierType
  <2>1. FALSE \in BOOLEAN /\ None \in Terms \cup {None} /\ 0 \in Nat
    OBVIOUS
  <2>2. \A f \in BOOLEAN :
          [token |-> None, active |-> {}, closing |-> f, terminalActive |-> f,
           gen |-> 0, refs |-> {}] \in BarrierType
    BY DEF BarrierType
  <2> QED
    BY <2>1, <2>2, Zenon DEF Started, NewBarrier
<1>2. owner \in [Terms -> BOOLEAN]
  BY Zenon DEF Started
<1>3. FenceInv /\ WriterInv /\ TermInv
  BY DEF Started, FenceInv, WriterInv, TermInv, NewBarrier, WAdmitted, TGated,
    TCritical, THolding
<1>4. GateInv
  BY DEF Started, GateInv, NewBarrier, TGated, TCritical, THolding
<1> QED
  BY <1>1, <1>2, <1>3, <1>4

(* The process dies and starts again. *)
LEMMA CrashPreserves ==
  ASSUME LifeInv, Crash
  PROVE  LifeInv'
<1>1. (recorded \subseteq content)'
  BY DEF Crash, LifeInv, WriterInv, durableVars
<1>2. /\ (barrier \in BarrierType)' /\ (owner \in [Terms -> BOOLEAN])'
      /\ FenceInv' /\ WriterInv' /\ TermInv' /\ GateInv'
  <2>1. Started'
    BY DEF Crash, Started, NewBarrier
  <2> QED
    BY <1>1, <2>1, StartFacts, PTL
<1>3. TypeOK'
  BY <1>2 DEF Crash, LifeInv, TypeOK, durableVars
<1> QED
  BY <1>2, <1>3, SameSession DEF LifeInv, Crash

-----------------------------------------------------------------------------
(* The invariant.                                                          *)

(* The initial states satisfy it. *)
LEMMA LifeInvInit == Init => LifeInv
<1> SUFFICES ASSUME Init PROVE LifeInv
  OBVIOUS
<1>1. /\ barrier \in BarrierType /\ owner \in [Terms -> BOOLEAN]
      /\ FenceInv /\ WriterInv /\ TermInv /\ GateInv
  BY StartFacts DEF Init, Started
<1>2. expired \in BOOLEAN /\ part \in BOOLEAN
  BY Zenon DEF Init
<1>3. TypeOK
  BY <1>1, <1>2 DEF Init, TypeOK
<1>4. RenameInv /\ LiveSessionHasPart /\ PublishedWhole
  BY DEF Init, RenameInv, LiveSessionHasPart, PublishedWhole
<1> QED
  BY <1>1, <1>3, <1>4 DEF LifeInv

(* Every step preserves it. *)
LEMMA LifeInvNext ==
  ASSUME NoRefinalize, LifeInv, [Next]_vars
  PROVE  LifeInv'
<1>1. CASE UNCHANGED vars
  BY <1>1 DEF vars, durableVars, lockVars, writerVars, termVars, LifeInv,
    TypeOK, FenceInv, WriterInv, TermInv, RenameInv, GateInv, Ended,
    LiveSessionHasPart, PublishedWhole, Receiving
<1>2. ASSUME NEW w \in Writers, Patch(w) PROVE LifeInv'
  BY <1>2, WStartPreserves, WLockPreserves, WLoadPreserves, WRefusePreserves,
    WAdmitPreserves, WStagedPreserves, WBodyFailsPreserves, WCheckPreserves,
    WWritePreserves, WRecordPreserves, WAbandonPreserves DEF Patch
<1>3. ASSUME NEW t \in Terms, Fence(t) PROVE LifeInv'
  BY <1>3, TCallPreserves, TClosePreserves, TLeavePreserves, TGiveUpPreserves,
    TFencedPreserves, TLockPreserves, TRefusePreserves DEF Fence
<1>4. ASSUME NEW t \in Terms, Finalize(t) PROVE LifeInv'
  BY <1>4, FinMarkPreserves, FinFailPreserves, FinPublishPreserves,
    FinScratchPreserves, FinDonePreserves, FinDeletePreserves DEF Finalize
<1>5. ASSUME NEW t \in Terms, Abort(t) PROVE LifeInv'
  BY <1>5, AbortGonePreserves, AbortMarkPreserves, AbortUnlinkPreserves,
    AbortStopsPreserves, AbortDeletePreserves DEF Abort
<1>6. CASE Sweep
  BY <1>6, SweepListPreserves, SweepEnterPreserves, SweepSkipPreserves,
    CollectMarkPreserves, CollectUnlinkPreserves, CollectDeletePreserves,
    RecoverReceivePreserves, RecoverDonePreserves, RecoverDeletePreserves
    DEF Sweep
<1> QED
  BY <1>1, <1>2, <1>3, <1>4, <1>5, <1>6, ExpirePreserves, CrashPreserves
    DEF Next

(* The inductive invariant of the upload lifecycle. *)
THEOREM LifecycleInvariant == ASSUME NoRefinalize PROVE Spec => []LifeInv
<1>1. LifeInv /\ [Next]_vars => LifeInv'
  BY NoRefinalize, LifeInvNext
<1> QED
  BY LifeInvInit, <1>1, PTL DEF Spec

-----------------------------------------------------------------------------
(* What follows from it.                                                   *)

(* Every variable keeps its type, whatever is interleaved with whatever. *)
THEOREM LifecycleTypeCorrect == ASSUME NoRefinalize PROVE Spec => []TypeOK
<1>1. LifeInv => TypeOK
  BY DEF LifeInv
<1> QED
  BY NoRefinalize, LifecycleInvariant, <1>1, PTL

(* fenceWriters works although the barrier is dropped and made anew: past its *)
(* fence, a Finalize, Abort or sweep shares the session with no admitted body *)
(* and no other terminal operation.                                           *)
THEOREM FenceExcludes == ASSUME NoRefinalize PROVE Spec => []TerminalExclusive
<1>1. LifeInv => TerminalExclusive
  BY Alone DEF TerminalExclusive, TGated
<1> QED
  BY NoRefinalize, LifecycleInvariant, <1>1, PTL

(* A session that can be resumed has its part file, and a destination that    *)
(* was put in place holds every range.                                        *)
THEOREM SessionSafe ==
  ASSUME NoRefinalize PROVE Spec => [](LiveSessionHasPart /\ PublishedWhole)
<1>1. LifeInv => LiveSessionHasPart /\ PublishedWhole
  BY DEF LifeInv
<1> QED
  BY NoRefinalize, LifecycleInvariant, <1>1, PTL

(* On a share that publishes by one rename, no failure or crash after it      *)
(* makes the session resumable again.                                         *)
THEOREM PublishedStaysPublished ==
  ASSUME NoRefinalize PROVE Spec => []PublishedNotResumable
<1>1. LifeInv => PublishedNotResumable
  BY DEF LifeInv, RenameInv, PublishedNotResumable
<1> QED
  BY NoRefinalize, LifecycleInvariant, <1>1, PTL

(* A gate closed for an operation that did not end the session is open again  *)
(* when no terminal operation holds the token.                                *)
THEOREM GateDoesNotStick == ASSUME NoRefinalize PROVE Spec => []GateReopens
<1>1. LifeInv => GateReopens
  BY DEF LifeInv, GateInv, Ended, Receiving, GateReopens
<1> QED
  BY NoRefinalize, LifecycleInvariant, <1>1, PTL

(* Abort is the end of a session: no handler that was under way, no sweep and *)
(* no restart writes, publishes or revives it.                                *)
THEOREM AbortStandsForever == ASSUME NoRefinalize PROVE Spec => AbortIsFinal
<1> DEFINE A == row = "aborted" => /\ row' \in {"aborted", "gone"}
                                   /\ UNCHANGED <<content, dest, pubs>>
<1>1. ASSUME LifeInv, [Next]_vars PROVE [A]_vars
  <2> SUFFICES ASSUME row = "aborted", Next PROVE A
    BY <1>1
  <2>1. ASSUME NEW w \in Writers, Patch(w) PROVE A
    BY <1>1, <2>1 DEF Patch, WStart, WLock, WLoad, WRefuse, WAdmit, WStaged,
      WBodyFails, WCheck, WWrite, WRecord, WAbandon, durableVars, LifeInv,
      WriterInv
  <2>2. ASSUME NEW t \in Terms, Fence(t) PROVE A
    BY <2>2 DEF Fence, TCall, TClose, TLeave, TGiveUp, TFenced, TLock, TRefuse,
      durableVars
  <2>3. ASSUME NEW t \in Terms, Finalize(t) PROVE A
    BY <1>1, <2>3, NoRefinalize DEF Finalize, FinMark, FinFail, FinPublish,
      FinScratch, FinDone, FinDelete, At, Saved, SavedReceiving, LifeInv,
      TermInv, NoRefinalize
  <2>4. ASSUME NEW t \in Terms, Abort(t) PROVE A
    BY <2>4 DEF Abort, AbortGone, AbortMark, AbortUnlink, AbortStops,
      AbortDelete, Saved, durableVars
  <2>5. CASE Sweep
    BY <1>1, <2>5 DEF Sweep, SweepList, SweepEnter, SweepSkip, CollectMark,
      CollectUnlink, CollectDelete, RecoverReceive, RecoverDone,
      RecoverDelete, Saved, SavedReceiving, durableVars, LifeInv, TermInv
  <2>6. CASE Expire \/ Crash
    BY <2>6 DEF Expire, Crash, durableVars
  <2> QED
    BY <2>1, <2>2, <2>3, <2>4, <2>5, <2>6 DEF Next
<1>2. Spec => [][A]_vars
  BY NoRefinalize, LifecycleInvariant, <1>1, PTL DEF Spec
<1> QED
  BY <1>2 DEF AbortIsFinal

-----------------------------------------------------------------------------
(* The row lock.                                                           *)

\* Who is inside the row lock.
Holders == {w \in Writers : wpc[w] \in WHolding}
             \cup {t \in Terms : tpc[t] \in THolding}

\* Whoever is inside holds the mutex in the map or one that was forgotten, and
\* on a share that publishes by one rename a mutex is forgotten only when the
\* session has ended for good.
LockInv ==
  /\ \A p \in Holders : p \in orphans \/ rowLock = p
  /\ share = "local" /\ orphans # {} => Ended

(* A step that leaves the mutexes alone lets nobody in. *)
LEMMA NoLocking ==
  ASSUME LockInv, UNCHANGED lockVars, Holders' \subseteq Holders,
         share' = share, share = "local" /\ Ended => Ended'
  PROVE  LockInv'
BY DEF LockInv, lockVars

(* Taking the mutex in the map, or going on with a forgotten one. *)
LEMMA Locking ==
  ASSUME LockInv, NEW p \in Procs, Lock(p), Holders' \subseteq Holders \cup {p},
         Holders \subseteq Procs, share' = share, Ended' <=> Ended
  PROVE  LockInv'
BY ProcsAssumption DEF LockInv, Lock, lockVars

(* Giving back whichever of the two was held. *)
LEMMA Unlocking ==
  ASSUME LockInv, NEW p \in Holders, Unlock(p),
         Holders' \subseteq Holders \ {p},
         share' = share, share = "local" /\ Ended => Ended'
  PROVE  LockInv'
BY DEF LockInv, Unlock

(* forgetRow turns every user of the mutex in the map into an orphan. *)
LEMMA Forgetting ==
  ASSUME LockInv, ForgetRow, Holders' \subseteq LockUsers,
         share' = share, share = "local" => Ended'
  PROVE  LockInv'
BY DEF LockInv, ForgetRow

(* A PATCH handler takes and gives back the lock twice. *)
LEMMA PatchLocks ==
  ASSUME LifeInv, LockInv, NEW w \in Writers, Patch(w)
  PROVE  LockInv'
<1> USE DEF WGoto, WIdle, durableVars, termVars, WHolding
<1>t. /\ wpc \in [Writers -> WLocking \cup {"idle", "body"}] /\ w \in Procs
      /\ Holders \subseteq Procs /\ Writers \cap Terms = {}
  BY ProcsAssumption DEF LifeInv, TypeOK, Holders, Procs
<1>1. ASSUME NEW b \in Bodies, WStart(w, b) PROVE LockInv'
  BY <1>1, <1>t, NoLocking DEF WStart, Holders, Ended
<1>2. CASE WLock(w)
  BY <1>2, <1>t, Locking DEF WLock, Holders, Ended
<1>3. CASE WLoad(w)
  BY <1>3, <1>t, NoLocking DEF WLoad, Holders, Ended
<1>4. CASE WRefuse(w)
  <2>1. w \in Holders /\ Holders' \subseteq Holders \ {w}
    BY <1>4, <1>t DEF WRefuse, Holders
  <2> QED
    BY <1>4, <2>1, Unlocking DEF WRefuse, Ended
<1>5. CASE WAdmit(w)
  <2>1. w \in Holders /\ Holders' \subseteq Holders \ {w}
    BY <1>5, <1>t DEF WAdmit, Holders
  <2> QED
    BY <1>5, <2>1, Unlocking DEF WAdmit, Ended
<1>6. CASE WStaged(w)
  BY <1>6, <1>t, NoLocking DEF WStaged, Holders, Ended
<1>7. CASE WBodyFails(w)
  BY <1>7, <1>t, NoLocking DEF WBodyFails, Holders, Ended
<1>8. CASE WCheck(w)
  BY <1>8, <1>t, NoLocking DEF WCheck, Holders, Ended
<1>9. CASE WWrite(w)
  BY <1>9, <1>t, NoLocking DEF WWrite, Holders, Ended
<1>10. CASE WRecord(w)
  <2>1. w \in Holders /\ Holders' \subseteq Holders \ {w}
    BY <1>10, <1>t DEF WRecord, Holders
  <2> QED
    BY <1>10, <2>1, Unlocking DEF WRecord, Ended
<1>11. CASE WAbandon(w)
  <2>1. w \in Holders /\ Holders' \subseteq Holders \ {w}
    BY <1>11, <1>t DEF WAbandon, Holders
  <2> QED
    BY <1>11, <2>1, Unlocking DEF WAbandon, Ended
<1> QED
  BY <1>1, <1>2, <1>3, <1>4, <1>5, <1>6, <1>7, <1>8, <1>9, <1>10, <1>11
     DEF Patch

(* What a terminal operation's move does to the holders. *)
LEMMA TermMoves ==
  ASSUME LifeInv, NEW t \in Terms, NEW pc, TGoto(t, pc), UNCHANGED wpc
  PROVE  /\ pc \notin THolding => Holders' = Holders \ {t}
         /\ pc \in THolding => Holders' = Holders \cup {t}
         /\ tpc[t] \in THolding => t \in Holders
         /\ Holders \subseteq Procs /\ t \in Procs
<1>1. tpc \in [Terms -> TCritical \cup {"idle", "listed", "enter", "fence"}]
  BY DEF LifeInv, TypeOK
<1>2. Writers \cap Terms = {}
  BY ProcsAssumption
<1> QED
  BY <1>1, <1>2 DEF TGoto, Holders, Procs

(* The fence and the lock. *)
LEMMA FenceLocks ==
  ASSUME LifeInv, LockInv, NEW t \in Terms, Fence(t)
  PROVE  LockInv'
<1> USE DEF TIdle, durableVars, writerVars, THolding
<1>1. ASSUME NEW k \in {"finalize", "abort"}, TCall(t, k) PROVE LockInv'
  BY <1>1, TermMoves, NoLocking DEF TCall, Ended
<1>2. CASE TClose(t)
  BY <1>2, TermMoves, NoLocking DEF TClose, Ended
<1>3. CASE TLeave(t)
  BY <1>3, TermMoves, NoLocking DEF TLeave, Ended
<1>4. CASE TGiveUp(t)
  BY <1>4, TermMoves, NoLocking DEF TGiveUp, TReturn, Ended
<1>5. CASE TFenced(t)
  BY <1>5, TermMoves, NoLocking DEF TFenced, Ended
<1>6. CASE TLock(t)
  BY <1>6, TermMoves, Locking DEF TLock, Ended
<1>7. CASE TRefuse(t)
  BY <1>7, TermMoves, Unlocking DEF TRefuse, TReturn, Ended
<1> QED
  BY <1>1, <1>2, <1>3, <1>4, <1>5, <1>6, <1>7 DEF Fence

(* Finalize holds the lock from the mark to the deletion of the row, and
   forgets it when the rename has ended the session. *)
LEMMA FinalizeLocks ==
  ASSUME NoRefinalize, LifeInv, LockInv, NEW t \in Terms, Finalize(t)
  PROVE  LockInv'
<1> USE DEF TIdle, TStep, At, writerVars, THolding
<1>1. CASE FinMark(t)
  BY <1>1, TermMoves, NoLocking DEF FinMark, Ended, NoRefinalize
<1>2. CASE FinFail(t)
  <2>1. Ended => Ended'
    BY <1>2 DEF FinFail, Ended, SavedReceiving, LifeInv, TermInv
  <2> QED
    BY <1>2, <2>1, TermMoves, Unlocking DEF FinFail, TReturn
<1>3. CASE FinPublish(t)
  <2>1. share = "local" /\ Ended => Ended'
    BY <1>3 DEF FinPublish, Ended, LifeInv, TermInv
  <2> QED
    BY <1>3, <2>1, TermMoves, NoLocking DEF FinPublish
<1>4. CASE FinScratch(t)
  <2>1. share = "local" /\ Ended => Ended'
    BY <1>4 DEF FinScratch, Ended, LifeInv, TermInv
  <2> QED
    BY <1>4, <2>1, TermMoves, NoLocking DEF FinScratch
<1>5. CASE FinDone(t)
  <2>1. share = "local" => Ended'
    BY <1>5 DEF FinDone, Saved, Ended, LifeInv, TermInv, RenameInv
  <2>2. \A u \in Terms : tpc[u] \in TGated => u = t
    BY <1>5, Alone DEF FinDone, TGated, TCritical
  <2>3. Holders' \subseteq LockUsers
    BY <1>5, <2>2, TermMoves
       DEF FinDone, Holders, LockUsers, WHolding, WLocking, TLocking, TGated,
           TCritical
  <2> QED
    BY <1>5, <2>1, <2>3, Forgetting DEF FinDone
<1>6. CASE FinDelete(t)
  <2>1. Ended => Ended'
    BY <1>6 DEF FinDelete, Saved, Ended
  <2> QED
    BY <1>6, <2>1, TermMoves, Unlocking DEF FinDelete, TEnd
<1> QED
  BY <1>1, <1>2, <1>3, <1>4, <1>5, <1>6 DEF Finalize

(* Whoever is inside when a terminal operation outside the lock forgets it
   uses the forgotten mutex from then on. *)
LEMMA ForgetOutside ==
  ASSUME LifeInv, NEW t \in Terms, tpc[t] \in TCritical, TEnd(t)
  PROVE  Holders' \subseteq LockUsers
<1>1. \A u \in Terms : tpc[u] \in TGated => u = t
  BY Alone DEF TGated
<1>2. Holders' \subseteq Holders \ {t}
  BY TermMoves DEF TEnd, TIdle, writerVars, THolding
<1> QED
  BY <1>1, <1>2 DEF Holders, LockUsers, WHolding, WLocking, TGated,
    TCritical

(* Abort forgets the lock of a row it has marked. *)
LEMMA AbortLocks ==
  ASSUME LifeInv, LockInv, NEW t \in Terms, Abort(t)
  PROVE  LockInv'
<1> USE DEF TIdle, TStep, At, writerVars, durableVars, THolding
<1>1. CASE AbortGone(t)
  BY <1>1, TermMoves, Unlocking DEF AbortGone, TEnd, Ended
<1>2. CASE AbortMark(t)
  BY <1>2, TermMoves, Unlocking DEF AbortMark, Ended
<1>3. CASE AbortUnlink(t)
  BY <1>3, TermMoves, NoLocking DEF AbortUnlink, Ended
<1>4. CASE AbortStops(t)
  <2>1. Ended'
    BY <1>4 DEF AbortStops, Ended, LifeInv, TermInv
  <2> QED
    BY <1>4, <2>1, ForgetOutside, Forgetting DEF AbortStops, TCritical
<1>5. CASE AbortDelete(t)
  <2>1. Ended'
    BY <1>5 DEF AbortDelete, Saved, Ended, LifeInv, TermInv
  <2> QED
    BY <1>5, <2>1, ForgetOutside, Forgetting DEF AbortDelete, TCritical
<1> QED
  BY <1>1, <1>2, <1>3, <1>4, <1>5 DEF Abort

(* The sweep forgets the lock of a row it has deleted or that was published. *)
LEMMA SweepLocks ==
  ASSUME LifeInv, LockInv, Sweep
  PROVE  LockInv'
<1> USE DEF TIdle, TStep, TReturn, At, writerVars, durableVars, THolding
<1>s. Sweeper \in Terms
  BY DEF Terms
<1>1. CASE SweepList
  BY <1>1, <1>s, TermMoves, NoLocking DEF SweepList, Ended
<1>2. CASE SweepEnter
  BY <1>2, <1>s, TermMoves, NoLocking DEF SweepEnter, Ended
<1>3. CASE SweepSkip
  BY <1>3, <1>s, TermMoves, Unlocking DEF SweepSkip, Ended
<1>4. CASE CollectMark
  BY <1>4, <1>s, TermMoves, Unlocking DEF CollectMark, Ended
<1>5. CASE CollectUnlink
  <2>1. Ended => Ended'
    BY <1>5 DEF CollectUnlink, Ended
  <2>2. Holders' \subseteq Holders
    <3>1. CASE TGoto(Sweeper, "swept") /\ UNCHANGED wpc
      BY <3>1, <1>s, TermMoves
    <3>2. CASE TGoto(Sweeper, "idle") /\ UNCHANGED wpc
      BY <3>2, <1>s, TermMoves
    <3>3. \/ TStep(Sweeper, "swept")
          \/ TReturn(Sweeper)
      BY <1>5, Zenon DEF CollectUnlink
    <3> QED
      BY <3>1, <3>2, <3>3
  <2> QED
    BY <1>5, <2>1, <2>2, NoLocking DEF CollectUnlink
<1>6. CASE CollectDelete
  <2>1. CASE row' = "gone" /\ ForgetRow /\ TEnd(Sweeper)
    BY <1>6, <1>s, <2>1, ForgetOutside, Forgetting
       DEF CollectDelete, Ended, TCritical
  <2>2. CASE UNCHANGED <<row, lockVars>> /\ TReturn(Sweeper)
    BY <1>6, <1>s, <2>2, TermMoves, NoLocking DEF CollectDelete, Ended
  <2> QED
    BY <1>6, <2>1, <2>2 DEF CollectDelete
<1>7. CASE RecoverReceive
  <2>1. Ended => Ended'
    BY <1>7 DEF RecoverReceive, Ended
  <2> QED
    BY <1>7, <1>s, <2>1, TermMoves, Unlocking DEF RecoverReceive
<1>8. CASE RecoverDone
  BY <1>8, <1>s, TermMoves, Unlocking DEF RecoverDone, Saved, Ended
<1>9. CASE RecoverDelete
  <2>1. Ended'
    BY <1>9, <1>s DEF RecoverDelete, Saved, Ended, LifeInv, TermInv
  <2> QED
    BY <1>9, <1>s, <2>1, ForgetOutside, Forgetting
       DEF RecoverDelete, TCritical
<1> QED
  BY <1>1, <1>2, <1>3, <1>4, <1>5, <1>6, <1>7, <1>8, <1>9 DEF Sweep

(* Every step keeps the row lock's invariant. *)
LEMMA LockInvNext ==
  ASSUME NoRefinalize, LifeInv, LockInv, [Next]_vars
  PROVE  LockInv'
<1>1. CASE UNCHANGED vars
  BY <1>1 DEF vars, durableVars, lockVars, writerVars, termVars, LockInv,
    Holders, Ended
<1>2. CASE Expire
  BY <1>2, NoLocking DEF Expire, Holders, writerVars, termVars, Ended
<1>3. CASE Crash
  BY <1>3 DEF Crash, LockInv, Holders, WHolding, THolding
<1> QED
  BY <1>1, <1>2, <1>3, PatchLocks, FenceLocks, FinalizeLocks, AbortLocks,
     SweepLocks
     DEF Next

(* At most one goroutine is inside the row lock of a session that can still
   receive, although Finalize, Abort and the sweep drop the mutex from the map
   while others hold it or wait for it. *)
THEOREM RowLockExcludes ==
  ASSUME NoRefinalize PROVE Spec => []RowLockExclusive
<1>1. Init => LockInv
  BY DEF Init, LockInv, Holders, WHolding, THolding
<1>2. LifeInv /\ LockInv /\ [Next]_vars => LockInv'
  BY NoRefinalize, LockInvNext
<1>3. LockInv => RowLockExclusive
  <2> SUFFICES ASSUME LockInv, share = "local", Receiving
               PROVE  Cardinality(Holders) <= 1
    BY DEF RowLockExclusive, Holders
  <2>1. Holders \in SUBSET {rowLock}
    BY DEF LockInv, Ended, Receiving
  <2>2. IsFiniteSet({rowLock}) /\ Cardinality({rowLock}) = 1
    BY FS_Singleton
  <2> QED
    BY <2>1, <2>2, FS_Subset
<1> QED
  BY NoRefinalize, LifecycleInvariant, <1>1, <1>2, <1>3, PTL DEF Spec

(* A destination that was put in place holds every range of the file. *)
THEOREM PublicationWhole ==
  ASSUME NoRefinalize PROVE Spec => []PublishedWhole
<1>1. LifeInv => PublishedWhole
  BY DEF LifeInv
<1> QED
  BY NoRefinalize, LifecycleInvariant, <1>1, PTL
=============================================================================
