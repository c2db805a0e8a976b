--------------------------- MODULE UploadLifecycle ---------------------------
(***************************************************************************)
(* The life of one offset-addressed upload session after its creation      *)
(* (backend/internal/uploads): PATCH handlers, the terminal operations     *)
(* Finalize and Abort, and the periodic sweep, all working on one session  *)
(* row and one part file.                                                  *)
(*                                                                         *)
(* Three things keep them apart, none of which is enough alone.  The row   *)
(* lock is short and never held while a body is read.  The writer barrier  *)
(* lets a terminal operation close admission and wait for the bodies that  *)
(* were let in.  The state column says what the session is to whoever      *)
(* comes after a restart.  Both in-memory objects live in maps whose       *)
(* entries are dropped while other goroutines may be about to look them up.*)
(*                                                                         *)
(* The spool and the merger are in UploadCache; here a body goes from its  *)
(* staging file straight into the part.                                    *)
(***************************************************************************)
EXTENDS Naturals, FiniteSets, TLC

CONSTANTS
  Bodies,       \* the ranges the file is made of
  Writers,      \* PATCH handlers
  Requests,     \* Finalize and Abort requests
  Sweeper,      \* the one maintenance task that runs Sweep
  Shares,       \* the kinds of share the destination may be on
  Finalizable,  \* states transfer.Transition lets go to finalizing (external)
  Abortable,    \* states it lets go to aborted (external)
  MaxGen,       \* bound of the model: generations one barrier lives through
  MaxPubs       \* bound of the model: publications of one session

None == "none"
Terms == Requests \cup {Sweeper}
Procs == Writers \cup Terms
ShareKinds == {"local", "copying"}

ASSUME ProcsAssumption == /\ Writers \cap Terms = {} /\ Sweeper \notin Requests
                          /\ None \notin Procs
ASSUME SharesAssumption == Shares \subseteq ShareKinds
ASSUME StatesAssumption ==
  /\ Finalizable \subseteq {"receiving", "finalizing"}
  /\ Abortable \subseteq {"receiving", "finalizing", "aborted"}
ASSUME BoundsAssumption == MaxGen \in Nat /\ MaxPubs \in Nat

VARIABLES
  (* Durable. *)
  row,        \* the state column; "gone" once the row is deleted
  expired,    \* the clock has passed expires_ns
  recorded,   \* the interval set, as a set of bodies
  part,       \* the part file has its name
  content,    \* bodies written to the part file
  dest,       \* bodies in the destination file
  pubs,       \* how often the destination was put in place
  share,      \* how the destination's share publishes
  (* The process: the session's entries in the engine's maps. *)
  barrier,    \* Engine.writers
  rowLock,    \* holder of the mutex that is in Engine.rows now
  orphans,    \* users of a mutex forgetRow has taken out of Engine.rows
  (* Goroutines. *)
  wpc, wbody, wgen,
  tpc, kind, owner, tgen

durableVars == <<row, expired, recorded, part, content, dest, pubs, share>>
lockVars    == <<rowLock, orphans>>
writerVars  == <<wpc, wbody, wgen>>
termVars    == <<tpc, kind, owner, tgen>>
vars == <<durableVars, barrier, lockVars, writerVars, termVars>>

-----------------------------------------------------------------------------
(* The writer barrier.  active is the set of writers holding a lease and   *)
(* refs the set of goroutines holding a reference: a lease is released     *)
(* once, so the sets are what the code's two counters count.               *)

NewBarrier == [token |-> None, active |-> {}, closing |-> FALSE,
               terminalActive |-> FALSE, gen |-> 0, refs |-> {}]

\* writerFor.
Retain(b, p) == [b EXCEPT !.refs = @ \cup {p}]

\* Mutants: any release takes the entry out of the map; a barrier is made anew
\* without putting its token back.
MutDropsEntry(b, p) == NewBarrier
MutTokenLost(b, p) == IF b.refs \subseteq {p}
                      THEN [NewBarrier EXCEPT !.token = p]
                      ELSE [b EXCEPT !.refs = @ \ {p}]

\* releaseWriter: the last reference takes the entry out of the map, and the
\* next writerFor makes a new one.
Release(b, p) == IF b.refs \subseteq {p} THEN NewBarrier
                                         ELSE [b EXCEPT !.refs = @ \ {p}]

\* finishWriters.
Finish(b, t) == Release([b EXCEPT !.token = None, !.terminalActive = FALSE], t)

\* reopenWriters, by the operation that closed the gate.
Reopen(b, t) == IF owner[t] /\ b.closing /\ b.gen = tgen[t]
                THEN [b EXCEPT !.closing = FALSE, !.gen = @ + 1]
                ELSE b

\* writerLease.valid.
Valid(w) == ~barrier.closing /\ barrier.gen = wgen[w]

-----------------------------------------------------------------------------
(* The row lock.  A goroutine that looked its mutex up before forgetRow    *)
(* goes on with that mutex, while everybody after it gets a new one; the   *)
(* model lets the users of forgotten mutexes run without any exclusion.    *)

WLocking == {"lock1", "got1", "admit", "lock2", "got2", "checked", "written"}
TLocking == {"lock", "locked", "marked", "copied", "published"}
LockUsers == {w \in Writers : wpc[w] \in WLocking}
               \cup {t \in Terms : tpc[t] \in TLocking}

Lock(p) == IF p \in orphans THEN UNCHANGED lockVars
           ELSE rowLock = None /\ rowLock' = p /\ UNCHANGED orphans

Unlock(p) == /\ rowLock' = IF p \in orphans THEN rowLock ELSE None
             /\ orphans' = orphans \ {p}

ForgetRow == rowLock' = None /\ orphans' = orphans \cup LockUsers

-----------------------------------------------------------------------------
Init ==
  /\ row = "receiving" /\ expired = FALSE /\ recorded = {}
  /\ part = TRUE /\ content = {} /\ dest = {} /\ pubs = 0 /\ share \in Shares
  /\ barrier = NewBarrier /\ rowLock = None /\ orphans = {}
  /\ wpc = [w \in Writers |-> "idle"]
  /\ wbody = [w \in Writers |-> None]
  /\ wgen = [w \in Writers |-> 0]
  /\ tpc = [t \in Terms |-> "idle"]
  /\ kind = [t \in Terms |-> "none"]
  /\ owner = [t \in Terms |-> FALSE]
  /\ tgen = [t \in Terms |-> 0]

\* effectiveState: expiry is computed from the clock, and only of a receiving row.
Receiving == row = "receiving" /\ ~expired

-----------------------------------------------------------------------------
(* PatchAt.                                                                *)

WGoto(w, pc) == wpc' = [wpc EXCEPT ![w] = pc]

\* The handler returns.
WIdle(w) == /\ WGoto(w, "idle")
            /\ wbody' = [wbody EXCEPT ![w] = None]
            /\ wgen' = [wgen EXCEPT ![w] = 0]

\* lockChunk for a range nobody is writing, then lockRow looks its mutex up.
WStart(w, b) ==
  /\ wpc[w] = "idle"
  /\ \A v \in Writers : wpc[v] # "idle" => wbody[v] # b
  /\ WGoto(w, "lock1") /\ wbody' = [wbody EXCEPT ![w] = b]
  /\ UNCHANGED <<durableVars, barrier, lockVars, wgen, termVars>>

WLock(w) ==
  /\ \/ wpc[w] = "lock1" /\ WGoto(w, "got1")
     \/ wpc[w] = "lock2" /\ WGoto(w, "got2")
  /\ Lock(w)
  /\ UNCHANGED <<durableVars, barrier, wbody, wgen, termVars>>

\* load, requireOwner, requireReceiving, validateOffset.
WLoad(w) ==
  /\ wpc[w] = "got1" /\ Receiving
  /\ WGoto(w, "admit")
  /\ UNCHANGED <<durableVars, barrier, lockVars, wbody, wgen, termVars>>

\* Mutants: a refused chunk forgets the row lock, or keeps it.
MutRefuseForgets(w) ==
  /\ wpc[w] = "got1" /\ WIdle(w) /\ ForgetRow
  /\ UNCHANGED <<durableVars, barrier, termVars>>

MutRefuseKeepsLock(w) ==
  /\ wpc[w] = "got1" /\ WIdle(w)
  /\ UNCHANGED <<durableVars, barrier, lockVars, termVars>>

WRefuse(w) ==
  /\ wpc[w] = "got1" \/ (wpc[w] = "admit" /\ barrier.closing)
  /\ WIdle(w) /\ Unlock(w)
  /\ UNCHANGED <<durableVars, barrier, termVars>>

\* Mutant: the row lock is kept while the body is read.
MutAdmitKeepsLock(w) ==
  /\ wpc[w] = "admit" /\ ~barrier.closing
  /\ barrier' = Retain([barrier EXCEPT !.active = @ \cup {w}], w)
  /\ wgen' = [wgen EXCEPT ![w] = barrier.gen]
  /\ WGoto(w, "body")
  /\ UNCHANGED <<durableVars, lockVars, wbody, termVars>>

\* admitWriter, and the row lock goes before the body is read.
WAdmit(w) ==
  /\ wpc[w] = "admit" /\ ~barrier.closing
  /\ barrier' = Retain([barrier EXCEPT !.active = @ \cup {w}], w)
  /\ wgen' = [wgen EXCEPT ![w] = barrier.gen]
  /\ WGoto(w, "body") /\ Unlock(w)
  /\ UNCHANGED <<durableVars, wbody, termVars>>

\* The body has been staged and validated; lockRow looks the mutex up again.
WStaged(w) ==
  /\ wpc[w] = "body" /\ Valid(w)
  /\ WGoto(w, "lock2")
  /\ UNCHANGED <<durableVars, barrier, lockVars, wbody, wgen, termVars>>

\* writerLease.release.
LeaseReleased(w) ==
  barrier' = Release([barrier EXCEPT !.active = @ \ {w}], w)

\* The body broke off or failed its checks, or the lease is no longer valid.
WBodyFails(w) ==
  /\ wpc[w] = "body"
  /\ WIdle(w) /\ LeaseReleased(w)
  /\ UNCHANGED <<durableVars, lockVars, termVars>>

\* Mutant: the range is recorded before the bytes are in the part file.
MutRecordsFirst(w) ==
  /\ wpc[w] = "got2" /\ Receiving /\ Valid(w)
  /\ recorded' = recorded \cup {wbody[w]}
  /\ WGoto(w, "checked")
  /\ UNCHANGED <<row, expired, part, content, dest, pubs, share, barrier,
                 lockVars, wbody, wgen, termVars>>

\* The row is read again: still receiving, lease still valid.
WCheck(w) ==
  /\ wpc[w] = "got2" /\ Receiving /\ Valid(w)
  /\ WGoto(w, "checked")
  /\ UNCHANGED <<durableVars, barrier, lockVars, wbody, wgen, termVars>>

\* commitStagedAt: the staged bytes go into the part file and are synced.
WWrite(w) ==
  /\ wpc[w] = "checked" /\ part
  /\ content' = content \cup {wbody[w]}
  /\ WGoto(w, "written")
  /\ UNCHANGED <<row, expired, recorded, part, dest, pubs, share, barrier,
                 lockVars, wbody, wgen, termVars>>

\* commitRange: the interval set and a new expiry in one transaction.
WRecord(w) ==
  /\ wpc[w] = "written" /\ row # "gone"
  /\ recorded' = recorded \cup {wbody[w]} /\ expired' = FALSE
  /\ WIdle(w) /\ Unlock(w) /\ LeaseReleased(w)
  /\ UNCHANGED <<row, part, content, dest, pubs, share, termVars>>

\* Any refusal or error in the commit section.
WAbandon(w) ==
  /\ wpc[w] \in {"got2", "checked", "written"}
  /\ WIdle(w) /\ Unlock(w) /\ LeaseReleased(w)
  /\ UNCHANGED <<durableVars, termVars>>

-----------------------------------------------------------------------------
(* closeWriterGate, common to the four terminal operations.                *)

TGoto(t, pc) == tpc' = [tpc EXCEPT ![t] = pc]

TIdle(t) == /\ TGoto(t, "idle")
            /\ kind' = [kind EXCEPT ![t] = "none"]
            /\ owner' = [owner EXCEPT ![t] = FALSE]
            /\ tgen' = [tgen EXCEPT ![t] = 0]

\* The operation returns without having ended the session.
TReturn(t) == /\ TIdle(t)
              /\ barrier' = Finish(Reopen(barrier, t), t)
              /\ UNCHANGED writerVars

\* A request arrives.
TCall(t, k) ==
  /\ t \in Requests /\ k \in {"finalize", "abort"}
  /\ tpc[t] = "idle"
  /\ TGoto(t, "enter") /\ kind' = [kind EXCEPT ![t] = k]
  /\ barrier' = Retain(barrier, t)
  /\ UNCHANGED <<durableVars, lockVars, writerVars, owner, tgen>>

\* Sweep reads ListExpiredUploadSessions and decides what the row needs; a
\* finalizing row with a publication under way is passed over.
SweepList ==
  /\ tpc[Sweeper] = "idle" /\ row # "gone" /\ expired
  /\ row = "finalizing" => ~barrier.terminalActive
  /\ TGoto(Sweeper, "listed")
  /\ kind' = [kind EXCEPT ![Sweeper] =
                IF row = "finalizing" THEN "recover" ELSE "collect"]
  /\ UNCHANGED <<durableVars, barrier, lockVars, writerVars, owner, tgen>>

SweepEnter ==
  /\ tpc[Sweeper] = "listed"
  /\ TGoto(Sweeper, "enter") /\ barrier' = Retain(barrier, Sweeper)
  /\ UNCHANGED <<durableVars, lockVars, writerVars, kind, owner, tgen>>

\* The terminal token is taken and, unless an earlier operation left it
\* closed, the gate closes.
TClose(t) ==
  /\ tpc[t] = "enter" /\ barrier.token = None /\ barrier.gen < MaxGen
  /\ LET gen == IF barrier.closing THEN barrier.gen ELSE barrier.gen + 1
     IN /\ barrier' = [barrier EXCEPT
                         !.token = t, !.closing = TRUE, !.gen = gen,
                         !.terminalActive = kind[t] \in {"finalize", "abort"}]
        /\ owner' = [owner EXCEPT ![t] = ~barrier.closing]
        /\ tgen' = [tgen EXCEPT ![t] = gen]
  /\ TGoto(t, "fence")
  /\ UNCHANGED <<durableVars, lockVars, writerVars, kind>>

\* Mutant: a fence that is given up leaves the gate closed.
MutGivesUpClosed(t) ==
  /\ tpc[t] = "fence"
  /\ TIdle(t) /\ barrier' = Finish(barrier, t) /\ UNCHANGED writerVars
  /\ UNCHANGED <<durableVars, lockVars>>

\* The caller's context ends before it has the token, or before the bodies have
\* left; or drainCache fails.
TLeave(t) ==
  /\ tpc[t] = "enter" /\ TIdle(t) /\ barrier' = Release(barrier, t)
  /\ UNCHANGED <<durableVars, lockVars, writerVars>>

TGiveUp(t) ==
  /\ tpc[t] = "fence" /\ TReturn(t)
  /\ UNCHANGED <<durableVars, lockVars>>

\* Every admitted body has left; the merger is stopped or drained (see
\* UploadCache) and lockRow looks its mutex up.
TFenced(t) ==
  /\ tpc[t] = "fence" /\ barrier.active = {}
  /\ TGoto(t, "lock")
  /\ UNCHANGED <<durableVars, barrier, lockVars, writerVars, kind, owner, tgen>>

TLock(t) ==
  /\ tpc[t] = "lock" /\ TGoto(t, "locked") /\ Lock(t)
  /\ UNCHANGED <<durableVars, barrier, writerVars, kind, owner, tgen>>

At(t, k, pc) == kind[t] = k /\ tpc[t] = pc

\* It returns having ended it, and leaves the gate closed.
TEnd(t) == /\ TIdle(t)
           /\ barrier' = Finish(barrier, t)
           /\ UNCHANGED writerVars

TStep(t, pc) == /\ TGoto(t, pc)
                /\ UNCHANGED <<barrier, writerVars, kind, owner, tgen>>

\* Anything that can go wrong once the lock is held: the session is not the
\* caller's, a permission, an incomplete set, a state, a failing database.
TRefuse(t) ==
  /\ tpc[t] = "locked" /\ Unlock(t) /\ TReturn(t)
  /\ UNCHANGED durableVars

\* save restores receiving with a new lifetime, or fails and changes nothing.
SavedReceiving ==
  \/ row' = "receiving" /\ expired' = FALSE
  \/ UNCHANGED <<row, expired>>

Saved(state) == row' \in {state, row} /\ UNCHANGED expired

-----------------------------------------------------------------------------
(* Finalize.                                                               *)

FinMark(t) ==
  /\ At(t, "finalize", "locked")
  /\ row \in Finalizable /\ (row = "receiving" => ~expired)
  /\ recorded = Bodies
  /\ row' = "finalizing" /\ TStep(t, "marked")
  /\ UNCHANGED <<expired, recorded, part, content, dest, pubs, share, lockVars>>

\* A digest, the precondition, the quota or storage refuses; the deferred
\* function puts the row back.
FinFail(t) ==
  /\ At(t, "finalize", "marked")
  /\ SavedReceiving /\ Unlock(t) /\ TReturn(t)
  /\ UNCHANGED <<recorded, part, content, dest, pubs, share>>

\* Core.PublishPart: a rename on a local share; elsewhere the bytes are put at
\* the destination first and the scratch file is removed afterwards.
FinPublish(t) ==
  /\ At(t, "finalize", "marked") /\ part /\ pubs < MaxPubs
  /\ dest' = content /\ pubs' = pubs + 1
  /\ part' = (share = "copying")
  /\ TStep(t, IF share = "copying" THEN "copied" ELSE "published")
  /\ UNCHANGED <<row, expired, recorded, content, share, lockVars>>

FinScratch(t) ==
  /\ At(t, "finalize", "copied")
  /\ part' \in {FALSE, part} /\ TStep(t, "published")
  /\ UNCHANGED <<row, expired, recorded, content, dest, pubs, share, lockVars>>

\* Mutant: when the terminal state cannot be saved, the deferred function takes
\* the publication for a failure and restores receiving.
MutRestoresPublished(t) ==
  /\ At(t, "finalize", "published")
  /\ SavedReceiving /\ ForgetRow /\ TStep(t, "saved")
  /\ UNCHANGED <<recorded, part, content, dest, pubs, share>>

\* The terminal state is saved if it can be, and the row's mutex forgotten.
FinDone(t) ==
  /\ At(t, "finalize", "published")
  /\ Saved("done") /\ ForgetRow /\ TStep(t, "saved")
  /\ UNCHANGED <<recorded, part, content, dest, pubs, share>>

FinDelete(t) ==
  /\ At(t, "finalize", "saved")
  /\ Saved("gone") /\ Unlock(t) /\ TEnd(t)
  /\ UNCHANGED <<recorded, part, content, dest, pubs, share>>

-----------------------------------------------------------------------------
(* Abort.                                                                  *)

AbortGone(t) ==
  /\ At(t, "abort", "locked") /\ row \in {"gone", "done"}
  /\ Unlock(t) /\ TEnd(t)
  /\ UNCHANGED durableVars

AbortMark(t) ==
  /\ At(t, "abort", "locked") /\ row \in Abortable
  /\ row' = "aborted" /\ expired' = TRUE
  /\ Unlock(t) /\ TStep(t, "aborted")
  /\ UNCHANGED <<recorded, part, content, dest, pubs, share>>

AbortUnlink(t) ==
  /\ At(t, "abort", "aborted")
  /\ part' = FALSE /\ TStep(t, "unlinked")
  /\ UNCHANGED <<row, expired, recorded, content, dest, pubs, share, lockVars>>

\* removeAbortedSession stops at its first error; the sweep tries again.
AbortStops(t) ==
  /\ At(t, "abort", "aborted") /\ ForgetRow /\ TEnd(t)
  /\ UNCHANGED durableVars

AbortDelete(t) ==
  /\ At(t, "abort", "unlinked")
  /\ Saved("gone") /\ ForgetRow /\ TEnd(t)
  /\ UNCHANGED <<recorded, part, content, dest, pubs, share>>

-----------------------------------------------------------------------------
(* Sweep: collectExpired and recoverFinalizing.                            *)

\* The listing was stale: the row has gone, is publishing or lives again.
SweepSkip ==
  /\ tpc[Sweeper] = "locked"
  /\ IF kind[Sweeper] = "collect"
     THEN row \in {"gone", "finalizing"} \/ Receiving
     ELSE row # "finalizing"
  /\ Unlock(Sweeper) /\ TReturn(Sweeper)
  /\ UNCHANGED durableVars

\* Mutant: the listing is trusted and the row not read again.
MutCollectsListed ==
  /\ At(Sweeper, "collect", "locked")
  /\ Unlock(Sweeper) /\ TStep(Sweeper, "collecting")
  /\ UNCHANGED durableVars

CollectMark ==
  /\ At(Sweeper, "collect", "locked")
  /\ row \notin {"gone", "finalizing"} /\ ~Receiving
  /\ Unlock(Sweeper) /\ TStep(Sweeper, "collecting")
  /\ UNCHANGED durableVars

\* An unavailable share ends it here; a part that will not go is only logged.
CollectUnlink ==
  /\ At(Sweeper, "collect", "collecting")
  /\ \/ part' \in {FALSE, part} /\ TStep(Sweeper, "swept")
     \/ UNCHANGED part /\ TReturn(Sweeper)
  /\ UNCHANGED <<row, expired, recorded, content, dest, pubs, share, lockVars>>

CollectDelete ==
  /\ At(Sweeper, "collect", "swept")
  /\ \/ row' = "gone" /\ ForgetRow /\ TEnd(Sweeper)
     \/ UNCHANGED <<row, lockVars>> /\ TReturn(Sweeper)
  /\ UNCHANGED <<expired, recorded, part, content, dest, pubs, share>>

\* Mutant: the state is not read again under the lock.
MutRecoversListed ==
  /\ At(Sweeper, "recover", "locked") /\ part
  /\ SavedReceiving /\ Unlock(Sweeper) /\ TReturn(Sweeper)
  /\ UNCHANGED <<recorded, part, content, dest, pubs, share>>

\* "A present part means publication did not happen."
RecoverReceive ==
  /\ At(Sweeper, "recover", "locked") /\ row = "finalizing" /\ part
  /\ SavedReceiving /\ Unlock(Sweeper) /\ TReturn(Sweeper)
  /\ UNCHANGED <<recorded, part, content, dest, pubs, share>>

RecoverDone ==
  /\ At(Sweeper, "recover", "locked") /\ row = "finalizing" /\ ~part
  /\ Saved("done") /\ Unlock(Sweeper) /\ TStep(Sweeper, "recovered")
  /\ UNCHANGED <<recorded, part, content, dest, pubs, share>>

RecoverDelete ==
  /\ At(Sweeper, "recover", "recovered")
  /\ Saved("gone") /\ ForgetRow /\ TEnd(Sweeper)
  /\ UNCHANGED <<recorded, part, content, dest, pubs, share>>

-----------------------------------------------------------------------------
\* The session's lifetime passes.
Expire ==
  /\ ~expired /\ row # "gone" /\ expired' = TRUE
  /\ UNCHANGED <<row, recorded, part, content, dest, pubs, share, barrier,
                 lockVars, writerVars, termVars>>

\* The process dies and starts again: every map is empty.
Crash ==
  /\ barrier' = NewBarrier /\ rowLock' = None /\ orphans' = {}
  /\ wpc' = [w \in Writers |-> "idle"]
  /\ wbody' = [w \in Writers |-> None]
  /\ wgen' = [w \in Writers |-> 0]
  /\ tpc' = [t \in Terms |-> "idle"]
  /\ kind' = [t \in Terms |-> "none"]
  /\ owner' = [t \in Terms |-> FALSE]
  /\ tgen' = [t \in Terms |-> 0]
  /\ UNCHANGED durableVars

Patch(w) == \/ \E b \in Bodies : WStart(w, b)
            \/ WLock(w) \/ WLoad(w) \/ WRefuse(w) \/ WAdmit(w)
            \/ WStaged(w) \/ WBodyFails(w) \/ WCheck(w) \/ WWrite(w)
            \/ WRecord(w) \/ WAbandon(w)

Fence(t) == \/ \E k \in {"finalize", "abort"} : TCall(t, k)
            \/ TClose(t) \/ TLeave(t) \/ TGiveUp(t) \/ TFenced(t)
            \/ TLock(t) \/ TRefuse(t)

Finalize(t) == \/ FinMark(t) \/ FinFail(t) \/ FinPublish(t) \/ FinScratch(t)
               \/ FinDone(t) \/ FinDelete(t)

Abort(t) == \/ AbortGone(t) \/ AbortMark(t) \/ AbortUnlink(t) \/ AbortStops(t)
            \/ AbortDelete(t)

Sweep == \/ SweepList \/ SweepEnter \/ SweepSkip \/ CollectMark
         \/ CollectUnlink \/ CollectDelete
         \/ RecoverReceive \/ RecoverDone \/ RecoverDelete

Next == \/ \E w \in Writers : Patch(w)
        \/ \E t \in Terms : Fence(t) \/ Finalize(t) \/ Abort(t)
        \/ Sweep \/ Expire \/ Crash

Spec == Init /\ [][Next]_vars

\* Goroutines run: whoever holds the row lock goes on, a terminal operation that
\* waits for a mutex gets it, and one that has it takes its next step.  Nothing
\* is assumed of a client: a body may never end, no request has to be made.
Fairness ==
  /\ \A w \in Writers :
       WF_vars(WLoad(w) \/ WRefuse(w) \/ WAdmit(w) \/ WCheck(w)
                 \/ WWrite(w) \/ WRecord(w) \/ WAbandon(w))
  /\ \A t \in Terms :
       SF_vars(TLock(t)) /\ WF_vars(TRefuse(t) \/ Finalize(t) \/ Abort(t))
  /\ WF_vars(Sweep)

FairSpec == Spec /\ Fairness

-----------------------------------------------------------------------------
(* What has to hold.                                                       *)

WAdmitted == {"body", "lock2", "got2", "checked", "written"}
WHolding  == {"got1", "admit", "got2", "checked", "written"}
THolding  == {"locked", "marked", "copied", "published", "saved"}
TCritical == THolding \cup
  {"lock", "aborted", "unlinked", "collecting", "swept", "recovered"}

BarrierType ==
  [token : Terms \cup {None}, active : SUBSET Writers, closing : BOOLEAN,
   terminalActive : BOOLEAN, gen : Nat, refs : SUBSET Procs]

TypeOK ==
  /\ row \in {"receiving", "finalizing", "done", "aborted", "gone"}
  /\ expired \in BOOLEAN /\ recorded \subseteq Bodies
  /\ part \in BOOLEAN /\ content \subseteq Bodies /\ dest \subseteq Bodies
  /\ pubs \in Nat /\ share \in Shares
  /\ barrier \in BarrierType
  /\ rowLock \in Procs \cup {None} /\ orphans \subseteq Procs
  /\ wpc \in [Writers -> WLocking \cup {"idle", "body"}]
  /\ wbody \in [Writers -> Bodies \cup {None}]
  /\ wgen \in [Writers -> Nat]
  /\ tpc \in [Terms -> TCritical \cup {"idle", "listed", "enter", "fence"}]
  /\ kind \in [Terms -> {"none", "finalize", "abort", "collect", "recover"}]
  /\ owner \in [Terms -> BOOLEAN]
  /\ tgen \in [Terms -> Nat]

\* "A terminal operation closes the same barrier and waits for this slot before
\* changing the durable state": once one of them is past its fence, no
\* admitted writer is left and no other terminal operation is in there, even
\* though the barrier is thrown away and made anew when it has no users.
TerminalExclusive ==
  \A t \in Terms : tpc[t] \in TCritical =>
    /\ \A w \in Writers : wpc[w] \notin WAdmitted
    /\ \A u \in Terms : tpc[u] \in TCritical => u = t

\* forgetRow drops a mutex others may hold or wait for; two goroutines are
\* inside the row lock at once only when there is no live session to guard.
RowLockExclusive ==
  share = "local" /\ Receiving =>
    Cardinality({w \in Writers : wpc[w] \in WHolding}
                  \cup {t \in Terms : tpc[t] \in THolding}) <= 1

\* A session that is offered for resumption has its part file: collectExpired
\* and Abort unlink it outside the row lock, recoverFinalizing decides by it.
LiveSessionHasPart == Receiving => part

\* What becomes visible is every range of the file.
PublishedWhole == pubs > 0 => dest = Bodies

\* Finalize: "presenting one as a resumable upload whose destination already
\* exists is worse than carrying the debt": on a share that publishes by one
\* rename, whatever fails or crashes afterwards.
PublishedNotResumable == share = "local" /\ pubs > 0 => row # "receiving"

\* The same on every share, as recoverFinalizing's comment has it: "A present
\* part means publication did not happen".
PresentPartMeansUnpublished == pubs > 0 => row # "receiving"

\* closeWriterGate, reopenWriters: a gate that was closed for an operation which
\* did not end the session is open again when the operation is over.
GateReopens ==
  share = "local" /\ Receiving /\ barrier.token = None => ~barrier.closing

\* An aborted session is never written, published or received into again.
AbortIsFinal ==
  [][row = "aborted" => /\ row' \in {"aborted", "gone"}
                        /\ UNCHANGED <<content, dest, pubs>>]_vars

\* "The row lock protects the bookkeeping and never the body": it is always
\* given back, even if no body that is being read ever ends.
RowLockFreed == []<>(rowLock = None)

\* A terminal operation past its fence ends, whatever clients do.
TerminalCompletes == []<>(\A t \in Terms : tpc[t] \notin TCritical)

\* The handlers are interchangeable, and so are the requests.
Symmetry == Permutations(Writers) \cup Permutations(Requests)
=============================================================================
