----------------------------- MODULE ServerProofs -----------------------------
(***************************************************************************)
(* Proofs about the life of the processes over one data directory          *)
(* (ServerLife), for any number of servers and `stowcloud settings` runs   *)
(* of any releases, any faults and kills, and any number of workers at     *)
(* work at once.  Every process has its own resources and workers; what    *)
(* they share is the directory's lock and the database files, and the lock *)
(* is what lets the argument go one process at a time.  The second part    *)
(* is about the listener of such a process (Listener), the third about its *)
(* thumbnails (Thumbnails).                                                *)
(***************************************************************************)
EXTENDS MCServer, FiniteSetTheorems, TLAPS

\* What the theorems ask of the constants: nobody is no process, a binary knows
\* some number of migrations, and the bounds are numbers.
SlConstants ==
  /\ Nobody \notin SlProcs /\ Known \in [SlProcs -> Nat]
  /\ SlMaxFaults \in Nat /\ SlCrashes \in Nat

-------------------------------------------------------------------------------
(* The inductive invariant: what a process has open, what of what it ever    *)
(* opened is closed again, and which workers rest, at each of its stages.    *)

Early == {"down", "probing", "probed", "loaded", "editing", "edit", "logs", "state", "cache",
          "journal", "core"}
Closed == {"closeFiles", "release", "ended"}
AfterCopies == {"closeUploads", "joinMergers"} \cup Closed
AfterBuild == {"drainCopies", "stopCopies", "joinCopies", "grace"} \cup AfterCopies
Unwatched == {"stopGuard", "stopBuild", "joinBuild"} \cup (AfterBuild \ Closed)
AfterTasks == {"closeEvents", "stopGuard", "stopBuild", "joinBuild"} \cup AfterBuild
AfterHttp == {"stopTasks", "joinTasks"} \cup AfterTasks

\* No database is open where the lock is not yet taken or about to be given up.
FilesOK(pc, op) ==
  /\ pc \in {"down", "loaded", "logs", "release", "ended"} => op \cap Databases = {}
  /\ pc \in {"probing", "probed", "editing", "edit", "state"}
       => op \cap Databases \subseteq {"state"}

Building == {"cache", "journal", "core", "settings", "events", "uploads", "flow", "opened",
             "mounted"}

\* The probe's settings database is closed before the engine opens its own;
\* from there on nothing is closed before Close.
HadOK(pc, op, hd) ==
  /\ pc \in Building \cup {"serving", "draining"} => hd \subseteq op
  /\ pc \in {"probing", "probed", "loaded", "logs", "state"} => hd \subseteq op \cup {"state"}
  /\ pc = "down" => hd = {}

AllOff(ws) == \A w \in Workers : ws[w] = "off"

\* A worker that will not be found at work again, unless its wait ran out.
Stopped(ws, t, l, w) == ws[w] = "off" \/ (w \in t /\ (ws[w] # "busy" \/ w \in l))

\* Nothing works before the core is there and no request before the listener;
\* before the files close, only the watcher has been closed under the workers.
WorkOK(pc, op, hd, ws) ==
  /\ pc \in Early => AllOff(ws)
  /\ pc \in Building => ws["http"] = "off"
  /\ \/ AllOff(ws) \/ pc \in Closed
     \/ hd \subseteq op
     \/ pc \in Unwatched /\ hd \subseteq op \cup {"watcher"}

\* Close goes on only past workers that were told to stop and have stopped.
StopOK(pc, ws, t, l) ==
  /\ pc \in AfterHttp => Stopped(ws, t, l, "http")
  /\ pc \in AfterTasks => Stopped(ws, t, l, "tasks")
  /\ pc \in AfterBuild => Stopped(ws, t, l, "build")
  /\ pc \in AfterCopies => Stopped(ws, t, l, "copies")
  /\ pc \in Closed => Stopped(ws, t, l, "mergers")
  /\ pc = "draining" => "http" \in t
  /\ pc = "joinTasks" => "tasks" \in t
  /\ pc = "joinBuild" => "build" \in t
  /\ pc \in {"joinCopies", "grace"} => "copies" \in t
  /\ pc = "joinMergers" => "mergers" \in t

StageOK(pc, op, hd, ws, t, l) ==
  FilesOK(pc, op) /\ HadOK(pc, op, hd) /\ WorkOK(pc, op, hd, ws) /\ StopOK(pc, ws, t, l)

Outside == {"down", "ended"}

\* The migrations of a file an opened database of p is past.
SchemaOK(p) ==
  \A f \in opened[p] \cap Databases :
    slPc[p] \notin {q \in DOMAIN OpenAt : OpenAt[q].file = f} => disk[f].version = Known[p]

ProcessInv ==
  \A p \in SlProcs :
    /\ slPc[p] \notin Outside => holder = p
    /\ StageOK(slPc[p], opened[p], had[p], wk[p], told[p], left[p])
    /\ SchemaOK(p)

VersionsInv == \A f \in Databases : disk[f].version = disk[f].steps

SlInv == SlTypeOK /\ ProcessInv /\ VersionsInv

-------------------------------------------------------------------------------
(* One process at a time.                                                  *)

\* p goes to pc with these resources and workers.
Becomes(p, pc, op, hd, ws, t, l) ==
  /\ slPc' = [slPc EXCEPT ![p] = pc]
  /\ opened' = [opened EXCEPT ![p] = op] /\ had' = [had EXCEPT ![p] = hd]
  /\ wk' = [wk EXCEPT ![p] = ws]
  /\ told' = [told EXCEPT ![p] = t] /\ left' = [left EXCEPT ![p] = l]

WorkStates == [Workers -> {"off", "idle", "busy"}]
Files == [Databases -> [version : Nat, steps : Nat]]

LEMMA Typed ==
  ASSUME SlTypeOK, NEW p \in SlProcs
  PROVE  /\ slPc[p] \in Stages /\ opened[p] \in SUBSET Resources /\ had[p] \in SUBSET Resources
         /\ wk[p] \in WorkStates /\ told[p] \in SUBSET Workers /\ left[p] \in SUBSET Workers
         /\ disk \in Files
         /\ slPc = [slPc EXCEPT ![p] = slPc[p]] /\ opened = [opened EXCEPT ![p] = opened[p]]
         /\ had = [had EXCEPT ![p] = had[p]] /\ wk = [wk EXCEPT ![p] = wk[p]]
         /\ told = [told EXCEPT ![p] = told[p]] /\ left = [left EXCEPT ![p] = left[p]]
BY DEF SlTypeOK, WorkStates, Files

LEMMA Faults ==
  ASSUME SlConstants, SlTypeOK, Fault \/ NoFault
  PROVE  slFaults' \in 0 .. SlMaxFaults
BY DEF SlConstants, SlTypeOK, Fault, NoFault

\* What the stages of opening are.
LEMMA Openings ==
  /\ DOMAIN OpenAt = {"probing", "editing", "state", "cache", "journal"}
  /\ OpenAt["probing"].file = "state" /\ OpenAt["editing"].file = "state"
  /\ OpenAt["state"].file = "state" /\ OpenAt["cache"].file = "cache"
  /\ OpenAt["journal"].file = "journal"
  /\ OpenAt["probing"].ok = "probed" /\ OpenAt["editing"].ok = "edit"
  /\ OpenAt["state"].ok = "cache" /\ OpenAt["cache"].ok = "journal"
  /\ OpenAt["journal"].ok = "core"
  /\ OpenAt["probing"].fail = "release" /\ OpenAt["editing"].fail = "release"
  /\ OpenAt["state"].fail = "stopTasks" /\ OpenAt["cache"].fail = "stopTasks"
  /\ OpenAt["journal"].fail = "core"
BY DEF OpenAt

\* A step of one process keeps the invariant if it leaves that process well at its
\* stage and touches a database only under the lock.
LEMMA OneProcess ==
  ASSUME SlConstants, SlInv, NEW p \in SlProcs,
         NEW pc \in Stages, NEW op \in SUBSET Resources, NEW hd \in SUBSET Resources,
         NEW ws \in WorkStates, NEW t \in SUBSET Workers, NEW l \in SUBSET Workers,
         Becomes(p, pc, op, hd, ws, t, l), StageOK(pc, op, hd, ws, t, l),
         pc \notin Outside => holder' = p,
         holder' \in {holder, p, Nobody}, holder' = holder \/ holder \in {p, Nobody},
         sealed' \subseteq SlProcs, slFaults' \in 0 .. SlMaxFaults, slCrashes' \in 0 .. SlCrashes,
         disk' \in Files, disk' = disk \/ holder = p, VersionsInv',
         \A f \in op \cap Databases :
           pc \notin {q \in DOMAIN OpenAt : OpenAt[q].file = f} => disk'[f].version = Known[p]
  PROVE  SlInv'
<1>1. SlTypeOK
  BY DEF SlInv
<1>2. SlTypeOK'
  BY <1>1 DEF SlTypeOK, Becomes, WorkStates, Files
<1>3. /\ slPc'[p] = pc /\ opened'[p] = op /\ had'[p] = hd /\ wk'[p] = ws
      /\ told'[p] = t /\ left'[p] = l
      /\ \A q \in SlProcs \ {p} : /\ slPc'[q] = slPc[q] /\ opened'[q] = opened[q]
                                  /\ had'[q] = had[q] /\ wk'[q] = wk[q]
                                  /\ told'[q] = told[q] /\ left'[q] = left[q]
  BY <1>1 DEF SlTypeOK, Becomes
<1>4. ASSUME NEW q \in SlProcs
      PROVE  /\ slPc'[q] \notin Outside => holder' = q
             /\ StageOK(slPc'[q], opened'[q], had'[q], wk'[q], told'[q], left'[q])
             /\ SchemaOK(q)'
  <2>1. CASE q = p
    BY <1>3, <2>1 DEF SchemaOK
  <2>2. CASE q # p
    <3>1. /\ slPc[q] \notin Outside => holder = q
          /\ StageOK(slPc[q], opened[q], had[q], wk[q], told[q], left[q]) /\ SchemaOK(q)
      BY DEF SlInv, ProcessInv
    <3>2. slPc[q] \notin Outside => holder' = q
      BY <2>2, <3>1 DEF SlConstants
    <3>3. SchemaOK(q)'
      <4>1. CASE disk' = disk
        BY <1>3, <2>2, <3>1, <4>1 DEF SchemaOK
      <4>2. CASE holder = p
        <5>1. opened[q] \cap Databases = {}
          BY <2>2, <3>1, <4>2 DEF Outside, StageOK, FilesOK
        <5> QED
          BY <1>3, <2>2, <5>1 DEF SchemaOK
      <4> QED
        BY <4>1, <4>2
    <3> QED
      BY <1>3, <2>2, <3>1, <3>2, <3>3
  <2> QED
    BY <2>1, <2>2
<1> QED
  BY <1>2, <1>4 DEF SlInv, ProcessInv

\* The same for a step between stages that opens and migrates no database.
LEMMA PlainStep ==
  ASSUME SlConstants, SlInv, NEW p \in SlProcs,
         NEW pc \in Stages, NEW op \in SUBSET Resources, NEW hd \in SUBSET Resources,
         NEW ws \in WorkStates, NEW t \in SUBSET Workers, NEW l \in SUBSET Workers,
         Becomes(p, pc, op, hd, ws, t, l), StageOK(pc, op, hd, ws, t, l),
         slPc[p] \notin Outside \cup DOMAIN OpenAt, pc # "down",
         op \cap Databases \subseteq opened[p],
         Fault \/ NoFault, UNCHANGED <<holder, sealed, slCrashes, disk>>
  PROVE  SlInv'
<1>1. holder = p /\ SchemaOK(p) /\ SlTypeOK /\ VersionsInv
  BY DEF SlInv, ProcessInv
<1>2. \A f \in op \cap Databases : disk'[f].version = Known[p]
  BY <1>1 DEF SchemaOK
<1>3. sealed' \subseteq SlProcs /\ slCrashes' \in 0 .. SlCrashes /\ disk' \in Files
  BY <1>1 DEF SlTypeOK, Files
<1>4. slFaults' \in 0 .. SlMaxFaults
  BY <1>1, Faults
<1>5. VersionsInv'
  BY <1>1 DEF VersionsInv
<1> QED
  BY <1>1, <1>2, <1>3, <1>4, <1>5, OneProcess

-------------------------------------------------------------------------------
(* The steps.                                                              *)

\* Where the process that takes a step is.
LEMMA StepFrom ==
  ASSUME SlInv, NEW p \in SlProcs
  PROVE  /\ SlTypeOK /\ VersionsInv /\ SchemaOK(p) /\ (slPc[p] \notin Outside => holder = p)
         /\ StageOK(slPc[p], opened[p], had[p], wk[p], told[p], left[p])
BY DEF SlInv, ProcessInv

\* The stages that open no database, inside the lock.
LEMMA Inside ==
  \A s \in Stages \ {"down", "ended", "probing", "editing", "state", "cache", "journal"} :
    s \notin Outside \cup DOMAIN OpenAt
BY Openings DEF Outside

\* Cancelling, waiting and giving up leave resources alone.
LEMMA TellKeeps ==
  ASSUME SlConstants, SlInv, NEW p \in SlProcs, NEW w \in Workers, NEW pc \in Stages \ {"down"},
         NEW from \in Stages \ {"down", "ended", "probing", "editing", "state", "cache", "journal"},
         Tell(p, from, w, pc),
         StageOK(pc, opened[p], had[p], wk[p], told[p] \cup {w}, left[p])
  PROVE  SlInv'
<1>1. SlTypeOK /\ slPc[p] = from
  BY DEF SlInv, Tell
<1>2. Becomes(p, pc, opened[p], had[p], wk[p], told[p] \cup {w}, left[p])
  BY <1>1, Typed DEF Becomes, Tell, Go, KeepFiles
<1>3. NoFault /\ UNCHANGED <<holder, sealed, slCrashes, disk>>
  BY DEF Tell, KeepFiles, KeepRest
<1> QED
  BY <1>1, <1>2, <1>3, Typed, Inside, PlainStep

LEMMA WaitKeeps ==
  ASSUME SlConstants, SlInv, NEW p \in SlProcs, NEW w \in Workers, NEW pc \in Stages \ {"down"},
         NEW from \in Stages \ {"down", "ended", "probing", "editing", "state", "cache", "journal"},
         Wait(p, from, w, pc),
         StageOK(pc, opened[p], had[p], wk[p], told[p], left[p])
  PROVE  SlInv'
<1>1. SlTypeOK /\ slPc[p] = from
  BY DEF SlInv, Wait
<1>2. Becomes(p, pc, opened[p], had[p], wk[p], told[p], left[p])
  BY <1>1, Typed DEF Becomes, Wait, Go, KeepFiles, KeepWork
<1>3. NoFault /\ UNCHANGED <<holder, sealed, slCrashes, disk>>
  BY DEF Wait, KeepFiles, KeepRest
<1> QED
  BY <1>1, <1>2, <1>3, Typed, Inside, PlainStep

LEMMA ExpireKeeps ==
  ASSUME SlConstants, SlInv, NEW p \in SlProcs, NEW w \in Workers, NEW pc \in Stages \ {"down"},
         NEW from \in Stages \ {"down", "ended", "probing", "editing", "state", "cache", "journal"},
         Expire(p, from, w, pc),
         StageOK(pc, opened[p], had[p], wk[p], told[p], left[p] \cup {w})
  PROVE  SlInv'
<1>1. SlTypeOK /\ slPc[p] = from
  BY DEF SlInv, Expire
<1>2. Becomes(p, pc, opened[p], had[p], wk[p], told[p], left[p] \cup {w})
  BY <1>1, Typed DEF Becomes, Expire, Go, KeepFiles
<1>3. NoFault /\ UNCHANGED <<holder, sealed, slCrashes, disk>>
  BY DEF Expire, KeepFiles, KeepRest
<1> QED
  BY <1>1, <1>2, <1>3, Typed, Inside, PlainStep

LEMMA RestartKeeps ==
  ASSUME SlConstants, SlInv, NEW p \in SlProcs, RequestRestart(p)
  PROVE  SlInv'
<1> DEFINE Fit(pc, t, l) == StageOK(pc, opened[p], had[p], wk[p], t, l)
<1>1. Fit(slPc[p], told[p], left[p]) /\ wk[p] \in WorkStates
  BY StepFrom, Typed
<1>2. CASE Tell(p, "serving", "http", "draining")
  <2>1. Fit("draining", told[p] \cup {"http"}, left[p])
    BY <1>1, <1>2 DEF Tell, StageOK, FilesOK, HadOK, WorkOK, StopOK, Stopped, AllOff,
        Early, Building, Closed, AfterHttp, AfterTasks, AfterBuild, AfterCopies, Unwatched
  <2> QED
    BY <1>2, <2>1, TellKeeps DEF Stages, Workers
<1> QED
  BY <1>2 DEF RequestRestart

LEMMA StopListenerKeeps ==
  ASSUME SlConstants, SlInv, NEW p \in SlProcs, StopListener(p)
  PROVE  SlInv'
<1> DEFINE Fit(pc, t, l) == StageOK(pc, opened[p], had[p], wk[p], t, l)
<1>1. Fit(slPc[p], told[p], left[p]) /\ wk[p] \in WorkStates
  BY StepFrom, Typed
<1>2. CASE Wait(p, "draining", "http", "stopTasks")
  <2>1. Fit("stopTasks", told[p], left[p])
    BY <1>1, <1>2 DEF Wait, Quiet, StageOK, FilesOK, HadOK, WorkOK, StopOK, Stopped, AllOff,
        Early, Building, Closed, AfterHttp, AfterTasks, AfterBuild, AfterCopies, Unwatched
  <2> QED
    BY <1>2, <2>1, WaitKeeps DEF Stages, Workers
<1>3. CASE Expire(p, "draining", "http", "stopTasks")
  <2>1. Fit("stopTasks", told[p], left[p] \cup {"http"})
    BY <1>1, <1>3 DEF Expire, StageOK, FilesOK, HadOK, WorkOK, StopOK, Stopped, AllOff,
        Early, Building, Closed, AfterHttp, AfterTasks, AfterBuild, AfterCopies, Unwatched
  <2> QED
    BY <1>3, <2>1, ExpireKeeps DEF Stages, Workers
<1> QED
  BY <1>2, <1>3 DEF StopListener

LEMMA StopTasksKeeps ==
  ASSUME SlConstants, SlInv, NEW p \in SlProcs, stopTasks(p)
  PROVE  SlInv'
<1> DEFINE Fit(pc, t, l) == StageOK(pc, opened[p], had[p], wk[p], t, l)
<1>1. Fit(slPc[p], told[p], left[p]) /\ wk[p] \in WorkStates
  BY StepFrom, Typed
<1>2. CASE Tell(p, "stopTasks", "tasks", "joinTasks")
  <2>1. Fit("joinTasks", told[p] \cup {"tasks"}, left[p])
    BY <1>1, <1>2 DEF Tell, StageOK, FilesOK, HadOK, WorkOK, StopOK, Stopped, AllOff,
        Early, Building, Closed, AfterHttp, AfterTasks, AfterBuild, AfterCopies, Unwatched
  <2> QED
    BY <1>2, <2>1, TellKeeps DEF Stages, Workers
<1>3. CASE Wait(p, "joinTasks", "tasks", "closeEvents")
  <2>1. Fit("closeEvents", told[p], left[p])
    BY <1>1, <1>3 DEF Wait, Quiet, StageOK, FilesOK, HadOK, WorkOK, StopOK, Stopped, AllOff,
        Early, Building, Closed, AfterHttp, AfterTasks, AfterBuild, AfterCopies, Unwatched
  <2> QED
    BY <1>3, <2>1, WaitKeeps DEF Stages, Workers
<1>4. CASE Expire(p, "joinTasks", "tasks", "closeEvents")
  <2>1. Fit("closeEvents", told[p], left[p] \cup {"tasks"})
    BY <1>1, <1>4 DEF Expire, StageOK, FilesOK, HadOK, WorkOK, StopOK, Stopped, AllOff,
        Early, Building, Closed, AfterHttp, AfterTasks, AfterBuild, AfterCopies, Unwatched
  <2> QED
    BY <1>4, <2>1, ExpireKeeps DEF Stages, Workers
<1> QED
  BY <1>2, <1>3, <1>4 DEF stopTasks

LEMMA StopGuardKeeps ==
  ASSUME SlConstants, SlInv, NEW p \in SlProcs, StopSizeGuard(p)
  PROVE  SlInv'
<1> DEFINE Fit(pc, t, l) == StageOK(pc, opened[p], had[p], wk[p], t, l)
<1>1. Fit(slPc[p], told[p], left[p]) /\ wk[p] \in WorkStates
  BY StepFrom, Typed
<1>2. CASE Tell(p, "stopGuard", "guard", "stopBuild")
  <2>1. Fit("stopBuild", told[p] \cup {"guard"}, left[p])
    BY <1>1, <1>2 DEF Tell, StageOK, FilesOK, HadOK, WorkOK, StopOK, Stopped, AllOff,
        Early, Building, Closed, AfterHttp, AfterTasks, AfterBuild, AfterCopies, Unwatched
  <2> QED
    BY <1>2, <2>1, TellKeeps DEF Stages, Workers
<1> QED
  BY <1>2 DEF StopSizeGuard

LEMMA DrainIndexKeeps ==
  ASSUME SlConstants, SlInv, NEW p \in SlProcs, DrainIndex(p)
  PROVE  SlInv'
<1> DEFINE Fit(pc, t, l) == StageOK(pc, opened[p], had[p], wk[p], t, l)
<1>1. Fit(slPc[p], told[p], left[p]) /\ wk[p] \in WorkStates
  BY StepFrom, Typed
<1>2. CASE Tell(p, "stopBuild", "build", "joinBuild")
  <2>1. Fit("joinBuild", told[p] \cup {"build"}, left[p])
    BY <1>1, <1>2 DEF Tell, StageOK, FilesOK, HadOK, WorkOK, StopOK, Stopped, AllOff,
        Early, Building, Closed, AfterHttp, AfterTasks, AfterBuild, AfterCopies, Unwatched
  <2> QED
    BY <1>2, <2>1, TellKeeps DEF Stages, Workers
<1>3. CASE Wait(p, "joinBuild", "build", "drainCopies")
  <2>1. Fit("drainCopies", told[p], left[p])
    BY <1>1, <1>3 DEF Wait, Quiet, StageOK, FilesOK, HadOK, WorkOK, StopOK, Stopped, AllOff,
        Early, Building, Closed, AfterHttp, AfterTasks, AfterBuild, AfterCopies, Unwatched
  <2> QED
    BY <1>3, <2>1, WaitKeeps DEF Stages, Workers
<1>4. CASE Expire(p, "joinBuild", "build", "drainCopies")
  <2>1. Fit("drainCopies", told[p], left[p] \cup {"build"})
    BY <1>1, <1>4 DEF Expire, StageOK, FilesOK, HadOK, WorkOK, StopOK, Stopped, AllOff,
        Early, Building, Closed, AfterHttp, AfterTasks, AfterBuild, AfterCopies, Unwatched
  <2> QED
    BY <1>4, <2>1, ExpireKeeps DEF Stages, Workers
<1> QED
  BY <1>2, <1>3, <1>4 DEF DrainIndex

LEMMA DrainJobsKeeps ==
  ASSUME SlConstants, SlInv, NEW p \in SlProcs, DrainJobs(p)
  PROVE  SlInv'
<1> DEFINE Fit(pc, t, l) == StageOK(pc, opened[p], had[p], wk[p], t, l)
<1>1. Fit(slPc[p], told[p], left[p]) /\ wk[p] \in WorkStates
  BY StepFrom, Typed
<1>2. CASE Wait(p, "drainCopies", "copies", "stopCopies")
  <2>1. Fit("stopCopies", told[p], left[p])
    BY <1>1, <1>2 DEF Wait, Quiet, StageOK, FilesOK, HadOK, WorkOK, StopOK, Stopped, AllOff,
        Early, Building, Closed, AfterHttp, AfterTasks, AfterBuild, AfterCopies, Unwatched
  <2> QED
    BY <1>2, <2>1, WaitKeeps DEF Stages, Workers
<1>3. CASE Tell(p, "stopCopies", "copies", "joinCopies")
  <2>1. Fit("joinCopies", told[p] \cup {"copies"}, left[p])
    BY <1>1, <1>3 DEF Tell, StageOK, FilesOK, HadOK, WorkOK, StopOK, Stopped, AllOff,
        Early, Building, Closed, AfterHttp, AfterTasks, AfterBuild, AfterCopies, Unwatched
  <2> QED
    BY <1>3, <2>1, TellKeeps DEF Stages, Workers
<1>4. CASE Tell(p, "drainCopies", "copies", "grace")
  <2>1. Fit("grace", told[p] \cup {"copies"}, left[p])
    BY <1>1, <1>4 DEF Tell, StageOK, FilesOK, HadOK, WorkOK, StopOK, Stopped, AllOff,
        Early, Building, Closed, AfterHttp, AfterTasks, AfterBuild, AfterCopies, Unwatched
  <2> QED
    BY <1>4, <2>1, TellKeeps DEF Stages, Workers
<1>5. CASE Wait(p, "joinCopies", "copies", "closeUploads")
  <2>1. Fit("closeUploads", told[p], left[p])
    BY <1>1, <1>5 DEF Wait, Quiet, StageOK, FilesOK, HadOK, WorkOK, StopOK, Stopped, AllOff,
        Early, Building, Closed, AfterHttp, AfterTasks, AfterBuild, AfterCopies, Unwatched
  <2> QED
    BY <1>5, <2>1, WaitKeeps DEF Stages, Workers
<1>6. CASE Expire(p, "joinCopies", "copies", "closeUploads")
  <2>1. Fit("closeUploads", told[p], left[p] \cup {"copies"})
    BY <1>1, <1>6 DEF Expire, StageOK, FilesOK, HadOK, WorkOK, StopOK, Stopped, AllOff,
        Early, Building, Closed, AfterHttp, AfterTasks, AfterBuild, AfterCopies, Unwatched
  <2> QED
    BY <1>6, <2>1, ExpireKeeps DEF Stages, Workers
<1> QED
  BY <1>2, <1>3, <1>4, <1>5, <1>6 DEF DrainJobs

LEMMA GraceKeeps ==
  ASSUME SlConstants, SlInv, NEW p \in SlProcs, stopAndWait(p)
  PROVE  SlInv'
<1> DEFINE Fit(pc, t, l) == StageOK(pc, opened[p], had[p], wk[p], t, l)
<1>1. Fit(slPc[p], told[p], left[p]) /\ wk[p] \in WorkStates
  BY StepFrom, Typed
<1>2. CASE Wait(p, "grace", "copies", "closeUploads")
  <2>1. Fit("closeUploads", told[p], left[p])
    BY <1>1, <1>2 DEF Wait, Quiet, StageOK, FilesOK, HadOK, WorkOK, StopOK, Stopped, AllOff,
        Early, Building, Closed, AfterHttp, AfterTasks, AfterBuild, AfterCopies, Unwatched
  <2> QED
    BY <1>2, <2>1, WaitKeeps DEF Stages, Workers
<1>3. CASE Expire(p, "grace", "copies", "closeUploads")
  <2>1. Fit("closeUploads", told[p], left[p] \cup {"copies"})
    BY <1>1, <1>3 DEF Expire, StageOK, FilesOK, HadOK, WorkOK, StopOK, Stopped, AllOff,
        Early, Building, Closed, AfterHttp, AfterTasks, AfterBuild, AfterCopies, Unwatched
  <2> QED
    BY <1>3, <2>1, ExpireKeeps DEF Stages, Workers
<1> QED
  BY <1>2, <1>3 DEF stopAndWait

LEMMA RunSettingsKeeps ==
  ASSUME SlConstants, SlInv, NEW p \in SlProcs, runSettings(p)
  PROVE  SlInv'
<1>1. /\ SlTypeOK /\ slPc[p] = "edit" /\ (Fault \/ NoFault)
      /\ UNCHANGED <<holder, sealed, slCrashes, disk>>
      /\ StageOK(slPc[p], opened[p], had[p], wk[p], told[p], left[p])
  BY StepFrom DEF runSettings, KeepRest, KeepFiles
<1>2. opened[p] \subseteq Resources /\ had[p] \subseteq Resources /\ wk[p] \in WorkStates
  BY <1>1, Typed
<1>3. CASE Go(p, "release")
  <2> DEFINE ws == wk[p]
             op == opened[p] \ {"state"}
             hd == had[p]
  <2>1. Becomes(p, "release", op, hd, ws, told[p], left[p])
    BY <1>1, <1>3, Typed DEF runSettings, Becomes, Go, Detach, KeepWork, KeepFiles
  <2>2. ws \in WorkStates
    BY <1>2 DEF WorkStates
  <2>3. StageOK("release", op, hd, ws, told[p], left[p])
    BY <1>1, <1>2, <1>3 DEF StageOK, FilesOK, HadOK, WorkOK, StopOK, Stopped, AllOff,
        Early, Building, Closed, AfterHttp, AfterTasks, AfterBuild, AfterCopies, Unwatched,
       WorkStates, Workers, Databases, Resources
  <2>4. op \in SUBSET Resources /\ hd \in SUBSET Resources /\ op \cap Databases \subseteq opened[p]
    BY <1>2 DEF Resources, Databases
  <2> HIDE DEF ws, op, hd
  <2> QED
    BY <1>1, <2>1, <2>2, <2>3, <2>4, Typed, Inside, PlainStep DEF Stages
<1> QED
  BY <1>3 DEF runSettings

LEMMA BootSettingsKeeps ==
  ASSUME SlConstants, SlInv, NEW p \in SlProcs, bootSettings(p)
  PROVE  SlInv'
<1>1. /\ SlTypeOK /\ slPc[p] = "probed" /\ (Fault \/ NoFault)
      /\ UNCHANGED <<holder, sealed, slCrashes, disk>>
      /\ StageOK(slPc[p], opened[p], had[p], wk[p], told[p], left[p])
  BY StepFrom DEF bootSettings, KeepRest, KeepFiles
<1>2. opened[p] \subseteq Resources /\ had[p] \subseteq Resources /\ wk[p] \in WorkStates
  BY <1>1, Typed
<1>3. CASE Go(p, "loaded")
  <2> DEFINE ws == wk[p]
             op == opened[p] \ {"state"}
             hd == had[p]
  <2>1. Becomes(p, "loaded", op, hd, ws, told[p], left[p])
    BY <1>1, <1>3, Typed DEF bootSettings, Becomes, Go, Detach, KeepWork, KeepFiles
  <2>2. ws \in WorkStates
    BY <1>2 DEF WorkStates
  <2>3. StageOK("loaded", op, hd, ws, told[p], left[p])
    BY <1>1, <1>2, <1>3 DEF StageOK, FilesOK, HadOK, WorkOK, StopOK, Stopped, AllOff,
        Early, Building, Closed, AfterHttp, AfterTasks, AfterBuild, AfterCopies, Unwatched,
       WorkStates, Workers, Databases, Resources
  <2>4. op \in SUBSET Resources /\ hd \in SUBSET Resources /\ op \cap Databases \subseteq opened[p]
    BY <1>2 DEF Resources, Databases
  <2> HIDE DEF ws, op, hd
  <2> QED
    BY <1>1, <2>1, <2>2, <2>3, <2>4, Typed, Inside, PlainStep DEF Stages
<1>4. CASE Go(p, "release")
  <2> DEFINE ws == wk[p]
             op == opened[p] \ {"state"}
             hd == had[p]
  <2>1. Becomes(p, "release", op, hd, ws, told[p], left[p])
    BY <1>1, <1>4, Typed DEF bootSettings, Becomes, Go, Detach, KeepWork, KeepFiles
  <2>2. ws \in WorkStates
    BY <1>2 DEF WorkStates
  <2>3. StageOK("release", op, hd, ws, told[p], left[p])
    BY <1>1, <1>2, <1>4 DEF StageOK, FilesOK, HadOK, WorkOK, StopOK, Stopped, AllOff,
        Early, Building, Closed, AfterHttp, AfterTasks, AfterBuild, AfterCopies, Unwatched,
       WorkStates, Workers, Databases, Resources
  <2>4. op \in SUBSET Resources /\ hd \in SUBSET Resources /\ op \cap Databases \subseteq opened[p]
    BY <1>2 DEF Resources, Databases
  <2> HIDE DEF ws, op, hd
  <2> QED
    BY <1>1, <2>1, <2>2, <2>3, <2>4, Typed, Inside, PlainStep DEF Stages
<1> QED
  BY <1>3, <1>4 DEF bootSettings

LEMMA ApplyKeeps ==
  ASSUME SlConstants, SlInv, NEW p \in SlProcs, Apply(p)
  PROVE  SlInv'
<1>1. /\ SlTypeOK /\ slPc[p] = "loaded" /\ (Fault \/ NoFault)
      /\ UNCHANGED <<holder, sealed, slCrashes, disk>>
      /\ StageOK(slPc[p], opened[p], had[p], wk[p], told[p], left[p])
  BY StepFrom DEF Apply, KeepRest, KeepFiles
<1>2. opened[p] \subseteq Resources /\ had[p] \subseteq Resources /\ wk[p] \in WorkStates
  BY <1>1, Typed
<1>3. CASE Go(p, "logs")
  <2> DEFINE ws == wk[p]
             op == opened[p]
             hd == had[p]
  <2>1. Becomes(p, "logs", op, hd, ws, told[p], left[p])
    BY <1>1, <1>3, Typed DEF Apply, Becomes, Go, KeepWork, KeepFiles
  <2>2. ws \in WorkStates
    BY <1>2 DEF WorkStates
  <2>3. StageOK("logs", op, hd, ws, told[p], left[p])
    BY <1>1, <1>2, <1>3 DEF StageOK, FilesOK, HadOK, WorkOK, StopOK, Stopped, AllOff,
        Early, Building, Closed, AfterHttp, AfterTasks, AfterBuild, AfterCopies, Unwatched,
       WorkStates, Workers, Databases, Resources
  <2>4. op \in SUBSET Resources /\ hd \in SUBSET Resources /\ op \cap Databases \subseteq opened[p]
    BY <1>2 DEF Resources, Databases
  <2> HIDE DEF ws, op, hd
  <2> QED
    BY <1>1, <2>1, <2>2, <2>3, <2>4, Typed, Inside, PlainStep DEF Stages
<1>4. CASE Go(p, "ended")
  <2> DEFINE ws == wk[p]
             op == opened[p]
             hd == had[p]
  <2>1. Becomes(p, "ended", op, hd, ws, told[p], left[p])
    BY <1>1, <1>4, Typed DEF Apply, Becomes, Go, KeepWork, KeepFiles
  <2>2. ws \in WorkStates
    BY <1>2 DEF WorkStates
  <2>3. StageOK("ended", op, hd, ws, told[p], left[p])
    BY <1>1, <1>2, <1>4 DEF StageOK, FilesOK, HadOK, WorkOK, StopOK, Stopped, AllOff,
        Early, Building, Closed, AfterHttp, AfterTasks, AfterBuild, AfterCopies, Unwatched,
       WorkStates, Workers, Databases, Resources
  <2>4. op \in SUBSET Resources /\ hd \in SUBSET Resources /\ op \cap Databases \subseteq opened[p]
    BY <1>2 DEF Resources, Databases
  <2> HIDE DEF ws, op, hd
  <2> QED
    BY <1>1, <2>1, <2>2, <2>3, <2>4, Typed, Inside, PlainStep DEF Stages
<1> QED
  BY <1>3, <1>4 DEF Apply

LEMMA OpenLogsKeeps ==
  ASSUME SlConstants, SlInv, NEW p \in SlProcs, OpenLogs(p)
  PROVE  SlInv'
<1>1. /\ SlTypeOK /\ slPc[p] = "logs" /\ (Fault \/ NoFault)
      /\ UNCHANGED <<holder, sealed, slCrashes, disk>>
      /\ StageOK(slPc[p], opened[p], had[p], wk[p], told[p], left[p])
  BY StepFrom DEF OpenLogs, KeepRest, KeepFiles
<1>2. opened[p] \subseteq Resources /\ had[p] \subseteq Resources /\ wk[p] \in WorkStates
  BY <1>1, Typed
<1>3. CASE Attach(p, "logs")
  <2> DEFINE ws == wk[p]
             op == opened[p] \cup {"logs"}
             hd == had[p] \cup {"logs"}
  <2>1. Becomes(p, "state", op, hd, ws, told[p], left[p])
    BY <1>1, <1>3, Typed DEF OpenLogs, Becomes, Go, Attach, KeepWork, KeepFiles
  <2>2. ws \in WorkStates
    BY <1>2 DEF WorkStates
  <2>3. StageOK("state", op, hd, ws, told[p], left[p])
    BY <1>1, <1>2, <1>3 DEF StageOK, FilesOK, HadOK, WorkOK, StopOK, Stopped, AllOff,
        Early, Building, Closed, AfterHttp, AfterTasks, AfterBuild, AfterCopies, Unwatched,
       WorkStates, Workers, Databases, Resources
  <2>4. op \in SUBSET Resources /\ hd \in SUBSET Resources /\ op \cap Databases \subseteq opened[p]
    BY <1>2 DEF Resources, Databases
  <2> HIDE DEF ws, op, hd
  <2> QED
    BY <1>1, <2>1, <2>2, <2>3, <2>4, Typed, Inside, PlainStep DEF Stages
<1>4. CASE UNCHANGED <<opened, had>>
  <2> DEFINE ws == wk[p]
             op == opened[p]
             hd == had[p]
  <2>1. Becomes(p, "state", op, hd, ws, told[p], left[p])
    BY <1>1, <1>4, Typed DEF OpenLogs, Becomes, Go, KeepWork, KeepFiles
  <2>2. ws \in WorkStates
    BY <1>2 DEF WorkStates
  <2>3. StageOK("state", op, hd, ws, told[p], left[p])
    BY <1>1, <1>2, <1>4 DEF StageOK, FilesOK, HadOK, WorkOK, StopOK, Stopped, AllOff,
        Early, Building, Closed, AfterHttp, AfterTasks, AfterBuild, AfterCopies, Unwatched,
       WorkStates, Workers, Databases, Resources
  <2>4. op \in SUBSET Resources /\ hd \in SUBSET Resources /\ op \cap Databases \subseteq opened[p]
    BY <1>2 DEF Resources, Databases
  <2> HIDE DEF ws, op, hd
  <2> QED
    BY <1>1, <2>1, <2>2, <2>3, <2>4, Typed, Inside, PlainStep DEF Stages
<1> QED
  BY <1>3, <1>4 DEF OpenLogs

LEMMA OpenCoreKeeps ==
  ASSUME SlConstants, SlInv, NEW p \in SlProcs, OpenCore(p)
  PROVE  SlInv'
<1>1. /\ SlTypeOK /\ slPc[p] = "core" /\ (Fault \/ NoFault)
      /\ UNCHANGED <<holder, sealed, slCrashes, disk>>
      /\ StageOK(slPc[p], opened[p], had[p], wk[p], told[p], left[p])
  BY StepFrom DEF OpenCore, KeepRest, KeepFiles
<1>2. opened[p] \subseteq Resources /\ had[p] \subseteq Resources /\ wk[p] \in WorkStates
  BY <1>1, Typed
<1>3. CASE Start(p, {"copies"}) /\ Go(p, "settings")
  <2> DEFINE ws == [w \in Workers |-> IF w \in {"copies"} THEN "idle" ELSE wk[p][w]]
             op == opened[p]
             hd == had[p]
  <2>1. Becomes(p, "settings", op, hd, ws, told[p], left[p])
    BY <1>1, <1>3, Typed DEF OpenCore, Becomes, Go, Start, KeepWork, KeepFiles
  <2>2. ws \in WorkStates
    BY <1>2 DEF WorkStates
  <2>3. StageOK("settings", op, hd, ws, told[p], left[p])
    BY <1>1, <1>2, <1>3 DEF StageOK, FilesOK, HadOK, WorkOK, StopOK, Stopped, AllOff,
        Early, Building, Closed, AfterHttp, AfterTasks, AfterBuild, AfterCopies, Unwatched,
       WorkStates, Workers, Databases, Resources
  <2>4. op \in SUBSET Resources /\ hd \in SUBSET Resources /\ op \cap Databases \subseteq opened[p]
    BY <1>2 DEF Resources, Databases
  <2> HIDE DEF ws, op, hd
  <2> QED
    BY <1>1, <2>1, <2>2, <2>3, <2>4, Typed, Inside, PlainStep DEF Stages
<1>4. CASE Go(p, "stopTasks") /\ UNCHANGED wk
  <2> DEFINE ws == wk[p]
             op == opened[p]
             hd == had[p]
  <2>1. Becomes(p, "stopTasks", op, hd, ws, told[p], left[p])
    BY <1>1, <1>4, Typed DEF OpenCore, Becomes, Go, KeepWork, KeepFiles
  <2>2. ws \in WorkStates
    BY <1>2 DEF WorkStates
  <2>3. StageOK("stopTasks", op, hd, ws, told[p], left[p])
    BY <1>1, <1>2, <1>4 DEF StageOK, FilesOK, HadOK, WorkOK, StopOK, Stopped, AllOff,
        Early, Building, Closed, AfterHttp, AfterTasks, AfterBuild, AfterCopies, Unwatched,
       WorkStates, Workers, Databases, Resources
  <2>4. op \in SUBSET Resources /\ hd \in SUBSET Resources /\ op \cap Databases \subseteq opened[p]
    BY <1>2 DEF Resources, Databases
  <2> HIDE DEF ws, op, hd
  <2> QED
    BY <1>1, <2>1, <2>2, <2>3, <2>4, Typed, Inside, PlainStep DEF Stages
<1> QED
  BY <1>3, <1>4 DEF OpenCore

LEMMA OpenSettingsKeeps ==
  ASSUME SlConstants, SlInv, NEW p \in SlProcs, OpenSettings(p)
  PROVE  SlInv'
<1>1. /\ SlTypeOK /\ slPc[p] = "settings" /\ (Fault \/ NoFault)
      /\ UNCHANGED <<holder, sealed, slCrashes, disk>>
      /\ StageOK(slPc[p], opened[p], had[p], wk[p], told[p], left[p])
  BY StepFrom DEF OpenSettings, KeepRest, KeepFiles
<1>2. opened[p] \subseteq Resources /\ had[p] \subseteq Resources /\ wk[p] \in WorkStates
  BY <1>1, Typed
<1>3. CASE Go(p, "events")
  <2> DEFINE ws == [w \in Workers |-> IF w \in {"guard", "build"} THEN "idle" ELSE wk[p][w]]
             op == opened[p]
             hd == had[p]
  <2>1. Becomes(p, "events", op, hd, ws, told[p], left[p])
    BY <1>1, <1>3, Typed DEF OpenSettings, Becomes, Go, Start, KeepWork, KeepFiles
  <2>2. ws \in WorkStates
    BY <1>2 DEF WorkStates
  <2>3. StageOK("events", op, hd, ws, told[p], left[p])
    BY <1>1, <1>2, <1>3 DEF StageOK, FilesOK, HadOK, WorkOK, StopOK, Stopped, AllOff,
        Early, Building, Closed, AfterHttp, AfterTasks, AfterBuild, AfterCopies, Unwatched,
       WorkStates, Workers, Databases, Resources
  <2>4. op \in SUBSET Resources /\ hd \in SUBSET Resources /\ op \cap Databases \subseteq opened[p]
    BY <1>2 DEF Resources, Databases
  <2> HIDE DEF ws, op, hd
  <2> QED
    BY <1>1, <2>1, <2>2, <2>3, <2>4, Typed, Inside, PlainStep DEF Stages
<1> QED
  BY <1>3 DEF OpenSettings

LEMMA StartEventsKeeps ==
  ASSUME SlConstants, SlInv, NEW p \in SlProcs, startEvents(p)
  PROVE  SlInv'
<1>1. /\ SlTypeOK /\ slPc[p] = "events" /\ (Fault \/ NoFault)
      /\ UNCHANGED <<holder, sealed, slCrashes, disk>>
      /\ StageOK(slPc[p], opened[p], had[p], wk[p], told[p], left[p])
  BY StepFrom DEF startEvents, KeepRest, KeepFiles
<1>2. opened[p] \subseteq Resources /\ had[p] \subseteq Resources /\ wk[p] \in WorkStates
  BY <1>1, Typed
<1>3. CASE Attach(p, "watcher") /\ Start(p, {"pump"})
  <2> DEFINE ws == [w \in Workers |-> IF w \in {"pump"} THEN "idle" ELSE wk[p][w]]
             op == opened[p] \cup {"watcher"}
             hd == had[p] \cup {"watcher"}
  <2>1. Becomes(p, "uploads", op, hd, ws, told[p], left[p])
    BY <1>1, <1>3, Typed DEF startEvents, Becomes, Go, Start, Attach, KeepWork, KeepFiles
  <2>2. ws \in WorkStates
    BY <1>2 DEF WorkStates
  <2>3. StageOK("uploads", op, hd, ws, told[p], left[p])
    BY <1>1, <1>2, <1>3 DEF StageOK, FilesOK, HadOK, WorkOK, StopOK, Stopped, AllOff,
        Early, Building, Closed, AfterHttp, AfterTasks, AfterBuild, AfterCopies, Unwatched,
       WorkStates, Workers, Databases, Resources
  <2>4. op \in SUBSET Resources /\ hd \in SUBSET Resources /\ op \cap Databases \subseteq opened[p]
    BY <1>2 DEF Resources, Databases
  <2> HIDE DEF ws, op, hd
  <2> QED
    BY <1>1, <2>1, <2>2, <2>3, <2>4, Typed, Inside, PlainStep DEF Stages
<1>4. CASE UNCHANGED <<opened, had, wk>>
  <2> DEFINE ws == wk[p]
             op == opened[p]
             hd == had[p]
  <2>1. Becomes(p, "uploads", op, hd, ws, told[p], left[p])
    BY <1>1, <1>4, Typed DEF startEvents, Becomes, Go, KeepWork, KeepFiles
  <2>2. ws \in WorkStates
    BY <1>2 DEF WorkStates
  <2>3. StageOK("uploads", op, hd, ws, told[p], left[p])
    BY <1>1, <1>2, <1>4 DEF StageOK, FilesOK, HadOK, WorkOK, StopOK, Stopped, AllOff,
        Early, Building, Closed, AfterHttp, AfterTasks, AfterBuild, AfterCopies, Unwatched,
       WorkStates, Workers, Databases, Resources
  <2>4. op \in SUBSET Resources /\ hd \in SUBSET Resources /\ op \cap Databases \subseteq opened[p]
    BY <1>2 DEF Resources, Databases
  <2> HIDE DEF ws, op, hd
  <2> QED
    BY <1>1, <2>1, <2>2, <2>3, <2>4, Typed, Inside, PlainStep DEF Stages
<1> QED
  BY <1>3, <1>4 DEF startEvents

LEMMA OpenUploadsKeeps ==
  ASSUME SlConstants, SlInv, NEW p \in SlProcs, OpenUploads(p)
  PROVE  SlInv'
<1>1. /\ SlTypeOK /\ slPc[p] = "uploads" /\ (Fault \/ NoFault)
      /\ UNCHANGED <<holder, sealed, slCrashes, disk>>
      /\ StageOK(slPc[p], opened[p], had[p], wk[p], told[p], left[p])
  BY StepFrom DEF OpenUploads, KeepRest, KeepFiles
<1>2. opened[p] \subseteq Resources /\ had[p] \subseteq Resources /\ wk[p] \in WorkStates
  BY <1>1, Typed
<1>3. CASE Attach(p, "uploads") /\ Start(p, {"mergers"}) /\ Go(p, "flow")
  <2> DEFINE ws == [w \in Workers |-> IF w \in {"mergers"} THEN "idle" ELSE wk[p][w]]
             op == opened[p] \cup {"uploads"}
             hd == had[p] \cup {"uploads"}
  <2>1. Becomes(p, "flow", op, hd, ws, told[p], left[p])
    BY <1>1, <1>3, Typed DEF OpenUploads, Becomes, Go, Start, Attach, KeepWork, KeepFiles
  <2>2. ws \in WorkStates
    BY <1>2 DEF WorkStates
  <2>3. StageOK("flow", op, hd, ws, told[p], left[p])
    BY <1>1, <1>2, <1>3 DEF StageOK, FilesOK, HadOK, WorkOK, StopOK, Stopped, AllOff,
        Early, Building, Closed, AfterHttp, AfterTasks, AfterBuild, AfterCopies, Unwatched,
       WorkStates, Workers, Databases, Resources
  <2>4. op \in SUBSET Resources /\ hd \in SUBSET Resources /\ op \cap Databases \subseteq opened[p]
    BY <1>2 DEF Resources, Databases
  <2> HIDE DEF ws, op, hd
  <2> QED
    BY <1>1, <2>1, <2>2, <2>3, <2>4, Typed, Inside, PlainStep DEF Stages
<1>4. CASE Go(p, "flow") /\ UNCHANGED <<opened, had, wk>>
  <2> DEFINE ws == wk[p]
             op == opened[p]
             hd == had[p]
  <2>1. Becomes(p, "flow", op, hd, ws, told[p], left[p])
    BY <1>1, <1>4, Typed DEF OpenUploads, Becomes, Go, KeepWork, KeepFiles
  <2>2. ws \in WorkStates
    BY <1>2 DEF WorkStates
  <2>3. StageOK("flow", op, hd, ws, told[p], left[p])
    BY <1>1, <1>2, <1>4 DEF StageOK, FilesOK, HadOK, WorkOK, StopOK, Stopped, AllOff,
        Early, Building, Closed, AfterHttp, AfterTasks, AfterBuild, AfterCopies, Unwatched,
       WorkStates, Workers, Databases, Resources
  <2>4. op \in SUBSET Resources /\ hd \in SUBSET Resources /\ op \cap Databases \subseteq opened[p]
    BY <1>2 DEF Resources, Databases
  <2> HIDE DEF ws, op, hd
  <2> QED
    BY <1>1, <2>1, <2>2, <2>3, <2>4, Typed, Inside, PlainStep DEF Stages
<1>5. CASE Go(p, "stopTasks") /\ UNCHANGED <<opened, had, wk>>
  <2> DEFINE ws == wk[p]
             op == opened[p]
             hd == had[p]
  <2>1. Becomes(p, "stopTasks", op, hd, ws, told[p], left[p])
    BY <1>1, <1>5, Typed DEF OpenUploads, Becomes, Go, KeepWork, KeepFiles
  <2>2. ws \in WorkStates
    BY <1>2 DEF WorkStates
  <2>3. StageOK("stopTasks", op, hd, ws, told[p], left[p])
    BY <1>1, <1>2, <1>5 DEF StageOK, FilesOK, HadOK, WorkOK, StopOK, Stopped, AllOff,
        Early, Building, Closed, AfterHttp, AfterTasks, AfterBuild, AfterCopies, Unwatched,
       WorkStates, Workers, Databases, Resources
  <2>4. op \in SUBSET Resources /\ hd \in SUBSET Resources /\ op \cap Databases \subseteq opened[p]
    BY <1>2 DEF Resources, Databases
  <2> HIDE DEF ws, op, hd
  <2> QED
    BY <1>1, <2>1, <2>2, <2>3, <2>4, Typed, Inside, PlainStep DEF Stages
<1> QED
  BY <1>3, <1>4, <1>5 DEF OpenUploads

LEMMA OpenFlowKeeps ==
  ASSUME SlConstants, SlInv, NEW p \in SlProcs, OpenFlow(p)
  PROVE  SlInv'
<1>1. /\ SlTypeOK /\ slPc[p] = "flow" /\ (Fault \/ NoFault)
      /\ UNCHANGED <<holder, sealed, slCrashes, disk>>
      /\ StageOK(slPc[p], opened[p], had[p], wk[p], told[p], left[p])
  BY StepFrom DEF OpenFlow, KeepRest, KeepFiles
<1>2. opened[p] \subseteq Resources /\ had[p] \subseteq Resources /\ wk[p] \in WorkStates
  BY <1>1, Typed
<1>3. CASE Go(p, "opened")
  <2> DEFINE ws == wk[p]
             op == opened[p]
             hd == had[p]
  <2>1. Becomes(p, "opened", op, hd, ws, told[p], left[p])
    BY <1>1, <1>3, Typed DEF OpenFlow, Becomes, Go, KeepWork, KeepFiles
  <2>2. ws \in WorkStates
    BY <1>2 DEF WorkStates
  <2>3. StageOK("opened", op, hd, ws, told[p], left[p])
    BY <1>1, <1>2, <1>3 DEF StageOK, FilesOK, HadOK, WorkOK, StopOK, Stopped, AllOff,
        Early, Building, Closed, AfterHttp, AfterTasks, AfterBuild, AfterCopies, Unwatched,
       WorkStates, Workers, Databases, Resources
  <2>4. op \in SUBSET Resources /\ hd \in SUBSET Resources /\ op \cap Databases \subseteq opened[p]
    BY <1>2 DEF Resources, Databases
  <2> HIDE DEF ws, op, hd
  <2> QED
    BY <1>1, <2>1, <2>2, <2>3, <2>4, Typed, Inside, PlainStep DEF Stages
<1>4. CASE Go(p, "stopTasks")
  <2> DEFINE ws == wk[p]
             op == opened[p]
             hd == had[p]
  <2>1. Becomes(p, "stopTasks", op, hd, ws, told[p], left[p])
    BY <1>1, <1>4, Typed DEF OpenFlow, Becomes, Go, KeepWork, KeepFiles
  <2>2. ws \in WorkStates
    BY <1>2 DEF WorkStates
  <2>3. StageOK("stopTasks", op, hd, ws, told[p], left[p])
    BY <1>1, <1>2, <1>4 DEF StageOK, FilesOK, HadOK, WorkOK, StopOK, Stopped, AllOff,
        Early, Building, Closed, AfterHttp, AfterTasks, AfterBuild, AfterCopies, Unwatched,
       WorkStates, Workers, Databases, Resources
  <2>4. op \in SUBSET Resources /\ hd \in SUBSET Resources /\ op \cap Databases \subseteq opened[p]
    BY <1>2 DEF Resources, Databases
  <2> HIDE DEF ws, op, hd
  <2> QED
    BY <1>1, <2>1, <2>2, <2>3, <2>4, Typed, Inside, PlainStep DEF Stages
<1> QED
  BY <1>3, <1>4 DEF OpenFlow

LEMMA MountKeeps ==
  ASSUME SlConstants, SlInv, NEW p \in SlProcs, Mount(p)
  PROVE  SlInv'
<1>1. /\ SlTypeOK /\ slPc[p] = "opened" /\ (Fault \/ NoFault)
      /\ UNCHANGED <<holder, sealed, slCrashes, disk>>
      /\ StageOK(slPc[p], opened[p], had[p], wk[p], told[p], left[p])
  BY StepFrom DEF Mount, KeepRest, KeepFiles
<1>2. opened[p] \subseteq Resources /\ had[p] \subseteq Resources /\ wk[p] \in WorkStates
  BY <1>1, Typed
<1>3. CASE Start(p, {"tasks"}) /\ Go(p, "mounted")
  <2> DEFINE ws == [w \in Workers |-> IF w \in {"tasks"} THEN "idle" ELSE wk[p][w]]
             op == opened[p]
             hd == had[p]
  <2>1. Becomes(p, "mounted", op, hd, ws, told[p], left[p])
    BY <1>1, <1>3, Typed DEF Mount, Becomes, Go, Start, KeepWork, KeepFiles
  <2>2. ws \in WorkStates
    BY <1>2 DEF WorkStates
  <2>3. StageOK("mounted", op, hd, ws, told[p], left[p])
    BY <1>1, <1>2, <1>3 DEF StageOK, FilesOK, HadOK, WorkOK, StopOK, Stopped, AllOff,
        Early, Building, Closed, AfterHttp, AfterTasks, AfterBuild, AfterCopies, Unwatched,
       WorkStates, Workers, Databases, Resources
  <2>4. op \in SUBSET Resources /\ hd \in SUBSET Resources /\ op \cap Databases \subseteq opened[p]
    BY <1>2 DEF Resources, Databases
  <2> HIDE DEF ws, op, hd
  <2> QED
    BY <1>1, <2>1, <2>2, <2>3, <2>4, Typed, Inside, PlainStep DEF Stages
<1>4. CASE Go(p, "stopTasks") /\ UNCHANGED wk
  <2> DEFINE ws == wk[p]
             op == opened[p]
             hd == had[p]
  <2>1. Becomes(p, "stopTasks", op, hd, ws, told[p], left[p])
    BY <1>1, <1>4, Typed DEF Mount, Becomes, Go, KeepWork, KeepFiles
  <2>2. ws \in WorkStates
    BY <1>2 DEF WorkStates
  <2>3. StageOK("stopTasks", op, hd, ws, told[p], left[p])
    BY <1>1, <1>2, <1>4 DEF StageOK, FilesOK, HadOK, WorkOK, StopOK, Stopped, AllOff,
        Early, Building, Closed, AfterHttp, AfterTasks, AfterBuild, AfterCopies, Unwatched,
       WorkStates, Workers, Databases, Resources
  <2>4. op \in SUBSET Resources /\ hd \in SUBSET Resources /\ op \cap Databases \subseteq opened[p]
    BY <1>2 DEF Resources, Databases
  <2> HIDE DEF ws, op, hd
  <2> QED
    BY <1>1, <2>1, <2>2, <2>3, <2>4, Typed, Inside, PlainStep DEF Stages
<1> QED
  BY <1>3, <1>4 DEF Mount

LEMMA ServeKeeps ==
  ASSUME SlConstants, SlInv, NEW p \in SlProcs, Serve(p)
  PROVE  SlInv'
<1>1. /\ SlTypeOK /\ slPc[p] = "mounted" /\ (Fault \/ NoFault)
      /\ UNCHANGED <<holder, sealed, slCrashes, disk>>
      /\ StageOK(slPc[p], opened[p], had[p], wk[p], told[p], left[p])
  BY StepFrom DEF Serve, KeepRest, KeepFiles
<1>2. opened[p] \subseteq Resources /\ had[p] \subseteq Resources /\ wk[p] \in WorkStates
  BY <1>1, Typed
<1>3. CASE Start(p, {"http"}) /\ Go(p, "serving")
  <2> DEFINE ws == [w \in Workers |-> IF w \in {"http"} THEN "idle" ELSE wk[p][w]]
             op == opened[p]
             hd == had[p]
  <2>1. Becomes(p, "serving", op, hd, ws, told[p], left[p])
    BY <1>1, <1>3, Typed DEF Serve, Becomes, Go, Start, KeepWork, KeepFiles
  <2>2. ws \in WorkStates
    BY <1>2 DEF WorkStates
  <2>3. StageOK("serving", op, hd, ws, told[p], left[p])
    BY <1>1, <1>2, <1>3 DEF StageOK, FilesOK, HadOK, WorkOK, StopOK, Stopped, AllOff,
        Early, Building, Closed, AfterHttp, AfterTasks, AfterBuild, AfterCopies, Unwatched,
       WorkStates, Workers, Databases, Resources
  <2>4. op \in SUBSET Resources /\ hd \in SUBSET Resources /\ op \cap Databases \subseteq opened[p]
    BY <1>2 DEF Resources, Databases
  <2> HIDE DEF ws, op, hd
  <2> QED
    BY <1>1, <2>1, <2>2, <2>3, <2>4, Typed, Inside, PlainStep DEF Stages
<1>4. CASE Go(p, "stopTasks") /\ UNCHANGED wk
  <2> DEFINE ws == wk[p]
             op == opened[p]
             hd == had[p]
  <2>1. Becomes(p, "stopTasks", op, hd, ws, told[p], left[p])
    BY <1>1, <1>4, Typed DEF Serve, Becomes, Go, KeepWork, KeepFiles
  <2>2. ws \in WorkStates
    BY <1>2 DEF WorkStates
  <2>3. StageOK("stopTasks", op, hd, ws, told[p], left[p])
    BY <1>1, <1>2, <1>4 DEF StageOK, FilesOK, HadOK, WorkOK, StopOK, Stopped, AllOff,
        Early, Building, Closed, AfterHttp, AfterTasks, AfterBuild, AfterCopies, Unwatched,
       WorkStates, Workers, Databases, Resources
  <2>4. op \in SUBSET Resources /\ hd \in SUBSET Resources /\ op \cap Databases \subseteq opened[p]
    BY <1>2 DEF Resources, Databases
  <2> HIDE DEF ws, op, hd
  <2> QED
    BY <1>1, <2>1, <2>2, <2>3, <2>4, Typed, Inside, PlainStep DEF Stages
<1> QED
  BY <1>3, <1>4 DEF Serve

LEMMA CloseEventsKeeps ==
  ASSUME SlConstants, SlInv, NEW p \in SlProcs, closeEvents(p)
  PROVE  SlInv'
<1>1. /\ SlTypeOK /\ slPc[p] = "closeEvents" /\ (Fault \/ NoFault)
      /\ UNCHANGED <<holder, sealed, slCrashes, disk>>
      /\ StageOK(slPc[p], opened[p], had[p], wk[p], told[p], left[p])
  BY StepFrom DEF closeEvents, KeepRest, KeepFiles
<1>2. opened[p] \subseteq Resources /\ had[p] \subseteq Resources /\ wk[p] \in WorkStates
  BY <1>1, Typed
<1>3. CASE Go(p, "stopGuard")
  <2> DEFINE ws == wk[p]
             op == opened[p] \ {"watcher"}
             hd == had[p]
  <2>1. Becomes(p, "stopGuard", op, hd, ws, told[p], left[p])
    BY <1>1, <1>3, Typed DEF closeEvents, Becomes, Go, Detach, KeepWork, KeepFiles
  <2>2. ws \in WorkStates
    BY <1>2 DEF WorkStates
  <2>3. StageOK("stopGuard", op, hd, ws, told[p], left[p])
    BY <1>1, <1>2, <1>3 DEF StageOK, FilesOK, HadOK, WorkOK, StopOK, Stopped, AllOff,
        Early, Building, Closed, AfterHttp, AfterTasks, AfterBuild, AfterCopies, Unwatched,
       WorkStates, Workers, Databases, Resources
  <2>4. op \in SUBSET Resources /\ hd \in SUBSET Resources /\ op \cap Databases \subseteq opened[p]
    BY <1>2 DEF Resources, Databases
  <2> HIDE DEF ws, op, hd
  <2> QED
    BY <1>1, <2>1, <2>2, <2>3, <2>4, Typed, Inside, PlainStep DEF Stages
<1> QED
  BY <1>3 DEF closeEvents

LEMMA CloseFilesKeeps ==
  ASSUME SlConstants, SlInv, NEW p \in SlProcs, CloseFiles(p)
  PROVE  SlInv'
<1>1. /\ SlTypeOK /\ slPc[p] = "closeFiles" /\ (Fault \/ NoFault)
      /\ UNCHANGED <<holder, sealed, slCrashes, disk>>
      /\ StageOK(slPc[p], opened[p], had[p], wk[p], told[p], left[p])
  BY StepFrom DEF CloseFiles, KeepRest, KeepFiles
<1>2. opened[p] \subseteq Resources /\ had[p] \subseteq Resources /\ wk[p] \in WorkStates
  BY <1>1, Typed
<1>3. CASE opened[p] \cap Databases # {}
  <2> DEFINE ws == wk[p]
             op == opened[p] \ {Last(opened[p] \cap Databases)}
             hd == had[p]
  <2>1. Becomes(p, "closeFiles", op, hd, ws, told[p], left[p])
    BY <1>1, <1>3, Typed DEF CloseFiles, Becomes, Go, Detach, KeepWork, KeepFiles
  <2>2. ws \in WorkStates
    BY <1>2 DEF WorkStates
  <2>3. StageOK("closeFiles", op, hd, ws, told[p], left[p])
    BY <1>1, <1>2, <1>3 DEF StageOK, FilesOK, HadOK, WorkOK, StopOK, Stopped, AllOff,
        Early, Building, Closed, AfterHttp, AfterTasks, AfterBuild, AfterCopies, Unwatched,
       WorkStates, Workers, Databases, Resources
  <2>4. op \in SUBSET Resources /\ hd \in SUBSET Resources /\ op \cap Databases \subseteq opened[p]
    BY <1>2 DEF Resources, Databases
  <2> HIDE DEF ws, op, hd
  <2> QED
    BY <1>1, <2>1, <2>2, <2>3, <2>4, Typed, Inside, PlainStep DEF Stages
<1>4. CASE opened[p] \cap Databases = {}
  <2> DEFINE ws == wk[p]
             op == opened[p] \ {"logs"}
             hd == had[p]
  <2>1. Becomes(p, "release", op, hd, ws, told[p], left[p])
    BY <1>1, <1>4, Typed DEF CloseFiles, Becomes, Go, Detach, KeepWork, KeepFiles
  <2>2. ws \in WorkStates
    BY <1>2 DEF WorkStates
  <2>3. StageOK("release", op, hd, ws, told[p], left[p])
    BY <1>1, <1>2, <1>4 DEF StageOK, FilesOK, HadOK, WorkOK, StopOK, Stopped, AllOff,
        Early, Building, Closed, AfterHttp, AfterTasks, AfterBuild, AfterCopies, Unwatched,
       WorkStates, Workers, Databases, Resources
  <2>4. op \in SUBSET Resources /\ hd \in SUBSET Resources /\ op \cap Databases \subseteq opened[p]
    BY <1>2 DEF Resources, Databases
  <2> HIDE DEF ws, op, hd
  <2> QED
    BY <1>1, <2>1, <2>2, <2>3, <2>4, Typed, Inside, PlainStep DEF Stages
<1> QED
  BY <1>3, <1>4 DEF CloseFiles

\* The mergers are waited for, whatever they take; then the upload engine closes.
LEMMA CloseUploadsKeeps ==
  ASSUME SlConstants, SlInv, NEW p \in SlProcs, CloseUploads(p)
  PROVE  SlInv'
<1>1. /\ SlTypeOK /\ wk[p] \in WorkStates /\ opened[p] \subseteq Resources
      /\ StageOK(slPc[p], opened[p], had[p], wk[p], told[p], left[p])
  BY StepFrom, Typed
<1>2. CASE Tell(p, "closeUploads", "mergers", "joinMergers")
  <2>1. StageOK("joinMergers", opened[p], had[p], wk[p], told[p] \cup {"mergers"}, left[p])
    BY <1>1, <1>2 DEF Tell, StageOK, FilesOK, HadOK, WorkOK, StopOK, Stopped, AllOff,
       Early, Building, Closed, AfterHttp, AfterTasks, AfterBuild, AfterCopies, Unwatched
  <2> QED
    BY <1>2, <2>1, TellKeeps DEF Stages, Workers
<1>3. CASE slPc[p] = "joinMergers"
  <2> DEFINE op == opened[p] \ {"uploads"}
  <2>0. slPc[p] = "joinMergers" /\ Quiet(p, "mergers") /\ Go(p, "closeFiles")
        /\ Detach(p, {"uploads"}) /\ KeepWork
        /\ NoFault /\ UNCHANGED <<holder, sealed, slCrashes, disk>>
    BY <1>3 DEF CloseUploads, Tell, KeepRest
  <2>1. Becomes(p, "closeFiles", op, had[p], wk[p], told[p], left[p])
    BY <1>1, <2>0, Typed DEF Becomes, Go, Detach, KeepWork
  <2>2. StageOK("closeFiles", op, had[p], wk[p], told[p], left[p])
    BY <1>1, <2>0 DEF Quiet, StageOK, FilesOK, HadOK, WorkOK, StopOK, Stopped, AllOff,
       Early, Building, Closed, AfterHttp, AfterTasks, AfterBuild, AfterCopies, Unwatched
  <2>3. op \in SUBSET Resources /\ op \cap Databases \subseteq opened[p]
    BY <1>1
  <2> HIDE DEF op
  <2> QED
    BY <1>1, <2>0, <2>1, <2>2, <2>3, Typed, Inside, PlainStep DEF Stages
<1> QED
  BY <1>2, <1>3 DEF CloseUploads

LEMMA ReleaseLockKeeps ==
  ASSUME SlConstants, SlInv, NEW p \in SlProcs, ReleaseLock(p)
  PROVE  SlInv'
<1>1. /\ SlTypeOK /\ VersionsInv /\ slPc[p] = "release" /\ NoFault
      /\ UNCHANGED <<sealed, slCrashes, disk>> /\ holder' \in {holder, Nobody}
      /\ holder' = holder \/ holder = p
      /\ StageOK(slPc[p], opened[p], had[p], wk[p], told[p], left[p])
  BY StepFrom DEF ReleaseLock, Release, KeepFiles, KeepRest
<1>2. Becomes(p, "ended", opened[p], had[p], wk[p], told[p], left[p])
  BY <1>1, Typed DEF ReleaseLock, Becomes, Go, KeepWork, KeepFiles
<1>3. StageOK("ended", opened[p], had[p], wk[p], told[p], left[p])
  BY <1>1 DEF StageOK, FilesOK, HadOK, WorkOK, StopOK,
     Early, Building, Closed, AfterHttp, AfterTasks, AfterBuild, AfterCopies, Unwatched
<1>4. opened[p] \cap Databases = {}
  BY <1>3 DEF StageOK, FilesOK
<1>5. /\ slFaults' \in 0 .. SlMaxFaults /\ VersionsInv' /\ disk' \in Files
      /\ sealed' \subseteq SlProcs /\ slCrashes' \in 0 .. SlCrashes
  BY <1>1, Faults, Typed DEF VersionsInv, SlTypeOK
<1> QED
  BY <1>1, <1>2, <1>3, <1>4, <1>5, Typed, OneProcess DEF Stages, Outside

\* A process that starts takes the lock when nobody has it.
LEMMA LockKeeps ==
  ASSUME SlConstants, SlInv, NEW p \in SlProcs, NEW pc \in {"probing", "editing", "release"},
         slPc[p] = "down", Take(p), Go(p, pc), Fault \/ NoFault, KeepWork, KeepFiles, KeepRest
  PROVE  SlInv'
<1>1. /\ SlTypeOK /\ VersionsInv /\ UNCHANGED <<sealed, slCrashes, disk>>
      /\ holder = Nobody /\ holder' = p
      /\ StageOK(slPc[p], opened[p], had[p], wk[p], told[p], left[p])
  BY StepFrom DEF Take, KeepFiles, KeepRest
<1>2. Becomes(p, pc, opened[p], had[p], wk[p], told[p], left[p])
  BY <1>1, Typed DEF Becomes, Go, KeepWork, KeepFiles
<1>3. StageOK(pc, opened[p], had[p], wk[p], told[p], left[p])
  BY <1>1 DEF StageOK, FilesOK, HadOK, WorkOK, StopOK, Stopped, AllOff, Workers,
     Early, Building, Closed, AfterHttp, AfterTasks, AfterBuild, AfterCopies, Unwatched
<1>4. opened[p] \cap Databases = {}
  BY <1>1 DEF StageOK, FilesOK
<1>5. /\ slFaults' \in 0 .. SlMaxFaults /\ VersionsInv' /\ disk' \in Files
      /\ sealed' \subseteq SlProcs /\ slCrashes' \in 0 .. SlCrashes /\ pc \in Stages
  BY <1>1, Faults, Typed DEF VersionsInv, SlTypeOK, Stages
<1> QED
  BY <1>1, <1>2, <1>3, <1>4, <1>5, Typed, OneProcess

\* However a process ends, the kernel drops what it held.
LEMMA VanishKeeps ==
  ASSUME SlConstants, SlInv, NEW p \in SlProcs, Vanish(p), NoFault,
         sealed' \in {sealed \cup {p}, sealed \ {p}}, slCrashes' \in 0 .. SlCrashes
  PROVE  SlInv'
<1> DEFINE off == [w \in Workers |-> "off"]
<1>1. /\ SlTypeOK /\ VersionsInv /\ disk' = disk /\ holder' \in {holder, Nobody}
      /\ holder' = holder \/ holder = p
  BY StepFrom DEF Vanish, Release
<1>2. Becomes(p, "down", {}, {}, off, {}, {})
  BY <1>1 DEF Vanish, Becomes, Go
<1>3. StageOK("down", {}, {}, off, {}, {}) /\ off \in WorkStates
  BY DEF StageOK, FilesOK, HadOK, WorkOK, StopOK, Stopped, AllOff, WorkStates, Workers,
     Early, Building, Closed, AfterHttp, AfterTasks, AfterBuild, AfterCopies, Unwatched
<1>4. /\ slFaults' \in 0 .. SlMaxFaults /\ VersionsInv' /\ disk' \in Files
      /\ sealed' \subseteq SlProcs
  BY <1>1, Faults, Typed DEF VersionsInv, SlTypeOK
<1> HIDE DEF off
<1> QED
  BY <1>1, <1>2, <1>3, <1>4, OneProcess DEF Stages, Outside

\* A worker at work or at rest: one that was told to stop begins nothing more.
LEMMA WorkKeeps ==
  ASSUME SlConstants, SlInv, NEW p \in SlProcs, NEW w \in Workers, Begin(p, w) \/ End(p, w)
  PROVE  SlInv'
<1>1. /\ SlTypeOK /\ VersionsInv /\ SchemaOK(p) /\ (slPc[p] \notin Outside => holder = p)
      /\ StageOK(slPc[p], opened[p], had[p], wk[p], told[p], left[p])
      /\ NoFault /\ UNCHANGED <<holder, sealed, slCrashes, disk>>
  BY StepFrom DEF Begin, End, KeepRest, KeepFiles
<1>2. PICK s \in {"idle", "busy"} :
        /\ wk' = [wk EXCEPT ![p] = [wk[p] EXCEPT ![w] = s]]
        /\ wk[p][w] # "off" /\ (s = "busy" => w \notin told[p] /\ wk[p][w] = "idle")
  BY DEF Begin, End
<1> DEFINE ws == [wk[p] EXCEPT ![w] = s]
<1>3. wk[p] \in WorkStates /\ ws \in WorkStates /\ ws[w] = s
      /\ \A v \in Workers \ {w} : ws[v] = wk[p][v]
  BY <1>1, Typed DEF WorkStates
<1>4. Becomes(p, slPc[p], opened[p], had[p], ws, told[p], left[p])
  BY <1>1, <1>2, Typed DEF Begin, End, Becomes, KeepFiles
<1> HIDE DEF ws
<1>5. \A v \in Workers : Stopped(wk[p], told[p], left[p], v) => Stopped(ws, told[p], left[p], v)
  BY <1>2, <1>3 DEF Stopped
<1>6. StopOK(slPc[p], ws, told[p], left[p])
  BY <1>1, <1>5 DEF StageOK, StopOK, Workers
<1>7. WorkOK(slPc[p], opened[p], had[p], ws)
  <2>1. ~AllOff(wk[p]) /\ slPc[p] \notin Early
    BY <1>1, <1>2 DEF AllOff, StageOK, WorkOK
  <2>2. slPc[p] \in Building => ws["http"] = "off"
    BY <1>1, <1>2, <1>3 DEF StageOK, WorkOK, Workers
  <2> QED
    BY <1>1, <2>1, <2>2 DEF StageOK, WorkOK
<1>8. /\ slFaults' \in 0 .. SlMaxFaults /\ VersionsInv' /\ disk' \in Files
      /\ sealed' \subseteq SlProcs /\ slCrashes' \in 0 .. SlCrashes
  BY <1>1, Faults, Typed DEF VersionsInv, SlTypeOK
<1>9. StageOK(slPc[p], opened[p], had[p], ws, told[p], left[p])
  BY <1>1, <1>6, <1>7 DEF StageOK
<1> QED
  BY <1>1, <1>3, <1>4, <1>8, <1>9, Typed, OneProcess DEF SchemaOK

\* A pool is opened, or is not.
LEMMA BootstrapKeeps ==
  ASSUME SlConstants, SlInv, NEW p \in SlProcs, bootstrap(p)
  PROVE  SlInv'
<1> DEFINE f == OpenAt[slPc[p]].file
<1>1. /\ SlTypeOK /\ VersionsInv /\ SchemaOK(p) /\ slPc[p] \in DOMAIN OpenAt /\ f \notin opened[p]
      /\ StageOK(slPc[p], opened[p], had[p], wk[p], told[p], left[p])
      /\ UNCHANGED <<holder, sealed, slCrashes, disk>> /\ (Fault \/ NoFault)
  BY StepFrom DEF bootstrap, KeepRest
<1>2. /\ f \in Databases /\ opened[p] \subseteq Resources /\ had[p] \subseteq Resources
      /\ holder = p /\ f \in Resources
  BY <1>1, StepFrom, Typed, Openings DEF Databases, Resources, Outside
<1>3. /\ slFaults' \in 0 .. SlMaxFaults /\ VersionsInv' /\ disk' \in Files
      /\ sealed' \subseteq SlProcs /\ slCrashes' \in 0 .. SlCrashes
  BY <1>1, Faults, Typed DEF VersionsInv, SlTypeOK
<1>4. CASE Attach(p, f) /\ UNCHANGED slPc
  <2> DEFINE op == opened[p] \cup {f}
             hd == had[p] \cup {f}
  <2>1. Becomes(p, slPc[p], op, hd, wk[p], told[p], left[p])
    BY <1>1, <1>4, Typed DEF bootstrap, Becomes, Attach, KeepWork
  <2>2. StageOK(slPc[p], op, hd, wk[p], told[p], left[p])
    BY <1>1, Openings DEF StageOK, FilesOK, HadOK, WorkOK, StopOK, Early, Building, Closed,
       AfterHttp, AfterTasks, AfterBuild, AfterCopies, Unwatched, Databases
  <2>3. \A g \in op \cap Databases :
          slPc[p] \notin {q \in DOMAIN OpenAt : OpenAt[q].file = g} => disk'[g].version = Known[p]
    BY <1>1 DEF SchemaOK
  <2>4. op \in SUBSET Resources /\ hd \in SUBSET Resources
    BY <1>2
  <2> HIDE DEF op, hd
  <2> QED
    BY <1>1, <1>2, <1>3, <2>1, <2>2, <2>3, <2>4, Typed, OneProcess
<1>5. CASE Go(p, OpenAt[slPc[p]].fail) /\ UNCHANGED <<opened, had>>
  <2> DEFINE pc == OpenAt[slPc[p]].fail
  <2>1. Becomes(p, pc, opened[p], had[p], wk[p], told[p], left[p])
    BY <1>1, <1>5, Typed DEF bootstrap, Becomes, Go, KeepWork
  <2>2. StageOK(pc, opened[p], had[p], wk[p], told[p], left[p])
    BY <1>1, Openings DEF StageOK, FilesOK, HadOK, WorkOK, StopOK, Stopped, AllOff, Workers,
       Early, Building, Closed, AfterHttp, AfterTasks, AfterBuild, AfterCopies, Unwatched, Databases
  <2>3. \A g \in opened[p] \cap Databases : disk'[g].version = Known[p]
    BY <1>1 DEF SchemaOK
  <2>4. pc \in Stages /\ pc \notin Outside
    BY <1>1, Openings DEF Stages, Outside
  <2> HIDE DEF pc
  <2> QED
    BY <1>1, <1>2, <1>3, <2>1, <2>2, <2>3, <2>4, Typed, OneProcess
<1> QED
  BY <1>4, <1>5 DEF bootstrap

\* A migration changes a file only under the lock, and a process goes on past it
\* only when the file has the shape its binary knows.
LEMMA MigrateKeeps ==
  ASSUME SlConstants, SlInv, NEW p \in SlProcs, migrate(p)
  PROVE  SlInv'
<1> DEFINE f == OpenAt[slPc[p]].file
<1>1. /\ SlTypeOK /\ VersionsInv /\ SchemaOK(p) /\ slPc[p] \in DOMAIN OpenAt /\ f \in opened[p]
      /\ StageOK(slPc[p], opened[p], had[p], wk[p], told[p], left[p])
      /\ UNCHANGED <<holder, sealed, slCrashes>> /\ (Fault \/ NoFault)
  BY StepFrom DEF migrate, KeepRest
<1>2. /\ f \in Databases /\ opened[p] \subseteq Resources /\ had[p] \subseteq Resources
      /\ holder = p /\ disk \in Files /\ Known[p] \in Nat
  BY <1>1, StepFrom, Typed, Openings DEF Databases, Outside, SlConstants
<1>3. /\ slFaults' \in 0 .. SlMaxFaults
      /\ sealed' \subseteq SlProcs /\ slCrashes' \in 0 .. SlCrashes
  BY <1>1, Faults DEF SlTypeOK
<1>4. CASE Drop(p, f) /\ Go(p, OpenAt[slPc[p]].fail) /\ UNCHANGED disk
  <2> DEFINE pc == OpenAt[slPc[p]].fail
             op == opened[p] \ {f}
             hd == had[p] \ {f}
  <2>1. Becomes(p, pc, op, hd, wk[p], told[p], left[p])
    BY <1>1, <1>4, Typed DEF migrate, Becomes, Drop, Go, KeepWork
  <2>2. StageOK(pc, op, hd, wk[p], told[p], left[p])
    BY <1>1, Openings DEF StageOK, FilesOK, HadOK, WorkOK, StopOK, Stopped, AllOff, Workers,
       Early, Building, Closed, AfterHttp, AfterTasks, AfterBuild, AfterCopies, Unwatched, Databases
  <2>3. \A g \in op \cap Databases : disk'[g].version = Known[p]
    BY <1>1, <1>4 DEF SchemaOK
  <2>4. /\ pc \in Stages /\ pc \notin Outside /\ op \in SUBSET Resources /\ hd \in SUBSET Resources
        /\ disk' \in Files /\ VersionsInv'
    BY <1>1, <1>2, <1>4, Openings DEF Stages, Outside, VersionsInv
  <2> HIDE DEF pc, op, hd
  <2> QED
    BY <1>1, <1>2, <1>3, <2>1, <2>2, <2>3, <2>4, Typed, OneProcess
<1>5. CASE migrateStep(f) /\ UNCHANGED <<slPc, opened, had>>
  <2>1. Becomes(p, slPc[p], opened[p], had[p], wk[p], told[p], left[p])
    BY <1>1, <1>5, Typed DEF migrate, Becomes, KeepWork
  <2>2. /\ disk' \in Files /\ \A g \in Databases \ {f} : disk'[g] = disk[g]
        /\ disk'[f].version = disk[f].version + 1 /\ disk'[f].steps = disk[f].steps + 1
    <3> DEFINE r == [disk[f] EXCEPT !.version = disk[f].version + 1, !.steps = disk[f].steps + 1]
    <3>0. disk[f] \in [version : Nat, steps : Nat]
      BY <1>2 DEF Files
    <3>1. /\ r \in [version : Nat, steps : Nat]
          /\ r.version = disk[f].version + 1 /\ r.steps = disk[f].steps + 1
      <4> DEFINE v == disk[f].version + 1
                 n == disk[f].steps + 1
      <4>1. v \in Nat /\ n \in Nat
        BY <3>0
      <4>2. r = [disk[f] EXCEPT !.version = v, !.steps = n]
        OBVIOUS
      <4> HIDE DEF v, n
      <4>3. r \in [version : Nat, steps : Nat] /\ r.version = v /\ r.steps = n
        BY <3>0, <4>1, <4>2
      <4> QED
        BY <4>3 DEF v, n
    <3>2. disk' = [disk EXCEPT ![f] = r]
      BY <1>2, <1>5, <3>0 DEF migrateStep, Files
    <3> HIDE DEF r
    <3> QED
      BY <1>2, <3>1, <3>2 DEF Files
  <2>3. VersionsInv'
    BY <1>1, <1>2, <2>2 DEF VersionsInv
  <2>4. \A g \in opened[p] \cap Databases :
          slPc[p] \notin {q \in DOMAIN OpenAt : OpenAt[q].file = g} => disk'[g].version = Known[p]
    BY <1>1, <2>2 DEF SchemaOK
  <2> QED
    BY <1>1, <1>2, <1>3, <2>1, <2>2, <2>3, <2>4, Typed, OneProcess
<1>6. CASE /\ disk[f].version >= Known[p] /\ ~schemaAhead(p, f)
           /\ Go(p, OpenAt[slPc[p]].ok) /\ UNCHANGED <<opened, had, disk>>
  <2> DEFINE pc == OpenAt[slPc[p]].ok
  <2>1. Becomes(p, pc, opened[p], had[p], wk[p], told[p], left[p])
    BY <1>1, <1>6, Typed DEF migrate, Becomes, Go, KeepWork
  <2>2. StageOK(pc, opened[p], had[p], wk[p], told[p], left[p])
    BY <1>1, Openings DEF StageOK, FilesOK, HadOK, WorkOK, StopOK, Stopped, AllOff, Workers,
       Early, Building, Closed, AfterHttp, AfterTasks, AfterBuild, AfterCopies, Unwatched, Databases
  <2>3. disk[f].version = Known[p]
    BY <1>2, <1>6 DEF schemaAhead, Files
  <2>4. \A g \in opened[p] \cap Databases : disk'[g].version = Known[p]
    BY <1>1, <1>6, <2>3 DEF SchemaOK
  <2>5. pc \in Stages /\ pc \notin Outside /\ disk' \in Files /\ VersionsInv'
    BY <1>1, <1>2, <1>6, Openings DEF Stages, Outside, VersionsInv
  <2> HIDE DEF pc
  <2> QED
    BY <1>1, <1>2, <1>3, <2>1, <2>2, <2>4, <2>5, Typed, OneProcess
<1> QED
  BY <1>4, <1>5, <1>6 DEF migrate

-------------------------------------------------------------------------------
(* The theorems.                                                           *)

LEMMA LifeInit ==
  ASSUME SlConstants, SlInit
  PROVE  SlInv
<1>1. SlTypeOK
  BY DEF SlConstants, SlInit, SlTypeOK, Stages
<1>2. ASSUME NEW p \in SlProcs
      PROVE  slPc[p] \in Outside /\ SchemaOK(p)
             /\ StageOK(slPc[p], opened[p], had[p], wk[p], told[p], left[p])
  BY DEF SlInit, Outside, SchemaOK, StageOK, FilesOK, HadOK, WorkOK, StopOK, Stopped, AllOff,
     Early, Building, Closed, AfterHttp, AfterTasks, AfterBuild, AfterCopies, Unwatched
<1>3. VersionsInv
  BY DEF SlInit, VersionsInv
<1> QED
  BY <1>1, <1>2, <1>3 DEF SlInv, ProcessInv

LEMMA LifeStep ==
  ASSUME SlConstants, SlInv, [SlNext]_slVars
  PROVE  SlInv'
<1>1. CASE UNCHANGED slVars
  BY <1>1 DEF slVars, SlInv, SlTypeOK, ProcessInv, SchemaOK, VersionsInv
<1>2. ASSUME NEW p \in SlProcs, takeSettingsLock(p) \/ Load(p)
      PROVE  SlInv'
  BY <1>2, LockKeeps DEF takeSettingsLock, Load
<1>3. ASSUME NEW p \in SlProcs, Reexec(p) \/ Exit(p) \/ Crash(p)
      PROVE  SlInv'
  <2>1. slCrashes' \in 0 .. SlCrashes
    BY <1>3 DEF SlConstants, SlInv, SlTypeOK, Reexec, Exit, Crash
  <2> QED
    BY <1>3, <2>1, VanishKeeps DEF Reexec, Exit, Crash
<1>4. ASSUME NEW p \in SlProcs,
             \/ runSettings(p) \/ bootSettings(p) \/ Apply(p) \/ bootstrap(p) \/ migrate(p)
             \/ OpenLogs(p) \/ OpenCore(p) \/ OpenSettings(p) \/ startEvents(p)
      PROVE  SlInv'
  BY <1>4, RunSettingsKeeps, BootSettingsKeeps, ApplyKeeps, BootstrapKeeps, MigrateKeeps,
     OpenLogsKeeps, OpenCoreKeeps, OpenSettingsKeeps, StartEventsKeeps
<1>5. ASSUME NEW p \in SlProcs,
             OpenUploads(p) \/ OpenFlow(p) \/ Mount(p) \/ Serve(p)
      PROVE  SlInv'
  BY <1>5, OpenUploadsKeeps, OpenFlowKeeps, MountKeeps, ServeKeeps
<1>6. ASSUME NEW p \in SlProcs, NEW w \in Workers, Begin(p, w) \/ End(p, w)
      PROVE  SlInv'
  BY <1>6, WorkKeeps
<1>7. ASSUME NEW p \in SlProcs,
             \/ RequestRestart(p) \/ StopListener(p) \/ stopTasks(p) \/ closeEvents(p)
             \/ StopSizeGuard(p) \/ DrainIndex(p) \/ DrainJobs(p) \/ stopAndWait(p)
      PROVE  SlInv'
  BY <1>7, RestartKeeps, StopListenerKeeps, StopTasksKeeps, CloseEventsKeeps, StopGuardKeeps,
     DrainIndexKeeps, DrainJobsKeeps, GraceKeeps
<1>8. ASSUME NEW p \in SlProcs, CloseUploads(p) \/ CloseFiles(p) \/ ReleaseLock(p)
      PROVE  SlInv'
  BY <1>8, CloseUploadsKeeps, CloseFilesKeeps, ReleaseLockKeeps
<1> QED
  BY <1>1, <1>2, <1>3, <1>4, <1>5, <1>6, <1>7, <1>8 DEF SlNext

THEOREM LifeInvariant == ASSUME SlConstants PROVE SlSpec => []SlInv
<1>1. SlInit => SlInv
  BY LifeInit
<1>2. SlInv /\ [SlNext]_slVars => SlInv'
  BY LifeStep
<1> QED
  BY <1>1, <1>2, PTL DEF SlSpec

\* No two processes ever have a database of one directory open, and no process
\* has one open without the directory's lock, through probes, re-execs, failed
\* starts, closes and kills (db/instance/instance.go Take, main.go run, server/open.go Close).
THEOREM LockCoversOpenFiles == ASSUME SlConstants PROVE SlSpec => []LockCoversFiles
<1>1. SlInv => LockCoversFiles
  <2> SUFFICES ASSUME SlInv, NEW p \in SlProcs, opened[p] \cap Databases # {}
               PROVE  holder = p
    BY DEF LockCoversFiles
  <2>1. /\ slPc[p] \notin Outside => holder = p
        /\ FilesOK(slPc[p], opened[p])
    BY StepFrom DEF StageOK
  <2> QED
    BY <2>1 DEF FilesOK, Outside
<1> QED
  BY <1>1, LifeInvariant, PTL

\* A process works on a database only in the shape its own binary knows, however
\* many releases ran over the directory before and wherever they were killed, and
\* the recorded version is the steps applied (db/dbfile/migrate.go migrate).
THEOREM EachServesOwnSchema == ASSUME SlConstants PROVE SlSpec => []ServesOwnSchema
<1>1. SlInv => ServesOwnSchema
  BY DEF SlInv, ProcessInv, SchemaOK, VersionsInv, ServesOwnSchema
<1> QED
  BY <1>1, LifeInvariant, PTL

\* What Close waits for never finds a resource closed under it, unless the wait
\* for it ran out: the order of the close is right for every worker, however many
\* are at work and wherever the construction had stopped (server/open.go Close).
THEOREM CloseOrderHolds == ASSUME SlConstants PROVE SlSpec => []NoUseAfterClose
<1>1. SlInv => NoUseAfterClose
  <2> SUFFICES ASSUME SlInv, NEW p \in SlProcs, NEW w \in Workers \ Unawaited,
                      wk[p][w] = "busy", w \notin left[p]
               PROVE  Needs[w] \cap had[p] \subseteq opened[p]
    BY DEF NoUseAfterClose
  <2>1. WorkOK(slPc[p], opened[p], had[p], wk[p]) /\ StopOK(slPc[p], wk[p], told[p], left[p])
    BY StepFrom DEF StageOK
  <2>2. ~Stopped(wk[p], told[p], left[p], w) /\ ~AllOff(wk[p])
    BY DEF Stopped, AllOff
  <2>3. w \in {"http", "tasks", "build", "copies", "mergers"}
    BY DEF Workers, Unawaited
  <2>4. slPc[p] \notin Closed
    BY <2>1, <2>2, <2>3 DEF StopOK, AfterHttp, AfterTasks, AfterBuild, AfterCopies
  <2>5. CASE had[p] \subseteq opened[p]
    BY <2>5
  <2>6. CASE slPc[p] \in Unwatched /\ had[p] \subseteq opened[p] \cup {"watcher"}
    <3>1. w \in {"build", "copies", "mergers"}
      BY <2>1, <2>2, <2>3, <2>6 DEF StopOK, AfterHttp, AfterTasks, AfterBuild, Unwatched
    <3>2. "watcher" \notin Needs[w]
      BY <3>1 DEF Needs, Workers, Databases
    <3> QED
      BY <2>6, <3>2
  <2> QED
    BY <2>1, <2>2, <2>4, <2>5, <2>6 DEF WorkOK
<1> QED
  BY <1>1, LifeInvariant, PTL

------------------------------------------------------------------------------
(***************************************************************************)
(* The listener, for any sets of hosts and names, any number of savers and *)
(* any number of restarts and saves.  The pair is made once: the key goes  *)
(* first, so whatever a crash leaves is a key without a certificate, which *)
(* is the one state from which a start makes a pair.  Once there is a      *)
(* certificate it is the last one made, and the one every process shows.   *)
(* The probe file is right because a publication that read before another  *)
(* change is marked, and every change is followed by one that was not.     *)
(***************************************************************************)

(* The inductive invariant.                                                *)

\* The key is the last that was made; the certificate is missing or goes with it.
FilesInv ==
    /\ lsGen \in Nat
    /\ \/ lsGen = 0 /\ lsKey = NoFile
       \/ lsGen > 0 /\ lsKey.gen = lsGen /\ lsKey.at = lsGen
    /\ \/ lsCert = NoFile
       \/ lsGen > 0 /\ lsCert.gen = lsGen /\ lsCert.at = lsGen
    /\ lsProc = "cert" => lsCert = NoFile /\ lsGen > 0
    /\ lsProc \in {"start", "up"} => lsCert # NoFile
    /\ lsProc = "refused" => lsCert # NoFile /\ ~coversHosts(lsCert, lsHost)

\* What was ever shown is the certificate there is.
ServedInv ==
    /\ lsServed \in [now : Nat, first : Nat]
    /\ lsServed.first # 0 => lsCert # NoFile /\ lsServed.first = lsCert.gen
    /\ lsServed.now # 0 => lsServed.now = lsServed.first

\* Where a Load can be, what it carries, and where its values come from.
Addresses == LsHosts \cup {DefaultHost, "none"}
AppNames == LsNames \cup {"none"}
Due == {"publishHost", "publishBind", "probeHost", "probeBind"}
LoadRecs == [pc : Due \cup {"idle", "values", "hosts", "bind", "move"}, addr : Addresses, name : AppNames,
             seen : [addr : Addresses, name : AppNames], crossed : BOOLEAN]
LoadsInv ==
    /\ {lsBind, lsHost, lsAddr} \subseteq Addresses /\ {lsWant, lsName} \subseteq AppNames
    /\ lsSave \in [LsSavers -> LoadRecs]
    /\ lsProc # "up" => \A s \in LsSavers : lsSave[s].pc = "idle"

\* A publication that is not marked holds what is current, and so does the file
\* when no publication is due.
LsCurrent == [addr |-> lsAddr, name |-> lsName]
ProbeInv ==
    /\ \A s \in LsSavers : lsSave[s].pc \in {"probeHost", "probeBind"} /\ ~lsSave[s].crossed
                             => lsSave[s].seen = LsCurrent
    /\ lsProc = "up" /\ ~lsCrossed /\ (\A s \in LsSavers : lsSave[s].pc \notin Due)
         => lsProbe = LsCurrent

LsInv == FilesInv /\ ServedInv /\ LoadsInv /\ ProbeInv

------------------------------------------------------------------------------
(* The steps.                                                              *)

\* What loadPair finds in such files, and so what a start does (tls.go EnsureTLS).
LEMMA PairFound ==
  ASSUME FilesInv
  PROVE  /\ lsCert # NoFile => loadPair = "pair"
         /\ lsCert = NoFile => loadPair \in {"nothing", "torn"}
<1>1. ASSUME lsCert # NoFile PROVE loadPair = "pair"
  BY <1>1 DEF FilesInv, loadPair, PairOf, NoFile
<1>2. ASSUME lsCert = NoFile PROVE loadPair \in {"nothing", "torn"}
  BY <1>2 DEF FilesInv, loadPair
<1> QED
  BY <1>1, <1>2

LEMMA StartDecides ==
  ASSUME FilesInv, NEW h
  PROVE  /\ lsCert = NoFile => EnsureTLS(h) = "generate"
         /\ lsCert # NoFile /\ coversHosts(lsCert, h) => EnsureTLS(h) = "serve"
         /\ lsCert # NoFile /\ ~coversHosts(lsCert, h) => EnsureTLS(h) = "refuse"
<1>1. ASSUME lsCert = NoFile PROVE EnsureTLS(h) = "generate"
  BY <1>1, PairFound DEF EnsureTLS
<1>2. ASSUME lsCert # NoFile PROVE EnsureTLS(h) = IF coversHosts(lsCert, h) THEN "serve" ELSE "refuse"
  BY <1>2, PairFound DEF EnsureTLS, firstBoot
<1> QED
  BY <1>1, <1>2

\* A step of a save touches neither the files nor what was shown.
LEMMA SavesLeaveFiles ==
  ASSUME NEW s \in LsSavers,
         \/ SaveSetting(s) \/ Values(s) \/ LoadHosts(s) \/ LoadBind(s)
         \/ replaceAddress(s) \/ publish(s) \/ WriteProbe(s)
  PROVE  /\ UNCHANGED <<lsKey, lsCert, lsGen, lsServed, lsProc, lsHost>>
         /\ lsProc = "up"
<1> USE DEF lsFiles, LsAt
<1> QED
  BY DEF SaveSetting, Values, LoadHosts, LoadBind, replaceAddress, publish, WriteProbe

LEMMA FilesStep ==
  ASSUME LsInv, LsNext
  PROVE  FilesInv'
<1> USE DEF LsInv, FilesInv, coversHosts
<1>1. ASSUME Preflight PROVE FilesInv'
  BY <1>1 DEF Preflight, lsFiles
<1>2. ASSUME ensureCertificate PROVE FilesInv'
  <2>1. CASE lsCert = NoFile
    <3>1. writePair /\ lsCert' = NoFile
      BY <1>2, <2>1, StartDecides DEF ensureCertificate, writePair
    <3> QED
      BY <3>1 DEF writePair, Made
  <2>2. CASE lsCert # NoFile
    <3>1. /\ UNCHANGED <<lsKey, lsCert, lsGen, lsHost>>
          /\ lsProc' = IF coversHosts(lsCert, lsHost) THEN "start" ELSE "refused"
      <4> HIDE DEF coversHosts
      <4> QED
        BY <1>2, <2>2, StartDecides DEF ensureCertificate, lsFiles
    <3> QED
      BY <2>2, <3>1
  <2> QED
    BY <2>1, <2>2
<1>3. ASSUME generateTLS PROVE FilesInv'
  <2>1. /\ lsGen' = lsGen /\ lsGen > 0 /\ lsProc' = "start"
        /\ lsKey'.gen = lsGen /\ lsKey'.at = lsGen /\ lsCert'.gen = lsGen /\ lsCert'.at = lsGen
    BY <1>3 DEF generateTLS, Made
  <2>2. lsCert' # NoFile
    BY <2>1 DEF NoFile
  <2> QED
    BY <2>1, <2>2
<1>4. ASSUME ListenerServe PROVE FilesInv'
  BY <1>4 DEF ListenerServe
<1>5. ASSUME StopListening PROVE FilesInv'
  BY <1>5 DEF StopListening
<1>6. ASSUME NEW h \in LsHosts, SettingsCommand(h) PROVE FilesInv'
  BY <1>6 DEF SettingsCommand, lsFiles
<1>7. ASSUME NEW s \in LsSavers,
             \/ SaveSetting(s) \/ Values(s) \/ LoadHosts(s) \/ LoadBind(s)
             \/ replaceAddress(s) \/ publish(s) \/ WriteProbe(s)
      PROVE  FilesInv'
  BY <1>7, SavesLeaveFiles
<1> QED
  BY <1>1, <1>2, <1>3, <1>4, <1>5, <1>6, <1>7 DEF LsNext

LEMMA ServedStep ==
  ASSUME LsInv, LsNext
  PROVE  ServedInv'
<1> USE DEF LsInv, ServedInv
<1>1. ASSUME Preflight PROVE ServedInv'
  BY <1>1 DEF Preflight, lsFiles
<1>2. ASSUME ensureCertificate PROVE ServedInv'
  BY <1>2 DEF ensureCertificate, writePair, lsFiles
<1>3. ASSUME generateTLS PROVE ServedInv'
  <2>1. lsServed' = lsServed /\ lsServed.first = 0
    BY <1>3 DEF generateTLS, FilesInv
  <2> QED
    BY <2>1
<1>4. ASSUME ListenerServe PROVE ServedInv'
  <2>1. lsCert' = lsCert /\ lsCert # NoFile /\ lsCert.gen \in Nat
    BY <1>4 DEF ListenerServe, FilesInv
  <2>2. lsServed' = [now |-> lsCert.gen, first |-> lsCert.gen]
    BY <1>4 DEF ListenerServe
  <2> QED
    BY <2>1, <2>2
<1>5. ASSUME StopListening PROVE ServedInv'
  BY <1>5 DEF StopListening
<1>6. ASSUME NEW h \in LsHosts, SettingsCommand(h) PROVE ServedInv'
  BY <1>6 DEF SettingsCommand, lsFiles
<1>7. ASSUME NEW s \in LsSavers,
             \/ SaveSetting(s) \/ Values(s) \/ LoadHosts(s) \/ LoadBind(s)
             \/ replaceAddress(s) \/ publish(s) \/ WriteProbe(s)
      PROVE  ServedInv'
  BY <1>7, SavesLeaveFiles
<1> QED
  BY <1>1, <1>2, <1>3, <1>4, <1>5, <1>6, <1>7 DEF LsNext

\* A Load that goes on leaves the others; one that moved the server marks them.
LEMMA LoadGoes ==
  ASSUME LoadsInv, NEW s \in LsSavers, NEW rec \in LoadRecs, LsGoes(s, rec)
  PROVE  /\ lsSave' \in [LsSavers -> LoadRecs] /\ lsSave'[s] = rec
         /\ \A t \in LsSavers \ {s} : lsSave'[t] = lsSave[t]
BY DEF LoadsInv, LsGoes

LEMMA LoadMoves ==
  ASSUME LoadsInv, NEW s \in LsSavers, NEW rec \in LoadRecs, LsMoves(s, rec)
  PROVE  /\ lsSave' \in [LsSavers -> LoadRecs] /\ lsSave'[s] = rec
         /\ \A t \in LsSavers \ {s} :
              /\ lsSave'[t].pc = lsSave[t].pc
              /\ lsSave[t].pc \in {"probeHost", "probeBind"} => lsSave'[t].crossed
<1>1. lsSave'[s] = rec
  BY DEF LsMoves
<1>2. ASSUME NEW t \in LsSavers \ {s}
      PROVE  /\ lsSave'[t] \in LoadRecs /\ lsSave'[t].pc = lsSave[t].pc
             /\ lsSave[t].pc \in {"probeHost", "probeBind"} => lsSave'[t].crossed
  <2>1. lsSave[t] \in LoadRecs
    BY DEF LoadsInv
  <2>2. lsSave'[t] = [lsSave[t] EXCEPT !.crossed = @ \/ lsSave[t].pc \in {"probeHost", "probeBind"}]
    BY DEF LsMoves
  <2> QED
    BY <2>1, <2>2 DEF LoadRecs
<1> QED
  BY <1>1, <1>2 DEF LsMoves

LEMMA LoadsStep ==
  ASSUME LsInv, LsNext
  PROVE  LoadsInv'
<1> USE DEF LsInv
<1>0. LsIdle \in LoadRecs /\ DefaultHost \in Addresses /\ "none" \in Addresses
  BY DEF LsIdle, NoProbe, LoadRecs, Addresses, AppNames
<1>1. ASSUME Preflight PROVE LoadsInv'
  BY <1>0, <1>1 DEF Preflight, LoadsInv, bootAddress
<1>2. ASSUME ensureCertificate PROVE LoadsInv'
  <2>1. lsProc # "up"
    BY <1>2 DEF ensureCertificate
  <2> QED
    BY <1>2, <2>1 DEF ensureCertificate, writePair, LoadsInv
<1>3. ASSUME generateTLS PROVE LoadsInv'
  BY <1>3 DEF generateTLS, LoadsInv
<1>4. ASSUME ListenerServe PROVE LoadsInv'
  BY <1>4 DEF ListenerServe, LoadsInv
<1>5. ASSUME StopListening PROVE LoadsInv'
  BY <1>0, <1>5 DEF StopListening, LoadsInv, LsIdle
<1>6. ASSUME NEW h \in LsHosts, SettingsCommand(h) PROVE LoadsInv'
  BY <1>6 DEF SettingsCommand, LoadsInv, Addresses
<1>7. ASSUME NEW s \in LsSavers,
             \/ SaveSetting(s) \/ Values(s) \/ LoadHosts(s) \/ LoadBind(s)
             \/ replaceAddress(s) \/ publish(s) \/ WriteProbe(s)
      PROVE  LoadsInv'
  <2>0. lsSave[s] \in LoadRecs /\ lsProc' = "up" /\ lsHost' = lsHost
    BY <1>7, SavesLeaveFiles DEF LoadsInv
  <2>1. CASE SaveSetting(s)
    <3>1. [LsIdle EXCEPT !.pc = "values"] \in LoadRecs
      BY <1>0 DEF LoadRecs
    <3> QED
      BY <2>0, <2>1, <3>1, LoadGoes DEF SaveSetting, LoadsInv, Addresses, AppNames
  <2>2. CASE Values(s)
    <3>1. [LsIdle EXCEPT !.pc = "hosts", !.addr = lsBind, !.name = lsWant] \in LoadRecs
      BY <1>0 DEF LoadRecs, LoadsInv
    <3> QED
      BY <2>0, <2>2, <3>1, LoadGoes DEF Values, LoadsInv
  <2>3. CASE LoadHosts(s)
    <3>1. [lsSave[s] EXCEPT !.pc = "bind"] \in LoadRecs /\ [lsSave[s] EXCEPT !.pc = "publishHost"] \in LoadRecs
      BY <2>0 DEF LoadRecs, Due
    <3>2. lsSave' \in [LsSavers -> LoadRecs]
      BY <2>3, <3>1, LoadGoes, LoadMoves DEF LoadHosts
    <3>3. lsName' \in AppNames
      BY <2>0, <2>3 DEF LoadHosts, LoadRecs
    <3> QED
      BY <2>0, <2>3, <3>2, <3>3 DEF LoadHosts, LoadsInv
  <2>4. CASE LoadBind(s)
    <3>1. [lsSave[s] EXCEPT !.pc = "move"] \in LoadRecs
      BY <2>0 DEF LoadRecs
    <3>2. lsSave' \in [LsSavers -> LoadRecs]
      BY <1>0, <2>4, <3>1, LoadGoes DEF LoadBind
    <3> QED
      BY <2>0, <2>4, <3>2 DEF LoadBind, LoadsInv
  <2>5. CASE replaceAddress(s)
    <3>1. [lsSave[s] EXCEPT !.pc = "publishBind"] \in LoadRecs
      BY <2>0 DEF LoadRecs, Due
    <3>2. lsSave' \in [LsSavers -> LoadRecs]
      BY <1>0, <2>5, <3>1, LoadGoes, LoadMoves DEF replaceAddress
    <3>3. lsAddr' \in Addresses
      BY <2>0, <2>5 DEF replaceAddress, LoadRecs, LoadsInv
    <3> QED
      BY <2>0, <2>5, <3>2, <3>3 DEF replaceAddress, LoadsInv
  <2>6. CASE publish(s)
    <3>1. [lsSave[s] EXCEPT !.pc = IF @ = "publishHost" THEN "probeHost" ELSE "probeBind",
                            !.seen = LsCurrent] \in LoadRecs
      BY <2>0 DEF LoadRecs, Due, LsCurrent, LoadsInv
    <3> QED
      BY <2>0, <2>6, <3>1, LoadGoes DEF publish, LoadsInv, LsCurrent
  <2>7. CASE WriteProbe(s)
    <3>1. [lsSave[s] EXCEPT !.pc = "bind", !.seen = NoProbe, !.crossed = FALSE] \in LoadRecs
      BY <2>0 DEF LoadRecs, Due, NoProbe, Addresses, AppNames
    <3>2. lsSave' \in [LsSavers -> LoadRecs]
      BY <1>0, <2>7, <3>1, LoadGoes DEF WriteProbe
    <3> QED
      BY <2>0, <2>7, <3>2 DEF WriteProbe, LoadsInv
  <2> QED
    BY <1>7, <2>1, <2>2, <2>3, <2>4, <2>5, <2>6, <2>7
<1> QED
  BY <1>1, <1>2, <1>3, <1>4, <1>5, <1>6, <1>7 DEF LsNext

\* A Load that goes where nothing is due keeps the file as right as it was.
LEMMA QuietGoes ==
  ASSUME LsInv, NEW s \in LsSavers, NEW rec \in LoadRecs, LsGoes(s, rec),
         lsSave[s].pc \notin Due, rec.pc \notin Due,
         UNCHANGED <<lsProc, lsAddr, lsName, lsProbe, lsCrossed>>
  PROVE  ProbeInv'
<1>1. /\ lsSave'[s] = rec /\ \A t \in LsSavers \ {s} : lsSave'[t] = lsSave[t]
  BY LoadGoes DEF LsInv
<1> QED
  BY <1>1 DEF LsInv, ProbeInv, Due, LsCurrent

\* A Load that moved the server has a publication due, and every other is marked.
LEMMA MoveMarks ==
  ASSUME LsInv, NEW s \in LsSavers, NEW rec \in LoadRecs, LsMoves(s, rec),
         rec.pc \in {"publishHost", "publishBind"}
  PROVE  ProbeInv'
<1>1. /\ lsSave'[s] = rec
      /\ \A t \in LsSavers \ {s} :
           /\ lsSave'[t].pc = lsSave[t].pc
           /\ lsSave[t].pc \in {"probeHost", "probeBind"} => lsSave'[t].crossed
  BY LoadMoves DEF LsInv
<1>2. \A t \in LsSavers : lsSave'[t].pc \in {"probeHost", "probeBind"} => lsSave'[t].crossed
  BY <1>1
<1>3. lsSave'[s].pc \in Due
  BY <1>1 DEF Due
<1> QED
  BY <1>2, <1>3 DEF ProbeInv

LEMMA ProbeStep ==
  ASSUME LsInv, LsNext
  PROVE  ProbeInv'
<1>0. LsIdle \in LoadRecs /\ LsIdle.pc = "idle" /\ "idle" \notin Due
  BY DEF LsIdle, NoProbe, LoadRecs, Addresses, AppNames, Due
<1>i. lsProc # "up" => \A t \in LsSavers : lsSave[t].pc = "idle"
  BY DEF LsInv, LoadsInv
<1>1. ASSUME Preflight PROVE ProbeInv'
  BY <1>1, <1>i DEF Preflight, ProbeInv
<1>2. ASSUME ensureCertificate PROVE ProbeInv'
  <2>1. lsProc # "up" /\ lsProc' # "up" /\ lsSave' = lsSave
    BY <1>2 DEF ensureCertificate, writePair
  <2> QED
    BY <2>1, <1>i DEF ProbeInv
<1>3. ASSUME generateTLS PROVE ProbeInv'
  BY <1>3, <1>i DEF generateTLS, ProbeInv
<1>4. ASSUME ListenerServe PROVE ProbeInv'
  <2>1. lsSave' = lsSave /\ \A t \in LsSavers : lsSave[t].pc = "idle"
    BY <1>4, <1>i DEF ListenerServe
  <2>2. lsProbe' = LsCurrent'
    BY <1>4 DEF ListenerServe, LsCurrent
  <2> QED
    BY <2>1, <2>2 DEF ProbeInv
<1>5. ASSUME StopListening PROVE ProbeInv'
  BY <1>5 DEF StopListening, ProbeInv, LsIdle
<1>6. ASSUME NEW h \in LsHosts, SettingsCommand(h) PROVE ProbeInv'
  BY <1>6, <1>i DEF SettingsCommand, ProbeInv
<1>7. ASSUME NEW s \in LsSavers, SaveSetting(s) PROVE ProbeInv'
  <2>1. [LsIdle EXCEPT !.pc = "values"] \in LoadRecs /\ "values" \notin Due
    BY <1>0 DEF LoadRecs, Due
  <2>2. [LsIdle EXCEPT !.pc = "values"].pc = "values"
    BY DEF LsIdle
  <2> QED
    BY <1>0, <1>7, <2>1, <2>2, QuietGoes DEF SaveSetting, LsAt
<1>8. ASSUME NEW s \in LsSavers, Values(s) PROVE ProbeInv'
  <2> DEFINE r == [LsIdle EXCEPT !.pc = "hosts", !.addr = lsBind, !.name = lsWant]
  <2>1. r \in LoadRecs /\ r.pc \notin Due
    BY <1>0 DEF LoadRecs, Due, LsInv, LoadsInv, LsIdle
  <2>2. lsSave[s].pc \notin Due
    BY <1>8 DEF Values, LsAt, Due
  <2> QED
    BY <1>8, <2>1, <2>2, QuietGoes DEF Values
<1>9. ASSUME NEW s \in LsSavers, LoadHosts(s) PROVE ProbeInv'
  <2>0. lsSave[s] \in LoadRecs
    BY DEF LsInv, LoadsInv
  <2>1. CASE lsName' = lsName
    <3> DEFINE r == [lsSave[s] EXCEPT !.pc = "bind"]
    <3>1. r \in LoadRecs /\ r.pc \notin Due
      BY <2>0 DEF LoadRecs, Due
    <3>2. lsSave[s].pc \notin Due
      BY <1>9 DEF LoadHosts, LsAt, Due
    <3> QED
      BY <1>9, <2>1, <3>1, <3>2, QuietGoes DEF LoadHosts
  <2>2. CASE lsName' # lsName
    <3> DEFINE r == [lsSave[s] EXCEPT !.pc = "publishHost"]
    <3>1. r \in LoadRecs /\ r.pc = "publishHost"
      BY <2>0 DEF LoadRecs, Due
    <3> QED
      BY <1>9, <2>2, <3>1, MoveMarks DEF LoadHosts
  <2> QED
    BY <2>1, <2>2
<1>10. ASSUME NEW s \in LsSavers, LoadBind(s) PROVE ProbeInv'
  <2>0. lsSave[s] \in LoadRecs /\ lsSave[s].pc \notin Due
    BY <1>10 DEF LoadBind, LsAt, Due, LsInv, LoadsInv
  <2>1. [lsSave[s] EXCEPT !.pc = "move"] \in LoadRecs /\ [lsSave[s] EXCEPT !.pc = "move"].pc \notin Due
    BY <2>0 DEF LoadRecs, Due
  <2> QED
    BY <1>0, <1>10, <2>0, <2>1, QuietGoes DEF LoadBind
<1>11. ASSUME NEW s \in LsSavers, replaceAddress(s) PROVE ProbeInv'
  <2>0. lsSave[s] \in LoadRecs /\ lsSave[s].pc \notin Due
    BY <1>11 DEF replaceAddress, LsAt, Due, LsInv, LoadsInv
  <2> DEFINE r == [lsSave[s] EXCEPT !.pc = "publishBind"]
  <2>1. r \in LoadRecs /\ r.pc = "publishBind"
    BY <2>0 DEF LoadRecs, Due
  <2>2. CASE lsAddr' = lsAddr /\ LsGoes(s, LsIdle)
    BY <1>0, <1>11, <2>0, <2>2, QuietGoes DEF replaceAddress
  <2>3. CASE LsMoves(s, r)
    BY <2>1, <2>3, MoveMarks
  <2> QED
    BY <1>11, <2>2, <2>3 DEF replaceAddress
<1>12. ASSUME NEW s \in LsSavers, publish(s) PROVE ProbeInv'
  <2>0. lsSave[s] \in LoadRecs
    BY DEF LsInv, LoadsInv
  <2> DEFINE r == [lsSave[s] EXCEPT !.pc = IF @ = "publishHost" THEN "probeHost" ELSE "probeBind",
                                    !.seen = LsCurrent]
  <2>1. r \in LoadRecs /\ r.pc \in Due /\ r.seen = LsCurrent
    BY <2>0 DEF LoadRecs, Due, LsCurrent, LsInv, LoadsInv
  <2>2. lsSave'[s] = r /\ \A t \in LsSavers \ {s} : lsSave'[t] = lsSave[t]
    BY <1>12, <2>1, LoadGoes DEF publish, LsInv, LsCurrent
  <2>3. LsCurrent' = LsCurrent
    BY <1>12 DEF publish, LsCurrent
  <2> HIDE DEF r
  <2> QED
    BY <2>1, <2>2, <2>3 DEF ProbeInv, LsInv
<1>13. ASSUME NEW s \in LsSavers, WriteProbe(s) PROVE ProbeInv'
  <2>0. lsSave[s] \in LoadRecs
    BY DEF LsInv, LoadsInv
  <2> DEFINE r == IF lsSave[s].pc = "probeBind" THEN LsIdle
                  ELSE [lsSave[s] EXCEPT !.pc = "bind", !.seen = NoProbe, !.crossed = FALSE]
  <2>1. r \in LoadRecs /\ r.pc \notin Due
    BY <1>0, <2>0 DEF LoadRecs, Due, NoProbe, Addresses, AppNames
  <2>2. lsSave'[s] = r /\ \A t \in LsSavers \ {s} : lsSave'[t] = lsSave[t]
    BY <1>13, <2>1, LoadGoes DEF WriteProbe, LsInv
  <2>3. LsCurrent' = LsCurrent
    BY <1>13 DEF WriteProbe, LsCurrent
  <2>4. ~lsCrossed' => lsProbe' = LsCurrent
    BY <1>13 DEF WriteProbe, LsInv, ProbeInv
  <2> HIDE DEF r
  <2> QED
    BY <2>1, <2>2, <2>3, <2>4 DEF ProbeInv, LsInv, Due
<1> QED
  BY <1>1, <1>2, <1>3, <1>4, <1>5, <1>6, <1>7, <1>8, <1>9, <1>10, <1>11, <1>12, <1>13 DEF LsNext

------------------------------------------------------------------------------
(* The theorems.                                                           *)

LEMMA LsInitInv ==
  ASSUME LsInit
  PROVE  LsInv
<1>1. FilesInv /\ ServedInv
  BY DEF LsInit, FilesInv, ServedInv, NoFile
<1>2. LoadsInv /\ ProbeInv
  BY DEF LsInit, LoadsInv, ProbeInv, LoadRecs, LsIdle, NoProbe, Addresses, AppNames, Due
<1> QED
  BY <1>1, <1>2 DEF LsInv

\* What the listener keeps, at every step of any number of saves and restarts.
THEOREM ListenerInvariant == LsSpec => []LsInv
<1>1. LsInit => LsInv
  BY LsInitInv
<1>2. LsInv /\ [LsNext]_lsVars => LsInv'
  <2>1. CASE LsNext
    BY <2>1, FilesStep, ServedStep, LoadsStep, ProbeStep DEF LsInv
  <2>2. CASE UNCHANGED lsVars
    BY <2>2 DEF lsVars, LsInv, FilesInv, ServedInv, LoadsInv, ProbeInv, LsCurrent, coversHosts
  <2> QED
    BY <2>1, <2>2
<1> QED
  BY <1>1, <1>2, PTL DEF LsSpec

\* Every process over one data directory shows the same certificate, whatever
\* addresses were saved and wherever the processes died: a pair is made only
\* while there is no certificate (tls.go EnsureTLS, listener.go ensureCertificate).
THEOREM OneIdentity == LsSpec => []IdentityKept
<1>1. LsInv => IdentityKept
  BY DEF LsInv, ServedInv, IdentityKept
<1> QED
  BY <1>1, ListenerInvariant, PTL

\* No start is refused over what a crash between the two renames left; one is
\* refused only over a whole pair that does not name the host (tls.go loadPair).
THEOREM TornPairNeverRefuses == LsSpec => []TornPairRecovers
<1>1. LsInv => TornPairRecovers
  BY PairFound DEF LsInv, FilesInv, TornPairRecovers
<1> QED
  BY <1>1, ListenerInvariant, PTL

\* Between saves the probe file names the address and the host of the running
\* server, unless its last writer had read before another save moved the server
\* (listener.go publish).
THEOREM ProbeNamesServer == LsSpec => []ProbeLeads
<1>1. LsInv => ProbeLeads
  BY DEF LsInv, ProbeInv, ProbeLeads, LsQuiet, LsAt, LsCurrent, Due
<1> QED
  BY <1>1, ListenerInvariant, PTL

-------------------------------------------------------------------------------
(* Thumbnails: any number of requests of the two surfaces, of services that  *)
(* the settings open and replace, and of decoder slots in each.              *)

\* What the theorems ask of the constants: the first service is the first of
\* the services, nothing is no request, a request is of one surface, and only so
\* many are served at once; sizes are numbers.
ThConstants ==
  /\ 1 \in Services /\ Services \subseteq Nat \ {0}
  /\ Native \cap Mobile = {} /\ Nothing \notin Requests /\ IsFiniteSet(Native)
  /\ SourceOf \in [Keys -> [fmt : STRING, head : Nat, body : Nat, sound : BOOLEAN]]
  /\ MaxPixels \in Nat

ThStages == {"idle", "get", "open", "claim", "exchange", "publish", "serve", "end"}
CloseStages == {"none", "begin", "wait", "reap", "done"}

ThSvcRec == [open : BOOLEAN, closed : BOOLEAN, active : Nat, close : CloseStages]
ThReqRec == [pc : ThStages, svc : Services \cup {0}, key : Keys \cup {Nothing},
             src : Keys \cup {Nothing}, slot : ThWorkers \cup {Nothing}]
ThSlotRec == [owner : Requests \cup {Nothing}, alive : BOOLEAN]

ThShapes ==
  /\ thSvc \in [Services -> ThSvcRec] /\ thReq \in [Requests -> ThReqRec]
  /\ thSlot \in [Services -> [ThWorkers -> ThSlotRec]]
  /\ \A q \in Requests : thReq[q].pc # "idle" => thReq[q].svc \in Services
  /\ thCur \in Services \cup {0} /\ thAt \in Keys \cup {Nothing}
  /\ thMixed \subseteq Keys /\ DOMAIN thCache \subseteq Keys
  /\ thNeg = [s \in Services |-> thNeg[s]] /\ \A s \in Services : DOMAIN thNeg[s] \subseteq Keys

\* A service opens, serves, and is closed once: it is current only before its
\* Close began, and it takes no lease once it waits for the ones it has.
ServiceLife ==
  /\ thCur # 0 => thSvc[thCur].open /\ thSvc[thCur].close = "none"
  /\ \A s \in Services :
       /\ thSvc[s].closed <=> thSvc[s].close \in {"wait", "reap", "done"}
       /\ ~thSvc[s].open => thSvc[s].close = "none"

\* The requests that hold a lease on a service.
Leases(s) == {q \in Native : thReq[q].pc # "idle" /\ thReq[q].svc = s}

LeasesCounted ==
  \A s \in Services : /\ thSvc[s].active = Cardinality(Leases(s))
                      /\ thSvc[s].close \in {"reap", "done"} => thSvc[s].active = 0

\* The slot of a job is that request's, with a process in it, so no pool that
\* closes reaps it and no other request claims it.
SlotsOwned ==
  /\ \A q \in Requests : thReq[q].pc = "exchange" =>
       thReq[q].slot \in ThWorkers /\ thSlot[thReq[q].svc][thReq[q].slot].owner = q
  /\ NoWorkerOutlivesPool

\* What a request decodes is its key's file, unless the path was seen to change hands.
RequestsHonest ==
  \A q \in Requests :
    /\ thReq[q].pc = "open" => thReq[q].key \in Keys
    /\ thReq[q].pc \in {"claim", "exchange", "publish"} =>
         /\ thReq[q].key \in Keys /\ thReq[q].src \in Keys
         /\ thReq[q].key \notin thMixed => thReq[q].src = thReq[q].key
    /\ thReq[q].pc = "publish" => decodeJob(thReq[q].src) = "ok"

ThInv ==
  ThShapes /\ ServiceLife /\ LeasesCounted /\ SlotsOwned /\ RequestsHonest /\ CachesAreHonest

-------------------------------------------------------------------------------
(* What the operators do, and how each step moves a request, a slot and a    *)
(* service.                                                                  *)

\* A decode that succeeds is of an image whose body fits the limits.
LEMMA DecodedFits ==
  ASSUME ThConstants, NEW k \in Keys, decodeJob(k) = "ok"
  PROVE  SourceOf[k].body \in 1..MaxPixels
  BY DEF ThConstants, decodeJob, DecodeBounded, checkBounds, Sniff

\* What is remembered is a failure.
LEMMA OutcomeKnown ==
  ASSUME NEW k
  PROVE  reasonFor(decodeJob(k)) # Nothing => decodeJob(k) # "ok"
  BY DEF decodeJob, DecodeBounded, checkBounds, reasonFor, Nothing

\* Only q's request may have moved.
Moved(q) ==
  /\ thReq' \in [Requests -> ThReqRec]
  /\ \A p \in Requests : p # q => thReq'[p] = thReq[p]

LEMMA NowIs ==
  ASSUME thReq \in [Requests -> ThReqRec], NEW q \in Requests
  PROVE  \A r \in ThReqRec : Now(q, r) => Moved(q) /\ thReq'[q] = r
  BY DEF Now, Moved

LEMMA EndsMoves ==
  ASSUME thReq \in [Requests -> ThReqRec], NEW q \in Requests, Ends(q)
  PROVE  Moved(q) /\ thReq'[q].pc = "end" /\ thReq'[q].svc = thReq[q].svc
<1> DEFINE r == [ThIdle EXCEPT !.pc = "end", !.svc = thReq[q].svc]
<1>1. r \in ThReqRec /\ r.pc = "end" /\ r.svc = thReq[q].svc
  BY DEF ThIdle, ThReqRec, ThStages
<1>2. Now(q, r)
  BY DEF Ends
<1> HIDE DEF r
<1> QED
  BY <1>1, <1>2, NowIs

LEMMA GoesMoves ==
  ASSUME thReq \in [Requests -> ThReqRec], NEW q \in Requests, NEW pc \in ThStages, Goes(q, pc)
  PROVE  /\ Moved(q) /\ thReq'[q].pc = pc /\ thReq'[q].svc = thReq[q].svc
         /\ thReq'[q].key = thReq[q].key /\ thReq'[q].src = thReq[q].src
<1> DEFINE r == [thReq[q] EXCEPT !.pc = pc]
<1>1. r \in ThReqRec /\ r.pc = pc /\ r.svc = thReq[q].svc /\ r.key = thReq[q].key /\ r.src = thReq[q].src
  BY DEF ThReqRec
<1>2. Now(q, r)
  BY DEF Goes
<1> HIDE DEF r
<1> QED
  BY <1>1, <1>2, NowIs

LEMMA LeaseMoves ==
  ASSUME ThShapes, NEW q \in Requests, previewLease(q)
  PROVE  Moved(q) /\ thReq'[q].pc = "get" /\ thReq'[q].svc = thCur /\ thCur \in Services
<1> DEFINE r == [ThIdle EXCEPT !.pc = "get", !.svc = thCur]
<1>1. r \in ThReqRec /\ r.pc = "get" /\ r.svc = thCur
  BY DEF ThIdle, ThReqRec, ThStages, ThShapes
<1>2. Now(q, r) /\ thCur # 0
  BY DEF previewLease
<1> HIDE DEF r
<1> QED
  BY <1>1, <1>2, NowIs DEF ThShapes

LEMMA ServeMoves ==
  ASSUME ThConstants, ThShapes, NEW q \in Requests, serveSizedPreview(q)
  PROVE  Moved(q) /\ thReq'[q].pc = "get" /\ thReq'[q].svc = 1
<1> DEFINE r == [ThIdle EXCEPT !.pc = "get", !.svc = NcService]
<1>1. r \in ThReqRec /\ r.pc = "get" /\ r.svc = 1
  BY DEF ThIdle, ThReqRec, ThStages, ThShapes, ThConstants, NcService
<1>2. Now(q, r)
  BY DEF serveSizedPreview
<1> HIDE DEF r
<1> QED
  BY <1>1, <1>2, NowIs DEF ThShapes

LEMMA GetMoves ==
  ASSUME ThShapes, NEW q \in Requests, Get(q)
  PROVE  /\ Moved(q) /\ thReq'[q].svc = thReq[q].svc
         /\ thReq'[q].pc \in {"end", "serve"} \/ (thReq'[q].pc = "open" /\ thReq'[q].key \in Keys)
<1> DEFINE r == [thReq[q] EXCEPT !.key = thAt, !.pc = IF thAt \in DOMAIN thCache THEN "serve" ELSE "open"]
<1>1. CASE Ends(q)
  BY <1>1, EndsMoves DEF ThShapes
<1>2. CASE Now(q, r) /\ thAt # Nothing
  <2>1. /\ r \in ThReqRec /\ r.svc = thReq[q].svc /\ r.key = thAt
        /\ r.pc = "serve" \/ r.pc = "open"
    BY DEF ThReqRec, ThStages, ThShapes
  <2> HIDE DEF r
  <2> QED
    BY <1>2, <2>1, NowIs DEF ThShapes
<1> QED
  BY <1>1, <1>2 DEF Get

LEMMA OpenMoves ==
  ASSUME ThShapes, RequestsHonest, NEW q \in Requests, generate(q)
  PROVE  /\ Moved(q) /\ thReq'[q].svc = thReq[q].svc
         /\ thMixed \subseteq thMixed' /\ thMixed' \subseteq Keys
         /\ \/ thReq'[q].pc = "end"
            \/ /\ thReq'[q].pc = "claim" /\ thReq'[q].key \in Keys /\ thReq'[q].src \in Keys
               /\ thReq'[q].key \notin thMixed' => thReq'[q].src = thReq'[q].key
<1> DEFINE r == [thReq[q] EXCEPT !.src = thAt, !.pc = "claim"]
<1>0. thReq[q].key \in Keys
  BY DEF generate, At, RequestsHonest
<1>1. thMixed \subseteq thMixed' /\ thMixed' \subseteq Keys
  BY <1>0 DEF generate, ThShapes
<1>2. CASE thAt = Nothing
  BY <1>1, <1>2, EndsMoves DEF generate, ThShapes
<1>3. CASE thAt # Nothing
  <2>1. r \in ThReqRec /\ r.svc = thReq[q].svc /\ r.key = thReq[q].key /\ r.src = thAt /\ r.pc = "claim"
    BY DEF ThReqRec, ThStages, ThShapes
  <2>2. Now(q, r) /\ (thAt # thReq[q].key => thReq[q].key \in thMixed')
    BY <1>3 DEF generate
  <2> HIDE DEF r
  <2> QED
    BY <1>0, <1>1, <1>3, <2>1, <2>2, NowIs DEF ThShapes
<1> QED
  BY <1>2, <1>3

\* A slot of s takes a new content, and no other slot of any pool does.
Filled(s, w, r) ==
  /\ thSlot' \in [Services -> [ThWorkers -> ThSlotRec]]
  /\ thSlot'[s][w] = r
  /\ \A t \in Services, v \in ThWorkers : t # s \/ v # w => thSlot'[t][v] = thSlot[t][v]

LEMMA SlotFilled ==
  ASSUME thSlot \in [Services -> [ThWorkers -> ThSlotRec]], NEW s \in Services, NEW w \in ThWorkers,
         NEW r \in ThSlotRec, thSlot' = [thSlot EXCEPT ![s][w] = r]
  PROVE  Filled(s, w, r)
  BY DEF Filled

LEMMA ClaimMoves ==
  ASSUME ThShapes, NEW q \in Requests, Generate(q)
  PROVE  /\ Moved(q) /\ thReq'[q].svc = thReq[q].svc
         /\ \/ thReq'[q].pc = "end" /\ thSlot' = thSlot
            \/ /\ thReq'[q].pc = "exchange" /\ thReq'[q].slot \in ThWorkers
               /\ thReq'[q].key = thReq[q].key /\ thReq'[q].src = thReq[q].src
               /\ thSvc[thReq[q].svc].close # "done"
               /\ thSlot[thReq[q].svc][thReq'[q].slot].owner = Nothing
               /\ Filled(thReq[q].svc, thReq'[q].slot, [owner |-> q, alive |-> TRUE])
<1> DEFINE s == thReq[q].svc
<1>0. s \in Services
  BY DEF Generate, At, ThShapes
<1>1. CASE Ends(q) /\ thSlot' = thSlot
  BY <1>1, EndsMoves DEF ThShapes
<1>2. ASSUME NEW w \in Free(s), thSvc[s].close \notin {"reap", "done"},
             thSlot' = [thSlot EXCEPT ![s][w] = [owner |-> q, alive |-> TRUE]],
             Now(q, [thReq[q] EXCEPT !.slot = w, !.pc = "exchange"])
      PROVE  /\ Moved(q) /\ thReq'[q].svc = s
             /\ thReq'[q].pc = "exchange" /\ thReq'[q].slot \in ThWorkers
             /\ thReq'[q].key = thReq[q].key /\ thReq'[q].src = thReq[q].src
             /\ thSvc[s].close # "done"
             /\ thSlot[s][thReq'[q].slot].owner = Nothing
             /\ Filled(s, thReq'[q].slot, [owner |-> q, alive |-> TRUE])
  <2> DEFINE r == [thReq[q] EXCEPT !.slot = w, !.pc = "exchange"]
  <2>1. w \in ThWorkers /\ thSlot[s][w].owner = Nothing
    BY DEF Free
  <2>2. /\ r \in ThReqRec /\ r.svc = s /\ r.key = thReq[q].key /\ r.src = thReq[q].src
        /\ r.pc = "exchange" /\ r.slot = w
    <3>1. thReq[q] \in ThReqRec
      BY DEF ThShapes
    <3> QED
      BY <2>1, <3>1 DEF ThReqRec, ThStages
  <2>3. Now(q, r)
    BY <1>2
  <2>4. [owner |-> q, alive |-> TRUE] \in ThSlotRec
    BY DEF ThSlotRec
  <2>5. Filled(s, w, [owner |-> q, alive |-> TRUE])
    BY <1>0, <1>2, <2>1, <2>4, SlotFilled DEF ThShapes
  <2> HIDE DEF r
  <2>6. Moved(q) /\ thReq'[q] = r
    BY <2>2, <2>3, NowIs DEF ThShapes
  <2> QED
    BY <1>2, <2>1, <2>2, <2>5, <2>6
<1> HIDE DEF s
<1>3. \/ Ends(q) /\ thSlot' = thSlot
      \/ \E w \in Free(s) : /\ thSvc[s].close \notin {"reap", "done"}
                            /\ thSlot' = [thSlot EXCEPT ![s][w] = [owner |-> q, alive |-> TRUE]]
                            /\ Now(q, [thReq[q] EXCEPT !.slot = w, !.pc = "exchange"])
  BY DEF Generate, s
<1> QED
  BY <1>1, <1>2, <1>3 DEF s

LEMMA JobMoves ==
  ASSUME ThShapes, NEW q \in Requests, thReq[q].slot \in ThWorkers, exchange(q)
  PROVE  /\ Moved(q) /\ thReq'[q].svc = thReq[q].svc
         /\ \/ thReq'[q].pc = "end"
            \/ /\ thReq'[q].pc = "publish" /\ thReq'[q].key = thReq[q].key
               /\ thReq'[q].src = thReq[q].src /\ decodeJob(thReq[q].src) = "ok"
         /\ \E r \in ThSlotRec : Filled(thReq[q].svc, thReq[q].slot, r)
<1> DEFINE s == thReq[q].svc
           w == thReq[q].slot
<1>0. s \in Services
  BY DEF exchange, At, ThShapes
<1>1. \/ Ends(q)
      \/ Goes(q, "publish") /\ decodeJob(thReq[q].src) = "ok"
  BY DEF exchange
<1>2. /\ Moved(q) /\ thReq'[q].svc = thReq[q].svc
      /\ \/ thReq'[q].pc = "end"
         \/ /\ thReq'[q].pc = "publish" /\ thReq'[q].key = thReq[q].key
            /\ thReq'[q].src = thReq[q].src /\ decodeJob(thReq[q].src) = "ok"
  <2>1. "publish" \in ThStages
    BY DEF ThStages
  <2> QED
    BY <1>1, <2>1, EndsMoves, GoesMoves DEF ThShapes
<1>3. PICK r \in ThSlotRec : thSlot' = [thSlot EXCEPT ![s][w] = r]
  <2>1. [thSlot[s][w] EXCEPT !.owner = Nothing] \in ThSlotRec /\ NoProcess \in ThSlotRec
    <3>1. thSlot[s][w] \in ThSlotRec
      BY <1>0 DEF ThShapes
    <3> QED
      BY <3>1 DEF ThSlotRec, NoProcess
  <2>2. \/ thSlot' = [thSlot EXCEPT ![s][w] = [thSlot[s][w] EXCEPT !.owner = Nothing]]
        \/ thSlot' = [thSlot EXCEPT ![s][w] = NoProcess]
    BY <1>0 DEF exchange, ThShapes
  <2> QED
    BY <2>1, <2>2
<1>4. Filled(s, w, r)
  BY <1>0, <1>3, SlotFilled DEF ThShapes
<1> QED
  BY <1>2, <1>4

\* A service changes, and no other does.
Turned(s) == \A t \in Services : t # s => thSvc'[t] = thSvc[t]

LEMMA LeaseTurns ==
  ASSUME ThShapes, NEW s \in Services, NEW n \in Nat,
         thSvc' = [thSvc EXCEPT ![s].active = n]
  PROVE  /\ thSvc' \in [Services -> ThSvcRec] /\ Turned(s) /\ thSvc'[s].active = n
         /\ thSvc'[s].open = thSvc[s].open /\ thSvc'[s].closed = thSvc[s].closed
         /\ thSvc'[s].close = thSvc[s].close
  BY DEF ThShapes, ThSvcRec, Turned

LEMMA CloseTurns ==
  ASSUME ThShapes, NEW s \in Services, Close(s)
  PROVE  /\ thSvc' \in [Services -> ThSvcRec] /\ Turned(s)
         /\ thSvc'[s].active = thSvc[s].active /\ thSvc'[s].open = thSvc[s].open
         /\ \/ thSvc[s].close = "begin" /\ thSvc'[s].close = "wait" /\ thSvc'[s].closed
            \/ /\ thSvc[s].close = "wait" /\ thSvc[s].active = 0 /\ thSvc'[s].close = "reap"
               /\ thSvc'[s].closed = thSvc[s].closed
<1>0. thSvc \in [Services -> ThSvcRec] /\ thSvc[s] \in ThSvcRec
  BY DEF ThShapes
<1>1. ASSUME NEW r \in ThSvcRec, thSvc' = [thSvc EXCEPT ![s] = r]
      PROVE  thSvc' \in [Services -> ThSvcRec] /\ Turned(s) /\ thSvc'[s] = r
  BY <1>0, <1>1 DEF Turned
<1>2. CASE thSvc[s].close = "begin" /\ thSvc' = [thSvc EXCEPT ![s].closed = TRUE, ![s].close = "wait"]
  <2> DEFINE r == [thSvc[s] EXCEPT !.closed = TRUE, !.close = "wait"]
  <2>1. /\ r \in ThSvcRec /\ r.active = thSvc[s].active /\ r.open = thSvc[s].open
        /\ r.closed /\ r.close = "wait"
    BY <1>0 DEF ThSvcRec, CloseStages
  <2>2. thSvc' = [thSvc EXCEPT ![s] = r]
    BY <1>0, <1>2
  <2> HIDE DEF r
  <2> QED
    BY <1>1, <1>2, <2>1, <2>2
<1>3. CASE thSvc[s].close = "wait" /\ thSvc[s].active = 0 /\ thSvc' = [thSvc EXCEPT ![s].close = "reap"]
  <2> DEFINE r == [thSvc[s] EXCEPT !.close = "reap"]
  <2>1. /\ r \in ThSvcRec /\ r.active = thSvc[s].active /\ r.open = thSvc[s].open
        /\ r.closed = thSvc[s].closed /\ r.close = "reap"
    BY <1>0 DEF ThSvcRec, CloseStages
  <2>2. thSvc' = [thSvc EXCEPT ![s] = r]
    BY <1>3
  <2> HIDE DEF r
  <2> QED
    BY <1>1, <1>3, <2>1, <2>2
<1> QED
  BY <1>2, <1>3 DEF Close

LEMMA PoolTurns ==
  ASSUME ThShapes, NEW s \in Services, PoolClose(s)
  PROVE  /\ thSvc[s].close = "reap"
         /\ \/ /\ thSvc' = thSvc
               /\ \E w \in ThWorkers : thSlot[s][w].owner = Nothing /\ Filled(s, w, NoProcess)
            \/ /\ thSvc' \in [Services -> ThSvcRec] /\ Turned(s) /\ thSlot' = thSlot
               /\ thSvc'[s].active = thSvc[s].active /\ thSvc'[s].open = thSvc[s].open
               /\ thSvc'[s].closed = thSvc[s].closed /\ thSvc'[s].close = "done"
               /\ \A w \in ThWorkers : thSlot[s][w] = NoProcess
<1>1. ASSUME NEW w \in Free(s), thSlot' = [thSlot EXCEPT ![s][w] = NoProcess]
      PROVE  w \in ThWorkers /\ thSlot[s][w].owner = Nothing /\ Filled(s, w, NoProcess)
  <2>1. NoProcess \in ThSlotRec
    BY DEF NoProcess, ThSlotRec
  <2>2. w \in ThWorkers /\ thSlot[s][w].owner = Nothing
    BY DEF Free
  <2> QED
    BY <1>1, <2>1, <2>2, SlotFilled DEF ThShapes
<1>2. ASSUME thSvc' = [thSvc EXCEPT ![s].close = "done"]
      PROVE  /\ thSvc' \in [Services -> ThSvcRec] /\ Turned(s)
             /\ thSvc'[s].active = thSvc[s].active /\ thSvc'[s].open = thSvc[s].open
             /\ thSvc'[s].closed = thSvc[s].closed /\ thSvc'[s].close = "done"
  BY <1>2 DEF ThShapes, ThSvcRec, CloseStages, Turned
<1> QED
  BY <1>1, <1>2 DEF PoolClose

\* The settings open one service and let go of another, or of none.
LEMMA SettingsTurn ==
  ASSUME ThShapes, applyThumbnailSettings
  PROVE  /\ thSvc' \in [Services -> ThSvcRec] /\ thCur' \in Services \cup {0} /\ thCur' # thCur
         /\ thCur' # 0 => ~thSvc[thCur'].open
         /\ \A s \in Services :
              /\ thSvc'[s].active = thSvc[s].active /\ thSvc'[s].closed = thSvc[s].closed
              /\ thSvc'[s].open <=> thSvc[s].open \/ s = thCur'
              /\ thSvc'[s].close = IF s = thCur THEN "begin" ELSE thSvc[s].close
<1>1. PICK next \in {0} \cup {s \in Services : ~thSvc[s].open} :
          /\ next # thCur /\ thCur' = next
          /\ thSvc' = [s \in Services |-> IF s = next THEN [thSvc[s] EXCEPT !.open = TRUE]
                                          ELSE IF s = thCur THEN [thSvc[s] EXCEPT !.close = "begin"] ELSE thSvc[s]]
  BY DEF applyThumbnailSettings
<1>2. \A s \in Services : thSvc[s] \in ThSvcRec
  BY DEF ThShapes
<1>3. ASSUME NEW s \in Services
      PROVE  /\ thSvc'[s] \in ThSvcRec
             /\ thSvc'[s].active = thSvc[s].active /\ thSvc'[s].closed = thSvc[s].closed
             /\ thSvc'[s].open <=> thSvc[s].open \/ s = thCur'
             /\ thSvc'[s].close = IF s = thCur THEN "begin" ELSE thSvc[s].close
  <2>1. CASE s = next
    BY <1>1, <1>2, <2>1 DEF ThSvcRec
  <2>2. CASE s # next /\ s = thCur
    BY <1>1, <1>2, <2>2 DEF ThSvcRec, CloseStages
  <2>3. CASE s # next /\ s # thCur
    BY <1>1, <1>2, <2>3 DEF ThSvcRec
  <2> QED
    BY <2>1, <2>2, <2>3
<1>4. thSvc' \in [Services -> ThSvcRec]
  BY <1>1, <1>3
<1> QED
  BY <1>1, <1>3, <1>4

-------------------------------------------------------------------------------
(* The invariant is inductive.                                             *)

LEMMA ThInitInv ==
  ASSUME ThConstants, ThInit
  PROVE  ThInv
<1>1. ThShapes
  <2>1. /\ ThIdle \in ThReqRec /\ ThIdle.pc = "idle" /\ NoProcess \in ThSlotRec
        /\ \A s \in Services : [Unopened EXCEPT !.open = s = 1] \in ThSvcRec
    BY DEF ThIdle, ThReqRec, ThStages, NoProcess, ThSlotRec, Unopened, ThSvcRec, CloseStages
  <2>2. \A s \in Services : thNeg[s] = <<>>
    BY DEF ThInit
  <2>3. thNeg = [s \in Services |-> thNeg[s]] /\ \A s \in Services : DOMAIN thNeg[s] \subseteq Keys
    BY <2>2 DEF ThInit
  <2>4. thCur \in Services \cup {0} /\ thAt \in Keys \cup {Nothing} /\ thMixed \subseteq Keys
        /\ DOMAIN thCache \subseteq Keys
    BY DEF ThInit, ThConstants
  <2>5. thSvc \in [Services -> ThSvcRec]
    BY <2>1 DEF ThInit
  <2>6. thReq \in [Requests -> ThReqRec] /\ thSlot \in [Services -> [ThWorkers -> ThSlotRec]]
    BY <2>1 DEF ThInit
  <2>7. \A q \in Requests : thReq[q].pc = "idle"
    BY <2>1 DEF ThInit
  <2> QED
    BY <2>3, <2>4, <2>5, <2>6, <2>7 DEF ThShapes
<1>2. ServiceLife
  BY DEF ThConstants, ThInit, ServiceLife, Unopened
<1>3. LeasesCounted
  <2>1. \A s \in Services : Leases(s) = {}
    BY DEF ThInit, Leases, ThIdle, Requests
  <2> QED
    BY <2>1, FS_EmptySet DEF ThInit, LeasesCounted, Unopened
<1>4. SlotsOwned
  BY DEF ThInit, SlotsOwned, NoWorkerOutlivesPool, ThIdle, Unopened
<1>5. RequestsHonest
  BY DEF ThInit, RequestsHonest, ThIdle
<1>6. CachesAreHonest
  BY DEF ThInit, CachesAreHonest
<1> QED
  BY <1>1, <1>2, <1>3, <1>4, <1>5, <1>6 DEF ThInv

\* A request in a service holds a place of the pool while its job runs.
LEMMA JobHasSlot ==
  ASSUME ThInv, NEW q \in Requests, exchange(q)
  PROVE  /\ thReq[q].svc \in Services /\ thReq[q].slot \in ThWorkers /\ thReq[q].key \in Keys
         /\ thSlot[thReq[q].svc][thReq[q].slot].owner = q
  BY DEF ThInv, ThShapes, SlotsOwned, RequestsHonest, exchange, At

\* The requests that hold a lease are some of the web application's.
LEMMA LeasesFinite ==
  ASSUME ThConstants
  PROVE  \A s \in Services : IsFiniteSet(Leases(s)) /\ Cardinality(Leases(s)) \in Nat
<1>1. \A s \in Services : Leases(s) \subseteq Native
  BY DEF Leases
<1> QED
  BY <1>1, FS_Subset, FS_CardinalityType DEF ThConstants

\* A request that gives its lease back is counted.
LEMMA LeaseIsCounted ==
  ASSUME ThConstants, ThInv, NEW q \in Native, thReq[q].pc # "idle"
  PROVE  /\ thReq[q].svc \in Services /\ q \in Leases(thReq[q].svc)
         /\ thSvc[thReq[q].svc].active \in Nat \ {0}
<1>1. thReq[q].svc \in Services /\ q \in Leases(thReq[q].svc)
  BY DEF ThInv, ThShapes, Leases, Requests
<1>2. Cardinality(Leases(thReq[q].svc)) # 0
  BY <1>1, LeasesFinite, FS_EmptySet
<1> QED
  BY <1>1, <1>2, LeasesFinite DEF ThInv, LeasesCounted

LEMMA ReturnTurns ==
  ASSUME ThConstants, ThInv, NEW q \in Requests, LeaseClose(q)
  PROVE  /\ Moved(q) /\ thReq'[q].pc = "idle"
         /\ q \notin Native => thSvc' = thSvc
         /\ q \in Native => /\ thSvc' \in [Services -> ThSvcRec] /\ Turned(thReq[q].svc)
                            /\ thReq[q].svc \in Services /\ q \in Leases(thReq[q].svc)
                            /\ thSvc[thReq[q].svc].active \in Nat \ {0}
                            /\ thSvc'[thReq[q].svc].active = thSvc[thReq[q].svc].active - 1
                            /\ thSvc'[thReq[q].svc].open = thSvc[thReq[q].svc].open
                            /\ thSvc'[thReq[q].svc].closed = thSvc[thReq[q].svc].closed
                            /\ thSvc'[thReq[q].svc].close = thSvc[thReq[q].svc].close
<1>1. ThIdle \in ThReqRec /\ ThIdle.pc = "idle"
  BY DEF ThIdle, ThReqRec, ThStages
<1>2. Moved(q) /\ thReq'[q] = ThIdle
  BY <1>1, NowIs DEF LeaseClose, ThInv, ThShapes
<1>3. CASE q \notin Native
  BY <1>1, <1>2, <1>3 DEF LeaseClose
<1>4. CASE q \in Native
  <2> DEFINE s == thReq[q].svc
  <2>1. s \in Services /\ q \in Leases(s) /\ thSvc[s].active \in Nat \ {0}
    BY <1>4, LeaseIsCounted DEF LeaseClose, At
  <2>2. thSvc' = [thSvc EXCEPT ![s].active = thSvc[s].active - 1]
    BY <1>4 DEF LeaseClose
  <2>3. thSvc[s].active - 1 \in Nat
    BY <2>1
  <2> HIDE DEF s
  <2>4. /\ thSvc' \in [Services -> ThSvcRec] /\ Turned(s) /\ thSvc'[s].active = thSvc[s].active - 1
        /\ thSvc'[s].open = thSvc[s].open /\ thSvc'[s].closed = thSvc[s].closed
        /\ thSvc'[s].close = thSvc[s].close
    BY <2>1, <2>2, <2>3, LeaseTurns DEF ThInv
  <2> QED
    BY <1>1, <1>2, <1>4, <2>1, <2>4 DEF s
<1> QED
  BY <1>3, <1>4

LEMMA TakeTurns ==
  ASSUME ThInv, NEW q \in Requests, previewLease(q)
  PROVE  /\ q \in Native /\ thReq[q].pc = "idle" /\ thCur \in Services
         /\ thSvc' \in [Services -> ThSvcRec] /\ Turned(thCur)
         /\ thSvc[thCur].active \in Nat /\ thSvc'[thCur].active = thSvc[thCur].active + 1
         /\ thSvc'[thCur].open = thSvc[thCur].open /\ thSvc'[thCur].closed = thSvc[thCur].closed
         /\ thSvc'[thCur].close = thSvc[thCur].close
<1>1. q \in Native /\ thReq[q].pc = "idle" /\ thCur \in Services
  BY DEF previewLease, At, ThInv, ThShapes
<1>2. thSvc[thCur].active \in Nat
  BY <1>1 DEF ThInv, ThShapes, ThSvcRec
<1>3. thSvc' = [thSvc EXCEPT ![thCur].active = thSvc[thCur].active + 1]
  BY DEF previewLease
<1>4. thSvc[thCur].active + 1 \in Nat
  BY <1>2
<1> QED
  BY <1>1, <1>2, <1>3, <1>4, LeaseTurns DEF ThInv

LEMMA ThShapesStep ==
  ASSUME ThConstants, ThInv, ThNext
  PROVE  ThShapes'
<1> USE DEF ThInv
<1>1. ASSUME NEW q \in Requests, previewLease(q)
      PROVE  ThShapes'
  BY <1>1, LeaseMoves, TakeTurns DEF previewLease, Moved, ThShapes
<1>2. ASSUME NEW q \in Requests, serveSizedPreview(q)
      PROVE  ThShapes'
  BY <1>2, ServeMoves DEF serveSizedPreview, Moved, ThShapes, ThConstants
<1>3. ASSUME NEW q \in Requests, Get(q)
      PROVE  ThShapes'
  BY <1>3, GetMoves DEF Get, At, Moved, ThShapes
<1>4. ASSUME NEW q \in Requests, generate(q)
      PROVE  ThShapes'
  BY <1>4, OpenMoves DEF generate, At, Moved, ThShapes
<1>5. ASSUME NEW q \in Requests, Generate(q)
      PROVE  ThShapes'
  BY <1>5, ClaimMoves DEF Generate, At, Moved, Filled, ThShapes
<1>6. ASSUME NEW q \in Requests, exchange(q)
      PROVE  ThShapes'
  <2>1. thNeg' = [s \in Services |-> thNeg'[s]] /\ \A s \in Services : DOMAIN thNeg'[s] \subseteq Keys
    <3> DEFINE s == thReq[q].svc
               k == thReq[q].key
    <3>1. PICK o : thNeg' = thNeg \/ thNeg' = [thNeg EXCEPT ![s] = Written(thNeg[s], k, o)]
      BY <1>6 DEF exchange, Remember
    <3>2. DOMAIN Written(thNeg[s], k, o) \subseteq Keys
      <4>1. s \in Services /\ k \in Keys
        BY <1>6, JobHasSlot
      <4>2. DOMAIN thNeg[s] \subseteq Keys
        BY <4>1 DEF ThShapes
      <4> HIDE DEF s, k
      <4> QED
        BY <4>1, <4>2 DEF Written
    <3> HIDE DEF s, k
    <3> QED
      BY <3>1, <3>2 DEF ThShapes
  <2>2. Moved(q) /\ thReq'[q].svc \in Services
    BY <1>6, JobMoves, JobHasSlot
  <2>3. thSlot' \in [Services -> [ThWorkers -> ThSlotRec]]
    BY <1>6, JobMoves, JobHasSlot DEF Filled
  <2> QED
    BY <1>6, <2>1, <2>2, <2>3 DEF exchange, Moved, ThShapes
<1>7. ASSUME NEW q \in Requests, Put(q)
      PROVE  ThShapes'
  <2>1. DOMAIN thCache' \subseteq Keys
    <3>1. thReq[q].key \in Keys /\ DOMAIN thCache \subseteq Keys
      BY <1>7 DEF Put, At, RequestsHonest, ThShapes
    <3> QED
      BY <1>7, <3>1 DEF Put, Written
  <2>2. Moved(q) /\ thReq'[q].svc = thReq[q].svc /\ thReq[q].pc # "idle"
    BY <1>7, GoesMoves DEF Put, At, ThShapes, ThStages
  <2> QED
    BY <1>7, <2>1, <2>2 DEF Put, Moved, ThShapes
<1>8. ASSUME NEW q \in Requests, sendThumb(q)
      PROVE  ThShapes'
  BY <1>8, EndsMoves DEF sendThumb, At, Moved, ThShapes
<1>9. ASSUME NEW q \in Requests, LeaseClose(q)
      PROVE  ThShapes'
  BY <1>9, ReturnTurns DEF LeaseClose, Moved, ThShapes
<1>10. ASSUME applyThumbnailSettings
       PROVE  ThShapes'
  BY <1>10, SettingsTurn DEF applyThumbnailSettings, ThShapes
<1>11. ASSUME NEW s \in Services, Close(s)
       PROVE  ThShapes'
  BY <1>11, CloseTurns DEF Close, ThShapes
<1>12. ASSUME NEW s \in Services, PoolClose(s)
       PROVE  ThShapes'
  BY <1>12, PoolTurns DEF PoolClose, Filled, ThShapes
<1>13. ASSUME NEW s \in Services, NEW k \in Keys, Lifetime(s, k)
       PROVE  ThShapes'
  BY <1>13 DEF Lifetime, Restrict, ThShapes
<1>14. ASSUME Replaced
       PROVE  ThShapes'
  BY <1>14 DEF Replaced, ThShapes
<1> QED
  BY <1>1, <1>2, <1>3, <1>4, <1>5, <1>6, <1>7, <1>8, <1>9, <1>10, <1>11, <1>12, <1>13, <1>14
  DEF ThNext, RequestStep

LEMMA ServiceLifeStep ==
  ASSUME ThConstants, ThInv, ThNext
  PROVE  ServiceLife'
<1> USE DEF ThInv, ServiceLife
<1>1. ASSUME NEW q \in Requests, previewLease(q)
      PROVE  ServiceLife'
  BY <1>1, TakeTurns DEF previewLease, Turned, ThShapes
<1>2. ASSUME NEW q \in Requests, LeaseClose(q)
      PROVE  ServiceLife'
  BY <1>2, ReturnTurns DEF LeaseClose, Turned, ThShapes
<1>3. ASSUME thSvc' = thSvc, thCur' = thCur
      PROVE  ServiceLife'
  BY <1>3
<1>4. ASSUME NEW q \in Requests, \/ serveSizedPreview(q) \/ Get(q) \/ generate(q) \/ Generate(q)
                                 \/ exchange(q) \/ Put(q) \/ sendThumb(q)
      PROVE  ServiceLife'
  BY <1>3, <1>4 DEF serveSizedPreview, Get, generate, Generate, exchange, Put, sendThumb
<1>5. ASSUME applyThumbnailSettings
      PROVE  ServiceLife'
  BY <1>5, SettingsTurn DEF ThShapes, ThConstants
<1>6. ASSUME NEW s \in Services, Close(s)
      PROVE  ServiceLife'
  BY <1>6, CloseTurns DEF Close, Turned, ThShapes
<1>7. ASSUME NEW s \in Services, PoolClose(s)
      PROVE  ServiceLife'
  BY <1>7, PoolTurns DEF PoolClose, Turned, ThShapes
<1> QED
  BY <1>1, <1>2, <1>3, <1>4, <1>5, <1>6, <1>7 DEF ThNext, RequestStep, Replaced, Lifetime

\* Only taking and giving back a lease changes who holds one.
LEMMA LeasesStep ==
  ASSUME ThConstants, ThInv, ThNext
  PROVE  LeasesCounted'
<1>1. ASSUME NEW q \in Requests, previewLease(q)
      PROVE  LeasesCounted'
  <2>1. q \in Native /\ thReq[q].pc = "idle" /\ thReq'[q].pc = "get" /\ thReq'[q].svc = thCur
    BY <1>1, LeaseMoves, TakeTurns DEF ThInv
  <2>2. \A p \in Requests : p # q => thReq'[p] = thReq[p]
    BY <1>1, LeaseMoves DEF Moved, ThInv
  <2>4. \A s \in Services : Leases(s)' = IF s = thCur THEN Leases(s) \cup {q} ELSE Leases(s)
    BY <2>1, <2>2 DEF Leases, Requests
  <2>5. q \notin Leases(thCur)
    BY <2>1 DEF Leases
  <2>6. thCur \in Services /\ Cardinality(Leases(thCur) \cup {q}) = Cardinality(Leases(thCur)) + 1
    BY <1>1, <2>5, LeasesFinite, FS_AddElement, TakeTurns
  <2>7. thSvc[thCur].close = "none"
    BY <2>6 DEF ThInv, ServiceLife, ThConstants
  <2>8. ASSUME NEW s \in Services
        PROVE  /\ thSvc'[s].active = Cardinality(Leases(s)')
               /\ thSvc'[s].close \in {"reap", "done"} => thSvc'[s].active = 0
    <3>1. CASE s = thCur
      BY <1>1, <2>4, <2>6, <2>7, <3>1, TakeTurns DEF ThInv, LeasesCounted
    <3>2. CASE s # thCur
      <4>1. thSvc'[s] = thSvc[s] /\ Leases(s)' = Leases(s)
        BY <1>1, <2>4, <3>2, TakeTurns DEF Turned
      <4> QED
        BY <4>1 DEF ThInv, LeasesCounted
    <3> QED
      BY <3>1, <3>2
  <2> QED
    BY <2>8 DEF LeasesCounted
<1>2. ASSUME NEW q \in Requests, LeaseClose(q), q \in Native
      PROVE  LeasesCounted'
  <2> DEFINE t == thReq[q].svc
  <2>1. thReq[q].pc # "idle" /\ thReq'[q].pc = "idle" /\ \A p \in Requests : p # q => thReq'[p] = thReq[p]
    BY <1>2, ReturnTurns DEF LeaseClose, At, Moved
  <2>2. t \in Services /\ q \in Leases(t) /\ thSvc[t].active \in Nat \ {0}
    BY <1>2, ReturnTurns
  <2>3. \A s \in Services : Leases(s)' = IF s = t THEN Leases(s) \ {q} ELSE Leases(s)
    BY <2>1 DEF Leases, Requests
  <2>4. /\ thSvc'[t].active = thSvc[t].active - 1 /\ thSvc'[t].close = thSvc[t].close
        /\ \A s \in Services : s # t => thSvc'[s] = thSvc[s]
    BY <1>2, ReturnTurns DEF Turned
  <2> HIDE DEF t
  <2>5. Cardinality(Leases(t) \ {q}) = Cardinality(Leases(t)) - 1
    BY <2>2, LeasesFinite, FS_RemoveElement
  <2>6. ASSUME NEW s \in Services
        PROVE  /\ thSvc'[s].active = Cardinality(Leases(s)')
               /\ thSvc'[s].close \in {"reap", "done"} => thSvc'[s].active = 0
    <3>1. CASE s = t
      BY <2>2, <2>3, <2>4, <2>5, <3>1 DEF ThInv, LeasesCounted
    <3>2. CASE s # t
      <4>1. thSvc'[s] = thSvc[s] /\ Leases(s)' = Leases(s)
        BY <2>3, <2>4, <3>2
      <4> QED
        BY <4>1 DEF ThInv, LeasesCounted
    <3> QED
      BY <3>1, <3>2
  <2> QED
    BY <2>6 DEF LeasesCounted
<1>3. ASSUME \A s \in Services : Leases(s)' = Leases(s),
             \A s \in Services : thSvc'[s].active = thSvc[s].active,
             \A s \in Services : thSvc'[s].close \in {"reap", "done"} =>
                 thSvc[s].close \in {"reap", "done"} \/ thSvc[s].active = 0
      PROVE  LeasesCounted'
  BY <1>3 DEF ThInv, LeasesCounted
<1>4. ASSUME NEW q \in Requests, \/ serveSizedPreview(q) \/ Get(q) \/ generate(q) \/ Generate(q)
                                 \/ exchange(q) \/ Put(q) \/ sendThumb(q) \/ (LeaseClose(q) /\ q \notin Native)
      PROVE  LeasesCounted'
  <2>1. thSvc' = thSvc
    BY <1>4 DEF serveSizedPreview, Get, generate, Generate, exchange, Put, sendThumb, LeaseClose
  <2>2. \A p \in Requests : p # q => thReq'[p] = thReq[p]
    BY <1>4, ServeMoves, GetMoves, OpenMoves, ClaimMoves, JobMoves, JobHasSlot, EndsMoves, GoesMoves, ReturnTurns
    DEF Moved, Put, sendThumb, ThInv, ThShapes, ThStages
  <2>3. q \in Native => thReq[q].pc # "idle" /\ thReq'[q].pc # "idle" /\ thReq'[q].svc = thReq[q].svc
    <3>1. CASE serveSizedPreview(q)
      BY <3>1 DEF serveSizedPreview, ThConstants
    <3>2. CASE Get(q) \/ generate(q) \/ Generate(q)
      BY <3>2, GetMoves, OpenMoves, ClaimMoves DEF Get, generate, Generate, At, ThInv
    <3>3. CASE exchange(q)
      BY <3>3, JobMoves, JobHasSlot DEF exchange, At, ThInv
    <3>4. CASE Put(q)
      BY <3>4, GoesMoves DEF Put, At, ThInv, ThShapes, ThStages
    <3>5. CASE sendThumb(q)
      BY <3>5, EndsMoves DEF sendThumb, At, ThInv, ThShapes
    <3> QED
      BY <1>4, <3>1, <3>2, <3>3, <3>4, <3>5
  <2>4. \A s \in Services : Leases(s)' = Leases(s)
    BY <2>2, <2>3 DEF Leases, Requests
  <2> QED
    BY <1>3, <2>1, <2>4
<1>5. ASSUME thReq' = thReq
      PROVE  \A s \in Services : Leases(s)' = Leases(s)
  BY <1>5 DEF Leases
<1>6. ASSUME applyThumbnailSettings
      PROVE  LeasesCounted'
  <2>1. thReq' = thReq
    BY <1>6 DEF applyThumbnailSettings
  <2> QED
    BY <1>3, <1>5, <1>6, <2>1, SettingsTurn DEF ThInv
<1>7. ASSUME NEW s \in Services, Close(s)
      PROVE  LeasesCounted'
  <2>1. thReq' = thReq
    BY <1>7 DEF Close
  <2> QED
    BY <1>3, <1>5, <1>7, <2>1, CloseTurns DEF ThInv, Turned
<1>8. ASSUME NEW s \in Services, PoolClose(s)
      PROVE  LeasesCounted'
  <2>1. thReq' = thReq
    BY <1>8 DEF PoolClose
  <2> QED
    BY <1>3, <1>5, <1>8, <2>1, PoolTurns DEF ThInv, Turned
<1>9. ASSUME Replaced \/ \E s \in Services, k \in Keys : Lifetime(s, k)
      PROVE  LeasesCounted'
  BY <1>3, <1>5, <1>9 DEF Replaced, Lifetime
<1> QED
  BY <1>1, <1>2, <1>4, <1>6, <1>7, <1>8, <1>9 DEF ThNext, RequestStep

\* A job frees its own slot, a claim and a reap take one that is nobody's.
LEMMA SlotsStep ==
  ASSUME ThConstants, ThInv, ThNext
  PROVE  SlotsOwned'
<1>0. /\ Nothing \notin Requests
      /\ \A q \in Requests : thReq[q].pc = "exchange" =>
           /\ thReq[q].svc \in Services /\ thReq[q].slot \in ThWorkers
           /\ thSlot[thReq[q].svc][thReq[q].slot].owner = q
      /\ \A s \in Services : thSvc[s].close = "done" => \A w \in ThWorkers : thSlot[s][w] = NoProcess
  BY DEF ThConstants, ThInv, ThShapes, SlotsOwned, NoWorkerOutlivesPool
<1>1. ASSUME NEW q \in Requests, Generate(q)
      PROVE  SlotsOwned'
  <2>1. CASE thReq'[q].pc = "end" /\ thSlot' = thSlot
    BY <1>0, <1>1, <2>1, ClaimMoves DEF Generate, Moved, ThInv, SlotsOwned, NoWorkerOutlivesPool
  <2>2. CASE thReq'[q].pc = "exchange"
    <3> DEFINE s == thReq[q].svc
               w == thReq'[q].slot
    <3>1. /\ s \in Services /\ w \in ThWorkers /\ thSvc[s].close # "done" /\ thSlot[s][w].owner = Nothing
          /\ Filled(s, w, [owner |-> q, alive |-> TRUE]) /\ thReq'[q].svc = s /\ thSvc' = thSvc
          /\ \A p \in Requests : p # q => thReq'[p] = thReq[p]
      BY <1>1, <2>2, ClaimMoves DEF Generate, At, Moved, ThInv, ThShapes
    <3>2. thSlot'[s][w].owner = q
      BY <3>1 DEF Filled
    <3>3. \A t \in Services, v \in ThWorkers : t # s \/ v # w => thSlot'[t][v] = thSlot[t][v]
      BY <3>1 DEF Filled
    <3>4. \A p \in Requests : thReq'[p].pc = "exchange" =>
            thReq'[p].slot \in ThWorkers /\ thSlot'[thReq'[p].svc][thReq'[p].slot].owner = p
      BY <1>0, <3>1, <3>2, <3>3
    <3>5. \A t \in Services : thSvc'[t].close = "done" => \A v \in ThWorkers : thSlot'[t][v] = NoProcess
      BY <1>0, <3>1, <3>3
    <3> QED
      BY <3>4, <3>5 DEF SlotsOwned, NoWorkerOutlivesPool
  <2> QED
    BY <1>1, <2>1, <2>2, ClaimMoves DEF ThInv
<1>2. ASSUME NEW q \in Requests, exchange(q)
      PROVE  SlotsOwned'
  <2> DEFINE s == thReq[q].svc
             w == thReq[q].slot
  <2>1. /\ s \in Services /\ w \in ThWorkers /\ thSlot[s][w].owner = q /\ thReq'[q].pc # "exchange"
        /\ thSvc' = thSvc /\ \A p \in Requests : p # q => thReq'[p] = thReq[p]
    BY <1>2, JobHasSlot, JobMoves DEF exchange, Moved, ThInv
  <2>2. \A t \in Services, v \in ThWorkers : t # s \/ v # w => thSlot'[t][v] = thSlot[t][v]
    BY <1>2, JobHasSlot, JobMoves DEF Filled, ThInv
  <2>3. thSvc[s].close # "done"
    BY <1>0, <2>1 DEF NoProcess
  <2> HIDE DEF s, w
  <2>4. \A p \in Requests : thReq'[p].pc = "exchange" =>
            thReq'[p].slot \in ThWorkers /\ thSlot'[thReq'[p].svc][thReq'[p].slot].owner = p
    BY <1>0, <2>1, <2>2
  <2>5. \A t \in Services : thSvc'[t].close = "done" => \A v \in ThWorkers : thSlot'[t][v] = NoProcess
    BY <1>0, <2>1, <2>2, <2>3
  <2> QED
    BY <2>4, <2>5 DEF SlotsOwned, NoWorkerOutlivesPool
<1>3. ASSUME thSlot' = thSlot,
             \A s \in Services : thSvc'[s].close = "done" => thSvc[s].close = "done",
             \A p \in Requests : thReq'[p].pc = "exchange" => thReq'[p] = thReq[p]
      PROVE  SlotsOwned'
  BY <1>0, <1>3 DEF SlotsOwned, NoWorkerOutlivesPool
<1>4. ASSUME NEW q \in Requests, previewLease(q)
      PROVE  SlotsOwned'
  <2>1. \A s \in Services : thSvc'[s].close = thSvc[s].close
    BY <1>4, TakeTurns DEF Turned
  <2> QED
    BY <1>3, <1>4, <2>1, LeaseMoves DEF previewLease, Moved, ThInv
<1>5. ASSUME NEW q \in Requests, LeaseClose(q)
      PROVE  SlotsOwned'
  <2>1. \A s \in Services : thSvc'[s].close = thSvc[s].close
    BY <1>5, ReturnTurns DEF Turned
  <2> QED
    BY <1>3, <1>5, <2>1, ReturnTurns DEF LeaseClose, Moved
<1>6. ASSUME NEW q \in Requests, serveSizedPreview(q) \/ Get(q) \/ generate(q) \/ Put(q) \/ sendThumb(q)
      PROVE  SlotsOwned'
  <2>1. thSlot' = thSlot /\ thSvc' = thSvc
    BY <1>6 DEF serveSizedPreview, Get, generate, Put, sendThumb
  <2>2. CASE serveSizedPreview(q) \/ Get(q) \/ generate(q)
    BY <1>3, <2>1, <2>2, ServeMoves, GetMoves, OpenMoves DEF Moved, ThInv
  <2>3. CASE Put(q) \/ sendThumb(q)
    BY <1>3, <2>1, <2>3, GoesMoves, EndsMoves DEF Put, sendThumb, Moved, ThInv, ThShapes, ThStages
  <2> QED
    BY <1>6, <2>2, <2>3
<1>7. ASSUME applyThumbnailSettings
      PROVE  SlotsOwned'
  BY <1>3, <1>7, SettingsTurn DEF applyThumbnailSettings, ThInv
<1>8. ASSUME NEW s \in Services, Close(s)
      PROVE  SlotsOwned'
  BY <1>3, <1>8, CloseTurns DEF Close, Turned, ThInv
<1>9. ASSUME NEW s \in Services, PoolClose(s)
      PROVE  SlotsOwned'
  <2>1. thReq' = thReq /\ thSvc[s].close = "reap"
    BY <1>9 DEF PoolClose
  <2>2. ASSUME NEW w \in ThWorkers, thSlot[s][w].owner = Nothing, Filled(s, w, NoProcess), thSvc' = thSvc
        PROVE  SlotsOwned'
    BY <1>0, <2>1, <2>2 DEF Filled, SlotsOwned, NoWorkerOutlivesPool
  <2>3. CASE /\ thSlot' = thSlot /\ Turned(s) /\ \A w \in ThWorkers : thSlot[s][w] = NoProcess
    BY <1>0, <2>1, <2>3 DEF Turned, SlotsOwned, NoWorkerOutlivesPool
  <2> QED
    BY <1>9, <2>2, <2>3, PoolTurns DEF ThInv
<1>10. ASSUME Replaced \/ \E s \in Services, k \in Keys : Lifetime(s, k)
       PROVE  SlotsOwned'
  BY <1>3, <1>10 DEF Replaced, Lifetime
<1> QED
  BY <1>1, <1>2, <1>4, <1>5, <1>6, <1>7, <1>8, <1>9, <1>10 DEF ThNext, RequestStep

LEMMA HonestyStep ==
  ASSUME ThConstants, ThInv, ThNext
  PROVE  RequestsHonest'
<1>1. ASSUME thMixed \subseteq thMixed', NEW q \in Requests, Moved(q),
             \/ thReq'[q].pc \in {"idle", "get", "serve", "end"}
             \/ thReq'[q].pc = "open" /\ thReq'[q].key \in Keys
             \/ /\ thReq'[q].pc \in {"claim", "exchange"} /\ thReq'[q].key \in Keys /\ thReq'[q].src \in Keys
                /\ thReq'[q].key \notin thMixed' => thReq'[q].src = thReq'[q].key
             \/ /\ thReq'[q].pc = "publish" /\ thReq'[q].key \in Keys /\ thReq'[q].src \in Keys
                /\ thReq'[q].key \notin thMixed' => thReq'[q].src = thReq'[q].key
                /\ decodeJob(thReq'[q].src) = "ok"
      PROVE  RequestsHonest'
  BY <1>1 DEF Moved, ThInv, RequestsHonest
<1>2. ASSUME NEW q \in Requests, generate(q)
      PROVE  RequestsHonest'
  BY <1>1, <1>2, OpenMoves DEF ThInv
<1>3. ASSUME NEW q \in Requests, Generate(q)
      PROVE  RequestsHonest'
  BY <1>1, <1>3, ClaimMoves DEF Generate, At, ThInv, RequestsHonest
<1>4. ASSUME NEW q \in Requests, exchange(q)
      PROVE  RequestsHonest'
  <2>1. /\ thReq[q].key \in Keys /\ thReq[q].src \in Keys
        /\ thReq[q].key \notin thMixed => thReq[q].src = thReq[q].key
    BY <1>4 DEF exchange, At, ThInv, RequestsHonest
  <2>2. thMixed' = thMixed
    BY <1>4 DEF exchange
  <2>3. /\ Moved(q)
        /\ \/ thReq'[q].pc = "end"
           \/ /\ thReq'[q].pc = "publish" /\ thReq'[q].key = thReq[q].key
              /\ thReq'[q].src = thReq[q].src /\ decodeJob(thReq[q].src) = "ok"
    BY <1>4, JobMoves, JobHasSlot DEF ThInv
  <2>4. thReq'[q].pc = "publish" => decodeJob(thReq'[q].src) = "ok"
    BY <2>3
  <2> QED
    BY <1>1, <2>1, <2>2, <2>3, <2>4
<1>5. ASSUME NEW q \in Requests, previewLease(q) \/ serveSizedPreview(q) \/ Get(q) \/ LeaseClose(q)
      PROVE  RequestsHonest'
  BY <1>1, <1>5, LeaseMoves, ServeMoves, GetMoves, ReturnTurns
  DEF previewLease, serveSizedPreview, Get, LeaseClose, ThInv
<1>6. ASSUME NEW q \in Requests, Put(q) \/ sendThumb(q)
      PROVE  RequestsHonest'
  BY <1>1, <1>6, GoesMoves, EndsMoves DEF Put, sendThumb, ThInv, ThShapes, ThStages
<1>7. ASSUME thReq' = thReq, thMixed' = thMixed
      PROVE  RequestsHonest'
  BY <1>7 DEF ThInv, RequestsHonest
<1> QED
  BY <1>2, <1>3, <1>4, <1>5, <1>6, <1>7
  DEF ThNext, RequestStep, applyThumbnailSettings, Close, PoolClose, Lifetime, Replaced

LEMMA CachesStep ==
  ASSUME ThConstants, ThInv, ThNext
  PROVE  CachesAreHonest'
<1> USE DEF ThInv
<1>1. ASSUME NEW q \in Requests, exchange(q)
      PROVE  CachesAreHonest'
  <2> DEFINE s == thReq[q].svc
             k == thReq[q].key
  <2>1. s \in Services /\ k \in Keys /\ (k \notin thMixed => thReq[q].src = k)
    BY <1>1, JobHasSlot DEF exchange, At, RequestsHonest
  <2>2. PICK o : /\ o = decodeJob(thReq[q].src) \/ o = "died"
                 /\ Remember(s, k, o)
    BY <1>1 DEF exchange
  <2>3. reasonFor(o) # Nothing /\ k \notin thMixed => o \in {decodeJob(k), "died"} \ {"ok"}
    BY <2>1, <2>2, OutcomeKnown
  <2>4. thCache' = thCache /\ thMixed' = thMixed
    BY <1>1 DEF exchange
  <2> HIDE DEF s, k
  <2>5. ASSUME NEW t \in Services, NEW x \in Keys \ thMixed, x \in DOMAIN thNeg'[t]
        PROVE  thNeg'[t][x] \in {decodeJob(x), "died"} \ {"ok"}
    <3>1. CASE reasonFor(o) = Nothing \/ t # s \/ x # k
      <4>1. x \in DOMAIN thNeg[t] /\ thNeg'[t][x] = thNeg[t][x]
        BY <2>1, <2>2, <2>5, <3>1 DEF Remember, Written, ThShapes
      <4> QED
        BY <4>1 DEF CachesAreHonest
    <3>2. CASE reasonFor(o) # Nothing /\ t = s /\ x = k
      <4>1. thNeg'[t][x] = o
        BY <2>1, <2>2, <3>2 DEF Remember, Written, ThShapes
      <4> QED
        BY <2>3, <3>2, <4>1
    <3> QED
      BY <3>1, <3>2
  <2> QED
    BY <2>4, <2>5 DEF CachesAreHonest
<1>2. ASSUME NEW q \in Requests, Put(q)
      PROVE  CachesAreHonest'
  <2> DEFINE k == thReq[q].key
  <2>1. /\ k \in Keys /\ thReq[q].src \in Keys /\ decodeJob(thReq[q].src) = "ok"
        /\ k \notin thMixed => thReq[q].src = k
    BY <1>2 DEF Put, At, RequestsHonest
  <2>2. thCache' = Written(thCache, k, thReq[q].src) /\ thNeg' = thNeg /\ thMixed' = thMixed
    BY <1>2 DEF Put
  <2> HIDE DEF k
  <2>3. ASSUME NEW x \in Keys \ thMixed, x \in DOMAIN thCache'
        PROVE  thCache'[x] = x /\ SourceOf[x].body \in 1..MaxPixels
    <3>1. CASE x = k
      BY <2>1, <2>2, <3>1, DecodedFits DEF Written
    <3>2. CASE x # k
      <4>1. x \in DOMAIN thCache /\ thCache'[x] = thCache[x]
        BY <2>2, <2>3, <3>2 DEF Written
      <4> QED
        BY <4>1 DEF CachesAreHonest
    <3> QED
      BY <3>1, <3>2
  <2> QED
    BY <2>2, <2>3 DEF CachesAreHonest
<1>3. ASSUME NEW s \in Services, NEW k \in Keys, Lifetime(s, k)
      PROVE  CachesAreHonest'
  BY <1>3 DEF Lifetime, Restrict, CachesAreHonest, ThShapes
<1>4. ASSUME thCache' = thCache, thNeg' = thNeg, thMixed \subseteq thMixed'
      PROVE  CachesAreHonest'
  BY <1>4 DEF CachesAreHonest
<1>5. ASSUME NEW q \in Requests, \/ previewLease(q) \/ serveSizedPreview(q) \/ Get(q) \/ generate(q)
                                 \/ Generate(q) \/ sendThumb(q) \/ LeaseClose(q)
      PROVE  CachesAreHonest'
  <2>1. thCache' = thCache /\ thNeg' = thNeg /\ thMixed \subseteq thMixed'
    BY <1>5 DEF previewLease, serveSizedPreview, Get, generate, Generate, sendThumb, LeaseClose
  <2> QED
    BY <1>4, <2>1
<1> QED
  BY <1>1, <1>2, <1>3, <1>4, <1>5
  DEF ThNext, RequestStep, applyThumbnailSettings, Close, PoolClose, Replaced

-------------------------------------------------------------------------------
(* The theorems.                                                           *)

\* What services, slots, requests and caches keep at every step, whatever the
\* settings replace under whichever requests.
THEOREM ThumbnailsInvariant ==
  ASSUME ThConstants
  PROVE  ThSpec => []ThInv
<1>1. ThInit => ThInv
  BY ThInitInv
<1>2. ThInv /\ [ThNext]_thVars => ThInv'
  <2>1. CASE ThInv /\ ThNext
    BY <2>1, ThShapesStep, ServiceLifeStep, LeasesStep, SlotsStep, HonestyStep, CachesStep DEF ThInv
  <2>2. CASE ThInv /\ UNCHANGED thVars
    <3>1. \A s : Leases(s)' = Leases(s)
      BY <2>2 DEF thVars, Leases
    <3>2. LeasesCounted' /\ ThShapes'
      BY <2>2, <3>1 DEF thVars, ThInv, LeasesCounted, ThShapes
    <3>3. ServiceLife' /\ SlotsOwned'
      BY <2>2 DEF thVars, ThInv, ServiceLife, SlotsOwned, NoWorkerOutlivesPool
    <3>4. RequestsHonest' /\ CachesAreHonest'
      BY <2>2 DEF thVars, ThInv, RequestsHonest, CachesAreHonest
    <3> QED
      BY <3>2, <3>3, <3>4 DEF ThInv
  <2> QED
    BY <2>1, <2>2
<1> QED
  BY <1>1, <1>2, PTL DEF ThSpec

\* A pool that was closed has no process left, also when requests of the Nextcloud
\* surface, which hold no lease, were on their way to it (pool.go Generate, Close).
THEOREM ClosedPoolIsEmpty ==
  ASSUME ThConstants
  PROVE  ThSpec => []NoWorkerOutlivesPool
<1>1. ThInv => NoWorkerOutlivesPool
  BY DEF ThInv, SlotsOwned
<1> QED
  BY <1>1, ThumbnailsInvariant, PTL

\* The pool behind a lease is open for as long as the lease is held: the service
\* counts its leases exactly and its Close waits for none (service.go Close).
THEOREM LeaseKeepsPool ==
  ASSUME ThConstants
  PROVE  ThSpec => []LeaseHoldsPool
<1>1. ThInv => LeaseHoldsPool
  <2> SUFFICES ASSUME ThInv, NEW q \in Native, thReq[q].pc # "idle"
               PROVE  thSvc[thReq[q].svc].close \notin {"reap", "done"}
    BY DEF LeaseHoldsPool
  <2> DEFINE s == thReq[q].svc
  <2>1. s \in Services /\ q \in Leases(s) /\ Leases(s) \subseteq Native
    BY DEF ThInv, ThShapes, Leases, Requests
  <2>2. Cardinality(Leases(s)) # 0
    BY <2>1, FS_Subset, FS_EmptySet DEF ThConstants
  <2> QED
    BY <2>1, <2>2 DEF ThInv, LeasesCounted
<1> QED
  BY <1>1, ThumbnailsInvariant, PTL

\* Under the key of a file the caches hold that file's picture, within the decode
\* limits, or a failure that file earns, unless the path changed hands between the
\* stat and the open of a request (service.go get, generate).
THEOREM CachesTellTruth ==
  ASSUME ThConstants
  PROVE  ThSpec => []CachesAreHonest
<1>1. ThInv => CachesAreHonest
  BY DEF ThInv
<1> QED
  BY <1>1, ThumbnailsInvariant, PTL
-------------------------------------------------------------------------------
(* The server as one model.  Whatever part a behaviour lets run, the others  *)
(* stutter, so every behaviour of the model is one of each part, and what is *)
(* proved of a part holds in it.                                             *)

LEMMA StepOfPart ==
  ASSUME [Next]_vars
  PROVE  [SlNext]_slVars /\ [LsNext]_lsVars /\ [ThNext]_thVars
BY DEF Next, vars, Only, SmbSharingStep, SettingsStep, ListenerStep, ThumbnailsStep, ServerLifeStep,
       LogbookStep, AuditLogStep

LEMMA ServerRunsParts == Spec => SlSpec /\ LsSpec /\ ThSpec
<1>1. Init => SlInit /\ LsInit /\ ThInit
  BY DEF Init
<1>2. [Next]_vars => [SlNext]_slVars /\ [LsNext]_lsVars /\ [ThNext]_thVars
  BY StepOfPart
<1> QED
  BY <1>1, <1>2, PTL DEF Spec, SlSpec, LsSpec, ThSpec

\* Nothing of the running server is used outside its life: databases under the
\* lock and in the reader's shape, resources open for what Close waits for, one
\* certificate for good, no start refused over a torn pair, no decoder process
\* past its pool and no lease past its service, and caches that tell the truth
\* (server/open.go Close, instance.go Take, tls.go EnsureTLS, pool.go Close, service.go Close).
THEOREM NothingOutlivesItsLife ==
  ASSUME SlConstants, ThConstants
  PROVE  Spec => []LivesEndInOrder
<1>1. SlSpec => []LockCoversFiles /\ []ServesOwnSchema /\ []NoUseAfterClose
  BY LockCoversOpenFiles, EachServesOwnSchema, CloseOrderHolds, PTL
<1>2. LsSpec => []IdentityKept /\ []TornPairRecovers
  BY OneIdentity, TornPairNeverRefuses, PTL
<1>3. ThSpec => []NoWorkerOutlivesPool /\ []LeaseHoldsPool /\ []CachesAreHonest
  BY ClosedPoolIsEmpty, LeaseKeepsPool, CachesTellTruth, PTL
<1>4. /\ LockCoversFiles /\ ServesOwnSchema /\ NoUseAfterClose
      /\ IdentityKept /\ TornPairRecovers
      /\ NoWorkerOutlivesPool /\ LeaseHoldsPool /\ CachesAreHonest
      => LivesEndInOrder
  BY DEF LivesEndInOrder
<1> QED
  BY <1>1, <1>2, <1>3, <1>4, ServerRunsParts, PTL
==============================================================================
