------------------------------ MODULE ServerLife ------------------------------
(***************************************************************************)
(* The life of a process over one data directory: taking the directory's   *)
(* lock, the settings probe, the sealed re-exec, the staged construction   *)
(* of the engine with its databases and their migrations, the work it runs *)
(* in the background, and the ordered close.  The processes are servers of *)
(* possibly different releases and runs of `stowcloud settings`.           *)
(*                                                                         *)
(* A resource is something Close shuts: the databases, the log store, the  *)
(* change watcher, the upload engine.  A worker is a goroutine, or a set   *)
(* of them waited for together; it is busy while one of its passes, events *)
(* or jobs is under way and then needs its resources.                      *)
(***************************************************************************)
EXTENDS Integers, FiniteSets, Sequences

CONSTANTS SlProcs,     \* the processes started over the directory
          Editors,     \* the ones that run `stowcloud settings`
          Known,       \* how many migrations each process's binary knows
          SlMaxFaults, \* bound: steps of construction that fail
          SlCrashes,   \* bound: processes killed
          SlBusy       \* bound: workers of a process busy at a time

Databases == {"state", "cache", "journal"}
Resources == Databases \cup {"logs", "watcher", "uploads"}
Workers   == {"http", "tasks", "pump", "guard", "build", "copies", "mergers"}

\* No process: nobody holds the lock.
Nobody == "nobody"

VARIABLES holder,   \* who holds the kernel's lock on the directory
          slPc,     \* where each process is
          sealed,   \* processes past the re-exec
          opened,   \* resources each process has open
          had,      \* resources each process opened in this life
          wk,       \* its workers: "off", "idle" or "busy"
          told,     \* its workers that were told to stop
          left,     \* its workers whose wait ran out
          disk,     \* each database file: recorded version, steps applied
          slFaults, slCrashes
slVars == <<holder, slPc, sealed, opened, had, wk, told, left, disk,
            slFaults, slCrashes>>

(***************************************************************************)
(* What each worker uses                                                   *)
(***************************************************************************)
\* The recurring work and what each pass reads or writes.
Schedule ==
  [dav |-> {"state"}, login |-> {"state"}, probe |-> {"state", "cache"},
   upload |-> {"state", "uploads"}, direct |-> {"state"}, search |-> {}]

\* The names the schedule has to hold, each once.
RequiredTasks == {"probe", "dav", "login", "upload", "direct", "search"}

Validate == DOMAIN Schedule = RequiredTasks

Needs ==
  [w \in Workers |->
     CASE w = "http"    -> Resources
       [] w = "tasks"   -> {"logs"} \cup UNION {Schedule[t] : t \in RequiredTasks}
       [] w = "pump"    -> {"cache", "logs"}
       [] w = "guard"   -> Databases
       [] w = "build"   -> {"state", "logs"}
       [] w = "copies"  -> Databases \cup {"logs"}
       [] w = "mergers" -> {"state", "logs"}]

\* Close cancels the size guard's sampler and closes the watcher under the
\* event pump; it waits for neither.
Unawaited == {"guard", "pump"}

Quiet(p, w) == wk[p][w] # "busy"

(***************************************************************************)
(* Steps shared by the stages                                              *)
(***************************************************************************)
Go(p, pc) == slPc' = [slPc EXCEPT ![p] = pc]

\* A worker's loop is started.
Start(p, ws) == wk' = [wk EXCEPT ![p] = [w \in Workers |->
                         IF w \in ws THEN "idle" ELSE @[w]]]

Attach(p, r) == /\ opened' = [opened EXCEPT ![p] = @ \cup {r}]
                /\ had' = [had EXCEPT ![p] = @ \cup {r}]

Detach(p, rs) == opened' = [opened EXCEPT ![p] = @ \ rs] /\ UNCHANGED had

\* An open that failed leaves nothing behind.
Drop(p, r) == /\ opened' = [opened EXCEPT ![p] = @ \ {r}]
              /\ had' = [had EXCEPT ![p] = @ \ {r}]

Fault == slFaults < SlMaxFaults /\ slFaults' = slFaults + 1
NoFault == UNCHANGED slFaults

KeepWork == UNCHANGED <<wk, told, left>>
KeepFiles == UNCHANGED <<opened, had, disk>>
KeepRest == UNCHANGED <<sealed, slCrashes>>

(***************************************************************************)
(* The lock                                                                *)
(***************************************************************************)
\* Take does not wait: it succeeds when nobody holds the lock.
Take(p) == holder = Nobody /\ holder' = p

Release(p) == holder' = IF holder = p THEN Nobody ELSE holder

\* The kernel drops what a process held, however it ends.
Vanish(p) ==
  /\ Release(p)
  /\ Go(p, "down")
  /\ opened' = [opened EXCEPT ![p] = {}]
  /\ had' = [had EXCEPT ![p] = {}]
  /\ wk' = [wk EXCEPT ![p] = [w \in Workers |-> "off"]]
  /\ told' = [told EXCEPT ![p] = {}]
  /\ left' = [left EXCEPT ![p] = {}]
  /\ UNCHANGED disk

(***************************************************************************)
(* One database file                                                       *)
(***************************************************************************)
\* Where a process opens a database: which, and where it goes on.  A journal
\* that does not open is a degradation; the others end the start.
OpenAt ==
  [probing |-> [file |-> "state",   ok |-> "probed",  fail |-> "release"],
   editing |-> [file |-> "state",   ok |-> "edit",    fail |-> "release"],
   state   |-> [file |-> "state",   ok |-> "cache",   fail |-> "stopTasks"],
   cache   |-> [file |-> "cache",   ok |-> "journal", fail |-> "stopTasks"],
   journal |-> [file |-> "journal", ok |-> "core",    fail |-> "core"]]

\* The bootstrap and the pool; it fails before a pool exists.
bootstrap(p) ==
  /\ slPc[p] \in DOMAIN OpenAt
  /\ LET at == OpenAt[slPc[p]] IN
     /\ at.file \notin opened[p]
     /\ \/ Attach(p, at.file) /\ NoFault /\ UNCHANGED slPc
        \/ Fault /\ Go(p, at.fail) /\ UNCHANGED <<opened, had>>
  /\ KeepWork /\ KeepRest /\ UNCHANGED <<holder, disk>>

\* One step's batch and its version commit together.
MutMigrateStep(f) == disk' = [disk EXCEPT ![f].version = @ + 1]
migrateStep(f) == disk' = [disk EXCEPT ![f].version = @ + 1, ![f].steps = @ + 1]

\* A step that is refused or rolled back, and a file of a newer binary, close
\* the pool and leave the file as it is.
MutSchemaAhead(p, f) == FALSE
schemaAhead(p, f) == disk[f].version > Known[p]

migrate(p) ==
  /\ slPc[p] \in DOMAIN OpenAt
  /\ LET at == OpenAt[slPc[p]]
         f  == at.file
     IN /\ f \in opened[p]
        /\ \/ /\ schemaAhead(p, f)
              /\ Drop(p, f) /\ Go(p, at.fail) /\ NoFault /\ UNCHANGED disk
           \/ /\ disk[f].version < Known[p]
              /\ Fault /\ Drop(p, f) /\ Go(p, at.fail) /\ UNCHANGED disk
           \/ /\ disk[f].version < Known[p]
              /\ migrateStep(f) /\ NoFault /\ UNCHANGED <<slPc, opened, had>>
           \/ /\ disk[f].version >= Known[p] /\ ~schemaAhead(p, f)
              /\ Go(p, at.ok) /\ NoFault /\ UNCHANGED <<opened, had, disk>>
  /\ KeepWork /\ KeepRest /\ UNCHANGED holder

(***************************************************************************)
(* `stowcloud settings`                                                    *)
(***************************************************************************)
takeSettingsLock(p) ==
  /\ p \in Editors /\ slPc[p] = "down"
  /\ Take(p) /\ Go(p, "editing")
  /\ KeepWork /\ KeepFiles /\ KeepRest /\ NoFault

\* The section is read or merged and the file closed; the lock, taken first,
\* is given up last.
runSettings(p) ==
  /\ slPc[p] = "edit"
  /\ Detach(p, {"state"}) /\ Go(p, "release")
  /\ KeepWork /\ KeepRest /\ NoFault /\ UNCHANGED <<holder, disk>>

(***************************************************************************)
(* Preflight and the re-exec                                               *)
(***************************************************************************)
Load(p) ==
  /\ p \notin Editors /\ slPc[p] = "down"
  /\ Take(p)
  /\ \/ Go(p, "probing") /\ NoFault
     \/ Fault /\ Go(p, "release")            \* the kernel lacks the resolver
  /\ KeepWork /\ KeepFiles /\ KeepRest

\* The probe closes the settings database before the engine is constructed.
bootSettings(p) ==
  /\ slPc[p] = "probed"
  /\ Detach(p, {"state"})
  /\ \/ Go(p, "loaded") /\ NoFault
     \/ Fault /\ Go(p, "release")
  /\ KeepWork /\ KeepRest /\ UNCHANGED <<holder, disk>>

\* The first image replaces itself under the sealed policy.  The lock's
\* descriptor does not survive the exec: the new image takes the lock again,
\* and another process may come first.
Reexec(p) ==
  /\ slPc[p] = "loaded" /\ p \notin sealed
  /\ Vanish(p)
  /\ sealed' = sealed \cup {p}
  /\ NoFault /\ UNCHANGED slCrashes

\* The sealed image installs its filter; a refusal ends the process.
Apply(p) ==
  /\ slPc[p] = "loaded" /\ p \in sealed
  /\ \/ Go(p, "logs") /\ NoFault
     \/ Fault /\ Go(p, "ended")
  /\ KeepWork /\ KeepFiles /\ KeepRest /\ UNCHANGED holder

(***************************************************************************)
(* Constructing the engine                                                 *)
(***************************************************************************)
\* The log store first; without it the server runs on the console.
OpenLogs(p) ==
  /\ slPc[p] = "logs" /\ Go(p, "state")
  /\ \/ Attach(p, "logs") /\ NoFault
     \/ Fault /\ UNCHANGED <<opened, had>>
  /\ KeepWork /\ KeepRest /\ UNCHANGED <<holder, disk>>

\* The core, its seams, the master key and the stored shares, each of which
\* may refuse; then the durable jobs begin.
OpenCore(p) ==
  /\ slPc[p] = "core"
  /\ \/ Start(p, {"copies"}) /\ Go(p, "settings") /\ NoFault
     \/ Fault /\ Go(p, "stopTasks") /\ UNCHANGED wk
  /\ KeepFiles /\ KeepRest /\ UNCHANGED <<holder, told, left>>

\* The settings are loaded before anything serves; the size guard samples and
\* an index build may be asked for.
OpenSettings(p) ==
  /\ slPc[p] = "settings" /\ Go(p, "events")
  /\ Start(p, {"guard", "build"})
  /\ KeepFiles /\ KeepRest /\ NoFault /\ UNCHANGED <<holder, told, left>>

\* A kernel that refuses a watcher costs the push and nothing else.
startEvents(p) ==
  /\ slPc[p] = "events" /\ Go(p, "uploads")
  /\ \/ Attach(p, "watcher") /\ Start(p, {"pump"}) /\ NoFault
     \/ Fault /\ UNCHANGED <<opened, had, wk>>
  /\ KeepRest /\ UNCHANGED <<holder, told, left, disk>>

\* An unusable spool leaves a server without resumable uploads; a cache that
\* cannot be recovered ends the start with the upload engine closed again.
OpenUploads(p) ==
  /\ slPc[p] = "uploads"
  /\ \/ /\ Attach(p, "uploads") /\ Start(p, {"mergers"})
        /\ Go(p, "flow") /\ NoFault
     \/ Fault /\ Go(p, "flow") /\ UNCHANGED <<opened, had, wk>>
     \/ Fault /\ Go(p, "stopTasks") /\ UNCHANGED <<opened, had, wk>>
  /\ KeepRest /\ UNCHANGED <<holder, told, left, disk>>

\* The device login and the claim key, the last that may refuse.
OpenFlow(p) ==
  /\ slPc[p] = "flow"
  /\ \/ Go(p, "opened") /\ NoFault
     \/ Fault /\ Go(p, "stopTasks")
  /\ KeepWork /\ KeepFiles /\ KeepRest /\ UNCHANGED holder

\* The routes are mounted and the recurring tasks started.
Mount(p) ==
  /\ slPc[p] = "opened"
  /\ \/ /\ Validate
        /\ Start(p, {"tasks"}) /\ Go(p, "mounted") /\ NoFault
     \/ Fault /\ Go(p, "stopTasks") /\ UNCHANGED wk
  /\ KeepFiles /\ KeepRest /\ UNCHANGED <<holder, told, left>>

\* The listener binds and admits requests, or refuses and the engine closes.
Serve(p) ==
  /\ slPc[p] = "mounted"
  /\ \/ Start(p, {"http"}) /\ Go(p, "serving") /\ NoFault
     \/ Fault /\ Go(p, "stopTasks") /\ UNCHANGED wk
  /\ KeepFiles /\ KeepRest /\ UNCHANGED <<holder, told, left>>

(***************************************************************************)
(* The work                                                                *)
(***************************************************************************)
\* A request, a pass, an event, a sample or a job begins.  A worker that was
\* told to stop begins nothing more; the pump still has what was queued when
\* its watcher closed.
Begin(p, w) ==
  /\ wk[p][w] = "idle" /\ w \notin told[p]
  /\ Cardinality({v \in Workers : ~Quiet(p, v)}) < SlBusy
  /\ wk' = [wk EXCEPT ![p][w] = "busy"]
  /\ KeepFiles /\ KeepRest /\ NoFault /\ UNCHANGED <<holder, slPc, told, left>>

End(p, w) ==
  /\ wk[p][w] = "busy"
  /\ wk' = [wk EXCEPT ![p][w] = "idle"]
  /\ KeepFiles /\ KeepRest /\ NoFault /\ UNCHANGED <<holder, slPc, told, left>>

(***************************************************************************)
(* Closing                                                                 *)
(***************************************************************************)
\* Cancel w and go on at pc.
Tell(p, from, w, pc) ==
  /\ slPc[p] = from /\ Go(p, pc)
  /\ told' = [told EXCEPT ![p] = @ \cup {w}]
  /\ KeepFiles /\ KeepRest /\ NoFault /\ UNCHANGED <<holder, wk, left>>

\* Wait for w to rest; Expire gives up on it.
MutWait(p, from, w, pc) ==
  /\ slPc[p] = from /\ Go(p, pc)
  /\ KeepWork /\ KeepFiles /\ KeepRest /\ NoFault /\ UNCHANGED holder
Wait(p, from, w, pc) ==
  /\ slPc[p] = from /\ Quiet(p, w) /\ Go(p, pc)
  /\ KeepWork /\ KeepFiles /\ KeepRest /\ NoFault /\ UNCHANGED holder

Expire(p, from, w, pc) ==
  /\ slPc[p] = from /\ ~Quiet(p, w) /\ Go(p, pc)
  /\ left' = [left EXCEPT ![p] = @ \cup {w}]
  /\ KeepFiles /\ KeepRest /\ NoFault /\ UNCHANGED <<holder, wk, told>>

\* A restart is asked for, or the process is told to stop: no request is
\* admitted, the ones under way have until the shutdown deadline.
RequestRestart(p) == Tell(p, "serving", "http", "draining")
StopListener(p) == \/ Wait(p, "draining", "http", "stopTasks")
                   \/ Expire(p, "draining", "http", "stopTasks")

stopTasks(p) == \/ Tell(p, "stopTasks", "tasks", "joinTasks")
                \/ Wait(p, "joinTasks", "tasks", "closeEvents")
                \/ Expire(p, "joinTasks", "tasks", "closeEvents")

closeEvents(p) ==
  /\ slPc[p] = "closeEvents" /\ Go(p, "stopGuard")
  /\ Detach(p, {"watcher"})
  /\ KeepWork /\ KeepRest /\ NoFault /\ UNCHANGED <<holder, disk>>

StopSizeGuard(p) == Tell(p, "stopGuard", "guard", "stopBuild")

\* The index build is cancelled and waited for.
DrainIndex(p) == \/ Tell(p, "stopBuild", "build", "joinBuild")
                 \/ Wait(p, "joinBuild", "build", "drainCopies")
                 \/ Expire(p, "joinBuild", "build", "drainCopies")

\* The copies are let run until none is runnable and no slot is taken, then
\* stopped; a deadline stops them and grants a grace.
DrainJobs(p) ==
  \/ Wait(p, "drainCopies", "copies", "stopCopies")
  \/ Tell(p, "stopCopies", "copies", "joinCopies")
  \/ ~Quiet(p, "copies") /\ Tell(p, "drainCopies", "copies", "grace")
  \/ Wait(p, "joinCopies", "copies", "closeUploads")
  \/ Expire(p, "joinCopies", "copies", "closeUploads")
stopAndWait(p) == \/ Wait(p, "grace", "copies", "closeUploads")
                  \/ Expire(p, "grace", "copies", "closeUploads")

\* The mergers are waited for without a deadline.
CloseUploads(p) ==
  \/ Tell(p, "closeUploads", "mergers", "joinMergers")
  \/ /\ slPc[p] = "joinMergers" /\ Quiet(p, "mergers") /\ Go(p, "closeFiles")
     /\ Detach(p, {"uploads"})
     /\ KeepWork /\ KeepRest /\ NoFault /\ UNCHANGED <<holder, disk>>

\* The databases in reverse, then the log store.
Last(s) == IF "journal" \in s THEN "journal" ELSE IF "cache" \in s THEN "cache" ELSE "state"

\* The close that returns at the first database.
MutCloseFiles(p) ==
  /\ slPc[p] = "closeFiles" /\ Go(p, "release")
  /\ Detach(p, {Last(opened[p] \cap Databases)})
  /\ KeepWork /\ KeepRest /\ NoFault /\ UNCHANGED <<holder, disk>>
CloseFiles(p) ==
  /\ slPc[p] = "closeFiles"
  /\ LET open == opened[p] \cap Databases IN
     IF open # {} THEN Detach(p, {Last(open)}) /\ UNCHANGED slPc
     ELSE Detach(p, {"logs"}) /\ Go(p, "release")
  /\ KeepWork /\ KeepRest /\ NoFault /\ UNCHANGED <<holder, disk>>

\* The lock last; then Run returns and the process ends.
ReleaseLock(p) ==
  /\ slPc[p] = "release" /\ Release(p) /\ Go(p, "ended")
  /\ KeepWork /\ KeepFiles /\ KeepRest /\ NoFault

Exit(p) ==
  /\ slPc[p] = "ended" /\ Vanish(p)
  /\ sealed' = sealed \ {p}
  /\ NoFault /\ UNCHANGED slCrashes

Crash(p) ==
  /\ slCrashes < SlCrashes /\ slPc[p] # "down" /\ Vanish(p)
  /\ slCrashes' = slCrashes + 1
  /\ sealed' = sealed \ {p} /\ NoFault

-------------------------------------------------------------------------------
SlInit ==
  /\ holder = Nobody
  /\ slPc = [p \in SlProcs |-> "down"] /\ sealed = {}
  /\ opened = [p \in SlProcs |-> {}] /\ had = [p \in SlProcs |-> {}]
  /\ wk = [p \in SlProcs |-> [w \in Workers |-> "off"]]
  /\ told = [p \in SlProcs |-> {}] /\ left = [p \in SlProcs |-> {}]
  /\ disk = [f \in Databases |-> [version |-> 0, steps |-> 0]]
  /\ slFaults = 0 /\ slCrashes = 0

SlNext ==
  \E p \in SlProcs :
    \/ takeSettingsLock(p) \/ runSettings(p)
    \/ Load(p) \/ bootSettings(p) \/ Reexec(p) \/ Apply(p)
    \/ bootstrap(p) \/ migrate(p)
    \/ OpenLogs(p) \/ OpenCore(p) \/ OpenSettings(p) \/ startEvents(p)
    \/ OpenUploads(p) \/ OpenFlow(p) \/ Mount(p) \/ Serve(p)
    \/ \E w \in Workers : Begin(p, w) \/ End(p, w)
    \/ RequestRestart(p) \/ StopListener(p) \/ stopTasks(p)
    \/ closeEvents(p) \/ StopSizeGuard(p) \/ DrainIndex(p) \/ DrainJobs(p)
    \/ stopAndWait(p) \/ CloseUploads(p) \/ CloseFiles(p) \/ ReleaseLock(p)
    \/ Exit(p) \/ Crash(p)

SlSpec == SlInit /\ [][SlNext]_slVars

-------------------------------------------------------------------------------
Stages == {"down", "probing", "probed", "loaded", "editing", "edit", "logs",
           "state", "cache", "journal", "core", "settings", "events", "uploads",
           "flow", "opened", "mounted", "serving", "draining", "stopTasks", "joinTasks",
           "closeEvents", "stopGuard", "stopBuild", "joinBuild", "drainCopies",
           "stopCopies", "joinCopies", "grace", "closeUploads", "joinMergers", "closeFiles",
           "release", "ended"}

SlTypeOK ==
  /\ holder \in SlProcs \cup {Nobody}
  /\ slPc \in [SlProcs -> Stages] /\ sealed \subseteq SlProcs
  /\ opened \in [SlProcs -> SUBSET Resources]
  /\ had \in [SlProcs -> SUBSET Resources]
  /\ wk \in [SlProcs -> [Workers -> {"off", "idle", "busy"}]]
  /\ told \in [SlProcs -> SUBSET Workers]
  /\ left \in [SlProcs -> SUBSET Workers]
  /\ disk \in [Databases -> [version : Nat, steps : Nat]]
  /\ slFaults \in 0..SlMaxFaults /\ slCrashes \in 0..SlCrashes

\* A database is open only in the process that holds the directory's lock,
\* through probes, re-execs, failed starts, closes and kills: the lock is
\* taken before the first file and released after the last.
LockCoversFiles ==
  \A p \in SlProcs : opened[p] \cap Databases # {} => holder = p

\* Every database a process works on past its open has exactly the shape that
\* process's binary knows, and the recorded version tells the steps applied,
\* whatever other releases ran over the directory before and wherever they
\* were killed.
ServesOwnSchema ==
  /\ \A f \in Databases : disk[f].version = disk[f].steps
  /\ \A p \in SlProcs : \A f \in opened[p] \cap Databases :
       slPc[p] \notin {q \in DOMAIN OpenAt : OpenAt[q].file = f}
         => disk[f].version = Known[p]

\* What Close waits for does not find a resource closed under it: a request, a
\* task pass, an index build, a copy or a merge under way still has everything
\* it uses, unless the wait for it ran out.
NoUseAfterClose ==
  \A p \in SlProcs : \A w \in Workers \ Unawaited :
    wk[p][w] = "busy" /\ w \notin left[p] => Needs[w] \cap had[p] \subseteq opened[p]

\* The same of every goroutine that reads a database, the pump and the size
\* guard included: Close's own words for what its order avoids.
NoLiveReader ==
  \A p \in SlProcs : \A w \in Workers :
    wk[p][w] = "busy" /\ w \notin left[p] =>
      Needs[w] \cap had[p] \cap Databases \subseteq opened[p]

\* Close waits for copies only after it told them to stop at their next item.
ToldBeforeWait ==
  [][\A p \in SlProcs :
       slPc[p] = "drainCopies" /\ wk'[p]["copies"] # wk[p]["copies"]
         => "copies" \in told[p]]_slVars
===============================================================================
