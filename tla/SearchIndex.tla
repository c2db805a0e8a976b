---------------------------- MODULE SearchIndex ----------------------------
(***************************************************************************)
(* The search index and what keeps it current: internal/search/svc and     *)
(* internal/search/controller.                                             *)
(*                                                                         *)
(* A query is answered from the index alone unless the index says that it  *)
(* covers less than the corpus. So the index may miss a file only while it *)
(* says so, or while the event that will add the file is still on its way: *)
(* a watcher event, the bounded update queue, one reconciliation at a      *)
(* time, beside a build that lists the directories one after the other.    *)
(*                                                                         *)
(* The index library is external: SetIncomplete(true) begins a new         *)
(* generation of coverage, and a build can declare only the generation it  *)
(* began in complete. A directory holds at most one file, which the model  *)
(* calls by the directory's name.                                          *)
(***************************************************************************)
EXTENDS Naturals, Sequences, FiniteSets

CONSTANTS SeDirs,     \* the directories of the corpus
          SeQueue,    \* room in the update queue (updateQueue)
          Ceiling,    \* entries at which indexing stops (CorpusScanEntries)
          SeChanges,  \* how many changes are made on disk
          SeToggles   \* how often the switch is flipped, a build is asked for, or a fault happens

VARIABLES seDisk,      \* the directories that hold their file
          seEvents,    \* watcher events on their way: directories, or "all" when some were lost
          seIx,        \* the index: attached, entries, incomplete, gen, and which entries a late removal took
          seQueue,     \* the updater's queue
          seUpd,       \* the reconciliation in progress
          seBuild,     \* the builds: the recovery's and the administrator's
          seBuilding,  \* indexBuilding
          seRecovery,  \* indexRecovery
          seWatch,     \* whether there is a watcher
          seOp,        \* the row of the administrator's build
          seLeft       \* changes and toggles left

seVars == <<seDisk, seEvents, seIx, seQueue, seUpd, seBuild, seBuilding, seRecovery, seWatch, seOp, seLeft>>

Builders == {"recover", "job"}
NoBuild == [at |-> "idle", gen |-> 0, todo |-> {}, batch |-> {}, files |-> 0, partial |-> FALSE]
NoUpd == [at |-> "idle", dir |-> "", held |-> FALSE, found |-> FALSE, gen |-> 0]

\* The index has reached the size at which a build stops too.
full == Cardinality(seIx.entries) >= Ceiling

SeInit ==
    /\ seDisk = {} /\ seEvents = {} /\ seWatch \in BOOLEAN
    /\ \E on \in BOOLEAN : /\ seIx = [attached |-> on, entries |-> {}, incomplete |-> TRUE, gen |-> 0, late |-> {}]
                          /\ seRecovery = on
    /\ seQueue = <<>> /\ seUpd = NoUpd /\ seBuild = [b \in Builders |-> NoBuild]
    /\ seBuilding = FALSE /\ seOp = "none"
    /\ seLeft = [changes |-> SeChanges, toggles |-> SeToggles]

Toggle == seLeft.toggles > 0 /\ seLeft' = [seLeft EXCEPT !.toggles = @ - 1]

(***************************************************************************)
(* The index library                                                       *)
(***************************************************************************)

SetIncomplete(ix) == [ix EXCEPT !.incomplete = TRUE, !.gen = @ + 1]
BeginCoverage(ix) == [ix EXCEPT !.incomplete = TRUE]
CompleteCoverage(ix, gen) == IF ix.gen = gen THEN [ix EXCEPT !.incomplete = FALSE] ELSE ix
AppendTo(ix, ds) == [ix EXCEPT !.entries = @ \union ds, !.late = @ \ ds]

\* A removal is late when events were lost since the directory was listed; the index remembers that for the
\* properties only.
Tombstone(ix, d, gen) == [ix EXCEPT !.entries = @ \ {d}, !.late = IF gen = ix.gen THEN @ ELSE @ \union {d}]

\* Service.SetIndexIncomplete reaches an attached index only.
SetIndexIncomplete == seIx' = IF seIx.attached THEN SetIncomplete(seIx) ELSE seIx

(***************************************************************************)
(* Changes and their events                                                *)
(***************************************************************************)

\* A file appears or goes away; with a watcher an event follows, or a lost batch is reported.
Change(d) ==
    /\ seLeft.changes > 0 /\ seLeft' = [seLeft EXCEPT !.changes = @ - 1]
    /\ seDisk' = IF d \in seDisk THEN seDisk \ {d} ELSE seDisk \union {d}
    /\ IF seWatch THEN \E what \in {d, "all"} : seEvents' = seEvents \union {what} ELSE UNCHANGED seEvents
    /\ UNCHANGED <<seIx, seQueue, seUpd, seBuild, seBuilding, seRecovery, seWatch, seOp>>

\* MarkIncomplete of the controller: the watcher lost coverage, a share broke or came back.
MarkIncomplete ==
    /\ Toggle /\ seIx.attached
    /\ seIx' = SetIncomplete(seIx) /\ seRecovery' = TRUE
    /\ UNCHANGED <<seDisk, seEvents, seQueue, seUpd, seBuild, seBuilding, seWatch, seOp>>

markIncomplete == SetIndexIncomplete /\ seRecovery' = TRUE

\* A full queue drops the event and says nothing.
MutOffer(what) ==
    /\ what \in seEvents /\ seEvents' = seEvents \ {what}
    /\ seQueue' = IF seIx.attached /\ Len(seQueue) < SeQueue THEN Append(seQueue, what) ELSE seQueue
    /\ UNCHANGED <<seDisk, seIx, seUpd, seBuild, seBuilding, seRecovery, seWatch, seOp, seLeft>>

\* The event reaches the updater, when there is one, without ever blocking.
Offer(what) ==
    /\ what \in seEvents /\ seEvents' = seEvents \ {what}
    /\ \/ /\ seIx.attached /\ Len(seQueue) < SeQueue
          /\ seQueue' = Append(seQueue, what) /\ UNCHANGED <<seIx, seRecovery>>
       \/ /\ seIx.attached /\ Len(seQueue) >= SeQueue
          /\ markIncomplete /\ UNCHANGED seQueue
       \/ /\ ~seIx.attached /\ UNCHANGED <<seIx, seQueue, seRecovery>>
    /\ UNCHANGED <<seDisk, seUpd, seBuild, seBuilding, seWatch, seOp, seLeft>>

(***************************************************************************)
(* The updater                                                             *)
(***************************************************************************)

\* An event is taken: lost events make the index decline, a directory is compared with what the index holds.
apply ==
    /\ seUpd.at = "idle" /\ seQueue # <<>> /\ seQueue' = Tail(seQueue)
    /\ \/ Head(seQueue) = "all" /\ markIncomplete /\ UNCHANGED seUpd
       \/ /\ Head(seQueue) # "all"
          /\ seUpd' = [at |-> "list", dir |-> Head(seQueue), held |-> Head(seQueue) \in seIx.entries, found |-> FALSE,
                       gen |-> 0]
          /\ UNCHANGED <<seIx, seRecovery>>
    /\ UNCHANGED <<seDisk, seEvents, seBuild, seBuilding, seWatch, seOp, seLeft>>

\* The directory is listed; one that cannot be read leaves a gap.
reconcileList ==
    /\ seUpd.at = "list"
    /\ \/ /\ seUpd' = [seUpd EXCEPT !.at = "write", !.found = seUpd.dir \in seDisk, !.gen = seIx.gen]
          /\ UNCHANGED <<seIx, seRecovery, seLeft>>
       \/ /\ Toggle /\ markIncomplete /\ seUpd' = NoUpd
    /\ UNCHANGED <<seDisk, seEvents, seQueue, seBuild, seBuilding, seWatch, seOp>>

\* The index is full: what does not fit is left out.
MutReconcile ==
    /\ seUpd.at = "write" /\ seUpd' = NoUpd
    /\ seIx' = IF seUpd.held /\ ~seUpd.found THEN Tombstone(seIx, seUpd.dir, seUpd.gen)
               ELSE IF seUpd.found /\ ~seUpd.held /\ ~full
               THEN AppendTo(seIx, {seUpd.dir}) ELSE seIx
    /\ UNCHANGED <<seDisk, seEvents, seQueue, seBuild, seBuilding, seRecovery, seWatch, seOp, seLeft>>

\* Removals always; additions up to the ceiling, beyond which the index declines.
reconcile ==
    /\ seUpd.at = "write" /\ seUpd' = NoUpd
    /\ seIx' = IF seUpd.held /\ ~seUpd.found THEN Tombstone(seIx, seUpd.dir, seUpd.gen)
               ELSE IF seUpd.found /\ ~seUpd.held
               THEN IF full THEN SetIncomplete(seIx)
                    ELSE AppendTo(seIx, {seUpd.dir})
               ELSE seIx
    /\ UNCHANGED <<seDisk, seEvents, seQueue, seBuild, seBuilding, seRecovery, seWatch, seOp, seLeft>>

(***************************************************************************)
(* Builds                                                                  *)
(***************************************************************************)

\* The coverage generation is taken before the first directory is read.
BuildBegin(b) ==
    /\ seBuild' = [seBuild EXCEPT ![b] = [NoBuild EXCEPT !.at = "walk", !.gen = seIx.gen, !.todo = SeDirs]]
    /\ seIx' = BeginCoverage(seIx)

\* walkSource: one directory is read into the batch; the gate, an unreadable directory and the ceiling make the
\* build partial, and the ceiling and the gate end it.
walkSource(b) ==
    /\ seBuild[b].at = "walk" /\ seBuild[b].todo # {}
    /\ LET x == seBuild[b]
       IN \/ \E d \in x.todo :
               /\ \/ /\ d \in seDisk /\ x.files < Ceiling
                     /\ seBuild' = [seBuild EXCEPT ![b] = [x EXCEPT !.todo = x.todo \ {d}, !.batch = x.batch \union {d},
                                                                     !.files = x.files + 1]]
                     /\ UNCHANGED seIx
                  \/ /\ d \in seDisk /\ x.files >= Ceiling
                     /\ seBuild' = [seBuild EXCEPT ![b] = [x EXCEPT !.todo = {}, !.partial = TRUE]]
                     /\ seIx' = SetIncomplete(seIx)
                  \/ /\ d \notin seDisk
                     /\ seBuild' = [seBuild EXCEPT ![b] = [x EXCEPT !.todo = x.todo \ {d}]] /\ UNCHANGED seIx
               /\ UNCHANGED seLeft
          \/ /\ Toggle /\ UNCHANGED seIx
             /\ \E d \in x.todo : seBuild' = [seBuild EXCEPT ![b] = [x EXCEPT !.todo = x.todo \ {d}, !.partial = TRUE]]
          \/ /\ seOp = "cancelling" /\ b = "job" /\ UNCHANGED <<seIx, seLeft>>
             /\ seBuild' = [seBuild EXCEPT ![b] = [x EXCEPT !.todo = {}, !.partial = TRUE]]
    /\ UNCHANGED <<seDisk, seEvents, seQueue, seUpd, seBuilding, seRecovery, seWatch, seOp>>

flushBatch(b) ==
    /\ seBuild[b].at = "walk" /\ seBuild[b].todo = {}
    /\ seIx' = AppendTo(seIx, seBuild[b].batch)
    /\ seBuild' = [seBuild EXCEPT ![b].at = "merged", ![b].batch = {}]
    /\ UNCHANGED <<seDisk, seEvents, seQueue, seUpd, seBuilding, seRecovery, seWatch, seOp, seLeft>>

\* A finished walk declares the index complete whatever was lost while it ran.
MutBuildEnd(b) ==
    /\ seBuild[b].at = "merged"
    /\ seIx' = IF seBuild[b].partial THEN seIx ELSE CompleteCoverage(seIx, seIx.gen)
    /\ seBuild' = [seBuild EXCEPT ![b].at = "ended"]
    /\ UNCHANGED <<seDisk, seEvents, seQueue, seUpd, seBuilding, seRecovery, seWatch, seOp, seLeft>>

\* Only a whole walk completes coverage, and only of the generation it began in.
BuildEnd(b) ==
    /\ seBuild[b].at = "merged"
    /\ seIx' = IF seBuild[b].partial THEN seIx ELSE CompleteCoverage(seIx, seBuild[b].gen)
    /\ seBuild' = [seBuild EXCEPT ![b].at = "ended"]
    /\ UNCHANGED <<seDisk, seEvents, seQueue, seUpd, seBuilding, seRecovery, seWatch, seOp, seLeft>>

\* The maintenance task: nothing to do, a build is running, or the index is built anew.
Recover ==
    /\ seRecovery /\ seBuild["recover"].at = "idle"
    /\ \/ /\ ~seWatch \/ ~seIx.attached \/ ~seIx.incomplete
          /\ seRecovery' = FALSE /\ UNCHANGED <<seBuilding, seBuild, seIx>>
       \/ /\ seWatch /\ seIx.attached /\ seIx.incomplete /\ ~seBuilding
          /\ seBuilding' = TRUE /\ seRecovery' = FALSE /\ BuildBegin("recover")
    /\ UNCHANGED <<seDisk, seEvents, seQueue, seUpd, seWatch, seOp, seLeft>>

RecoverEnd ==
    /\ seBuild["recover"].at = "ended"
    /\ seBuild' = [seBuild EXCEPT !["recover"] = NoBuild] /\ seBuilding' = FALSE
    /\ UNCHANGED <<seDisk, seEvents, seIx, seQueue, seUpd, seRecovery, seWatch, seOp, seLeft>>

\* The administrator asks for a build. Reading the new row back may fail, and the flag is then given up although
\* the build runs.
StartIndexBuild ==
    /\ seIx.attached /\ ~seBuilding /\ seBuild["job"].at = "idle"
    /\ Toggle /\ seOp' = "running" /\ BuildBegin("job")
    /\ seBuilding' \in BOOLEAN
    /\ UNCHANGED <<seDisk, seEvents, seQueue, seUpd, seRecovery, seWatch>>

CancelBuild ==
    /\ seOp = "running" /\ seOp' = "cancelling"
    /\ UNCHANGED <<seDisk, seEvents, seIx, seQueue, seUpd, seBuild, seBuilding, seRecovery, seWatch, seLeft>>

\* Without a watcher nothing keeps the index current, so the build is marked incomplete again.
runIndexBuild ==
    /\ seBuild["job"].at = "ended"
    /\ IF seWatch THEN UNCHANGED seIx ELSE SetIndexIncomplete
    /\ seOp' = IF seOp = "cancelling" THEN "cancelled" ELSE "done"
    /\ seBuild' = [seBuild EXCEPT !["job"] = NoBuild] /\ seBuilding' = FALSE
    /\ UNCHANGED <<seDisk, seEvents, seQueue, seUpd, seRecovery, seWatch, seLeft>>

\* An index found on disk is served as it is.
MutOpenIndex ==
    /\ ~seIx.attached /\ Toggle /\ \A b \in Builders : seBuild[b].at = "idle"
    /\ seIx' = [seIx EXCEPT !.attached = TRUE]
    /\ seQueue' = <<>> /\ seUpd' = NoUpd /\ seRecovery' = TRUE
    /\ UNCHANGED <<seDisk, seEvents, seBuild, seBuilding, seWatch, seOp>>

\* The switch is turned on: what is on disk may be old, so the index declines until a build proves it.
OpenIndex ==
    /\ ~seIx.attached /\ Toggle /\ \A b \in Builders : seBuild[b].at = "idle"
    /\ seIx' = SetIncomplete([seIx EXCEPT !.attached = TRUE])
    /\ seQueue' = <<>> /\ seUpd' = NoUpd /\ seRecovery' = TRUE
    /\ UNCHANGED <<seDisk, seEvents, seBuild, seBuilding, seWatch, seOp>>

\* The switch is turned off: the updater stops with whatever is in its queue.
CloseIndex ==
    /\ seIx.attached /\ Toggle /\ \A b \in Builders : seBuild[b].at = "idle"
    /\ seIx' = [seIx EXCEPT !.attached = FALSE]
    /\ seQueue' = <<>> /\ seUpd' = NoUpd /\ seRecovery' = FALSE
    /\ UNCHANGED <<seDisk, seEvents, seBuild, seBuilding, seWatch, seOp>>

SeNext ==
    \/ \E d \in SeDirs : Change(d)
    \/ \E what \in SeDirs \union {"all"} : Offer(what)
    \/ MarkIncomplete \/ apply \/ reconcileList \/ reconcile \/ Recover \/ RecoverEnd
    \/ StartIndexBuild \/ CancelBuild \/ runIndexBuild \/ OpenIndex \/ CloseIndex
    \/ \E b \in Builders : walkSource(b) \/ flushBatch(b) \/ BuildEnd(b)

SeSpec == SeInit /\ [][SeNext]_seVars

(***************************************************************************)
(* Queries                                                                 *)
(***************************************************************************)

indexCanAnswer(complete) == ~complete

\* promote: every candidate is looked up on disk before it is reported.
promote(candidates) == candidates \intersect seDisk

\* What a query answers: the index, unless it is incomplete or may not answer, and the walk otherwise.
Query(complete) ==
    IF seIx.attached /\ ~seIx.incomplete /\ indexCanAnswer(complete) THEN promote(seIx.entries) ELSE seDisk

(***************************************************************************)
(* Properties                                                              *)
(***************************************************************************)

SeTypeOK ==
    /\ seDisk \subseteq SeDirs /\ seIx.entries \subseteq SeDirs /\ seEvents \subseteq SeDirs \union {"all"}
    /\ Len(seQueue) <= SeQueue /\ seUpd.at \in {"idle", "list", "write"}
    /\ \A b \in Builders : seBuild[b].at \in {"idle", "walk", "merged", "ended"} /\ seBuild[b].gen <= seIx.gen
    /\ seOp \in {"none", "running", "cancelling", "cancelled", "done"}

\* The change of d is known to somebody who will bring it to the index.
OnItsWay(d) ==
    \/ seEvents \intersect {d, "all"} # {}
    \/ \E i \in DOMAIN seQueue : seQueue[i] \in {d, "all"}
    \/ seUpd.at # "idle" /\ seUpd.dir = d

\* A search never misses a file silently: a file that is on disk is found, or its event is still on its way.
\* The moment between a build without a watcher and its being marked incomplete is excepted, and so is a file
\* that a late removal took.
SearchFindsAll ==
    \A d \in seDisk : \A complete \in BOOLEAN :
        \/ d \in Query(complete) \/ OnItsWay(d)
        \/ ~seWatch /\ seBuild["job"].at = "ended"
        \/ d \in seIx.late

\* "the index must decline until a new build proves the gap closed": no build proves it while a reconciliation
\* that listed its directory before the loss has still to write. Its removal takes the file the build found.
GapStaysClosed ==
    seIx.attached /\ ~seIx.incomplete /\ seWatch => \A d \in seDisk : d \in seIx.entries \/ OnItsWay(d)

\* "search index is already building": one build at a time.
OneBuild == \E b \in Builders : seBuild[b].at = "idle"
=============================================================================
