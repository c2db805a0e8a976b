----------------------------- MODULE UploadCache -----------------------------
(***************************************************************************)
(* The data plane of one offset-addressed upload session that spools       *)
(* through the cache (backend/internal/uploads).                           *)
(*                                                                         *)
(* A PATCH handler stages its body, renames it into the session's cache    *)
(* directory under a name made of the chunk's OFFSET alone, and then       *)
(* records the range in the session row; the client is answered after      *)
(* that.  A merger goroutine copies the contiguous recorded prefix from    *)
(* the cache files into the part file, records how far it got (the         *)
(* frontier, column cache_merged) and unlinks the files it has used up.    *)
(* Finalize fences the handlers off, drains the rest and publishes the     *)
(* part file.                                                              *)
(*                                                                         *)
(* Data are abstracted to positions: the client's byte at a position never *)
(* changes, so a file is the set of positions whose bytes it holds.        *)
(***************************************************************************)
EXTENDS Integers, FiniteSets, TLC

CONSTANTS
  Len,            \* the declared length; positions are 0 .. Len - 1
  Chunks,         \* the bodies the client may send, records [off, size]
  Workers,        \* concurrent PATCH handlers
  StepMax,        \* mergeCopyMax: the most one merge step copies
  UsedBound,      \* bound of the model: how far the spool counter may drift
  Budget,         \* what the spool may hold before a chunk has to wait
  RandomAccess,   \* the session's Sc-Random-Access flag
  Faults          \* which failures the environment produces

FaultKinds == {"io", "crash", "reboot", "powerloss", "unlink"}

ASSUME LenAssumption     == Len \in Nat
ASSUME ChunksAssumption  == Chunks \subseteq [off : Nat, size : Nat \ {0}]
ASSUME ChunksFit         == \A c \in Chunks : c.off + c.size <= Len
ASSUME StepMaxAssumption == StepMax \in Nat \ {0}
ASSUME BudgetAssumption  == Budget \in Nat /\ UsedBound \in Nat
ASSUME FlagsAssumption   == RandomAccess \in BOOLEAN
ASSUME FaultsAssumption  == Faults \subseteq FaultKinds

None == "none"
ASSUME WorkersAssumption == None \notin Workers

Offsets == {c.off : c \in Chunks}
AllPositions == 0 .. (Len - 1)

\* A chunk by offset and size, with the placeholder a process holds when idle.
NoChunk == [off |-> 0, size |-> 0]
Listed  == [off : Offsets \cup {0}, size : 0 .. Len]

VARIABLES
  (* The session row and its intervals: durable, written by transactions.  *)
  recorded,   \* the interval set, as the positions it covers
  merged,     \* cache_merged, the merge frontier
  (* Storage. *)
  part,       \* positions present in the part file
  durable,    \* the ones SyncData has put beyond a power cut
  cache,      \* cache[o]: size of the chunk file named for offset o, 0: none
  (* The process. *)
  up,         \* serving; FALSE between a crash and the end of RecoverCache
  used,       \* the spool's byte counter
  rowLock,    \* who holds the session's row lock
  wpc, wchunk, wold,              \* PATCH handlers
  mpc, mchunk, mfront, mend, wake,\* the drain loop and its wake token
  gate, fin                       \* the writer gate and the finalizer

rowVars   == <<recorded, merged>>
storeVars == <<part, durable, cache>>
patchVars == <<wpc, wchunk, wold>>
mergeVars == <<mpc, mchunk, mfront, mend, wake>>
finVars   == <<gate, fin>>
vars == <<rowVars, storeVars, up, used, rowLock, patchVars, mergeVars, finVars>>

-----------------------------------------------------------------------------
(* Operators on interval sets and cache files.                             *)

Span(off, size) == off .. (off + size - 1)

\* IntervalSet.ContiguousPrefix: the resumable offset.
IsPrefix(S, n) == n \in 0 .. Len /\ n \notin S /\ 0 .. (n - 1) \subseteq S
ContiguousPrefix(S) == CHOOSE n \in 0 .. Len : IsPrefix(S, n)

Cached(files) == UNION {Span(o, files[o]) : o \in Offsets}

\* cacheSpool.measure: the bytes the session's chunk files occupy.
Measure(files) ==
  Cardinality({p \in Offsets \X AllPositions : p[2] < files[p[1]]})

Min2(a, b) == IF a <= b THEN a ELSE b

\* nextMergeable: a file starting at or below the frontier that either has
\* something below the commit point to contribute or is a remnant to delete.
Mergeable(files, frontier, committed) ==
  {o \in Offsets : /\ files[o] > 0
                   /\ o <= frontier
                   /\ committed > frontier \/ o + files[o] <= frontier}

\* The listing is sorted by offset and the first match is taken.
NextMergeable(files, frontier, committed) ==
  CHOOSE o \in Mergeable(files, frontier, committed) :
    \A q \in Mergeable(files, frontier, committed) : o <= q

-----------------------------------------------------------------------------
Init ==
  /\ recorded = {} /\ merged = 0
  /\ part = {} /\ durable = {} /\ cache = [o \in Offsets |-> 0]
  /\ up = TRUE /\ used = 0 /\ rowLock = None
  /\ wpc = [w \in Workers |-> "idle"]
  /\ wchunk = [w \in Workers |-> NoChunk]
  /\ wold = [w \in Workers |-> 0]
  /\ mpc = "wait" /\ mchunk = NoChunk /\ mfront = 0 /\ mend = 0 /\ wake = FALSE
  /\ gate = "open" /\ fin = "idle"

-----------------------------------------------------------------------------
(* PatchAt on a cached session.                                            *)

\* lockChunk, then the first critical section: the session receives, the
\* offset is allowed, and admitWriter finds the gate open.
PatchAdmit(w, c) ==
  /\ up /\ gate = "open" /\ rowLock = None
  /\ wpc[w] = "idle"
  /\ used \in (-UsedBound) .. UsedBound
  /\ \A v \in Workers : wpc[v] # "idle" => wchunk[v].off # c.off
  /\ RandomAccess \/ c.off = ContiguousPrefix(recorded)
  /\ wpc' = [wpc EXCEPT ![w] = "staging"]
  /\ wchunk' = [wchunk EXCEPT ![w] = c]
  /\ UNCHANGED <<rowVars, storeVars, up, used, rowLock, wold, mergeVars,
                 finVars>>

\* waitForRoom lets the chunk in and stageCached writes it under a staging
\* name nobody else reads.
HasRoom(off) ==
  \/ used < Budget
  \/ /\ ContiguousPrefix(recorded) <= merged
     /\ off <= ContiguousPrefix(recorded)

PatchStage(w) ==
  /\ wpc[w] = "staging" /\ HasRoom(wchunk[w].off)
  /\ wpc' = [wpc EXCEPT ![w] = "staged"]
  /\ UNCHANGED <<rowVars, storeVars, up, used, rowLock, wchunk, wold,
                 mergeVars, finVars>>

\* Any refusal before the commit section: CacheFullError, a bad checksum, a
\* client that went away, a lease the closing gate has made invalid.
PatchRefuse(w) ==
  /\ wpc[w] \in {"staging", "staged"}
  /\ wpc' = [wpc EXCEPT ![w] = "idle"]
  /\ wchunk' = [wchunk EXCEPT ![w] = NoChunk]
  /\ UNCHANGED <<rowVars, storeVars, up, used, rowLock, wold, mergeVars,
                 finVars>>

\* The second critical section: row reloaded, lease still valid, and
\* commitCached reads the size of the file it is about to replace.
PatchLock(w) ==
  /\ wpc[w] = "staged" /\ gate = "open" /\ rowLock = None
  /\ rowLock' = w
  /\ wold' = [wold EXCEPT ![w] = cache[wchunk[w].off]]
  /\ wpc' = [wpc EXCEPT ![w] = "locked"]
  /\ UNCHANGED <<rowVars, storeVars, up, used, wchunk, mergeVars, finVars>>

\* Mutant: the replaced file's size is not taken off the counter.
MutRenameCountsTwice(w) ==
  /\ wpc[w] = "locked"
  /\ cache' = [cache EXCEPT ![wchunk[w].off] = wchunk[w].size]
  /\ used' = used + wchunk[w].size
  /\ wpc' = [wpc EXCEPT ![w] = "renamed"]
  /\ UNCHANGED <<rowVars, part, durable, up, rowLock, wchunk, wold,
                 mergeVars, finVars>>

\* commitCached renames the staged file over whatever has that offset.
PatchRename(w) ==
  /\ wpc[w] = "locked"
  /\ cache' = [cache EXCEPT ![wchunk[w].off] = wchunk[w].size]
  /\ used' = used + wchunk[w].size - wold[w]
  /\ wpc' = [wpc EXCEPT ![w] = "renamed"]
  /\ UNCHANGED <<rowVars, part, durable, up, rowLock, wchunk, wold,
                 mergeVars, finVars>>

\* The lease and both locks go; the handler is free for another request.
PatchLeave(w) ==
  /\ rowLock' = None
  /\ wpc' = [wpc EXCEPT ![w] = "idle"]
  /\ wchunk' = [wchunk EXCEPT ![w] = NoChunk]
  /\ wold' = [wold EXCEPT ![w] = 0]

\* commitRange, then the merger is nudged and the client is answered.
PatchRecord(w) ==
  /\ wpc[w] = "renamed"
  /\ recorded' = recorded \cup Span(wchunk[w].off, wchunk[w].size)
  /\ wake' = TRUE
  /\ PatchLeave(w)
  /\ UNCHANGED <<merged, storeVars, up, used, mpc, mchunk, mfront,
                 mend, finVars>>

\* The rename or the interval transaction fails; what was renamed stays.
PatchAbandon(w) ==
  /\ "io" \in Faults
  /\ wpc[w] \in {"locked", "renamed"}
  /\ PatchLeave(w)
  /\ UNCHANGED <<rowVars, storeVars, up, used, mergeVars, finVars>>

-----------------------------------------------------------------------------
(* mergeLoop and mergeStep.  The same steps run in the merger goroutine    *)
(* and, once that one has been stopped, inside Finalize's drainCache.      *)

MergeWake ==
  /\ up /\ mpc = "wait" /\ wake /\ fin \in {"idle", "closing"}
  /\ mpc' = "list" /\ wake' = FALSE
  /\ UNCHANGED <<rowVars, storeVars, up, used, rowLock, patchVars, mchunk,
                 mfront, mend, finVars>>

\* Leaving a step: forget the listing and either look again or stop.
MergeNext(pc) == mpc' = pc /\ mchunk' = NoChunk /\ mfront' = 0 /\ mend' = 0

\* The critical section at the top of mergeStep, and its choice.  Finding
\* nothing ends the round, or the drain if Finalize is running it.
MergeList ==
  /\ mpc = "list" /\ rowLock = None
  /\ LET committed == ContiguousPrefix(recorded)
         next == NextMergeable(cache, merged, committed)
     IN IF Mergeable(cache, merged, committed) = {}
        THEN /\ MergeNext("wait")
             /\ fin' = IF fin = "drain" THEN "drained" ELSE fin
        ELSE /\ mpc' = "copy"
             /\ mchunk' = [off |-> next, size |-> cache[next]]
             /\ mfront' = merged
             /\ mend' = Min2(next + cache[next], committed)
             /\ UNCHANGED fin
  /\ UNCHANGED <<rowVars, storeVars, up, used, rowLock, patchVars, wake, gate>>

\* copyIntoPart opens the file by name again, copies from the frontier on, and
\* at most StepMax positions of what the file holds now.
CopyEnd == Min2(Min2(mend, mfront + StepMax), mchunk.off + cache[mchunk.off])

MergeCopy ==
  /\ mpc = "copy"
  /\ IF mend > mfront
     THEN /\ CopyEnd > mfront
          /\ part' = part \cup (mfront .. (CopyEnd - 1))
          /\ mend' = CopyEnd
     ELSE UNCHANGED <<part, mend>>
  /\ mpc' = "sync"
  /\ UNCHANGED <<rowVars, durable, cache, up, used, rowLock,
                 patchVars, mchunk, mfront, wake, finVars>>

\* Mutant: the frontier is recorded without SyncData.
MutNoSync ==
  /\ mpc = "sync" /\ mpc' = "record"
  /\ UNCHANGED <<rowVars, storeVars, up, used, rowLock, patchVars,
                 mchunk, mfront, mend, wake, finVars>>

\* syncPart: SyncData on the part file.
MergeSync ==
  /\ mpc = "sync"
  /\ durable' = part /\ mpc' = "record"
  /\ UNCHANGED <<rowVars, part, cache, up, used, rowLock, patchVars,
                 mchunk, mfront, mend, wake, finVars>>

\* Mutants: the copied length is added to the frontier though the end is an
\* offset already; a file is deleted though its tail is not merged yet.
MutAddsEnd ==
  /\ mpc = "record"
  /\ merged' = merged + mend
  /\ MergeNext("list")
  /\ UNCHANGED <<recorded, storeVars, up, used, rowLock, patchVars, wake,
                 finVars>>

MutDropsTail ==
  /\ mpc = "record"
  /\ merged' = IF mend > mfront /\ mend > merged THEN mend ELSE merged
  /\ mpc' = "unlink"
  /\ UNCHANGED <<mchunk, mfront, mend, fin>>
  /\ UNCHANGED <<recorded, storeVars, up, used, rowLock, patchVars,
                 wake, gate>>

\* AdvanceUploadCacheMerged (cache_merged only ever grows here), and the
\* decision whether the file is used up.
MergeRecord ==
  /\ mpc = "record"
  /\ merged' = IF mend > mfront /\ mend > merged THEN mend ELSE merged
  /\ IF mend < mchunk.off + mchunk.size
     THEN /\ MergeNext(IF mend > mfront THEN "list" ELSE "wait")
          /\ fin' = IF fin = "drain" /\ mend <= mfront THEN "drained" ELSE fin
     ELSE /\ mpc' = "unlink"
          /\ UNCHANGED <<mchunk, mfront, mend, fin>>
  /\ UNCHANGED <<recorded, storeVars, up, used, rowLock, patchVars,
                 wake, gate>>

\* Mutant: the used-up file is left for the sweep, and counted as progress.
MutKeepsFile ==
  /\ mpc = "unlink"
  /\ MergeNext("list")
  /\ UNCHANGED <<rowVars, storeVars, up, used, rowLock, patchVars, wake,
                 finVars>>

\* The used-up file is unlinked by name; the counter gives back the size the
\* listing saw, a file that had already gone included.
MergeUnlink ==
  /\ mpc = "unlink"
  /\ cache' = [cache EXCEPT ![mchunk.off] = 0]
  /\ used' = used - mchunk.size
  /\ MergeNext("list")
  /\ UNCHANGED <<rowVars, part, durable, up, rowLock, patchVars,
                 wake, finVars>>

\* A file that refuses to go is logged, and the step still reports progress.
MergeUnlinkFails ==
  /\ mpc = "unlink" /\ "unlink" \in Faults
  /\ MergeNext("list")
  /\ UNCHANGED <<rowVars, storeVars, up, used, rowLock, patchVars, wake,
                 finVars>>

\* Mutant: drainCache logs a failed step and goes on as if it had drained.
MutIgnoresDrainError ==
  /\ mpc \in {"list", "copy", "sync", "record"}
  /\ "io" \in Faults \/ fin = "closing"
  /\ MergeNext("wait")
  /\ fin' = IF fin = "drain" THEN "drained" ELSE fin
  /\ UNCHANGED <<rowVars, storeVars, up, used, rowLock, patchVars, wake, gate>>

\* A step ends in an error: the copy moved nothing, a call failed, or the
\* context was cancelled by stopMerger.  The merger waits for the next chunk;
\* inside Finalize the error is Finalize's answer, and the gate reopens.
MergeFail ==
  /\ \/ /\ mpc = "copy" /\ mend > mfront /\ CopyEnd <= mfront
     \/ /\ mpc \in {"list", "copy", "sync", "record"}
        /\ "io" \in Faults \/ fin = "closing"
  /\ MergeNext("wait")
  /\ IF fin = "drain" THEN fin' = "idle" /\ gate' = "open"
                      ELSE UNCHANGED finVars
  /\ UNCHANGED <<rowVars, storeVars, up, used, rowLock, patchVars, wake>>

-----------------------------------------------------------------------------
(* Finalize, seen from the data plane.                                     *)

FinClose ==
  /\ up /\ fin = "idle" /\ gate = "open"
  /\ fin' = "closing" /\ gate' = "closed"
  /\ UNCHANGED <<rowVars, storeVars, up, used, rowLock, patchVars, mergeVars>>

\* closeWriters gives up with its caller's context.
FinCancel ==
  /\ fin = "closing"
  /\ fin' = "idle" /\ gate' = "open"
  /\ UNCHANGED <<rowVars, storeVars, up, used, rowLock, patchVars, mergeVars>>

\* Mutant: Finalize trusts the merger and skips drainCache.
MutSkipsDrain ==
  /\ fin = "closing" /\ mpc = "wait"
  /\ \A w \in Workers : wpc[w] = "idle"
  /\ fin' = "drained" /\ wake' = FALSE
  /\ UNCHANGED <<rowVars, storeVars, up, used, rowLock, patchVars, mpc, mchunk,
                 mfront, mend, gate>>

\* Every admitted body has left and stopMerger has seen the goroutine exit;
\* drainCache starts merging on its own.
FinDrain ==
  /\ fin = "closing" /\ mpc = "wait"
  /\ \A w \in Workers : wpc[w] = "idle"
  /\ fin' = "drain" /\ mpc' = "list" /\ wake' = FALSE
  /\ UNCHANGED <<rowVars, storeVars, up, used, rowLock, patchVars, mchunk,
                 mfront, mend, gate>>

\* The length is declared, the interval set is complete, the part is synced
\* and renamed onto the destination, the cache directory is removed.
FinPublish ==
  /\ fin = "drained" /\ rowLock = None
  /\ recorded = AllPositions
  /\ durable' = part
  /\ cache' = [o \in Offsets |-> 0] /\ used' = used - Measure(cache)
  /\ fin' = "done"
  /\ UNCHANGED <<rowVars, part, up, rowLock, patchVars, mergeVars, gate>>

\* A published session has no further steps.
Published == fin = "done" /\ UNCHANGED vars

\* IncompleteError, a precondition, the quota, a digest, an I/O error.
FinRefuse ==
  /\ fin = "drained"
  /\ fin' = "idle" /\ gate' = "open"
  /\ UNCHANGED <<rowVars, storeVars, up, used, rowLock, patchVars, mergeVars>>

-----------------------------------------------------------------------------
(* Stopping and starting again.                                            *)

\* What the process held is gone; keptFiles and keptPart say what storage
\* still has.
Stop(keptFiles, keptPart) ==
  /\ up /\ fin # "done"
  /\ up' = FALSE /\ used' = 0 /\ rowLock' = None
  /\ cache' = [o \in Offsets |-> IF o \in keptFiles THEN cache[o] ELSE 0]
  /\ part' = keptPart /\ durable' = durable
  /\ wpc' = [w \in Workers |-> "idle"]
  /\ wchunk' = [w \in Workers |-> NoChunk]
  /\ wold' = [w \in Workers |-> 0]
  /\ MergeNext("wait") /\ wake' = FALSE
  /\ gate' = "open" /\ fin' = "idle"
  /\ UNCHANGED rowVars

\* The process dies: files keep what was written to them.
Crash == "crash" \in Faults /\ Stop(Offsets, part)

\* The machine restarts with the recommended spool, a memory filesystem.
Reboot == /\ "reboot" \in Faults
          /\ \E lost \in SUBSET (part \ durable) : Stop({}, part \ lost)

\* The machine restarts with a spool on disk, where a rename that no
\* directory sync followed may be lost.
PowerLoss == /\ "powerloss" \in Faults
             /\ \E lost \in SUBSET (part \ durable), kept \in SUBSET Offsets :
                  Stop(kept, part \ lost)

\* Mutant: the counter is measured and the recorded set left as it was.
MutRecoversNothing ==
  /\ ~up
  /\ up' = TRUE /\ used' = Measure(cache)
  /\ UNCHANGED <<rowVars, storeVars, rowLock, patchVars, mergeVars, finVars>>

\* Mutant: only the files count as evidence, not what is below the frontier.
MutForgetsFrontier ==
  /\ ~up
  /\ recorded' = recorded \cap Cached(cache)
  /\ up' = TRUE /\ used' = Measure(cache)
  /\ UNCHANGED <<merged, storeVars, rowLock, patchVars, mergeVars, finVars>>

\* RecoverCache: the recorded set is cut down to what is below the frontier
\* or in a file, and the counter is measured.
Recover ==
  /\ ~up
  /\ recorded' = recorded \cap ((0 .. (merged - 1)) \cup Cached(cache))
  /\ up' = TRUE /\ used' = Measure(cache)
  /\ UNCHANGED <<merged, storeVars, rowLock, patchVars, mergeVars,
                 finVars>>

-----------------------------------------------------------------------------
Patch == \E w \in Workers :
           \/ \E c \in Chunks : PatchAdmit(w, c)
           \/ PatchStage(w) \/ PatchRefuse(w) \/ PatchLock(w)
           \/ PatchRename(w) \/ PatchRecord(w) \/ PatchAbandon(w)

Merge == \/ MergeWake \/ MergeList \/ MergeCopy \/ MergeSync
         \/ MergeRecord \/ MergeUnlink \/ MergeUnlinkFails \/ MergeFail

Finalize == \/ FinClose \/ FinCancel \/ FinDrain
            \/ FinPublish \/ FinRefuse \/ Published

Restart == Crash \/ Reboot \/ PowerLoss \/ Recover

Next == Patch \/ Merge \/ Finalize \/ Restart

Spec == Init /\ [][Next]_vars

\* The drain loop and the calls of a handler that got its body run on; when a
\* client sends, and whether Finalize is called, is nobody's promise.
Fairness ==
  /\ WF_vars(Merge)
  /\ \A w \in Workers : WF_vars(PatchLock(w) \/ PatchRename(w) \/ PatchRecord(w))
FairSpec == Spec /\ Fairness

-----------------------------------------------------------------------------
(* What has to hold.                                                       *)

TypeOK ==
  /\ recorded \subseteq AllPositions /\ merged \in 0 .. Len
  /\ part \subseteq AllPositions /\ durable \subseteq AllPositions
  /\ cache \in [Offsets -> 0 .. Len]
  /\ up \in BOOLEAN /\ used \in Int
  /\ rowLock \in Workers \cup {None}
  /\ wpc \in [Workers -> {"idle", "staging", "staged", "locked", "renamed"}]
  /\ wchunk \in [Workers -> Chunks \cup {NoChunk}]
  /\ wold \in [Workers -> 0 .. Len]
  /\ mpc \in {"wait", "list", "copy", "sync", "record", "unlink"}
  /\ mchunk \in Listed /\ mfront \in 0 .. Len /\ mend \in 0 .. Len
  /\ wake \in BOOLEAN
  /\ gate \in {"open", "closed"}
  /\ fin \in {"idle", "closing", "drain", "drained", "done"}

\* mergeStep: "No sequence here can lose a byte the client was told had
\* arrived."  Every position the session reports as received is below the
\* frontier or in a chunk file, whenever the server answers requests.
ClaimedBytesHeld ==
  up /\ fin # "done" => recorded \subseteq (0 .. (merged - 1)) \cup Cached(cache)

\* copy, sync, record: everything below the frontier is on the destination
\* disk, so RecoverCache may count it whatever the restart did to the spool.
FrontierDurable == 0 .. (merged - 1) \subseteq durable

\* "Nothing beyond the committed contiguous prefix is ever merged": the
\* frontier never overtakes what the row records, restarts included.
FrontierCommitted == 0 .. (merged - 1) \subseteq recorded

\* Finalize publishes no file with a hole in it.
PublishedComplete == fin = "done" => part = AllPositions

\* used "counts the bytes the spool holds, kept current by the writers and
\* the merger": exact whenever no handler is between its stat and its rename.
SpoolCounterExact ==
  up /\ (\A w \in Workers : wpc[w] # "locked") => used = Measure(cache)

\* "reporting it as such spins the loop": the drain loop comes to rest.
DrainSettles == []<>(mpc = "wait")

------------------------------------------------------------------------------
(* The instances TLC checks.  A position stands for a run of bytes no      *)
(* boundary cuts.                                                          *)

Chunk(o, n) == [off |-> o, size |-> n]

\* One size per offset, as a client that cuts the file once sends it, with an
\* overlap between the first two.
GridChunks == {Chunk(0, 2), Chunk(1, 2), Chunk(3, 1)}

\* Every cut of a short file: the client may resume with any chunk size.
AnyChunks == {Chunk(o, n) : o \in 0 .. (Len - 1), n \in 1 .. 2} \cap
             {c \in [off : 0 .. Len, size : 1 .. Len] : c.off + c.size <= Len}

\* A client that resends one offset with a smaller body.
RecutChunks == {Chunk(0, 2), Chunk(0, 1), Chunk(2, 1)}

GridFaults == {"io", "crash", "reboot", "powerloss", "unlink"}
SequentialFaults == {"io", "crash", "reboot"}
RecutFaults == {}

Symmetry == Permutations(Workers)
=============================================================================
