------------------------------ MODULE FileTrash ------------------------------
(***************************************************************************)
(* Writing, renaming, deleting, restoring and purging entries of a share   *)
(* (internal/files/write.go, trash.go) and the byte ledger of the account  *)
(* that does it (internal/files/quota.go, internal/db/state/quota.go).     *)
(* Requests run concurrently: what one read of the tree may be stale when  *)
(* it acts on it.  Every filesystem call and every ledger update is        *)
(* atomic.  An entry's content is a version; permissions are left out.     *)
(***************************************************************************)
EXTENDS Integers, FiniteSets, FiniteSetsExt

CONSTANTS
    Paths,          \* names in one directory of the share
    Requests,       \* concurrent requests
    Writes,         \* versions a write may store, each at most once
    Folder,         \* a version that is a directory tree
    FirstTrees,     \* what there may be at the start: a version, or none, at each path
    Bytes,          \* Bytes[v]: size of version v
    StreamStep,     \* streamReserveStep
    QuotaCap        \* quota_bytes of the account

VARIABLES
    live,           \* the version at each path, or NoEntry
    trash,          \* trashed entries: the version and the path it had
    used,           \* usage_bytes
    ftReq,          \* the requests in flight
    unwritten,      \* versions not written yet
    mixed           \* two requests overlapped, or one did not end

ftVars == <<live, trash, used, ftReq, unwritten, mixed>>

NoEntry == "none"
Versions == DOMAIN Bytes
SizeAt(v) == IF v = NoEntry THEN 0 ELSE Bytes[v]
Larger(a, b) == IF a > b THEN a ELSE b

\* The entry whose name carries the id; the path it had is part of the name.
findTrashEntry(e) == e \in trash

FtInit ==
    /\ live \in FirstTrees
    /\ trash = {}
    /\ used = MapThenSumSet(LAMBDA p : SizeAt(live[p]), Paths)
    /\ ftReq = [h \in Requests |-> [at |-> "idle"]]
    /\ unwritten = Writes
    /\ mixed = FALSE

Begin(h, r) ==
    /\ ftReq[h].at = "idle"
    /\ ftReq' = [ftReq EXCEPT ![h] = r]
    /\ mixed' = (mixed \/ \E o \in Requests : ftReq[o].at # "idle")
Go(h, s) == ftReq' = [ftReq EXCEPT ![h].at = s] /\ UNCHANGED mixed
Reply(h) == ftReq' = [ftReq EXCEPT ![h] = [at |-> "idle"]] /\ UNCHANGED mixed

------------------------------------------------------------------------------
(* The ledger.  A credit is clamped at zero; a charge after the fact is    *)
(* best effort.                                                            *)

Reserve(n) == used + n <= QuotaCap /\ used' = used + n
MutRelease(n) == used' = used - n
Release(n) == used' = IF used < n THEN 0 ELSE used - n

------------------------------------------------------------------------------
(* WriteStream                                                             *)

(* prepareWrite: one stat, whose size is what the write will be charged    *)
(* against.                                                                *)
prepareWrite(h, p, v) ==
    /\ v \in unwritten /\ live[p] # Folder
    /\ Begin(h, [at |-> "stream", path |-> p, ver |-> v, old |-> SizeAt(live[p]),
                 sent |-> 0, hold |-> 0])
    /\ unwritten' = unwritten \ {v}
    /\ UNCHANGED <<live, trash, used>>

(* reserveGrowth: growth is booked before the bytes are written, a step    *)
(* ahead when the cap leaves room for one.                                 *)
reserveGrowth(h) ==
    LET r == ftReq[h]
        need == r.sent + 1 - r.old - r.hold
        ahead == Larger(need, StreamStep)
        book(n) == /\ Reserve(n)
                   /\ ftReq' = [ftReq EXCEPT ![h].sent = @ + 1, ![h].hold = @ + n]
    IN  /\ r.at = "stream" /\ r.sent < Bytes[r.ver]
        /\ IF need <= 0
           THEN ftReq' = [ftReq EXCEPT ![h].sent = @ + 1] /\ UNCHANGED used
           ELSE IF used + ahead <= QuotaCap THEN book(ahead)
           ELSE IF used + need <= QuotaCap THEN book(need)
           ELSE ftReq' = [ftReq EXCEPT ![h].at = "fail"] /\ UNCHANGED used
        /\ UNCHANGED <<live, trash, unwritten, mixed>>

(* The staged file's own size settles the hold before publication.         *)
Sized(h) ==
    LET r == ftReq[h]
        keep == Larger(Bytes[r.ver] - r.old, 0)
    IN  /\ r.at = "stream" /\ r.sent = Bytes[r.ver]
        /\ Release(r.hold - keep)
        /\ ftReq' = [ftReq EXCEPT ![h].at = "publish", ![h].hold = keep]
        /\ UNCHANGED <<live, trash, unwritten, mixed>>

BodyFails(h) ==
    /\ ftReq[h].at = "stream"
    /\ Go(h, "fail")
    /\ UNCHANGED <<live, trash, used, unwritten>>

WriteDurable(h) ==
    LET r == ftReq[h]
    IN  /\ r.at = "publish"
        /\ IF live[r.path] = Folder
           THEN Go(h, "fail") /\ UNCHANGED live
           ELSE live' = [live EXCEPT ![r.path] = r.ver] /\ Go(h, "settle")
        /\ UNCHANGED <<trash, used, unwritten>>

settleQuota(h) ==
    LET r == ftReq[h]
    IN  /\ r.at = "settle"
        /\ Release(Larger(r.old - Bytes[r.ver], 0))
        /\ Reply(h)
        /\ UNCHANGED <<live, trash, unwritten>>

releaseQuota(h) ==
    /\ ftReq[h].at = "fail"
    /\ Release(ftReq[h].hold)
    /\ Reply(h)
    /\ UNCHANGED <<live, trash, unwritten>>

------------------------------------------------------------------------------
(* Rename within the directory, atomic and without replacing               *)

RenameEntry(p, q) ==
    /\ live[p] # NoEntry /\ live[q] = NoEntry
    /\ live' = [live EXCEPT ![p] = NoEntry, ![q] = live[p]]
    /\ mixed' = (mixed \/ \E o \in Requests : ftReq[o].at # "idle")
    /\ UNCHANGED <<trash, used, ftReq, unwritten>>

------------------------------------------------------------------------------
(* Delete                                                                  *)

DeleteEntry(h, p, permanent) ==
    /\ live[p] # NoEntry
    /\ Begin(h, [at |-> IF permanent THEN "unlink" ELSE "trash", path |-> p,
                 size |-> Bytes[live[p]], dir |-> live[p] = Folder])
    /\ UNCHANGED <<live, trash, used, unwritten>>

MutTrashCredits(h) ==
    LET r == ftReq[h]
    IN  /\ r.at = "trash" /\ live[r.path] # NoEntry
        /\ trash' = trash \cup {[ver |-> live[r.path], path |-> r.path]}
        /\ live' = [live EXCEPT ![r.path] = NoEntry]
        /\ Go(h, "credit")
        /\ UNCHANGED <<used, unwritten>>

(* The rename takes whatever is at the path by now, under a new id.        *)
trashMove(h) ==
    LET r == ftReq[h]
    IN  /\ r.at = "trash"
        /\ IF live[r.path] = NoEntry THEN UNCHANGED <<live, trash>>
           ELSE /\ trash' = trash \cup {[ver |-> live[r.path], path |-> r.path]}
                /\ live' = [live EXCEPT ![r.path] = NoEntry]
        /\ Reply(h)
        /\ UNCHANGED <<used, unwritten>>

(* A file is unlinked whatever it is by now and credited at the size the   *)
(* stat gave; a directory was measured and is then emptied.                *)
deleteResolvedEntry(h) ==
    LET r == ftReq[h]
    IN  /\ r.at = "unlink"
        /\ IF live[r.path] = NoEntry \/ (live[r.path] = Folder) # r.dir
           THEN Reply(h) /\ UNCHANGED live
           ELSE live' = [live EXCEPT ![r.path] = NoEntry] /\ Go(h, "credit")
        /\ UNCHANGED <<trash, used, unwritten>>

chargeQuota(h) ==
    /\ ftReq[h].at = "credit"
    /\ Release(ftReq[h].size)
    /\ Reply(h)
    /\ UNCHANGED <<live, trash, unwritten>>

------------------------------------------------------------------------------
(* TrashRestore and TrashPurge of one entry                                *)

TrashRestore(h, e) ==
    /\ findTrashEntry(e)
    /\ live[e.path] = NoEntry
    /\ Begin(h, [at |-> "restore", entry |-> e])
    /\ UNCHANGED <<live, trash, used, unwritten>>

MutRestoreReplaces(h) ==
    LET e == ftReq[h].entry
    IN  /\ ftReq[h].at = "restore"
        /\ IF e \in trash
           THEN live' = [live EXCEPT ![e.path] = e.ver] /\ trash' = trash \ {e}
           ELSE UNCHANGED <<live, trash>>
        /\ Reply(h)
        /\ UNCHANGED <<used, unwritten>>

RestoreRename(h) ==
    LET e == ftReq[h].entry
    IN  /\ ftReq[h].at = "restore"
        /\ IF e \in trash /\ live[e.path] = NoEntry
           THEN live' = [live EXCEPT ![e.path] = e.ver] /\ trash' = trash \ {e}
           ELSE UNCHANGED <<live, trash>>
        /\ Reply(h)
        /\ UNCHANGED <<used, unwritten>>

TrashPurge(h, e) ==
    /\ findTrashEntry(e)
    /\ Begin(h, [at |-> "purge", entry |-> e, size |-> Bytes[e.ver]])
    /\ UNCHANGED <<live, trash, used, unwritten>>

(* A directory that is gone by now counts as freed all the same.           *)
PurgeDelete(h) ==
    LET e == ftReq[h].entry
    IN  /\ ftReq[h].at = "purge"
        /\ trash' = trash \ {e}
        /\ IF e \in trash \/ e.ver = Folder THEN Go(h, "credit") ELSE Reply(h)
        /\ UNCHANGED <<live, used, unwritten>>

(* The process ends; what the requests had booked stays booked.            *)
ProcessEnds ==
    /\ \E h \in Requests : ftReq[h].at # "idle"
    /\ ftReq' = [h \in Requests |-> [at |-> "idle"]]
    /\ mixed' = TRUE
    /\ UNCHANGED <<live, trash, used, unwritten>>

FtNext ==
    \/ \E h \in Requests :
        \/ reserveGrowth(h) \/ Sized(h) \/ BodyFails(h) \/ WriteDurable(h) \/ settleQuota(h)
        \/ releaseQuota(h)
        \/ trashMove(h) \/ deleteResolvedEntry(h) \/ chargeQuota(h)
        \/ RestoreRename(h) \/ PurgeDelete(h)
        \/ \E p \in Paths, v \in Writes : prepareWrite(h, p, v)
        \/ \E p \in Paths, permanent \in BOOLEAN : DeleteEntry(h, p, permanent)
        \/ \E e \in trash : TrashRestore(h, e) \/ TrashPurge(h, e)
    \/ \E p, q \in Paths : RenameEntry(p, q)
    \/ ProcessEnds

FtSpec == FtInit /\ [][FtNext]_ftVars

------------------------------------------------------------------------------
FtTypeOK ==
    /\ live \in [Paths -> Versions \cup {NoEntry}]
    /\ trash \subseteq [ver : Versions, path : Paths]
    /\ used \in 0 .. QuotaCap

Stored == MapThenSumSet(LAMBDA p : SizeAt(live[p]), Paths)
          + MapThenSumSet(LAMBDA e : Bytes[e.ver], trash)

(* As long as requests do not overlap and none is cut short, the account   *)
(* is charged for exactly what it stores, trash included: a stream booked  *)
(* ahead, a replacement that grows or shrinks, a delete to the trash, a    *)
(* restore and a purge each move the ledger by what they move on disk.     *)
LedgerMatchesDisk ==
    ~mixed /\ (\A h \in Requests : ftReq[h].at = "idle") => used = Stored

(* A restore never destroys newer data: whatever a request does, a version *)
(* leaves the share only by a write that replaces it, a permanent delete   *)
(* or a purge, never because an entry came back from the trash to a path   *)
(* taken since it was checked.                                             *)
Kept(v) == (\E p \in Paths : live[p] = v) \/ (\E e \in trash : e.ver = v)

RestoreKeepsNewer ==
    [][\A h \in Requests :
         ftReq[h].at = "restore" /\ ftReq'[h].at = "idle" /\ mixed' = mixed
            => \A v \in Versions : Kept(v) => Kept(v)']_ftVars
=============================================================================
