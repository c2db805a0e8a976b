------------------------------ MODULE MCStorage -----------------------------
(***************************************************************************)
(* The modules about stored files in one model: a behaviour lets one part  *)
(* run, the one in focus, and the others rest, so that the state space is  *)
(* the sum of the parts' and not their product.                            *)
(* What one part does to another it depends on is inside the parts         *)
(* themselves (the trash and its ledger, the search index and the watcher, *)
(* the chunk collections and the upload engine).                           *)
(***************************************************************************)
EXTENDS TransferTree, OperationQueue, FileTrash, DavLocks, NodeIds, ChangeFeed, DirRollups, SearchIndex, TLC

VARIABLES
    focus,   \* the part that runs in this behaviour
    dtRow, late, multipart, remote, booked, dtStep, dtSweep, stranded,   \* DirectTransfer
    ccSess, ccAlias, ccParts, ccReq, ccAdmit, ccFile, ccLost, ccMade, ccLeft,   \* ChunkCollection
    ucFile, ucQueue, ucSlot, ucRetry, ucSess, ucLeft,   \* UploadClient
    udNow, udRow, udPart, udCache, udTouched, udMu, udReq, udFin, udSw, udOn, udPast, udLeft   \* UploadDebris

dtVars == <<dtRow, late, multipart, remote, booked, dtStep, dtSweep, stranded>>
ccVars == <<ccSess, ccAlias, ccParts, ccReq, ccAdmit, ccFile, ccLost, ccMade, ccLeft>>
ucVars == <<ucFile, ucQueue, ucSlot, ucRetry, ucSess, ucLeft>>
udVars == <<udNow, udRow, udPart, udCache, udTouched, udMu, udReq, udFin, udSw, udOn, udPast,
            udLeft>>

(* Two transfers of one account, one of them with a checksum, over an      *)
(* object of two bytes; the quota takes both only once.                    *)
TransferIds == {"t1", "t2"}
TransferSize == [t \in TransferIds |-> IF t = "t1" THEN 3 ELSE 2]

(* A version to write, over nothing, a directory, a smaller or a larger    *)
(* file.                                                                   *)
VersionBytes == [v |-> 2, small |-> 1, big |-> 3, d |-> 1]
TreesBefore == {[x |-> "none", y |-> f] : f \in {"d", "small", "big"}}

(* A collection and a member of it; an exclusive lock with the default     *)
(* lease, one with a long lease below it, a shared one above.              *)
Collection == <<"a">>
Member == <<"a", "b">>
LockedPaths == {Collection, Member}
LocksAsked == {
    [user |-> "u1", path |-> Collection, infinite |-> TRUE, shared |-> FALSE, lease |-> 0],
    [user |-> "u2", path |-> Member, infinite |-> FALSE, shared |-> FALSE, lease |-> 9],
    [user |-> "u2", path |-> Collection, infinite |-> TRUE, shared |-> TRUE, lease |-> 1]}
WritesSent == {
    [op |-> "put", user |-> "u2", path |-> Member, to |-> Member],
    [op |-> "delete", user |-> "u1", path |-> Collection, to |-> Collection],
    [op |-> "move", user |-> "u1", path |-> Member, to |-> Collection]}

(* Ids that collide: a and b at the first attempts, c with both later.     *)
IdentSet == {"a", "b", "c"}
DeriveTable ==
    [i \in IdentSet |-> [k \in 0..2 |->
        CASE i = "a" -> 1 + k
          [] i = "b" -> IF k = 2 THEN 5 ELSE 1 + k
          [] i = "c" -> 2 + 2 * k]]

(* One directory below the root of its share.                              *)
Above == [x \in {"d"} |-> "root"]

Dt == INSTANCE DirectTransfer
        WITH Transfers <- TransferIds, Handlers <- {"h1", "h2"}, Size <- TransferSize,
             Checked <- {"t1"}, PriorSize <- 2, PartSize <- 2, Cap <- 6
Cc == INSTANCE ChunkCollection
        WITH CcUsers <- {"u1"}, Tids <- {"t1", "t2"}, CcReqs <- {"q1", "q2"}, CcBudget <- 4,
             Chunks <- {1}, SessionsPerUser <- 2, CcMaxSess <- 3, CcMaxFaults <- 1
Uc == INSTANCE UploadClient
        WITH Size <- 3, StartChunk <- 2, ChunkMin <- 1, MaxInflight <- 2, MaxRetries <- 1,
             UcBudget <- [faults |-> 2, commands |-> 1]
Ud == INSTANCE UploadDebris
        WITH UdIds <- {1, 2}, DirOf <- <<"a", "b">>, UdReqs <- {"c1", "c2"}, Lengths <- {-1, 1},
             Deferred <- -1, SessionsPerUser <- 1, ReservedCap <- 1, TTL <- 1,
             UdMaxClock <- 2, UdBudget <- [events |-> 2, sweeps |-> 1]

Parts == {"dt", "tt", "op", "ft", "dl", "cf", "dr", "se", "ni", "cc", "uc", "ud"}

(* Every part starts as its own module says; a part out of focus stays in  *)
(* one of its initial states.                                              *)
Init ==
    /\ focus \in Parts
    /\ Dt!DtInit /\ (focus # "dt" => remote = "prior")
    /\ TtInit /\ (focus # "tt" => tt.had = {"f"} /\ tree["dst"] = Nothing)
    /\ OpInit
    /\ FtInit /\ (focus # "ft" => live.y = "d")
    /\ DlInit
    /\ CfInit
    /\ DrInit
    /\ SeInit /\ (focus # "se" => seWatch /\ seRecovery)
    /\ NiInit
    /\ Cc!CcInit
    /\ Uc!UcInit
    /\ Ud!UdInit

(* Only the part in focus moves.                                           *)
Only(part) ==
    /\ UNCHANGED focus
    /\ IF part = "dt" THEN TRUE ELSE UNCHANGED dtVars
    /\ IF part = "tt" THEN TRUE ELSE UNCHANGED ttVars
    /\ IF part = "op" THEN TRUE ELSE UNCHANGED opVars
    /\ IF part = "ft" THEN TRUE ELSE UNCHANGED ftVars
    /\ IF part = "dl" THEN TRUE ELSE UNCHANGED dlVars
    /\ IF part = "cf" THEN TRUE ELSE UNCHANGED cfVars
    /\ IF part = "dr" THEN TRUE ELSE UNCHANGED drVars
    /\ IF part = "se" THEN TRUE ELSE UNCHANGED seVars
    /\ IF part = "ni" THEN TRUE ELSE UNCHANGED niVars
    /\ IF part = "cc" THEN TRUE ELSE UNCHANGED ccVars
    /\ IF part = "uc" THEN TRUE ELSE UNCHANGED ucVars
    /\ IF part = "ud" THEN TRUE ELSE UNCHANGED udVars

DirectTransferStep == focus = "dt" /\ Dt!DtNext /\ Only("dt")
TransferTreeStep == focus = "tt" /\ TtNext /\ Only("tt")
OperationQueueStep == focus = "op" /\ OpNext /\ Only("op")
FileTrashStep == focus = "ft" /\ FtNext /\ Only("ft")
DavLocksStep == focus = "dl" /\ DlNext /\ Only("dl")
ChangeFeedStep == focus = "cf" /\ CfNext /\ Only("cf")
DirRollupsStep == focus = "dr" /\ DrNext /\ Only("dr")
SearchIndexStep == focus = "se" /\ SeNext /\ Only("se")
NodeIdsStep == focus = "ni" /\ NiNext /\ Only("ni")
ChunkCollectionStep == focus = "cc" /\ Cc!CcNext /\ Only("cc")
UploadClientStep == focus = "uc" /\ Uc!UcNext /\ Only("uc")
UploadDebrisStep == focus = "ud" /\ Ud!UdNext /\ Only("ud")

Next ==
    \/ DirectTransferStep
    \/ TransferTreeStep
    \/ OperationQueueStep
    \/ FileTrashStep
    \/ DavLocksStep
    \/ ChangeFeedStep
    \/ DirRollupsStep
    \/ SearchIndexStep
    \/ NodeIdsStep
    \/ ChunkCollectionStep
    \/ UploadClientStep
    \/ UploadDebrisStep

vars == <<focus, dtVars, ttVars, opVars, ftVars, dlVars, cfVars, drVars, seVars, niVars, ccVars,
          ucVars, udVars>>

Spec == Init /\ [][Next]_vars

(***************************** Properties **********************************)

(* Every part keeps the shape its module declares.                         *)
StorageTypeOK ==
    /\ (focus = "dt" => Dt!DtTypeOK)
    /\ (focus = "tt" => TtTypeOK)
    /\ (focus = "op" => OpTypeOK)
    /\ (focus = "ft" => FtTypeOK)
    /\ (focus = "dl" => DlTypeOK)
    /\ (focus = "cf" => CfTypeOK)
    /\ (focus = "dr" => DrTypeOK)
    /\ (focus = "se" => SeTypeOK)
    /\ (focus = "ni" => NiTypeOK)
    /\ (focus = "cc" => Cc!CcTypeOK)
    /\ (focus = "uc" => Uc!UcTypeOK)
    /\ (focus = "ud" => Ud!UdTypeOK)

(* No step of a transfer, a copy job, a locked write or a rebuild of the    *)
(* cache loses what somebody stored or was told. A tree being moved or      *)
(* copied is whole under one of its names, and a plain error means nothing  *)
(* was left hidden (TransferTree). A finished job says what happened, and a *)
(* running row has its worker (OperationQueue). A write does not land under *)
(* another account's lock that stood when it was checked (DavLocks). An id  *)
(* names one file and stays its id when the cache is rebuilt (NodeIds).     *)
NothingLost ==
    /\ (focus = "tt" => SourceKept)
    /\ (focus = "tt" => PlainErrorRestores)
    /\ (focus = "op" => HonestOutcome)
    /\ (focus = "op" => RunningIsOwned)
    /\ (focus = "dl" => WritesRespectLocks)
    /\ (focus = "ni" => IdsUnique)
    /\ (focus = "ni" => IdsStable)

(* What is written down agrees with what is there. The account's usage is   *)
(* what the rows and the disk account for: a direct transfer's booking      *)
(* leaves the books once, with its row, and a row is complete only for an   *)
(* object that was assembled (DirectTransfer); a stream, a replacement, a   *)
(* delete to the trash, a restore and a purge each move the ledger by what  *)
(* they move on disk (FileTrash); concurrent MKCOLs promise no more         *)
(* sessions than the limit, a transfer id leads to its account's own live   *)
(* session and no session is left that nothing addresses (ChunkCollection); *)
(* concurrent creations promise no more than the limits either, and what a  *)
(* crash leaves of them a sweep finds and collects, and nothing a session   *)
(* can still receive into (UploadDebris); a file the browser shows as       *)
(* uploaded is published, its chunk plan covering what the server has not   *)
(* got (UploadClient).                                                      *)
LedgersExact ==
    /\ (focus = "dt" => Dt!LedgerExact)
    /\ (focus = "dt" => Dt!CompleteIsAssembled)
    /\ (focus = "ft" => LedgerMatchesDisk)
    /\ (focus = "cc" => Cc!AdmissionBound)
    /\ (focus = "cc" => Cc!AliasLeadsToOwn)
    /\ (focus = "cc" => Cc!NoStrandedSession)
    /\ (focus = "uc" => Uc!DoneIsPublished)
    /\ (focus = "uc" => Uc!PlanCovers)
    /\ (focus = "ud" => Ud!AdmittedWithin)
    /\ (focus = "ud" => Ud!OrphanFindable)
    /\ (focus = "ud" => Ud!CollectsDebt)
    /\ (focus = "ud" => Ud!SweepSparesLive)

(* A change on disk reaches everybody who looks, in every order of the      *)
(* watcher, its readers and the requests: an open socket is told of a       *)
(* subscribed directory and holds exactly its pins (ChangeFeed), a rollup   *)
(* that is served counts every marked change (DirRollups), and a search     *)
(* misses no file silently (SearchIndex).                                   *)
ChangesReach ==
    /\ (focus = "cf" => NoticeInFlight)
    /\ (focus = "cf" => PinsExact)
    /\ (focus = "dr" => RollupFresh)
    /\ (focus = "se" => SearchFindsAll)

(* What is there is not replaced: a restore from the trash leaves a newer   *)
(* file at its path alone, whatever was written between its look and its    *)
(* rename (RestoreRename), and a finished job stays as it ended, but for a  *)
(* StartCopy that races a stop (FinishOpLease, InterruptOp).                *)
NeverReplaced == RestoreKeepsNewer /\ FinishedStays
=============================================================================
