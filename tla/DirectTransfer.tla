--------------------------- MODULE DirectTransfer ---------------------------
(***************************************************************************)
(* Multipart transfers that go from the client straight to an object       *)
(* store (internal/uploads/directtransfer.go) and their durable            *)
(* reservations (internal/db/state/direct_transfer.go).  All transfers of  *)
(* the model belong to one account and aim at one path of one share, the   *)
(* case in which they get into each other's way.  The provider is outside  *)
(* the repository: it keeps open multipart uploads and one object at the   *)
(* key, and may do what it is asked and still report a failure.            *)
(***************************************************************************)
EXTENDS Integers, FiniteSets, FiniteSetsExt

CONSTANTS
    Transfers,   \* transfer ids newID may mint
    Handlers,    \* concurrent requests
    Size,        \* Size[t]: the declared size of transfer t
    Checked,     \* the transfers declared with a checksum
    PriorSize,   \* what the account already uses; its object, when there is one
    PartSize,    \* PartSize: bytes in every part but the last
    Cap          \* the account's quota

VARIABLES
    dtRow,       \* direct_transfer: state and the object Create saw, by id
    late,        \* ids whose expires_ns has passed
    multipart,   \* the provider's multipart uploads and their parts
    remote,      \* whose bytes are the object: an id, "prior" or "none"
    booked,      \* usage_bytes of the account
    dtStep,      \* what each handler is about to do
    dtSweep,     \* what the sweep is about to do
    stranded     \* bytes booked by requests that ended before they settled

dtVars == <<dtRow, late, multipart, remote, booked, dtStep, dtSweep, stranded>>

Absent == [state |-> "absent", prior |-> "none"]
RowStates == {"absent", "pending", "completing", "complete", "cancelled", "expired"}
Objects == Transfers \cup {"prior", "none"}
Idle == [at |-> "idle"]
At(pc, t) == [at |-> pc, id |-> t]

SizeOf(o) == IF o = "none" THEN 0 ELSE IF o = "prior" THEN PriorSize ELSE Size[o]
Least(a, b) == IF a < b THEN a ELSE b
Credit(n) == IF booked < n THEN 0 ELSE booked - n

DirectPartSizeFor(total, part) ==
    LET start == (part - 1) * PartSize
    IN  IF part = 0 \/ start >= total THEN 0
        ELSE Least(total - start, PartSize)

Parts(t) == {p \in 1 .. Size[t] : DirectPartSizeFor(Size[t], p) > 0}

(* What the client lists is compared with what the provider holds.         *)
validateParts(t, client) ==
    /\ client # {}
    /\ client = multipart[t].parts
    /\ MapThenSumSet(LAMBDA p : DirectPartSizeFor(Size[t], p), client) = Size[t]

MutMatchesFound(t) == remote # "none"

(* A checksum tells a transfer's own object from any other; without one    *)
(* the size is all there is to compare.                                    *)
metadataMatches(t) ==
    /\ remote # "none"
    /\ SizeOf(remote) = Size[t]
    /\ t \in Checked => remote = t

RevalidateDestination(t) == remote = dtRow[t].prior

publishRelease(t) == Least(Size[t], SizeOf(dtRow[t].prior))

DtInit ==
    /\ dtRow = [t \in Transfers |-> Absent]
    /\ late = {}
    /\ multipart = [t \in Transfers |-> [state |-> "none", parts |-> {}]]
    /\ remote \in {"none", "prior"}
    /\ booked = PriorSize
    /\ dtStep = [h \in Handlers |-> Idle]
    /\ dtSweep = Idle
    /\ stranded = 0

SetRow(t, s) == dtRow' = [dtRow EXCEPT ![t].state = s]
Goto(h, s) == dtStep' = [dtStep EXCEPT ![h] = s]
Return(h) == Goto(h, Idle)

------------------------------------------------------------------------------
(* Create: the provider's upload first, then the reservation, then the row *)

CreateBegin(h, t) ==
    /\ dtStep[h] = Idle
    /\ multipart[t].state = "none"
    /\ multipart' = [multipart EXCEPT ![t].state = "open"]
    /\ Goto(h, [at |-> "reserve", id |-> t, prior |-> remote])
    /\ UNCHANGED <<dtRow, late, remote, booked, dtSweep, stranded>>

CreateReserve(h, t) ==
    /\ dtStep[h].at = "reserve" /\ dtStep[h].id = t
    /\ IF booked + Size[t] <= Cap
       THEN /\ booked' = booked + Size[t]
            /\ Goto(h, [dtStep[h] EXCEPT !.at = "row"])
            /\ UNCHANGED multipart
       ELSE /\ multipart' = [multipart EXCEPT ![t].state = "aborted"]
            /\ Return(h)
            /\ UNCHANGED booked
    /\ UNCHANGED <<dtRow, late, remote, dtSweep, stranded>>

CreateDirectTransfer(t, prior) ==
    dtRow' = [dtRow EXCEPT ![t] = [state |-> "pending", prior |-> prior]]

CreateRow(h, t) ==
    /\ dtStep[h].at = "row" /\ dtStep[h].id = t
    /\ \/ /\ CreateDirectTransfer(t, dtStep[h].prior)
          /\ UNCHANGED <<multipart, booked>>
          /\ UNCHANGED stranded
       \/ /\ multipart' = [multipart EXCEPT ![t].state = "aborted"]
          /\ \/ booked' = Credit(Size[t]) /\ UNCHANGED stranded
             \/ stranded' = stranded + Size[t] /\ UNCHANGED booked
          /\ UNCHANGED dtRow
    /\ Return(h)
    /\ UNCHANGED <<late, remote, dtSweep>>

(* PresignPart hands out a URL while the row is pending and in time; the   *)
(* client then puts the part straight into the provider.                   *)
PresignPart(t, p) ==
    /\ dtRow[t].state = "pending" /\ t \notin late
    /\ multipart[t].state = "open"
    /\ p \in Parts(t) \ multipart[t].parts
    /\ multipart' = [multipart EXCEPT ![t].parts = @ \cup {p}]
    /\ UNCHANGED <<dtRow, late, remote, booked, dtStep, dtSweep, stranded>>

------------------------------------------------------------------------------
(* Complete                                                                *)

(* The row is read, the parts compared and the destination looked at; an   *)
(* already completing row goes to reconcileCompletion instead.             *)
Complete(h, t) ==
    /\ dtStep[h] = Idle
    /\ t \notin late
    /\ \/ /\ dtRow[t].state = "pending"
          /\ multipart[t].state = "open"
          /\ \E client \in SUBSET Parts(t) : validateParts(t, client)
          /\ RevalidateDestination(t)
          /\ Goto(h, At("begin", t))
       \/ /\ dtRow[t].state = "completing"
          /\ Goto(h, At("reconcile", t))
    /\ UNCHANGED <<dtRow, late, multipart, remote, booked, dtSweep, stranded>>

BeginDirectTransferCompletion(h, t) ==
    /\ dtStep[h] = At("begin", t)
    /\ IF /\ dtRow[t].state = "pending" /\ t \notin late
          /\ \A o \in Transfers : dtRow[o].state # "completing"
       THEN SetRow(t, "completing") /\ Goto(h, At("revalidate", t))
       ELSE Return(h) /\ UNCHANGED dtRow
    /\ UNCHANGED <<late, multipart, remote, booked, dtSweep, stranded>>

ResetRow(t) ==
    dtRow' = [dtRow EXCEPT ![t].state = IF @ = "completing" THEN "pending" ELSE @]

Revalidate(h, t) ==
    /\ dtStep[h] = At("revalidate", t)
    /\ IF RevalidateDestination(t)
       THEN Goto(h, At("assemble", t)) /\ UNCHANGED dtRow
       ELSE ResetRow(t) /\ Return(h)
    /\ UNCHANGED <<late, multipart, remote, booked, dtSweep, stranded>>

(* CompleteMultipart may be refused, may work, and may work and be         *)
(* reported as a failure; only the first leaves the object alone.          *)
CompleteMultipart(h, t) ==
    /\ dtStep[h] = At("assemble", t)
    /\ \/ /\ multipart[t].state = "open"
          /\ multipart' = [multipart EXCEPT ![t].state = "done"]
          /\ remote' = t
          /\ \/ Goto(h, At("metadata", t))
             \/ Goto(h, At("doubt", t))
       \/ /\ Goto(h, At("doubt", t))
          /\ UNCHANGED <<multipart, remote>>
    /\ UNCHANGED <<dtRow, late, booked, dtSweep, stranded>>

(* After a reported failure the object itself decides; one that is not     *)
(* there makes the row pending again, one that does not match leaves it    *)
(* completing.                                                             *)
Doubt(h, t) ==
    /\ dtStep[h] = At("doubt", t)
    /\ IF remote = "none"
       THEN ResetRow(t) /\ Return(h)
       ELSE /\ IF metadataMatches(t) THEN Goto(h, At("metadata", t)) ELSE Return(h)
            /\ UNCHANGED dtRow
    /\ UNCHANGED <<late, multipart, remote, booked, dtSweep, stranded>>

Metadata(h, t) ==
    /\ dtStep[h] = At("metadata", t)
    /\ IF metadataMatches(t) THEN Goto(h, At("publish", t)) ELSE Return(h)
    /\ UNCHANGED <<dtRow, late, multipart, remote, booked, dtSweep, stranded>>

reconcileCompletion(h, t) ==
    /\ dtStep[h] = At("reconcile", t)
    /\ IF remote = "none"
       THEN ResetRow(t) /\ Return(h)
       ELSE /\ IF metadataMatches(t) THEN Goto(h, At("publish", t)) ELSE Return(h)
            /\ UNCHANGED dtRow
    /\ UNCHANGED <<late, multipart, remote, booked, dtSweep, stranded>>

(* The provider does not answer: the row stays completing.                 *)
Unanswered(h) ==
    /\ dtStep[h].at \in {"doubt", "metadata", "reconcile"}
    /\ Return(h)
    /\ UNCHANGED <<dtRow, late, multipart, remote, booked, dtSweep, stranded>>

(* The receipt and the credit are one transaction, guarded by the row's    *)
(* state and by quota_released.                                            *)
PublishRow(t) ==
    IF dtRow[t].state = "completing"
    THEN SetRow(t, "complete") /\ booked' = Credit(publishRelease(t))
    ELSE UNCHANGED <<dtRow, booked>>

publish(h, t) ==
    /\ dtStep[h] = At("publish", t)
    /\ PublishRow(t)
    /\ Return(h)
    /\ UNCHANGED <<late, multipart, remote, dtSweep, stranded>>

------------------------------------------------------------------------------
(* Cancel: the transaction first, the provider's abort after it            *)

MutCancelAnyState(h, t) ==
    /\ dtStep[h] = At("cancel", t)
    /\ SetRow(t, "cancelled")
    /\ booked' = Credit(Size[t])
    /\ Goto(h, At("abort", t))
    /\ UNCHANGED <<late, multipart, remote, dtSweep, stranded>>

Cancel(h, t) ==
    /\ dtStep[h] = Idle
    /\ dtRow[t].state = "pending"
    /\ Goto(h, At("cancel", t))
    /\ UNCHANGED <<dtRow, late, multipart, remote, booked, dtSweep, stranded>>

CancelDirectTransferAndReleaseUsage(h, t) ==
    /\ dtStep[h] = At("cancel", t)
    /\ IF dtRow[t].state = "pending"
       THEN /\ SetRow(t, "cancelled")
            /\ booked' = Credit(Size[t])
            /\ Goto(h, At("abort", t))
       ELSE Return(h) /\ UNCHANGED <<dtRow, booked>>
    /\ UNCHANGED <<late, multipart, remote, dtSweep, stranded>>

AbortMultipart(t) ==
    multipart' = [multipart EXCEPT ![t] =
                    IF @.state = "open" THEN [state |-> "aborted", parts |-> {}] ELSE @]

CancelAbort(h, t) ==
    /\ dtStep[h] = At("abort", t)
    /\ AbortMultipart(t) \/ UNCHANGED multipart
    /\ Return(h)
    /\ UNCHANGED <<dtRow, late, remote, booked, dtSweep, stranded>>

------------------------------------------------------------------------------
(* SweepDirect: expired rows, then rows left completing.  It works from    *)
(* two listings; a row that changed since fails the guards of the          *)
(* transaction the sweep ends in, so the listings need no state of their   *)
(* own.  A provider that cannot be resolved is not asked to abort.         *)

ListExpiredDirectTransfers == {t \in late : dtRow[t].state = "pending"}
ListCompletingDirectTransfers == {t \in Transfers : dtRow[t].state = "completing"}

Expire(t) ==
    /\ dtRow[t].state # "absent" /\ t \notin late
    /\ late' = late \cup {t}
    /\ UNCHANGED <<dtRow, multipart, remote, booked, dtStep, dtSweep, stranded>>

SweepAbort(t) ==
    /\ dtSweep = Idle
    /\ t \in ListExpiredDirectTransfers
    /\ AbortMultipart(t) \/ UNCHANGED multipart
    /\ dtSweep' = At("expire", t)
    /\ UNCHANGED <<dtRow, late, remote, booked, dtStep, stranded>>

ExpireDirectTransferAndReleaseUsage(t) ==
    /\ dtSweep = At("expire", t)
    /\ dtSweep' = Idle
    /\ IF dtRow[t].state = "pending"
       THEN SetRow(t, "expired") /\ booked' = Credit(Size[t])
       ELSE UNCHANGED <<dtRow, booked>>
    /\ UNCHANGED <<late, multipart, remote, dtStep, stranded>>

SweepCompleting(t) ==
    /\ dtSweep = Idle
    /\ t \in ListCompletingDirectTransfers
    /\ IF remote = "none"
       THEN ResetRow(t) /\ UNCHANGED dtSweep
       ELSE /\ metadataMatches(t)
            /\ dtSweep' = At("record", t)
            /\ UNCHANGED dtRow
    /\ UNCHANGED <<late, multipart, remote, booked, dtStep, stranded>>

SweepPublish(t) ==
    /\ dtSweep = At("record", t)
    /\ dtSweep' = Idle
    /\ PublishRow(t)
    /\ UNCHANGED <<late, multipart, remote, dtStep, stranded>>

(* The process ends: a reservation whose row was not written stays booked. *)
Crash ==
    /\ dtSweep # Idle \/ \E h \in Handlers : dtStep[h] # Idle
    /\ stranded' = stranded + MapThenSumSet(LAMBDA h : Size[dtStep[h].id],
                                            {h \in Handlers : dtStep[h].at = "row"})
    /\ dtStep' = [h \in Handlers |-> Idle]
    /\ dtSweep' = Idle
    /\ UNCHANGED <<dtRow, late, multipart, remote, booked>>

DtNext ==
    \/ \E h \in Handlers, t \in Transfers :
        \/ CreateBegin(h, t) \/ CreateReserve(h, t) \/ CreateRow(h, t)
        \/ Complete(h, t) \/ BeginDirectTransferCompletion(h, t) \/ Revalidate(h, t)
        \/ CompleteMultipart(h, t) \/ Doubt(h, t) \/ Metadata(h, t)
        \/ reconcileCompletion(h, t) \/ publish(h, t)
        \/ Cancel(h, t) \/ CancelDirectTransferAndReleaseUsage(h, t) \/ CancelAbort(h, t)
    \/ \E t \in Transfers :
        \/ Expire(t) \/ SweepAbort(t) \/ ExpireDirectTransferAndReleaseUsage(t)
        \/ SweepCompleting(t) \/ SweepPublish(t)
        \/ \E p \in Parts(t) : PresignPart(t, p)
    \/ \E h \in Handlers : Unanswered(h)
    \/ Crash

------------------------------------------------------------------------------
DtTypeOK ==
    /\ dtRow \in [Transfers -> [state : RowStates, prior : Objects]]
    /\ late \subseteq Transfers
    /\ \A t \in Transfers :
         /\ multipart[t].state \in {"none", "open", "done", "aborted"}
         /\ multipart[t].parts \subseteq Parts(t)
    /\ remote \in Objects
    /\ booked \in 0 .. Cap
    /\ stranded \in Nat

(* What a row still holds of the account's usage.                          *)
Held(t) ==
    CASE dtRow[t].state \in {"pending", "completing"} -> Size[t]
      [] dtRow[t].state = "complete" -> Size[t] - publishRelease(t)
      [] OTHER -> 0

(* The account's usage is exactly what the rows account for, whatever      *)
(* order the owner, the sweep and a crash act in: Cancel, the expiry and   *)
(* the two ways to publication credit a reservation at most once (the      *)
(* quota_released column), and a reservation leaves the books only with    *)
(* its row.                                                                *)
LedgerExact ==
    booked = PriorSize + stranded
             + MapThenSumSet(Held, Transfers)
             + MapThenSumSet(LAMBDA h : Size[dtStep[h].id],
                             {h \in Handlers : dtStep[h].at = "row"})

(* A row recorded complete has had its parts put together by the provider, *)
(* also when the provider reported a failure, another transfer took the    *)
(* path or the sweep recorded it.  A transfer without a checksum whose     *)
(* size equals that of another object of the key can be mistaken for it:   *)
(* metadataMatches has only the size to go by.                             *)
Mistakable(t) ==
    t \notin Checked /\ \E o \in Objects \ {t, "none"} : SizeOf(o) = Size[t]

CompleteIsAssembled ==
    \A t \in Transfers :
        dtRow[t].state = "complete" => multipart[t].state = "done" \/ Mistakable(t)
=============================================================================
