--------------------------- MODULE OperationQueue ---------------------------
(***************************************************************************)
(* Durable copy operations: StartCopy and the requests on a job            *)
(* (internal/files/operation.go, internal/jobs/jobs.go), the dispatcher    *)
(* and its workers (internal/files/jobrunner.go), and the operation rows   *)
(* with their leases (internal/db/state/operation*.go).  Every row update  *)
(* is one transaction.  The copy itself is TransferTree's: here it is      *)
(* published at one step or not at all.  A lease id is new for every       *)
(* claim, so the attempt that claimed stands for it.                       *)
(***************************************************************************)
EXTENDS Naturals, FiniteSets

CONSTANTS
    Ops,           \* operation ids
    Slots,         \* operationMaxWorkers
    MaxAttempts    \* max_attempts of a queued copy

VARIABLES
    opRow,         \* the operation table
    worker,        \* what each job slot runs
    creating,      \* ops whose StartCopy has not answered yet
    jobs,          \* "up", "stopping" after StopJobs, "down"
    copied,        \* ops whose tree has been published at the destination
    dropped,       \* ops some attempt of which ended without recording it
    refused        \* ops a Retry of which was answered with an error

opVars == <<opRow, worker, creating, jobs, copied, dropped, refused>>

OpStates == {"absent", "queued", "running", "paused", "retrying",
             "done", "failed", "cancelled", "interrupted"}
Terminal(s) == s \in {"done", "failed", "cancelled", "interrupted"}
NoLease == 0
Free == [at |-> "free"]
Busy(s) == worker[s] # Free

NewRow(over) == [state |-> "queued", attempt |-> 0, lease |-> NoLease, expired |-> FALSE,
                 cancel |-> FALSE, pause |-> FALSE, over |-> over]

OpInit ==
    /\ opRow = [o \in Ops |-> [NewRow(FALSE) EXCEPT !.state = "absent"]]
    /\ worker = [s \in Slots |-> Free]
    /\ creating = {}
    /\ jobs = "up"
    /\ copied = {}
    /\ dropped = {}
    /\ refused = {}

------------------------------------------------------------------------------
(* Requests                                                                *)

CreateQueuedOp(o, over) == opRow' = [opRow EXCEPT ![o] = NewRow(over)]

StartCopy(o, over) ==
    /\ jobs # "down" /\ opRow[o].state = "absent"
    /\ CreateQueuedOp(o, over)
    /\ creating' = creating \cup {o}
    /\ UNCHANGED <<worker, jobs, copied, dropped, refused>>

(* The handler looks at jobsStopped after the row is there, and InterruptOp *)
(* asks nothing of the row.                                                *)
InterruptOp(o) == opRow' = [opRow EXCEPT ![o].state = "interrupted", ![o].lease = NoLease]

StartCopyReturns(o) ==
    /\ o \in creating
    /\ creating' = creating \ {o}
    /\ IF jobs = "stopping" THEN InterruptOp(o) ELSE UNCHANGED opRow
    /\ UNCHANGED <<worker, jobs, copied, dropped, refused>>

(* RequestOpCancel is unconditional as well: it marks and never ends.      *)
CancelOperation(o) ==
    /\ jobs # "down" /\ opRow[o].state # "absent"
    /\ opRow' = [opRow EXCEPT ![o].cancel = TRUE, ![o].pause = FALSE]
    /\ UNCHANGED <<worker, creating, jobs, copied, dropped, refused>>

PauseRow(o) ==
    IF opRow[o].state \in {"queued", "retrying", "running"}
    THEN opRow' = [opRow EXCEPT ![o].pause = TRUE,
                                ![o].state = IF @ = "running" THEN @ ELSE "paused"]
    ELSE UNCHANGED opRow

PauseOp(o) ==
    /\ jobs # "down"
    /\ opRow[o].state \in {"queued", "retrying", "running"}
    /\ PauseRow(o)
    /\ UNCHANGED <<worker, creating, jobs, copied, dropped, refused>>

ResumeRow(o) ==
    IF opRow[o].state = "paused"
    THEN opRow' = [opRow EXCEPT ![o].state = "queued", ![o].pause = FALSE]
    ELSE UNCHANGED opRow

ResumeOp(o) ==
    /\ jobs # "down" /\ opRow[o].state = "paused"
    /\ ResumeRow(o)
    /\ UNCHANGED <<worker, creating, jobs, copied, dropped, refused>>

(* Retry is for failed and interrupted jobs and calls ResumeOp, whose      *)
(* statement wants a paused row.                                           *)
Retry(o) ==
    /\ jobs # "down" /\ opRow[o].state \in {"failed", "interrupted"}
    /\ ResumeRow(o)
    /\ refused' = IF opRow'[o] = opRow[o] THEN refused \cup {o} ELSE refused
    /\ UNCHANGED <<worker, creating, jobs, copied, dropped>>

------------------------------------------------------------------------------
(* The dispatcher                                                          *)

HasRunnableOp(o) ==
    opRow[o].state \in {"queued", "retrying"} /\ opRow[o].attempt < MaxAttempts

\* The dispatcher found something to run and waited for a free slot before it claims.
dispatchJobs(s, o) == jobs = "up" /\ ~Busy(s) /\ HasRunnableOp(o)

(* The slot is taken before the claim; next_run_ns only delays a claim.    *)
ClaimNextOp(s, o) ==
    /\ dispatchJobs(s, o)
    /\ LET n == opRow[o].attempt + 1
       IN  /\ opRow' = [opRow EXCEPT ![o].state = "running", ![o].attempt = n, ![o].lease = n,
                                     ![o].expired = FALSE, ![o].pause = FALSE]
           /\ worker' = [worker EXCEPT ![s] =
                           [at |-> IF opRow[o].cancel THEN "record" ELSE "copy", op |-> o,
                            lease |-> n,
                            outcome |-> IF opRow[o].cancel THEN "cancelled" ELSE "none"]]
    /\ UNCHANGED <<creating, jobs, copied, dropped, refused>>

Holds(s) == opRow[worker[s].op].lease = worker[s].lease /\ opRow[worker[s].op].state = "running"
Becomes(s, outcome) ==
    worker' = [worker EXCEPT ![s].at = "record", ![s].outcome = outcome]

(* leaseCancelGate, polled between items: a stop, a lost lease, a cancel   *)
(* or a pause ends the walk with errOpCancelled, and the row is read once  *)
(* more to tell which.                                                     *)
leaseCancelGate(s) ==
    LET row == opRow[worker[s].op]
    IN  /\ worker[s].at = "copy"
        /\ jobs = "stopping" \/ ~Holds(s) \/ row.cancel \/ row.pause
        /\ Becomes(s, CASE row.pause -> "pause"
                        [] row.cancel -> "cancelled"
                        [] jobs = "stopping" -> "interrupted"
                        [] OTHER -> "cancelled")
        /\ UNCHANGED <<opRow, creating, jobs, copied, dropped, refused>>

MutGateAfterPublish(s) ==
    /\ worker[s].at = "copy"
    /\ copied' = copied \cup {worker[s].op}
    /\ Becomes(s, IF opRow[worker[s].op].cancel THEN "cancelled" ELSE "done")
    /\ UNCHANGED <<opRow, creating, jobs, dropped, refused>>

(* The tree is published, or the copy fails: for good (a taken destination *)
(* among the reasons), or in a way worth another attempt.                  *)
executeCopyClaim(s) ==
    LET o == worker[s].op
    IN  /\ worker[s].at = "copy"
        /\ \/ /\ o \notin copied \/ opRow[o].over
              /\ copied' = copied \cup {o}
              /\ Becomes(s, "done")
           \/ Becomes(s, "failed") /\ UNCHANGED copied
           \/ Becomes(s, "retry") /\ UNCHANGED copied
        /\ UNCHANGED <<opRow, creating, jobs, dropped, refused>>

(* A renewal the database refuses makes runClaim drop the outcome.         *)
leaseLost(s) ==
    /\ worker[s].at \in {"copy", "record"}
    /\ worker' = [worker EXCEPT ![s] = Free]
    /\ dropped' = dropped \cup {worker[s].op}
    /\ UNCHANGED <<opRow, creating, jobs, copied, refused>>

(* Every outcome is written under the lease; RetryOpLease keeps the pause  *)
(* flag and the second transaction of a pause asks for no lease.           *)
WithLease(s, state) ==
    IF Holds(s)
    THEN opRow' = [opRow EXCEPT ![worker[s].op].state = state, ![worker[s].op].lease = NoLease]
    ELSE UNCHANGED opRow

RetryOpLease(s) ==
    /\ WithLease(s, "retrying")
    /\ worker' = [worker EXCEPT ![s] = IF worker[s].outcome = "pause" /\ Holds(s)
                                       THEN [worker[s] EXCEPT !.at = "pause"] ELSE Free]

MutFinishForgets(s, state) ==
    /\ worker' = [worker EXCEPT ![s] = Free]
    /\ IF opRow[worker[s].op].pause THEN UNCHANGED opRow ELSE WithLease(s, state)

FinishOpLease(s, state) ==
    /\ WithLease(s, state)
    /\ worker' = [worker EXCEPT ![s] = Free]

completeClaim(s) ==
    LET w == worker[s]
        stop == jobs = "stopping" /\ w.outcome \notin {"done", "failed", "retry"}
    IN  /\ w.at = "record"
        /\ IF stop THEN FinishOpLease(s, "interrupted")
           ELSE IF w.outcome = "pause" \/ (w.outcome = "retry" /\ w.lease < MaxAttempts)
           THEN RetryOpLease(s)
           ELSE FinishOpLease(s, IF w.outcome = "retry" THEN "failed" ELSE w.outcome)
        /\ UNCHANGED <<creating, jobs, copied, dropped, refused>>

completePause(s) ==
    /\ worker[s].at = "pause"
    /\ PauseRow(worker[s].op)
    /\ worker' = [worker EXCEPT ![s] = Free]
    /\ UNCHANGED <<creating, jobs, copied, dropped, refused>>

------------------------------------------------------------------------------
(* The process                                                             *)

StopJobs ==
    /\ jobs = "up"
    /\ jobs' = "stopping"
    /\ UNCHANGED <<opRow, worker, creating, copied, dropped, refused>>

(* Time passes on a lease nobody renews.                                   *)
LeaseExpires(o) ==
    /\ opRow[o].state = "running" /\ ~opRow[o].expired
    /\ \A s \in Slots : Busy(s) => worker[s].op # o
    /\ opRow' = [opRow EXCEPT ![o].expired = TRUE]
    /\ UNCHANGED <<worker, creating, jobs, copied, dropped, refused>>

Exit ==
    /\ jobs # "down"
    /\ jobs' = "down"
    /\ creating' = {}
    /\ dropped' = dropped \cup {worker[s].op : s \in {x \in Slots : Busy(x)}}
    /\ worker' = [s \in Slots |-> Free]
    /\ UNCHANGED <<opRow, copied, refused>>

(* StartJobs recovers once, only what has expired by then.                 *)
RecoverExpiredOps ==
    opRow' = [o \in Ops |->
        IF opRow[o].state = "running" /\ opRow[o].expired
        THEN [opRow[o] EXCEPT !.lease = NoLease,
                !.state = IF opRow[o].attempt >= MaxAttempts THEN "failed" ELSE "retrying"]
        ELSE opRow[o]]

StartJobs ==
    /\ jobs = "down"
    /\ jobs' = "up"
    /\ RecoverExpiredOps
    /\ UNCHANGED <<worker, creating, copied, dropped, refused>>

OpNext ==
    \/ \E o \in Ops :
        \/ \E over \in BOOLEAN : StartCopy(o, over)
        \/ StartCopyReturns(o) \/ CancelOperation(o) \/ PauseOp(o) \/ ResumeOp(o)
        \/ Retry(o) \/ LeaseExpires(o)
        \/ \E s \in Slots : ClaimNextOp(s, o)
    \/ \E s \in Slots :
        \/ leaseCancelGate(s) \/ executeCopyClaim(s) \/ leaseLost(s)
        \/ completeClaim(s) \/ completePause(s)
    \/ StopJobs \/ Exit \/ StartJobs

OpSpec == OpInit /\ [][OpNext]_opVars

------------------------------------------------------------------------------
OpTypeOK ==
    /\ \A o \in Ops : /\ opRow[o].state \in OpStates
                      /\ opRow[o].attempt \in 0 .. MaxAttempts
                      /\ opRow[o].lease \in {NoLease, opRow[o].attempt}
    /\ \A s \in Slots : worker[s].at \in {"free", "copy", "record", "pause"}
    /\ copied \subseteq Ops /\ dropped \subseteq Ops /\ creating \subseteq Ops

(* What a finished job says is what happened: done means the tree is at    *)
(* the destination and cancelled or failed that it is not, whichever way   *)
(* a cancellation, a pause, a stop and the copy's own end fall.  Only an   *)
(* attempt whose outcome was never recorded can make the next one wrong.   *)
HonestOutcome ==
    \A o \in Ops :
        /\ opRow[o].state = "done" => o \in copied
        /\ opRow[o].state \in {"failed", "cancelled"} /\ o \notin dropped => o \notin copied

(* A running row is being worked on: no mix of requests leaves a row in    *)
(* running with no worker behind its lease, where it would stay until a    *)
(* restart finds the lease expired, unless an outcome was dropped.         *)
RunningIsOwned ==
    \A o \in Ops \ dropped :
        opRow[o].state = "running" =>
            \E s \in Slots : Busy(s) /\ worker[s].op = o /\ worker[s].lease = opRow[o].lease

(* A finished job stays as it ended, except that a StartCopy racing a stop *)
(* may call it interrupted.                                                *)
FinishedStays ==
    [][\A o \in Ops : Terminal(opRow[o].state) =>
          \/ opRow'[o].state = opRow[o].state
          \/ o \in creating /\ opRow'[o].state = "interrupted"]_opVars

(* "Retry restarts a failed or interrupted operation" (jobs.go): it never  *)
(* does.                                                                   *)
RetryRestarts == refused = {}
=============================================================================
