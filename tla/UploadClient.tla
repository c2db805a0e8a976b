---- MODULE UploadClient ----
(***************************************************************************)
(* One file sent by the browser's upload worker to the resumable upload    *)
(* handlers.  The worker plans fixed-size chunks from a contiguous prefix, *)
(* keeps several requests under way, retries or re-plans what fails, and   *)
(* owns the file until it is published, failed or cancelled.  The server   *)
(* records ranges and publishes within the request that completes them.    *)
(* Answers are lost, proxies refuse bodies, the user pauses, cancels and   *)
(* reloads the page.                                                       *)
(***************************************************************************)
EXTENDS Integers, Sequences, FiniteSets

CONSTANTS Size,         \* length of the file
          StartChunk,   \* first chunk size
          ChunkMin,     \* smallest chunk size
          MaxInflight,  \* requests the worker keeps under way
          MaxRetries,   \* retries of one chunk
          UcBudget      \* how often each fault and command may happen

VARIABLES ucFile,  \* the worker's record of the file
          ucQueue, \* planned chunks not yet taken
          ucSlot,  \* requests under way; slot 0 is the empty publication request
          ucRetry, \* chunks waiting for their retry timer
          ucSess,  \* the server's session
          ucLeft   \* what is left of the budget

ucVars == <<ucFile, ucQueue, ucSlot, ucRetry, ucSess, ucLeft>>

UploadSlots == 0..MaxInflight
UcIdle == [pc |-> "idle"]
Gone == "gone"

Smaller(a, b) == IF a < b THEN a ELSE b
Greater(a, b) == IF a < b THEN b ELSE a

planChunkOffsets(from, chunk) ==
    [i \in 1..((Size - from + chunk - 1) \div chunk) |->
        [off |-> from + (i - 1) * chunk, len |-> Smaller(chunk, Size - from - (i - 1) * chunk), tries |-> 0]]

ContiguousPrefix(have) == CHOOSE n \in 0..Size : (\A p \in 0..(n - 1) : p \in have) /\ n \notin have

Positions(c) == c.off..(c.off + c.len - 1)
Spend(what) == ucLeft[what] > 0 /\ ucLeft' = [ucLeft EXCEPT ![what] = @ - 1]

startFile(from) ==
    [status |-> "uploading", gen |-> 0, chunk |-> StartChunk, base |-> from, start |-> from, accepted |-> 0,
     confirmed |-> FALSE, told |-> "nothing", dropped |-> FALSE]

\* POST: an empty session.  HEAD: its prefix, or that there is none.
CreateSession == [state |-> "receiving", have |-> {}, published |-> FALSE]
Status == IF ucSess.state = Gone THEN Gone ELSE "receiving"
UploadOffset == ContiguousPrefix(ucSess.have)

UcInit ==
    /\ ucFile = startFile(0) /\ ucQueue = planChunkOffsets(0, StartChunk)
    /\ ucSlot = [s \in UploadSlots |-> UcIdle] /\ ucRetry = {}
    /\ ucSess = CreateSession /\ ucLeft = UcBudget

(***************************************************************************)
(* The server: one PATCH                                                   *)
(***************************************************************************)
Answer(s, status) == [ucSlot EXCEPT ![s] = [pc |-> "answer", status |-> status, next |-> 0, task |-> @.task, gen |-> @.gen]]
Busy(pc) == {s \in UploadSlots : ucSlot[s].pc = pc}
GateClosed == Busy("fenced") # {}

\* Bodies for one offset take turns.
lockChunk(s) == \A o \in Busy("staged") : ucSlot[o].task.off # ucSlot[s].task.off

\* The session is gone or the gate is closed, or the body is admitted and staged.
PatchAdmit(s) ==
    /\ ucSlot[s].pc = "sent" /\ lockChunk(s)
    /\ ucSlot' = IF ucSess.state = Gone THEN Answer(s, "gone")
                 ELSE IF GateClosed THEN Answer(s, "conflict")
                 ELSE [ucSlot EXCEPT ![s].pc = "staged"]
    /\ UNCHANGED <<ucFile, ucQueue, ucRetry, ucSess, ucLeft>>

\* The range is recorded and the prefix is the answer; a complete session is published first.
PatchAt(s) ==
    /\ ucSlot[s].pc = "staged"
    /\ LET have == ucSess.have \cup Positions(ucSlot[s].task)
           next == ContiguousPrefix(have)
       IN /\ ucSess' = [ucSess EXCEPT !.have = have]
          /\ ucSlot' = [ucSlot EXCEPT ![s] = [pc |-> IF next >= Size THEN "publish" ELSE "answer", status |-> "ok",
                                              next |-> next, task |-> @.task, gen |-> @.gen]]
    /\ UNCHANGED <<ucFile, ucQueue, ucRetry, ucLeft>>

\* The body breaks off, the disk or the cache is full, or a proxy on the way refuses its size.
PatchFails(s) ==
    /\ \/ ucSlot[s].pc = "staged" /\ ucSlot' = Answer(s, "busy")
       \/ ucSlot[s].pc = "sent" /\ ucSlot[s].task.len > 0 /\ ucSlot' = Answer(s, "large")
    /\ Spend("faults") /\ UNCHANGED <<ucFile, ucQueue, ucRetry, ucSess>>

closeWriters(s) ==
    /\ ucSlot[s].pc = "publish" /\ ~GateClosed
    /\ ucSlot' = IF ucSess.state = Gone THEN Answer(s, "gone") ELSE [ucSlot EXCEPT ![s].pc = "fenced"]
    /\ UNCHANGED <<ucFile, ucQueue, ucRetry, ucSess, ucLeft>>

MutPublish(s) ==
    /\ ucSlot[s].pc = "fenced" /\ Busy("staged") = {}
    /\ ucSlot' = [ucSlot EXCEPT ![s].pc = "answer"]
    /\ \/ ucSess' = [ucSess EXCEPT !.state = Gone, !.published = TRUE] /\ UNCHANGED ucLeft
       \/ Spend("faults") /\ UNCHANGED ucSess
    /\ UNCHANGED <<ucFile, ucQueue, ucRetry>>

\* Finalize waits for the admitted bodies; only a publication is answered with the offset.
publish(s) ==
    /\ ucSlot[s].pc = "fenced" /\ Busy("staged") = {}
    /\ \/ /\ ucSess' = [ucSess EXCEPT !.state = Gone, !.published = TRUE]
          /\ ucSlot' = [ucSlot EXCEPT ![s].pc = "answer"] /\ UNCHANGED ucLeft
       \/ Spend("faults") /\ ucSlot' = Answer(s, "busy") /\ UNCHANGED ucSess
    /\ UNCHANGED <<ucFile, ucQueue, ucRetry>>

\* The connection breaks before the request arrives, or takes the answer with it.
Lose(s) ==
    /\ ucSlot[s].pc \in {"sent", "answer"} /\ ucSlot' = Answer(s, "lost")
    /\ ucSlot[s].pc = "answer" => ucSlot[s].status # "lost"
    /\ Spend("faults") /\ UNCHANGED <<ucFile, ucQueue, ucRetry, ucSess>>

(***************************************************************************)
(* The worker                                                              *)
(***************************************************************************)
Send(slots, s, task, gen) == [slots EXCEPT ![s] = [pc |-> "sent", task |-> task, gen |-> gen]]
PublicationTask == [off |-> Size, len |-> 0, tries |-> 0]

pump(s) ==
    /\ s # 0 /\ ucSlot[s] = UcIdle /\ ucFile.status = "uploading" /\ ucQueue # <<>>
    /\ ucSlot' = Send(ucSlot, s, Head(ucQueue), ucFile.gen)
    /\ ucQueue' = Tail(ucQueue)
    /\ UNCHANGED <<ucFile, ucRetry, ucSess, ucLeft>>

\* The scheduler counts what is queued and what is under way; a chunk waiting for its timer is neither.
isFileDone(f, slots) == ucQueue = <<>> /\ \A s \in UploadSlots \ {0} : slots[s] # UcIdle => slots[s].gen # f.gen

\* finalizeIfDone up to its request: done, or the empty request that asks for the publication.
finalizeIfDone(f, slots) ==
    IF ~(f.status = "uploading" /\ isFileDone(f, slots)) \/ slots[0] # UcIdle
    THEN ucFile' = f /\ ucSlot' = slots
    ELSE IF f.confirmed THEN ucFile' = [f EXCEPT !.status = "done", !.told = "done"] /\ ucSlot' = slots
    ELSE ucFile' = f /\ ucSlot' = Send(slots, 0, PublicationTask, f.gen)

Freed(s) == [ucSlot EXCEPT ![s] = UcIdle]
Answered(s, oks) == ucSlot[s].pc = "answer" /\ ucSlot[s].status \in oks
Heard(s) == ucSlot[s].gen = ucFile.gen

ChunkAccepted(s) ==
    /\ s # 0 /\ Answered(s, {"ok"})
    /\ IF Heard(s) /\ ucFile.status \in {"uploading", "paused"}
       THEN finalizeIfDone([ucFile EXCEPT !.accepted = @ + ucSlot[s].task.len,
                                          !.base = Greater(@, ucSlot[s].next),
                                          !.confirmed = @ \/ ucSlot[s].next >= Size], Freed(s))
       ELSE ucSlot' = Freed(s) /\ UNCHANGED ucFile
    /\ UNCHANGED <<ucQueue, ucRetry, ucSess, ucLeft>>

classifyFailure(status, tries) ==
    CASE status = "gone" -> "gone"
      [] status = "conflict" -> "conflict"
      [] status = "large" -> "shrink"
      [] OTHER -> IF tries >= MaxRetries THEN "retries" ELSE "retry"

shrinkChunkSize(chunk) == Greater(ChunkMin, chunk \div 2)

\* A failed file leaves the scheduler.
Fail(why) == ucFile' = [ucFile EXCEPT !.status = "error", !.told = why] /\ ucQueue' = <<>>

MutReplanFrom == ucFile.start + ucFile.accepted

\* The next plan starts at the prefix the server confirmed, not at the bytes it accepted.
ReplanFrom == ucFile.base

replan(chunk) ==
    /\ ucFile' = [ucFile EXCEPT !.gen = @ + 1, !.chunk = chunk, !.start = ReplanFrom, !.accepted = 0]
    /\ ucQueue' = planChunkOffsets(ReplanFrom, chunk)

ChunkFailed(s) ==
    LET task == ucSlot[s].task
        verdict == classifyFailure(ucSlot[s].status, task.tries)
        next == shrinkChunkSize(ucFile.chunk)
    IN /\ s # 0 /\ Answered(s, {"lost", "busy", "large", "conflict", "gone"})
       /\ ucSlot' = Freed(s)
       /\ IF ~Heard(s) \/ ucFile.status # "uploading"
          THEN /\ ucFile' = [ucFile EXCEPT !.dropped = @ \/ (Heard(s) /\ ucFile.status = "paused")]
               /\ UNCHANGED <<ucQueue, ucRetry>>
          ELSE \/ verdict = "shrink" /\ next # ucFile.chunk /\ replan(next) /\ ucRetry' = {}
               \/ verdict = "shrink" /\ next = ucFile.chunk /\ Fail("too large") /\ UNCHANGED ucRetry
               \/ verdict = "retry" /\ ucRetry' = ucRetry \cup {[task EXCEPT !.tries = @ + 1]} /\ UNCHANGED <<ucFile, ucQueue>>
               \/ verdict \notin {"shrink", "retry"} /\ Fail(verdict) /\ UNCHANGED ucRetry
       /\ UNCHANGED <<ucSess, ucLeft>>

\* The timer of an earlier plan, or of a file that has ended, does nothing: it is dropped with the plan.
RetryTimer ==
    /\ \E t \in ucRetry :
          /\ ucRetry' = ucRetry \ {t}
          /\ ucQueue' = IF ucFile.status \in {"uploading", "paused"} THEN <<t>> \o ucQueue ELSE ucQueue
    /\ UNCHANGED <<ucFile, ucSlot, ucSess, ucLeft>>

\* What the publication request brought; heard only while the file is uploading, and as a failure while it is paused.
PublicationAnswered ==
    /\ ucSlot[0].pc = "answer" /\ ucSlot' = Freed(0)
    /\ LET ok == ucSlot[0].status = "ok"
       IN CASE ok /\ ucFile.status = "uploading" /\ ucSlot[0].next >= Size ->
                   ucFile' = [ucFile EXCEPT !.confirmed = TRUE, !.status = "done", !.told = "done"] /\ UNCHANGED ucQueue
            [] ok /\ ucFile.status = "uploading" /\ ucSlot[0].next < Size -> Fail("short")
            [] ~ok /\ ucFile.status \in {"uploading", "paused"} -> Fail(ucSlot[0].status)
            [] OTHER -> UNCHANGED <<ucFile, ucQueue>>
    /\ UNCHANGED <<ucRetry, ucSess, ucLeft>>

pauseFile ==
    /\ ucFile.status = "uploading" /\ Spend("commands")
    /\ ucFile' = [ucFile EXCEPT !.status = "paused"]
    /\ UNCHANGED <<ucQueue, ucSlot, ucRetry, ucSess>>

resumeFile ==
    /\ ucFile.status = "paused" /\ finalizeIfDone([ucFile EXCEPT !.status = "uploading"], ucSlot)
    /\ UNCHANGED <<ucQueue, ucRetry, ucSess, ucLeft>>

cancelFile ==
    /\ ucFile.status \in {"uploading", "paused"} /\ Spend("commands")
    /\ ucFile' = [ucFile EXCEPT !.status = "canceled"] /\ ucQueue' = <<>> /\ ucRetry' = {}
    /\ UNCHANGED <<ucSlot, ucSess>>

Abort == ~GateClosed /\ Busy("staged") = {} /\ ucSess' = [ucSess EXCEPT !.state = Gone]

\* DELETE: Abort waits for whoever is in the session; one already gone is taken for a confirmed cancellation.
deleteSession ==
    /\ ucFile.status = "canceled" /\ ucFile.told = "nothing" /\ Abort
    /\ ucFile' = [ucFile EXCEPT !.told = "canceled"]
    /\ UNCHANGED <<ucQueue, ucSlot, ucRetry, ucLeft>>

\* The page is loaded anew and the file added again: HEAD gives the prefix; a session that is gone is replaced.
addFile ==
    /\ ucFile.status # "canceled" /\ Spend("commands")
    /\ ~GateClosed /\ ucSlot[0].pc \in {"idle", "answer"} /\ ucRetry' = {}
    /\ IF Status = Gone
       THEN /\ ucSess' = CreateSession
            /\ ucSlot' = [s \in UploadSlots |-> UcIdle]
            /\ ucFile' = startFile(0) /\ ucQueue' = planChunkOffsets(0, StartChunk)
       ELSE LET from == UploadOffset
                left == [s \in UploadSlots |-> IF ucSlot[s].pc \in {"idle", "answer"} THEN UcIdle ELSE [ucSlot[s] EXCEPT !.gen = -1]]
            IN /\ ucFile' = startFile(from) /\ ucQueue' = planChunkOffsets(from, StartChunk)
               /\ ucSlot' = IF from = Size THEN Send(left, 0, PublicationTask, 0) ELSE left
               /\ UNCHANGED ucSess

UcServer == \E s \in UploadSlots : PatchAdmit(s) \/ PatchAt(s) \/ PatchFails(s) \/ closeWriters(s) \/ publish(s) \/ Lose(s)
UcWorker == \/ \E s \in UploadSlots : pump(s) \/ ChunkAccepted(s) \/ ChunkFailed(s)
            \/ RetryTimer \/ PublicationAnswered
            \/ pauseFile \/ resumeFile \/ cancelFile \/ deleteSession \/ addFile
UcNext == UcServer \/ UcWorker

-----------------------------------------------------------------------------
UcTypeOK ==
    /\ ucFile.status \in {"uploading", "paused", "done", "error", "canceled"} /\ ucFile.base \in 0..Size
    /\ ucSess.have \subseteq 0..(Size - 1) /\ ucSess.published \in BOOLEAN
    /\ \A s \in UploadSlots : ucSlot[s].pc \in {"idle", "sent", "staged", "publish", "fenced", "answer"}

\* A file the user is told is done has been published whole, whichever of its requests completed it, whatever
\* was lost, retried, re-planned or resumed on the way (uploads.go Patch, publish; scheduler.ts finalizeIfDone).
DoneIsPublished == ucFile.told = "done" => ucSess.published /\ ucSess.have = 0..(Size - 1)

\* Until a file ends, every position the server does not have is planned, under way or waiting for a retry, also
\* after a re-plan with the answers of the old plan still to come (scheduler.ts sendChunk, shrink).  A failure
\* that arrives while the file is paused is dropped by the code and excepted here.
PlanCovers ==
    ucFile.status \in {"uploading", "paused"} /\ ~ucFile.dropped =>
        LET planned == UNION {Positions(ucQueue[i]) : i \in 1..Len(ucQueue)}
            waiting == UNION {Positions(t) : t \in ucRetry}
            under == UNION {Positions(ucSlot[s].task) : s \in {o \in UploadSlots : ucSlot[o] # UcIdle /\ Heard(o)}}
        IN 0..(Size - 1) \subseteq ucSess.have \cup planned \cup waiting \cup under

\* Not so with a pause: "Keep retry ownership in the scheduler while paused. Resume will unpause it and pump the
\* same failed chunk exactly once." (scheduler.ts, the retry timer), but a failure heard while paused returns before it.
PausedRetryKept == ~ucFile.dropped

\* Not so: a chunk waiting for its timer counts as done, so another chunk's success asks for the publication,
\* which stops short and fails the file (scheduler.ts finalizeIfDone, chunk-planner.ts isFileDone).
RetryKept == ucFile.told # "short" \/ ucFile.dropped

\* Not so: "The session is gone: cancelled, expired, or swept." (retry.ts) leaves out the published session whose answer was lost.
GoneMeansUnpublished == ucFile.told = "gone" => ~ucSess.published
====
