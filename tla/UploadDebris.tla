---- MODULE UploadDebris ----
(***************************************************************************)
(* Many upload sessions of one account: admission under the account's      *)
(* limits, what a session leaves on disk, and the periodic sweep that      *)
(* tells debris from sessions in use.  The sweep works from listings it    *)
(* made at its start while sessions come and go; a restart may come        *)
(* between any two steps of a creation.                                    *)
(***************************************************************************)
EXTENDS Integers, FiniteSets, FiniteSetsExt

CONSTANTS UdIds,           \* session ids, 1..n, drawn in order
          DirOf,           \* the destination directory of each
          UdReqs,          \* creation requests
          Lengths,         \* lengths a client declares
          Deferred,        \* a length left open
          SessionsPerUser, ReservedCap,
          TTL,             \* lifetime of an idle session
          UdMaxClock,
          UdBudget         \* how many sweeps, and how many events: operations on a session, the switch, faults

VARIABLES udNow,     \* the clock
          udRow,     \* session rows
          udPart,    \* modification time of each part file
          udCache,   \* cache directories
          udTouched, \* directories recorded as holding part files
          udMu,      \* who holds the admission lock
          udReq,     \* creations under way
          udFin,     \* how far a live request has finalized each session
          udSw,      \* the sweep
          udOn,      \* the cache switch
          udPast,    \* what the properties remember
          udLeft     \* what is left of the budget

udVars == <<udNow, udRow, udPart, udCache, udTouched, udMu, udReq, udFin, udSw, udOn, udPast, udLeft>>

UdIdle == [pc |-> "idle"]
NoRow == [state |-> "none"]
Absent == -1
LongAgo == -100   \* a modification time the client sent along
Free == "free"

Exists(id) == udRow[id].state # "none"
Rows(st) == {id \in UdIds : udRow[id].state = st}
Live(id) == udRow[id].state = "receiving" /\ udNow <= udRow[id].expires
Spend(what) == udLeft[what] > 0 /\ udLeft' = [udLeft EXCEPT ![what] = @ - 1]

UdInit ==
    /\ udNow = 0 /\ udRow = [id \in UdIds |-> NoRow] /\ udPart = [id \in UdIds |-> Absent]
    /\ udCache = [id \in UdIds |-> "none"] /\ udTouched = {} /\ udMu = Free
    /\ udReq = [h \in UdReqs |-> UdIdle] /\ udFin = [id \in UdIds |-> "no"] /\ udSw = UdIdle
    /\ udOn = TRUE /\ udPast = [stray |-> {}, lapsed |-> {}, dated |-> {}, used |-> 0] /\ udLeft = UdBudget

(***************************************************************************)
(* Creation, under the admission lock                                      *)
(***************************************************************************)
\* Only receiving rows count, and an open length counts as nothing.
CountUploadSessionsForUser == Cardinality(Rows("receiving"))
ReservedBy(l) == IF l = Deferred THEN 0 ELSE l
SumUploadReservedForUser == MapThenSumSet(LAMBDA id : ReservedBy(udRow[id].len), Rows("receiving"))

checkAccountLimits(l) ==
    /\ CountUploadSessionsForUser < SessionsPerUser
    /\ SumUploadReservedForUser + ReservedBy(l) <= ReservedCap

MutAdmit(h) ==
    /\ udReq[h] = UdIdle /\ udPast.used < Cardinality(UdIds)
    /\ \E l \in Lengths : checkAccountLimits(l)
                          /\ udReq' = [udReq EXCEPT ![h] = [pc |-> "part", id |-> udPast.used + 1, len |-> l, born |-> udNow]]
    /\ udPast' = [udPast EXCEPT !.used = @ + 1]
    /\ UNCHANGED <<udNow, udRow, udPart, udCache, udTouched, udMu, udFin, udSw, udOn, udLeft>>

\* A refused request, or one the free-space check refuses, ends here and changes nothing.
Admit(h) ==
    /\ udReq[h] = UdIdle /\ udMu = Free /\ udPast.used < Cardinality(UdIds)
    /\ \E l \in Lengths : checkAccountLimits(l)
                          /\ udReq' = [udReq EXCEPT ![h] = [pc |-> "part", id |-> udPast.used + 1, len |-> l, born |-> udNow]]
    /\ udMu' = h /\ udPast' = [udPast EXCEPT !.used = @ + 1]
    /\ UNCHANGED <<udNow, udRow, udPart, udCache, udTouched, udFin, udSw, udOn, udLeft>>

createPart(h) ==
    /\ udReq[h].pc = "part"
    /\ udPart' = [udPart EXCEPT ![udReq[h].id] = udNow]
    /\ udReq' = [udReq EXCEPT ![h].pc = "touch"]
    /\ UNCHANGED <<udNow, udRow, udCache, udTouched, udMu, udFin, udSw, udOn, udPast, udLeft>>

MutTouchUploadDir(h) ==
    /\ udReq[h].pc = "touch" /\ udReq' = [udReq EXCEPT ![h].pc = "row"]
    /\ UNCHANGED <<udNow, udRow, udPart, udCache, udTouched, udMu, udFin, udSw, udOn, udPast, udLeft>>

\* A directory that cannot be recorded is logged and the creation goes on.
TouchUploadDir(h) ==
    /\ udReq[h].pc = "touch" /\ udReq' = [udReq EXCEPT ![h].pc = "row"]
    /\ LET id == udReq[h].id
       IN \/ udTouched' = udTouched \cup {DirOf[id]} /\ UNCHANGED <<udPast, udLeft>>
          \/ Spend("events") /\ udPast' = [udPast EXCEPT !.stray = @ \cup {id}] /\ UNCHANGED udTouched
    /\ UNCHANGED <<udNow, udRow, udPart, udCache, udMu, udFin, udSw, udOn>>

newRow(h) == [state |-> "receiving", len |-> udReq[h].len, expires |-> udNow + TTL, cached |-> udOn]

\* The row, or on its failure the part discarded again; the lock is let go either way.
CreateUploadSession(h) ==
    /\ udReq[h].pc = "row"
    /\ LET id == udReq[h].id
       IN \/ udRow' = [udRow EXCEPT ![id] = newRow(h)] /\ UNCHANGED <<udPart, udLeft>>
          \/ Spend("events") /\ udPart' = [udPart EXCEPT ![id] = Absent] /\ UNCHANGED udRow
    /\ udReq' = [udReq EXCEPT ![h] = UdIdle] /\ udMu' = IF udMu = h THEN Free ELSE udMu
    /\ UNCHANGED <<udNow, udCache, udTouched, udFin, udSw, udOn, udPast>>

(***************************************************************************)
(* A session in use                                                        *)
(***************************************************************************)
Extended(id) == [udRow EXCEPT ![id].expires = udNow + TTL]

\* A body lands in the part, or in the session's cache directory, and extends the session.
Patch(id) ==
    /\ Live(id) /\ udPart[id] # Absent /\ udFin[id] = "no" /\ Spend("events")
    /\ udRow' = Extended(id)
    /\ IF udRow[id].cached THEN udCache' = [udCache EXCEPT ![id] = "chunk"] /\ UNCHANGED udPart
       ELSE udPart' = [udPart EXCEPT ![id] = udNow] /\ UNCHANGED udCache
    /\ UNCHANGED <<udNow, udTouched, udMu, udReq, udFin, udSw, udOn, udPast>>

mergeStep(id) ==
    /\ udCache[id] = "chunk" /\ Exists(id) /\ udPart[id] # Absent
    /\ udCache' = [udCache EXCEPT ![id] = "empty"] /\ udPart' = [udPart EXCEPT ![id] = udNow]
    /\ UNCHANGED <<udNow, udRow, udTouched, udMu, udReq, udFin, udSw, udOn, udPast, udLeft>>

releaseCache(id) == udCache' = [udCache EXCEPT ![id] = "none"]

\* Finalize past its drain: the row is saved as finalizing and no longer counts against the account.
\* The handlers never get here with a length that was left open.
FinalizeMark(id) ==
    /\ Live(id) /\ udPart[id] # Absent /\ udCache[id] # "chunk" /\ udRow[id].len # Deferred /\ Spend("events")
    /\ udRow' = [udRow EXCEPT ![id].state = "finalizing"] /\ udFin' = [udFin EXCEPT ![id] = "marked"]
    /\ udPast' = [udPast EXCEPT !.lapsed = @ \cup {id}]
    /\ UNCHANGED <<udNow, udPart, udCache, udTouched, udMu, udReq, udSw, udOn>>

\* A client that sent a modification time has it put on the part before the part is published.
SetTimes(id) ==
    /\ udFin[id] = "marked" /\ udFin' = [udFin EXCEPT ![id] = "timed"]
    /\ udPart[id] # Absent /\ udPart' = [udPart EXCEPT ![id] = LongAgo]
    /\ udPast' = [udPast EXCEPT !.dated = @ \cup {id}]
    /\ UNCHANGED <<udNow, udRow, udCache, udTouched, udMu, udReq, udSw, udOn, udLeft>>

\* The part is renamed into place; or that fails, as it does for a part that is gone, and the row receives again.
FinalizePublish(id) ==
    /\ udFin[id] \in {"marked", "timed"}
    /\ \/ /\ udPart[id] # Absent /\ udPart' = [udPart EXCEPT ![id] = Absent]
          /\ udFin' = [udFin EXCEPT ![id] = "published"] /\ UNCHANGED <<udRow, udLeft>>
       \/ /\ (udPart[id] = Absent /\ UNCHANGED udLeft) \/ Spend("events")
          /\ udRow' = [Extended(id) EXCEPT ![id].state = "receiving"] /\ udFin' = [udFin EXCEPT ![id] = "no"] /\ UNCHANGED udPart
    /\ UNCHANGED <<udNow, udCache, udTouched, udMu, udReq, udSw, udOn, udPast>>

\* The row is done and goes, or is left done for the sweep.
FinalizeEnd(id) ==
    /\ udFin[id] = "published" /\ udFin' = [udFin EXCEPT ![id] = "no"] /\ releaseCache(id)
    /\ \/ udRow' = [udRow EXCEPT ![id] = NoRow] /\ UNCHANGED udLeft
       \/ Spend("events") /\ udRow' = [udRow EXCEPT ![id].state = "done"]
    /\ UNCHANGED <<udNow, udPart, udTouched, udMu, udReq, udSw, udOn, udPast>>

\* Abort marks the row, removes the part and the cache directory, then the row, which may survive.
Abort(id) ==
    /\ Live(id) /\ udFin[id] = "no" /\ Spend("events")
    /\ udPart' = [udPart EXCEPT ![id] = Absent] /\ releaseCache(id)
    /\ \E last \in {NoRow, [udRow[id] EXCEPT !.state = "aborted"]} : udRow' = [udRow EXCEPT ![id] = last]
    /\ UNCHANGED <<udNow, udTouched, udMu, udReq, udFin, udSw, udOn, udPast>>

SetCacheEnabled ==
    /\ Spend("events") /\ udOn' = ~udOn
    /\ UNCHANGED <<udNow, udRow, udPart, udCache, udTouched, udMu, udReq, udFin, udSw, udPast>>

(***************************************************************************)
(* The sweep                                                               *)
(***************************************************************************)
Orphan(id) == udPart[id] # Absent /\ ~Exists(id) /\ \A h \in UdReqs : udReq[h] # UdIdle => udReq[h].id # id

MutOldEnough(mtime, now) == now - mtime > TTL

\* sweepDir's grace period, counted to the moment the sweep began.
OldEnough(mtime, now) == now - mtime >= TTL

\* Every session, then every expired one, before anything is touched.
Sweep ==
    /\ udSw = UdIdle /\ Spend("sweeps")
    /\ udSw' = [pc |-> "expired", now |-> udNow, live |-> {id \in UdIds : Exists(id)},
                expired |-> {id \in UdIds : Exists(id) /\ udRow[id].expires <= udNow}, cand |-> {}, dirs |-> {},
                debt |-> {id \in UdIds : Orphan(id) /\ DirOf[id] \in udTouched /\ udNow - udPart[id] >= TTL}]
    /\ UNCHANGED <<udNow, udRow, udPart, udCache, udTouched, udMu, udReq, udFin, udOn, udPast>>

\* One listed session, looked at again behind the fence.
collectExpired(id) ==
    /\ udSw.pc = "expired" /\ id \in udSw.expired /\ udSw' = [udSw EXCEPT !.expired = @ \ {id}]
    /\ IF ~Exists(id) \/ Live(id) \/ udRow[id].state = "finalizing"
       THEN UNCHANGED <<udRow, udPart, udCache, udLeft>>
       ELSE /\ udPart' = [udPart EXCEPT ![id] = Absent] /\ releaseCache(id)
            /\ \/ udRow' = [udRow EXCEPT ![id] = NoRow] /\ UNCHANGED udLeft
               \/ Spend("events") /\ UNCHANGED udRow
    /\ UNCHANGED <<udNow, udTouched, udMu, udReq, udFin, udOn, udPast>>

\* A finalizing row nobody is working on: the part tells whether it was published.
recoverFinalizing(id) ==
    /\ udSw.pc = "expired" /\ id \in udSw.expired /\ udFin[id] = "no" /\ udRow[id].state = "finalizing"
    /\ udSw' = [udSw EXCEPT !.expired = @ \ {id}]
    /\ IF udPart[id] # Absent THEN udRow' = [Extended(id) EXCEPT ![id].state = "receiving"] /\ UNCHANGED udCache
       ELSE udRow' = [udRow EXCEPT ![id] = NoRow] /\ releaseCache(id)
    /\ UNCHANGED <<udNow, udPart, udTouched, udMu, udReq, udFin, udOn, udPast, udLeft>>

touchedDirs ==
    /\ udSw.pc = "expired" /\ udSw.expired = {} /\ udSw' = [udSw EXCEPT !.pc = "dirs", !.dirs = udTouched]
    /\ UNCHANGED <<udNow, udRow, udPart, udCache, udTouched, udMu, udReq, udFin, udOn, udPast, udLeft>>

claimedNames == udSw.live

\* The part files of one directory that no listed session claims.
sweepDir(d) ==
    /\ udSw.pc = "dirs" /\ udSw.cand = {} /\ d \in udSw.dirs
    /\ udSw' = [udSw EXCEPT !.dirs = @ \ {d}, !.cand = {id \in UdIds \ claimedNames : DirOf[id] = d /\ udPart[id] # Absent}]
    /\ UNCHANGED <<udNow, udRow, udPart, udCache, udTouched, udMu, udReq, udFin, udOn, udPast, udLeft>>

MutSweepPart(id) ==
    /\ udSw.pc = "dirs" /\ id \in udSw.cand /\ udSw' = [udSw EXCEPT !.cand = @ \ {id}]
    /\ udPart' = IF udPart[id] # Absent /\ OldEnough(udPart[id], udNow) THEN [udPart EXCEPT ![id] = Absent] ELSE udPart
    /\ UNCHANGED <<udNow, udRow, udCache, udTouched, udMu, udReq, udFin, udOn, udPast, udLeft>>

\* One candidate: its age, then the unlink, which may fail and is left to the next sweep.
SweepPart(id) ==
    /\ udSw.pc = "dirs" /\ id \in udSw.cand
    /\ IF udPart[id] # Absent /\ OldEnough(udPart[id], udSw.now)
       THEN \/ udPart' = [udPart EXCEPT ![id] = Absent] /\ udSw' = [udSw EXCEPT !.cand = @ \ {id}] /\ UNCHANGED udLeft
            \/ Spend("events") /\ udSw' = [udSw EXCEPT !.cand = @ \ {id}, !.debt = @ \ {id}] /\ UNCHANGED udPart
       ELSE udSw' = [udSw EXCEPT !.cand = @ \ {id}] /\ UNCHANGED <<udPart, udLeft>>
    /\ UNCHANGED <<udNow, udRow, udCache, udTouched, udMu, udReq, udFin, udOn, udPast>>

\* The cache directories no listed session claims; they have no grace period.
sweepCache ==
    /\ udSw.pc = "dirs" /\ udSw.dirs = {} /\ udSw.cand = {}
    /\ udSw' = [udSw EXCEPT !.pc = "done"]
    /\ udCache' = [id \in UdIds |-> IF id \in udSw.live THEN udCache[id] ELSE "none"]
    /\ UNCHANGED <<udNow, udRow, udPart, udTouched, udMu, udReq, udFin, udOn, udPast, udLeft>>

SweepEnds ==
    /\ udSw.pc = "done" /\ udSw' = UdIdle
    /\ UNCHANGED <<udNow, udRow, udPart, udCache, udTouched, udMu, udReq, udFin, udOn, udPast, udLeft>>

\* A creation does not take a session's lifetime.
UdTick ==
    /\ udNow < UdMaxClock /\ \A h \in UdReqs : udReq[h] # UdIdle => udNow + 1 - udReq[h].born < TTL
    /\ udNow' = udNow + 1
    /\ UNCHANGED <<udRow, udPart, udCache, udTouched, udMu, udReq, udFin, udSw, udOn, udPast, udLeft>>

\* The process goes; rows, parts, directories and the switch stay.
UdRestart ==
    /\ Spend("events")
    /\ udPast' = [udPast EXCEPT !.stray = @ \cup {udReq[h].id : h \in {g \in UdReqs : udReq[g].pc = "touch"}}]
    /\ udReq' = [h \in UdReqs |-> UdIdle] /\ udMu' = Free /\ udFin' = [id \in UdIds |-> "no"] /\ udSw' = UdIdle
    /\ UNCHANGED <<udNow, udRow, udPart, udCache, udTouched, udOn>>

UdNext ==
    \/ \E h \in UdReqs : Admit(h) \/ createPart(h) \/ TouchUploadDir(h) \/ CreateUploadSession(h)
    \/ \E id \in UdIds : \/ Patch(id) \/ mergeStep(id) \/ FinalizeMark(id) \/ SetTimes(id) \/ FinalizePublish(id) \/ FinalizeEnd(id) \/ Abort(id)
                         \/ collectExpired(id) \/ recoverFinalizing(id) \/ SweepPart(id)
    \/ \E d \in {DirOf[id] : id \in UdIds} : sweepDir(d)
    \/ SetCacheEnabled \/ Sweep \/ touchedDirs \/ sweepCache \/ SweepEnds \/ UdTick \/ UdRestart

UdSpec == UdInit /\ [][UdNext]_udVars

-----------------------------------------------------------------------------
UdTypeOK ==
    /\ udNow \in 0..UdMaxClock /\ udMu \in UdReqs \cup {Free} /\ udTouched \subseteq {DirOf[id] : id \in UdIds}
    /\ \A id \in UdIds : udRow[id].state \in {"none", "receiving", "finalizing", "done", "aborted"} /\ udPart[id] \in (-1..UdMaxClock) \cup {LongAgo}

\* The sweep never takes the part file of a session that can still receive: not of one created after its listing,
\* not of one whose bytes wait in the cache while its part grows old, not of one being created (sweep.go Sweep, sweepDir).
\* Excepted is a part that a publication under way has given the client's own time.
SweepSparesLive == \A id \in UdIds : Live(id) /\ id \notin udPast.dated => udPart[id] # Absent

\* What requests admit together stays within the account's limits; sessions that have been finalizing are not
\* counted (engine.go checkAccountLimits, session.go Create).
AdmittedWithin ==
    LET held == Rows("receiving") \ udPast.lapsed
    IN /\ Cardinality(held) <= SessionsPerUser
       /\ MapThenSumSet(LAMBDA id : ReservedBy(udRow[id].len), held) <= ReservedCap

\* A part file without a row lies in a directory the sweep looks into, after a restart between any two steps of a
\* creation, unless recording the directory failed or was cut off (session.go Create, "must still leave a bounded directory").
OrphanFindable == \A id \in UdIds : Orphan(id) /\ id \notin udPast.stray => DirOf[id] \in udTouched

\* A sweep that runs to its end has taken every orphan that was old enough when it began, but for those it could not unlink.
CollectsDebt == udSw.pc = "done" => \A id \in udSw.debt : udPart[id] = Absent

\* Not so: "Old enough to be a genuine orphan rather than a session created while this sweep ran." (sweep.go), but
\* publish gives the part the client's modification time before the rename, and the sweep then takes it for an orphan.
SweepSparesDated == \A id \in UdIds : Live(id) => udPart[id] # Absent

\* Not so: a session restored to receiving after a failed publication was not counted while it was finalizing.
InFlightWithin == Cardinality(Rows("receiving")) <= SessionsPerUser

\* Not so: sweepCache knows only the sessions of the listing, and removes the directory of one created since.
CacheSpared == [][\A id \in UdIds : udCache[id] = "chunk" /\ udCache'[id] = "none" => ~Live(id)']_udVars
====
