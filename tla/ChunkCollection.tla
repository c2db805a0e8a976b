-------------------------- MODULE ChunkCollection --------------------------
(***************************************************************************)
(* The chunked upload collection of the Nextcloud surface                  *)
(* (internal/nextcloud/davupload.go) over the upload engine's sessions and *)
(* transfer ids (internal/uploads, alias.go, session.go).  A client names  *)
(* an upload by an id of its own choice; every request looks the id up,    *)
(* and acts on what it found in later steps, while other requests of the   *)
(* same account, the sweep and a restart come between.  What the engine    *)
(* does with the chunks themselves is NamedSpool; here a session holds the *)
(* set of chunks it was given.                                             *)
(***************************************************************************)
EXTENDS Integers, FiniteSets, Functions

CONSTANTS CcUsers, Tids,      \* accounts, and the transfer ids clients choose
          CcReqs, CcBudget,   \* requests that may be under way at once, and in all
          Chunks,             \* a whole file's chunks
          SessionsPerUser,    \* limits.UploadSessionsPerUser
          CcMaxSess,          \* bound: sessions ever created
          CcMaxFaults         \* bound: failing steps, restarts and expiries

VARIABLES ccSess,    \* session id -> [user, state, got]
          ccAlias,   \* [user, tid] -> session id
          ccParts,   \* sessions with a part file
          ccReq,     \* request -> [op, user, tid, pc, sess, saw]
          ccAdmit,   \* who holds admissionMu
          ccFile,    \* each account's destination: [ver, got]
          ccLost,    \* sessions whose name a fault or a late unbind took
          ccMade, ccLeft

ccVars == <<ccSess, ccAlias, ccParts, ccReq, ccAdmit, ccFile, ccLost, ccMade, ccLeft>>

Nobody == "nobody"
CcIdle == [op |-> "none", user |-> Nobody, tid |-> Nobody, pc |-> "idle", sess |-> 0, saw |-> 0, hit |-> FALSE]
Nm(r) == [user |-> ccReq[r].user, tid |-> ccReq[r].tid]

CcInit ==
    /\ ccSess = <<>> /\ ccAlias = <<>> /\ ccParts = {} /\ ccAdmit = Nobody /\ ccMade = 0 /\ ccLost = {}
    /\ ccReq = [r \in CcReqs |-> CcIdle] /\ ccFile = [u \in CcUsers |-> [ver |-> 0, got |-> {}, checked |-> 0]]
    /\ ccLeft = [reqs |-> CcBudget, faults |-> CcMaxFaults]

Goto(r, pc) == ccReq' = [ccReq EXCEPT ![r].pc = pc]
CcAnswer(r) == ccReq' = [ccReq EXCEPT ![r] = CcIdle]
CcFault == ccLeft.faults > 0 /\ ccLeft' = [ccLeft EXCEPT !.faults = @ - 1]
Receiving(id) == id \in DOMAIN ccSess /\ ccSess[id].state = "receiving"

\* The row goes and the transfer id stays.
MutDeleteUploadSession(id) ==
    /\ ccSess' = Restrict(ccSess, DOMAIN ccSess \ {id}) /\ UNCHANGED ccAlias

\* DeleteUploadSession: the row and every transfer id that names it, in one transaction.
DeleteUploadSession(id) ==
    /\ ccSess' = Restrict(ccSess, DOMAIN ccSess \ {id})
    /\ ccAlias' = Restrict(ccAlias, {a \in DOMAIN ccAlias : ccAlias[a] /= id})

\* davUpload: a request arrives.
davUpload(r) ==
    /\ ccReq[r].pc = "idle" /\ ccLeft.reqs > 0 /\ ccLeft' = [ccLeft EXCEPT !.reqs = @ - 1]
    /\ \E op \in {"MKCOL", "PUT", "MOVE", "DELETE"}, u \in CcUsers, t \in Tids :
           ccReq' = [ccReq EXCEPT ![r] = [CcIdle EXCEPT !.op = op, !.user = u, !.tid = t, !.pc = "lookup"]]
    /\ UNCHANGED <<ccSess, ccAlias, ccParts, ccAdmit, ccFile, ccLost, ccMade>>

\* LookupAlias, within the caller's account: MKCOL of a bound name is answered 201, anything else of an
\* unbound one 404.
LookupAlias(r) ==
    /\ ccReq[r].pc = "lookup"
    /\ LET found == Nm(r) \in DOMAIN ccAlias
           next == CASE ccReq[r].op = "PUT" -> "put" [] ccReq[r].op = "MOVE" -> "stat" [] OTHER -> "abort"
       IN IF ccReq[r].op = "MKCOL"
          THEN IF found THEN CcAnswer(r) ELSE Goto(r, "admit")
          ELSE IF found THEN ccReq' = [ccReq EXCEPT ![r].pc = next, ![r].sess = ccAlias[Nm(r)]] ELSE CcAnswer(r)
    /\ UNCHANGED <<ccSess, ccAlias, ccParts, ccAdmit, ccFile, ccLost, ccMade, ccLeft>>

---------------------------------------------------------------------------
\* The limits are read without the lock that covers the insert.
MutAdmission(r) == TRUE

\* Create holds admissionMu from the limits to the row.
admission(r) == ccAdmit = Nobody

\* checkAccountLimits counts the account's receiving rows.
checkAccountLimits(u) ==
    Cardinality({id \in DOMAIN ccSess : Receiving(id) /\ ccSess[id].user = u}) < SessionsPerUser

\* Create: the limits, then the part file, whose directory is noted for the sweep.
createPart(r) ==
    /\ ccReq[r].pc = "admit" /\ admission(r)
    /\ IF checkAccountLimits(ccReq[r].user)
       THEN /\ ccMade < CcMaxSess /\ ccMade' = ccMade + 1
            /\ ccParts' = ccParts \cup {ccMade + 1} /\ ccAdmit' = r
            /\ ccReq' = [ccReq EXCEPT ![r].pc = "row", ![r].sess = ccMade + 1]
       ELSE CcAnswer(r) /\ UNCHANGED <<ccParts, ccAdmit, ccMade>>
    /\ UNCHANGED <<ccSess, ccAlias, ccFile, ccLost, ccLeft>>

\* The row is inserted, and admissionMu released; a failed insert discards the part file.
CreateUploadSession(r) ==
    /\ ccReq[r].pc = "row" /\ ccAdmit' = Nobody
    /\ LET id == ccReq[r].sess
           row == [user |-> ccReq[r].user, state |-> "receiving", got |-> {}]
       IN \/ /\ ccSess' = [x \in DOMAIN ccSess \cup {id} |-> IF x = id THEN row ELSE ccSess[x]]
             /\ Goto(r, "bind") /\ UNCHANGED <<ccParts, ccLeft>>
          \/ /\ CcFault /\ ccParts' = ccParts \ {id} /\ CcAnswer(r) /\ UNCHANGED ccSess
    /\ UNCHANGED <<ccAlias, ccFile, ccLost, ccMade>>

\* The loser of the race keeps its session.
MutUploadCreate(taken) == "idle"

\* After the bind: the loser aborts its own session, the winner is done.
uploadCreate(taken) == IF taken THEN "orphan" ELSE "idle"

\* BindAlias: bound unless the account already holds the name; a failed write leaves the session to the sweep.
BindAlias(r) ==
    /\ ccReq[r].pc = "bind"
    /\ LET id == ccReq[r].sess
           taken == Nm(r) \in DOMAIN ccAlias
       IN \/ /\ ccAlias' = IF taken THEN ccAlias
                           ELSE [a \in DOMAIN ccAlias \cup {Nm(r)} |-> IF a = Nm(r) THEN id ELSE ccAlias[a]]
             /\ IF uploadCreate(taken) = "idle" THEN CcAnswer(r) ELSE Goto(r, "abort")
             /\ UNCHANGED <<ccLost, ccLeft>>
          \/ CcFault /\ ccLost' = ccLost \cup {id} /\ CcAnswer(r) /\ UNCHANGED ccAlias
    /\ UNCHANGED <<ccSess, ccParts, ccAdmit, ccFile, ccMade>>

---------------------------------------------------------------------------
\* PutNamed of the session the lookup found: refused unless it is still receiving.
uploadPutChunk(r) ==
    /\ ccReq[r].pc = "put" /\ CcAnswer(r)
    /\ IF Receiving(ccReq[r].sess)
       THEN \E c \in Chunks : ccSess' = [ccSess EXCEPT ![ccReq[r].sess].got = @ \cup {c}]
       ELSE UNCHANGED ccSess
    /\ UNCHANGED <<ccAlias, ccParts, ccAdmit, ccFile, ccLost, ccMade, ccLeft>>

\* uploadAssemble compares If-Match with a stat of its own; Assemble is given no validator.
checkIfMatch(r) ==
    /\ ccReq[r].pc = "stat"
    /\ \E pinned \in BOOLEAN :
           ccReq' = [ccReq EXCEPT ![r].pc = "assemble", ![r].saw = ccFile[ccReq[r].user].ver, ![r].hit = pinned]
    /\ UNCHANGED <<ccSess, ccAlias, ccParts, ccAdmit, ccFile, ccLost, ccMade, ccLeft>>

\* Assemble: an incomplete or finished session is refused; a whole one is published, and its row deleted.
Assemble(r) ==
    /\ ccReq[r].pc = "assemble"
    /\ LET id == ccReq[r].sess
           u == ccReq[r].user
       IN IF Receiving(id) /\ ccSess[id].got = Chunks
          THEN /\ ccFile' = [ccFile EXCEPT ![u] = [ver |-> @.ver + 1, got |-> ccSess[id].got,
                                                    checked |-> IF ccReq[r].hit THEN ccReq[r].saw ELSE @.ver]]
               /\ DeleteUploadSession(id) /\ ccParts' = ccParts \ {id} /\ Goto(r, "unbind")
          ELSE CcAnswer(r) /\ UNCHANGED <<ccFile, ccSess, ccAlias, ccParts>>
    /\ UNCHANGED <<ccAdmit, ccLost, ccMade, ccLeft>>

\* Abort: refused for a session that is gone; the row is marked before anything is removed.
AbortMark(r) ==
    /\ ccReq[r].pc = "abort"
    /\ IF ccReq[r].sess \in DOMAIN ccSess
       THEN ccSess' = [ccSess EXCEPT ![ccReq[r].sess].state = "aborted"] /\ Goto(r, "remove")
       ELSE CcAnswer(r) /\ UNCHANGED ccSess
    /\ UNCHANGED <<ccAlias, ccParts, ccAdmit, ccFile, ccLost, ccMade, ccLeft>>

\* removeAbortedSession: part file, then row; a failed unlink leaves the aborted row, and its alias, for the sweep.
removeAborted(r) ==
    /\ ccReq[r].pc = "remove"
    /\ \/ /\ ccParts' = ccParts \ {ccReq[r].sess} /\ DeleteUploadSession(ccReq[r].sess)
          /\ IF ccReq[r].op = "DELETE" THEN Goto(r, "unbind") ELSE CcAnswer(r)
          /\ UNCHANGED ccLeft
       \/ CcFault /\ CcAnswer(r) /\ UNCHANGED <<ccParts, ccSess, ccAlias>>
    /\ UNCHANGED <<ccAdmit, ccFile, ccLost, ccMade>>

\* UnbindAlias, by the account and the name, whatever session the name stands for now.
UnbindAlias(r) ==
    /\ ccReq[r].pc = "unbind" /\ CcAnswer(r)
    /\ ccLost' = ccLost \cup {ccAlias[a] : a \in DOMAIN ccAlias \cap {Nm(r)}}
    /\ ccAlias' = Restrict(ccAlias, DOMAIN ccAlias \ {Nm(r)})
    /\ UNCHANGED <<ccSess, ccParts, ccAdmit, ccFile, ccMade, ccLeft>>

---------------------------------------------------------------------------
\* The sweep collects a session that expired, or was aborted; a session just created has its lifetime ahead.
collectExpired ==
    /\ \E id \in DOMAIN ccSess :
           /\ ccSess[id].state = "receiving" => CcFault /\ \A r \in CcReqs : ccReq[r].sess = id => ccReq[r].pc /= "bind"
           /\ ccSess[id].state = "aborted" => UNCHANGED ccLeft
           /\ DeleteUploadSession(id) /\ ccParts' = ccParts \ {id}
    /\ UNCHANGED <<ccReq, ccAdmit, ccFile, ccLost, ccMade>>

\* sweepDir: a part file no row claims, in a directory an upload touched, once its grace has passed.
sweepDir ==
    /\ \E id \in ccParts \ DOMAIN ccSess :
           /\ \A r \in CcReqs : ccReq[r].sess = id => ccReq[r].pc /= "row"
           /\ ccParts' = ccParts \ {id}
    /\ UNCHANGED <<ccSess, ccAlias, ccReq, ccAdmit, ccFile, ccLost, ccMade, ccLeft>>

\* The process stops: requests end where they are, the rows and the files stay.
CcRestart ==
    /\ CcFault /\ ccAdmit' = Nobody /\ ccReq' = [r \in CcReqs |-> CcIdle]
    /\ ccLost' = ccLost \cup {ccReq[r].sess : r \in {q \in CcReqs : ccReq[q].pc \in {"bind", "abort", "remove"}}}
    /\ UNCHANGED <<ccSess, ccAlias, ccParts, ccFile, ccMade>>

CcNext ==
    \/ \E r \in CcReqs :
           \/ davUpload(r) \/ LookupAlias(r) \/ createPart(r) \/ CreateUploadSession(r) \/ BindAlias(r)
           \/ uploadPutChunk(r) \/ checkIfMatch(r) \/ Assemble(r) \/ AbortMark(r) \/ removeAborted(r) \/ UnbindAlias(r)
    \/ collectExpired \/ sweepDir \/ CcRestart

CcSpec == CcInit /\ [][CcNext]_ccVars

CcTypeOK ==
    /\ DOMAIN ccSess \subseteq 1..ccMade /\ ccParts \subseteq 1..ccMade
    /\ \A id \in DOMAIN ccSess : ccSess[id].got \subseteq Chunks /\ ccSess[id].state \in {"receiving", "aborted"}
    /\ ccAdmit \in CcReqs \cup {Nobody}

\* A transfer id always leads to a session that exists and is the account's own (BindAlias,
\* DeleteUploadSession): no request is led to a released session, however requests and the sweep race.
AliasLeadsToOwn ==
    \A a \in DOMAIN ccAlias : ccAlias[a] \in DOMAIN ccSess /\ ccSess[ccAlias[a]].user = a.user

\* No session is left that nothing will ever address: one without a transfer id belongs to a MKCOL still
\* under way or to its abort, unless a failed step, a restart or a late unbind took the name (uploadCreate).
NoStrandedSession ==
    \A id \in DOMAIN ccSess :
        \/ \E a \in DOMAIN ccAlias : ccAlias[a] = id
        \/ \E r \in CcReqs : ccReq[r].sess = id /\ ccReq[r].pc \in {"bind", "abort", "remove"}
        \/ ccSess[id].state = "aborted" \/ id \in ccLost

\* Concurrent MKCOLs never promise an account more sessions than its limit (admissionMu in Create).
AdmissionBound ==
    \A u \in CcUsers :
        Cardinality({id \in DOMAIN ccSess : Receiving(id) /\ ccSess[id].user = u}) <= SessionsPerUser

\* A request unbinds only the name of the session it ended itself (the code deletes by account and name).
UnbindsOwn == [][\A r \in CcReqs : ccReq[r].pc = "unbind" /\ ccReq'[r].pc = "idle" /\ ccLeft'.faults = ccLeft.faults =>
                     Nm(r) \notin DOMAIN ccAlias]_ccVars

\* A publication that was conditional replaced the version its condition was compared with.
IfMatchHonoured == \A u \in CcUsers : ccFile[u].ver > 0 => ccFile[u].checked = ccFile[u].ver - 1

=============================================================================
