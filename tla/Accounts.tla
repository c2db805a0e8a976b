------------------------------ MODULE Accounts ------------------------------
(***************************************************************************)
(* The account directory and what hangs on it: the setup gate that makes   *)
(* the first administrator (internal/admin), the administrator's account   *)
(* requests (internal/admin, internal/auth, internal/db/state/authuser.go) *)
(* and the home directories of internal/files/home.go.                     *)
(*                                                                         *)
(* A request is the sequence of commits its handler makes. An account id   *)
(* and a login name can both be taken again after a deletion; `born' tells *)
(* the accounts apart, and a home holds the marks of the accounts whose    *)
(* files are in it. The permission evaluator answers from a copy of the    *)
(* home grants that a commit refreshes in a later step.                    *)
(***************************************************************************)
EXTENDS Naturals, FiniteSets, FiniteSetsExt

CONSTANTS AcNames, AcRequests, MaxAccounts,
          AcSeeds,      \* the account tables a first start can find
          AcBudget,     \* requests in all
          AcEvents      \* faults, restarts and switches of the homes share in all

VARIABLES acUser,    \* the account rows: id -> [name, admin, disabled, born]
          acGate,    \* the setup gate: issued, expired, used
          acGrant,   \* the home grants: id -> [dir, born]
          acEval,    \* the same as the evaluator holds them
          acDir,     \* the homes tree: directory -> the accounts whose files it holds
          acHomes,   \* the homes share is registered
          acLock,    \* who holds homeOnce
          acReq,     \* the requests in flight
          acMade,    \* how many administrators setup made, and whether its grant failed after one
          acLate,    \* a step landed for an account that had been deleted meanwhile
          acLag,     \* a deletion has committed and the evaluator has not been refreshed since
          acLeft

acVars == <<acUser, acGate, acGrant, acEval, acDir, acHomes, acLock, acReq, acMade, acLate, acLag, acLeft>>

AcIds == 1..MaxAccounts
NoOne == [name |-> "", admin |-> FALSE, disabled |-> FALSE, born |-> 0]
AcIdle == [pc |-> "idle", id |-> 0, who |-> NoOne, off |-> FALSE, dir |-> ""]
Empty == [i \in {} |-> NoOne]
With(f, i, v) == [j \in DOMAIN f \union {i} |-> IF j = i THEN v ELSE f[j]]
Without(f, i) == [j \in DOMAIN f \ {i} |-> f[j]]

AcInit ==
    /\ acUser \in AcSeeds
    /\ acGate = [issued |-> FALSE, expired |-> FALSE, used |-> FALSE]
    /\ acGrant = Empty /\ acEval = Empty /\ acDir = Empty
    /\ acHomes \in BOOLEAN /\ acLock = "free"
    /\ acReq = [q \in AcRequests |-> AcIdle]
    /\ acMade = [admins |-> 0, torn |-> FALSE] /\ acLate = FALSE /\ acLag = FALSE
    /\ acLeft = [requests |-> AcBudget, events |-> AcEvents, born |-> 1 + Cardinality(DOMAIN acUser)]

AcFault == acLeft.events > 0 /\ acLeft' = [acLeft EXCEPT !.events = @ - 1]
AcStart(q, r) ==
    /\ acReq[q].pc = "idle" /\ acLeft.requests > 0
    /\ acReq' = [acReq EXCEPT ![q] = r]
    /\ acLeft' = [acLeft EXCEPT !.requests = @ - 1]
AcEnd(q) == acReq' = [acReq EXCEPT ![q] = AcIdle]
AcGo(q, pc) == acReq' = [acReq EXCEPT ![q].pc = pc]

\* The account a request was made for is still the one behind its id.
Same(q) == acReq[q].id \in DOMAIN acUser /\ acUser[acReq[q].id].born = acReq[q].who.born

ActiveAdmin(i, users) == i \in DOMAIN users /\ users[i].admin /\ ~users[i].disabled

(***************************************************************************)
(* The account rows                                                        *)
(***************************************************************************)

CountUsers == Cardinality(DOMAIN acUser)
NewId == IF acUser = Empty THEN 1 ELSE Max(DOMAIN acUser) + 1
NameTaken(n) == \E i \in DOMAIN acUser : acUser[i].name = n

CreateAccount(n, admin) ==
    /\ ~NameTaken(n) /\ NewId <= MaxAccounts
    /\ acUser' = With(acUser, NewId, [name |-> n, admin |-> admin, disabled |-> FALSE, born |-> acLeft.born])

\* Refuses the write that would leave nobody who can sign in and administer.
MutGuardLastAdmin(i) == acUser[i].admin => \E j \in DOMAIN acUser \ {i} : acUser[j].admin
guardLastAdmin(i) == ActiveAdmin(i, acUser) => \E j \in DOMAIN acUser \ {i} : ActiveAdmin(j, acUser)

\* The row, its home grant and the rest of what references it, in one transaction.
DeleteAccount(i) ==
    /\ acUser' = Without(acUser, i)
    /\ acGrant' = Without(acGrant, i)

ReloadHomeGrants == acEval' = acGrant /\ acLag' = FALSE

\* A grant for this account, over the directory of its name and no other.
validHomeGrant(i) == i \in DOMAIN acUser /\ i \in DOMAIN acGrant /\ acGrant[i].dir = acUser[i].name

(***************************************************************************)
(* The setup gate                                                          *)
(***************************************************************************)

GateOpen == CountUsers = 0

IssueToken ==
    /\ GateOpen /\ ~acGate.issued
    /\ acGate' = [issued |-> TRUE, expired |-> FALSE, used |-> FALSE]
    /\ UNCHANGED <<acUser, acGrant, acEval, acDir, acHomes, acLock, acReq, acMade, acLate, acLag, acLeft>>

TokenExpires ==
    /\ acGate.issued /\ ~acGate.expired /\ acGate' = [acGate EXCEPT !.expired = TRUE]
    /\ UNCHANGED <<acUser, acGrant, acEval, acDir, acHomes, acLock, acReq, acMade, acLate, acLag, acLeft>>

\* A token checked but not spent.
Mutcheck(gate) == gate.issued /\ ~gate.expired
check(gate) == gate.issued /\ ~gate.expired /\ ~gate.used

\* Whether setup is over is asked before the gate's mutex is taken.
SetupPost(q) ==
    /\ GateOpen
    /\ \E n \in AcNames : AcStart(q, [AcIdle EXCEPT !.pc = "setup", !.who.name = n])
    /\ UNCHANGED <<acUser, acGate, acGrant, acEval, acDir, acHomes, acLock, acMade, acLate, acLag>>

\* Under the mutex: the account, then its grants. A refused grant leaves the token unspent.
Use(q) ==
    LET r == acReq[q] IN
    /\ r.pc = "setup"
    /\ \/ /\ ~check(acGate) \/ NameTaken(r.who.name)
          /\ AcEnd(q) /\ UNCHANGED <<acUser, acGate, acMade, acLeft>>
       \/ /\ check(acGate) /\ CreateAccount(r.who.name, TRUE)
          /\ \/ /\ acGate' = [acGate EXCEPT !.used = TRUE]
                /\ acMade' = [acMade EXCEPT !.admins = @ + 1]
                /\ acLeft' = [acLeft EXCEPT !.born = @ + 1]
             \/ /\ acLeft.events > 0
                /\ acLeft' = [acLeft EXCEPT !.events = @ - 1, !.born = @ + 1]
                /\ acMade' = [admins |-> acMade.admins + 1, torn |-> TRUE]
                /\ UNCHANGED acGate
          /\ acReq' = [acReq EXCEPT ![q] = [AcIdle EXCEPT !.pc = "lock", !.id = NewId, !.who = acUser'[NewId]]]
    /\ UNCHANGED <<acGrant, acEval, acDir, acHomes, acLock, acLate, acLag>>

(***************************************************************************)
(* The administrator's requests                                            *)
(***************************************************************************)

UsersCreate(q) ==
    /\ \E a \in DOMAIN acUser : ActiveAdmin(a, acUser)
    /\ acReq[q].pc = "idle" /\ acLeft.requests > 0
    /\ \E n \in AcNames : CreateAccount(n, FALSE)
    /\ acReq' = [acReq EXCEPT ![q] = [AcIdle EXCEPT !.pc = "lock", !.id = NewId, !.who = acUser'[NewId]]]
    /\ acLeft' = [acLeft EXCEPT !.requests = @ - 1, !.born = @ + 1]
    /\ UNCHANGED <<acGate, acGrant, acEval, acDir, acHomes, acLock, acMade, acLate, acLag>>

\* Disabling or enabling an account; an administrator may not disable itself.
UsersUpdate(q) ==
    /\ \E a \in DOMAIN acUser, i \in DOMAIN acUser, off \in BOOLEAN :
          /\ ActiveAdmin(a, acUser) /\ (off => a # i)
          /\ AcStart(q, [AcIdle EXCEPT !.pc = "disable", !.id = i, !.who = acUser[i], !.off = off])
    /\ UNCHANGED <<acUser, acGate, acGrant, acEval, acDir, acHomes, acLock, acMade, acLate, acLag>>

setDisabled(q) ==
    LET r == acReq[q] IN
    /\ r.pc = "disable" /\ AcEnd(q)
    /\ acUser' = IF r.id \in DOMAIN acUser /\ (r.off => guardLastAdmin(r.id))
                 THEN [acUser EXCEPT ![r.id].disabled = r.off] ELSE acUser
    /\ acLate' = (acLate \/ ~Same(q))
    /\ UNCHANGED <<acGate, acGrant, acEval, acDir, acHomes, acLock, acMade, acLag, acLeft>>

UsersDelete(q) ==
    /\ \E a \in DOMAIN acUser, i \in DOMAIN acUser :
          /\ ActiveAdmin(a, acUser) /\ a # i
          /\ AcStart(q, [AcIdle EXCEPT !.pc = "cleanup", !.id = i, !.who = acUser[i]])
    /\ UNCHANGED <<acUser, acGate, acGrant, acEval, acDir, acHomes, acLock, acMade, acLate, acLag>>

\* The home goes first, and a home that could not be removed does not keep the account.
CleanupHome(q) ==
    LET r == acReq[q] IN
    /\ r.pc = "cleanup" /\ AcGo(q, "delete")
    /\ \/ /\ acHomes /\ validHomeGrant(r.id)
          /\ acDir' = Without(acDir, acGrant[r.id].dir) /\ UNCHANGED acLeft
       \/ ~(acHomes /\ validHomeGrant(r.id)) /\ UNCHANGED <<acDir, acLeft>>
       \/ AcFault /\ UNCHANGED acDir
    /\ UNCHANGED <<acUser, acGate, acGrant, acEval, acHomes, acLock, acMade, acLate, acLag>>

DeleteUser(q) ==
    LET r == acReq[q] IN
    /\ r.pc = "delete"
    /\ IF r.id \in DOMAIN acUser /\ guardLastAdmin(r.id)
       THEN DeleteAccount(r.id) /\ AcGo(q, "reload") /\ acLag' = TRUE
       ELSE AcEnd(q) /\ UNCHANGED <<acUser, acGrant, acLag>>
    /\ acLate' = (acLate \/ ~Same(q))
    /\ UNCHANGED <<acGate, acEval, acDir, acHomes, acLock, acMade, acLeft>>

\* The evaluator is refreshed after the commit; a failed refresh is only logged.
MutMembershipChanged(q) ==
    /\ acReq[q].pc = "reload" /\ AcEnd(q) /\ acLag' = FALSE
    /\ UNCHANGED <<acUser, acGate, acGrant, acEval, acDir, acHomes, acLock, acMade, acLate, acLeft>>
membershipChanged(q) ==
    /\ acReq[q].pc = "reload" /\ AcEnd(q)
    /\ \/ ReloadHomeGrants /\ UNCHANGED acLeft
       \/ AcFault /\ UNCHANGED <<acEval, acLag>>
    /\ UNCHANGED <<acUser, acGate, acGrant, acDir, acHomes, acLock, acMade, acLate>>

(***************************************************************************)
(* The homes                                                               *)
(***************************************************************************)

userHasHome(i) == i \in DOMAIN acEval

\* Any access by an account prepares its home first.
RootsOf(q) ==
    /\ \E i \in DOMAIN acUser :
          /\ ~acUser[i].disabled
          /\ AcStart(q, [AcIdle EXCEPT !.pc = "lock", !.id = i, !.who = acUser[i]])
    /\ UNCHANGED <<acUser, acGate, acGrant, acEval, acDir, acHomes, acLock, acMade, acLate, acLag>>

\* Named after the login the account has now.
homeDirName(i) == IF i \in DOMAIN acUser THEN acUser[i].name ELSE "#"

ensureHome(q) ==
    LET r == acReq[q] IN
    /\ r.pc = "lock"
    /\ IF ~acHomes \/ userHasHome(r.id) THEN AcEnd(q) /\ UNCHANGED acLock
       ELSE /\ acLock = "free" /\ acLock' = q
            /\ acReq' = [acReq EXCEPT ![q].pc = "look", ![q].dir = homeDirName(r.id)]
    /\ UNCHANGED <<acUser, acGate, acGrant, acEval, acDir, acHomes, acMade, acLate, acLag, acLeft>>

\* A directory that holds somebody's files is not handed to the account that has the name now.
MutHomeLook(q) ==
    /\ acReq[q].pc = "look" /\ AcGo(q, "mkdir")
    /\ UNCHANGED <<acUser, acGate, acGrant, acEval, acDir, acHomes, acLock, acMade, acLate, acLag, acLeft>>
HomeLook(q) ==
    LET r == acReq[q] IN
    /\ r.pc = "look"
    /\ IF r.dir \in DOMAIN acDir /\ acDir[r.dir] # {}
       THEN AcEnd(q) /\ acLock' = "free"
       ELSE AcGo(q, "mkdir") /\ UNCHANGED acLock
    /\ UNCHANGED <<acUser, acGate, acGrant, acEval, acDir, acHomes, acMade, acLate, acLag, acLeft>>

\* The directory before the grant, so that no grant names a home that was never made.
HomeMkdir(q) ==
    LET r == acReq[q] IN
    /\ r.pc = "mkdir" /\ AcGo(q, "grant")
    /\ acDir' = IF r.dir \in DOMAIN acDir THEN acDir ELSE With(acDir, r.dir, {})
    /\ UNCHANGED <<acUser, acGate, acGrant, acEval, acHomes, acLock, acMade, acLate, acLag, acLeft>>

\* The row belongs to whoever has the id; an account that is gone has none.
createHomeGrant(q) ==
    LET r == acReq[q] IN
    /\ r.pc = "grant"
    /\ IF r.id \in DOMAIN acUser
       THEN /\ AcGo(q, "homeReload") /\ UNCHANGED acLock
            /\ acGrant' = With(acGrant, r.id, [dir |-> r.dir, born |-> acUser[r.id].born])
       ELSE AcEnd(q) /\ acLock' = "free" /\ UNCHANGED acGrant
    /\ acLate' = (acLate \/ ~Same(q))
    /\ UNCHANGED <<acUser, acGate, acEval, acDir, acHomes, acMade, acLag, acLeft>>

HomeReload(q) ==
    /\ acReq[q].pc = "homeReload" /\ AcEnd(q) /\ acLock' = "free"
    /\ \/ ReloadHomeGrants /\ UNCHANGED acLeft
       \/ AcFault /\ UNCHANGED <<acEval, acLag>>
    /\ UNCHANGED <<acUser, acGate, acGrant, acDir, acHomes, acMade, acLate>>

\* A home whose directory went missing is made again under the granted name.
PrepareHome ==
    /\ acHomes
    /\ \E i \in DOMAIN acUser :
          /\ userHasHome(i) /\ validHomeGrant(i) /\ acGrant[i].dir \notin DOMAIN acDir
          /\ acDir' = With(acDir, acGrant[i].dir, {})
    /\ UNCHANGED <<acUser, acGate, acGrant, acEval, acHomes, acLock, acReq, acMade, acLate, acLag, acLeft>>

\* A write resolves its home once and lands later.
ResolveWrite(q) ==
    /\ acHomes
    /\ \E i \in DOMAIN acUser \intersect DOMAIN acEval :
          /\ ~acUser[i].disabled
          /\ AcStart(q, [AcIdle EXCEPT !.pc = "write", !.id = i, !.who = acUser[i], !.dir = acEval[i].dir])
    /\ UNCHANGED <<acUser, acGate, acGrant, acEval, acDir, acHomes, acLock, acMade, acLate, acLag>>

LandWrite(q) ==
    LET r == acReq[q] IN
    /\ r.pc = "write" /\ AcEnd(q)
    /\ acDir' = IF r.dir \in DOMAIN acDir THEN [acDir EXCEPT ![r.dir] = @ \union {r.who.born}] ELSE acDir
    /\ acLate' = (acLate \/ ~Same(q))
    /\ UNCHANGED <<acUser, acGate, acGrant, acEval, acHomes, acLock, acMade, acLag, acLeft>>

\* Enabling drops every home grant that is not one account's own directory.
EnableHomes ==
    /\ ~acHomes /\ acLock = "free" /\ acLeft.events > 0
    /\ acLeft' = [acLeft EXCEPT !.events = @ - 1]
    /\ acGrant' = [i \in {j \in DOMAIN acGrant : validHomeGrant(j)} |-> acGrant[i]]
    /\ acEval' = acGrant' /\ acLag' = FALSE /\ acHomes' = TRUE
    /\ UNCHANGED <<acUser, acGate, acDir, acLock, acReq, acMade, acLate>>

DisableHomes ==
    /\ acHomes /\ acLock = "free" /\ acLeft.events > 0
    /\ acLeft' = [acLeft EXCEPT !.events = @ - 1] /\ acHomes' = FALSE
    /\ UNCHANGED <<acUser, acGate, acGrant, acEval, acDir, acLock, acReq, acMade, acLate, acLag>>

AcRestart ==
    /\ acLeft.events > 0 /\ acLeft' = [acLeft EXCEPT !.events = @ - 1]
    /\ acReq' = [q \in AcRequests |-> AcIdle] /\ acLock' = "free"
    /\ acGate' = [issued |-> FALSE, expired |-> FALSE, used |-> FALSE]
    /\ ReloadHomeGrants
    /\ UNCHANGED <<acUser, acGrant, acDir, acHomes, acMade, acLate>>

AcNext ==
    \/ IssueToken \/ TokenExpires \/ PrepareHome \/ EnableHomes \/ DisableHomes \/ AcRestart
    \/ \E q \in AcRequests :
          \/ SetupPost(q) \/ Use(q) \/ UsersCreate(q) \/ UsersUpdate(q) \/ setDisabled(q)
          \/ UsersDelete(q) \/ CleanupHome(q) \/ DeleteUser(q) \/ membershipChanged(q)
          \/ RootsOf(q) \/ ensureHome(q) \/ HomeLook(q) \/ HomeMkdir(q) \/ createHomeGrant(q)
          \/ HomeReload(q) \/ ResolveWrite(q) \/ LandWrite(q)

AcSpec == AcInit /\ [][AcNext]_acVars

(***************************************************************************)
(* Properties                                                              *)
(***************************************************************************)

AcTypeOK ==
    /\ DOMAIN acUser \subseteq AcIds /\ DOMAIN acGrant \subseteq DOMAIN acUser
    /\ acLock \in AcRequests \union {"free"}
    /\ \A i \in DOMAIN acUser, j \in DOMAIN acUser : acUser[i].name = acUser[j].name => i = j
    /\ acHomes \in BOOLEAN /\ acLate \in BOOLEAN /\ acLag \in BOOLEAN

\* Two setup requests that arrive together, with one token, make one administrator, unless the
\* account was made and its grants were refused, which leaves the token usable.
FirstAdminOnce == ~acMade.torn => acMade.admins <= 1

\* Whatever administrators do to each other at the same time, somebody who can sign in and
\* administer is left.
AdminRemains == acUser # Empty => \E i \in DOMAIN acUser : ActiveAdmin(i, acUser)

\* A home holds its own account's files only, though names, ids and directories outlive accounts,
\* unless a step that had resolved before a deletion lands after it.
HomePrivate ==
    ~acLate => \A i \in DOMAIN acGrant :
        acGrant[i].dir \in DOMAIN acDir => acDir[acGrant[i].dir] \subseteq {acUser[i].born}

\* The evaluator serves an account the home granted to it and not to an earlier holder of its id,
\* once a deletion has refreshed it.
ReachesOwnHome ==
    ~acLag /\ ~acLate => \A i \in DOMAIN acEval \intersect DOMAIN acUser :
        acEval[i].born = acUser[i].born

\* What the setup gate's comment says without the exception.
OneFirstAdmin == acMade.admins <= 1
=============================================================================
