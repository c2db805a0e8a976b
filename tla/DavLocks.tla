------------------------------ MODULE DavLocks -------------------------------
(***************************************************************************)
(* The WebDAV lock table: LOCK, refresh, UNLOCK and the guard in front of  *)
(* every write (internal/dav/lock_method.go, locks.go, ifheader.go,        *)
(* handler.go, content.go, transfer.go, internal/dav/lock/davlock.go) over *)
(* the dav_lock rows (internal/db/state/davlock.go, dav.go).  A request    *)
(* reads the clock once and uses that instant in the statements it runs    *)
(* later.  A path is the sequence of its components; the share's own root  *)
(* is the empty one, which the code writes as the empty string.            *)
(***************************************************************************)
EXTENDS Integers, FiniteSets, Sequences, SequencesExt

CONSTANTS
    LockPaths,      \* paths clients name
    LockUsers,
    LockHandlers,   \* concurrent requests
    MaxTokens,      \* locks ever taken
    LockAsks,       \* the locks clients ask for: user, path, infinite, shared, lease
    WriteAsks,      \* the writes they send: op, user, path, to
    Leases,         \* timeouts a refresh asks for, 0 when it asks for none
    DefaultTimeout,
    MaxTimeout,
    LocksPerUser,   \* DavLocksPerUser
    MaxLockClock    \* bound on time

VARIABLES
    dlRows,         \* dav_lock
    dlFiles,        \* paths that exist
    dlClock,
    dlTokens,       \* tokens minted so far
    dlReq           \* requests in flight

dlVars == <<dlRows, dlFiles, dlClock, dlTokens, dlReq>>

NoReq == [at |-> "idle"]
Return(h) == dlReq' = [dlReq EXCEPT ![h] = NoReq]

DlInit ==
    /\ dlRows = {} /\ dlClock = 0 /\ dlTokens = 0
    /\ dlFiles = {p \in LockPaths : Len(p) <= 1}
    /\ dlReq = [h \in LockHandlers |-> NoReq]

clampTimeout(d) == IF d <= 0 THEN DefaultTimeout ELSE IF d > MaxTimeout THEN MaxTimeout ELSE d

------------------------------------------------------------------------------
(* Rows                                                                    *)

isDescendant(child, parent) == child # parent /\ IsPrefix(parent, child)
covers(l, p) == l.path = p \/ (l.infinite /\ isDescendant(p, l.path))

(* The boundary is a separator, which the empty path has not: a share's    *)
(* root covers nothing here.                                               *)
pathCovers(ancestor, descendant) ==
    ancestor = descendant \/ (ancestor # <<>> /\ IsPrefix(ancestor, descendant))
locksOverlap(held, want) ==
    \/ held.path = want.path
    \/ held.infinite /\ pathCovers(held.path, want.path)
    \/ want.infinite /\ pathCovers(want.path, held.path)
LocksConflict(held, want) == ~(held.shared /\ want.shared) /\ locksOverlap(held, want)

DavLocksAt(now) == {l \in dlRows : l.expires > now}
Swept(now) == {l \in dlRows : l.expires > now}

Admissible(l, now) ==
    /\ \A held \in DavLocksAt(now) : ~LocksConflict(held, l)
    /\ Cardinality({x \in DavLocksAt(now) : x.who = l.who}) < LocksPerUser

MutAdmitUnswept(l, now) == Admissible(l, now) /\ dlRows' = dlRows \cup {l}

(* One transaction: sweep, conflicts, the account's count, insert.         *)
AdmitDavLock(l, now) == Admissible(l, now) /\ dlRows' = Swept(now) \cup {l}

RefreshDavLock(token, expires, now) ==
    dlRows' = {IF l.token = token /\ l.expires > now THEN [l EXCEPT !.expires = expires] ELSE l :
                 l \in dlRows}
DropDavLock(token) == dlRows' = {l \in dlRows : l.token # token}

------------------------------------------------------------------------------
(* The guard.  An If header is a set of lists, a list a set of conditions  *)
(* on lock tokens; a token counts as submitted when a list that holds      *)
(* names it and not behind a Not.                                          *)

TokensAt(p) == {l.token : l \in {x \in DavLocksAt(dlClock) : covers(x, p)}}
conditionHolds(c, p) == (c.token \in TokensAt(p)) # c.not
listHolds(list, p) == \A c \in list : conditionHolds(c, p)
precondition(header, p) == header = {} \/ \E list \in header : listHolds(list, p)
EvaluateIf(header, p) ==
    UNION {{c.token : c \in {x \in list : ~x.not}} : list \in {y \in header : listHolds(y, p)}}

MutGuardAnyUser(p, u, submitted) ==
    \A l \in DavLocksAt(dlClock) : covers(l, p) => l.token \in submitted
Guard(p, u, submitted) ==
    \A l \in DavLocksAt(dlClock) : covers(l, p) => l.token \in submitted /\ l.who = u

guard(p, u, header) == precondition(header, p) /\ Guard(p, u, EvaluateIf(header, p))

ParseIf == {{}} \cup {{{[token |-> t, not |-> n]}} : t \in 1 .. dlTokens, n \in BOOLEAN}
           \cup {{{[token |-> t, not |-> FALSE]}, {[token |-> 0, not |-> TRUE]}} : t \in 1 .. dlTokens}

------------------------------------------------------------------------------
(* LOCK                                                                    *)

(* A path that names nothing gets an empty file first, behind the guard.   *)
createLockNull(p, u, header) == guard(p, u, header) /\ dlFiles' = dlFiles \cup {p}

Lock(h, ask, header) ==
    /\ dlReq[h] = NoReq
    /\ IF ask.path \in dlFiles THEN header = {} /\ UNCHANGED dlFiles
       ELSE createLockNull(ask.path, ask.user, header)
    /\ dlReq' = [dlReq EXCEPT ![h] = [at |-> "take", ask |-> ask, now |-> dlClock]]
    /\ UNCHANGED <<dlRows, dlClock, dlTokens>>

Take(h) ==
    LET q == dlReq[h]
        row == [token |-> dlTokens + 1, path |-> q.ask.path, who |-> q.ask.user,
                infinite |-> q.ask.infinite, shared |-> q.ask.shared,
                expires |-> q.now + clampTimeout(q.ask.lease)]
    IN  /\ q.at = "take" /\ dlTokens < MaxTokens
        /\ \/ AdmitDavLock(row, q.now) /\ dlTokens' = dlTokens + 1
           \/ ~Admissible(row, q.now) /\ UNCHANGED <<dlRows, dlTokens>>
        /\ Return(h)
        /\ UNCHANGED <<dlFiles, dlClock>>

(* Refresh and Release: found live and the caller's own, then written.     *)
refresh(h, u, token, lease) ==
    /\ dlReq[h] = NoReq
    /\ \E l \in DavLocksAt(dlClock) : l.token = token /\ l.who = u
    /\ dlReq' = [dlReq EXCEPT ![h] = [at |-> "refresh", token |-> token, lease |-> lease,
                                      now |-> dlClock]]
    /\ UNCHANGED <<dlRows, dlFiles, dlClock, dlTokens>>

RefreshRow(h) ==
    LET q == dlReq[h]
    IN  /\ q.at = "refresh"
        /\ RefreshDavLock(q.token, q.now + clampTimeout(q.lease), q.now)
        /\ Return(h)
        /\ UNCHANGED <<dlFiles, dlClock, dlTokens>>

Unlock(h, u, token) ==
    /\ dlReq[h] = NoReq
    /\ \E l \in DavLocksAt(dlClock) : l.token = token /\ l.who = u
    /\ dlReq' = [dlReq EXCEPT ![h] = [at |-> "release", token |-> token]]
    /\ UNCHANGED <<dlRows, dlFiles, dlClock, dlTokens>>

ReleaseRow(h) ==
    /\ dlReq[h].at = "release"
    /\ DropDavLock(dlReq[h].token)
    /\ Return(h)
    /\ UNCHANGED <<dlFiles, dlClock, dlTokens>>

------------------------------------------------------------------------------
(* Writes.  The guard comes first, what it guards later; a move guards     *)
(* both ends.                                                              *)

Guarded(h, w, header) ==
    /\ dlReq[h] = NoReq
    /\ guard(w.path, w.user, header) /\ (w.op = "move" => guard(w.to, w.user, header))
    /\ dlReq' = [dlReq EXCEPT ![h] = [at |-> w.op, user |-> w.user, path |-> w.path, to |-> w.to,
                                      seen |-> {l.token : l \in DavLocksAt(dlClock)}]]
    /\ UNCHANGED <<dlRows, dlFiles, dlClock, dlTokens>>

Written(h) == Return(h) /\ UNCHANGED <<dlRows, dlClock, dlTokens>>

Put(h) ==
    /\ dlReq[h].at = "put"
    /\ dlFiles' = dlFiles \cup {dlReq[h].path}
    /\ Written(h)

Delete(h) ==
    /\ dlReq[h].at = "delete"
    /\ dlFiles' = {p \in dlFiles : ~IsPrefix(dlReq[h].path, p)}
    /\ Written(h)

(* The rows are keyed by path and stay where they are.                     *)
MoveFile(h) ==
    LET q == dlReq[h]
    IN  /\ q.at = "move"
        /\ dlFiles' = IF q.path \in dlFiles
                      THEN {p \in dlFiles : ~IsPrefix(q.path, p)} \cup {q.to} ELSE dlFiles
        /\ Written(h)

SweepDavLocks ==
    /\ Swept(dlClock) # dlRows
    /\ dlRows' = Swept(dlClock)
    /\ UNCHANGED <<dlFiles, dlClock, dlTokens, dlReq>>

Tick ==
    /\ dlClock < MaxLockClock
    /\ dlClock' = dlClock + 1
    /\ UNCHANGED <<dlRows, dlFiles, dlTokens, dlReq>>

DlNext ==
    \/ \E h \in LockHandlers :
        \/ Take(h) \/ RefreshRow(h) \/ ReleaseRow(h) \/ Put(h) \/ Delete(h) \/ MoveFile(h)
        \/ \E header \in ParseIf :
            \/ \E ask \in LockAsks : Lock(h, ask, header)
            \/ \E w \in WriteAsks : Guarded(h, w, header)
        \/ \E u \in LockUsers, token \in 1 .. dlTokens :
            Unlock(h, u, token) \/ \E lease \in Leases : refresh(h, u, token, lease)
    \/ SweepDavLocks \/ Tick

DlSpec == DlInit /\ [][DlNext]_dlVars

------------------------------------------------------------------------------
DlTypeOK ==
    /\ dlRows \subseteq [token : 1 .. MaxTokens, path : LockPaths, who : LockUsers,
                         infinite : BOOLEAN, shared : BOOLEAN,
                         expires : 1 .. MaxLockClock + MaxTimeout]
    /\ dlFiles \subseteq LockPaths /\ dlTokens \in 0 .. MaxTokens

(* The rows that are live stand for the grants of LockPromise.             *)
Promise == INSTANCE LockPromise WITH
    Principals <- LockUsers, Tokens <- 1 .. MaxTokens, Resources <- LockPaths,
    granted <- {[token |-> l.token, who |-> l.who, over |-> {p \in LockPaths : covers(l, p)},
                 shared |-> l.shared] : l \in DavLocksAt(dlClock)}

(* The lock table keeps LockPromise: nobody is granted what an exclusive   *)
(* lock covers, however LOCKs, refreshes, releases and lapsing leases      *)
(* interleave.  A refresh that found its lock alive may write after the    *)
(* lease ran out; it must not bring the lock back over one granted since.  *)
KeepsPromise == Promise!Spec

(* The same about any two live locks, as LocksConflict's comment states    *)
(* it: "anything involving an exclusive lock conflicts ... where the two   *)
(* actually overlap: the same path, a depth-infinity ancestor covering the *)
(* request, or a descendant of a requested depth-infinity lock".           *)
LiveLocksCompatible ==
    \A k, l \in DavLocksAt(dlClock) :
        k # l /\ ~(k.shared /\ l.shared) =>
            ~\E p \in LockPaths : covers(k, p) /\ covers(l, p)

(* A write that passed the guard does not land under a lock that was       *)
(* standing then and is another account's.                                 *)
WritesRespectLocks ==
    \A h \in LockHandlers : dlReq[h].at \in {"put", "delete", "move"} =>
        \A l \in dlRows : l.token \in dlReq[h].seen
                          /\ (covers(l, dlReq[h].path) \/ covers(l, dlReq[h].to))
                          => l.who = dlReq[h].user
=============================================================================
