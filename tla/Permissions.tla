---------------------------- MODULE Permissions ----------------------------
(***************************************************************************)
(* Who may do what: the grant rows of internal/db/state/grant.go, the      *)
(* evaluator of internal/shares/acl that answers from a copy of them, and  *)
(* the reload of internal/files (core.go, grants.go) that keeps the copy   *)
(* current.                                                                *)
(*                                                                         *)
(* A write commits its rows, then reads grants and memberships back in two *)
(* statements and installs both under the evaluator's lock, raising the    *)
(* generation that every memoised decision carries. Nothing is held from   *)
(* the first read to the install, so reloads of two requests may cross. A  *)
(* question reads the generation, looks in the cache, evaluates and stores *)
(* in three separate critical sections. The eight permission bits are a    *)
(* set of names; a path is a sequence of them.                             *)
(***************************************************************************)
EXTENDS Integers, Sequences, FiniteSets, Functions

CONSTANTS PeUsers, PeGroups,
          PePerms,      \* the permission bits
          PePaths,      \* the paths asked about
          GrantPool,    \* the rules an administrator writes: [who, path, allow, deny, inherit, home]
          PeWants,      \* the permission sets asked for
          Seeds,        \* the rule tables the database holds at the first start
          Admins,       \* administrators working at the same time
          PeChanges,    \* how many changes they make
          PeFaults,     \* how many reloads fail
          CacheCap      \* decisionCacheCapacity

VARIABLES peRow,     \* the grant table: a sequence of rules, in the order of their ids
          peMember,  \* the memberships: pairs of a user and a group
          peEval,    \* the evaluator: its rules, its memberships, its generation
          peCache,   \* the memoised decisions, oldest first
          peAdmin,   \* what each administrator's request is doing, with what it read
          peAsk,     \* the question being answered
          peLeft,    \* how many changes and failures are left
          peStale    \* the last reload to end failed, or another request committed between its reads and its install

peVars == <<peRow, peMember, peEval, peCache, peAdmin, peAsk, peLeft, peStale>>

\* A request and what its reload has read; `crossed` when another request committed since.
IdleAdmin == [pc |-> "idle", rows |-> <<>>, member |-> {}, crossed |-> FALSE]
NoAsk == [pc |-> "none", key |-> <<>>, gen |-> 0, ok |-> FALSE]

PeInit ==
    /\ peRow \in Seeds /\ peMember \in {{}, PeUsers \X PeGroups}
    /\ peEval = [rows |-> <<>>, member |-> {}, gen |-> 0]
    /\ peCache = <<>> /\ peAsk = NoAsk
    /\ peAdmin = [a \in Admins |-> [IdleAdmin EXCEPT !.pc = "unmigrated"]]
    /\ peLeft = [changes |-> PeChanges, faults |-> PeFaults]
    /\ peStale = FALSE

(***************************************************************************)
(* The evaluator                                                           *)
(***************************************************************************)

\* A rule names a user directly or through one of its groups.
grantMatchesLocked(u, g, member) == g.who = u \/ <<u, g.who>> \in member

IsPrefixOf(p, q) == Len(p) <= Len(q) /\ \A i \in 1..Len(p) : p[i] = q[i]

\* The rules that name the user and reach the path.
matchingLocked(u, path, rows, member) ==
    SelectSeq(rows, LAMBDA g : /\ grantMatchesLocked(u, g, member)
                               /\ IF g.inherit THEN IsPrefixOf(g.path, path) ELSE g.path = path)

levelAt(gs, depth) == SelectSeq(gs, LAMBDA g : Len(g.path) = depth)
findDeny(level, want) == \E i \in DOMAIN level : level[i].deny \intersect want # {}
findAnyAllow(level) == \E i \in DOMAIN level : level[i].allow # {}
AllowedBy(level) == UNION {level[i].allow : i \in DOMAIN level}

\* A refusal at a shallower level is looked for among everything asked, not what is still wanted.
MutEvaluateLocked(u, path, want, rows, member) ==
    LET gs == matchingLocked(u, path, rows, member)
        walk[d \in 0..Len(path), w \in SUBSET PePerms] ==
            LET level == levelAt(gs, d)
                rest == w \ AllowedBy(level)
                next == d > 0 /\ walk[d - 1, rest]
            IN IF level = <<>> THEN next
               ELSE IF findDeny(level, want) THEN FALSE
               ELSE IF want = {} THEN findAnyAllow(level) \/ ((\A i \in DOMAIN level : level[i].deny = {}) /\ next)
               ELSE rest = {} \/ next
    IN walk[Len(path), want]

\* From the path's own depth up to the root: at each level a refusal of anything still wanted decides, then
\* every permission there counts. Asking for nothing asks whether the path can be reached at all.
evaluateLocked(u, path, want, rows, member) ==
    LET gs == matchingLocked(u, path, rows, member)
        walk[d \in 0..Len(path), w \in SUBSET PePerms] ==
            LET level == levelAt(gs, d)
                rest == w \ AllowedBy(level)
                next == d > 0 /\ walk[d - 1, rest]
            IN IF level = <<>> THEN next
               ELSE IF findDeny(level, w) THEN FALSE
               ELSE IF want = {} THEN findAnyAllow(level) \/ ((\A i \in DOMAIN level : level[i].deny = {}) /\ next)
               ELSE rest = {} \/ next
    IN walk[Len(path), want]

\* The permissions a user holds at a path, bit by bit.
Effective(u, path) == {b \in PePerms : evaluateLocked(u, path, {b}, peEval.rows, peEval.member)}

\* What the screens list: one entry per rule that lets the user read, with what the user really holds there.
Roots(u) ==
    {<<g.path, Effective(u, g.path)>> : g \in {h \in Range(peEval.rows) :
        grantMatchesLocked(u, h, peEval.member) /\ "read" \in h.allow}}

\* Both tables are installed in one step and the generation moves once.
LoadFromState(rows, member) ==
    /\ peEval' = [rows |-> rows, member |-> member, gen |-> peEval.gen + 1]

(***************************************************************************)
(* A question                                                              *)
(***************************************************************************)

Cached(k) == {i \in DOMAIN peCache : peCache[i].key = k}

lookup(k, gen) == {peCache[i].ok : i \in {j \in Cached(k) : peCache[j].gen = gen}}

\* A key already there is refreshed where it stands; a new one pushes the oldest out.
store(k, gen, ok) ==
    LET entry == [key |-> k, gen |-> gen, ok |-> ok]
    IN IF Cached(k) # {} THEN [i \in DOMAIN peCache |-> IF i \in Cached(k) THEN entry ELSE peCache[i]]
       ELSE Append(IF Len(peCache) >= CacheCap THEN Tail(peCache) ELSE peCache, entry)

Evaluate(u, path, want) ==
    /\ peAsk.pc = "none"
    /\ \A a \in Admins : peAdmin[a].pc # "unmigrated"
    /\ IF lookup(<<u, path, want>>, peEval.gen) # {} THEN UNCHANGED peAsk
       ELSE peAsk' = [NoAsk EXCEPT !.pc = "evaluate", !.key = <<u, path, want>>, !.gen = peEval.gen]
    /\ UNCHANGED <<peRow, peMember, peEval, peCache, peAdmin, peLeft, peStale>>

evaluateUnlocked ==
    /\ peAsk.pc = "evaluate"
    /\ peAsk' = [peAsk EXCEPT !.pc = "store", !.ok =
                    evaluateLocked(peAsk.key[1], peAsk.key[2], peAsk.key[3], peEval.rows, peEval.member)]
    /\ UNCHANGED <<peRow, peMember, peEval, peCache, peAdmin, peLeft, peStale>>

\* The generation is taken again after the evaluation.
MutRemember ==
    /\ peAsk.pc = "store"
    /\ peCache' = store(peAsk.key, peEval.gen, peAsk.ok) /\ peAsk' = NoAsk
    /\ UNCHANGED <<peRow, peMember, peEval, peAdmin, peLeft, peStale>>

\* The decision is stored under the generation read before it was made.
Remember ==
    /\ peAsk.pc = "store"
    /\ peCache' = store(peAsk.key, peAsk.gen, peAsk.ok) /\ peAsk' = NoAsk
    /\ UNCHANGED <<peRow, peMember, peEval, peAdmin, peLeft, peStale>>

(***************************************************************************)
(* The rows and their changes                                              *)
(***************************************************************************)

WithoutRow(rows, i) == SubSeq(rows, 1, i - 1) \o SubSeq(rows, i + 1, Len(rows))

SameRule(g, h) == g.who = h.who /\ g.path = h.path /\ g.inherit = h.inherit

\* The reach is left out of the group.
MutDuplicateGrantFolds(rows) ==
    LET same(g, h) == g.who = h.who /\ g.path = h.path
        first(i) == CHOOSE j \in 1..i : same(rows[j], rows[i]) /\ \A k \in 1..(j - 1) : ~same(rows[k], rows[i])
        group(i) == {rows[j] : j \in {k \in DOMAIN rows : first(k) = i}}
        folded(i) == [rows[i] EXCEPT !.allow = UNION {g.allow : g \in group(i)}, !.deny = UNION {g.deny : g \in group(i)}]
        kept == SelectSeq([i \in DOMAIN rows |-> i], LAMBDA i : first(i) = i)
    IN [k \in DOMAIN kept |-> folded(kept[k])]

\* Rules of one subject over one path and reach become the earliest of them, with all their bits.
duplicateGrantFolds(rows) ==
    LET first(i) == CHOOSE j \in 1..i : SameRule(rows[j], rows[i]) /\ \A k \in 1..(j - 1) : ~SameRule(rows[k], rows[i])
        group(i) == {rows[j] : j \in {k \in DOMAIN rows : first(k) = i}}
        folded(i) == [rows[i] EXCEPT !.allow = UNION {g.allow : g \in group(i)}, !.deny = UNION {g.deny : g \in group(i)}]
        kept == SelectSeq([i \in DOMAIN rows |-> i], LAMBDA i : first(i) = i)
    IN [k \in DOMAIN kept |-> folded(kept[k])]

\* The migration to the unique index and the first load, before anything is served.
foldDuplicateGrants ==
    /\ \A a \in Admins : peAdmin[a].pc = "unmigrated"
    /\ peRow' = duplicateGrantFolds(peRow)
    /\ LoadFromState(peRow', peMember)
    /\ peAdmin' = [a \in Admins |-> IdleAdmin]
    /\ UNCHANGED <<peMember, peCache, peAsk, peLeft, peStale>>

\* A committed change goes on to reload the evaluator.
Changed(a) ==
    /\ peAdmin[a].pc = "idle" /\ peLeft.changes > 0
    /\ peLeft' = [peLeft EXCEPT !.changes = @ - 1]
    /\ peAdmin' = [b \in Admins |-> IF b = a THEN [IdleAdmin EXCEPT !.pc = "grants"]
                    ELSE [peAdmin[b] EXCEPT !.crossed = peAdmin[b].pc \in {"members", "install"}]]
    /\ UNCHANGED <<peEval, peCache, peAsk, peStale>>

\* A row names one subject, allows or refuses something, and repeats no other row.
PersistGrant(a, g) ==
    /\ ~g.home /\ g.allow \union g.deny # {} /\ \A i \in DOMAIN peRow : ~SameRule(peRow[i], g)
    /\ peRow' = Append(peRow, g) /\ Changed(a) /\ UNCHANGED peMember

\* The bits and the reach of a row change; its subject and its path do not, and it may not become another row.
UpdateGrant(a, i, g) ==
    /\ ~peRow[i].home /\ g.who = peRow[i].who /\ g.path = peRow[i].path /\ g # peRow[i]
    /\ \A j \in DOMAIN peRow \ {i} : ~SameRule(peRow[j], g)
    /\ peRow' = [peRow EXCEPT ![i] = g] /\ Changed(a) /\ UNCHANGED peMember

\* The row is gone and the evaluator keeps what it loaded.
MutDeleteGrant(a, i) ==
    /\ ~peRow[i].home /\ peAdmin[a].pc = "idle" /\ peLeft.changes > 0
    /\ peRow' = WithoutRow(peRow, i)
    /\ peLeft' = [peLeft EXCEPT !.changes = @ - 1]
    /\ UNCHANGED <<peMember, peEval, peCache, peAsk, peStale, peAdmin>>

DeleteGrant(a, i) ==
    /\ ~peRow[i].home
    /\ peRow' = WithoutRow(peRow, i) /\ Changed(a) /\ UNCHANGED peMember

AddMembership(a, m) == m \notin peMember /\ peMember' = peMember \union {m} /\ Changed(a) /\ UNCHANGED peRow
RemoveMembership(a, m) == m \in peMember /\ peMember' = peMember \ {m} /\ Changed(a) /\ UNCHANGED peRow

\* An account or a group takes its memberships and the rules that name it with it.
DeleteSubject(a, s) ==
    /\ peRow' = SelectSeq(peRow, LAMBDA g : g.who # s)
    /\ peMember' = {m \in peMember : s \notin Range(m)} /\ Changed(a)

\* The reload: the rules, then the memberships, then both into the evaluator.
ReloadGrants(a) ==
    /\ peAdmin[a].pc = "grants"
    /\ peAdmin' = [peAdmin EXCEPT ![a].pc = "members", ![a].rows = peRow]
    /\ UNCHANGED <<peRow, peMember, peEval, peCache, peAsk, peLeft, peStale>>

Memberships(a) ==
    /\ peAdmin[a].pc = "members"
    /\ peAdmin' = [peAdmin EXCEPT ![a].pc = "install", ![a].member = peMember]
    /\ UNCHANGED <<peRow, peMember, peEval, peCache, peAsk, peLeft, peStale>>

Install(a) ==
    /\ peAdmin[a].pc = "install"
    /\ LoadFromState(peAdmin[a].rows, peAdmin[a].member)
    /\ peAdmin' = [peAdmin EXCEPT ![a] = IdleAdmin] /\ peStale' = peAdmin[a].crossed
    /\ UNCHANGED <<peRow, peMember, peCache, peAsk, peLeft>>

\* A read that fails ends the request; the change stands and the evaluator is behind until the next reload.
ReloadFails(a) ==
    /\ peAdmin[a].pc \in {"grants", "members"} /\ peLeft.faults > 0
    /\ peLeft' = [peLeft EXCEPT !.faults = @ - 1]
    /\ peAdmin' = [peAdmin EXCEPT ![a] = IdleAdmin] /\ peStale' = TRUE
    /\ UNCHANGED <<peRow, peMember, peEval, peCache, peAsk>>

PeNext ==
    \/ \E u \in PeUsers, p \in PePaths, w \in PeWants : Evaluate(u, p, w)
    \/ evaluateUnlocked \/ Remember \/ foldDuplicateGrants
    \/ \E a \in Admins :
        \/ ReloadGrants(a) \/ Memberships(a) \/ Install(a) \/ ReloadFails(a)
        \/ \E g \in GrantPool : PersistGrant(a, g) \/ \E i \in DOMAIN peRow : UpdateGrant(a, i, g)
        \/ \E i \in DOMAIN peRow : DeleteGrant(a, i)
        \/ \E m \in PeUsers \X PeGroups : AddMembership(a, m) \/ RemoveMembership(a, m)
        \/ \E s \in PeUsers \union PeGroups : DeleteSubject(a, s)

PeSpec == PeInit /\ [][PeNext]_peVars

(***************************************************************************)
(* Properties                                                              *)
(***************************************************************************)

PeTypeOK ==
    /\ peMember \subseteq PeUsers \X PeGroups /\ Len(peCache) <= CacheCap
    /\ \A i \in DOMAIN peRow : peRow[i].allow \union peRow[i].deny \subseteq PePerms
    /\ \A a \in Admins : peAdmin[a].pc \in {"unmigrated", "idle", "grants", "members", "install"}
    /\ peAsk.pc \in {"none", "evaluate", "store"} /\ peStale \in BOOLEAN

Reaches(u, g, path) == grantMatchesLocked(u, g, peEval.member) /\ IF g.inherit THEN IsPrefixOf(g.path, path) ELSE g.path = path

\* The rule the walk implements: a set is granted when every bit of it is, and a bit is when some rule allows
\* it that no refusal of that bit at its own depth or deeper overrules.
Granted(u, path, want) ==
    \A b \in want : \E g \in Range(peEval.rows) :
        /\ Reaches(u, g, path) /\ b \in g.allow
        /\ \A h \in Range(peEval.rows) : Reaches(u, h, path) /\ b \in h.deny => Len(h.path) < Len(g.path)

\* One answer for a set of permissions, however it is asked: the level walk agrees with the rule, so asking
\* for several at once grants exactly what asking for each would, whichever rules the bits come from.
DecisionIsRule ==
    \A u \in PeUsers, p \in PePaths, w \in PeWants \ {{}} :
        evaluateLocked(u, p, w, peEval.rows, peEval.member) <=> Granted(u, p, w)

\* A decision remembered under the current generation is the one the tables in force would give.
RememberedIsCurrent ==
    \A i \in DOMAIN peCache : LET e == peCache[i] IN
        e.gen = peEval.gen => e.ok = evaluateLocked(e.key[1], e.key[2], e.key[3], peEval.rows, peEval.member)

\* When no request is under way, the evaluator holds exactly the stored rows and memberships, provided the
\* reload that ended last did not fail and no other request committed between its reads and its install.
EvaluatorCurrent ==
    (\A a \in Admins : peAdmin[a].pc = "idle") /\ ~peStale =>
        peEval.rows = peRow /\ peEval.member = peMember

\* "a grant and the evaluator serving it cannot drift apart" (files/core.go), as long as no reload fails. Does
\* not hold: two requests reload at the same time, the one that read before the other's commit installs last,
\* and the evaluator serves its tables until the next change.
EvaluatorNeverDrifts ==
    (\A a \in Admins : peAdmin[a].pc = "idle") /\ peLeft.faults = PeFaults =>
        peEval.rows = peRow /\ peEval.member = peMember

\* "Nobody's access changes": the folded table answers every question as the duplicates did.
FoldKeepsAccess ==
    [][(\E a \in Admins : peAdmin[a].pc = "unmigrated" /\ peAdmin'[a].pc # "unmigrated") =>
         \A u \in PeUsers, p \in PePaths, w \in PeWants :
            evaluateLocked(u, p, w, peRow, peMember) = evaluateLocked(u, p, w, peRow', peMember)]_peVars
=============================================================================
