--------------------------- MODULE ShareRegistry ---------------------------
(***************************************************************************)
(* The share registry of internal/files (registry.go, shareadmin.go): the  *)
(* rows of share_definition, the live entries with their open roots, the   *)
(* administrator's requests over both, the scheduled probe that moves an   *)
(* entry between live and broken, and the restart that rebuilds the        *)
(* entries from the rows.                                                  *)
(*                                                                         *)
(* A definition is a name, a location and the credential the location's    *)
(* backend needs; `born' tells one creation of a share from the next that  *)
(* takes the same id, which SQLite does once the last row is deleted. A    *)
(* request is a sequence of database statements and registrations, and     *)
(* other requests and the probe step between any two of them. srTorn       *)
(* remembers that a request acted on a definition another had replaced, or *)
(* that a later step of a committed change failed.                         *)
(***************************************************************************)
EXTENDS Naturals, FiniteSets, FiniteSetsExt

CONSTANTS SrAdmins, SrNames,
          SrLocs,       \* where a share's files can live
          BackendOf,    \* the backend of a location: "local", "s3" or "veracrypt"
          SrConfigs,    \* the backend objects a request carries
          MaxShareId,
          SrBudgets     \* how many requests, disk flips, faults and restarts there may be

VARIABLES srRow,     \* share_definition: id -> definition
          srLive,    \* Core.shares: id -> [def, root, broken]
          srOpen,    \* the open roots: handle -> location
          srGrant,   \* the grant rows on a share: [id, born]
          srAcl,     \* the same as the evaluator holds them
          srUp,      \* the locations that answer
          srReq,     \* the administrators' requests
          srProbe,   \* the probe: what it listed and where it is
          srTorn, srLeft

srVars == <<srRow, srLive, srOpen, srGrant, srAcl, srUp, srReq, srProbe, srTorn, srLeft>>

Ids == 1..MaxShareId
Keys == {"none", "right", "wrong"}
NoDef == [name |-> "", loc |-> "", key |-> "none", born |-> 0]
SrIdle == [pc |-> "idle", op |-> "", id |-> 0, def |-> NoDef, before |-> NoDef,
         served |-> FALSE, rekey |-> FALSE, h |-> 0, fresh |-> TRUE]
ProbeIdle == [todo |-> [i \in {} |-> NoDef], pc |-> "idle", id |-> 0, h |-> 0, stale |-> {}]

SrInit ==
    /\ srRow = [i \in {} |-> NoDef] /\ srLive = [i \in {} |-> NoDef]
    /\ srOpen = [h \in {} |-> ""]
    /\ srGrant = {} /\ srAcl = {} /\ srUp = SrLocs
    /\ srReq = [a \in SrAdmins |-> SrIdle] /\ srProbe = ProbeIdle
    /\ srTorn = FALSE
    /\ \E b \in SrBudgets : srLeft = [requests |-> b.requests, flips |-> b.flips, faults |-> b.faults,
                                     restarts |-> b.restarts, born |-> 1]

Put(f, i, v) == [j \in DOMAIN f \union {i} |-> IF j = i THEN v ELSE f[j]]
SrDrop(f, i) == [j \in DOMAIN f \ {i} |-> f[j]]

(***************************************************************************)
(* What a request may ask for: adminsharesroutes.go                        *)
(***************************************************************************)

ParseBackend(b) == IF b = "" THEN "local" ELSE b
KnownBackend(b) == ParseBackend(b) \in {"local", "s3", "veracrypt"}

\* Every field and a credential; what is rendered must parse back.
s3ConfigForCreate(c) == c.fields /\ c.secret = "set"
vaultConfigForCreate(c) == c.fields /\ c.secret = "set" /\ c.create = c.size
marshalAndSeal(c) == c.parses

\* The backend's own object is required, another's is refused.
shareSpecOf(b, host, s3, vc) ==
    /\ KnownBackend(b)
    /\ CASE ParseBackend(b) = "local" -> s3 = {} /\ vc = {} /\ host
         [] b = "s3" -> vc = {} /\ ~host /\ \E c \in s3 : s3ConfigForCreate(c) /\ marshalAndSeal(c)
         [] b = "veracrypt" -> s3 = {} /\ ~host /\ \E c \in vc : vaultConfigForCreate(c) /\ marshalAndSeal(c)

\* A patch may replace a credential and never clear it.
applyS3Patch(c) == c.secret # "empty"
applyVeracryptPatch(c) == ~c.create /\ ~c.size /\ c.secret # "empty"
applyShareBackendPatch(backend, s3, vc) ==
    /\ s3 # {} => backend = "s3" /\ \A c \in s3 : applyS3Patch(c) /\ marshalAndSeal(c)
    /\ vc # {} => backend = "veracrypt" /\ \A c \in vc : applyVeracryptPatch(c) /\ marshalAndSeal(c)

\* A backend object in a request, or none.
Objects == {{}} \union {{c} : c \in SrConfigs}

(***************************************************************************)
(* The registry                                                            *)
(***************************************************************************)

\* The backend answers, with the credential it wants.
Open(def) ==
    /\ def.loc \in srUp
    /\ CASE BackendOf[def.loc] = "local" -> TRUE
         [] BackendOf[def.loc] \in {"s3", "veracrypt"} -> def.key = "right"

FreshHandle == CHOOSE h \in 1..Cardinality(DOMAIN srOpen) + 1 : h \notin DOMAIN srOpen

Entry(def, h) == [def |-> def, root |-> h, broken |-> h = 0]

\* An entry's predecessor is closed once it is out of the map.
MutReplaceEntry(i, e) ==
    /\ srLive' = Put(srLive, i, e)
    /\ UNCHANGED srOpen
replaceEntry(i, e) ==
    /\ srLive' = Put(srLive, i, e)
    /\ srOpen' = IF i \in DOMAIN srLive /\ srLive[i].root # 0 THEN SrDrop(srOpen, srLive[i].root) ELSE srOpen

RegisterBroken(i, def) == replaceEntry(i, Entry(def, 0))

UnregisterShare(i) ==
    /\ srLive' = SrDrop(srLive, i)
    /\ srOpen' = IF i \in DOMAIN srLive /\ srLive[i].root # 0 THEN SrDrop(srOpen, srLive[i].root) ELSE srOpen

SharesNamed(n) == {i \in DOMAIN srLive : srLive[i].def.name = n}

(***************************************************************************)
(* Requests, a step at a time                                              *)
(***************************************************************************)

Fault == srLeft.faults > 0 /\ srLeft' = [srLeft EXCEPT !.faults = @ - 1]
Goto(a, pc) == srReq' = [srReq EXCEPT ![a].pc = pc]
End(a) == srReq' = [srReq EXCEPT ![a] = SrIdle]

\* The others working on share i hold a definition this write replaced.
Overtaken(a, i, next) ==
    /\ srReq' = [b \in SrAdmins |-> IF b = a THEN next
                                    ELSE [srReq[b] EXCEPT !.fresh = @ /\ srReq[b].id # i]]
    /\ srProbe' = IF i \in DOMAIN srProbe.todo \/ i = srProbe.id
                  THEN [srProbe EXCEPT !.stale = @ \union {i}] ELSE srProbe

Acts(a, tears) == srTorn' = (srTorn \/ tears \/ ~srReq[a].fresh)

\* The stored definition is the served one.
InStep(i) == i \in DOMAIN srRow /\ srRow[i] = srLive[i].def

CreateShare(a) ==
    /\ srReq[a].pc = "idle" /\ srLeft.requests > 0
    /\ \E n \in SrNames, l \in SrLocs, k \in Keys, s3 \in Objects, vc \in Objects :
          /\ shareSpecOf(BackendOf[l], BackendOf[l] = "local", s3, vc)
          /\ k = "none" <=> BackendOf[l] = "local"
          /\ SharesNamed(n) = {}
          /\ srReq' = [srReq EXCEPT ![a] = [SrIdle EXCEPT !.pc = "insert", !.op = "create",
                          !.def = [NoDef EXCEPT !.name = n, !.loc = l, !.key = k]]]
    /\ srLeft' = [srLeft EXCEPT !.requests = @ - 1]
    /\ UNCHANGED <<srRow, srLive, srOpen, srGrant, srAcl, srUp, srProbe, srTorn>>

\* INTEGER PRIMARY KEY without AUTOINCREMENT: one more than the largest id there is.
NewRowId == IF DOMAIN srRow = {} THEN 1 ELSE Max(DOMAIN srRow) + 1

InsertShare(a) ==
    LET r == srReq[a] IN
    /\ r.pc = "insert"
    /\ \/ /\ Fault /\ End(a) /\ UNCHANGED <<srRow, srProbe>>
       \/ /\ NewRowId <= MaxShareId
          /\ LET def == [r.def EXCEPT !.born = srLeft.born] IN
             /\ srRow' = Put(srRow, NewRowId, [def EXCEPT !.key = "none"])
             /\ Overtaken(a, NewRowId, [r EXCEPT !.id = NewRowId, !.def = def,
                             !.pc = IF def.key = "none" THEN "open" ELSE "secret"])
          /\ srLeft' = [srLeft EXCEPT !.born = @ + 1]
    /\ UNCHANGED <<srLive, srOpen, srGrant, srAcl, srUp, srTorn>>

\* The patch is laid over the definition served now, not the stored one.
Patched(i, n, l, rekey, k) ==
    LET def == srLive[i].def
    IN  [pc |-> "row", op |-> "update", id |-> i,
         def |-> [def EXCEPT !.name = n, !.loc = l, !.key = IF rekey THEN k ELSE @],
         before |-> def, served |-> ~srLive[i].broken, rekey |-> rekey, h |-> 0, fresh |-> InStep(i)]

UpdateShare(a) ==
    /\ srReq[a].pc = "idle" /\ srLeft.requests > 0
    /\ \E i \in DOMAIN srLive, n \in SrNames, l \in SrLocs, rekey \in BOOLEAN, k \in Keys \ {"none"},
         s3 \in Objects, vc \in Objects :
          /\ BackendOf[l] = BackendOf[srLive[i].def.loc]
          /\ applyShareBackendPatch(BackendOf[l], s3, vc)
          /\ rekey => s3 \union vc # {}
          /\ ~rekey => k = "right"
          /\ srReq' = [srReq EXCEPT ![a] = Patched(i, n, l, rekey, k)]
    /\ srLeft' = [srLeft EXCEPT !.requests = @ - 1]
    /\ UNCHANGED <<srRow, srLive, srOpen, srGrant, srAcl, srUp, srProbe, srTorn>>

\* An UPDATE whose row is gone changes nothing and is no error.
StoreRow(i, def) ==
    srRow' = IF i \in DOMAIN srRow THEN [srRow EXCEPT ![i] = [def EXCEPT !.key = srRow[i].key]] ELSE srRow
UpdateShareSecret(i, key) ==
    srRow' = IF i \in DOMAIN srRow THEN [srRow EXCEPT ![i].key = key] ELSE srRow

WriteRow(a) ==
    LET r == srReq[a] IN
    /\ r.pc = "row"
    /\ \/ Fault /\ End(a) /\ UNCHANGED <<srRow, srProbe, srTorn>>
       \/ /\ StoreRow(r.id, r.def) /\ Acts(a, FALSE)
          /\ Overtaken(a, r.id, [r EXCEPT !.pc = IF r.rekey THEN "secret" ELSE "open"])
          /\ UNCHANGED srLeft
    /\ UNCHANGED <<srLive, srOpen, srGrant, srAcl, srUp>>

\* A credential that cannot be stored ends an edit with the row already changed.
WriteSecret(a) ==
    LET r == srReq[a] IN
    /\ r.pc = "secret"
    /\ \/ /\ Fault
          /\ IF r.op = "create" THEN Goto(a, "rollback") /\ UNCHANGED srTorn
             ELSE End(a) /\ Acts(a, TRUE)
          /\ UNCHANGED <<srRow, srProbe>>
       \/ /\ UpdateShareSecret(r.id, r.def.key) /\ Acts(a, FALSE)
          /\ Overtaken(a, r.id, [r EXCEPT !.pc = "open"])
          /\ UNCHANGED srLeft
    /\ UNCHANGED <<srLive, srOpen, srGrant, srAcl, srUp>>

\* RegisterShare, its slow half: the backend is opened outside the lock.
OpenRoot(a) ==
    LET r == srReq[a]
        def == IF r.pc = "reopen" THEN r.before ELSE r.def
        refused == CASE r.op = "create" -> "rollback"
                     [] r.op = "update" /\ r.served /\ r.pc = "open" -> "restore"
                     [] OTHER -> "broken"
    IN
    /\ r.pc \in {"open", "reopen"}
    /\ \/ /\ Open(def)
          /\ srOpen' = Put(srOpen, FreshHandle, def.loc)
          /\ srReq' = [srReq EXCEPT ![a].h = FreshHandle, ![a].pc = "install", ![a].def = def]
       \/ ~Open(def) /\ Goto(a, refused) /\ UNCHANGED srOpen
    /\ UNCHANGED <<srRow, srLive, srGrant, srAcl, srUp, srProbe, srTorn, srLeft>>

RegisterShare(a) ==
    LET r == srReq[a] IN
    /\ r.pc = "install"
    /\ replaceEntry(r.id, Entry(r.def, r.h)) /\ Acts(a, FALSE)
    /\ srReq' = [srReq EXCEPT ![a] = IF r.op = "create" THEN [r EXCEPT !.pc = "grant", !.h = 0] ELSE SrIdle]
    /\ UNCHANGED <<srRow, srGrant, srAcl, srUp, srProbe, srLeft>>

\* The entry keeps the new definition, which need not be the stored one once the row was put back.
LeaveBroken(a) ==
    LET r == srReq[a] IN
    /\ r.pc = "broken"
    /\ RegisterBroken(r.id, r.def) /\ End(a)
    /\ Acts(a, r.id \notin DOMAIN srRow \/ srRow[r.id] # r.def)
    /\ UNCHANGED <<srRow, srGrant, srAcl, srUp, srProbe, srLeft>>

\* A refused edit of a share that was serving: the row and the credential go back first.
restoreShare(a) ==
    LET r == srReq[a] IN
    /\ r.pc = "restore"
    /\ \/ Fault /\ Goto(a, "broken") /\ UNCHANGED <<srRow, srProbe, srTorn>>
       \/ /\ StoreRow(r.id, r.before) /\ Acts(a, FALSE)
          /\ Overtaken(a, r.id, [r EXCEPT !.pc = IF r.before.key = "none" THEN "reopen" ELSE "resecret"])
          /\ UNCHANGED srLeft
    /\ UNCHANGED <<srLive, srOpen, srGrant, srAcl, srUp>>

restoreSecret(a) ==
    LET r == srReq[a] IN
    /\ r.pc = "resecret"
    /\ \/ Fault /\ Goto(a, "broken") /\ UNCHANGED <<srRow, srProbe, srTorn>>
       \/ /\ UpdateShareSecret(r.id, r.before.key) /\ Acts(a, FALSE)
          /\ Overtaken(a, r.id, [r EXCEPT !.pc = "reopen"])
          /\ UNCHANGED srLeft
    /\ UNCHANGED <<srLive, srOpen, srGrant, srAcl, srUp>>

\* One transaction: the share's grants and its row.
MutDeleteRow(i) == srRow' = SrDrop(srRow, i) /\ UNCHANGED srGrant
DeleteRow(i) ==
    /\ srRow' = SrDrop(srRow, i)
    /\ srGrant' = {g \in srGrant : g.id # i}

\* The refused share's row is kept.
MutRollbackShareRow(a) ==
    /\ srReq[a].pc = "rollback" /\ End(a)
    /\ UNCHANGED <<srRow, srLive, srOpen, srGrant, srAcl, srUp, srProbe, srTorn, srLeft>>
rollbackShareRow(a) ==
    LET r == srReq[a] IN
    /\ r.pc = "rollback"
    /\ \/ Fault /\ End(a) /\ Acts(a, TRUE) /\ UNCHANGED <<srRow, srGrant, srProbe>>
       \/ /\ DeleteRow(r.id) /\ Acts(a, FALSE)
          /\ Overtaken(a, r.id, SrIdle)
          /\ UNCHANGED srLeft
    /\ UNCHANGED <<srLive, srOpen, srAcl, srUp>>

\* The creator's own grant; without it the share stays, seen by nobody.
grantShareToContext(a) ==
    LET r == srReq[a] IN
    /\ r.pc = "grant" /\ End(a)
    /\ \/ Fault /\ UNCHANGED <<srGrant, srAcl, srTorn>>
       \/ /\ srGrant' = srGrant \union {[id |-> r.id, born |-> r.def.born]}
          /\ srAcl' = srGrant' /\ Acts(a, FALSE)
          /\ UNCHANGED srLeft
    /\ UNCHANGED <<srRow, srLive, srOpen, srUp, srProbe>>

RetryShare(a) ==
    /\ srReq[a].pc = "idle" /\ srLeft.requests > 0
    /\ \E i \in DOMAIN srLive :
          srReq' = [srReq EXCEPT ![a] = [SrIdle EXCEPT !.pc = "open", !.op = "retry", !.id = i,
                                            !.def = srLive[i].def, !.fresh = InStep(i)]]
    /\ srLeft' = [srLeft EXCEPT !.requests = @ - 1]
    /\ UNCHANGED <<srRow, srLive, srOpen, srGrant, srAcl, srUp, srProbe, srTorn>>

DeleteShare(a) ==
    /\ srReq[a].pc = "idle" /\ srLeft.requests > 0
    /\ \E i \in DOMAIN srLive :
          srReq' = [srReq EXCEPT ![a] = [SrIdle EXCEPT !.pc = "delete", !.op = "delete", !.id = i, !.fresh = InStep(i)]]
    /\ srLeft' = [srLeft EXCEPT !.requests = @ - 1]
    /\ UNCHANGED <<srRow, srLive, srOpen, srGrant, srAcl, srUp, srProbe, srTorn>>

DeleteShareRow(a) ==
    LET r == srReq[a] IN
    /\ r.pc = "delete"
    /\ \/ Fault /\ End(a) /\ UNCHANGED <<srRow, srGrant, srProbe, srTorn>>
       \/ /\ DeleteRow(r.id) /\ Acts(a, FALSE)
          /\ Overtaken(a, r.id, [r EXCEPT !.pc = "unregister"])
          /\ UNCHANGED srLeft
    /\ UNCHANGED <<srLive, srOpen, srAcl, srUp>>

DeleteLive(a) ==
    LET r == srReq[a] IN
    /\ r.pc = "unregister"
    /\ UnregisterShare(r.id) /\ Goto(a, "reload") /\ Acts(a, FALSE)
    /\ UNCHANGED <<srRow, srGrant, srAcl, srUp, srProbe, srLeft>>

DeleteReload(a) ==
    /\ srReq[a].pc = "reload" /\ End(a)
    /\ \/ Fault /\ Acts(a, TRUE) /\ UNCHANGED srAcl
       \/ srAcl' = srGrant /\ Acts(a, FALSE) /\ UNCHANGED srLeft
    /\ UNCHANGED <<srRow, srLive, srOpen, srGrant, srUp, srProbe>>

(***************************************************************************)
(* The probe, the disks and the restart                                    *)
(***************************************************************************)

ProbeShares ==
    /\ srProbe.pc = "idle" /\ DOMAIN srLive # {}
    /\ srProbe' = [srProbe EXCEPT !.pc = "look", !.todo = [i \in DOMAIN srLive |-> srLive[i].def],
                      !.stale = {i \in DOMAIN srLive : ~InStep(i)}]
    /\ UNCHANGED <<srRow, srLive, srOpen, srGrant, srAcl, srUp, srReq, srTorn, srLeft>>

\* Each listed share in turn: a broken one is opened, a live one is asked whether it still answers.
ProbeLook ==
    LET i == Min(DOMAIN srProbe.todo)
        def == srProbe.todo[i]
        rest == [srProbe EXCEPT !.todo = SrDrop(@, i)]
        brokenNow == i \in DOMAIN srLive /\ srLive[i].broken
        dead == i \in DOMAIN srLive /\ ~srLive[i].broken /\ srLive[i].def.loc \notin srUp
    IN
    /\ srProbe.pc = "look" /\ DOMAIN srProbe.todo # {}
    /\ IF brokenNow /\ Open(def)
       THEN /\ srOpen' = Put(srOpen, FreshHandle, def.loc)
            /\ srProbe' = [srProbe EXCEPT !.pc = "heal", !.id = i, !.h = FreshHandle]
       ELSE /\ srProbe' = IF dead THEN [srProbe EXCEPT !.pc = "break", !.id = i] ELSE rest
            /\ UNCHANGED srOpen
    /\ UNCHANGED <<srRow, srLive, srGrant, srAcl, srUp, srReq, srTorn, srLeft>>

ProbeSettle ==
    LET i == srProbe.id IN
    /\ srProbe.pc \in {"heal", "break"}
    /\ replaceEntry(i, Entry(srProbe.todo[i], srProbe.h))
    /\ srProbe' = [srProbe EXCEPT !.pc = "look", !.id = 0, !.h = 0, !.todo = SrDrop(@, i)]
    /\ srTorn' = (srTorn \/ i \in srProbe.stale)
    /\ UNCHANGED <<srRow, srGrant, srAcl, srUp, srReq, srLeft>>

ProbeEnd ==
    /\ srProbe.pc = "look" /\ DOMAIN srProbe.todo = {} /\ srProbe' = ProbeIdle
    /\ UNCHANGED <<srRow, srLive, srOpen, srGrant, srAcl, srUp, srReq, srTorn, srLeft>>

DiskFlips ==
    /\ srLeft.flips > 0 /\ srLeft' = [srLeft EXCEPT !.flips = @ - 1]
    /\ \E l \in SrLocs : srUp' = (srUp \ {l}) \union ({l} \ srUp)
    /\ UNCHANGED <<srRow, srLive, srOpen, srGrant, srAcl, srReq, srProbe, srTorn>>

\* The process ends, and the next one registers every row under the id it always had. Only a
\* grant written for a share that was gone by then outlives it.
ReloadPersistedShares ==
    /\ srLeft.restarts > 0 /\ srLeft' = [srLeft EXCEPT !.restarts = @ - 1]
    /\ srLive' = [i \in DOMAIN srRow |-> Entry(srRow[i], IF Open(srRow[i]) THEN i ELSE 0)]
    /\ srOpen' = [h \in {i \in DOMAIN srRow : Open(srRow[i])} |-> srRow[h].loc]
    /\ srAcl' = srGrant
    /\ srReq' = [a \in SrAdmins |-> SrIdle] /\ srProbe' = ProbeIdle
    /\ srTorn' = \E g \in srGrant : g.id \notin DOMAIN srRow \/ srRow[g.id].born # g.born
    /\ UNCHANGED <<srRow, srGrant, srUp>>

SrNext ==
    \/ \E a \in SrAdmins :
          \/ CreateShare(a) \/ InsertShare(a) \/ UpdateShare(a) \/ WriteRow(a) \/ WriteSecret(a)
          \/ OpenRoot(a) \/ RegisterShare(a) \/ LeaveBroken(a) \/ restoreShare(a) \/ restoreSecret(a)
          \/ rollbackShareRow(a) \/ grantShareToContext(a) \/ RetryShare(a)
          \/ DeleteShare(a) \/ DeleteShareRow(a) \/ DeleteLive(a) \/ DeleteReload(a)
    \/ ProbeShares \/ ProbeLook \/ ProbeSettle \/ ProbeEnd
    \/ DiskFlips \/ ReloadPersistedShares

SrSpec == SrInit /\ [][SrNext]_srVars

(***************************************************************************)
(* Properties                                                              *)
(***************************************************************************)

SrTypeOK ==
    /\ DOMAIN srRow \subseteq Ids /\ DOMAIN srLive \subseteq Ids
    /\ \A i \in DOMAIN srLive : srLive[i].broken <=> srLive[i].root = 0
    /\ srUp \subseteq SrLocs /\ srTorn \in BOOLEAN
    /\ \A a \in SrAdmins : srReq[a].id \in 0..MaxShareId /\ srReq[a].fresh \in BOOLEAN

Held == {srLive[i].root : i \in DOMAIN srLive} \union {srReq[a].h : a \in SrAdmins} \union {srProbe.h}

\* Registering, retrying, probing, replacing and removing shares in any order leaves exactly the
\* roots somebody still holds open: none leaks, and no entry serves a root that was closed.
NoRootLeak == DOMAIN srOpen = Held \ {0}

Settled == srProbe.pc = "idle" /\ \A a \in SrAdmins : srReq[a].pc = "idle"

\* Once everybody is done the process serves what a restart would: every stored share and no
\* other, under its stored definition, unless a request or the probe acted on a definition that
\* had been replaced meanwhile, or a change failed halfway.
RegistryMatchesRows ==
    Settled /\ ~srTorn => /\ DOMAIN srLive = DOMAIN srRow
                          /\ \A i \in DOMAIN srRow : srLive[i].def = srRow[i]

\* A grant leads to the share it was written for, never to a later one that took the same id,
\* unless somebody acts on a replaced definition.
GrantServesOwnShare ==
    (~srTorn /\ \A a \in SrAdmins : srReq[a].fresh) =>
        \A g \in srAcl : g.id \in DOMAIN srLive => srLive[g.id].def.born = g.born

\* What restoreShare's comment asks for: a refused edit leaves row and registration agreeing, at
\* least where no write can fail.
RefusedEditLands ==
    Settled /\ (\A b \in SrBudgets : b.faults = 0) => \A i \in DOMAIN srLive \intersect DOMAIN srRow :
        srLive[i].def = srRow[i]
=============================================================================
