---------------------------- MODULE AccessSafety -----------------------------
(***************************************************************************)
(* Accounts and the rows of the share registry, each for every value of    *)
(* its constants, and then what all the parts about who may do what keep   *)
(* when they are put together.                                             *)
(***************************************************************************)
EXTENDS MCAccess, AccessProofs

------------------------------------------------------------------------------
(***************************************************************************)
(* The accounts, for any number of requests, names and faults.  A table    *)
(* with somebody in it has an administrator who can sign in: an account is *)
(* only disabled or deleted under a guard that looks for another one, in   *)
(* the statement that writes.  So a table that is not empty never becomes  *)
(* empty, no second token is issued after the first account, and the first *)
(* is spent with it.                                                       *)
(***************************************************************************)

\* The columns of an account and of the setup gate.
AccountFields == {"name", "admin", "disabled", "born"}
GateFields == {"issued", "expired", "used"}

\* What the theorems ask of the constants: the tables a first start can find
\* are tables, and one with an account in it has an administrator.
AccountTable(users) ==
    /\ users = [i \in DOMAIN users |-> users[i]] /\ DOMAIN users \subseteq AcIds
    /\ \A i \in DOMAIN users : DOMAIN users[i] = AccountFields
Administered(users) == DOMAIN users # {} => \E i \in DOMAIN users : ActiveAdmin(i, users)
AcConstants ==
    MaxAccounts \in Nat /\ \A users \in AcSeeds : AccountTable(users) /\ Administered(users)

\* Once setup has made its administrator there is an account, and whatever
\* token is out is spent.
SetupInv ==
    /\ DOMAIN acGate = GateFields /\ DOMAIN acMade = {"admins", "torn"} /\ acMade.admins \in Nat
    /\ ~acMade.torn /\ acMade.admins # 0 =>
         acMade.admins = 1 /\ DOMAIN acUser # {} /\ (acGate.issued => acGate.used)

\* The invariant of the accounts.
AcInv == AccountTable(acUser) /\ Administered(acUser) /\ SetupInv

\* A new account takes an id nobody has.
LEMMA AccountIdIsNew ==
  ASSUME AcConstants, AccountTable(acUser), NewId <= MaxAccounts
  PROVE  NewId \in AcIds /\ NewId \notin DOMAIN acUser
<1>1. CASE acUser = Empty
  BY <1>1 DEF NewId, Empty, AcIds, AcConstants
<1>2. CASE acUser # Empty
  <2>0. DOMAIN acUser # {}
    BY <1>2 DEF AccountTable, Empty
  <2>1. MaxAccounts \in Nat /\ DOMAIN acUser \subseteq 1..MaxAccounts
    BY DEF AccountTable, AcIds, AcConstants
  <2>2. DOMAIN acUser \subseteq Nat /\ \A n \in DOMAIN acUser : n <= MaxAccounts
    BY <2>1
  <2>3. PICK i \in DOMAIN acUser : \A j \in DOMAIN acUser : j <= i
    BY <2>0, <2>1, <2>2, GreatestNatural
  <2>4. \A j \in DOMAIN acUser : i >= j
    BY <2>2, <2>3
  <2>5. Max(DOMAIN acUser) \in DOMAIN acUser /\ \A j \in DOMAIN acUser : Max(DOMAIN acUser) >= j
    BY <2>3, <2>4 DEF Max
  <2> QED
    BY <1>2, <2>1, <2>2, <2>5 DEF NewId, AcIds
<1> QED
  BY <1>1, <1>2

\* An account made leaves the table administered.
LEMMA AccountMade ==
  ASSUME AcConstants, AccountTable(acUser), Administered(acUser), NEW n, NEW admin \in BOOLEAN,
         DOMAIN acUser # {} \/ admin, CreateAccount(n, admin)
  PROVE  AccountTable(acUser') /\ Administered(acUser') /\ DOMAIN acUser' # {}
<1> DEFINE new == [name |-> n, admin |-> admin, disabled |-> FALSE, born |-> acLeft.born]
<1>1. NewId \in AcIds /\ NewId \notin DOMAIN acUser
  BY AccountIdIsNew DEF CreateAccount
<1>2. acUser' = With(acUser, NewId, new)
  BY DEF CreateAccount
<1>3. /\ DOMAIN acUser' = DOMAIN acUser \cup {NewId} /\ acUser'[NewId] = new
      /\ \A j \in DOMAIN acUser : acUser'[j] = acUser[j]
      /\ acUser' = [j \in DOMAIN acUser' |-> acUser'[j]]
  BY <1>1, <1>2 DEF With
<1>4. DOMAIN new = AccountFields /\ new.admin = admin /\ ~new.disabled
  BY DEF AccountFields
<1> HIDE DEF new
<1> QED
  BY <1>1, <1>3, <1>4 DEF AccountTable, Administered, ActiveAdmin

\* A deletion under guardLastAdmin leaves an administrator.
LEMMA AccountGone ==
  ASSUME AccountTable(acUser), Administered(acUser), NEW i \in DOMAIN acUser, guardLastAdmin(i),
         acUser' = Without(acUser, i)
  PROVE  AccountTable(acUser') /\ Administered(acUser') /\ DOMAIN acUser' # {}
<1>1. /\ DOMAIN acUser' = DOMAIN acUser \ {i}
      /\ \A j \in DOMAIN acUser \ {i} : acUser'[j] = acUser[j]
      /\ acUser' = [j \in DOMAIN acUser' |-> acUser'[j]]
  BY DEF Without
<1>2. PICK w \in DOMAIN acUser \ {i} : ActiveAdmin(w, acUser)
  BY DEF Administered, guardLastAdmin
<1> QED
  BY <1>1, <1>2 DEF AccountTable, Administered, ActiveAdmin

\* So does a disabling, and an enabling takes nobody away.
LEMMA AccountSwitched ==
  ASSUME AccountTable(acUser), Administered(acUser), NEW i \in DOMAIN acUser, NEW off,
         off => guardLastAdmin(i), acUser' = [acUser EXCEPT ![i].disabled = off]
  PROVE  AccountTable(acUser') /\ Administered(acUser') /\ DOMAIN acUser' = DOMAIN acUser
<1> DEFINE new == [acUser[i] EXCEPT !.disabled = off]
<1>1. /\ DOMAIN acUser' = DOMAIN acUser /\ acUser'[i] = new
      /\ \A j \in DOMAIN acUser \ {i} : acUser'[j] = acUser[j]
      /\ acUser' = [j \in DOMAIN acUser' |-> acUser'[j]]
  BY DEF AccountTable
<1>2. DOMAIN new = AccountFields /\ new.admin = acUser[i].admin /\ new.disabled = off
  BY DEF AccountTable, AccountFields
<1> HIDE DEF new
<1>3. AccountTable(acUser')
  BY <1>1, <1>2 DEF AccountTable
<1>4. \E j \in DOMAIN acUser : ActiveAdmin(j, acUser')
  <2>1. PICK w \in DOMAIN acUser : ActiveAdmin(w, acUser) /\ (off => w # i)
    BY DEF Administered, guardLastAdmin
  <2> QED
    BY <1>1, <1>2, <2>1 DEF ActiveAdmin
<1> QED
  BY <1>1, <1>3, <1>4 DEF Administered

\* Every step of the accounts keeps the invariant.
LEMMA AccountsInvStep ==
  ASSUME AcConstants, AcInv, AcNext
  PROVE  AcInv'
<1> USE DEF AcInv
<1>1. ASSUME UNCHANGED acUser, UNCHANGED acGate, UNCHANGED acMade PROVE AcInv'
  BY <1>1 DEF AccountTable, Administered, ActiveAdmin, SetupInv
<1>2. ASSUME IssueToken PROVE AcInv'
  <2>1. DOMAIN acUser = {}
    <3>1. IsFiniteSet(DOMAIN acUser)
      BY FS_Interval, FS_Subset DEF AccountTable, AcIds, AcConstants
    <3> QED
      BY <1>2, <3>1, FS_EmptySet DEF IssueToken, GateOpen, CountUsers
  <2> QED
    BY <1>2, <2>1 DEF IssueToken, AccountTable, Administered, ActiveAdmin, SetupInv, GateFields
<1>3. ASSUME TokenExpires PROVE AcInv'
  BY <1>3 DEF TokenExpires, AccountTable, Administered, ActiveAdmin, SetupInv, GateFields
<1>4. ASSUME AcRestart PROVE AcInv'
  BY <1>4 DEF AcRestart, AccountTable, Administered, ActiveAdmin, SetupInv, GateFields
<1>5. ASSUME NEW q \in AcRequests, Use(q) PROVE AcInv'
  <2>1. CASE UNCHANGED <<acUser, acGate, acMade>>
    BY <1>1, <2>1
  <2>2. CASE check(acGate) /\ CreateAccount(acReq[q].who.name, TRUE)
    <3>1. AccountTable(acUser') /\ Administered(acUser') /\ DOMAIN acUser' # {}
      BY <2>2, AccountMade
    <3>2. CASE acGate' = [acGate EXCEPT !.used = TRUE] /\ acMade' = [acMade EXCEPT !.admins = acMade.admins + 1]
      BY <2>2, <3>1, <3>2 DEF SetupInv, check, GateFields
    <3>3. CASE UNCHANGED acGate /\ acMade' = [admins |-> acMade.admins + 1, torn |-> TRUE]
      BY <2>2, <3>1, <3>3 DEF SetupInv, GateFields
    <3>4. ~NameTaken(acReq[q].who.name)
      BY <2>2 DEF CreateAccount
    <3> QED
      BY <1>5, <2>2, <3>2, <3>3, <3>4, Zenon DEF Use
  <2> QED
    BY <1>5, <2>1, <2>2 DEF Use
<1>6. ASSUME NEW q \in AcRequests, UsersCreate(q) PROVE AcInv'
  <2>1. PICK n \in AcNames : CreateAccount(n, FALSE)
    BY <1>6, Zenon DEF UsersCreate
  <2>2. AccountTable(acUser') /\ Administered(acUser') /\ DOMAIN acUser' # {}
    BY <1>6, <2>1, AccountMade DEF UsersCreate
  <2> QED
    BY <1>6, <2>2 DEF UsersCreate, SetupInv
<1>7. ASSUME NEW q \in AcRequests, setDisabled(q) PROVE AcInv'
  <2> DEFINE i == acReq[q].id
             off == acReq[q].off
  <2>1. CASE i \in DOMAIN acUser /\ (off => guardLastAdmin(i))
    <3>1. acUser' = [acUser EXCEPT ![i].disabled = off]
      BY <1>7, <2>1 DEF setDisabled
    <3>2. AccountTable(acUser') /\ Administered(acUser') /\ DOMAIN acUser' = DOMAIN acUser
      <4> HIDE DEF off
      <4> QED
        BY <2>1, <3>1, AccountSwitched
    <3> QED
      BY <1>7, <3>2 DEF setDisabled, SetupInv
  <2>2. CASE ~(i \in DOMAIN acUser /\ (off => guardLastAdmin(i)))
    BY <1>1, <1>7, <2>2 DEF setDisabled
  <2> QED
    BY <2>1, <2>2
<1>8. ASSUME NEW q \in AcRequests, DeleteUser(q) PROVE AcInv'
  <2> DEFINE i == acReq[q].id
  <2>1. CASE i \in DOMAIN acUser /\ guardLastAdmin(i)
    <3>1. acUser' = Without(acUser, i)
      BY <1>8, <2>1 DEF DeleteUser, DeleteAccount
    <3>2. AccountTable(acUser') /\ Administered(acUser') /\ DOMAIN acUser' # {}
      BY <2>1, <3>1, AccountGone
    <3> QED
      BY <1>8, <3>2 DEF DeleteUser, SetupInv
  <2>2. CASE ~(i \in DOMAIN acUser /\ guardLastAdmin(i))
    BY <1>1, <1>8, <2>2 DEF DeleteUser
  <2> QED
    BY <2>1, <2>2
<1>9. ASSUME PrepareHome \/ EnableHomes \/ DisableHomes PROVE AcInv'
  BY <1>1, <1>9 DEF PrepareHome, EnableHomes, DisableHomes
<1>10. ASSUME NEW q \in AcRequests,
              SetupPost(q) \/ UsersUpdate(q) \/ UsersDelete(q) \/ CleanupHome(q) \/ membershipChanged(q)
       PROVE AcInv'
  BY <1>1, <1>10, Zenon DEF SetupPost, UsersUpdate, UsersDelete, CleanupHome, membershipChanged
<1>11. ASSUME NEW q \in AcRequests, RootsOf(q) \/ ensureHome(q) \/ HomeLook(q) \/ HomeMkdir(q)
       PROVE AcInv'
  BY <1>1, <1>11, Zenon DEF RootsOf, ensureHome, HomeLook, HomeMkdir
<1>12. ASSUME NEW q \in AcRequests, createHomeGrant(q) \/ HomeReload(q) \/ ResolveWrite(q) \/ LandWrite(q)
       PROVE AcInv'
  BY <1>1, <1>12, Zenon DEF createHomeGrant, HomeReload, ResolveWrite, LandWrite
<1> QED
  BY <1>2, <1>3, <1>4, <1>5, <1>6, <1>7, <1>8, <1>9, <1>10, <1>11, <1>12 DEF AcNext

\* The accounts keep their invariant.
LEMMA AccountsInvariant == ASSUME AcConstants PROVE AcSpec => []AcInv
<1>1. AcInit => AcInv
  BY DEF AcInit, AcInv, AcConstants, SetupInv, GateFields
<1>2. AcInv /\ [AcNext]_acVars => AcInv'
  <2>1. CASE AcNext
    BY <2>1, AccountsInvStep
  <2>2. CASE UNCHANGED acVars
    BY <2>2 DEF acVars, AcInv, AccountTable, Administered, ActiveAdmin, SetupInv
  <2> QED
    BY <2>1, <2>2
<1> QED
  BY <1>1, <1>2, PTL DEF AcSpec

\* However many setup requests arrive together, and however often the server
\* restarts between them, setup makes one administrator, unless the account was
\* made and its grants were refused (setupgate.go Use).
THEOREM SetupOnce == ASSUME AcConstants PROVE AcSpec => []FirstAdminOnce
<1>1. AcInv => FirstAdminOnce
  BY DEF AcInv, SetupInv, FirstAdminOnce
<1> QED
  BY <1>1, AccountsInvariant, PTL

\* Whatever administrators do to each other at the same time, somebody who can
\* sign in and administer is left (authuser.go guardLastAdmin).
THEOREM SomebodyAdministers == ASSUME AcConstants PROVE AcSpec => []AdminRemains
<1>1. AcInv => AdminRemains
  BY DEF AcInv, Administered, AccountTable, AdminRemains, Empty
<1> QED
  BY <1>1, AccountsInvariant, PTL

------------------------------------------------------------------------------
(***************************************************************************)
(* The share registry and its rows.  A request writes its rows first and   *)
(* registers last, other requests and the probe step between any two of    *)
(* its steps, so rows and registry differ while a request is under way.    *)
(* What keeps them together at rest is what each request and the probe     *)
(* still know of the row they began with: a request nobody overtook knows  *)
(* exactly what its row says at each of its steps, a share that is being   *)
(* created is known to nobody else, and an id on which rows and registry   *)
(* disagree has a request in the middle of it.                             *)
(***************************************************************************)

\* What the theorem asks of the constants: every location has a backend
\* shareadmin.go knows.
BackendsKnown == BackendOf \in [SrLocs -> {"local", "s3", "veracrypt"}]

\* A share definition has its four fields.
IsDef(d) == d = [name |-> d.name, loc |-> d.loc, key |-> d.key, born |-> d.born]
\* A definition that was opened has the credential its backend wants.
Openable(d) == d.key = "none" => BackendOf[d.loc] = "local"

\* The rows, and the entries in memory, are definitions.
RowDefs == DOMAIN srRow \subseteq Ids /\ \A i \in DOMAIN srRow : IsDef(srRow[i])
LiveDefs ==
    /\ DOMAIN srLive \subseteq Ids /\ srUp \subseteq SrLocs
    /\ \A i \in DOMAIN srLive :
          IsDef(srLive[i].def) /\ (~srLive[i].broken => Openable(srLive[i].def))

\* Where each kind of request can be, and what it carries there.
RequestShape(r) ==
    /\ IsDef(r.def) /\ IsDef(r.before) /\ r.fresh \in BOOLEAN
    /\ \/ r.op = "" /\ r.pc = "idle" /\ r.id = 0
       \/ /\ r.op = "create" /\ r.pc \in {"insert", "secret", "open", "install", "rollback", "grant"}
          /\ r.pc # "insert" => r.id \in Ids
       \/ /\ r.op = "update" /\ r.id \in Ids
          /\ r.pc \in {"row", "secret", "open", "install", "restore", "resecret", "reopen", "broken"}
          /\ ~r.rekey => r.def.key = r.before.key
          /\ r.served /\ r.before.key = "none" => ~r.rekey
          /\ r.pc = "restore" => r.served
       \/ r.op = "retry" /\ r.id \in Ids /\ r.pc \in {"open", "install", "broken"}
       \/ r.op = "delete" /\ r.id \in Ids /\ r.pc \in {"delete", "unregister", "reload"}
    /\ r.pc = "install" => Openable(r.def)

\* The row of i is d.
Begun(rows, i, d) == i \in DOMAIN rows /\ rows[i] = d
\* What a request that nobody overtook knows of its row.
KnowsRow(r, rows) ==
    /\ r.pc \in {"row", "reopen"} => Begun(rows, r.id, r.before)
    /\ r.pc = "secret" => Begun(rows, r.id, [r.def EXCEPT !.key = IF r.op = "create" THEN "none" ELSE r.before.key])
    /\ r.pc \in {"open", "install", "restore"} => Begun(rows, r.id, r.def)
    /\ r.pc = "resecret" => Begun(rows, r.id, [r.before EXCEPT !.key = r.def.key])
    /\ r.pc = "unregister" => r.id \notin DOMAIN rows
RequestsKnow == \A a \in SrAdmins : RequestShape(srReq[a]) /\ (srReq[a].fresh => KnowsRow(srReq[a], srRow))

\* The probe holds the rows it listed, except those it was overtaken on.
ProbeKnows ==
    /\ DOMAIN srProbe.todo \subseteq Ids
    /\ \A i \in DOMAIN srProbe.todo : IsDef(srProbe.todo[i]) /\ (i \notin srProbe.stale => Begun(srRow, i, srProbe.todo[i]))
    /\ srProbe.pc \in {"heal", "break"} => srProbe.id \in DOMAIN srProbe.todo
    /\ srProbe.pc = "heal" => Openable(srProbe.todo[srProbe.id])

\* Between its first write and its registration.
Mid(r, i) ==
    r.id = i /\ r.pc \in {"secret", "open", "install", "restore", "resecret", "reopen", "broken", "rollback", "unregister"}
\* Another request is in the middle of share i, and was overtaken.
Overrun(a, i) == \E b \in SrAdmins \ {a} : Mid(srReq[b], i) /\ ~srReq[b].fresh
\* A share is being created, and nobody else knows of it.
Creating(r) == r.op = "create" /\ r.pc \in {"secret", "open", "install", "rollback"} /\ r.fresh
Unseen(a, i) ==
    /\ i \notin DOMAIN srLive /\ (i \in DOMAIN srProbe.todo => i \in srProbe.stale)
    /\ \A b \in SrAdmins \ {a} : srReq[b].id = i => ~srReq[b].fresh
NotYetLive == ~srTorn => \A a \in SrAdmins : Creating(srReq[a]) => Unseen(a, srReq[a].id) \/ Overrun(a, srReq[a].id)

\* Rows and registry say the same of share i.
InAgreement(i) == (i \in DOMAIN srLive <=> i \in DOMAIN srRow) /\ (i \in DOMAIN srRow => srLive[i].def = srRow[i])
Pending == ~srTorn => \A i \in Ids : InAgreement(i) \/ \E a \in SrAdmins : Mid(srReq[a], i)

\* The invariant.
RmInv == RowDefs /\ LiveDefs /\ RequestsKnow /\ ProbeKnows /\ NotYetLive /\ Pending

\* A definition with three fields edited, as a record.
LEMMA EditedDef ==
  ASSUME NEW d, IsDef(d), NEW n, NEW l, NEW k
  PROVE  [d EXCEPT !.name = n, !.loc = l, !.key = k] = [name |-> n, loc |-> l, key |-> k, born |-> d.born]
<1> DEFINE e == [d EXCEPT !.name = n, !.loc = l, !.key = k]
<1>1. DOMAIN d = {"name", "loc", "key", "born"}
  BY DEF IsDef
<1>2. e = [x \in DOMAIN e |-> e[x]] /\ DOMAIN e = {"name", "loc", "key", "born"}
  BY <1>1
<1>3. e.name = n /\ e.loc = l /\ e.key = k /\ e.born = d.born
  BY <1>1
<1> HIDE DEF e
<1>4. e = [name |-> n, loc |-> l, key |-> k, born |-> d.born]
  BY <1>2, <1>3
<1> QED
  BY <1>4 DEF e

\* A definition with another credential, and with its own again.
LEMMA EditedKey ==
  ASSUME NEW d, IsDef(d), NEW k
  PROVE  /\ IsDef([d EXCEPT !.key = k]) /\ [d EXCEPT !.key = k].key = k
         /\ [[d EXCEPT !.key = k] EXCEPT !.key = d.key] = d
         /\ d.key = k => [d EXCEPT !.key = k] = d
<1> DEFINE is(x) == [name |-> d.name, loc |-> d.loc, key |-> x, born |-> d.born]
<1>1. \A x, y : [is(x) EXCEPT !.key = y] = is(y)
  OBVIOUS
<1>2. \A x : is(x).key = x /\ IsDef(is(x))
  BY DEF IsDef
<1>3. d = is(d.key)
  BY DEF IsDef
<1> HIDE DEF is
<1>4. \A y : [d EXCEPT !.key = y] = is(y)
  BY <1>1, <1>3, Zenon
<1> QED
  BY <1>1, <1>2, <1>3, <1>4, Zenon

\* A request that is idle knows nothing and needs nothing.
LEMMA IdleShape == RequestShape(SrIdle) /\ SrIdle.id = 0 /\ SrIdle.pc = "idle" /\ SrIdle.op = "" /\ \A rows : KnowsRow(SrIdle, rows)
BY DEF RequestShape, SrIdle, NoDef, IsDef, KnowsRow

\* A request elsewhere.
LEMMA MovedRequest ==
  ASSUME NEW r, AdminHolds(r), NEW pc, NEW n, n = [r EXCEPT !.pc = pc]
  PROVE  /\ n.pc = pc /\ n.op = r.op /\ n.id = r.id /\ n.def = r.def /\ n.before = r.before
         /\ n.served = r.served /\ n.rekey = r.rekey /\ n.fresh = r.fresh
BY DEF AdminHolds, RequestFields

\* A request that was overtaken, or was not, knows what it knew where it still is fresh.
LEMMA MarkedRequest ==
  ASSUME NEW r, AdminHolds(r), RequestShape(r), NEW f \in BOOLEAN, NEW n, n = [r EXCEPT !.fresh = f]
  PROVE  /\ RequestShape(n) /\ n.pc = r.pc /\ n.op = r.op /\ n.id = r.id /\ n.def = r.def
         /\ n.before = r.before /\ n.fresh = f
<1>1. /\ n.pc = r.pc /\ n.op = r.op /\ n.id = r.id /\ n.def = r.def /\ n.before = r.before
      /\ n.served = r.served /\ n.rekey = r.rekey /\ n.fresh = f
  BY DEF AdminHolds, RequestFields
<1> QED
  BY <1>1 DEF RequestShape

\* A share that is being created has an id.
LEMMA CreatingHasId ==
  ASSUME SrConstants, NEW r, RequestShape(r), Creating(r)
  PROVE  r.id \in Ids /\ r.id # 0
BY DEF RequestShape, Creating, Ids, SrConstants

\* A write to another row takes nothing from what a request knows.
LEMMA Foreknown ==
  ASSUME NEW r, NEW i, r.id # i, NEW rows, NEW rows2, NEW n, KnowsRow(r, rows),
         n.pc = r.pc, n.op = r.op, n.id = r.id, n.def = r.def, n.before = r.before,
         \A j : j # i => (j \in DOMAIN rows2 <=> j \in DOMAIN rows),
         \A j \in DOMAIN rows \ {i} : rows2[j] = rows[j]
  PROVE  KnowsRow(n, rows2)
BY DEF KnowsRow, Begun

\* A request writes a row and overtakes the others.
LEMMA RowWritten ==
  ASSUME SrConstants, RmInv, AdminsHold, ProbeHolds(srProbe), NEW a \in SrAdmins, NEW i \in Ids, NEW next, Overtaken(a, i, next),
         srLive' = srLive, srUp' = srUp, DOMAIN srRow' \subseteq Ids,
         \A j : j # i => (j \in DOMAIN srRow' <=> j \in DOMAIN srRow),
         \A j \in DOMAIN srRow \ {i} : srRow'[j] = srRow[j],
         i \in DOMAIN srRow' => IsDef(srRow'[i]),
         RequestShape(next), next.fresh => KnowsRow(next, srRow'), next.id \in {0, i},
         ~srTorn' => ~srTorn,
         ~srTorn' => \A j : Mid(srReq[a], j) => srReq[a].fresh /\ j = i,
         ~srTorn' => Mid(next, i) \/ InAgreement(i)' \/ \E b \in SrAdmins \ {a} : Mid(srReq[b], i),
         ~srTorn' /\ Creating(next) =>
            i \notin DOMAIN srLive \/ \E b \in SrAdmins \ {a} : Mid(srReq[b], i)
  PROVE  RmInv'
<1> DEFINE n(b) == [srReq[b] EXCEPT !.fresh = srReq[b].fresh /\ srReq[b].id # i]
<1>1. srReq'[a] = next /\ \A b \in SrAdmins \ {a} : srReq'[b] = n(b)
  BY DEF Overtaken
<1>2. \A b \in SrAdmins \ {a} :
        /\ RequestShape(n(b)) /\ n(b).pc = srReq[b].pc /\ n(b).op = srReq[b].op /\ n(b).id = srReq[b].id
        /\ n(b).def = srReq[b].def /\ n(b).before = srReq[b].before
        /\ (n(b).fresh <=> srReq[b].fresh /\ srReq[b].id # i)
  <2> SUFFICES ASSUME NEW b \in SrAdmins \ {a}
               PROVE  /\ RequestShape(n(b)) /\ n(b).pc = srReq[b].pc /\ n(b).op = srReq[b].op /\ n(b).id = srReq[b].id
                      /\ n(b).def = srReq[b].def /\ n(b).before = srReq[b].before
                      /\ (n(b).fresh <=> srReq[b].fresh /\ srReq[b].id # i)
    OBVIOUS
  <2>1. AdminHolds(srReq[b]) /\ RequestShape(srReq[b])
    BY DEF AdminsHold, RmInv, RequestsKnow
  <2> DEFINE r == srReq[b]
             m == n(b)
             f == r.fresh /\ r.id # i
  <2>2. m = [r EXCEPT !.fresh = f] /\ f \in BOOLEAN
    OBVIOUS
  <2> HIDE DEF m, r, f
  <2>3. /\ RequestShape(m) /\ m.pc = r.pc /\ m.op = r.op /\ m.id = r.id /\ m.def = r.def
        /\ m.before = r.before /\ m.fresh = f
    <3>1. AdminHolds(r) /\ RequestShape(r)
      BY <2>1 DEF r
    <3> QED
      BY <2>2, <3>1, MarkedRequest
  <2> QED
    BY <2>3 DEF m, r, f
<1> HIDE DEF n
<1>3. /\ srProbe'.todo = srProbe.todo /\ srProbe'.pc = srProbe.pc /\ srProbe'.id = srProbe.id
      /\ \A j : j \in srProbe.stale => j \in srProbe'.stale
      /\ i \in DOMAIN srProbe.todo => i \in srProbe'.stale
  BY DEF Overtaken, ProbeHolds, RegistryProbeFields
<1>4. RowDefs' /\ LiveDefs'
  BY DEF RmInv, RowDefs, LiveDefs
<1>5. RequestsKnow'
  <2>1. \A b \in SrAdmins \ {a} : RequestShape(n(b)) /\ (n(b).fresh => KnowsRow(n(b), srRow'))
    <3> SUFFICES ASSUME NEW b \in SrAdmins \ {a}, n(b).fresh PROVE KnowsRow(n(b), srRow')
      BY <1>2
    <3>1. KnowsRow(srReq[b], srRow) /\ srReq[b].id # i
      BY <1>2 DEF RmInv, RequestsKnow
    <3> QED
      BY <1>2, <3>1, Foreknown
  <2> QED
    BY <1>1, <2>1 DEF RequestsKnow
<1>6. ProbeKnows'
  BY <1>3 DEF RmInv, ProbeKnows, Begun
<1>7. \A b \in SrAdmins \ {a} : \A j : Mid(srReq'[b], j) <=> Mid(srReq[b], j)
  BY <1>1, <1>2 DEF Mid
<1>8. NotYetLive'
  <2> SUFFICES ASSUME ~srTorn', NEW b \in SrAdmins, Creating(srReq'[b]) PROVE (Unseen(b, srReq[b].id) \/ Overrun(b, srReq[b].id))'
    BY DEF NotYetLive
  <2>1. CASE b = a
    <3>1. next.id = i
      BY <1>1, <2>1, CreatingHasId
    <3>2. CASE \E c \in SrAdmins \ {a} : Mid(srReq[c], i)
      <4>1. PICK c \in SrAdmins \ {a} : Mid(srReq[c], i)
        BY <3>2
      <4>2. Mid(srReq'[c], i) /\ ~srReq'[c].fresh
        BY <1>1, <1>2, <1>7, <4>1 DEF Mid
      <4> QED
        BY <1>1, <2>1, <3>1, <4>2 DEF Overrun
    <3>3. CASE i \notin DOMAIN srLive
      BY <1>1, <1>2, <1>3, <2>1, <3>1, <3>3 DEF Unseen
    <3> QED
      BY <1>1, <2>1, <3>2, <3>3
  <2>2. CASE b # a
    <3> DEFINE j == srReq[b].id
    <3>1. srReq'[b] = n(b) /\ Creating(srReq[b]) /\ j # i /\ srReq'[b].id = j
      BY <1>1, <1>2, <2>2 DEF Creating
    <3>0. j \in Ids /\ j # 0
      BY <3>1, CreatingHasId DEF RmInv, RequestsKnow
    <3>2. CASE Unseen(b, j)
      <4>1. next.id # j
        BY <3>0, <3>1, IdleShape
      <4>2. \A c \in SrAdmins \ {b} : srReq'[c].id = j => ~srReq'[c].fresh
        BY <1>1, <1>2, <3>2, <4>1 DEF Unseen
      <4> QED
        BY <1>3, <3>1, <3>2, <4>2 DEF Unseen
    <3>3. CASE Overrun(b, j)
      <4>1. PICK c \in SrAdmins \ {b} : Mid(srReq[c], j) /\ ~srReq[c].fresh
        BY <3>3 DEF Overrun
      <4>2. c # a
        BY <4>1
      <4>3. Mid(srReq'[c], j) /\ ~srReq'[c].fresh
        BY <1>1, <1>2, <1>7, <4>1, <4>2
      <4> QED
        BY <3>1, <4>3 DEF Overrun
    <3> QED
      BY <3>1, <3>2, <3>3 DEF RmInv, NotYetLive
  <2> QED
    BY <2>1, <2>2
<1>9. Pending'
  <2> SUFFICES ASSUME ~srTorn', NEW j \in Ids PROVE (InAgreement(j) \/ \E b \in SrAdmins : Mid(srReq[b], j))'
    BY DEF Pending
  <2>1. CASE j = i
    BY <1>1, <1>7, <2>1
  <2>2. CASE j # i
    <3>1. CASE InAgreement(j)
      BY <2>2, <3>1 DEF InAgreement
    <3>2. CASE ~InAgreement(j)
      <4>1. PICK b \in SrAdmins : Mid(srReq[b], j)
        BY <3>2 DEF RmInv, Pending
      <4>2. b # a
        BY <2>2, <4>1
      <4> QED
        BY <1>7, <4>1, <4>2
    <3> QED
      BY <3>1, <3>2
  <2> QED
    BY <2>1, <2>2
<1> QED
  BY <1>4, <1>5, <1>6, <1>8, <1>9 DEF RmInv

\* A request moves, and nothing else does.
LEMMA RequestStepsOn ==
  ASSUME SrConstants, RmInv, AdminsHold, NEW a \in SrAdmins, NEW next,
         srReq' = [srReq EXCEPT ![a] = next], UNCHANGED <<srRow, srLive, srUp, srProbe>>,
         RequestShape(next), next.fresh => KnowsRow(next, srRow),
         ~srTorn' => ~srTorn,
         ~srTorn' => \A j : Mid(srReq[a], j) => Mid(next, j) /\ next.fresh = srReq[a].fresh,
         Creating(next) => Creating(srReq[a]) /\ next.id = srReq[a].id,
         \/ next.id = 0 \/ next.id \in DOMAIN srLive
         \/ next.id = srReq[a].id /\ next.fresh = srReq[a].fresh
  PROVE  RmInv'
<1>1. srReq'[a] = next /\ \A b \in SrAdmins \ {a} : srReq'[b] = srReq[b]
  BY DEF AdminsHold
<1>2. RowDefs' /\ LiveDefs' /\ ProbeKnows'
  BY DEF RmInv, RowDefs, LiveDefs, ProbeKnows, Begun
<1>3. RequestsKnow'
  BY <1>1 DEF RmInv, RequestsKnow
<1>4. NotYetLive'
  <2> SUFFICES ASSUME ~srTorn', NEW b \in SrAdmins, Creating(srReq'[b]) PROVE (Unseen(b, srReq[b].id) \/ Overrun(b, srReq[b].id))'
    BY DEF NotYetLive
  <2> DEFINE j == srReq[b].id
  <2>1. Creating(srReq[b]) /\ srReq'[b].id = j /\ j \in Ids /\ j # 0
    <3>1. Creating(srReq[b]) /\ srReq'[b].id = j
      BY <1>1
    <3> QED
      BY <3>1, CreatingHasId DEF RmInv, RequestsKnow
  <2>2. CASE Unseen(b, j)
    <3>1. \A c \in SrAdmins \ {b} : srReq'[c].id = j => ~srReq'[c].fresh
      BY <1>1, <2>1, <2>2 DEF Unseen
    <3> QED
      BY <2>1, <2>2, <3>1 DEF Unseen
  <2>3. CASE Overrun(b, j)
    <3>1. PICK c \in SrAdmins \ {b} : Mid(srReq[c], j) /\ ~srReq[c].fresh
      BY <2>3 DEF Overrun
    <3>2. Mid(srReq'[c], j) /\ ~srReq'[c].fresh
      BY <1>1, <3>1
    <3> QED
      BY <2>1, <3>2 DEF Overrun
  <2> QED
    BY <2>1, <2>2, <2>3 DEF RmInv, NotYetLive
<1>5. Pending'
  <2> SUFFICES ASSUME ~srTorn', NEW j \in Ids PROVE (InAgreement(j) \/ \E b \in SrAdmins : Mid(srReq[b], j))'
    BY DEF Pending
  <2>1. CASE InAgreement(j)
    BY <2>1 DEF InAgreement
  <2>2. CASE ~InAgreement(j)
    <3>1. PICK b \in SrAdmins : Mid(srReq[b], j)
      BY <2>2 DEF RmInv, Pending
    <3> QED
      BY <1>1, <3>1
  <2> QED
    BY <2>1, <2>2
<1> QED
  BY <1>2, <1>3, <1>4, <1>5 DEF RmInv

\* A request changes the entry of its share and is done with its row.
LEMMA EntryChanges ==
  ASSUME SrConstants, RmInv, AdminsHold, NEW a \in SrAdmins, NEW i \in Ids, NEW next,
         srReq' = [srReq EXCEPT ![a] = next], UNCHANGED <<srRow, srUp, srProbe>>, Mid(srReq[a], i),
         \A j : j # i => (j \in DOMAIN srLive' <=> j \in DOMAIN srLive),
         \A j \in DOMAIN srLive \ {i} : srLive'[j] = srLive[j],
         i \in DOMAIN srLive' => IsDef(srLive'[i].def) /\ (~srLive'[i].broken => Openable(srLive'[i].def)),
         RequestShape(next), next.fresh => KnowsRow(next, srRow), ~Creating(next), next.id \in {0, i},
         ~srTorn' => ~srTorn /\ srReq[a].fresh /\ InAgreement(i)'
  PROVE  RmInv'
<1>1. srReq'[a] = next /\ \A b \in SrAdmins \ {a} : srReq'[b] = srReq[b]
  BY DEF AdminsHold
<1>2. RowDefs' /\ ProbeKnows'
  BY DEF RmInv, RowDefs, ProbeKnows, Begun
<1>3. LiveDefs'
  BY DEF RmInv, LiveDefs
<1>4. RequestsKnow'
  BY <1>1 DEF RmInv, RequestsKnow
<1>5. NotYetLive'
  <2> SUFFICES ASSUME ~srTorn', NEW b \in SrAdmins, Creating(srReq'[b]) PROVE (Unseen(b, srReq[b].id) \/ Overrun(b, srReq[b].id))'
    BY DEF NotYetLive
  <2> DEFINE j == srReq[b].id
  <2>1. b # a /\ Creating(srReq[b]) /\ srReq'[b].id = j
    BY <1>1
  <2>2. j \in Ids /\ j # 0
    BY <2>1, CreatingHasId DEF RmInv, RequestsKnow
  <2>3. CASE Unseen(b, j)
    <3>1. j # i
      BY <2>1, <2>3 DEF Unseen, Mid
    <3>2. \A c \in SrAdmins \ {b} : srReq'[c].id = j => ~srReq'[c].fresh
      BY <1>1, <2>2, <2>3, <3>1 DEF Unseen
    <3> QED
      BY <2>1, <2>3, <3>1, <3>2 DEF Unseen
  <2>4. CASE Overrun(b, j)
    <3>1. PICK c \in SrAdmins \ {b} : Mid(srReq[c], j) /\ ~srReq[c].fresh
      BY <2>4 DEF Overrun
    <3> QED
      BY <1>1, <2>1, <3>1 DEF Overrun
  <2> QED
    BY <2>1, <2>3, <2>4 DEF RmInv, NotYetLive
<1>6. Pending'
  <2> SUFFICES ASSUME ~srTorn', NEW j \in Ids PROVE (InAgreement(j) \/ \E b \in SrAdmins : Mid(srReq[b], j))'
    BY DEF Pending
  <2>1. CASE j = i
    BY <2>1
  <2>2. CASE j # i /\ InAgreement(j)
    BY <2>2 DEF InAgreement
  <2>3. CASE j # i /\ ~InAgreement(j)
    <3>1. PICK b \in SrAdmins : Mid(srReq[b], j)
      BY <2>3 DEF RmInv, Pending
    <3>2. b # a
      BY <2>3, <3>1 DEF Mid
    <3> QED
      BY <1>1, <3>1, <3>2
  <2> QED
    BY <2>1, <2>2, <2>3
<1> QED
  BY <1>2, <1>3, <1>4, <1>5, <1>6 DEF RmInv

\* The probe moves, and no request, row or entry does.
LEMMA ProbeMoves ==
  ASSUME RmInv, UNCHANGED <<srRow, srLive, srUp, srReq, srTorn>>, ProbeKnows',
         \A i : i \in DOMAIN srProbe'.todo /\ i \notin srProbe'.stale =>
            i \in DOMAIN srLive \/ (i \in DOMAIN srProbe.todo /\ i \notin srProbe.stale)
  PROVE  RmInv'
BY DEF RmInv, RowDefs, LiveDefs, RequestsKnow, NotYetLive, Pending, InAgreement, Unseen, Overrun

\* The probe settles the entry it looked at.
LEMMA ProbeSettles ==
  ASSUME SrConstants, RmInv, ProbeHolds(srProbe), ProbeSettle
  PROVE  RmInv'
<1> DEFINE i == srProbe.id
           e == Entry(srProbe.todo[i], srProbe.h)
<1>1. i \in DOMAIN srProbe.todo /\ i \in Ids /\ UNCHANGED <<srRow, srUp, srReq>>
  BY DEF ProbeSettle, RmInv, ProbeKnows
<1>2. DOMAIN srLive' = DOMAIN srLive \cup {i} /\ srLive'[i] = e /\ \A j \in DOMAIN srLive \ {i} : srLive'[j] = srLive[j]
  BY EntryReplaced DEF ProbeSettle
<1>3. e.def = srProbe.todo[i] /\ (e.broken <=> srProbe.h = 0)
  BY DEF Entry
<1> HIDE DEF e
<1>4. /\ DOMAIN srProbe'.todo = DOMAIN srProbe.todo \ {i} /\ srProbe'.stale = srProbe.stale /\ srProbe'.pc = "look"
      /\ \A j \in DOMAIN srProbe'.todo : srProbe'.todo[j] = srProbe.todo[j]
  BY DEF ProbeSettle, ProbeHolds, RegistryProbeFields, SrDrop
<1>5. IsDef(e.def) /\ (~e.broken => Openable(e.def)) /\ (i \notin srProbe.stale => Begun(srRow, i, e.def))
  BY <1>1, <1>3 DEF ProbeSettle, RmInv, ProbeKnows, ProbeHolds
<1>6. ~srTorn' => ~srTorn /\ i \notin srProbe.stale
  BY DEF ProbeSettle
<1>7. RowDefs' /\ LiveDefs' /\ RequestsKnow'
  BY <1>1, <1>2, <1>5 DEF RmInv, RowDefs, LiveDefs, RequestsKnow
<1>8. ProbeKnows'
  BY <1>1, <1>4 DEF RmInv, ProbeKnows, Begun
<1>9. NotYetLive'
  BY <1>1, <1>2, <1>4, <1>6 DEF RmInv, NotYetLive, Unseen, Overrun
<1>10. Pending'
  BY <1>1, <1>2, <1>5, <1>6 DEF RmInv, Pending, InAgreement, Begun
<1> QED
  BY <1>7, <1>8, <1>9, <1>10 DEF RmInv

\* A request that moves on where it is, as it was.
LEMMA RequestTurns ==
  ASSUME SrConstants, RmInv, AdminsHold, NEW a \in SrAdmins, NEW pc, Goto(a, pc),
         UNCHANGED <<srRow, srLive, srUp, srProbe>>, ~srTorn' => ~srTorn,
         RequestShape([srReq[a] EXCEPT !.pc = pc]), KnowsRow(srReq[a], srRow) => KnowsRow([srReq[a] EXCEPT !.pc = pc], srRow),
         pc \in {"restore", "broken"} \/ (pc = "rollback" /\ srReq[a].pc \in {"secret", "open"})
  PROVE  RmInv'
<1> DEFINE n == [srReq[a] EXCEPT !.pc = pc]
<1>1. /\ n.pc = pc /\ n.op = srReq[a].op /\ n.id = srReq[a].id /\ n.def = srReq[a].def
      /\ n.before = srReq[a].before /\ n.fresh = srReq[a].fresh
  BY MovedRequest DEF AdminsHold
<1>2. srReq' = [srReq EXCEPT ![a] = n] /\ RequestShape(n) /\ (KnowsRow(srReq[a], srRow) => KnowsRow(n, srRow))
  BY DEF Goto
<1> HIDE DEF n
<1>3. n.fresh => KnowsRow(n, srRow)
  BY <1>1, <1>2 DEF RmInv, RequestsKnow
<1>4. \A j : Mid(srReq[a], j) => Mid(n, j)
  BY <1>1 DEF Mid
<1>5. Creating(n) => Creating(srReq[a])
  BY <1>1 DEF Creating
<1> QED
  BY <1>1, <1>2, <1>3, <1>4, <1>5, RequestStepsOn

\* A request that ends with nothing written, or leaves a tear.
LEMMA RequestStops ==
  ASSUME SrConstants, RmInv, AdminsHold, NEW a \in SrAdmins, End(a),
         UNCHANGED <<srRow, srLive, srUp, srProbe>>, ~srTorn' => ~srTorn /\ \A j : ~Mid(srReq[a], j)
  PROVE  RmInv'
<1>1. srReq' = [srReq EXCEPT ![a] = SrIdle] /\ ~Creating(SrIdle)
  BY IdleShape DEF End, Creating
<1> QED
  BY <1>1, IdleShape, RequestStepsOn

\* A creation begins.
LEMMA CreateBegins ==
  ASSUME SrConstants, RmInv, AdminsHold, NEW a \in SrAdmins, CreateShare(a)
  PROVE  RmInv'
<1>0. srReq[a].pc = "idle" /\ UNCHANGED <<srRow, srLive, srUp, srProbe, srTorn>>
  BY Zenon DEF CreateShare
<1>1. PICK n \in SrNames, l \in SrLocs, k \in Keys : srReq' = [srReq EXCEPT ![a] = [SrIdle EXCEPT !.pc = "insert", !.op = "create",
                                 !.def = [NoDef EXCEPT !.name = n, !.loc = l, !.key = k]]]
  BY Zenon DEF CreateShare
<1> DEFINE d == [NoDef EXCEPT !.name = n, !.loc = l, !.key = k]
           r == [SrIdle EXCEPT !.pc = "insert", !.op = "create", !.def = d]
<1>2. IsDef(d)
  <2>1. IsDef(NoDef)
    BY DEF NoDef, IsDef
  <2>2. d = [name |-> n, loc |-> l, key |-> k, born |-> NoDef.born]
    BY <2>1, EditedDef
  <2> HIDE DEF d
  <2> QED
    BY <2>2 DEF IsDef
<1>3. r.pc = "insert" /\ r.op = "create" /\ r.id = 0 /\ r.def = d /\ r.before = NoDef /\ r.fresh
  BY DEF SrIdle
<1>4. srReq' = [srReq EXCEPT ![a] = r] /\ IsDef(NoDef)
  BY <1>1 DEF NoDef, IsDef
<1> HIDE DEF r, d
<1>5. RequestShape(r) /\ KnowsRow(r, srRow) /\ ~Creating(r) /\ \A j : ~Mid(srReq[a], j)
  BY <1>0, <1>2, <1>3, <1>4 DEF RequestShape, KnowsRow, Creating, Mid
<1> QED
  BY <1>0, <1>3, <1>4, <1>5, RequestStepsOn

\* An edit begins: it takes the served definition as its row.
LEMMA UpdateBegins ==
  ASSUME SrConstants, RmInv, AdminsHold, NEW a \in SrAdmins, UpdateShare(a)
  PROVE  RmInv'
<1>0. srReq[a].pc = "idle" /\ UNCHANGED <<srRow, srLive, srUp, srProbe, srTorn>>
  BY Zenon DEF UpdateShare
<1>1. PICK i \in DOMAIN srLive, n \in SrNames, l \in SrLocs, rekey \in BOOLEAN, k \in Keys \ {"none"},
           s3 \in Objects, vc \in Objects :
        /\ BackendOf[l] = BackendOf[srLive[i].def.loc]
        /\ applyShareBackendPatch(BackendOf[l], s3, vc)
        /\ rekey => s3 \union vc # {}
        /\ ~rekey => k = "right"
        /\ srReq' = [srReq EXCEPT ![a] = Patched(i, n, l, rekey, k)]
  BY DEF UpdateShare
<1> DEFINE was == srLive[i].def
           d == [was EXCEPT !.name = n, !.loc = l, !.key = IF rekey THEN k ELSE was.key]
           r == Patched(i, n, l, rekey, k)
<1>2. IsDef(was) /\ i \in Ids /\ (~srLive[i].broken => Openable(was))
  BY DEF RmInv, LiveDefs
<1>3. /\ r.pc = "row" /\ r.op = "update" /\ r.id = i /\ r.def = d /\ r.before = was
      /\ r.served = ~srLive[i].broken /\ r.rekey = rekey /\ r.fresh = InStep(i)
  BY DEF Patched
<1>4. d = [name |-> n, loc |-> l, key |-> IF rekey THEN k ELSE was.key, born |-> was.born]
  <2> HIDE DEF was
  <2> QED
    BY <1>2, EditedDef
<1> HIDE DEF d, r, was
<1>5. IsDef(d) /\ (~rekey => d.key = was.key)
  BY <1>4 DEF IsDef
<1>6. ~srLive[i].broken /\ was.key = "none" => ~rekey
  BY <1>1, <1>2 DEF Openable, applyShareBackendPatch, was
<1>7. RequestShape(r)
  BY <1>2, <1>3, <1>5, <1>6 DEF RequestShape, InStep
<1>8. r.fresh => KnowsRow(r, srRow)
  BY <1>3 DEF KnowsRow, Begun, InStep, was
<1>9. ~Creating(r) /\ \A j : ~Mid(srReq[a], j)
  BY <1>0, <1>3 DEF Creating, Mid
<1>10. srReq' = [srReq EXCEPT ![a] = r]
  BY <1>1 DEF r
<1> QED
  BY <1>0, <1>3, <1>7, <1>8, <1>9, <1>10, RequestStepsOn

\* A retry begins.
LEMMA RetryBegins ==
  ASSUME SrConstants, RmInv, AdminsHold, NEW a \in SrAdmins, RetryShare(a)
  PROVE  RmInv'
<1>0. srReq[a].pc = "idle" /\ UNCHANGED <<srRow, srLive, srUp, srProbe, srTorn>>
  BY DEF RetryShare
<1>1. PICK i \in DOMAIN srLive : srReq' = [srReq EXCEPT ![a] = [SrIdle EXCEPT !.pc = "open", !.op = "retry", !.id = i,
                                            !.def = srLive[i].def, !.fresh = InStep(i)]]
  BY DEF RetryShare
<1> DEFINE d == srLive[i].def
           f == InStep(i)
           r == [SrIdle EXCEPT !.pc = "open", !.op = "retry", !.id = i, !.def = d, !.fresh = f]
<1>2. IsDef(d) /\ i \in Ids /\ f \in BOOLEAN /\ (f => Begun(srRow, i, d))
  BY DEF RmInv, LiveDefs, InStep, Begun
<1>3. srReq' = [srReq EXCEPT ![a] = r]
  BY <1>1
<1> HIDE DEF d, f
<1>4. r.pc = "open" /\ r.op = "retry" /\ r.id = i /\ r.def = d /\ r.before = NoDef /\ r.fresh = f
  BY DEF SrIdle
<1> HIDE DEF r
<1>5. IsDef(NoDef)
  BY DEF IsDef, NoDef
<1>6. RequestShape(r) /\ (r.fresh => KnowsRow(r, srRow)) /\ ~Creating(r) /\ \A j : ~Mid(srReq[a], j)
  BY <1>0, <1>2, <1>4, <1>5 DEF RequestShape, KnowsRow, Creating, Mid
<1> QED
  BY <1>0, <1>3, <1>4, <1>6, RequestStepsOn

\* A deletion begins.
LEMMA DeleteBegins ==
  ASSUME SrConstants, RmInv, AdminsHold, NEW a \in SrAdmins, DeleteShare(a)
  PROVE  RmInv'
<1>0. srReq[a].pc = "idle" /\ UNCHANGED <<srRow, srLive, srUp, srProbe, srTorn>>
  BY DEF DeleteShare
<1>1. PICK i \in DOMAIN srLive : srReq' = [srReq EXCEPT ![a] = [SrIdle EXCEPT !.pc = "delete", !.op = "delete", !.id = i, !.fresh = InStep(i)]]
  BY DEF DeleteShare
<1> DEFINE f == InStep(i)
           r == [SrIdle EXCEPT !.pc = "delete", !.op = "delete", !.id = i, !.fresh = f]
<1>2. i \in Ids /\ f \in BOOLEAN
  BY DEF RmInv, LiveDefs, InStep
<1>3. srReq' = [srReq EXCEPT ![a] = r]
  BY <1>1
<1> HIDE DEF f
<1>4. r.pc = "delete" /\ r.op = "delete" /\ r.id = i /\ r.def = NoDef /\ r.before = NoDef /\ r.fresh = f
  BY DEF SrIdle
<1> HIDE DEF r
<1>5. IsDef(NoDef)
  BY DEF IsDef, NoDef
<1>6. RequestShape(r) /\ KnowsRow(r, srRow) /\ ~Creating(r) /\ \A j : ~Mid(srReq[a], j)
  BY <1>0, <1>2, <1>4, <1>5 DEF RequestShape, KnowsRow, Creating, Mid
<1> QED
  BY <1>0, <1>3, <1>4, <1>6, RequestStepsOn

\* The request and its row as a step finds them.
LEMMA RequestFound ==
  ASSUME RmInv, AdminsHold, NEW a \in SrAdmins
  PROVE  /\ AdminHolds(srReq[a]) /\ RequestShape(srReq[a]) /\ IsDef(srReq[a].def) /\ IsDef(srReq[a].before)
         /\ (srReq[a].fresh => KnowsRow(srReq[a], srRow))
BY DEF RmInv, AdminsHold, RequestsKnow, RequestShape

\* The row of a new share is inserted: nobody else knows its id.
LEMMA InsertWrites ==
  ASSUME SrConstants, RmInv, AdminsHold, ProbeHolds(srProbe), NEW a \in SrAdmins, InsertShare(a)
  PROVE  RmInv'
<1> DEFINE r == srReq[a]
           i == NewRowId
           d == [r.def EXCEPT !.born = srLeft.born]
           n == [r EXCEPT !.id = i, !.def = d, !.pc = IF d.key = "none" THEN "open" ELSE "secret"]
<1>0. r.pc = "insert" /\ UNCHANGED <<srLive, srUp, srTorn>> /\ \A j : ~Mid(r, j)
  BY DEF InsertShare, Mid
<1>1. CASE End(a) /\ UNCHANGED <<srRow, srProbe>>
  BY <1>0, <1>1, RequestStops
<1>2. CASE ~(End(a) /\ UNCHANGED <<srRow, srProbe>>)
  <2>1. i <= MaxShareId /\ srRow' = Put(srRow, i, [d EXCEPT !.key = "none"]) /\ Overtaken(a, i, n)
    BY <1>2 DEF InsertShare
  <2>2. i \in Ids /\ i \notin DOMAIN srRow
    BY <2>1, RowIdIsNew DEF RmInv, RowDefs
  <2>3. AdminHolds(r) /\ RequestShape(r) /\ IsDef(r.def) /\ IsDef(r.before)
    BY RequestFound
  <2>4. IsDef(d)
    BY <2>3 DEF IsDef
  <2>5. /\ n.op = r.op /\ n.id = i /\ n.def = d /\ n.before = r.before /\ n.fresh = r.fresh
        /\ n.pc = IF d.key = "none" THEN "open" ELSE "secret"
    <3> HIDE DEF d
    <3> QED
      BY <2>3 DEF AdminHolds, RequestFields
  <2> HIDE DEF n, d
  <2>6. RequestShape(n) /\ n.op = "create" /\ Mid(n, i)
    BY <1>0, <2>2, <2>3, <2>4, <2>5 DEF RequestShape, Mid
  <2>7. /\ DOMAIN srRow' = DOMAIN srRow \cup {i} /\ srRow'[i] = [d EXCEPT !.key = "none"]
        /\ \A j : j # i => (j \in DOMAIN srRow' <=> j \in DOMAIN srRow)
        /\ \A j \in DOMAIN srRow \ {i} : srRow'[j] = srRow[j]
    BY <2>1 DEF Put
  <2>8. IsDef(srRow'[i]) /\ (d.key = "none" => srRow'[i] = d)
    <3>1. IsDef([d EXCEPT !.key = "none"]) /\ (d.key = "none" => [d EXCEPT !.key = "none"] = d)
      BY <2>4, EditedKey, Zenon
    <3> QED
      BY <2>7, <3>1
  <2>9. KnowsRow(n, srRow')
    BY <2>5, <2>6, <2>7, <2>8 DEF KnowsRow, Begun
  <2>10. i \notin DOMAIN srLive \/ srTorn \/ \E b \in SrAdmins \ {a} : Mid(srReq[b], i)
    BY <1>0, <2>2 DEF RmInv, Pending, InAgreement
  <2>11. DOMAIN srRow' \subseteq Ids
    BY <2>2, <2>7 DEF RmInv, RowDefs
  <2> QED
    BY <1>0, <2>1, <2>2, <2>5, <2>6, <2>7, <2>8, <2>9, <2>10, <2>11, RowWritten
<1> QED
  BY <1>1, <1>2

\* A statement over one row leaves the others, and nothing where there is no row.
LEMMA RowStored ==
  ASSUME RowDefs, NEW i, NEW def, IsDef(def), StoreRow(i, def)
  PROVE  /\ DOMAIN srRow' = DOMAIN srRow /\ \A j \in DOMAIN srRow \ {i} : srRow'[j] = srRow[j]
         /\ i \in DOMAIN srRow => IsDef(srRow'[i]) /\ srRow'[i] = [def EXCEPT !.key = srRow[i].key]
<1> DEFINE new == [def EXCEPT !.key = srRow[i].key]
<1>1. IsDef(new)
  BY EditedKey, Zenon
<1>2. srRow' = IF i \in DOMAIN srRow THEN [srRow EXCEPT ![i] = new] ELSE srRow
  BY DEF StoreRow
<1> HIDE DEF new
<1>3. /\ DOMAIN srRow' = DOMAIN srRow /\ \A j \in DOMAIN srRow \ {i} : srRow'[j] = srRow[j]
      /\ i \in DOMAIN srRow => IsDef(srRow'[i]) /\ srRow'[i] = new
  BY <1>1, <1>2
<1> QED
  BY <1>3 DEF new

\* What storing a credential does to the rows.
LEMMA SecretStored ==
  ASSUME RowDefs, NEW i, NEW key, UpdateShareSecret(i, key)
  PROVE  /\ DOMAIN srRow' = DOMAIN srRow /\ \A j \in DOMAIN srRow \ {i} : srRow'[j] = srRow[j]
         /\ i \in DOMAIN srRow => IsDef(srRow'[i]) /\ srRow'[i] = [srRow[i] EXCEPT !.key = key]
<1> DEFINE new == [srRow[i] EXCEPT !.key = key]
<1>1. i \in DOMAIN srRow => IsDef(new)
  BY EditedKey, Zenon DEF RowDefs
<1>2. srRow' = IF i \in DOMAIN srRow THEN [srRow EXCEPT ![i] = new] ELSE srRow
  BY DEF UpdateShareSecret
<1> HIDE DEF new
<1>3. /\ DOMAIN srRow' = DOMAIN srRow /\ \A j \in DOMAIN srRow \ {i} : srRow'[j] = srRow[j]
      /\ i \in DOMAIN srRow => IsDef(srRow'[i]) /\ srRow'[i] = new
  BY <1>1, <1>2
<1> QED
  BY <1>3 DEF new

\* A request in the middle of its work writes its row once more.
LEMMA RowRewritten ==
  ASSUME SrConstants, RmInv, AdminsHold, ProbeHolds(srProbe), NEW a \in SrAdmins, NEW pc, NEW n,
         n = [srReq[a] EXCEPT !.pc = pc], Overtaken(a, srReq[a].id, n), Acts(a, FALSE),
         UNCHANGED <<srLive, srUp>>, srReq[a].id \in Ids, DOMAIN srRow' \subseteq DOMAIN srRow,
         DOMAIN srRow \ {srReq[a].id} \subseteq DOMAIN srRow',
         \A j \in DOMAIN srRow \ {srReq[a].id} : srRow'[j] = srRow[j],
         srReq[a].id \in DOMAIN srRow' => IsDef(srRow'[srReq[a].id]),
         RequestShape(n), srReq[a].fresh => KnowsRow(n, srRow'),
         pc \in {"secret", "open", "resecret", "reopen", "unregister"},
         n.op = "create" => srReq[a].pc = "secret"
  PROVE  RmInv'
<1> DEFINE r == srReq[a]
           i == srReq[a].id
<1>1. n.pc = pc /\ n.id = i /\ n.op = r.op /\ n.fresh = r.fresh
  BY MovedRequest DEF AdminsHold
<1>2. Mid(n, i) /\ (Creating(n) => Creating(r)) /\ \A j : Mid(r, j) => j = i
  BY <1>1 DEF Mid, Creating
<1>3. ~srTorn' => ~srTorn /\ r.fresh
  BY DEF Acts, RmInv, RequestsKnow, RequestShape
<1>4. ~srTorn' /\ Creating(n) => i \notin DOMAIN srLive \/ \E b \in SrAdmins \ {a} : Mid(srReq[b], i)
  BY <1>2, <1>3 DEF RmInv, NotYetLive, Unseen, Overrun
<1>5. \A j : j # i => (j \in DOMAIN srRow' <=> j \in DOMAIN srRow)
  OBVIOUS
<1>6. DOMAIN srRow' \subseteq Ids
  BY DEF RmInv, RowDefs
<1> HIDE DEF r
<1> QED
  BY <1>1, <1>2, <1>3, <1>4, <1>5, <1>6, RowWritten DEF r

\* An edit writes its row.
LEMMA UpdateWrites ==
  ASSUME SrConstants, RmInv, AdminsHold, ProbeHolds(srProbe), NEW a \in SrAdmins, WriteRow(a)
  PROVE  RmInv'
<1> DEFINE r == srReq[a]
           pc == IF r.rekey THEN "secret" ELSE "open"
           n == [r EXCEPT !.pc = pc]
<1>0. r.pc = "row" /\ UNCHANGED <<srLive, srUp>> /\ \A j : ~Mid(r, j)
  BY DEF WriteRow, Mid
<1>1. CASE End(a) /\ UNCHANGED <<srRow, srProbe, srTorn>>
  BY <1>0, <1>1, RequestStops
<1>2. CASE ~(End(a) /\ UNCHANGED <<srRow, srProbe, srTorn>>)
  <2>1. StoreRow(r.id, r.def) /\ Acts(a, FALSE) /\ Overtaken(a, r.id, n)
    BY <1>2 DEF WriteRow
  <2>2. AdminHolds(r) /\ RequestShape(r) /\ IsDef(r.def) /\ IsDef(r.before) /\ (r.fresh => KnowsRow(r, srRow))
    BY RequestFound
  <2>3. r.op = "update" /\ r.id \in Ids /\ (~r.rekey => r.def.key = r.before.key)
    BY <1>0, <2>2 DEF RequestShape
  <2>4. /\ n.pc = pc /\ n.op = r.op /\ n.id = r.id /\ n.def = r.def /\ n.before = r.before
        /\ n.served = r.served /\ n.rekey = r.rekey /\ n.fresh = r.fresh
    BY <2>2, MovedRequest
  <2>5. /\ DOMAIN srRow' = DOMAIN srRow /\ \A j \in DOMAIN srRow \ {r.id} : srRow'[j] = srRow[j]
        /\ r.id \in DOMAIN srRow => IsDef(srRow'[r.id]) /\ srRow'[r.id] = [r.def EXCEPT !.key = srRow[r.id].key]
    BY <2>1, <2>2, RowStored DEF RmInv
  <2>6. n = [srReq[a] EXCEPT !.pc = pc]
    OBVIOUS
  <2> HIDE DEF n
  <2>7. RequestShape(n)
    BY <2>2, <2>3, <2>4, <1>0 DEF RequestShape
  <2>8. r.fresh => KnowsRow(n, srRow')
    <3> SUFFICES ASSUME r.fresh PROVE KnowsRow(n, srRow')
      OBVIOUS
    <3>1. r.id \in DOMAIN srRow /\ srRow[r.id] = r.before
      BY <1>0, <2>2 DEF KnowsRow, Begun
    <3>2. srRow'[r.id] = [r.def EXCEPT !.key = r.before.key]
      BY <2>5, <3>1
    <3>3. ~r.rekey => [r.def EXCEPT !.key = r.before.key] = r.def
      BY <2>2, <2>3, EditedKey, Zenon
    <3> QED
      BY <2>3, <2>4, <2>5, <3>1, <3>2, <3>3 DEF KnowsRow, Begun
  <2> HIDE DEF pc
  <2>9. pc \in {"secret", "open"}
    BY DEF pc
  <2> QED
    BY <1>0, <2>1, <2>3, <2>4, <2>5, <2>6, <2>7, <2>8, <2>9, RowRewritten
<1> QED
  BY <1>1, <1>2

\* A creation or an edit writes its credential.
LEMMA SecretWrites ==
  ASSUME SrConstants, RmInv, AdminsHold, ProbeHolds(srProbe), NEW a \in SrAdmins, WriteSecret(a)
  PROVE  RmInv'
<1> DEFINE r == srReq[a]
<1>0. r.pc = "secret" /\ UNCHANGED <<srLive, srUp>>
  BY DEF WriteSecret
<1>1. AdminHolds(r) /\ RequestShape(r) /\ IsDef(r.def) /\ IsDef(r.before) /\ (r.fresh => KnowsRow(r, srRow))
  BY RequestFound
<1>2. CASE Goto(a, "rollback") /\ r.op = "create" /\ UNCHANGED <<srRow, srProbe, srTorn>>
  <2> DEFINE n == [r EXCEPT !.pc = "rollback"]
  <2>1. /\ n.pc = "rollback" /\ n.op = r.op /\ n.id = r.id /\ n.def = r.def /\ n.before = r.before
        /\ n.served = r.served /\ n.rekey = r.rekey /\ n.fresh = r.fresh
    BY <1>1, MovedRequest
  <2> HIDE DEF n
  <2>2. RequestShape(n) /\ KnowsRow(n, srRow)
    BY <1>0, <1>1, <1>2, <2>1 DEF RequestShape, KnowsRow
  <2> QED
    BY <1>0, <1>2, <2>2, RequestTurns DEF n
<1>3. CASE End(a) /\ Acts(a, TRUE) /\ UNCHANGED <<srRow, srProbe>>
  BY <1>0, <1>3, RequestStops DEF Acts
<1>4. CASE UpdateShareSecret(r.id, r.def.key) /\ Acts(a, FALSE) /\ Overtaken(a, r.id, [r EXCEPT !.pc = "open"])
  <2> DEFINE n == [r EXCEPT !.pc = "open"]
  <2>1. /\ n.pc = "open" /\ n.op = r.op /\ n.id = r.id /\ n.def = r.def /\ n.before = r.before
        /\ n.served = r.served /\ n.rekey = r.rekey /\ n.fresh = r.fresh
    BY <1>1, MovedRequest
  <2>2. n = [srReq[a] EXCEPT !.pc = "open"] /\ Overtaken(a, r.id, n)
    BY <1>4
  <2> HIDE DEF n
  <2>3. RequestShape(n) /\ r.id \in Ids
    BY <1>0, <1>1, <2>1 DEF RequestShape
  <2>4. /\ DOMAIN srRow' = DOMAIN srRow /\ \A j \in DOMAIN srRow \ {r.id} : srRow'[j] = srRow[j]
        /\ r.id \in DOMAIN srRow => IsDef(srRow'[r.id]) /\ srRow'[r.id] = [srRow[r.id] EXCEPT !.key = r.def.key]
    BY <1>4, SecretStored DEF RmInv
  <2>5. r.fresh => KnowsRow(n, srRow')
    <3> SUFFICES ASSUME r.fresh PROVE KnowsRow(n, srRow')
      OBVIOUS
    <3> DEFINE k == IF r.op = "create" THEN "none" ELSE r.before.key
    <3>1. r.id \in DOMAIN srRow /\ srRow[r.id] = [r.def EXCEPT !.key = k]
      BY <1>0, <1>1 DEF KnowsRow, Begun
    <3> HIDE DEF k
    <3>2. [[r.def EXCEPT !.key = k] EXCEPT !.key = r.def.key] = r.def
      BY <1>1, EditedKey, Zenon
    <3>3. srRow'[r.id] = r.def
      BY <2>4, <3>1, <3>2, Zenon
    <3> QED
      BY <2>1, <2>4, <3>1, <3>3 DEF KnowsRow, Begun
  <2> QED
    BY <1>0, <1>4, <2>2, <2>3, <2>4, <2>5, RowRewritten
<1> QED
  BY <1>2, <1>3, <1>4 DEF WriteSecret

\* A failed edit writes the former row back.
LEMMA RowRestored ==
  ASSUME SrConstants, RmInv, AdminsHold, ProbeHolds(srProbe), NEW a \in SrAdmins, restoreShare(a)
  PROVE  RmInv'
<1> DEFINE r == srReq[a]
           pc == IF r.before.key = "none" THEN "reopen" ELSE "resecret"
<1>0. r.pc = "restore" /\ UNCHANGED <<srLive, srUp>>
  BY DEF restoreShare
<1>1. AdminHolds(r) /\ RequestShape(r) /\ IsDef(r.def) /\ IsDef(r.before) /\ (r.fresh => KnowsRow(r, srRow))
  BY RequestFound
<1>2. CASE Goto(a, "broken") /\ UNCHANGED <<srRow, srProbe, srTorn>>
  <2> DEFINE n == [r EXCEPT !.pc = "broken"]
  <2>1. /\ n.pc = "broken" /\ n.op = r.op /\ n.id = r.id /\ n.def = r.def /\ n.before = r.before
        /\ n.served = r.served /\ n.rekey = r.rekey /\ n.fresh = r.fresh
    BY <1>1, MovedRequest
  <2> HIDE DEF n
  <2>2. RequestShape(n) /\ KnowsRow(n, srRow)
    BY <1>0, <1>1, <1>2, <2>1 DEF RequestShape, KnowsRow
  <2> QED
    BY <1>0, <1>2, <2>2, RequestTurns DEF n
<1>3. CASE StoreRow(r.id, r.before) /\ Acts(a, FALSE) /\ Overtaken(a, r.id, [r EXCEPT !.pc = pc])
  <2> DEFINE n == [r EXCEPT !.pc = pc]
  <2>1. /\ n.pc = pc /\ n.op = r.op /\ n.id = r.id /\ n.def = r.def /\ n.before = r.before
        /\ n.served = r.served /\ n.rekey = r.rekey /\ n.fresh = r.fresh
    BY <1>1, MovedRequest
  <2>2. n = [srReq[a] EXCEPT !.pc = pc] /\ Overtaken(a, r.id, n)
    BY <1>3
  <2> HIDE DEF n
  <2>3. RequestShape(n) /\ r.id \in Ids /\ r.op = "update" /\ (r.before.key = "none" => r.def.key = r.before.key)
    BY <1>0, <1>1, <2>1 DEF RequestShape
  <2>4. /\ DOMAIN srRow' = DOMAIN srRow /\ \A j \in DOMAIN srRow \ {r.id} : srRow'[j] = srRow[j]
        /\ r.id \in DOMAIN srRow => IsDef(srRow'[r.id]) /\ srRow'[r.id] = [r.before EXCEPT !.key = srRow[r.id].key]
    BY <1>1, <1>3, RowStored DEF RmInv
  <2>5. r.fresh => KnowsRow(n, srRow')
    <3> SUFFICES ASSUME r.fresh PROVE KnowsRow(n, srRow')
      OBVIOUS
    <3>1. r.id \in DOMAIN srRow /\ srRow[r.id] = r.def
      BY <1>0, <1>1 DEF KnowsRow, Begun
    <3>2. srRow'[r.id] = [r.before EXCEPT !.key = r.def.key]
      BY <2>4, <3>1
    <3>3. r.before.key = "none" => [r.before EXCEPT !.key = r.def.key] = r.before
      BY <1>1, <2>3, EditedKey, Zenon
    <3> QED
      BY <2>1, <2>4, <3>1, <3>2, <3>3 DEF KnowsRow, Begun
  <2> HIDE DEF pc
  <2>6. pc \in {"reopen", "resecret"}
    BY DEF pc
  <2> QED
    BY <1>0, <1>3, <2>1, <2>2, <2>3, <2>4, <2>5, <2>6, RowRewritten
<1> QED
  BY <1>2, <1>3 DEF restoreShare

\* And the former credential.
LEMMA SecretRestored ==
  ASSUME SrConstants, RmInv, AdminsHold, ProbeHolds(srProbe), NEW a \in SrAdmins, restoreSecret(a)
  PROVE  RmInv'
<1> DEFINE r == srReq[a]
<1>0. r.pc = "resecret" /\ UNCHANGED <<srLive, srUp>>
  BY DEF restoreSecret
<1>1. AdminHolds(r) /\ RequestShape(r) /\ IsDef(r.def) /\ IsDef(r.before) /\ (r.fresh => KnowsRow(r, srRow))
  BY RequestFound
<1>2. CASE Goto(a, "broken") /\ UNCHANGED <<srRow, srProbe, srTorn>>
  <2> DEFINE n == [r EXCEPT !.pc = "broken"]
  <2>1. /\ n.pc = "broken" /\ n.op = r.op /\ n.id = r.id /\ n.def = r.def /\ n.before = r.before
        /\ n.served = r.served /\ n.rekey = r.rekey /\ n.fresh = r.fresh
    BY <1>1, MovedRequest
  <2> HIDE DEF n
  <2>2. RequestShape(n) /\ KnowsRow(n, srRow)
    BY <1>0, <1>1, <1>2, <2>1 DEF RequestShape, KnowsRow
  <2> QED
    BY <1>0, <1>2, <2>2, RequestTurns DEF n
<1>3. CASE UpdateShareSecret(r.id, r.before.key) /\ Acts(a, FALSE) /\ Overtaken(a, r.id, [r EXCEPT !.pc = "reopen"])
  <2> DEFINE n == [r EXCEPT !.pc = "reopen"]
  <2>1. /\ n.pc = "reopen" /\ n.op = r.op /\ n.id = r.id /\ n.def = r.def /\ n.before = r.before
        /\ n.served = r.served /\ n.rekey = r.rekey /\ n.fresh = r.fresh
    BY <1>1, MovedRequest
  <2>2. n = [srReq[a] EXCEPT !.pc = "reopen"] /\ Overtaken(a, r.id, n)
    BY <1>3
  <2> HIDE DEF n
  <2>3. RequestShape(n) /\ r.id \in Ids /\ r.op = "update"
    BY <1>0, <1>1, <2>1 DEF RequestShape
  <2>4. /\ DOMAIN srRow' = DOMAIN srRow /\ \A j \in DOMAIN srRow \ {r.id} : srRow'[j] = srRow[j]
        /\ r.id \in DOMAIN srRow => IsDef(srRow'[r.id]) /\ srRow'[r.id] = [srRow[r.id] EXCEPT !.key = r.before.key]
    BY <1>3, SecretStored DEF RmInv
  <2>5. r.fresh => KnowsRow(n, srRow')
    <3> SUFFICES ASSUME r.fresh PROVE KnowsRow(n, srRow')
      OBVIOUS
    <3>1. r.id \in DOMAIN srRow /\ srRow[r.id] = [r.before EXCEPT !.key = r.def.key]
      BY <1>0, <1>1 DEF KnowsRow, Begun
    <3>2. [[r.before EXCEPT !.key = r.def.key] EXCEPT !.key = r.before.key] = r.before
      BY <1>1, EditedKey, Zenon
    <3>3. srRow'[r.id] = r.before
      BY <2>4, <3>1, <3>2, Zenon
    <3> QED
      BY <2>1, <2>4, <3>1, <3>3 DEF KnowsRow, Begun
  <2> QED
    BY <1>0, <1>3, <2>1, <2>2, <2>3, <2>4, <2>5, RowRewritten
<1> QED
  BY <1>2, <1>3 DEF restoreSecret

\* A failed creation takes its row back.
LEMMA RollbackWrites ==
  ASSUME SrConstants, RmInv, AdminsHold, ProbeHolds(srProbe), NEW a \in SrAdmins, rollbackShareRow(a)
  PROVE  RmInv'
<1> DEFINE r == srReq[a]
<1> PICK i : i = r.id
  OBVIOUS
<1>0. r.pc = "rollback" /\ UNCHANGED <<srLive, srUp>>
  BY DEF rollbackShareRow
<1>1. AdminHolds(r) /\ RequestShape(r)
  BY RequestFound
<1>2. CASE End(a) /\ Acts(a, TRUE) /\ UNCHANGED <<srRow, srProbe>>
  BY <1>0, <1>2, RequestStops DEF Acts
<1>3. CASE DeleteRow(i) /\ Acts(a, FALSE) /\ Overtaken(a, i, SrIdle)
  <2>1. r.op = "create" /\ i \in Ids /\ (r.fresh => Creating(r)) /\ \A j : Mid(r, j) => j = i
    BY <1>0, <1>1 DEF RequestShape, Creating, Mid
  <2>2. DOMAIN srRow' = DOMAIN srRow \ {i} /\ \A j \in DOMAIN srRow \ {i} : srRow'[j] = srRow[j]
    BY <1>3 DEF DeleteRow, SrDrop
  <2>3. ~srTorn' => ~srTorn /\ r.fresh
    BY <1>1, <1>3 DEF Acts, RequestShape
  <2>4. ~srTorn' => InAgreement(i)' \/ \E b \in SrAdmins \ {a} : Mid(srReq[b], i)
    BY <1>0, <2>1, <2>2, <2>3 DEF RmInv, NotYetLive, Unseen, Overrun, InAgreement
  <2>5. \A j : j # i => (j \in DOMAIN srRow' <=> j \in DOMAIN srRow)
    BY <2>2
  <2>6. DOMAIN srRow' \subseteq Ids /\ ~Creating(SrIdle)
    BY <2>2, IdleShape DEF RmInv, RowDefs, Creating
  <2> QED
    BY <1>0, <1>3, <2>1, <2>2, <2>3, <2>4, <2>5, <2>6, IdleShape, RowWritten
<1> QED
  BY <1>2, <1>3 DEF rollbackShareRow

\* A deletion deletes its row.
LEMMA DeleteWrites ==
  ASSUME SrConstants, RmInv, AdminsHold, ProbeHolds(srProbe), NEW a \in SrAdmins, DeleteShareRow(a)
  PROVE  RmInv'
<1> DEFINE r == srReq[a]
<1>0. r.pc = "delete" /\ UNCHANGED <<srLive, srUp>> /\ \A j : ~Mid(r, j)
  BY DEF DeleteShareRow, Mid
<1>1. AdminHolds(r) /\ RequestShape(r)
  BY RequestFound
<1>2. CASE End(a) /\ UNCHANGED <<srRow, srProbe, srTorn>>
  BY <1>0, <1>2, RequestStops
<1>3. CASE DeleteRow(r.id) /\ Acts(a, FALSE) /\ Overtaken(a, r.id, [r EXCEPT !.pc = "unregister"])
  <2> DEFINE n == [r EXCEPT !.pc = "unregister"]
  <2>1. /\ n.pc = "unregister" /\ n.op = r.op /\ n.id = r.id /\ n.def = r.def /\ n.before = r.before
        /\ n.served = r.served /\ n.rekey = r.rekey /\ n.fresh = r.fresh
    BY <1>1, MovedRequest
  <2>2. n = [srReq[a] EXCEPT !.pc = "unregister"] /\ Overtaken(a, r.id, n)
    BY <1>3
  <2> HIDE DEF n
  <2>3. RequestShape(n) /\ r.id \in Ids /\ r.op = "delete"
    BY <1>0, <1>1, <2>1 DEF RequestShape
  <2>4. DOMAIN srRow' = DOMAIN srRow \ {r.id} /\ \A j \in DOMAIN srRow \ {r.id} : srRow'[j] = srRow[j]
    BY <1>3 DEF DeleteRow, SrDrop
  <2>5. KnowsRow(n, srRow')
    BY <2>1, <2>4 DEF KnowsRow
  <2> QED
    BY <1>0, <1>3, <2>1, <2>2, <2>3, <2>4, <2>5, RowRewritten
<1> QED
  BY <1>2, <1>3 DEF DeleteShareRow

\* A location that answers with no credential holds a plain directory.
LEMMA OpenIsOpenable ==
  ASSUME BackendsKnown, srUp \subseteq SrLocs, NEW d, Open(d)
  PROVE  Openable(d)
BY DEF BackendsKnown, Open, Openable

\* A request opens the root it is about to register, or fails to.
LEMMA RootOpens ==
  ASSUME SrConstants, BackendsKnown, RmInv, AdminsHold, NEW a \in SrAdmins, OpenRoot(a)
  PROVE  RmInv'
<1> DEFINE r == srReq[a]
           d == IF r.pc = "reopen" THEN r.before ELSE r.def
<1>0. r.pc \in {"open", "reopen"} /\ UNCHANGED <<srRow, srLive, srUp, srProbe, srTorn>>
  BY DEF OpenRoot
<1>1. AdminHolds(r) /\ RequestShape(r) /\ IsDef(r.def) /\ IsDef(r.before) /\ (r.fresh => KnowsRow(r, srRow))
  BY RequestFound
<1>2. CASE Open(d)
  <2> DEFINE n == [r EXCEPT !.h = FreshHandle, !.pc = "install", !.def = d]
  <2>1. srReq' = [srReq EXCEPT ![a] = n]
    BY <1>2 DEF OpenRoot
  <2>2. Openable(d) /\ IsDef(d)
    BY <1>1, <1>2, OpenIsOpenable DEF RmInv, LiveDefs
  <2>3. (r.fresh => Begun(srRow, r.id, d)) /\ (d = r.def \/ d = r.before)
    BY <1>0, <1>1 DEF KnowsRow
  <2> HIDE DEF d
  <2>4. /\ n.pc = "install" /\ n.op = r.op /\ n.id = r.id /\ n.def = d /\ n.before = r.before
        /\ n.served = r.served /\ n.rekey = r.rekey /\ n.fresh = r.fresh
    BY <1>1 DEF AdminHolds, RequestFields
  <2> HIDE DEF n
  <2>5. RequestShape(n)
    BY <1>0, <1>1, <2>2, <2>3, <2>4 DEF RequestShape
  <2>6. n.fresh => KnowsRow(n, srRow)
    BY <2>3, <2>4 DEF KnowsRow
  <2>7. (Creating(n) => Creating(r)) /\ \A j : Mid(r, j) => Mid(n, j)
    BY <1>0, <1>1, <2>4 DEF Creating, Mid, RequestShape
  <2> QED
    BY <1>0, <2>1, <2>4, <2>5, <2>6, <2>7, RequestStepsOn
<1>3. CASE ~Open(d)
  <2>1. PICK pc : /\ Goto(a, pc)
                  /\ \/ r.op = "create" /\ pc = "rollback"
                     \/ r.op = "update" /\ r.served /\ r.pc = "open" /\ pc = "restore"
                     \/ r.op # "create" /\ pc = "broken"
    BY <1>3 DEF OpenRoot
  <2> DEFINE n == [r EXCEPT !.pc = pc]
  <2>2. /\ n.pc = pc /\ n.op = r.op /\ n.id = r.id /\ n.def = r.def /\ n.before = r.before
        /\ n.served = r.served /\ n.rekey = r.rekey /\ n.fresh = r.fresh
    BY <1>1, MovedRequest
  <2> HIDE DEF n
  <2>3. RequestShape(n) /\ (pc = "rollback" => r.pc = "open")
    BY <1>0, <1>1, <2>1, <2>2 DEF RequestShape
  <2>4. KnowsRow(r, srRow) => KnowsRow(n, srRow)
    BY <1>0, <2>1, <2>2 DEF KnowsRow
  <2> QED
    BY <1>0, <2>1, <2>3, <2>4, RequestTurns DEF n
<1> QED
  BY <1>2, <1>3

\* A request registers the share it opened.
LEMMA ShareInstalled ==
  ASSUME SrConstants, RmInv, AdminsHold, NEW a \in SrAdmins, RegisterShare(a)
  PROVE  RmInv'
<1> DEFINE r == srReq[a]
           n == IF r.op = "create" THEN [r EXCEPT !.pc = "grant", !.h = 0] ELSE SrIdle
           e == Entry(r.def, r.h)
<1> PICK i : i = r.id
  OBVIOUS
<1>0. r.pc = "install" /\ UNCHANGED <<srRow, srUp, srProbe>> /\ srReq' = [srReq EXCEPT ![a] = n]
  BY DEF RegisterShare
<1>1. AdminHolds(r) /\ RequestShape(r) /\ IsDef(r.def) /\ (r.fresh => KnowsRow(r, srRow))
  BY RequestFound
<1>2. i \in Ids /\ Mid(r, i) /\ Openable(r.def)
  BY <1>0, <1>1 DEF RequestShape, Mid
<1>3. DOMAIN srLive' = DOMAIN srLive \cup {i} /\ srLive'[i] = e /\ \A j \in DOMAIN srLive \ {i} : srLive'[j] = srLive[j]
  BY EntryReplaced DEF RegisterShare
<1>4. e.def = r.def
  BY DEF Entry
<1>5. RequestShape(n) /\ KnowsRow(n, srRow) /\ ~Creating(n) /\ n.id \in {0, i}
  <2>1. CASE r.op = "create"
    <3>1. n.pc = "grant" /\ n.op = "create" /\ n.id = i /\ n.def = r.def /\ n.before = r.before /\ n.fresh = r.fresh
      BY <1>1, <2>1 DEF AdminHolds, RequestFields
    <3> HIDE DEF n
    <3> QED
      BY <1>1, <1>2, <3>1 DEF RequestShape, KnowsRow, Creating
  <2>2. CASE r.op # "create"
    BY <2>2, IdleShape DEF Creating
  <2> QED
    BY <2>1, <2>2
<1> HIDE DEF n, e
<1>6. ~srTorn' => ~srTorn /\ r.fresh /\ InAgreement(i)'
  <2> SUFFICES ASSUME ~srTorn' PROVE ~srTorn /\ r.fresh /\ InAgreement(i)'
    OBVIOUS
  <2>1. ~srTorn /\ r.fresh
    BY <1>1 DEF RegisterShare, Acts, RequestShape
  <2>2. Begun(srRow, i, r.def)
    BY <1>0, <1>1, <2>1 DEF KnowsRow
  <2> QED
    BY <1>0, <1>3, <1>4, <2>1, <2>2 DEF InAgreement, Begun
<1> QED
  BY <1>0, <1>1, <1>2, <1>3, <1>4, <1>5, <1>6, EntryChanges

\* A request registers a share it could not open as broken.
LEMMA BrokenInstalled ==
  ASSUME SrConstants, RmInv, AdminsHold, NEW a \in SrAdmins, LeaveBroken(a)
  PROVE  RmInv'
<1> DEFINE r == srReq[a]
           e == Entry(r.def, 0)
<1> PICK i : i = r.id
  OBVIOUS
<1>0. r.pc = "broken" /\ UNCHANGED <<srRow, srUp, srProbe>> /\ srReq' = [srReq EXCEPT ![a] = SrIdle]
  BY DEF LeaveBroken, End
<1>1. RequestShape(r) /\ IsDef(r.def)
  BY RequestFound
<1>2. i \in Ids /\ Mid(r, i)
  BY <1>0, <1>1 DEF RequestShape, Mid
<1>3. DOMAIN srLive' = DOMAIN srLive \cup {i} /\ srLive'[i] = e /\ \A j \in DOMAIN srLive \ {i} : srLive'[j] = srLive[j]
  BY EntryReplaced DEF LeaveBroken, RegisterBroken
<1>4. e.def = r.def /\ e.broken
  BY DEF Entry
<1> HIDE DEF e
<1>5. ~srTorn' => ~srTorn /\ r.fresh /\ InAgreement(i)'
  BY <1>0, <1>1, <1>3, <1>4 DEF LeaveBroken, Acts, RequestShape, InAgreement
<1>6. ~Creating(SrIdle)
  BY IdleShape DEF Creating
<1> QED
  BY <1>0, <1>1, <1>2, <1>3, <1>4, <1>5, <1>6, IdleShape, EntryChanges

\* A deletion takes its entry out of the registry.
LEMMA EntryDeleted ==
  ASSUME SrConstants, RmInv, AdminsHold, NEW a \in SrAdmins, DeleteLive(a)
  PROVE  RmInv'
<1> DEFINE r == srReq[a]
           n == [r EXCEPT !.pc = "reload"]
<1> PICK i : i = r.id
  OBVIOUS
<1>0. r.pc = "unregister" /\ UNCHANGED <<srRow, srUp, srProbe>> /\ srReq' = [srReq EXCEPT ![a] = n]
  BY DEF DeleteLive, Goto
<1>1. AdminHolds(r) /\ RequestShape(r) /\ (r.fresh => KnowsRow(r, srRow))
  BY RequestFound
<1>2. i \in Ids /\ Mid(r, i)
  BY <1>0, <1>1 DEF RequestShape, Mid
<1>3. DOMAIN srLive' = DOMAIN srLive \ {i} /\ \A j \in DOMAIN srLive \ {i} : srLive'[j] = srLive[j]
  BY EntryRemoved DEF DeleteLive
<1>4. /\ n.pc = "reload" /\ n.op = r.op /\ n.id = r.id /\ n.def = r.def /\ n.before = r.before
      /\ n.served = r.served /\ n.rekey = r.rekey /\ n.fresh = r.fresh
  BY <1>1, MovedRequest
<1> HIDE DEF n
<1>5. RequestShape(n) /\ KnowsRow(n, srRow) /\ ~Creating(n) /\ n.id \in {0, i}
  BY <1>0, <1>1, <1>4 DEF RequestShape, KnowsRow, Creating
<1>6. ~srTorn' => ~srTorn /\ r.fresh /\ InAgreement(i)'
  BY <1>0, <1>1, <1>3 DEF DeleteLive, Acts, RequestShape, KnowsRow, InAgreement
<1> QED
  BY <1>0, <1>2, <1>3, <1>5, <1>6, EntryChanges

\* The probe opens the next root it listed.
LEMMA ProbeLooks ==
  ASSUME SrConstants, BackendsKnown, RmInv, ProbeHolds(srProbe), ProbeLook
  PROVE  RmInv'
<1> PICK i : i = Min(DOMAIN srProbe.todo)
  OBVIOUS
<1>0. srProbe.pc = "look" /\ DOMAIN srProbe.todo # {} /\ UNCHANGED <<srRow, srLive, srUp, srReq, srTorn>>
  BY DEF ProbeLook
<1>1. i \in DOMAIN srProbe.todo
  <2>1. DOMAIN srProbe.todo \subseteq Nat
    BY DEF RmInv, ProbeKnows, Ids, SrConstants
  <2>2. \E x \in DOMAIN srProbe.todo : \A y \in DOMAIN srProbe.todo : x <= y
    BY <1>0, <2>1, LeastNatural
  <2> QED
    BY <2>2 DEF Min
<1>2. CASE Open(srProbe.todo[i]) /\ srProbe' = [srProbe EXCEPT !.pc = "heal", !.id = i, !.h = FreshHandle]
  <2>1. srProbe'.pc = "heal" /\ srProbe'.id = i /\ srProbe'.todo = srProbe.todo /\ srProbe'.stale = srProbe.stale
    BY <1>2 DEF ProbeHolds, RegistryProbeFields
  <2>2. Openable(srProbe.todo[i])
    BY <1>2, OpenIsOpenable DEF RmInv, LiveDefs
  <2>3. ProbeKnows'
    BY <1>0, <1>1, <2>1, <2>2 DEF RmInv, ProbeKnows
  <2> QED
    BY <1>0, <2>1, <2>3, ProbeMoves
<1>3. CASE srProbe' = [srProbe EXCEPT !.pc = "break", !.id = i]
  <2>1. srProbe'.pc = "break" /\ srProbe'.id = i /\ srProbe'.todo = srProbe.todo /\ srProbe'.stale = srProbe.stale
    BY <1>3 DEF ProbeHolds, RegistryProbeFields
  <2>2. ProbeKnows'
    BY <1>0, <1>1, <2>1 DEF RmInv, ProbeKnows
  <2> QED
    BY <1>0, <2>1, <2>2, ProbeMoves
<1>4. CASE srProbe' = [srProbe EXCEPT !.todo = SrDrop(srProbe.todo, i)]
  <2>1. srProbe'.pc = "look" /\ srProbe'.todo = SrDrop(srProbe.todo, i) /\ srProbe'.stale = srProbe.stale
    BY <1>0, <1>4 DEF ProbeHolds, RegistryProbeFields
  <2>2. DOMAIN srProbe'.todo = DOMAIN srProbe.todo \ {i} /\ \A j \in DOMAIN srProbe'.todo : srProbe'.todo[j] = srProbe.todo[j]
    BY <2>1 DEF SrDrop
  <2>3. ProbeKnows'
    BY <1>0, <2>1, <2>2 DEF RmInv, ProbeKnows, Begun
  <2> QED
    BY <1>0, <2>1, <2>2, <2>3, ProbeMoves
<1> QED
  BY <1>2, <1>3, <1>4 DEF ProbeLook

\* The probe lists the registry.
LEMMA ProbeBegins ==
  ASSUME RmInv, ProbeHolds(srProbe), ProbeShares
  PROVE  RmInv'
<1>0. UNCHANGED <<srRow, srLive, srUp, srReq, srTorn>>
  BY DEF ProbeShares
<1>1. /\ srProbe'.pc = "look" /\ srProbe'.todo = [i \in DOMAIN srLive |-> srLive[i].def]
      /\ srProbe'.stale = {i \in DOMAIN srLive : ~InStep(i)}
  BY DEF ProbeShares, ProbeHolds, RegistryProbeFields
<1>2. ProbeKnows'
  BY <1>0, <1>1 DEF RmInv, LiveDefs, ProbeKnows, Begun, InStep
<1> QED
  BY <1>0, <1>1, <1>2, ProbeMoves

\* A restart rebuilds the registry from the rows.
LEMMA RegistryReloads ==
  ASSUME SrConstants, BackendsKnown, RmInv, ReloadPersistedShares
  PROVE  RmInv'
<1>1. /\ DOMAIN srLive' = DOMAIN srRow /\ UNCHANGED <<srRow, srUp>>
      /\ \A i \in DOMAIN srRow : srLive'[i] = Entry(srRow[i], IF Open(srRow[i]) THEN i ELSE 0)
      /\ srReq' = [a \in SrAdmins |-> SrIdle] /\ srProbe' = ProbeIdle
  BY DEF ReloadPersistedShares
<1>2. \A i \in DOMAIN srRow : srLive'[i].def = srRow[i] /\ (~srLive'[i].broken => Openable(srRow[i]))
  <2> TAKE i \in DOMAIN srRow
  <2> DEFINE h == IF Open(srRow[i]) THEN i ELSE 0
  <2>1. srLive'[i] = Entry(srRow[i], h) /\ (h # 0 => Open(srRow[i]))
    BY <1>1
  <2> HIDE DEF h
  <2>2. srLive'[i].def = srRow[i] /\ (srLive'[i].broken <=> h = 0)
    <3> DEFINE e == Entry(srRow[i], h)
    <3>1. e.def = srRow[i] /\ (e.broken <=> h = 0)
      BY DEF Entry
    <3> HIDE DEF e
    <3>2. srLive'[i] = e
      BY <2>1 DEF e
    <3> QED
      BY <3>1, <3>2
  <2> QED
    BY <2>1, <2>2, OpenIsOpenable DEF RmInv, LiveDefs
<1>3. RowDefs' /\ LiveDefs'
  BY <1>1, <1>2 DEF RmInv, RowDefs, LiveDefs
<1>4. \A a \in SrAdmins : srReq'[a] = SrIdle
  BY <1>1
<1>5. RequestsKnow' /\ NotYetLive'
  BY <1>4, IdleShape DEF RequestsKnow, NotYetLive, Creating
<1>6. ProbeKnows'
  BY <1>1 DEF ProbeKnows, ProbeIdle
<1>7. Pending'
  BY <1>1, <1>2 DEF Pending, InAgreement
<1> QED
  BY <1>3, <1>5, <1>6, <1>7 DEF RmInv

\* Every step of the registry keeps the invariant.
LEMMA RegistryRowsStep ==
  ASSUME SrConstants, BackendsKnown, SrInv, RmInv, SrNext
  PROVE  RmInv'
<1>0. AdminsHold /\ ProbeHolds(srProbe)
  BY DEF SrInv
<1>1. ASSUME NEW a \in SrAdmins, CreateShare(a) \/ UpdateShare(a) \/ RetryShare(a) \/ DeleteShare(a)
      PROVE  RmInv'
  BY <1>0, <1>1, CreateBegins, UpdateBegins, RetryBegins, DeleteBegins
<1>2. ASSUME NEW a \in SrAdmins, InsertShare(a) \/ WriteRow(a) \/ WriteSecret(a) \/ restoreShare(a) \/ restoreSecret(a)
             \/ rollbackShareRow(a) \/ DeleteShareRow(a)
      PROVE  RmInv'
  BY <1>0, <1>2, InsertWrites, UpdateWrites, SecretWrites, RowRestored, SecretRestored, RollbackWrites, DeleteWrites
<1>3. ASSUME NEW a \in SrAdmins, OpenRoot(a) \/ RegisterShare(a) \/ LeaveBroken(a) \/ DeleteLive(a)
      PROVE  RmInv'
  BY <1>0, <1>3, RootOpens, ShareInstalled, BrokenInstalled, EntryDeleted
<1>4. ASSUME NEW a \in SrAdmins, grantShareToContext(a) \/ DeleteReload(a)
      PROVE  RmInv'
  <2>1. End(a) /\ UNCHANGED <<srRow, srLive, srUp, srProbe>> /\ srReq[a].pc \in {"grant", "reload"}
    BY <1>4 DEF grantShareToContext, DeleteReload
  <2>2. ~srTorn' => ~srTorn
    <3>1. CASE grantShareToContext(a)
      BY <3>1 DEF grantShareToContext, Acts
    <3>2. CASE DeleteReload(a)
      BY <3>2 DEF DeleteReload, Acts
    <3> QED
      BY <1>4, <3>1, <3>2
  <2>3. \A j : ~Mid(srReq[a], j)
    BY <2>1 DEF Mid
  <2> QED
    BY <1>0, <2>1, <2>2, <2>3, RequestStops
<1>5. ASSUME ProbeShares \/ ProbeLook \/ ProbeSettle
      PROVE  RmInv'
  BY <1>0, <1>5, ProbeBegins, ProbeLooks, ProbeSettles
<1>6. ASSUME ProbeEnd
      PROVE  RmInv'
  <2>1. ProbeKnows' /\ DOMAIN srProbe'.todo = {}
    BY <1>6 DEF ProbeEnd, ProbeIdle, ProbeKnows
  <2> QED
    BY <1>6, <2>1, ProbeMoves DEF ProbeEnd
<1>7. ASSUME DiskFlips
      PROVE  RmInv'
  <2>1. srUp' \subseteq SrLocs
    BY <1>7 DEF DiskFlips, RmInv, LiveDefs
  <2> QED
    BY <1>7, <2>1 DEF DiskFlips, RmInv, RowDefs, LiveDefs, RequestsKnow, ProbeKnows, NotYetLive, Pending, InAgreement, Unseen, Overrun
<1>8. ASSUME ReloadPersistedShares
      PROVE  RmInv'
  BY <1>8, RegistryReloads
<1> QED
  BY <1>1, <1>2, <1>3, <1>4, <1>5, <1>6, <1>7, <1>8 DEF SrNext

\* The registry keeps the invariant.
LEMMA RegistryRowsInvariant == ASSUME SrConstants, BackendsKnown PROVE SrSpec => []RmInv
<1>1. SrInit => RmInv
  <2> SUFFICES ASSUME SrInit PROVE RmInv
    OBVIOUS
  <2>1. DOMAIN srRow = {} /\ DOMAIN srLive = {} /\ srUp = SrLocs /\ srProbe = ProbeIdle /\ ~srTorn
        /\ \A a \in SrAdmins : srReq[a] = SrIdle
    BY DEF SrInit
  <2>2. RowDefs /\ LiveDefs /\ Pending
    BY <2>1 DEF RowDefs, LiveDefs, Pending, InAgreement
  <2>3. RequestsKnow /\ NotYetLive
    BY <2>1, IdleShape DEF RequestsKnow, NotYetLive, Creating
  <2>4. ProbeKnows
    BY <2>1 DEF ProbeKnows, ProbeIdle
  <2> QED
    BY <2>2, <2>3, <2>4 DEF RmInv
<1>2. SrInv /\ RmInv /\ [SrNext]_srVars => RmInv'
  <2>1. CASE SrNext
    BY <2>1, RegistryRowsStep
  <2>2. CASE UNCHANGED srVars
    BY <2>2 DEF srVars, RmInv, RowDefs, LiveDefs, RequestsKnow, ProbeKnows, NotYetLive, Pending, InAgreement, Unseen, Overrun
  <2> QED
    BY <2>1, <2>2
<1> QED
  BY <1>1, <1>2, RegistryInvariant, PTL DEF SrSpec

\* At rest, whatever requests, probes and restarts came in between, the
\* registry serves exactly the stored shares with their stored definitions,
\* unless a request acted on a definition another had replaced or a later step
\* of a committed change failed (registry.go replaceEntry, shareadmin.go
\* UpdateShare and rollbackShareRow).
THEOREM RegistryServesRows == ASSUME SrConstants, BackendsKnown PROVE SrSpec => []RegistryMatchesRows
<1>1. RmInv => RegistryMatchesRows
  <2> SUFFICES ASSUME RmInv, Settled, ~srTorn
               PROVE  DOMAIN srLive = DOMAIN srRow /\ \A i \in DOMAIN srRow : srLive[i].def = srRow[i]
    BY DEF RegistryMatchesRows
  <2>1. \A i \in Ids : InAgreement(i)
    BY DEF RmInv, Pending, Settled, Mid
  <2> QED
    BY <2>1 DEF RmInv, RowDefs, LiveDefs, InAgreement
<1> QED
  BY <1>1, RegistryRowsInvariant, PTL

------------------------------------------------------------------------------
(***************************************************************************)
(* The parts together.  A part out of focus stutters, so a behaviour of    *)
(* the composition is one of each part's specification, and what is proved *)
(* of a part holds in the composition.                                     *)
(***************************************************************************)

\* What is asked of the constants of all the parts.
AccessConstants ==
    /\ SiConstants /\ PromptClaims /\ DvConstants /\ LmConstants /\ LkConstants /\ OiConstants
    /\ PeConstants /\ SrConstants /\ BackendsKnown /\ AcConstants

\* A step of the composition is a step of each part, or leaves it alone.
LEMMA AccessStepOfPart ==
  ASSUME [Next]_vars
  PROVE  /\ [SiNext]_siVars /\ [DvNext]_dvVars /\ [KrNext]_krVars /\ [OiNext]_oiVars /\ [PeNext]_peVars
         /\ [AcNext]_acVars /\ [LkNext]_lkVars /\ [SrNext]_srVars /\ [LmNext]_lmVars
BY DEF Next, vars, Only, SignInStep, DeviceLoginStep, KeyRotationStep, SingleSignOnStep, PermissionsStep,
       AccountsStep, PublicLinksStep, ShareRegistryStep, RequestChainStep, VirtualPathsStep,
       RequestLimiterStep, ErrorAnswersStep

\* A behaviour of the composition is a behaviour of each part.
LEMMA AccessRunsParts ==
  Spec => SiSpec /\ DvSpec /\ KrSpec /\ OiSpec /\ PeSpec /\ AcSpec /\ LkSpec /\ SrSpec /\ LmSpec
<1>1. Init => /\ SiInit /\ DvInit /\ KrInit /\ OiInit /\ PeInit /\ AcInit /\ LkInit /\ SrInit /\ LmInit
  BY DEF Init
<1> QED
  BY <1>1, AccessStepOfPart, PTL
  DEF Spec, SiSpec, DvSpec, KrSpec, OiSpec, PeSpec, AcSpec, LkSpec, SrSpec, LmSpec

\* What may be used once, or so many times, is used no more often, however the
\* requests that present it race: a second-factor step and a recovery code
\* (totp.go), a single sign-on attempt (oidcbridge.go), a device flow
\* (loginflow.go), the setup token (setupgate.go), the downloads of a capped
\* link (linkaccess.go) and the burst of a rate-limited client (limiter.go).
THEOREM NothingSpentTwice == ASSUME AccessConstants PROVE Spec => []SpentOnce
<1>1. SiConstants /\ PromptClaims /\ DvConstants /\ LmConstants /\ LkConstants /\ OiConstants /\ AcConstants
  BY DEF AccessConstants
<1>2. SiSpec => []CodesSpentOnce
  BY <1>1, CodesOpenOnce
<1>3. OiSpec => []RedeemedOnce
  BY <1>1, AttemptRedeemedOnce
<1>4. DvSpec => []FlowMintsForApprover
  BY <1>1, FirstApproverMints
<1>5. AcSpec => []FirstAdminOnce
  BY <1>1, SetupOnce
<1>6. LkSpec => []CapHolds
  BY <1>1, LinkCapHolds
<1>7. LmSpec => []LimiterBound /\ []LimiterBounded
  BY <1>1, LimiterHolds, LimiterStaysBounded
<1>8. CodesSpentOnce /\ RedeemedOnce /\ FlowMintsForApprover /\ FirstAdminOnce /\ CapHolds
      /\ LimiterBound /\ LimiterBounded => SpentOnce
  BY DEF SpentOnce
<1> QED
  BY <1>2, <1>3, <1>4, <1>5, <1>6, <1>7, <1>8, AccessRunsParts, PTL

\* What is held in memory answers as the rows would: sessions and cached
\* password decisions, cached tokens, signing keys, remembered access
\* decisions, the share registry with its roots, and the key file.
THEOREM MemoryServesRows == ASSUME AccessConstants PROVE Spec => []HeldIsStored
<1>1. SiConstants /\ DvConstants /\ OiConstants /\ PeConstants /\ SrConstants /\ BackendsKnown
  BY DEF AccessConstants
<1>2. SiSpec => []RevokedStaysDead /\ []CacheAgrees
  BY <1>1, RevokedNeverReturns, CacheServesRow
<1>3. DvSpec => []CacheServesLive
  BY <1>1, TokenCacheServesLive
<1>4. OiSpec => []KeysCurrent
  BY <1>1, KeysRunOut
<1>5. PeSpec => []RememberedIsCurrent /\ []EvaluatorCurrent
  BY <1>1, MemoServesTables, EvaluatorCatchesUp
<1>6. SrSpec => []NoRootLeak /\ []RegistryMatchesRows
  BY <1>1, RootsAreHeld, RegistryServesRows
<1>7. KrSpec => []RotationRecoverable
  BY RotationsRecoverable
<1>8. RevokedStaysDead /\ CacheAgrees /\ CacheServesLive /\ KeysCurrent /\ RememberedIsCurrent
      /\ EvaluatorCurrent /\ NoRootLeak /\ RegistryMatchesRows /\ RotationRecoverable => HeldIsStored
  BY DEF HeldIsStored
<1> QED
  BY <1>2, <1>3, <1>4, <1>5, <1>6, <1>7, <1>8, AccessRunsParts, PTL
==============================================================================
