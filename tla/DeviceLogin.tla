---------------------------- MODULE DeviceLogin ----------------------------
(***************************************************************************)
(* App passwords and the device login that mints one: internal/auth        *)
(* (apppw.go, loginflow.go, the token tier of cache.go) over the rows of   *)
(* internal/db/state (apppw.go, loginflow.go), reached from the polling    *)
(* client and the approving browser (internal/nextcloud/login.go) and from *)
(* every request that presents a token (internal/server/chain.go).         *)
(*                                                                         *)
(* A request is a sequence of steps, one per statement of the store; a     *)
(* flow stands for both of its tokens, a credential's number for its       *)
(* token. The clock counts in units of the shortest window.                *)
(***************************************************************************)
EXTENDS Integers, FiniteSets, Functions

CONSTANTS Flows, Owners,
          DvRequests,    \* the request slots that run at once
          DvBudget,      \* how many requests a behaviour makes
          MaxCreds,      \* how many credentials may be minted
          DvMaxClock,
          FlowTTL, FlowPollInterval, TokenTTL

VARIABLES dvFlow,    \* the flow rows: state, created, approver, last poll
          dvCred,    \* the app password rows by id
          dvOn,      \* the accounts that are enabled
          dvCache,   \* the token tier: credential -> decision
          dvGen,     \* the generation counter
          dvMinted,  \* every credential a flow minted, and for whom
          dvSaid,    \* who approved each flow first
          dvClock, dvReq, dvLeft

dvVars == <<dvFlow, dvCred, dvOn, dvCache, dvGen, dvMinted, dvSaid, dvClock, dvReq, dvLeft>>

DvNobody == "nobody"
DvNever == 0
DvIdle == [op |-> "idle"]
NoFlow == [live |-> FALSE, created |-> 0, approved |-> DvNobody, polled |-> 0]

DvInit ==
    /\ dvFlow = [f \in Flows |-> NoFlow]
    /\ dvCred = <<>> /\ dvOn = Owners /\ dvCache = <<>> /\ dvGen = 0 /\ dvMinted = {}
    /\ dvSaid = [f \in Flows |-> DvNobody]
    /\ dvClock = 1 /\ dvReq = [q \in DvRequests |-> DvIdle] /\ dvLeft = DvBudget

DvBegins(q) == dvReq[q] = DvIdle /\ dvLeft > 0 /\ dvLeft' = dvLeft - 1
DvAt(q, op) == dvReq[q].op = op
DvBecomes(q, req) == dvReq' = [dvReq EXCEPT ![q] = req]

\* A change has committed and the generation still has to move.
DvBumping == [op |-> "bump"]

(***************************************************************************)
(* The flow                                                                *)
(***************************************************************************)

flowExpired(row) == dvClock - row.created >= FlowTTL

Begin(q) ==
    /\ DvBegins(q)
    /\ \E f \in Flows :
          /\ ~dvFlow[f].live /\ dvSaid[f] = DvNobody
          /\ dvFlow' = [dvFlow EXCEPT ![f] = [NoFlow EXCEPT !.live = TRUE, !.created = dvClock]]
    /\ UNCHANGED <<dvCred, dvOn, dvCache, dvGen, dvMinted, dvSaid, dvClock, dvReq>>

\* The row is read, its age and its approval are checked; the statement that approves
\* comes after.
Approve(q) ==
    /\ DvBegins(q)
    /\ \E f \in Flows, u \in dvOn :
          /\ dvFlow[f].live /\ ~flowExpired(dvFlow[f]) /\ dvFlow[f].approved = DvNobody
          /\ DvBecomes(q, [op |-> "approve", flow |-> f, user |-> u])
    /\ UNCHANGED <<dvFlow, dvCred, dvOn, dvCache, dvGen, dvMinted, dvSaid, dvClock>>

Approves(f, u) ==
    /\ dvFlow' = [dvFlow EXCEPT ![f].approved = u]
    /\ dvSaid' = [dvSaid EXCEPT ![f] = IF @ = DvNobody THEN u ELSE @]

\* The check the reader made is not repeated in the statement.
MutApproveLoginFlow(q) ==
    /\ DvAt(q, "approve")
    /\ IF dvFlow[dvReq[q].flow].live THEN Approves(dvReq[q].flow, dvReq[q].user)
       ELSE UNCHANGED <<dvFlow, dvSaid>>
    /\ DvBecomes(q, DvIdle)
    /\ UNCHANGED <<dvCred, dvOn, dvCache, dvGen, dvMinted, dvClock, dvLeft>>

\* UPDATE ... WHERE approved_user IS NULL: the second of two approvals changes no row.
ApproveLoginFlow(q) ==
    /\ DvAt(q, "approve")
    /\ LET f == dvReq[q].flow IN
       IF dvFlow[f].live /\ dvFlow[f].approved = DvNobody THEN Approves(f, dvReq[q].user)
       ELSE UNCHANGED <<dvFlow, dvSaid>>
    /\ DvBecomes(q, DvIdle)
    /\ UNCHANGED <<dvCred, dvOn, dvCache, dvGen, dvMinted, dvClock, dvLeft>>

\* A pending flow answers pending, at most once an interval.
TouchLoginFlowPoll(f) ==
    dvFlow' = [dvFlow EXCEPT ![f].polled = IF @ <= dvClock - FlowPollInterval THEN dvClock ELSE @]

\* Poll reads the row; an approved one goes on to mint for the approver it read.
Poll(q) ==
    /\ DvBegins(q)
    /\ \E f \in Flows :
          /\ dvFlow[f].live /\ ~flowExpired(dvFlow[f])
          /\ IF dvFlow[f].approved = DvNobody
             THEN TouchLoginFlowPoll(f) /\ UNCHANGED dvReq
             ELSE /\ DvBecomes(q, [op |-> "mint", flow |-> f, user |-> dvFlow[f].approved])
                  /\ UNCHANGED dvFlow
    /\ UNCHANGED <<dvCred, dvOn, dvCache, dvGen, dvMinted, dvSaid, dvClock>>

Fresh == Cardinality(DOMAIN dvCred \union {m.cred : m \in dvMinted}) + 1

CreateAppPassword(id, user, expires) ==
    /\ id <= MaxCreds
    /\ dvCred' = [c \in DOMAIN dvCred \union {id} |->
                    IF c = id THEN [user |-> user, expires |-> expires, wiped |-> FALSE, dead |-> FALSE]
                    ELSE dvCred[c]]

\* CreateSyncCredential: no expiry.
MintSyncCredential(q) ==
    /\ DvAt(q, "mint")
    /\ CreateAppPassword(Fresh, dvReq[q].user, DvNever)
    /\ dvMinted' = dvMinted \union {[flow |-> dvReq[q].flow, user |-> dvReq[q].user, cred |-> Fresh]}
    /\ DvBecomes(q, [op |-> "minted", flow |-> dvReq[q].flow])
    /\ UNCHANGED <<dvFlow, dvOn, dvCache, dvGen, dvSaid, dvClock, dvLeft>>

\* The generation moves, then the flow is dropped; a drop that fails leaves it standing.
DropLoginFlow(q) ==
    /\ DvAt(q, "minted")
    /\ dvGen' = dvGen + 1
    /\ \/ dvFlow' = [dvFlow EXCEPT ![dvReq[q].flow] = NoFlow]
       \/ UNCHANGED dvFlow
    /\ DvBecomes(q, DvIdle)
    /\ UNCHANGED <<dvCred, dvOn, dvCache, dvMinted, dvSaid, dvClock, dvLeft>>

\* The schedule's sweep: every flow older than the lifetime.
SweepLoginFlows ==
    /\ \E f \in Flows : dvFlow[f].live /\ dvFlow[f].created < dvClock - FlowTTL
    /\ dvFlow' = [f \in Flows |->
                    IF dvFlow[f].live /\ dvFlow[f].created < dvClock - FlowTTL THEN NoFlow
                    ELSE dvFlow[f]]
    /\ UNCHANGED <<dvCred, dvOn, dvCache, dvGen, dvMinted, dvSaid, dvClock, dvReq, dvLeft>>

(***************************************************************************)
(* The owner's credentials                                                 *)
(***************************************************************************)

MintAppPassword(q) ==
    /\ DvBegins(q)
    /\ \E u \in dvOn, expires \in {DvNever, dvClock + 1} : CreateAppPassword(Fresh, u, expires)
    /\ DvBecomes(q, DvBumping)
    /\ UNCHANGED <<dvFlow, dvOn, dvCache, dvGen, dvMinted, dvSaid, dvClock>>

\* The row is deleted; its number is not used again.
RevokeAppPassword(q) ==
    /\ DvBegins(q)
    /\ \E c \in DOMAIN dvCred :
          /\ ~dvCred[c].dead
          /\ dvCred' = [dvCred EXCEPT ![c].dead = TRUE]
    /\ DvBecomes(q, DvBumping)
    /\ UNCHANGED <<dvFlow, dvOn, dvCache, dvGen, dvMinted, dvSaid, dvClock>>

RequestWipe(q) ==
    /\ DvBegins(q)
    /\ \E c \in DOMAIN dvCred :
          /\ ~dvCred[c].dead /\ ~dvCred[c].wiped
          /\ dvCred' = [dvCred EXCEPT ![c].wiped = TRUE]
    /\ DvBecomes(q, DvBumping)
    /\ UNCHANGED <<dvFlow, dvOn, dvCache, dvGen, dvMinted, dvSaid, dvClock>>

SetDisabled(q) ==
    /\ DvBegins(q)
    /\ \E u \in Owners : dvOn' = (dvOn \ {u}) \union ({u} \ dvOn)
    /\ DvBecomes(q, DvBumping)
    /\ UNCHANGED <<dvFlow, dvCred, dvCache, dvGen, dvMinted, dvSaid, dvClock>>

BumpGeneration(q) ==
    /\ DvAt(q, "bump")
    /\ dvGen' = dvGen + 1
    /\ DvBecomes(q, DvIdle)
    /\ UNCHANGED <<dvFlow, dvCred, dvOn, dvCache, dvMinted, dvSaid, dvClock, dvLeft>>

(***************************************************************************)
(* Verification                                                            *)
(***************************************************************************)

\* The owner's expiry is left to the row that is no longer read.
MutTokenLookup(c) ==
    c \in DOMAIN dvCache /\ dvCache[c].gen = dvGen /\ dvClock - dvCache[c].inserted < TokenTTL

tokenLookup(c) ==
    /\ c \in DOMAIN dvCache
    /\ dvCache[c].gen = dvGen
    /\ dvClock - dvCache[c].inserted < TokenTTL
    /\ dvCache[c].expires = DvNever \/ dvClock < dvCache[c].expires

\* A cached decision answers; otherwise the row is read, and a wiped, expired or missing
\* one refuses.
VerifyAppPasswordID(q) ==
    /\ DvBegins(q)
    /\ \E c \in DOMAIN dvCred :
          /\ ~tokenLookup(c)
          /\ LET row == dvCred[c] IN
             IF row.dead \/ row.wiped \/ (row.expires # DvNever /\ dvClock >= row.expires)
             THEN UNCHANGED dvReq
             ELSE DvBecomes(q, [op |-> "account", cred |-> c, user |-> row.user,
                              expires |-> row.expires, gen |-> dvGen])
    /\ UNCHANGED <<dvFlow, dvCred, dvOn, dvCache, dvGen, dvMinted, dvSaid, dvClock>>

\* The owner is read; an enabled one's decision is cached under the generation read first.
VerifyOwner(q) ==
    /\ DvAt(q, "account")
    /\ IF dvReq[q].user \in dvOn
       THEN DvBecomes(q, [dvReq[q] EXCEPT !.op = "store"])
       ELSE DvBecomes(q, DvIdle)
    /\ UNCHANGED <<dvFlow, dvCred, dvOn, dvCache, dvGen, dvMinted, dvSaid, dvClock, dvLeft>>

Stored(q, gen) ==
    LET r == dvReq[q] IN
    dvCache' = [c \in DOMAIN dvCache \union {r.cred} |->
                  IF c = r.cred THEN [gen |-> gen, inserted |-> dvClock, expires |-> r.expires]
                  ELSE dvCache[c]]

\* The decision is stamped with the generation at the time it is stored.
MutTokenStore(q) ==
    /\ DvAt(q, "store")
    /\ Stored(q, dvGen)
    /\ DvBecomes(q, DvIdle)
    /\ UNCHANGED <<dvFlow, dvCred, dvOn, dvGen, dvMinted, dvSaid, dvClock, dvLeft>>

tokenStore(q) ==
    /\ DvAt(q, "store")
    /\ Stored(q, dvReq[q].gen)
    /\ DvBecomes(q, DvIdle)
    /\ UNCHANGED <<dvFlow, dvCred, dvOn, dvGen, dvMinted, dvSaid, dvClock, dvLeft>>

DvTick ==
    /\ dvClock < DvMaxClock
    /\ dvClock' = dvClock + 1
    /\ UNCHANGED <<dvFlow, dvCred, dvOn, dvCache, dvGen, dvMinted, dvSaid, dvReq, dvLeft>>

DvNext ==
    \/ DvTick \/ SweepLoginFlows
    \/ \E q \in DvRequests :
         \/ Begin(q) \/ Approve(q) \/ ApproveLoginFlow(q) \/ Poll(q) \/ MintSyncCredential(q)
         \/ DropLoginFlow(q) \/ MintAppPassword(q) \/ RevokeAppPassword(q) \/ RequestWipe(q)
         \/ SetDisabled(q) \/ BumpGeneration(q)
         \/ VerifyAppPasswordID(q) \/ VerifyOwner(q) \/ tokenStore(q)

DvSpec == DvInit /\ [][DvNext]_dvVars

(***************************************************************************)
(* Properties                                                              *)
(***************************************************************************)

\* Every variable has its type.
DvTypeOK ==
    /\ dvFlow \in [Flows -> [live : BOOLEAN, created : Nat, approved : Owners \union {DvNobody},
                            polled : Nat]]
    /\ DOMAIN dvCred \subseteq 1 .. MaxCreds /\ dvOn \subseteq Owners
    /\ DOMAIN dvCache \subseteq 1 .. MaxCreds /\ dvGen \in Nat
    /\ dvSaid \in [Flows -> Owners \union {DvNobody}]

\* Whatever a flow mints, it mints for the one person who said yes first: two browsers that
\* approve together never leave it to the later one (loginflow.go, ApproveLoginFlow).
FlowMintsForApprover == \A m \in dvMinted : m.user = dvSaid[m.flow]

\* A change has committed and its generation has not moved.
Revoking == \E q \in DvRequests : dvReq[q].op \in {"bump", "minted"}

\* Between changes, a token the cache would answer for is one the rows would admit: not revoked,
\* not wiped, not expired, its owner enabled (apppw.go: "the bypass cache is inert the moment the
\* revocation lands").
CacheServesLive ==
    ~Revoking => \A c \in 1 .. MaxCreds :
       tokenLookup(c) =>
          /\ ~dvCred[c].dead /\ ~dvCred[c].wiped
          /\ dvCred[c].expires = DvNever \/ dvClock < dvCred[c].expires
          /\ dvCred[c].user \in dvOn

\* A flow mints one credential (loginflow.go: "A flow can never mint more than one credential").
\* Two polls that read the approved row before either drops it mint one each.
OneCredentialPerFlow == \A m, n \in dvMinted : m.flow = n.flow => m = n

=============================================================================
