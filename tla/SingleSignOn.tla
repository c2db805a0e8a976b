--------------------------- MODULE SingleSignOn ---------------------------
(***************************************************************************)
(* Sign-on through a provider: internal/oidc (http.go, authorize.go,       *)
(* discovery.go, jws.go, cache.go, guard.go), internal/auth/oidcbridge.go  *)
(* and the rows of internal/db/state/oidclink.go.                          *)
(*                                                                         *)
(* An attempt stands for its four secrets (state, nonce, binding,          *)
(* verifier), a key for its id. A callback is a sequence of steps, one per *)
(* statement of the store and one per answer of the provider, which may    *)
(* rotate its keys and answer with any of TokenShapes.                     *)
(***************************************************************************)
EXTENDS Integers, FiniteSets

CONSTANTS Accounts, Identities, Attempts, Callbacks,
          KeyOf,           \* the provider's keys: id -> [kty, crv, alg, use, sound]
          Faults,          \* how a token may differ from a genuine one
          OiMaxClock, FlowLifetime, JWKSTTL, DiscoveryTTL, ClockSkew

VARIABLES oiFlow,       \* the flow rows
          oiLink,       \* the link rows: identity -> account
          oiSmb,        \* the accounts whose file-sharing flag is on
          oiDoc, oiKeys,        \* the two cache slots of the client
          oiPub, oiGone,        \* the provider: the keys it publishes, when it withdrew the others
          oiWho,        \* the identity that signed on at the provider, per attempt
          oiRedeemed,   \* how often each attempt was redeemed
          oiConsent,    \* which identity which signed-in account attached
          oiSess,       \* the sessions established
          oiAccepted, oiTurned, \* the keys tokens verified under, and those refused as unknown
          oiClock, oiReq

oiVars == <<oiFlow, oiLink, oiSmb, oiDoc, oiKeys, oiPub, oiGone, oiWho, oiRedeemed,
            oiConsent, oiSess, oiAccepted, oiTurned, oiClock, oiReq>>
oiStore == <<oiFlow, oiLink, oiSmb, oiConsent, oiSess, oiRedeemed>>
oiProvider == <<oiPub, oiGone, oiWho, oiClock>>
oiClient == <<oiDoc, oiKeys, oiAccepted, oiTurned>>

None == "none"
OiIdle == [op |-> "idle"]
Cold == [at |-> -1, keys |-> {}]
Us == "this client"
Issuer == "issuer"

OiInit ==
    /\ oiFlow = [f \in Attempts |-> [live |-> FALSE, user |-> None, created |-> 0]]
    /\ oiLink = [i \in Identities |-> None] /\ oiSmb = Accounts
    /\ oiDoc = Cold /\ oiKeys = Cold
    /\ oiPub = {CHOOSE k \in DOMAIN KeyOf : TRUE} /\ oiGone = [k \in DOMAIN KeyOf |-> OiMaxClock + JWKSTTL]
    /\ oiWho = [f \in Attempts |-> None] /\ oiRedeemed = [f \in Attempts |-> 0]
    /\ oiConsent = {} /\ oiSess = {} /\ oiAccepted = {} /\ oiTurned = {}
    /\ oiClock = 1 /\ oiReq = [c \in Callbacks |-> OiIdle]

OiAt(c, op) == oiReq[c].op = op
OiBecomes(c, req) == oiReq' = [oiReq EXCEPT ![c] = req]
Ends(c) == OiBecomes(c, OiIdle)

(***************************************************************************)
(* The client: discovery, the key set, the exchange                        *)
(***************************************************************************)

MutFresh(slot, ttl) == slot.at >= 0

\* A slot answers inside its lifetime.
fresh(slot, ttl) == slot.at >= 0 /\ oiClock - slot.at < ttl

\* What the provider may serve as its document; the endpoints are one value each.
DocShapes == [issuer : {Issuer, "another"}, endpoint : {"https", "http", "private"},
              algs : {{}, {"RS256", "HS256"}, {"HS256"}}, auth : {{}, {"client_secret_post"}, {"private_key_jwt"}}]

\* The private ranges, loopback, link-local and the embeddings of one family in the other.
blocked(endpoint) == endpoint = "private"

checkEndpoint(endpoint) == endpoint # "http" /\ ~blocked(endpoint)

anySupported(algs) == algs \intersect {"RS256", "ES256"} # {}

\* This deployment is a confidential client.
clientAuthMethod(doc) ==
    CASE doc.auth = {} \/ "client_secret_basic" \in doc.auth -> "basic"
      [] doc.auth # {} /\ "client_secret_post" \in doc.auth -> "post"
      [] OTHER -> None

Usable(doc) ==
    /\ doc.issuer = Issuer /\ checkEndpoint(doc.endpoint)
    /\ doc.algs = {} \/ anySupported(doc.algs)
    /\ clientAuthMethod(doc) # None

\* A fresh document answers, or one is fetched, validated and only then stored; slot is what
\* the cache holds afterwards. It is not established where neither happens.
FetchDiscovery(slot) ==
    \/ fresh(oiDoc, DiscoveryTTL) /\ slot = oiDoc
    \/ /\ ~fresh(oiDoc, DiscoveryTTL)
       /\ \E doc \in DocShapes : Usable(doc)
       /\ slot = [at |-> oiClock, keys |-> {}]

\* The provider's answer to an exchange: a token for one of the attempts signed on at it, or
\* one that differs from the token for f in one respect.
Genuine(g, k) ==
    [nonce |-> g, sub |-> oiWho[g], kid |-> k, signed |-> k, iss |-> Issuer, aud |-> {Us},
     azp |-> "", alg |-> IF KeyOf[k].kty = "RSA" THEN "RS256" ELSE "ES256",
     exp |-> oiClock + 1, iat |-> oiClock, selfKeyed |-> FALSE, crit |-> FALSE]

Faulty(t, fault) ==
    CASE fault = "forged"   -> [t EXCEPT !.signed = None]
      [] fault = "no key"   -> [t EXCEPT !.kid = ""]
      [] fault = "alg"      -> [t EXCEPT !.alg = "HS256"]
      [] fault = "own key"  -> [t EXCEPT !.selfKeyed = TRUE]
      [] fault = "critical" -> [t EXCEPT !.crit = TRUE]
      [] fault = "issuer"   -> [t EXCEPT !.iss = "another"]
      [] fault = "audience" -> [t EXCEPT !.aud = {"other"}]
      [] fault = "shared"   -> [t EXCEPT !.aud = {Us, "other"}]
      [] fault = "party"    -> [t EXCEPT !.azp = "other"]
      [] fault = "endless"  -> [t EXCEPT !.exp = 0]
      [] fault = "expired"  -> [t EXCEPT !.exp = oiClock - 1 - ClockSkew]
      [] fault = "future"   -> [t EXCEPT !.iat = oiClock + 1 + ClockSkew]
      [] fault = "nobody"   -> [t EXCEPT !.sub = ""]

TokenShapes(f) ==
    {Genuine(g, k) : g \in {h \in Attempts : oiWho[h] # None}, k \in oiPub}
      \union {Faulty(Genuine(f, k), fault) : k \in oiPub, fault \in Faults}

(***************************************************************************)
(* Starting                                                                *)
(***************************************************************************)

\* Expired rows go with the insert.
StartOIDCFlow(f, user) ==
    oiFlow' = [g \in Attempts |->
                 IF g = f THEN [live |-> TRUE, user |-> user, created |-> oiClock]
                 ELSE [oiFlow[g] EXCEPT !.live = @ /\ oiFlow[g].created >= oiClock - FlowLifetime]]

\* Four fresh secrets, the document, the row. The browser then signs on at the provider.
begin(f, user) ==
    /\ oiWho[f] = None
    /\ FetchDiscovery(oiDoc')
    /\ StartOIDCFlow(f, user)
    /\ \E i \in Identities : oiWho' = [oiWho EXCEPT ![f] = i]
    /\ UNCHANGED <<oiLink, oiSmb, oiKeys, oiPub, oiGone, oiRedeemed, oiConsent, oiSess,
                   oiAccepted, oiTurned, oiClock, oiReq>>

Start(f) == begin(f, None)

\* The account's password was confirmed.
LinkStart(f) == \E u \in Accounts : begin(f, u)

(***************************************************************************)
(* The callback                                                            *)
(***************************************************************************)

\* The row is read here and deleted by a statement of its own, which cannot fail to find it.
MutTakeOIDCFlow(f) ==
    /\ oiFlow[f].live /\ oiFlow[f].created >= oiClock - FlowLifetime
    /\ UNCHANGED oiFlow

\* One transaction reads and deletes; an expired row is deleted too and answers nothing.
TakeOIDCFlow(f) ==
    /\ oiFlow[f].live /\ oiFlow[f].created >= oiClock - FlowLifetime
    /\ oiFlow' = [oiFlow EXCEPT ![f].live = FALSE]

TakeExpired(c) ==
    /\ oiReq[c] = OiIdle
    /\ \E f \in Attempts :
          /\ oiFlow[f].live /\ oiFlow[f].created < oiClock - FlowLifetime
          /\ oiFlow' = [oiFlow EXCEPT ![f].live = FALSE]
    /\ UNCHANGED <<oiLink, oiSmb, oiConsent, oiSess, oiRedeemed, oiReq>>
    /\ UNCHANGED <<oiProvider, oiClient>>

\* A state, the binding cookie of the browser that carries it and that browser's session. The
\* row is consumed whether or not the binding is the attempt's.
Callback(c) ==
    /\ oiReq[c] = OiIdle
    /\ \E f \in Attempts, binding \in Attempts, session \in Accounts \union {None} :
          /\ TakeOIDCFlow(f)
          /\ IF binding = f
             THEN /\ OiBecomes(c, [op |-> "exchange", flow |-> f, user |-> oiFlow[f].user,
                                 session |-> IF oiFlow[f].user = None THEN None ELSE session])
                  /\ oiRedeemed' = [oiRedeemed EXCEPT ![f] = @ + 1]
             ELSE UNCHANGED <<oiReq, oiRedeemed>>
    /\ UNCHANGED <<oiLink, oiSmb, oiConsent, oiSess>>
    /\ UNCHANGED <<oiProvider, oiClient>>

Carry(c, op, t) ==
    [op |-> op, flow |-> oiReq[c].flow, user |-> oiReq[c].user, session |-> oiReq[c].session, tok |-> t]

Exchange(c) ==
    /\ OiAt(c, "exchange")
    /\ \/ FetchDiscovery(oiDoc') /\ \E t \in TokenShapes(oiReq[c].flow) : OiBecomes(c, Carry(c, "key", t))
       \/ UNCHANGED oiDoc /\ Ends(c)
    /\ UNCHANGED <<oiKeys, oiAccepted, oiTurned>> /\ UNCHANGED <<oiStore, oiProvider>>

keyMatchesAlg(k, alg) ==
    /\ \/ alg = "RS256" /\ KeyOf[k].kty = "RSA"
       \/ alg = "ES256" /\ KeyOf[k].kty = "EC" /\ KeyOf[k].crv = "P-256"
    /\ KeyOf[k].alg \in {"", alg}
    /\ KeyOf[k].use \in {"", "sig"}

\* The key is one of usable size, on its curve, and it signed this input.
verifySignature(t) == KeyOf[t.kid].sound /\ t.signed = t.kid

MutCheckClaims(t, nonce) ==
    /\ t.iss = Issuer /\ Us \in t.aud
    /\ Cardinality(t.aud) > 1 => t.azp = Us
    /\ t.azp \in {"", Us}
    /\ t.exp # 0 /\ oiClock <= t.exp + ClockSkew /\ t.iat - ClockSkew <= oiClock
    /\ t.sub # ""

checkClaims(t, nonce) ==
    /\ t.iss = Issuer /\ Us \in t.aud
    /\ Cardinality(t.aud) > 1 => t.azp = Us
    /\ t.azp \in {"", Us}
    /\ t.exp # 0 /\ oiClock <= t.exp + ClockSkew /\ t.iat - ClockSkew <= oiClock
    /\ t.nonce = nonce
    /\ t.sub # ""

\* What the header may not carry, before a key is looked for.
HeaderAllowed(t) == ~t.selfKeyed /\ ~t.crit /\ t.kid # ""

\* With the key in hand: the algorithm, the signature and only then the claims.
Verified(c) ==
    LET t == oiReq[c].tok IN
    IF keyMatchesAlg(t.kid, t.alg) /\ verifySignature(t) /\ checkClaims(t, oiReq[c].flow)
    THEN /\ OiBecomes(c, Carry(c, "complete", [nonce |-> t.nonce, sub |-> t.sub]))
         /\ oiAccepted' = oiAccepted \union {[key |-> t.kid, at |-> oiClock]}
    ELSE Ends(c) /\ UNCHANGED oiAccepted

\* A key the cached set lacks is taken to be none of the provider's.
MutKeyFor(c) ==
    LET t == oiReq[c].tok IN
    IF fresh(oiKeys, JWKSTTL)
    THEN IF t.kid \in oiKeys.keys THEN Verified(c) /\ UNCHANGED <<oiKeys, oiTurned>>
         ELSE /\ Ends(c) /\ oiTurned' = oiTurned \union ({t.kid} \intersect oiPub)
              /\ UNCHANGED <<oiKeys, oiAccepted>>
    ELSE OiBecomes(c, Carry(c, "fetch", t)) /\ UNCHANGED <<oiKeys, oiAccepted, oiTurned>>

\* The cached set, or a fetch; a key the cached set lacks forgets it and fetches once more.
keyFor(c) ==
    LET t == oiReq[c].tok IN
    IF fresh(oiKeys, JWKSTTL) /\ t.kid \in oiKeys.keys
    THEN Verified(c) /\ UNCHANGED <<oiKeys, oiTurned>>
    ELSE /\ OiBecomes(c, Carry(c, "fetch", t))
         /\ oiKeys' = IF fresh(oiKeys, JWKSTTL) THEN Cold ELSE oiKeys
         /\ UNCHANGED <<oiAccepted, oiTurned>>

VerifyIDToken(c) ==
    /\ OiAt(c, "key")
    /\ IF HeaderAllowed(oiReq[c].tok) THEN keyFor(c)
       ELSE Ends(c) /\ UNCHANGED <<oiKeys, oiAccepted, oiTurned>>
    /\ UNCHANGED oiDoc /\ UNCHANGED <<oiStore, oiProvider>>

\* The provider's answer is stored; a key it does not carry is refused. The provider may fail.
fetchJWKS(c) ==
    /\ OiAt(c, "fetch")
    /\ \/ /\ FetchDiscovery(oiDoc')
          /\ oiKeys' = [at |-> oiClock, keys |-> oiPub]
          /\ IF oiReq[c].tok.kid \in oiPub THEN Verified(c) /\ UNCHANGED oiTurned
             ELSE Ends(c) /\ UNCHANGED <<oiAccepted, oiTurned>>
       \/ Ends(c) /\ UNCHANGED <<oiDoc, oiKeys, oiAccepted, oiTurned>>
    /\ UNCHANGED <<oiStore, oiProvider>>

\* The account's other identity goes, and with it the stored file-sharing secret.
CreateOIDCLink(u, i) ==
    oiLink' = [j \in Identities |-> IF j = i THEN u ELSE IF oiLink[j] = u THEN None ELSE oiLink[j]]

\* Whoever is signed in, the identity goes to the account that began.
MutCompleteLink(c) ==
    /\ OiAt(c, "complete") /\ oiReq[c].user # None
    /\ LET u == oiReq[c].user  i == oiReq[c].tok.sub IN
       IF oiLink[i] \in {None, u}
       THEN /\ CreateOIDCLink(u, i)
            /\ oiConsent' = oiConsent \union {<<oiReq[c].session, i>>}
            /\ OiBecomes(c, [op |-> "smb", user |-> u, on |-> FALSE])
       ELSE Ends(c) /\ UNCHANGED <<oiLink, oiConsent>>
    /\ UNCHANGED <<oiFlow, oiSmb, oiSess, oiRedeemed>> /\ UNCHANGED <<oiProvider, oiClient>>

\* The browser's session must be the account's that began; an identity of another account is
\* refused inside the transaction that would attach it.
completeLink(c) ==
    /\ OiAt(c, "complete") /\ oiReq[c].user # None
    /\ LET u == oiReq[c].user  i == oiReq[c].tok.sub IN
       IF oiReq[c].session = u /\ oiLink[i] \in {None, u}
       THEN /\ CreateOIDCLink(u, i)
            /\ oiConsent' = oiConsent \union {<<oiReq[c].session, i>>}
            /\ OiBecomes(c, [op |-> "smb", user |-> u, on |-> FALSE])
       ELSE Ends(c) /\ UNCHANGED <<oiLink, oiConsent>>
    /\ UNCHANGED <<oiFlow, oiSmb, oiSess, oiRedeemed>> /\ UNCHANGED <<oiProvider, oiClient>>

\* The flag of file sharing follows in a statement of its own.
setSMBEnabled(c) ==
    /\ OiAt(c, "smb")
    /\ oiSmb' = IF oiReq[c].on THEN oiSmb \union {oiReq[c].user} ELSE oiSmb \ {oiReq[c].user}
    /\ Ends(c)
    /\ UNCHANGED <<oiFlow, oiLink, oiConsent, oiSess, oiRedeemed>>
    /\ UNCHANGED <<oiProvider, oiClient>>

\* The identity is resolved by issuer and subject; one linked to nobody is refused.
UserForOIDCIdentity(c) ==
    /\ OiAt(c, "complete") /\ oiReq[c].user = None
    /\ LET u == oiLink[oiReq[c].tok.sub] IN
       IF u = None THEN Ends(c)
       ELSE OiBecomes(c, [op |-> "session", flow |-> oiReq[c].flow, user |-> u, tok |-> oiReq[c].tok])
    /\ UNCHANGED <<oiStore, oiProvider, oiClient>>

\* The session of the resolved account; the link's last use is stamped after.
completeSignIn(c) ==
    /\ OiAt(c, "session")
    /\ oiSess' = oiSess \union {[user |-> oiReq[c].user, flow |-> oiReq[c].flow, tok |-> oiReq[c].tok]}
    /\ Ends(c)
    /\ UNCHANGED <<oiFlow, oiLink, oiSmb, oiConsent, oiRedeemed>>
    /\ UNCHANGED <<oiProvider, oiClient>>

\* LinkDelete (the password confirmed) and AdminDelete.
RemoveOIDCLink(c) ==
    /\ oiReq[c] = OiIdle
    /\ \E u \in Accounts :
          /\ \E i \in Identities : oiLink[i] = u
          /\ oiLink' = [i \in Identities |-> IF oiLink[i] = u THEN None ELSE oiLink[i]]
          /\ OiBecomes(c, [op |-> "smb", user |-> u, on |-> TRUE])
    /\ UNCHANGED <<oiFlow, oiSmb, oiConsent, oiSess, oiRedeemed>>
    /\ UNCHANGED <<oiProvider, oiClient>>

(***************************************************************************)
(* The provider and time                                                   *)
(***************************************************************************)

RotateKeys ==
    /\ \E k \in DOMAIN KeyOf :
          /\ k \notin oiPub /\ oiGone[k] = OiMaxClock + JWKSTTL
          /\ oiPub' = {k}
          /\ oiGone' = [j \in DOMAIN KeyOf |-> IF j \in oiPub THEN oiClock ELSE oiGone[j]]
    /\ UNCHANGED <<oiWho, oiClock, oiReq>> /\ UNCHANGED <<oiStore, oiClient>>

OiTick ==
    /\ oiClock < OiMaxClock
    /\ oiClock' = oiClock + 1
    /\ UNCHANGED <<oiPub, oiGone, oiWho, oiReq>> /\ UNCHANGED <<oiStore, oiClient>>

OiNext ==
    \/ RotateKeys \/ OiTick
    \/ \E f \in Attempts : Start(f) \/ LinkStart(f)
    \/ \E c \in Callbacks :
         \/ Callback(c) \/ TakeExpired(c) \/ Exchange(c) \/ VerifyIDToken(c) \/ fetchJWKS(c)
         \/ completeLink(c) \/ setSMBEnabled(c) \/ UserForOIDCIdentity(c) \/ completeSignIn(c)
         \/ RemoveOIDCLink(c)

OiSpec == OiInit /\ [][OiNext]_oiVars

(***************************************************************************)
(* Properties                                                              *)
(***************************************************************************)

\* Every variable has its type.
OiTypeOK ==
    /\ oiFlow \in [Attempts -> [live : BOOLEAN, user : Accounts \union {None}, created : Nat]]
    /\ oiLink \in [Identities -> Accounts \union {None}] /\ oiSmb \subseteq Accounts
    /\ oiPub \subseteq DOMAIN KeyOf /\ oiKeys.keys \subseteq DOMAIN KeyOf
    /\ oiRedeemed \in [Attempts -> Nat] /\ oiClock \in 1 .. OiMaxClock

\* An attempt is redeemed once, whichever callbacks race for it (oidclink.go, TakeOIDCFlow: "a
\* flow redeemable twice is a code that can be replayed").
RedeemedOnce == \A f \in Attempts : oiRedeemed[f] <= 1

\* A session comes from a token that answers this very attempt, for the identity that signed on
\* in it, and belongs to an account that attached that identity itself while signed in.
SessionsEarned ==
    \A s \in oiSess :
       /\ s.tok.nonce = s.flow /\ s.tok.sub = oiWho[s.flow]
       /\ <<s.user, s.tok.sub>> \in oiConsent

\* Every link was attached by its own account (completeLink's session check), and an account
\* has one.
LinksOwn ==
    /\ \A i \in Identities : oiLink[i] # None => <<oiLink[i], i>> \in oiConsent
    /\ \A i, j \in Identities : oiLink[i] = oiLink[j] /\ oiLink[i] # None => i = j

\* A withdrawn key verifies nothing once the cached set has lived its time, and a key the
\* provider publishes is never refused as unknown (jws.go, keyFor: "Omitting this turns every
\* rotation into an outage").
KeysCurrent ==
    /\ \A a \in oiAccepted : a.at < oiGone[a.key] + JWKSTTL
    /\ oiTurned = {}

=============================================================================
