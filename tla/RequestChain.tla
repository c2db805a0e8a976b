---------------------------- MODULE RequestChain ----------------------------
(***************************************************************************)
(* The request chain (internal/server/middleware, mounted by               *)
(* internal/server/chain.go and routes.go): whose address a request has,   *)
(* which host role admits it, which credential is tried and what a route's *)
(* group asks for before its handler runs. Host names and trusted proxies  *)
(* are read live, each at its own step, while settings are saved.          *)
(*                                                                         *)
(* A request is what really happened (the hops it crossed, the page that   *)
(* caused it) and what it carries because of that: the sender writes any   *)
(* X-Forwarded-For it likes and every proxy appends the hop it saw; a      *)
(* browser names the page in Origin and only the deployment's own pages    *)
(* know a session's token. Proxies and browsers are external.              *)
(***************************************************************************)
EXTENDS Naturals, Sequences, FiniteSets, SequencesExt

CONSTANTS RcRequests,   \* request slots
          Lan,          \* addresses that are on a private network
          Travels,      \* how requests travel: [path, said, cf, tls, proto], the path of hops [ip, form] from the sender to the peer
          Asks,         \* what they ask: [host, page, cookie, auth, csrf, route]; a host is [name, port], a page has a scheme too
          HostChoices,  \* host roles an operator may save: [app, content]
          TrustChoices, \* trusted proxy lists an operator may save, as sets of addresses
          RcSaves,      \* bound: settings saves
          RcRevokes     \* bound: sessions revoked, administrators demoted

VARIABLES rcHosts, rcTrust,   \* the live settings
          rcLive,     \* live sessions
          rcAdmin,    \* sessions whose account is an administrator
          rcReq,      \* each request: where it is in the chain and what its context holds
          rcLeft      \* what is left of the bounds

rcVars == <<rcHosts, rcTrust, rcLive, rcAdmin, rcReq, rcLeft>>

None == "none"
NoPage == [scheme |-> "none", name |-> "none", port |-> 0]
Nobody == [kind |-> None, token |-> None]

\* One route of each kind: the group it is mounted in and what its handler does.
RcRoutes ==
    LET Is(group, verb, ws, content, login) ==
            [group |-> group, verb |-> verb, ws |-> ws, content |-> content, login |-> login]
    IN [health   |-> Is("public", "GET", FALSE, FALSE, FALSE),
        drop     |-> Is("public", "POST", FALSE, FALSE, FALSE),
        login    |-> Is("public", "POST", FALSE, FALSE, TRUE),
        read     |-> Is("session", "GET", FALSE, FALSE, FALSE),
        write    |-> Is("session", "POST", FALSE, FALSE, FALSE),
        events   |-> Is("session", "GET", TRUE, FALSE, FALSE),
        settings |-> Is("admin", "PATCH", FALSE, FALSE, FALSE),
        dav      |-> Is("device", "PUT", FALSE, FALSE, FALSE),
        direct   |-> Is("device", "GET", FALSE, TRUE, FALSE)]

\* Unroutable is one key for every client that cannot be resolved; no peer has it.
Unroutable == "unroutable"
Sessions == {a.cookie : a \in Asks} \ {None}
RcIdle == [pc |-> "idle"]

RcInit ==
    /\ rcHosts \in HostChoices /\ rcTrust \in TrustChoices
    /\ rcLive = Sessions /\ rcAdmin \in SUBSET Sessions
    /\ rcReq = [q \in RcRequests |-> RcIdle]
    /\ rcLeft = [saves |-> RcSaves, revokes |-> RcRevokes]

(***************************************************************************)
(* The client's address                                                    *)
(***************************************************************************)

\* A hop is [ip, form]; an IPv4 address mapped into IPv6, a port or brackets are spellings of the same address.
unmap(h) == h.ip
parseAddr(h) == IF h.form = "junk" THEN None ELSE unmap(h)
IsPrivate(a) == a \in Lan
IsPrivateClient(a) == a # Unroutable /\ IsPrivate(a)

\* An empty list trusts nobody, as the comment on Engine.trustedProxies has it.
MutTrustedPeer(a, trusted) == a \in trusted

\* With a list, its members; with none, any peer that is not on the internet.
trustedPeer(a, trusted) == IF trusted = {} THEN IsPrivate(a) ELSE a \in trusted

walkSet(peer, trusted) == IF trusted # {} THEN trusted ELSE {peer}

\* An entry that does not parse is passed over.
MutWalkForwarded(peer, trusted, hops) ==
    LET stops == {i \in DOMAIN hops : parseAddr(hops[i]) # None /\ parseAddr(hops[i]) \notin trusted}
    IN IF hops = <<>> THEN peer
       ELSE IF stops = {} THEN Unroutable
       ELSE parseAddr(hops[CHOOSE i \in stops : \A j \in stops : j <= i])

\* Right to left across the trusted hops, to the first that is not one; an entry that does not parse ends the walk at the peer.
walkForwarded(peer, trusted, hops) ==
    LET stops == {i \in DOMAIN hops : parseAddr(hops[i]) \notin trusted}
        last == CHOOSE i \in stops : \A j \in stops : j <= i
    IN IF hops = <<>> THEN peer
       ELSE IF stops = {} THEN Unroutable
       ELSE IF parseAddr(hops[last]) = None THEN peer ELSE parseAddr(hops[last])

\* The list as it arrives: what the sender wrote, then what each proxy appended of the hop before it.
ForwardedList(t) == t.said \o Front(t.path)
Peer(t) == unmap(Last(t.path))

ClientAddr(t, trusted) ==
    IF ~trustedPeer(Peer(t), trusted) THEN Peer(t)
    ELSE IF t.cf # None THEN t.cf
    ELSE walkForwarded(Peer(t), walkSet(Peer(t), trusted), ForwardedList(t))

\* Transport TLS, or a trusted peer's word for it.
requestScheme(t, trusted) ==
    IF t.tls \/ (trustedPeer(Peer(t), trusted) /\ t.proto = "https") THEN "https" ELSE "http"

(***************************************************************************)
(* The boundary                                                            *)
(***************************************************************************)

mutating(verb) == verb \notin {"GET", "HEAD", "OPTIONS"}
isBrowserAuthPath(route) == route.verb = "POST" /\ route.login

\* The port a scheme implies is the same as none; any other is part of the authority.
normalizeAuthority(scheme, authority) ==
    IF (scheme = "http" /\ authority.port = 80) \/ (scheme = "https" /\ authority.port = 443)
    THEN <<authority.name, 0>> ELSE <<authority.name, authority.port>>
parseOrigin(page) == <<page.scheme, normalizeAuthority(page.scheme, page)>>
parseRequestOrigin(scheme, host) == <<scheme, normalizeAuthority(scheme, host)>>
\* The null origin and an absent one match nothing.
OriginMatchesRequest(a, scheme) ==
    a.page # NoPage /\ parseOrigin(a.page) = parseRequestOrigin(scheme, a.host)
\* The name decides the host's role, whatever the port.
hostName(host) == host.name

\* An upgrade is a GET, so nothing is asked of it.
MutDecideAppOrigin(a, r, scheme) ==
    (mutating(r.verb) /\ (a.cookie # None \/ isBrowserAuthPath(r))) => OriginMatchesRequest(a, scheme)

\* decideAppOrigin: an upgrade, a cookie-carrying mutation and a sign-in must come from the deployment's own page.
decideAppOrigin(a, r, scheme) ==
    (r.ws \/ (mutating(r.verb) /\ (a.cookie # None \/ isBrowserAuthPath(r)))) => OriginMatchesRequest(a, scheme)

decideFirstBoot(a, r, scheme, client) ==
    /\ IsPrivateClient(client) /\ ~r.ws
    /\ (isBrowserAuthPath(r) \/ (mutating(r.verb) /\ a.cookie # None)) => OriginMatchesRequest(a, scheme)

firstOverlap(hosts) == hosts.app \cap hosts.content

\* The role that admits the request, or none.
Decide(hosts, a, r, scheme, client) ==
    IF firstOverlap(hosts) # {} THEN None
    ELSE IF hosts.app = {} /\ hosts.content = {}
    THEN IF decideFirstBoot(a, r, scheme, client) THEN "first boot" ELSE None
    ELSE IF hostName(a.host) \in hosts.content THEN IF r.content THEN "content" ELSE None
    ELSE IF hostName(a.host) \in hosts.app /\ (r.content => hosts.content = {}) /\ decideAppOrigin(a, r, scheme)
    THEN "app" ELSE None

(***************************************************************************)
(* Credentials                                                             *)
(***************************************************************************)

\* One credential is tried: an app password in a header before the cookie; a public route reads the cookie alone.
Select(a, sessionOnly) ==
    IF ~sessionOnly /\ a.auth # None THEN [kind |-> "app", token |-> a.auth]
    ELSE IF a.cookie # None THEN [kind |-> "session", token |-> a.cookie]
    ELSE Nobody

\* What the credential proves now; a header that fails does not fall back to the cookie.
ResolvePrincipal(c) ==
    IF c.kind = "session" /\ c.token \in rcLive THEN c
    ELSE IF c.kind = "app" /\ c.token = "valid" THEN c
    ELSE Nobody

CSRFRequired(verb, kind) == kind = "session" /\ mutating(verb)
\* The token is derived from the cookie's session.
CSRFValid(a) == a.csrf = a.cookie

(***************************************************************************)
(* The steps of one request                                                *)
(***************************************************************************)

At(q, pc) == rcReq[q].pc = pc
Ask(q) == rcReq[q].ask
Route(q) == RcRoutes[Ask(q).route]
Answered(q) == rcReq' = [rcReq EXCEPT ![q] = RcIdle]
Calm == UNCHANGED <<rcHosts, rcTrust, rcLive, rcAdmin, rcLeft>>

Arrive(q) ==
    /\ At(q, "idle")
    /\ \E t \in Travels, a \in Asks :
           rcReq' = [rcReq EXCEPT ![q] = [pc |-> "client", travel |-> t, ask |-> a, trusted |-> {}, client |-> Unroutable,
                                           role |-> None, who |-> Nobody]]
    /\ Calm

\* resolveClient; the list it read is kept to state what the answer means.
resolveClient(q) ==
    /\ At(q, "client")
    /\ rcReq' = [rcReq EXCEPT ![q].pc = "boundary", ![q].client = ClientAddr(rcReq[q].travel, rcTrust), ![q].trusted = rcTrust]
    /\ Calm

boundaryHandler(q) ==
    /\ At(q, "boundary")
    /\ LET role == Decide(rcHosts, Ask(q), Route(q), requestScheme(rcReq[q].travel, rcTrust), rcReq[q].client)
       IN IF role = None THEN Answered(q)
          ELSE rcReq' = [rcReq EXCEPT ![q].pc = "limit", ![q].role = role]
    /\ Calm

\* The limiter's own arithmetic is RequestLimiter's.
limitHandler(q) ==
    /\ At(q, "limit")
    /\ \/ Answered(q)
       \/ rcReq' = [rcReq EXCEPT ![q].pc = "auth"]
    /\ Calm

authHandler(q) ==
    /\ At(q, "auth")
    /\ rcReq' = [rcReq EXCEPT ![q].pc = IF Route(q).group = "public" THEN "handle" ELSE "csrf",
                             ![q].who = ResolvePrincipal(Select(Ask(q), Route(q).group = "public"))]
    /\ Calm

csrfHandler(q) ==
    /\ At(q, "csrf")
    /\ IF CSRFRequired(Route(q).verb, rcReq[q].who.kind) /\ ~CSRFValid(Ask(q))
       THEN Answered(q)
       ELSE rcReq' = [rcReq EXCEPT ![q].pc = IF Route(q).group = "device" THEN "handle" ELSE "session"]
    /\ Calm

\* Anything but a session is answered as a path that is not there.
requireSession(q) ==
    /\ At(q, "session")
    /\ IF rcReq[q].who.kind # "session" THEN Answered(q)
       ELSE rcReq' = [rcReq EXCEPT ![q].pc = IF Route(q).group = "admin" THEN "admin" ELSE "handle"]
    /\ Calm

\* A lookup that fails is recorded and the chain goes on.
MutRequireAdmin(q) ==
    /\ At(q, "admin")
    /\ \/ rcReq[q].who.token \notin rcAdmin /\ Answered(q)
       \/ rcReq' = [rcReq EXCEPT ![q].pc = "handle"]
    /\ Calm

\* requireAdmin: the account's standing now; a refusal and a lookup that fails both end the request.
requireAdmin(q) ==
    /\ At(q, "admin")
    /\ \/ Answered(q)
       \/ rcReq[q].who.token \in rcAdmin /\ rcReq' = [rcReq EXCEPT ![q].pc = "handle"]
    /\ Calm

\* The handler answers and the log step records the status on the way out.
Handle(q) == At(q, "handle") /\ Answered(q) /\ Calm

\* A settings save replaces both lists at once; requests under way go on with what they read.
SaveSettings ==
    /\ rcLeft.saves > 0 /\ rcLeft' = [rcLeft EXCEPT !.saves = @ - 1]
    /\ rcHosts' \in HostChoices /\ rcTrust' \in TrustChoices
    /\ UNCHANGED <<rcLive, rcAdmin, rcReq>>

Revoke(s) ==
    /\ rcLeft.revokes > 0 /\ rcLeft' = [rcLeft EXCEPT !.revokes = @ - 1]
    /\ \/ s \in rcLive /\ rcLive' = rcLive \ {s} /\ rcAdmin' = rcAdmin \ {s}
       \/ s \in rcAdmin /\ rcAdmin' = rcAdmin \ {s} /\ UNCHANGED rcLive
    /\ UNCHANGED <<rcHosts, rcTrust, rcReq>>

RcNext ==
    \/ \E q \in RcRequests :
           \/ Arrive(q) \/ resolveClient(q) \/ boundaryHandler(q) \/ limitHandler(q) \/ authHandler(q)
           \/ csrfHandler(q) \/ requireSession(q) \/ requireAdmin(q) \/ Handle(q)
    \/ SaveSettings
    \/ \E s \in Sessions : Revoke(s)

RcSpec == RcInit /\ [][RcNext]_rcVars

(***************************************************************************)
(* Properties                                                              *)
(***************************************************************************)

RcTypeOK ==
    /\ rcHosts \in HostChoices /\ rcTrust \in TrustChoices
    /\ rcLive \subseteq Sessions /\ rcAdmin \subseteq rcLive
    /\ \A q \in RcRequests : ~At(q, "idle") =>
           /\ rcReq[q].travel \in Travels /\ Ask(q) \in Asks
           /\ rcReq[q].role \in {None, "app", "content", "first boot"}

\* A page of another site never drives a handler with the browser's authority: whatever runs as a
\* session and changes something, opens a socket or signs in names the very host it was sent to as its
\* page (decideAppOrigin, decideFirstBoot, csrfHandler).
AmbientBound ==
    \A q \in RcRequests :
        /\ At(q, "handle")
        /\ \/ rcReq[q].who.kind = "session" /\ (mutating(Route(q).verb) \/ Route(q).ws)
           \/ isBrowserAuthPath(Route(q))
        => Ask(q).page.name = Ask(q).host.name

\* What a sender writes into X-Forwarded-For never becomes its address: as long as one hop of the real
\* path is not a trusted proxy, the client resolved is an address the request really came through
\* (walkForwarded's "append garbage, then append the address to be believed").
ClientHonest ==
    \A q \in RcRequests :
        LET t == rcReq[q].travel
            trusted == walkSet(Peer(t), rcReq[q].trusted)
        IN /\ ~At(q, "idle") /\ ~At(q, "client")
           /\ \E i \in DOMAIN t.path : unmap(t.path[i]) \notin trusted
           => rcReq[q].client \in {unmap(t.path[i]) : i \in DOMAIN t.path}

\* A deployment with no host and no proxy list serves only requests whose last sender before the
\* proxy is on a private network, whatever their headers say (decideFirstBoot, trustedPeer).
FirstBootPrivate ==
    \A q \in RcRequests :
        LET t == rcReq[q].travel
            sender == unmap(t.path[IF Len(t.path) = 1 \/ ~IsPrivate(Peer(t)) THEN Len(t.path) ELSE Len(t.path) - 1])
        IN (/\ ~At(q, "idle") /\ rcReq[q].role = "first boot" /\ rcReq[q].trusted = {}
            /\ \A i \in DOMAIN t.path : t.path[i].form # "junk")
           => IsPrivate(sender)

\* An administrator's route is reached only by a live-when-checked administrator's session, a session's
\* route only by a session: an app password, a failed header beside a good cookie, or a failed lookup
\* never gets there (Select, requireSession, requireAdmin).
ReachedEarned ==
    \A q \in RcRequests :
        At(q, "handle") /\ Route(q).group \in {"session", "admin"} =>
            /\ rcReq[q].who = [kind |-> "session", token |-> Ask(q).cookie] /\ Ask(q).auth = None
            /\ Route(q).group = "admin" =>
                  rcReq[q].who.token \in rcAdmin \/ rcLeft.revokes < RcRevokes

=============================================================================
