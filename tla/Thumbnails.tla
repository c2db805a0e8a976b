----------------------------- MODULE Thumbnails -----------------------------
(***************************************************************************)
(* Thumbnails: the service, its two caches, the pool of jailed decoders    *)
(* and the settings switch that replaces the service                       *)
(* (internal/preview and the swap in internal/server/open.go).             *)
(*                                                                         *)
(* A source is one version of one file: its identity, mtime and size, which*)
(* are what the cache key is made of, so a source is its own key. Sources  *)
(* come and go at the one path that is asked for: a replacement, a move to *)
(* the trash, a restore that brings the same inode back.                   *)
(***************************************************************************)
EXTENDS Naturals, FiniteSets, Functions

CONSTANTS SourceOf,     \* the source of each key: [fmt, head, body, sound], magic bytes, the two sizes, a body that decodes
          Native, Mobile, \* requests of the web application and of the Nextcloud surface
          ThWorkers,    \* decoder slots
          Services,     \* the services one process may open, 1 first
          MaxPixels,    \* DefaultDecodeLimits, one dimension
          ThEvents,     \* bound: replacements at the path and worker deaths in all
          ThToggles     \* bound: settings changes

VARIABLES thAt,      \* the key at the path, or none
          thCache,   \* cache directory: the source each stored thumbnail was made from
          thNeg,     \* remembered failures of each service
          thSvc,     \* each service: opened, closed, active leases, where its Close is
          thSlot,    \* each slot of each pool: who runs in it and whether its process lives
          thCur,     \* Engine.Preview
          thReq,     \* where each request stands
          thMixed,   \* keys whose path was taken by another file between the stat and the open
          thLeft     \* what is left of the bounds

thVars == <<thAt, thCache, thNeg, thSvc, thSlot, thCur, thReq, thMixed, thLeft>>

Keys == DOMAIN SourceOf
Requests == Native \cup Mobile
Nothing == "none"
NcService == 1          \* the surface is assembled once, at the start
NoProcess == [owner |-> Nothing, alive |-> FALSE]
ThIdle == [pc |-> "idle", svc |-> 0, key |-> Nothing, src |-> Nothing, slot |-> Nothing]
Unopened == [open |-> FALSE, closed |-> FALSE, active |-> 0, close |-> "none"]

ThInit ==
    /\ thAt \in Keys /\ thCache = <<>> /\ thNeg = [s \in Services |-> <<>>]
    /\ thSvc = [s \in Services |-> [Unopened EXCEPT !.open = s = 1]]
    /\ thSlot = [s \in Services |-> [w \in ThWorkers |-> NoProcess]]
    /\ thCur = 1 /\ thReq = [q \in Requests |-> ThIdle]
    /\ thMixed = {}
    /\ thLeft = [events |-> ThEvents, toggles |-> ThToggles]

At(q, pc) == thReq[q].pc = pc
Now(q, r) == thReq' = [thReq EXCEPT ![q] = r]
Goes(q, pc) == Now(q, [thReq[q] EXCEPT !.pc = pc])

(***************************************************************************)
(* The decoder: what a worker answers for a source                         *)
(***************************************************************************)

\* The magic bytes decide, never a name.
Sniff(s) == s.fmt
checkBounds(size) == IF size = 0 THEN "decode failed" ELSE IF size > MaxPixels THEN "too large" ELSE "ok"

\* The header alone is believed.
MutDecodeBounded(s) ==
    IF Sniff(s) = "unknown" THEN "unsupported"
    ELSE IF checkBounds(s.head) # "ok" THEN checkBounds(s.head)
    ELSE IF ~s.sound THEN "decode failed" ELSE "ok"

\* The header is checked before the body is decoded, and what came out is checked again.
DecodeBounded(s) ==
    IF Sniff(s) = "unknown" THEN "unsupported"
    ELSE IF checkBounds(s.head) # "ok" THEN checkBounds(s.head)
    ELSE IF ~s.sound THEN "decode failed"
    ELSE checkBounds(s.body)

\* decodeJob answers a status; it never dies of an ordinary source.
decodeJob(key) == DecodeBounded(SourceOf[key])

\* How long a failure is remembered is left to ThForget; an error that says nothing of the file is not remembered.
reasonFor(outcome) == IF outcome \in {"too large", "unsupported", "decode failed", "died"} THEN outcome ELSE Nothing

(***************************************************************************)
(* Requests                                                                *)
(***************************************************************************)

\* Engine.previewLease: selection and lease under the settings lock.
previewLease(q) ==
    /\ q \in Native /\ At(q, "idle")
    /\ thCur # 0 /\ ~thSvc[thCur].closed
    /\ thSvc' = [thSvc EXCEPT ![thCur].active = @ + 1]
    /\ Now(q, [ThIdle EXCEPT !.pc = "get", !.svc = thCur])
    /\ UNCHANGED <<thAt, thCache, thNeg, thSlot, thCur, thMixed, thLeft>>

\* serveSizedPreview goes to the service it was assembled with, without a lease.
serveSizedPreview(q) ==
    /\ q \in Mobile /\ At(q, "idle")
    /\ Now(q, [ThIdle EXCEPT !.pc = "get", !.svc = NcService])
    /\ UNCHANGED <<thAt, thCache, thNeg, thSvc, thSlot, thCur, thMixed, thLeft>>

\* The request is over: the answer is written and a lease is given back.
Ends(q) == Now(q, [ThIdle EXCEPT !.pc = "end", !.svc = thReq[q].svc])

\* The key comes from a stat; a hit is served, a remembered failure is refused, the rest is generated.
Get(q) ==
    /\ At(q, "get")
    /\ LET s == thReq[q].svc
       IN IF thSvc[s].closed \/ thAt = Nothing \/ (thAt \notin DOMAIN thCache /\ thAt \in DOMAIN thNeg[s])
          THEN Ends(q)
          ELSE Now(q, [thReq[q] EXCEPT !.key = thAt, !.pc = IF thAt \in DOMAIN thCache THEN "serve" ELSE "open"])
    /\ UNCHANGED <<thAt, thCache, thNeg, thSvc, thSlot, thCur, thMixed, thLeft>>

\* OpenRead by path: whatever is there now.
generate(q) ==
    /\ At(q, "open")
    /\ thMixed' = IF thAt # thReq[q].key /\ thAt # Nothing THEN thMixed \cup {thReq[q].key} ELSE thMixed
    /\ IF thAt = Nothing THEN Ends(q) ELSE Now(q, [thReq[q] EXCEPT !.src = thAt, !.pc = "claim"])
    /\ UNCHANGED <<thAt, thCache, thNeg, thSvc, thSlot, thCur, thLeft>>

Free(s) == {w \in ThWorkers : thSlot[s][w].owner = Nothing}

\* The lifecycle gate was read before the lock that claims.
MutGenerate(q) ==
    /\ At(q, "claim")
    /\ LET s == thReq[q].svc
       IN \/ /\ Free(s) = {} /\ Ends(q) /\ UNCHANGED thSlot
          \/ \E w \in Free(s) : /\ thSlot' = [thSlot EXCEPT ![s][w] = [owner |-> q, alive |-> TRUE]]
                                /\ Now(q, [thReq[q] EXCEPT !.slot = w, !.pc = "exchange"])
    /\ UNCHANGED <<thAt, thCache, thNeg, thSvc, thCur, thMixed, thLeft>>

\* Pool.Generate: the closed gate and the claim are one step; a process is started when the slot has none.
Generate(q) ==
    /\ At(q, "claim")
    /\ LET s == thReq[q].svc
       IN \/ /\ thSvc[s].close \in {"reap", "done"} \/ Free(s) = {}
             /\ Ends(q) /\ UNCHANGED thSlot
          \/ /\ thSvc[s].close \notin {"reap", "done"}
             /\ \E w \in Free(s) : /\ thSlot' = [thSlot EXCEPT ![s][w] = [owner |-> q, alive |-> TRUE]]
                                   /\ Now(q, [thReq[q] EXCEPT !.slot = w, !.pc = "exchange"])
    /\ UNCHANGED <<thAt, thCache, thNeg, thSvc, thCur, thMixed, thLeft>>

\* A map with an entry written, over the one it had or beside the others.
Written(entries, key, entry) ==
    [k \in DOMAIN entries \cup {key} |-> IF k = key THEN entry ELSE entries[k]]

\* A failure is remembered under the key unless it says nothing about the file.
Remember(s, key, outcome) ==
    thNeg' = IF reasonFor(outcome) = Nothing THEN thNeg ELSE [thNeg EXCEPT ![s] = Written(@, key, outcome)]

\* The job and its answer; a worker that dies, hangs past the deadline or answers out of protocol is reaped.
exchange(q) ==
    /\ At(q, "exchange")
    /\ LET s == thReq[q].svc w == thReq[q].slot
       IN \/ /\ thSlot' = [thSlot EXCEPT ![s][w].owner = Nothing]
             /\ Remember(s, thReq[q].key, decodeJob(thReq[q].src))
             /\ IF decodeJob(thReq[q].src) = "ok" THEN Goes(q, "publish") ELSE Ends(q)
             /\ UNCHANGED thLeft
          \/ /\ thLeft.events > 0 /\ thLeft' = [thLeft EXCEPT !.events = @ - 1]
             /\ thSlot' = [thSlot EXCEPT ![s][w] = NoProcess]
             /\ Remember(s, thReq[q].key, "died")
             /\ Ends(q)
    /\ UNCHANGED <<thAt, thCache, thSvc, thCur, thMixed>>

\* Cache.Put renames the staged thumbnail over the entry; the request then opens the entry.
Put(q) ==
    /\ At(q, "publish")
    /\ thCache' = Written(thCache, thReq[q].key, thReq[q].src)
    /\ Goes(q, "serve")
    /\ UNCHANGED <<thAt, thNeg, thSvc, thSlot, thCur, thMixed, thLeft>>

\* The entry was opened when it was found; its file stays whole whatever replaces it.
sendThumb(q) ==
    /\ At(q, "serve")
    /\ Ends(q)
    /\ UNCHANGED <<thAt, thCache, thNeg, thSvc, thSlot, thCur, thMixed, thLeft>>

MutLeaseClose(q) ==
    /\ At(q, "end")
    /\ thSvc' = [thSvc EXCEPT ![thReq[q].svc].active = @ - 1]
    /\ Now(q, ThIdle)
    /\ UNCHANGED <<thAt, thCache, thNeg, thSlot, thCur, thMixed, thLeft>>

\* Lease.Close, once; the Nextcloud surface took no lease.
LeaseClose(q) ==
    /\ At(q, "end")
    /\ thSvc' = IF q \in Native THEN [thSvc EXCEPT ![thReq[q].svc].active = @ - 1] ELSE thSvc
    /\ Now(q, ThIdle)
    /\ UNCHANGED <<thAt, thCache, thNeg, thSlot, thCur, thMixed, thLeft>>

(***************************************************************************)
(* Settings, shutdown of a service, and the world                          *)
(***************************************************************************)

\* applyThumbnailSettings: a new service, or none, under the lock; the old one is closed after it.
applyThumbnailSettings ==
    /\ thLeft.toggles > 0 /\ thLeft' = [thLeft EXCEPT !.toggles = @ - 1]
    /\ \E next \in {0} \cup {s \in Services : ~thSvc[s].open} :
          /\ next # thCur
          /\ next # 0 => \A s \in Services : s < next => thSvc[s].open
          /\ thCur' = next
          /\ thSvc' = [s \in Services |-> IF s = next THEN [thSvc[s] EXCEPT !.open = TRUE]
                                          ELSE IF s = thCur THEN [thSvc[s] EXCEPT !.close = "begin"] ELSE thSvc[s]]
    /\ UNCHANGED <<thAt, thCache, thNeg, thSlot, thReq, thMixed>>

\* The pool is closed without waiting for the leases.
MutClose(s) ==
    /\ thSvc[s].close = "begin"
    /\ thSvc' = [thSvc EXCEPT ![s].closed = TRUE, ![s].close = "reap"]
    /\ UNCHANGED <<thAt, thCache, thNeg, thSlot, thCur, thReq, thMixed, thLeft>>

\* Service.Close: no new lease, then wait for the ones there are, then close the pool.
Close(s) ==
    /\ \/ thSvc[s].close = "begin" /\ thSvc' = [thSvc EXCEPT ![s].closed = TRUE, ![s].close = "wait"]
       \/ thSvc[s].close = "wait" /\ thSvc[s].active = 0 /\ thSvc' = [thSvc EXCEPT ![s].close = "reap"]
    /\ UNCHANGED <<thAt, thCache, thNeg, thSlot, thCur, thReq, thMixed, thLeft>>

\* Pool.Close takes the lock of each slot and reaps what is in it.
PoolClose(s) ==
    /\ thSvc[s].close = "reap"
    /\ \/ \E w \in Free(s) : /\ thSlot[s][w].alive
                             /\ thSlot' = [thSlot EXCEPT ![s][w] = NoProcess] /\ UNCHANGED thSvc
       \/ /\ \A w \in ThWorkers : thSlot[s][w] = NoProcess
          /\ thSvc' = [thSvc EXCEPT ![s].close = "done"] /\ UNCHANGED thSlot
    /\ UNCHANGED <<thAt, thCache, thNeg, thCur, thReq, thMixed, thLeft>>

\* A remembered failure reaches the end of its lifetime.
Lifetime(s, k) ==
    /\ k \in DOMAIN thNeg[s]
    /\ thNeg' = [thNeg EXCEPT ![s] = Restrict(@, DOMAIN @ \ {k})]
    /\ UNCHANGED <<thAt, thCache, thSvc, thSlot, thCur, thReq, thMixed, thLeft>>

\* Another file takes the path, or none: an upload, a rename, the trash and back.
Replaced ==
    /\ thLeft.events > 0 /\ thLeft' = [thLeft EXCEPT !.events = @ - 1]
    /\ thAt' \in (Keys \cup {Nothing}) \ {thAt}
    /\ UNCHANGED <<thCache, thNeg, thSvc, thSlot, thCur, thReq, thMixed>>

RequestStep(q) == \/ Get(q) \/ generate(q) \/ Generate(q) \/ exchange(q) \/ Put(q) \/ sendThumb(q) \/ LeaseClose(q)

ThNext ==
    \/ \E q \in Requests : previewLease(q) \/ serveSizedPreview(q) \/ RequestStep(q)
    \/ applyThumbnailSettings
    \/ \E s \in Services : Close(s) \/ PoolClose(s) \/ \E k \in Keys : Lifetime(s, k)
    \/ Replaced

ThSpec == ThInit /\ [][ThNext]_thVars

-----------------------------------------------------------------------------
ThTypeOK ==
    /\ thAt \in Keys \cup {Nothing} /\ DOMAIN thCache \subseteq Keys
    /\ \A s \in Services : thSvc[s].active \in 0..Cardinality(Native) /\ DOMAIN thNeg[s] \subseteq Keys
    /\ thCur \in Services \cup {0} /\ thMixed \subseteq Keys
    /\ \A q \in Requests : thReq[q].pc \in {"idle", "get", "open", "claim", "exchange", "publish", "serve", "end"}

(***************************************************************************)
(* A closed pool leaves no process behind, whoever was in it when the      *)
(* settings replaced it: the Nextcloud surface holds no lease, so only the *)
(* pool's own gate keeps a late job from starting a worker nobody reaps    *)
(* (pool.go Generate, Close).                                              *)
(***************************************************************************)
NoWorkerOutlivesPool ==
    \A s \in Services : thSvc[s].close = "done" => \A w \in ThWorkers : thSlot[s][w] = NoProcess

(***************************************************************************)
(* While a request of the web application holds its lease, the pool behind *)
(* it is not closed (service.go Acquire, Close, Lease.Close).              *)
(***************************************************************************)
LeaseHoldsPool ==
    \A q \in Native : thReq[q].pc # "idle" => thSvc[thReq[q].svc].close \notin {"reap", "done"}

(***************************************************************************)
(* What the two caches hold under a key is about that key's file: the      *)
(* thumbnail shows it and fits the decode limits, the failure is one that  *)
(* file earns. The exception is a key whose path another file took between *)
(* the stat and the open of one request (service.go get, generate).        *)
(***************************************************************************)
CachesAreHonest ==
    \A k \in Keys \ thMixed :
      /\ k \in DOMAIN thCache => thCache[k] = k /\ SourceOf[k].body \in 1..MaxPixels
      /\ \A s \in Services : k \in DOMAIN thNeg[s] => thNeg[s][k] \in {decodeJob(k), "died"} \ {"ok"}

\* A replaced service and its requests never wait on each other: until its Close is done, the Close
\* itself or a request that runs in the service can take a step (Service.Close waits for the leases,
\* Pool.Close for the slots, a request for a slot).
CloseNotStuck ==
    \A s \in Services : thSvc[s].close \in {"begin", "wait", "reap"} =>
        \/ ENABLED Close(s) \/ ENABLED PoolClose(s)
        \/ \E q \in Requests : thReq[q].svc = s /\ ENABLED RequestStep(q)

(***************************************************************************)
(* cache.go: "a stale thumbnail becomes unreachable rather than being      *)
(* evicted ... because nothing ever requests the old key again". A file    *)
(* that is trashed and restored comes back with its old key, and a request *)
(* that met its replacement has stored the replacement's picture there.    *)
(***************************************************************************)
ThumbnailShowsFile == [][\A q \in Requests : At(q, "serve") /\ thReq'[q].pc = "end" => thCache[thReq[q].key] = thReq[q].key]_thVars

(***************************************************************************)
(* deps.go: the Nextcloud surface's Preview "is nil where no decoder is    *)
(* configured". It keeps the service of the start, closed by the first     *)
(* settings change, while the web application has the new one.             *)
(***************************************************************************)
OneServiceForAll == thCur # 0 => NcService = thCur
=============================================================================

