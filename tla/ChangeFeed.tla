---------------------------- MODULE ChangeFeed -----------------------------
(***************************************************************************)
(* From a change on disk to the tab that is looking at it: the watcher     *)
(* stream of internal/jobs/events.go and internal/server/events.go, and    *)
(* the change channel of internal/files/changes.go.                        *)
(*                                                                         *)
(* The watcher itself is a library: a pinned directory is certainly        *)
(* watched, another one may be, and a full queue turns into one event that *)
(* names no directory. What the event does to the rollup cache before it   *)
(* is passed on is in DirRollups, what it does to the index in             *)
(* SearchIndex.                                                            *)
(***************************************************************************)
EXTENDS Naturals, Sequences, FiniteSets

CONSTANTS Conns,            \* the sockets of one account
          CfPaths,          \* the directories the clients ask about
          CfQueue,          \* room in the event queues (eventQueue)
          MaxConnsPerUser,
          CfChanges,        \* how many changes are made on disk
          CfFlips           \* how often the permission to read changes

VARIABLES cfRaw,      \* watcher events not yet translated
          cfLost,     \* the watcher dropped events and has to say so
          cfWork,     \* the event being translated
          cfOut,      \* translated events the hub has not taken
          cfHub,      \* whether the hub is closed, and the sockets it delivers to
          cfConn,     \* the sockets
          cfPins,     \* how often each directory is pinned in the watcher
          cfMay,      \* the paths the account may read
          cfOwed,     \* the subscribed changes each client was not told about
          cfCrossed,  \* a release overtook the pin it was meant to release
          cfLeft      \* changes and permission flips left

cfVars == <<cfRaw, cfLost, cfWork, cfOut, cfHub, cfConn, cfPins, cfMay, cfOwed, cfCrossed, cfLeft>>
cfStream == <<cfRaw, cfLost, cfWork, cfOut>>
cfPeople == <<cfHub, cfConn, cfPins, cfMay, cfOwed, cfCrossed>>

All == "all"
NoEvent == "none"
Fits(q) == Len(q) < CfQueue

NewConn == [st |-> "off", subs |-> {}, pending |-> {}, due |-> {}, writer |-> FALSE, at |-> "idle", path |-> NoEvent]

CfInit ==
    /\ cfRaw = <<>> /\ cfLost = FALSE /\ cfWork = NoEvent /\ cfOut = <<>>
    /\ cfHub = [closed |-> FALSE, conns |-> {}] /\ cfConn = [c \in Conns |-> NewConn]
    /\ cfPins = [p \in CfPaths |-> 0] /\ cfMay = CfPaths /\ cfOwed = [c \in Conns |-> {}]
    /\ cfCrossed = FALSE /\ cfLeft = [changes |-> CfChanges, flips |-> CfFlips]

(***************************************************************************)
(* The disk and the watcher                                                *)
(***************************************************************************)

\* The watcher queues the directory; with no room it drops the batch and will say so.
Report(p) ==
    \/ /\ Fits(cfRaw) /\ ~cfLost
       /\ cfRaw' = Append(cfRaw, p) /\ UNCHANGED cfLost
    \/ /\ ~Fits(cfRaw) \/ cfLost
       /\ cfLost' = TRUE /\ UNCHANGED cfRaw

\* A directory changes. A client is owed a notice of every change made while its directory is pinned for it.
ChangeDir(p) ==
    /\ cfLeft.changes > 0 /\ cfLeft' = [cfLeft EXCEPT !.changes = @ - 1]
    /\ cfOwed' = [c \in Conns |-> IF p \in cfConn[c].subs /\ ~(cfConn[c].at = "pinning" /\ cfConn[c].path = p)
                                  THEN cfOwed[c] \union {p} ELSE cfOwed[c]]
    /\ Report(p) \/ (cfPins[p] = 0 /\ UNCHANGED <<cfRaw, cfLost>>)
    /\ UNCHANGED <<cfWork, cfOut, cfHub, cfConn, cfPins, cfMay, cfCrossed>>

\* Dropped events come out as one that names no directory.
SayLost ==
    /\ cfLost /\ Fits(cfRaw)
    /\ cfRaw' = Append(cfRaw, All) /\ cfLost' = FALSE
    /\ UNCHANGED <<cfWork, cfOut, cfPeople, cfLeft>>

(***************************************************************************)
(* Translation                                                             *)
(***************************************************************************)

\* The event is taken and its callbacks run, in order, before it goes anywhere.
Adapt ==
    /\ cfWork = NoEvent /\ cfRaw # <<>>
    /\ cfWork' = Head(cfRaw) /\ cfRaw' = Tail(cfRaw)
    /\ UNCHANGED <<cfLost, cfOut, cfPeople, cfLeft>>

\* An event that finds no room is dropped.
MutEventSources ==
    /\ cfWork # NoEvent
    /\ cfOut' = IF Fits(cfOut) THEN Append(cfOut, cfWork) ELSE cfOut
    /\ cfWork' = NoEvent
    /\ UNCHANGED <<cfRaw, cfLost, cfPeople, cfLeft>>

\* The sender waits for room.
eventSources ==
    /\ cfWork # NoEvent /\ Fits(cfOut)
    /\ cfOut' = Append(cfOut, cfWork) /\ cfWork' = NoEvent
    /\ UNCHANGED <<cfRaw, cfLost, cfPeople, cfLeft>>

(***************************************************************************)
(* The hub and its sockets                                                 *)
(***************************************************************************)

\* An event that names no directory matches no subscription.
MutRecord(c, ev) == [c EXCEPT !.pending = @ \union {p \in c.subs : ev = p}]

\* A change is noted against the paths the socket asked about, once per window.
record(c, ev) == [c EXCEPT !.pending = @ \union {p \in c.subs : ev = All \/ ev = p}]

fanOut ==
    /\ cfOut # <<>> /\ cfOut' = Tail(cfOut)
    /\ cfConn' = [c \in Conns |-> IF c \in cfHub.conns THEN record(cfConn[c], Head(cfOut)) ELSE cfConn[c]]
    /\ UNCHANGED <<cfRaw, cfLost, cfWork, cfHub, cfPins, cfMay, cfOwed, cfCrossed, cfLeft>>

SocketStep == UNCHANGED <<cfStream, cfMay, cfLeft>>

\* The count per account is given back only when a socket's handler ends.
Serving == {c \in Conns : cfConn[c].st \in {"open", "leaving"}}

serve(c) ==
    /\ cfConn[c].st = "off" /\ ~cfHub.closed /\ Cardinality(Serving) < MaxConnsPerUser
    /\ cfConn' = [cfConn EXCEPT ![c] = [NewConn EXCEPT !.st = "open", !.writer = TRUE]]
    /\ cfHub' = [cfHub EXCEPT !.conns = @ \union {c}]
    /\ UNCHANGED <<cfPins, cfOwed, cfCrossed>> /\ SocketStep

\* The reader resolves one path of a frame with the permission of that moment.
ResolveForEvents(c, p) ==
    /\ cfConn[c].st = "open" /\ cfConn[c].at = "idle" /\ p \in cfMay
    /\ cfConn' = [cfConn EXCEPT ![c].at = "resolved", ![c].path = p]
    /\ UNCHANGED <<cfHub, cfPins, cfOwed, cfCrossed>> /\ SocketStep

\* It is recorded under the lock; a path already held is not pinned again.
subscribe(c) ==
    /\ cfConn[c].at = "resolved"
    /\ LET p == cfConn[c].path
       IN cfConn' = [cfConn EXCEPT ![c].subs = @ \union {p},
                                   ![c].at = IF p \in cfConn[c].subs THEN "idle" ELSE "pinning",
                                   ![c].path = IF p \in cfConn[c].subs THEN NoEvent ELSE p]
    /\ UNCHANGED <<cfHub, cfPins, cfOwed, cfCrossed>> /\ SocketStep

pinForEvents(c) ==
    /\ cfConn[c].at = "pinning"
    /\ cfPins' = [cfPins EXCEPT ![cfConn[c].path] = @ + 1]
    /\ cfConn' = [cfConn EXCEPT ![c].at = "idle", ![c].path = NoEvent]
    /\ UNCHANGED <<cfHub, cfOwed, cfCrossed>> /\ SocketStep

\* Releasing a pin nobody holds releases nothing (the watcher counts from zero).
unpinForEvents(ps) == cfPins' = [p \in CfPaths |-> IF p \in ps /\ cfPins[p] > 0 THEN cfPins[p] - 1 ELSE cfPins[p]]

Overtakes(c, ps) == cfCrossed' = (cfCrossed \/ (cfConn[c].at = "pinning" /\ cfConn[c].path \in ps))

Forget(c, ps) ==
    /\ unpinForEvents(ps \intersect cfConn[c].subs)
    /\ Overtakes(c, ps \intersect cfConn[c].subs)
    /\ cfOwed' = [cfOwed EXCEPT ![c] = @ \ ps]

unsubscribe(c, p) ==
    /\ cfConn[c].st = "open" /\ cfConn[c].at = "idle" /\ p \in cfConn[c].subs
    /\ Forget(c, {p})
    /\ cfConn' = [cfConn EXCEPT ![c].subs = @ \ {p}, ![c].pending = @ \ {p}]
    /\ UNCHANGED cfHub /\ SocketStep

\* The writer takes the paths whose window has elapsed.
due(c) ==
    /\ cfConn[c].writer /\ cfConn[c].due = {}
    /\ \E ps \in SUBSET cfConn[c].pending \ {{}} :
         cfConn' = [cfConn EXCEPT ![c].due = ps, ![c].pending = @ \ ps]
    /\ UNCHANGED <<cfHub, cfPins, cfOwed, cfCrossed>> /\ SocketStep

\* The permission is not asked for again when the notice goes out.
MutFlush(c, p) ==
    /\ cfConn[c].writer /\ p \in cfConn[c].due
    /\ cfConn' = [cfConn EXCEPT ![c].due = @ \ {p}, ![c].subs = IF p \in cfMay THEN @ ELSE @ \ {p}]
    /\ cfOwed' = [cfOwed EXCEPT ![c] = @ \ {p}]
    /\ UNCHANGED <<cfHub, cfPins, cfCrossed>> /\ SocketStep

\* A path that may no longer be read loses its subscription and its pin; a failed send ends the writer.
flush(c, p) ==
    /\ cfConn[c].writer /\ p \in cfConn[c].due
    /\ \/ /\ p \notin cfMay
          /\ Forget(c, {p})
          /\ cfConn' = [cfConn EXCEPT ![c].due = @ \ {p}, ![c].subs = @ \ {p}, ![c].pending = @ \ {p}]
       \/ /\ p \in cfMay
          /\ cfConn' = [cfConn EXCEPT ![c].due = @ \ {p}]
          /\ cfOwed' = [cfOwed EXCEPT ![c] = @ \ {p}]
          /\ UNCHANGED <<cfPins, cfCrossed>>
       \/ /\ p \in cfMay
          /\ cfConn' = [cfConn EXCEPT ![c].due = {}, ![c].writer = FALSE]
          /\ UNCHANGED <<cfPins, cfOwed, cfCrossed>>
    /\ UNCHANGED cfHub /\ SocketStep

\* The peer goes away, stops answering or sends a frame that cannot be read.
readLoopEnds(c) ==
    /\ cfConn[c].st = "open" /\ cfConn[c].at = "idle"
    /\ cfConn' = [cfConn EXCEPT ![c].st = "leaving"]
    /\ UNCHANGED <<cfHub, cfPins, cfOwed, cfCrossed>> /\ SocketStep

\* Once the writer is done the socket leaves the hub and everything it held is released.
releaseAll(c) ==
    /\ cfConn[c].st = "leaving" /\ cfConn[c].due = {}
    /\ Forget(c, CfPaths)
    /\ cfConn' = [cfConn EXCEPT ![c] = NewConn]
    /\ cfHub' = [cfHub EXCEPT !.conns = @ \ {c}]
    /\ SocketStep

\* Closing the hub releases what each socket holds; their handlers end by themselves.
HubClose ==
    /\ ~cfHub.closed
    /\ cfHub' = [closed |-> TRUE, conns |-> {}]
    /\ cfConn' = [c \in Conns |-> IF c \in cfHub.conns THEN [cfConn[c] EXCEPT !.subs = {}, !.pending = {}] ELSE cfConn[c]]
    /\ cfPins' = [p \in CfPaths |-> LET n == Cardinality({c \in cfHub.conns : p \in cfConn[c].subs})
                                    IN IF cfPins[p] > n THEN cfPins[p] - n ELSE 0]
    /\ cfCrossed' = (cfCrossed \/ \E c \in cfHub.conns : cfConn[c].at = "pinning" /\ cfConn[c].path \in cfConn[c].subs)
    /\ cfOwed' = [c \in Conns |-> {}]
    /\ SocketStep

\* A grant is revoked or given back.
Regrant(p) ==
    /\ cfLeft.flips > 0 /\ cfLeft' = [cfLeft EXCEPT !.flips = @ - 1]
    /\ cfMay' = IF p \in cfMay THEN cfMay \ {p} ELSE cfMay \union {p}
    /\ UNCHANGED <<cfStream, cfHub, cfConn, cfPins, cfOwed, cfCrossed>>

CfNext ==
    \/ SayLost \/ Adapt \/ eventSources \/ fanOut \/ HubClose
    \/ \E p \in CfPaths : ChangeDir(p) \/ Regrant(p)
    \/ \E c \in Conns : serve(c) \/ subscribe(c) \/ pinForEvents(c) \/ due(c) \/ readLoopEnds(c) \/ releaseAll(c)
    \/ \E c \in Conns, p \in CfPaths : ResolveForEvents(c, p) \/ unsubscribe(c, p) \/ flush(c, p)

CfSpec == CfInit /\ [][CfNext]_cfVars

(***************************************************************************)
(* Properties                                                              *)
(***************************************************************************)

CfTypeOK ==
    /\ Len(cfRaw) <= CfQueue /\ Len(cfOut) <= CfQueue /\ cfLost \in BOOLEAN
    /\ cfHub.conns \subseteq Conns /\ cfMay \subseteq CfPaths
    /\ \A c \in Conns : /\ cfConn[c].pending \subseteq cfConn[c].subs /\ cfConn[c].subs \subseteq CfPaths
                        /\ cfConn[c].at \in {"idle", "resolved", "pinning"} /\ cfOwed[c] \subseteq CfPaths
    /\ Cardinality(Serving) <= MaxConnsPerUser

Covers(ev, p) == ev \in {All, p}
Queued(q, p) == \E i \in DOMAIN q : Covers(q[i], p)

\* A change to a directory a client is subscribed to is never forgotten on its way: until the client is told,
\* an event that covers it is queued, in translation, waiting in the connection or being delivered.
NoticeInFlight ==
    \A c \in cfHub.conns : \A p \in cfOwed[c] :
        \/ cfCrossed \/ ~cfConn[c].writer
        \/ Queued(cfRaw, p) \/ cfLost \/ Covers(cfWork, p) \/ Queued(cfOut, p)
        \/ p \in cfConn[c].pending \union cfConn[c].due

\* The directories pinned in the watcher are exactly the ones the sockets hold, whatever order subscriptions,
\* revocations and departures come in; the one exception is a release that overtook its own pin.
PinsExact ==
    cfCrossed \/ \A p \in CfPaths :
        cfPins[p] = Cardinality({c \in Conns : p \in cfConn[c].subs /\ ~(cfConn[c].at = "pinning" /\ cfConn[c].path = p)})

\* "Every subscription this connection held, released": with no socket left nothing is pinned.
PinsReleased == (\A c \in Conns : cfConn[c].st = "off") => \A p \in CfPaths : cfPins[p] = 0
=============================================================================
