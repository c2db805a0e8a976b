----------------------------- MODULE LockPromise -----------------------------
(***************************************************************************)
(* What the WebDAV lock table promises its clients, without rows, clocks   *)
(* or requests: a set of grants, each over a set of resources.  A grant is *)
(* made only where no other one stands that excludes it; grants lapse or   *)
(* are given back at any time.                                             *)
(***************************************************************************)
CONSTANTS Principals, Tokens, Resources
VARIABLE granted

Grants == [token : Tokens, who : Principals, over : SUBSET Resources, shared : BOOLEAN]

Excludes(g, h) == g.over \cap h.over # {} /\ ~(g.shared /\ h.shared)

Init == granted = {}
Grant == \E g \in Grants : /\ \A h \in granted : ~Excludes(g, h)
                           /\ granted' = granted \cup {g}
Lapse == granted' \subseteq granted
Spec == Init /\ [][Grant \/ Lapse]_granted
=============================================================================
