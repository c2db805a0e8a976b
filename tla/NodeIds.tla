------------------------------ MODULE NodeIds ------------------------------
(***************************************************************************)
(* The ids of files and directories: internal/db/cache (id.go, node.go)    *)
(* over the override rows of internal/db/state/override.go.                *)
(*                                                                         *)
(* An id is derived from a file's identity, so that a cache that is thrown *)
(* away rebuilds to the same ids and sync clients keep their journals. Two *)
(* identities may derive the same id; who was met first then decides, and  *)
(* the decision is recorded in the durable database before the node row    *)
(* that relies on it is written. The hash is modelled by a table, so that  *)
(* collisions happen.                                                      *)
(***************************************************************************)
EXTENDS Naturals

CONSTANTS Idents,       \* file identities
          Derive,       \* the id each identity derives at each attempt, from 0 on
          NiAttempts,   \* the last attempt (maxAttempts)
          NiDrops       \* how often the cache is lost

VARIABLES niFiles,  \* the files on disk
          niNode,   \* the cache's node rows: the id each identity holds
          niOv,     \* the durable override rows
          niTx,     \* the node about to be inserted: its override is committed already
          niWas,    \* the id each identity was first given
          niLate,   \* a rebuild met a file nobody had met before
          niLeft    \* how often the cache may still be lost

niVars == <<niFiles, niNode, niOv, niTx, niWas, niLate, niLeft>>

Nobody == "nobody"
NoTx == [who |-> Nobody, id |-> 0]
None == [i \in {} |-> 0]
Row(i, id) == [x \in {i} |-> id]

\* Rows written to a table; the ones that are there stay as they are.
Added(table, rows) ==
    [i \in DOMAIN table \union DOMAIN rows |-> IF i \in DOMAIN table THEN table[i] ELSE rows[i]]

NiInit ==
    /\ niFiles = {} /\ niNode = None /\ niOv = None /\ niTx = NoTx
    /\ niWas = None /\ niLate = FALSE /\ niLeft = NiDrops

\* The identity that holds an id in a table, or nobody.
HolderIn(table, id) == IF \E i \in DOMAIN table : table[i] = id THEN CHOOSE i \in DOMAIN table : table[i] = id ELSE Nobody

\* Whether an identity has a recorded id. The counter that skips the empty table is refreshed by every record.
LookupFileID(id) == id \in DOMAIN niOv

\* The owner of an override row; the derivation attempt is refused when somebody else reserved the id.
LookupFileIDOwner(id) == HolderIn(niOv, id)
identOf(id) == HolderIn(niNode, id)

\* Only the rows of the cache are consulted, not the reservations.
MutAvailable(id, want) == identOf(want) \in {Nobody, id}

\* An id is free for an identity when nobody else reserved it and no other node holds it.
available(id, want) ==
    IF LookupFileIDOwner(want) # Nobody THEN LookupFileIDOwner(want) = id
    ELSE identOf(want) \in {Nobody, id}

\* The hash of an identity and an attempt, cut to the id's width.
DeriveID(id, k) == Derive[id][k]

\* The first attempt that is free, if there is one.
FreeAttempts(id) == {k \in 0..NiAttempts : available(id, DeriveID(id, k))}
FirstFree(id) == CHOOSE k \in FreeAttempts(id) : \A j \in FreeAttempts(id) : k <= j

\* The holder of the base id, whose place became a matter of who was first: recorded beside the newcomer.
Base(id) ==
    LET holder == identOf(DeriveID(id, 0))
    IN IF LookupFileIDOwner(DeriveID(id, 0)) = Nobody /\ holder \notin {Nobody, id} THEN Row(holder, DeriveID(id, 0)) ELSE None

RecordFileIDs(rows) == niOv' = Added(niOv, rows)

\* The newcomer's place is not recorded.
MutAllocateID(id) ==
    \/ /\ LookupFileID(id)
       /\ niTx' = [who |-> id, id |-> niOv[id]] /\ UNCHANGED niOv
    \/ /\ ~LookupFileID(id) /\ FreeAttempts(id) # {}
       /\ niTx' = [who |-> id, id |-> DeriveID(id, FirstFree(id))]
       /\ IF FirstFree(id) = 0 THEN UNCHANGED niOv ELSE RecordFileIDs(Base(id))

\* A recorded id first; otherwise the first free attempt, recorded durably unless it is the base one.
AllocateID(id) ==
    \/ /\ LookupFileID(id)
       /\ niTx' = [who |-> id, id |-> niOv[id]] /\ UNCHANGED niOv
    \/ /\ ~LookupFileID(id) /\ FreeAttempts(id) # {}
       /\ niTx' = [who |-> id, id |-> DeriveID(id, FirstFree(id))]
       /\ IF FirstFree(id) = 0 THEN UNCHANGED niOv
          ELSE RecordFileIDs(Added(Base(id), Row(id, DeriveID(id, FirstFree(id)))))

(***************************************************************************)
(* Steps                                                                   *)
(***************************************************************************)

\* A walk meets a file that has no row: the id is decided, and the override committed to the other database.
Upsert(id) ==
    /\ niTx = NoTx /\ id \in niFiles \ DOMAIN niNode /\ AllocateID(id)
    /\ niLate' = (niLate \/ (id \notin DOMAIN niWas /\ DOMAIN niWas \ DOMAIN niNode # {}))
    /\ UNCHANGED <<niFiles, niNode, niWas, niLeft>>

\* The cache's own transaction commits the node row.
InsertNode ==
    /\ niTx # NoTx /\ niTx' = NoTx
    /\ niNode' = Added(niNode, Row(niTx.who, niTx.id))
    /\ niWas' = Added(niWas, Row(niTx.who, niTx.id))
    /\ UNCHANGED <<niFiles, niOv, niLate, niLeft>>

\* The cache is rebuilt from nothing: it is deleted, or a crash loses it with the transaction in hand.
DropCache ==
    /\ niLeft > 0 /\ niLeft' = niLeft - 1
    /\ niNode' = None /\ niTx' = NoTx
    /\ UNCHANGED <<niFiles, niOv, niWas, niLate>>

\* A failed transaction leaves the override row alone.
Rollback == niTx # NoTx /\ niTx' = NoTx /\ UNCHANGED <<niFiles, niNode, niOv, niWas, niLate, niLeft>>

\* Files come and go; the row of one that is gone stays.
Appear(id) ==
    /\ id \notin niFiles /\ niFiles' = niFiles \union {id}
    /\ UNCHANGED <<niNode, niOv, niTx, niWas, niLate, niLeft>>

Vanish(id) == id \in niFiles /\ niFiles' = niFiles \ {id} /\ UNCHANGED <<niNode, niOv, niTx, niWas, niLate, niLeft>>

NiNext ==
    \/ \E id \in Idents : Upsert(id) \/ Appear(id) \/ Vanish(id)
    \/ InsertNode \/ DropCache \/ Rollback

NiSpec == NiInit /\ [][NiNext]_niVars

(***************************************************************************)
(* Properties                                                              *)
(***************************************************************************)

NiTypeOK ==
    /\ niFiles \subseteq Idents /\ DOMAIN niNode \subseteq Idents /\ DOMAIN niOv \subseteq Idents
    /\ niTx.who \in Idents \union {Nobody} /\ niLate \in BOOLEAN /\ niLeft \in 0..NiDrops

\* An id names one file: no two node rows share one, no two override rows share one, and no node holds an id
\* reserved for another identity, not even while the cache is rebuilt in another order.
IdsUnique ==
    LET pairs == {<<i, niNode[i]>> : i \in DOMAIN niNode} \union {<<i, niOv[i]>> : i \in DOMAIN niOv}
                 \union (IF niTx = NoTx THEN {} ELSE {<<niTx.who, niTx.id>>})
    IN \A p, q \in pairs : p[2] = q[2] => p[1] = q[1]

\* A rebuilt cache gives every file the id it had, in whatever order the rebuild meets the files, unless it
\* met a file nobody had met before while some of the known ones were still missing.
IdsStable == niLate \/ \A i \in DOMAIN niNode : niNode[i] = niWas[i]

\* "a deleted cache rebuilds to identical ids", without the exception.
IdsNeverChange == \A i \in DOMAIN niNode : niNode[i] = niWas[i]
=============================================================================
