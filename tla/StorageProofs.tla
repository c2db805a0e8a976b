---------------------------- MODULE StorageProofs ----------------------------
(***************************************************************************)
(* What five of the parts of MCStorage keep for every instance: the ids of *)
(* files (NodeIds), the durable copy jobs (OperationQueue), copies and     *)
(* moves of trees (TransferTree), WebDAV locks (DavLocks) and the trash    *)
(* (FileTrash); and what follows for the composition.                      *)
(***************************************************************************)
EXTENDS MCStorage, SequenceTheorems,
        WellFoundedInduction, TLAPS

------------------------------------------------------------------------------
(***************************************************************************)
(* Ids are unique and survive the loss of the cache, for any files, any    *)
(* derivation, however often it collides, and any number of rebuilds.      *)
(***************************************************************************)

\* What the theorems ask of the constants: the name for nobody is no identity,
\* and there is an attempt 0.
NiConstants == Nobody \notin Idents /\ NiAttempts \in Nat

------------------------------------------------------------------------------
(* The inductive invariant.                                                *)

\* No two rows of one table share an id.
Injective(table) == \A i, j \in DOMAIN table : table[i] = table[j] => i = j

\* Two tables agree on whom an id belongs to.
Agree(a, b) == \A i \in DOMAIN a, j \in DOMAIN b : a[i] = b[j] => i = j

\* The two databases never give one id to two identities, and what is recorded
\* for a node is the id it has.
TablesInv ==
    /\ DOMAIN niNode \subseteq Idents /\ DOMAIN niOv \subseteq Idents
    /\ Injective(niNode) /\ Injective(niOv) /\ Agree(niNode, niOv)
    /\ \A i \in DOMAIN niNode \intersect DOMAIN niOv : niNode[i] = niOv[i]

\* The node about to be inserted has no row, its id is nobody else's in either
\* database, and it is the recorded one if there is a record.
TxInv ==
    niTx # NoTx =>
      /\ niTx.who \in Idents \ DOMAIN niNode
      /\ \A i \in DOMAIN niNode : niNode[i] # niTx.id
      /\ \A j \in DOMAIN niOv : niOv[j] = niTx.id <=> j = niTx.who

\* Every id that was ever given out can be found again: it is recorded, or it is
\* the first the identity derives and nobody else has it.
RebuildInv ==
    /\ \A i \in DOMAIN niNode : i \in DOMAIN niWas /\ niNode[i] = niWas[i]
    /\ Injective(niWas) /\ Agree(niWas, niOv)
    /\ \A i \in DOMAIN niWas : IF i \in DOMAIN niOv THEN niOv[i] = niWas[i]
                               ELSE niWas[i] = DeriveID(i, 0)

\* So can the id of the node about to be inserted.
TxRebuildInv ==
    niTx # NoTx =>
      /\ niTx.who \in DOMAIN niWas => niTx.id = niWas[niTx.who]
      /\ niTx.who \notin DOMAIN niWas => \A i \in DOMAIN niWas : niWas[i] # niTx.id
      /\ niTx.who \notin DOMAIN niOv => niTx.id = DeriveID(niTx.who, 0)

NiInv == /\ TablesInv /\ TxInv /\ niLate \in BOOLEAN
         /\ ~niLate => RebuildInv /\ TxRebuildInv

------------------------------------------------------------------------------
(* Tables.                                                                 *)

\* Every set of naturals that is not empty has a least element.
LEMMA LeastNatural ==
    ASSUME NEW T, T \subseteq Nat, T # {}
    PROVE  \E x \in T : \A y \in T : x <= y
<1>1. PICK R : IsWellFoundedOn(R, Nat) /\ \A x, y \in Nat : <<y, x>> \in R <=> y < x
  <2>1. \A x, y \in Nat : <<y, x>> \in OpToRel(<, Nat) <=> y < x
    BY DEF OpToRel
  <2> QED
    BY <2>1, NatLessThanWellFounded, Zenon
<1>2. PICK x \in T : \A y \in T : ~(<<y, x>> \in R)
  BY <1>1, WFMin
<1>3. \A y \in T : ~(y < x)
  BY <1>1, <1>2, Zenon
<1>4. \A y \in T : x <= y
  BY <1>3
<1> QED
  BY <1>4

\* Who holds an id in a table: nobody, exactly if no row has it.
LEMMA Holder ==
    ASSUME NiConstants, NEW table, DOMAIN table \subseteq Idents, NEW id
    PROVE  /\ HolderIn(table, id) = Nobody <=> \A i \in DOMAIN table : table[i] # id
           /\ HolderIn(table, id) # Nobody => /\ HolderIn(table, id) \in DOMAIN table
                                              /\ table[HolderIn(table, id)] = id
BY DEF HolderIn, NiConstants

\* The attempt that is chosen is free, and it is the first one.
LEMMA FirstFreeIsFree ==
    ASSUME NiConstants, NEW id, FreeAttempts(id) # {}
    PROVE  /\ FirstFree(id) \in FreeAttempts(id)
           /\ 0 \in FreeAttempts(id) => FirstFree(id) = 0
<1>1. FreeAttempts(id) \subseteq Nat
  BY DEF FreeAttempts, NiConstants
<1>2. \E k \in FreeAttempts(id) : \A j \in FreeAttempts(id) : k <= j
  BY <1>1, LeastNatural
<1>3. /\ FirstFree(id) \in FreeAttempts(id)
      /\ \A j \in FreeAttempts(id) : FirstFree(id) <= j
  BY <1>2 DEF FirstFree
<1> QED
  BY <1>1, <1>3

\* An id that is free for an identity without rows is nobody's, and the other
\* way round.
LEMMA FreeIsNobodys ==
    ASSUME NiConstants, TablesInv, NEW id \in Idents \ (DOMAIN niNode \union DOMAIN niOv), NEW want
    PROVE  available(id, want) <=> /\ \A i \in DOMAIN niNode : niNode[i] # want
                                   /\ \A j \in DOMAIN niOv : niOv[j] # want
<1>1. /\ identOf(want) = Nobody <=> \A i \in DOMAIN niNode : niNode[i] # want
      /\ identOf(want) # Nobody => identOf(want) \in DOMAIN niNode
  BY Holder DEF identOf, TablesInv
<1>2. /\ LookupFileIDOwner(want) = Nobody <=> \A j \in DOMAIN niOv : niOv[j] # want
      /\ LookupFileIDOwner(want) # Nobody => LookupFileIDOwner(want) \in DOMAIN niOv
  BY Holder DEF LookupFileIDOwner, TablesInv
<1> QED
  BY <1>1, <1>2 DEF available, NiConstants

\* What AllocateID decides: the recorded id, or one that is nobody's; if it is
\* not the first, the newcomer's place and the places of the nodes it gave way
\* to are recorded with it.
LEMMA Allocation ==
    ASSUME NiConstants, TablesInv, NEW id \in Idents \ DOMAIN niNode, AllocateID(id)
    PROVE  \E want :
             /\ niTx' = [who |-> id, id |-> want]
             /\ \/ id \in DOMAIN niOv /\ want = niOv[id] /\ niOv' = niOv
                \/ /\ id \notin DOMAIN niOv
                   /\ \A i \in DOMAIN niNode : niNode[i] # want
                   /\ \A j \in DOMAIN niOv : niOv[j] # want
                   /\ \/ niOv' = niOv /\ want = DeriveID(id, 0)
                      \/ \E H \in SUBSET (DOMAIN niNode \ DOMAIN niOv) :
                           /\ ~available(id, DeriveID(id, 0))
                           /\ DOMAIN niOv' = DOMAIN niOv \union H \union {id}
                           /\ \A j \in DOMAIN niOv : niOv'[j] = niOv[j]
                           /\ \A h \in H : niOv'[h] = niNode[h]
                           /\ niOv'[id] = want
<1>1. CASE id \in DOMAIN niOv
  BY <1>1 DEF AllocateID, LookupFileID
<1>2. CASE id \notin DOMAIN niOv
  <2> DEFINE want == DeriveID(id, FirstFree(id))
             base == DeriveID(id, 0)
             holder == identOf(base)
  <2>1. /\ FreeAttempts(id) # {} /\ niTx' = [who |-> id, id |-> want]
        /\ IF FirstFree(id) = 0 THEN UNCHANGED niOv
           ELSE RecordFileIDs(Added(Base(id), Row(id, want)))
    BY <1>2 DEF AllocateID, LookupFileID
  <2>2. FirstFree(id) \in FreeAttempts(id) /\ (0 \in FreeAttempts(id) => FirstFree(id) = 0)
    BY <2>1, FirstFreeIsFree
  <2>3. available(id, want)
    BY <2>2 DEF FreeAttempts
  <2>4. /\ \A i \in DOMAIN niNode : niNode[i] # want
        /\ \A j \in DOMAIN niOv : niOv[j] # want
    BY <1>2, <2>3, FreeIsNobodys
  <2>5. CASE FirstFree(id) = 0
    BY <1>2, <2>1, <2>4, <2>5
  <2>6. CASE FirstFree(id) # 0
    <3>1. ~available(id, base)
      BY <2>2, <2>6 DEF FreeAttempts, NiConstants
    <3> DEFINE H == DOMAIN Base(id)
    <3>2. H \subseteq DOMAIN niNode \ DOMAIN niOv /\ \A h \in H : Base(id)[h] = niNode[h]
      <4>1. CASE LookupFileIDOwner(base) = Nobody /\ holder \notin {Nobody, id}
        <5>1. holder \in DOMAIN niNode /\ niNode[holder] = base
          BY <4>1, Holder DEF identOf, TablesInv
        <5>2. \A j \in DOMAIN niOv : niOv[j] # base
          BY <4>1, Holder DEF LookupFileIDOwner, TablesInv
        <5>3. holder \notin DOMAIN niOv
          BY <5>1, <5>2 DEF TablesInv
        <5>4. Base(id) = Row(holder, base)
          BY <4>1 DEF Base
        <5> QED
          BY <5>1, <5>3, <5>4 DEF Row
      <4>2. CASE ~(LookupFileIDOwner(base) = Nobody /\ holder \notin {Nobody, id})
        <5>1. Base(id) = None
          BY <4>2 DEF Base
        <5> QED
          BY <5>1 DEF None
      <4> QED
        BY <4>1, <4>2
    <3> DEFINE rows == Added(Base(id), Row(id, want))
    <3>3. niOv' = Added(niOv, rows)
      BY <2>1, <2>6 DEF RecordFileIDs
    <3> HIDE DEF want, base, holder
    <3>4. id \notin H
      BY <3>2
    <3>5. DOMAIN rows = H \union {id} /\ rows[id] = want /\ \A h \in H : rows[h] = niNode[h]
      BY <3>2, <3>4 DEF Added, Row
    <3> HIDE DEF rows, H
    <3>6. /\ DOMAIN niOv' = DOMAIN niOv \union H \union {id}
          /\ \A j \in DOMAIN niOv : niOv'[j] = niOv[j]
          /\ \A h \in H : niOv'[h] = niNode[h]
          /\ niOv'[id] = want
      BY <1>2, <3>2, <3>3, <3>5 DEF Added
    <3>7. H \in SUBSET (DOMAIN niNode \ DOMAIN niOv)
      BY <3>2
    <3> QED
      BY <1>2, <2>1, <2>4, <3>1, <3>6, <3>7 DEF base
  <2> QED
    BY <2>5, <2>6
<1> QED
  BY <1>1, <1>2

------------------------------------------------------------------------------
(* Steps.                                                                  *)

\* An empty cache and an empty table are consistent.
LEMMA NiInvInit == NiInit => NiInv
BY DEF NiInit, NiInv, TablesInv, TxInv, RebuildInv, TxRebuildInv, Injective, Agree, None

\* The decision keeps ids apart and, unless a newcomer is met in the middle of a
\* rebuild, leaves every known file the id it had.
LEMMA UpsertPreserves ==
    ASSUME NiConstants, NiInv, NEW id \in Idents, Upsert(id)
    PROVE  NiInv'
<1>1. /\ id \in Idents \ DOMAIN niNode /\ AllocateID(id) /\ UNCHANGED <<niNode, niWas>>
      /\ niLate' = (niLate \/ (id \notin DOMAIN niWas /\ DOMAIN niWas \ DOMAIN niNode # {}))
      /\ niLate' \in BOOLEAN
  BY DEF Upsert, NiInv
<1>2. TablesInv
  BY DEF NiInv
<1>3. PICK want :
        /\ niTx' = [who |-> id, id |-> want]
        /\ \/ id \in DOMAIN niOv /\ want = niOv[id] /\ niOv' = niOv
           \/ /\ id \notin DOMAIN niOv
              /\ \A i \in DOMAIN niNode : niNode[i] # want
              /\ \A j \in DOMAIN niOv : niOv[j] # want
              /\ \/ niOv' = niOv /\ want = DeriveID(id, 0)
                 \/ \E H \in SUBSET (DOMAIN niNode \ DOMAIN niOv) :
                      /\ ~available(id, DeriveID(id, 0))
                      /\ DOMAIN niOv' = DOMAIN niOv \union H \union {id}
                      /\ \A j \in DOMAIN niOv : niOv'[j] = niOv[j]
                      /\ \A h \in H : niOv'[h] = niNode[h]
                      /\ niOv'[id] = want
  BY <1>1, <1>2, Allocation
<1>4. niTx'.who = id /\ niTx'.id = want
  BY <1>3
<1>5. CASE id \in DOMAIN niOv
  <2>1. want = niOv[id] /\ niOv' = niOv
    BY <1>3, <1>5
  <2>2. TablesInv' /\ TxInv'
    BY <1>1, <1>2, <1>4, <1>5, <2>1 DEF TablesInv, TxInv, Injective, Agree
  <2>3. ~niLate' => RebuildInv' /\ TxRebuildInv'
    BY <1>1, <1>4, <1>5, <2>1 DEF NiInv, RebuildInv, TxRebuildInv, Injective, Agree, DeriveID
  <2> QED
    BY <1>1, <2>2, <2>3 DEF NiInv
<1>6. CASE id \notin DOMAIN niOv /\ niOv' = niOv /\ want = DeriveID(id, 0)
  <2>1. /\ \A i \in DOMAIN niNode : niNode[i] # want
        /\ \A j \in DOMAIN niOv : niOv[j] # want
    BY <1>3, <1>6
  <2>2. TablesInv' /\ TxInv'
    BY <1>1, <1>2, <1>4, <1>6, <2>1 DEF TablesInv, TxInv, Injective, Agree
  <2>3. ~niLate' => RebuildInv' /\ TxRebuildInv'
    BY <1>1, <1>4, <1>6, <2>1 DEF NiInv, RebuildInv, TxRebuildInv, Injective, Agree, DeriveID
  <2> QED
    BY <1>1, <2>2, <2>3 DEF NiInv
<1>7. ASSUME id \notin DOMAIN niOv, NEW H \in SUBSET (DOMAIN niNode \ DOMAIN niOv),
             ~available(id, DeriveID(id, 0)),
             DOMAIN niOv' = DOMAIN niOv \union H \union {id},
             \A j \in DOMAIN niOv : niOv'[j] = niOv[j],
             \A h \in H : niOv'[h] = niNode[h],
             niOv'[id] = want
      PROVE  NiInv'
  <2>1. /\ \A i \in DOMAIN niNode : niNode[i] # want
        /\ \A j \in DOMAIN niOv : niOv[j] # want
    BY <1>3, <1>7
  <2>2. TablesInv'
    <3>1. Injective(niOv')
      BY <1>1, <1>2, <1>7, <2>1 DEF TablesInv, Injective, Agree
    <3>2. Agree(niNode, niOv')
      BY <1>1, <1>2, <1>7, <2>1 DEF TablesInv, Injective, Agree
    <3> QED
      BY <1>1, <1>2, <1>7, <3>1, <3>2 DEF TablesInv, Injective, Agree
  <2>3. TxInv'
    BY <1>1, <1>2, <1>4, <1>7, <2>1 DEF TablesInv, TxInv
  <2>4. ASSUME ~niLate' PROVE RebuildInv' /\ TxRebuildInv'
    <3>1. RebuildInv
      BY <1>1, <2>4 DEF NiInv
    <3>2. id \notin DOMAIN niWas
      <4> SUFFICES ASSUME id \in DOMAIN niWas PROVE FALSE
        OBVIOUS
      <4>1. niWas[id] = DeriveID(id, 0)
        BY <1>7, <3>1 DEF RebuildInv
      <4>2. \A i \in DOMAIN niNode : niNode[i] # niWas[id]
        BY <1>1, <3>1 DEF RebuildInv, Injective
      <4>3. \A j \in DOMAIN niOv : niOv[j] # niWas[id]
        BY <1>7, <3>1 DEF RebuildInv, Agree
      <4> QED
        BY <1>1, <1>2, <1>7, <4>1, <4>2, <4>3, FreeIsNobodys
    <3>3. \A i \in DOMAIN niWas : i \in DOMAIN niNode /\ niNode[i] = niWas[i] /\ niWas[i] # want
      BY <1>1, <2>1, <2>4, <3>1, <3>2 DEF RebuildInv
    <3>4. Agree(niWas, niOv')
      BY <1>1, <1>2, <1>7, <2>1, <3>1, <3>2, <3>3 DEF RebuildInv, TablesInv, Injective, Agree
    <3>5. \A i \in DOMAIN niWas : IF i \in DOMAIN niOv' THEN niOv'[i] = niWas[i]
                                  ELSE niWas[i] = DeriveID(i, 0)
      BY <1>7, <3>1, <3>2, <3>3 DEF RebuildInv
    <3>6. RebuildInv'
      BY <1>1, <3>1, <3>4, <3>5 DEF RebuildInv, Injective, Agree, DeriveID
    <3>7. TxRebuildInv'
      BY <1>1, <1>4, <1>7, <3>2, <3>3 DEF TxRebuildInv
    <3> QED
      BY <3>6, <3>7
  <2> QED
    BY <1>1, <2>2, <2>3, <2>4 DEF NiInv
<1> QED
  BY <1>3, <1>5, <1>6, <1>7

\* The row is written as it was decided.
LEMMA InsertPreserves ==
    ASSUME NiConstants, NiInv, InsertNode
    PROVE  NiInv'
<1> DEFINE who == niTx.who
           id == niTx.id
<1>1. /\ niTx # NoTx /\ niTx' = NoTx /\ UNCHANGED <<niOv, niLate>>
      /\ niNode' = Added(niNode, Row(who, id)) /\ niWas' = Added(niWas, Row(who, id))
  BY DEF InsertNode
<1>2. TablesInv /\ TxInv /\ who \in Idents \ DOMAIN niNode
  BY <1>1 DEF NiInv, TxInv
<1>3. /\ DOMAIN niNode' = DOMAIN niNode \union {who} /\ niNode'[who] = id
      /\ \A i \in DOMAIN niNode : niNode'[i] = niNode[i]
  BY <1>1, <1>2 DEF Added, Row
<1>4. /\ DOMAIN niWas' = DOMAIN niWas \union {who}
      /\ who \notin DOMAIN niWas => niWas'[who] = id
      /\ \A i \in DOMAIN niWas : niWas'[i] = niWas[i]
  BY <1>1 DEF Added, Row
<1>5. TablesInv'
  <2>1. /\ \A i \in DOMAIN niNode : niNode[i] # id
        /\ \A j \in DOMAIN niOv : niOv[j] = id <=> j = who
    BY <1>1, <1>2 DEF TxInv
  <2>2. Injective(niNode') /\ Agree(niNode', niOv)
    BY <1>2, <1>3, <2>1 DEF TablesInv, Injective, Agree
  <2>3. \A i \in DOMAIN niNode' \intersect DOMAIN niOv : niNode'[i] = niOv[i]
    BY <1>2, <1>3, <2>1 DEF TablesInv
  <2> QED
    BY <1>1, <1>2, <1>3, <2>2, <2>3 DEF TablesInv
<1>6. ASSUME ~niLate' PROVE RebuildInv'
  <2>1. RebuildInv /\ TxRebuildInv
    BY <1>1, <1>6 DEF NiInv
  <2>2. \A j \in DOMAIN niOv : niOv[j] = id <=> j = who
    BY <1>1, <1>2 DEF TxInv
  <2>3. niWas'[who] = id
    BY <1>1, <1>4, <2>1 DEF TxRebuildInv
  <2>4. \A i \in DOMAIN niNode' : i \in DOMAIN niWas' /\ niNode'[i] = niWas'[i]
    BY <1>3, <1>4, <2>1, <2>3 DEF RebuildInv
  <2>5. Injective(niWas')
    BY <1>1, <1>4, <2>1, <2>3 DEF RebuildInv, TxRebuildInv, Injective
  <2>6. Agree(niWas', niOv)
    BY <1>4, <2>1, <2>2, <2>3 DEF RebuildInv, Agree
  <2>7. \A i \in DOMAIN niWas' : IF i \in DOMAIN niOv THEN niOv[i] = niWas'[i]
                                 ELSE niWas'[i] = DeriveID(i, 0)
    BY <1>1, <1>4, <2>1, <2>2, <2>3 DEF RebuildInv, TxRebuildInv
  <2> QED
    BY <1>1, <2>4, <2>5, <2>6, <2>7 DEF RebuildInv, DeriveID
<1> QED
  BY <1>1, <1>5, <1>6 DEF NiInv, TxInv, TxRebuildInv

\* Losing the cache, or the transaction in hand, loses no decision.
LEMMA ForgetPreserves ==
    ASSUME NiInv, DropCache \/ Rollback
    PROVE  NiInv'
<1>1. /\ niTx' = NoTx /\ UNCHANGED <<niOv, niWas, niLate>>
      /\ niNode' = None \/ niNode' = niNode
  BY DEF DropCache, Rollback
<1>2. DOMAIN None = {}
  BY DEF None
<1> QED
  BY <1>1, <1>2 DEF NiInv, TablesInv, TxInv, RebuildInv, TxRebuildInv, Injective, Agree, DeriveID

\* Every step preserves the invariant.
LEMMA NiInvNext ==
    ASSUME NiConstants
    PROVE  NiInv /\ [NiNext]_niVars => NiInv'
<1> SUFFICES ASSUME NiInv, [NiNext]_niVars PROVE NiInv'
  OBVIOUS
<1>1. ASSUME NEW id \in Idents, Upsert(id) PROVE NiInv'
  BY <1>1, UpsertPreserves
<1>2. CASE InsertNode
  BY <1>2, InsertPreserves
<1>3. CASE DropCache \/ Rollback
  BY <1>3, ForgetPreserves
<1>4. ASSUME UNCHANGED <<niNode, niOv, niTx, niWas, niLate>> PROVE NiInv'
  BY <1>4 DEF NiInv, TablesInv, TxInv, RebuildInv, TxRebuildInv, Injective, Agree, DeriveID
<1>5. ASSUME NEW id \in Idents, Appear(id) \/ Vanish(id) PROVE NiInv'
  BY <1>4, <1>5 DEF Appear, Vanish
<1>6. CASE UNCHANGED niVars
  BY <1>4, <1>6 DEF niVars
<1> QED
  BY <1>1, <1>2, <1>3, <1>5, <1>6 DEF NiNext

------------------------------------------------------------------------------
(* Theorems.                                                               *)

\* The invariant of the two databases holds in every reachable state.
THEOREM NodeIdInvariant ==
    ASSUME NiConstants
    PROVE  NiSpec => []NiInv
BY NiInvInit, NiInvNext, PTL DEF NiSpec

\* An id names one file, in both databases and in the transaction between them,
\* whatever collides and in whatever order a rebuild meets the files (id.go).
THEOREM IdsAreUnique ==
    ASSUME NiConstants
    PROVE  NiSpec => []IdsUnique
<1>1. NiInv => IdsUnique
  <2> SUFFICES ASSUME TablesInv, TxInv PROVE IdsUnique
    BY DEF NiInv
  <2> DEFINE nodes == {<<i, niNode[i]>> : i \in DOMAIN niNode}
             records == {<<i, niOv[i]>> : i \in DOMAIN niOv}
             given == IF niTx = NoTx THEN {} ELSE {<<niTx.who, niTx.id>>}
  <2>1. \A p, q \in nodes : p[2] = q[2] => p[1] = q[1]
    BY DEF TablesInv, Injective
  <2>2. \A p, q \in records : p[2] = q[2] => p[1] = q[1]
    BY DEF TablesInv, Injective
  <2>3. \A p \in nodes, q \in records : p[2] = q[2] => p[1] = q[1]
    BY DEF TablesInv, Agree
  <2>4. \A p \in nodes \union records \union given, q \in given : p[2] = q[2] => p[1] = q[1]
    BY DEF TxInv
  <2> HIDE DEF nodes, records, given
  <2>5. \A p, q \in nodes \union records \union given : p[2] = q[2] => p[1] = q[1]
    BY <2>1, <2>2, <2>3, <2>4
  <2> QED
    BY <2>5, Zenon DEF IdsUnique, nodes, records, given
<1> QED
  BY <1>1, NodeIdInvariant, PTL

\* A rebuilt cache gives every file the id it had, unless the rebuild met a file
\* nobody had met before while known ones were missing (node.go, override.go).
THEOREM IdsSurviveRebuild ==
    ASSUME NiConstants
    PROVE  NiSpec => []IdsStable
<1>1. NiInv => IdsStable
  BY DEF NiInv, RebuildInv, IdsStable
<1> QED
  BY <1>1, NodeIdInvariant, PTL

------------------------------------------------------------------------------
(***************************************************************************)
(* What a copy job's row says is what happened to its tree, for any number *)
(* of jobs, slots and attempts, and any interleaving of requests, workers, *)
(* stops, crashes and restarts.  The argument is that an operation has one *)
(* worker at a time: a claim takes a row no worker has in hand, and a row  *)
(* leaves a worker's hand only by that worker, by a stop that interrupts   *)
(* it for good, or by an exit that ends all workers.                       *)
(***************************************************************************)

------------------------------------------------------------------------------
(* The inductive invariant.                                                *)

OpRow == [state : OpStates, attempt : Nat, lease : Nat, expired : BOOLEAN,
        cancel : BOOLEAN, pause : BOOLEAN, over : BOOLEAN]
Claim == [at : {"copy", "record", "pause"}, op : Ops, lease : Nat,
          outcome : {"none", "pause", "cancelled", "interrupted", "done", "failed", "retry"}]

QueueType ==
    /\ opRow \in [Ops -> OpRow] /\ worker \in [Slots -> Claim \cup {Free}]
    /\ jobs \in {"up", "stopping", "down"}

\* A worker has a claim in hand until it has recorded its outcome.
InHand(s) == worker[s].at \in {"copy", "record"}

\* The claim of a worker was made on a row that exists, by the latest attempt
\* or an earlier one; while it is in hand it is the row's lease, unless a stop
\* has interrupted the row.
ClaimsInv ==
    \A s \in Slots : Busy(s) =>
      /\ opRow[worker[s].op].state # "absent"
      /\ worker[s].lease \in 1 .. opRow[worker[s].op].attempt
      /\ worker[s].at = "pause" => opRow[worker[s].op].lease # worker[s].lease
      /\ InHand(s) => Holds(s) \/ opRow[worker[s].op].state = "interrupted"
      /\ worker[s].at = "record" => worker[s].outcome # "none"
      /\ worker[s].at = "record" /\ worker[s].outcome = "done" => worker[s].op \in copied

\* One operation is in one hand, and none is while the process is down.
OneHandInv ==
    /\ \A s, t \in Slots : InHand(s) /\ InHand(t) /\ worker[s].op = worker[t].op => s = t
    /\ jobs = "down" => \A s \in Slots : worker[s] = Free

\* A tree that was published is recorded as done or about to be, or the row was
\* interrupted under the worker.
PublishedInv ==
    \A o \in Ops : o \in copied \ dropped =>
      \/ opRow[o].state \in {"done", "interrupted"}
      \/ \E s \in Slots : /\ worker[s].at = "record" /\ worker[s].op = o
                          /\ worker[s].outcome = "done" /\ Holds(s)

OpInv == /\ QueueType /\ ClaimsInv /\ OneHandInv /\ PublishedInv
         /\ HonestOutcome /\ RunningIsOwned

USE DEF InHand

------------------------------------------------------------------------------
(* Rows and workers.                                                       *)

\* A slot is free or runs a claim.
LEMMA SlotFacts ==
    ASSUME QueueType, NEW s \in Slots
    PROVE  /\ Busy(s) <=> worker[s] \in Claim
           /\ ~Busy(s) => worker[s].at = "free"
           /\ Busy(s) => worker[s].op \in Ops /\ worker[s].lease \in Nat
BY DEF QueueType, Busy, Free, Claim

\* A row in a worker's hand is running under its lease, or interrupted.
LEMMA HandFacts ==
    ASSUME QueueType, ClaimsInv, NEW s \in Slots, InHand(s)
    PROVE  /\ Busy(s) /\ worker[s] \in Claim /\ worker[s].op \in Ops
           /\ \/ opRow[worker[s].op].state = "running" /\ opRow[worker[s].op].lease = worker[s].lease
              \/ opRow[worker[s].op].state = "interrupted"
           /\ worker[s].lease \in Nat /\ worker[s].lease # 0
<1>1. Busy(s) /\ worker[s] \in Claim /\ worker[s].op \in Ops /\ worker[s].lease \in Nat
  BY SlotFacts
<1>2. opRow[worker[s].op].attempt \in Nat
  BY <1>1 DEF QueueType, OpRow
<1> QED
  BY <1>1, <1>2 DEF ClaimsInv, Holds

\* The rows a request may touch are in nobody's hand, and their trees are not
\* published unless an outcome was dropped.
LEMMA WaitingFacts ==
    ASSUME QueueType, ClaimsInv, PublishedInv, NEW o \in Ops,
           opRow[o].state \in {"absent", "queued", "paused", "retrying"}
    PROVE  /\ \A s \in Slots : InHand(s) => worker[s].op # o
           /\ o \notin copied \ dropped
<1>1. \A s \in Slots : InHand(s) => worker[s].op # o
  BY HandFacts
<1> QED
  BY <1>1 DEF PublishedInv

\* Slots are left alone but for one that had only its pause left to write.
SlotsKept ==
    /\ worker' \in [Slots -> Claim \cup {Free}]
    /\ \A t \in Slots : worker'[t] = worker[t] \/ (worker[t].at = "pause" /\ worker'[t] = Free)

\* What stays when they are: the hands, the owners, and the claims.
LEMMA KeptFacts ==
    ASSUME OpInv, SlotsKept
    PROVE  /\ \A t \in Slots : InHand(t)' <=> InHand(t)
           /\ \A t \in Slots : Busy(t)' => Busy(t) /\ worker'[t] = worker[t]
           /\ \A t \in Slots : InHand(t) => worker'[t] = worker[t]
           /\ \A t \in Slots, o \in Ops :
                 /\ Busy(t) /\ worker[t].op = o /\ worker[t].lease = opRow[o].lease
                 => Busy(t)' /\ worker'[t] = worker[t]
<1>1. \A t \in Slots : worker'[t] = Free => worker'[t].at = "free"
  BY DEF Free
<1>2. \A t \in Slots, o \in Ops :
        Busy(t) /\ worker[t].op = o /\ worker[t].lease = opRow[o].lease => worker[t].at # "pause"
  BY DEF OpInv, ClaimsInv
<1> QED
  BY <1>1, <1>2 DEF SlotsKept, Busy

\* A step that gives one waiting row another waiting state, and nothing else.
LEMMA WaitingMoves ==
    ASSUME OpInv, NEW o \in Ops, NEW r \in OpRow,
           opRow[o].state \in {"absent", "queued", "paused", "retrying"},
           r.state \in {"queued", "paused", "retrying"},
           opRow[o].state # "absent" => r.attempt = opRow[o].attempt /\ r.lease = opRow[o].lease,
           opRow' = [opRow EXCEPT ![o] = r],
           SlotsKept, UNCHANGED <<jobs, copied, dropped>>
    PROVE  OpInv'
<1>1. /\ \A s \in Slots : InHand(s) => worker[s].op # o
      /\ o \notin copied \ dropped
  BY WaitingFacts DEF OpInv
<1>2. opRow'[o] = r /\ \A p \in Ops : p # o => opRow'[p] = opRow[p]
  BY DEF OpInv, QueueType
<1>3. QueueType'
  BY DEF OpInv, QueueType, SlotsKept
<1>4. ClaimsInv'
  <2> SUFFICES ASSUME NEW s \in Slots, Busy(s)
               PROVE  /\ opRow'[worker[s].op].state # "absent"
                      /\ worker[s].lease \in 1 .. opRow'[worker[s].op].attempt
                      /\ worker[s].at = "pause" => opRow'[worker[s].op].lease # worker[s].lease
                      /\ InHand(s) => \/ /\ opRow'[worker[s].op].lease = worker[s].lease
                                         /\ opRow'[worker[s].op].state = "running"
                                      \/ opRow'[worker[s].op].state = "interrupted"
                      /\ worker[s].at = "record" => worker[s].outcome # "none"
                      /\ worker[s].at = "record" /\ worker[s].outcome = "done"
                            => worker[s].op \in copied
    BY KeptFacts DEF ClaimsInv, Busy, Holds
  <2>1. worker[s].op \in Ops
    BY SlotFacts DEF OpInv
  <2>2. CASE worker[s].op = o
    BY <1>1, <1>2, <2>2 DEF OpInv, ClaimsInv
  <2>3. CASE worker[s].op # o
    BY <1>2, <2>1, <2>3 DEF OpInv, ClaimsInv, Holds
  <2> QED
    BY <2>2, <2>3
<1>5. OneHandInv'
  BY KeptFacts DEF OpInv, OneHandInv, SlotsKept
<1>6. PublishedInv'
  BY <1>1, <1>2, KeptFacts DEF OpInv, PublishedInv, Holds
<1>7. HonestOutcome'
  BY <1>2 DEF OpInv, HonestOutcome
<1>8. RunningIsOwned'
  BY <1>2, KeptFacts DEF OpInv, RunningIsOwned
<1> QED
  BY <1>3, <1>4, <1>5, <1>6, <1>7, <1>8 DEF OpInv

\* A step that leaves alone what the invariant looks at in a row.
LEMMA MarksMove ==
    ASSUME OpInv, opRow' \in [Ops -> OpRow], jobs' \in {"up", "stopping"} \/ jobs' = jobs,
           \A p \in Ops : /\ opRow'[p].state = opRow[p].state
                          /\ opRow'[p].attempt = opRow[p].attempt
                          /\ opRow'[p].lease = opRow[p].lease,
           SlotsKept, UNCHANGED <<copied, dropped>>
    PROVE  OpInv'
<1>1. \A s \in Slots : Busy(s) => worker[s].op \in Ops
  BY SlotFacts DEF OpInv
<1>2. QueueType'
  BY DEF OpInv, QueueType, SlotsKept
<1>3. \A s \in Slots : Busy(s)' => (Holds(s)' <=> Holds(s))
  BY <1>1, KeptFacts DEF Holds
<1>4. ClaimsInv'
  BY <1>1, <1>3, KeptFacts DEF OpInv, ClaimsInv
<1>5. OneHandInv'
  BY KeptFacts DEF OpInv, OneHandInv, SlotsKept
<1>6. PublishedInv'
  BY <1>1, KeptFacts DEF OpInv, PublishedInv, Holds
<1>7. HonestOutcome'
  BY DEF OpInv, HonestOutcome
<1>8. RunningIsOwned'
  BY KeptFacts DEF OpInv, RunningIsOwned
<1> QED
  BY <1>2, <1>4, <1>5, <1>6, <1>7, <1>8 DEF OpInv

------------------------------------------------------------------------------
(* Requests.                                                               *)

\* The row of a job nobody started is free to take.
LEMMA StartCopyPreserves ==
    ASSUME OpInv, NEW o \in Ops, NEW over \in BOOLEAN, StartCopy(o, over)
    PROVE  OpInv'
<1>1. NewRow(over) \in OpRow /\ NewRow(over).state = "queued"
  BY DEF NewRow, OpRow, OpStates, NoLease
<1> QED
  BY <1>1, WaitingMoves DEF StartCopy, CreateQueuedOp, SlotsKept, OpInv, QueueType

\* A StartCopy that finds the stop interrupts its row whatever became of it.
LEMMA StartCopyReturnsPreserves ==
    ASSUME OpInv, NEW o \in Ops, StartCopyReturns(o)
    PROVE  OpInv'
<1>1. UNCHANGED <<worker, jobs, copied, dropped>>
  BY DEF StartCopyReturns
<1>2. CASE UNCHANGED opRow
  BY <1>1, <1>2, MarksMove DEF OpInv, QueueType, SlotsKept
<1>3. CASE InterruptOp(o)
  <2>1. /\ opRow'[o].state = "interrupted" /\ opRow'[o].lease = 0
        /\ opRow'[o].attempt = opRow[o].attempt
        /\ opRow' \in [Ops -> OpRow] /\ \A p \in Ops : p # o => opRow'[p] = opRow[p]
    BY <1>3 DEF InterruptOp, OpInv, QueueType, OpRow, OpStates, NoLease
  <2>2. QueueType'
    BY <1>1, <2>1 DEF OpInv, QueueType
  <2>3. ClaimsInv'
    <3> SUFFICES ASSUME NEW s \in Slots, Busy(s)
                 PROVE  /\ opRow'[worker[s].op].state # "absent"
                        /\ worker[s].lease \in 1 .. opRow'[worker[s].op].attempt
                        /\ worker[s].at = "pause" => opRow'[worker[s].op].lease # worker[s].lease
                        /\ InHand(s) => Holds(s)' \/ opRow'[worker[s].op].state = "interrupted"
                        /\ worker[s].at = "record" => worker[s].outcome # "none"
                        /\ worker[s].at = "record" /\ worker[s].outcome = "done"
                              => worker[s].op \in copied
      BY <1>1 DEF ClaimsInv, Busy
    <3>1. worker[s].op \in Ops /\ opRow[worker[s].op].attempt \in Nat
      BY SlotFacts DEF OpInv, QueueType, OpRow
    <3>2. CASE worker[s].op = o
      BY <2>1, <3>1, <3>2 DEF OpInv, ClaimsInv
    <3>3. CASE worker[s].op # o
      BY <1>1, <2>1, <3>1, <3>3 DEF OpInv, ClaimsInv, Holds
    <3> QED
      BY <3>2, <3>3
  <2>4. OneHandInv'
    BY <1>1 DEF OpInv, OneHandInv
  <2>5. PublishedInv'
    BY <1>1, <2>1 DEF OpInv, PublishedInv, Holds
  <2>6. HonestOutcome'
    BY <1>1, <2>1 DEF OpInv, HonestOutcome
  <2>7. RunningIsOwned'
    BY <1>1, <2>1 DEF OpInv, RunningIsOwned, Busy
  <2> QED
    BY <2>2, <2>3, <2>4, <2>5, <2>6, <2>7 DEF OpInv
<1> QED
  BY <1>2, <1>3 DEF StartCopyReturns

\* A cancellation is a mark on the row.
LEMMA CancelPreserves ==
    ASSUME OpInv, NEW o \in Ops, CancelOperation(o)
    PROVE  OpInv'
<1>1. opRow' = [opRow EXCEPT ![o] = [opRow[o] EXCEPT !.cancel = TRUE, !.pause = FALSE]]
  BY DEF CancelOperation, OpInv, QueueType, OpRow
<1>2. /\ opRow' \in [Ops -> OpRow]
      /\ \A p \in Ops : /\ opRow'[p].state = opRow[p].state
                        /\ opRow'[p].attempt = opRow[p].attempt
                        /\ opRow'[p].lease = opRow[p].lease
  BY <1>1 DEF OpInv, QueueType, OpRow
<1> QED
  BY <1>2, MarksMove DEF CancelOperation, SlotsKept, OpInv, QueueType

\* A pause marks a running row and moves a waiting one.
LEMMA PauseRowPreserves ==
    ASSUME OpInv, NEW o \in Ops, PauseRow(o), SlotsKept,
           UNCHANGED <<jobs, copied, dropped>>
    PROVE  OpInv'
<1>1. CASE opRow[o].state \in {"queued", "retrying"}
  <2> DEFINE r == [opRow[o] EXCEPT !.pause = TRUE, !.state = "paused"]
  <2>1. opRow' = [opRow EXCEPT ![o] = r]
    BY <1>1 DEF PauseRow, OpInv, QueueType, OpRow
  <2>2. /\ r \in OpRow /\ r.state = "paused" /\ r.attempt = opRow[o].attempt
        /\ r.lease = opRow[o].lease
    BY DEF OpInv, QueueType, OpRow, OpStates
  <2> HIDE DEF r
  <2> QED
    BY <1>1, <2>1, <2>2, WaitingMoves
<1>2. CASE opRow[o].state = "running"
  <2>1. opRow' = [opRow EXCEPT ![o] = [opRow[o] EXCEPT !.pause = TRUE]]
    BY <1>2 DEF PauseRow, OpInv, QueueType, OpRow
  <2>2. /\ opRow' \in [Ops -> OpRow]
        /\ \A p \in Ops : /\ opRow'[p].state = opRow[p].state
                          /\ opRow'[p].attempt = opRow[p].attempt
                          /\ opRow'[p].lease = opRow[p].lease
    BY <2>1 DEF OpInv, QueueType, OpRow
  <2> QED
    BY <2>2, MarksMove
<1>3. CASE opRow[o].state \notin {"queued", "retrying", "running"}
  <2>1. UNCHANGED opRow
    BY <1>3 DEF PauseRow
  <2> QED
    BY <2>1, MarksMove DEF OpInv, QueueType
<1> QED
  BY <1>1, <1>2, <1>3

\* A resumption moves a paused row.
LEMMA ResumeRowPreserves ==
    ASSUME OpInv, NEW o \in Ops, ResumeRow(o), SlotsKept,
           UNCHANGED <<jobs, copied, dropped>>
    PROVE  OpInv'
<1>1. CASE opRow[o].state = "paused"
  <2> DEFINE r == [opRow[o] EXCEPT !.state = "queued", !.pause = FALSE]
  <2>1. opRow' = [opRow EXCEPT ![o] = r]
    BY <1>1 DEF ResumeRow, OpInv, QueueType, OpRow
  <2>2. /\ r \in OpRow /\ r.state = "queued" /\ r.attempt = opRow[o].attempt
        /\ r.lease = opRow[o].lease
    BY DEF OpInv, QueueType, OpRow, OpStates
  <2> HIDE DEF r
  <2> QED
    BY <1>1, <2>1, <2>2, WaitingMoves
<1>2. CASE opRow[o].state # "paused"
  <2>1. UNCHANGED opRow
    BY <1>2 DEF ResumeRow
  <2> QED
    BY <2>1, MarksMove DEF OpInv, QueueType
<1> QED
  BY <1>1, <1>2

------------------------------------------------------------------------------
(* Workers.                                                                *)

\* A claim takes a row that is in nobody's hand; the attempts that paused it
\* hold older leases.
LEMMA ClaimPreserves ==
    ASSUME OpInv, NEW s \in Slots, NEW o \in Ops, ClaimNextOp(s, o)
    PROVE  OpInv'
<1> DEFINE n == opRow[o].attempt + 1
           c == [at |-> IF opRow[o].cancel THEN "record" ELSE "copy", op |-> o, lease |-> n,
                 outcome |-> IF opRow[o].cancel THEN "cancelled" ELSE "none"]
<1>1. /\ jobs = "up" /\ ~Busy(s) /\ opRow[o].state \in {"queued", "retrying"}
      /\ worker' = [worker EXCEPT ![s] = c]
      /\ UNCHANGED <<jobs, copied, dropped>>
  BY DEF ClaimNextOp, dispatchJobs, HasRunnableOp
<1>2. opRow[o].attempt \in Nat /\ n \in Nat /\ n # 0
  BY DEF OpInv, QueueType, OpRow
<1>3. opRow' = [opRow EXCEPT ![o].state = "running", ![o].attempt = n, ![o].lease = n,
                             ![o].expired = FALSE, ![o].pause = FALSE]
  BY DEF ClaimNextOp
<1>4. /\ c \in Claim /\ c.op = o /\ c.lease = n /\ c.at \in {"copy", "record"}
      /\ c.at = "record" => c.outcome = "cancelled"
      /\ c.outcome # "done"
  BY <1>2 DEF Claim
<1> HIDE DEF c
<1>5. /\ opRow'[o].state = "running" /\ opRow'[o].attempt = n /\ opRow'[o].lease = n
      /\ opRow' \in [Ops -> OpRow] /\ \A p \in Ops : p # o => opRow'[p] = opRow[p]
  <2> HIDE DEF n
  <2> DEFINE r == [state |-> "running", attempt |-> n, lease |-> n, expired |-> FALSE,
                   cancel |-> opRow[o].cancel, pause |-> FALSE, over |-> opRow[o].over]
  <2>1. opRow[o] \in OpRow /\ opRow \in [Ops -> OpRow]
    BY DEF OpInv, QueueType
  <2>2. r \in OpRow
    BY <1>2, <2>1 DEF OpRow, OpStates
  <2>3. opRow'[o] = r /\ \A p \in Ops : p # o => opRow'[p] = opRow[p]
    BY <1>3, <2>1 DEF OpRow
  <2>4. opRow' = [opRow EXCEPT ![o] = r]
    BY <1>3, <2>1, <2>3
  <2> QED
    BY <2>1, <2>2, <2>3, <2>4
<1>6. /\ \A t \in Slots : InHand(t) => worker[t].op # o
      /\ o \notin copied \ dropped
  BY <1>1, WaitingFacts DEF OpInv
<1>7. /\ worker'[s] = c /\ \A t \in Slots : t # s => worker'[t] = worker[t]
      /\ c # Free
  BY <1>1, <1>4 DEF OpInv, QueueType, Claim, Free
<1>8. QueueType'
  BY <1>1, <1>4, <1>5 DEF OpInv, QueueType
<1>9. ClaimsInv'
  <2>1. ASSUME NEW t \in Slots, t # s, Busy(t)
        PROVE  /\ opRow'[worker[t].op].state # "absent"
               /\ worker[t].lease \in 1 .. opRow'[worker[t].op].attempt
               /\ worker[t].at = "pause" => opRow'[worker[t].op].lease # worker[t].lease
               /\ InHand(t) => \/ /\ opRow'[worker[t].op].lease = worker[t].lease
                                  /\ opRow'[worker[t].op].state = "running"
                               \/ opRow'[worker[t].op].state = "interrupted"
    <3>1. /\ worker[t].op \in Ops /\ worker[t].lease \in 1 .. opRow[worker[t].op].attempt
          /\ opRow[worker[t].op].state # "absent"
          /\ worker[t].at = "pause" => opRow[worker[t].op].lease # worker[t].lease
          /\ InHand(t) => Holds(t) \/ opRow[worker[t].op].state = "interrupted"
      BY <2>1, SlotFacts DEF OpInv, ClaimsInv
    <3>2. CASE worker[t].op = o
      BY <1>2, <1>5, <1>6, <3>1, <3>2
    <3>3. CASE worker[t].op # o
      BY <1>5, <3>1, <3>3 DEF Holds
    <3> QED
      BY <3>2, <3>3
  <2>2. /\ opRow'[c.op].state = "running" /\ c.lease \in 1 .. opRow'[c.op].attempt
        /\ opRow'[c.op].lease = c.lease
    BY <1>2, <1>4, <1>5
  <2> HIDE DEF n
  <2> QED
    BY <1>1, <1>4, <1>7, <2>1, <2>2 DEF OpInv, ClaimsInv, Busy, Holds
<1>10. OneHandInv'
  BY <1>1, <1>4, <1>6, <1>7 DEF OpInv, OneHandInv
<1>11. PublishedInv'
  <2> SUFFICES ASSUME NEW p \in Ops, p \in copied \ dropped
               PROVE  \/ opRow'[p].state \in {"done", "interrupted"}
                      \/ \E t \in Slots : /\ worker'[t].at = "record" /\ worker'[t].op = p
                                          /\ worker'[t].outcome = "done" /\ Holds(t)'
    BY <1>1 DEF PublishedInv
  <2>1. p # o /\ opRow'[p] = opRow[p]
    BY <1>5, <1>6
  <2>2. CASE opRow[p].state \in {"done", "interrupted"}
    BY <2>1, <2>2
  <2>3. ASSUME NEW t \in Slots, worker[t].at = "record", worker[t].op = p,
               worker[t].outcome = "done", Holds(t)
        PROVE  t # s /\ Holds(t)'
    <3>1. t # s
      BY <1>1, <2>3, SlotFacts DEF OpInv
    <3> QED
      BY <1>7, <2>1, <2>3, <3>1 DEF Holds
  <2> QED
    BY <1>7, <2>2, <2>3 DEF OpInv, PublishedInv
<1>12. HonestOutcome'
  BY <1>1, <1>5 DEF OpInv, HonestOutcome
<1>13. RunningIsOwned'
  <2> HIDE DEF n
  <2> QED
    BY <1>1, <1>4, <1>5, <1>7 DEF OpInv, RunningIsOwned, Busy
<1> QED
  BY <1>8, <1>9, <1>10, <1>11, <1>12, <1>13 DEF OpInv

\* A walk that ends has an outcome to record; a tree is published under the
\* lease, or under a row the stop has interrupted.
LEMMA BecomesPreserves ==
    ASSUME OpInv, NEW s \in Slots, worker[s].at = "copy",
           NEW outcome \in {"pause", "cancelled", "interrupted", "done", "failed", "retry"},
           Becomes(s, outcome),
           copied' = IF outcome = "done" THEN copied \cup {worker[s].op} ELSE copied,
           UNCHANGED <<opRow, jobs, dropped>>
    PROVE  OpInv'
<1> DEFINE w == [worker[s] EXCEPT !.at = "record", !.outcome = outcome]
<1>1. /\ Busy(s) /\ worker[s] \in Claim /\ worker[s].op \in Ops
      /\ \/ /\ opRow[worker[s].op].state = "running"
            /\ opRow[worker[s].op].lease = worker[s].lease
         \/ opRow[worker[s].op].state = "interrupted"
  BY HandFacts DEF OpInv
<1>2. worker' = [worker EXCEPT ![s] = w]
  BY <1>1 DEF Becomes, OpInv, QueueType, Claim
<1>3. /\ w \in Claim /\ w.at = "record" /\ w.outcome = outcome /\ w.op = worker[s].op
      /\ w.lease = worker[s].lease /\ w # Free
  BY <1>1 DEF Claim, Free
<1> HIDE DEF w
<1>4. worker'[s] = w /\ \A t \in Slots : t # s => worker'[t] = worker[t]
  BY <1>2 DEF OpInv, QueueType
<1>5. copied \subseteq copied' /\ \A o \in copied' : o \in copied \/ (o = w.op /\ outcome = "done")
  BY <1>3
<1>6. QueueType'
  BY <1>2, <1>3 DEF OpInv, QueueType
<1>7. ClaimsInv'
  <2>1. ASSUME NEW t \in Slots, t # s, Busy(t)'
        PROVE  Busy(t) /\ worker'[t] = worker[t] /\ (Holds(t)' <=> Holds(t))
    BY <1>4, <2>1 DEF Busy, Holds
  <2>2. Busy(s) /\ w.op \in Ops /\ (outcome = "done" => w.op \in copied')
    BY <1>1, <1>3
  <2> QED
    BY <1>1, <1>3, <1>4, <1>5, <2>1, <2>2 DEF OpInv, ClaimsInv, Holds
<1>8. OneHandInv'
  BY <1>1, <1>3, <1>4 DEF OpInv, OneHandInv, Busy
<1>9. PublishedInv'
  <2> SUFFICES ASSUME NEW o \in Ops, o \in copied' \ dropped
               PROVE  \/ opRow[o].state \in {"done", "interrupted"}
                      \/ \E t \in Slots : /\ worker'[t].at = "record" /\ worker'[t].op = o
                                          /\ worker'[t].outcome = "done" /\ Holds(t)'
    BY DEF PublishedInv
  <2>1. CASE o \in copied
    <3>1. \A t \in Slots : worker[t].at = "record" => t # s /\ worker'[t] = worker[t]
      BY <1>4
    <3> QED
      BY <2>1, <3>1 DEF OpInv, PublishedInv, Holds
  <2>2. CASE o = w.op /\ outcome = "done"
    BY <1>1, <1>3, <1>4, <2>2 DEF Holds
  <2> QED
    BY <1>5, <2>1, <2>2
<1>10. HonestOutcome'
  BY <1>1, <1>3, <1>5 DEF OpInv, HonestOutcome
<1>11. RunningIsOwned'
  BY <1>3, <1>4 DEF OpInv, RunningIsOwned, Busy
<1> QED
  BY <1>6, <1>7, <1>8, <1>9, <1>10, <1>11 DEF OpInv

\* The gate ends a walk without publishing.
LEMMA GatePreserves ==
    ASSUME OpInv, NEW s \in Slots, leaseCancelGate(s)
    PROVE  OpInv'
<1>1. PICK outcome \in {"pause", "cancelled", "interrupted"} : Becomes(s, outcome)
  BY DEF leaseCancelGate
<1> QED
  BY <1>1, BecomesPreserves DEF leaseCancelGate

\* The copy ends one of three ways.
LEMMA ExecutePreserves ==
    ASSUME OpInv, NEW s \in Slots, executeCopyClaim(s)
    PROVE  OpInv'
<1>1. CASE copied' = copied \cup {worker[s].op} /\ Becomes(s, "done")
  BY <1>1, BecomesPreserves DEF executeCopyClaim
<1>2. CASE Becomes(s, "failed") /\ UNCHANGED copied
  BY <1>2, BecomesPreserves DEF executeCopyClaim
<1>3. CASE Becomes(s, "retry") /\ UNCHANGED copied
  BY <1>3, BecomesPreserves DEF executeCopyClaim
<1> QED
  BY <1>1, <1>2, <1>3 DEF executeCopyClaim

\* A worker that lost its lease drops what it had.
LEMMA LeaseLostPreserves ==
    ASSUME OpInv, NEW s \in Slots, leaseLost(s)
    PROVE  OpInv'
<1>1. /\ worker' = [worker EXCEPT ![s] = Free] /\ dropped' = dropped \cup {worker[s].op}
      /\ UNCHANGED <<opRow, jobs, copied>> /\ InHand(s)
  BY DEF leaseLost
<1>2. worker'[s] = Free /\ \A t \in Slots : t # s => worker'[t] = worker[t]
  BY <1>1 DEF OpInv, QueueType
<1>3. worker'[s].at = "free"
  BY <1>2 DEF Free
<1>4. QueueType'
  BY <1>1 DEF OpInv, QueueType
<1>5. ClaimsInv'
  BY <1>1, <1>2 DEF OpInv, ClaimsInv, Busy, Holds
<1>6. OneHandInv'
  BY <1>1, <1>2, <1>3 DEF OpInv, OneHandInv
<1>7. PublishedInv'
  BY <1>1, <1>2 DEF OpInv, PublishedInv, Holds
<1>8. HonestOutcome'
  BY <1>1 DEF OpInv, HonestOutcome
<1>9. RunningIsOwned'
  BY <1>1, <1>2 DEF OpInv, RunningIsOwned, Busy
<1> QED
  BY <1>4, <1>5, <1>6, <1>7, <1>8, <1>9 DEF OpInv

\* The lease is what an outcome is written under: the row takes the state, the
\* slot lets go or keeps only its pause.
LEMMA OutcomeWritten ==
    ASSUME OpInv, NEW s \in Slots, worker[s].at = "record",
           NEW state \in {"done", "failed", "cancelled", "interrupted", "retrying"},
           WithLease(s, state),
           state = "done" <=> worker[s].outcome = "done",
           \/ worker' = [worker EXCEPT ![s] = Free]
           \/ Holds(s) /\ worker' = [worker EXCEPT ![s] = [worker[s] EXCEPT !.at = "pause"]],
           UNCHANGED <<jobs, copied, dropped>>
    PROVE  OpInv'
<1> DEFINE o == worker[s].op
<1>1. /\ Busy(s) /\ worker[s] \in Claim /\ o \in Ops /\ worker[s].lease \in Nat
      /\ worker[s].lease # 0 /\ InHand(s)
      /\ Holds(s) \/ opRow[o].state = "interrupted"
  BY HandFacts DEF OpInv, Holds
<1>2. /\ \A t \in Slots : t # s => worker'[t] = worker[t]
      /\ worker' \in [Slots -> Claim \cup {Free}]
      /\ worker'[s].at \in {"free", "pause"}
      /\ Busy(s)' => Holds(s) /\ worker'[s].op = o /\ worker'[s].lease = worker[s].lease
                     /\ worker'[s].at = "pause"
  BY <1>1 DEF OpInv, QueueType, Claim, Free, Busy
<1>3. \A t \in Slots : InHand(t) /\ worker[t].op = o => t = s
  BY <1>1 DEF OpInv, OneHandInv
<1>4. OneHandInv'
  BY <1>1, <1>2 DEF OpInv, OneHandInv, Busy
<1>5. CASE ~Holds(s)
  <2>1. UNCHANGED opRow /\ ~Busy(s)'
    BY <1>2, <1>5 DEF WithLease
  <2>2. \A t \in Slots : Busy(t)' => Busy(t) /\ t # s /\ worker'[t] = worker[t]
    BY <1>2, <2>1 DEF Busy
  <2>3. QueueType'
    BY <1>2, <2>1 DEF OpInv, QueueType
  <2>4. ClaimsInv'
    BY <2>1, <2>2 DEF OpInv, ClaimsInv, Holds
  <2>5. PublishedInv'
    BY <1>2, <1>5, <2>1 DEF OpInv, PublishedInv, Holds
  <2>6. HonestOutcome'
    BY <2>1 DEF OpInv, HonestOutcome
  <2>7. RunningIsOwned'
    <3> SUFFICES ASSUME NEW p \in Ops \ dropped, opRow[p].state = "running"
                 PROVE  \E t \in Slots : /\ Busy(t)' /\ worker'[t].op = p
                                         /\ worker'[t].lease = opRow[p].lease
      BY <2>1 DEF RunningIsOwned
    <3>1. PICK t \in Slots : Busy(t) /\ worker[t].op = p /\ worker[t].lease = opRow[p].lease
      BY DEF OpInv, RunningIsOwned
    <3>2. t # s
      BY <1>5, <3>1 DEF Holds
    <3> QED
      BY <1>2, <3>1, <3>2 DEF Busy
  <2> QED
    BY <1>4, <2>3, <2>4, <2>5, <2>6, <2>7 DEF OpInv
<1>6. CASE Holds(s)
  <2>1. /\ opRow' = [opRow EXCEPT ![o].state = state, ![o].lease = NoLease]
        /\ opRow[o].state = "running" /\ opRow[o].lease = worker[s].lease
    BY <1>6 DEF WithLease, Holds
  <2> HIDE DEF o
  <2>2. /\ opRow'[o].state = state /\ opRow'[o].lease = 0 /\ opRow'[o].attempt = opRow[o].attempt
        /\ opRow' \in [Ops -> OpRow] /\ \A p \in Ops : p # o => opRow'[p] = opRow[p]
    BY <1>1, <2>1 DEF OpInv, QueueType, OpRow, OpStates, NoLease
  <2>3. QueueType'
    BY <1>2, <2>2 DEF OpInv, QueueType
  <2>4. ClaimsInv'
    <3>1. ASSUME NEW t \in Slots, Busy(t)'
          PROVE  /\ Busy(t) /\ worker'[t].op = worker[t].op /\ worker[t].op \in Ops
                 /\ worker'[t].lease = worker[t].lease
                 /\ t # s => worker'[t] = worker[t]
                 /\ worker'[t].lease \in Nat /\ worker'[t].lease # 0
      <4>1. Busy(t) /\ worker'[t].op = worker[t].op /\ worker'[t].lease = worker[t].lease
        BY <1>1, <1>2, <3>1 DEF Busy, o
      <4>2. /\ worker[t].op \in Ops /\ worker[t].lease \in Nat
            /\ opRow[worker[t].op].attempt \in Nat
        BY <4>1, SlotFacts DEF OpInv, QueueType, OpRow
      <4> QED
        BY <1>2, <4>1, <4>2 DEF OpInv, ClaimsInv
    <3>2. ASSUME NEW t \in Slots, Busy(t)', worker[t].op = o
          PROVE  worker'[t].at = "pause"
      <4>1. CASE t = s
        BY <1>2, <3>2, <4>1
      <4>2. CASE t # s
        <5>1. worker'[t] \in Claim /\ worker'[t] = worker[t]
          BY <1>2, <3>2, <4>2 DEF Busy
        <5> QED
          BY <1>3, <3>2, <4>2, <5>1 DEF Claim, o
      <4> QED
        BY <4>1, <4>2
    <3> SUFFICES ASSUME NEW t \in Slots, Busy(t)'
                 PROVE  /\ opRow'[worker'[t].op].state # "absent"
                        /\ worker'[t].lease \in 1 .. opRow'[worker'[t].op].attempt
                        /\ worker'[t].at = "pause" => opRow'[worker'[t].op].lease # worker'[t].lease
                        /\ InHand(t)' => Holds(t)' \/ opRow'[worker'[t].op].state = "interrupted"
                        /\ worker'[t].at = "record" => worker'[t].outcome # "none"
                        /\ worker'[t].at = "record" /\ worker'[t].outcome = "done"
                              => worker'[t].op \in copied
      BY DEF ClaimsInv
    <3>3. CASE worker[t].op = o
      BY <2>2, <3>1, <3>2, <3>3 DEF OpInv, ClaimsInv
    <3>4. CASE worker[t].op # o
      <4>1. t # s
        BY <3>4 DEF o
      <4> QED
        BY <2>2, <3>1, <3>4, <4>1 DEF OpInv, ClaimsInv, Holds
    <3> QED
      BY <3>3, <3>4
  <2>5. o \in copied \ dropped => worker[s].outcome = "done"
    <3> SUFFICES ASSUME o \in copied \ dropped PROVE worker[s].outcome = "done"
      OBVIOUS
    <3>1. PICK t \in Slots : worker[t].at = "record" /\ worker[t].op = o /\ worker[t].outcome = "done"
      BY <1>1, <2>1 DEF OpInv, PublishedInv
    <3> QED
      BY <1>3, <3>1
  <2>6. PublishedInv'
    <3> SUFFICES ASSUME NEW p \in Ops, p \in copied \ dropped
                 PROVE  \/ opRow'[p].state \in {"done", "interrupted"}
                        \/ \E t \in Slots : /\ worker'[t].at = "record" /\ worker'[t].op = p
                                            /\ worker'[t].outcome = "done" /\ Holds(t)'
      BY DEF PublishedInv
    <3>1. CASE p = o
      BY <2>2, <2>5, <3>1
    <3>2. CASE p # o
      <4>1. \A t \in Slots : worker[t].op = p => t # s /\ worker'[t] = worker[t]
        BY <1>2, <3>2 DEF o
      <4> QED
        BY <2>2, <3>2, <4>1 DEF OpInv, PublishedInv, Holds
    <3> QED
      BY <3>1, <3>2
  <2>7. worker[s].outcome = "done" => o \in copied
    BY <1>1 DEF OpInv, ClaimsInv, o
  <2>8. HonestOutcome'
    BY <2>2, <2>5, <2>7 DEF OpInv, HonestOutcome
  <2>9. RunningIsOwned'
    <3>1. \A t \in Slots : worker[t].op # o => t # s /\ worker'[t] = worker[t]
      BY <1>2 DEF o
    <3> QED
      BY <2>2, <3>1 DEF OpInv, RunningIsOwned, Busy
  <2> QED
    BY <1>4, <2>3, <2>4, <2>6, <2>8, <2>9 DEF OpInv
<1> QED
  BY <1>5, <1>6

\* The outcome is recorded, put back for another attempt, or overtaken by a stop.
LEMMA CompleteClaimPreserves ==
    ASSUME OpInv, NEW s \in Slots, completeClaim(s)
    PROVE  OpInv'
<1> DEFINE w == worker[s]
           stop == jobs = "stopping" /\ w.outcome \notin {"done", "failed", "retry"}
           again == w.outcome = "pause" \/ (w.outcome = "retry" /\ w.lease < MaxAttempts)
<1>1. /\ w.at = "record" /\ UNCHANGED <<jobs, copied, dropped>>
      /\ IF stop THEN FinishOpLease(s, "interrupted")
         ELSE IF again THEN RetryOpLease(s)
         ELSE FinishOpLease(s, IF w.outcome = "retry" THEN "failed" ELSE w.outcome)
  BY DEF completeClaim
<1>2. w.outcome \in {"pause", "cancelled", "interrupted", "done", "failed", "retry"}
  BY <1>1, HandFacts DEF OpInv, ClaimsInv, Claim
<1>3. CASE stop
  BY <1>1, <1>2, <1>3, OutcomeWritten DEF FinishOpLease
<1>4. CASE ~stop /\ again
  <2>1. RetryOpLease(s) /\ w.outcome # "done"
    BY <1>1, <1>4
  <2>2. \/ worker' = [worker EXCEPT ![s] = Free]
        \/ Holds(s) /\ worker' = [worker EXCEPT ![s] = [worker[s] EXCEPT !.at = "pause"]]
    BY <2>1 DEF RetryOpLease
  <2> QED
    BY <1>1, <2>1, <2>2, OutcomeWritten DEF RetryOpLease
<1>5. CASE ~stop /\ ~again
  <2> DEFINE state == IF w.outcome = "retry" THEN "failed" ELSE w.outcome
  <2>1. FinishOpLease(s, state)
    BY <1>1, <1>5
  <2>2. /\ state \in {"done", "failed", "cancelled", "interrupted"}
        /\ state = "done" <=> w.outcome = "done"
    BY <1>2, <1>5
  <2> HIDE DEF state
  <2> QED
    BY <1>1, <2>1, <2>2, OutcomeWritten DEF FinishOpLease
<1> QED
  BY <1>3, <1>4, <1>5

\* The second half of a pause asks for no lease: it pauses whatever waits.
LEMMA CompletePausePreserves ==
    ASSUME OpInv, NEW s \in Slots, completePause(s)
    PROVE  OpInv'
<1>1. worker[s].op \in Ops
  BY SlotFacts DEF completePause, OpInv
<1>2. SlotsKept
  BY DEF completePause, SlotsKept, OpInv, QueueType
<1> QED
  BY <1>1, <1>2, PauseRowPreserves DEF completePause

------------------------------------------------------------------------------
(* The process.                                                            *)

\* An exit drops every outcome that was not recorded.
LEMMA ExitPreserves ==
    ASSUME OpInv, Exit
    PROVE  OpInv'
<1>1. /\ \A s \in Slots : worker'[s] = Free /\ ~Busy(s)' /\ worker'[s].at = "free"
      /\ \A s \in Slots : Busy(s) => worker[s].op \in dropped'
      /\ dropped \subseteq dropped' /\ UNCHANGED <<opRow, copied>> /\ jobs' = "down"
  BY DEF Exit, Busy, Free
<1>2. QueueType'
  BY <1>1 DEF Exit, OpInv, QueueType
<1>3. ClaimsInv'
  BY <1>1 DEF ClaimsInv
<1>4. OneHandInv'
  BY <1>1 DEF OneHandInv
<1>5. PublishedInv'
  <2>1. \A s \in Slots : worker[s].at = "record" => Busy(s)
    BY SlotFacts DEF OpInv
  <2> QED
    BY <1>1, <2>1 DEF OpInv, PublishedInv
<1>6. HonestOutcome'
  BY <1>1 DEF OpInv, HonestOutcome
<1>7. RunningIsOwned'
  BY <1>1 DEF OpInv, RunningIsOwned
<1> QED
  BY <1>2, <1>3, <1>4, <1>5, <1>6, <1>7 DEF OpInv

\* A start takes back the expired claims: nobody works on them, so every one
\* of them had its outcome dropped.
LEMMA StartPreserves ==
    ASSUME OpInv, StartJobs
    PROVE  OpInv'
<1>1. /\ jobs = "down" /\ jobs' = "up" /\ UNCHANGED <<worker, copied, dropped>>
      /\ \A s \in Slots : worker[s] = Free /\ ~Busy(s) /\ worker[s].at = "free"
  BY DEF StartJobs, OpInv, OneHandInv, Busy, Free
<1>2. /\ opRow' \in [Ops -> OpRow]
      /\ \A o \in Ops : \/ opRow'[o] = opRow[o]
                        \/ opRow[o].state = "running" /\ opRow'[o].state \in {"failed", "retrying"}
  BY DEF StartJobs, RecoverExpiredOps, OpInv, QueueType, OpRow, OpStates, NoLease
<1>3. \A o \in Ops : opRow[o].state = "running" => o \in dropped
  BY <1>1 DEF OpInv, RunningIsOwned
<1>4. QueueType'
  BY <1>1, <1>2 DEF OpInv, QueueType
<1>5. ClaimsInv' /\ OneHandInv'
  BY <1>1 DEF ClaimsInv, OneHandInv, Busy
<1>6. PublishedInv'
  BY <1>1, <1>2, <1>3 DEF OpInv, PublishedInv
<1>7. HonestOutcome'
  BY <1>1, <1>2, <1>3 DEF OpInv, HonestOutcome
<1>8. RunningIsOwned'
  BY <1>1, <1>2, <1>3 DEF RunningIsOwned
<1> QED
  BY <1>4, <1>5, <1>6, <1>7, <1>8 DEF OpInv

\* A new server has no jobs.
LEMMA OpInvInit == OpInit => OpInv
<1> SUFFICES ASSUME OpInit PROVE OpInv
  OBVIOUS
<1>1. /\ opRow \in [Ops -> OpRow] /\ \A o \in Ops : opRow[o].state = "absent"
  BY DEF OpInit, NewRow, NoLease, OpRow, OpStates
<1>2. \A s \in Slots : worker[s] = Free /\ worker[s].at = "free"
  BY DEF OpInit, Free
<1>3. QueueType
  BY <1>1 DEF OpInit, QueueType
<1>4. ClaimsInv /\ OneHandInv
  BY <1>2 DEF ClaimsInv, OneHandInv, Busy
<1> QED
  BY <1>1, <1>3, <1>4 DEF OpInit, OpInv, PublishedInv, HonestOutcome, RunningIsOwned

\* Every step preserves the invariant.
LEMMA OpInvNext == OpInv /\ [OpNext]_opVars => OpInv'
<1> SUFFICES ASSUME OpInv, [OpNext]_opVars PROVE OpInv'
  OBVIOUS
<1>0. UNCHANGED worker => SlotsKept
  BY DEF SlotsKept, OpInv, QueueType
<1>1. ASSUME NEW o \in Ops, NEW over \in BOOLEAN, StartCopy(o, over) PROVE OpInv'
  BY <1>1, StartCopyPreserves
<1>2. ASSUME NEW o \in Ops, StartCopyReturns(o) PROVE OpInv'
  BY <1>2, StartCopyReturnsPreserves
<1>3. ASSUME NEW o \in Ops, CancelOperation(o) PROVE OpInv'
  BY <1>3, CancelPreserves
<1>4. ASSUME NEW o \in Ops, PauseOp(o) PROVE OpInv'
  BY <1>0, <1>4, PauseRowPreserves DEF PauseOp
<1>5. ASSUME NEW o \in Ops, ResumeOp(o) PROVE OpInv'
  BY <1>0, <1>5, ResumeRowPreserves DEF ResumeOp
<1>6. ASSUME NEW o \in Ops, Retry(o) PROVE OpInv'
  BY <1>0, <1>6, ResumeRowPreserves DEF Retry
<1>7. ASSUME NEW o \in Ops, LeaseExpires(o) PROVE OpInv'
  <2>1. opRow' = [opRow EXCEPT ![o] = [opRow[o] EXCEPT !.expired = TRUE]]
    BY <1>7 DEF LeaseExpires, OpInv, QueueType, OpRow
  <2>2. /\ opRow' \in [Ops -> OpRow]
        /\ \A p \in Ops : /\ opRow'[p].state = opRow[p].state
                          /\ opRow'[p].attempt = opRow[p].attempt
                          /\ opRow'[p].lease = opRow[p].lease
    BY <2>1 DEF OpInv, QueueType, OpRow
  <2> QED
    BY <1>0, <1>7, <2>2, MarksMove DEF LeaseExpires
<1>8. ASSUME NEW o \in Ops, NEW s \in Slots, ClaimNextOp(s, o) PROVE OpInv'
  BY <1>8, ClaimPreserves
<1>9. ASSUME NEW s \in Slots, leaseCancelGate(s) PROVE OpInv'
  BY <1>9, GatePreserves
<1>10. ASSUME NEW s \in Slots, executeCopyClaim(s) PROVE OpInv'
  BY <1>10, ExecutePreserves
<1>11. ASSUME NEW s \in Slots, leaseLost(s) PROVE OpInv'
  BY <1>11, LeaseLostPreserves
<1>12. ASSUME NEW s \in Slots, completeClaim(s) PROVE OpInv'
  BY <1>12, CompleteClaimPreserves
<1>13. ASSUME NEW s \in Slots, completePause(s) PROVE OpInv'
  BY <1>13, CompletePausePreserves
<1>14. CASE StopJobs
  BY <1>0, <1>14, MarksMove DEF StopJobs, OpInv, QueueType
<1>15. CASE Exit
  BY <1>15, ExitPreserves
<1>16. CASE StartJobs
  BY <1>16, StartPreserves
<1>17. CASE UNCHANGED opVars
  BY <1>0, <1>17, MarksMove DEF opVars, OpInv, QueueType
<1> QED
  BY <1>1, <1>2, <1>3, <1>4, <1>5, <1>6, <1>7, <1>8, <1>9, <1>10, <1>11, <1>12, <1>13,
     <1>14, <1>15, <1>16, <1>17 DEF OpNext

------------------------------------------------------------------------------
(* Theorems.                                                               *)

\* The queue's invariant holds in every reachable state.
THEOREM QueueInvariant == OpSpec => []OpInv
BY OpInvInit, OpInvNext, PTL DEF OpSpec

\* A finished job says what happened to its tree, whichever way requests, the
\* copy's end and a stop fall (completeClaim, leaseCancelGate).
THEOREM OutcomesHonest == OpSpec => []HonestOutcome
<1>1. OpInv => HonestOutcome
  BY DEF OpInv
<1> QED
  BY <1>1, QueueInvariant, PTL

\* No mix of requests leaves a row running with no worker behind its lease,
\* unless an outcome was dropped (ClaimNextOp, FinishOpLease, InterruptOp).
THEOREM RunningAreOwned == OpSpec => []RunningIsOwned
<1>1. OpInv => RunningIsOwned
  BY DEF OpInv
<1> QED
  BY <1>1, QueueInvariant, PTL

\* A finished job stays as it ended, but for a StartCopy that races a stop.
THEOREM FinishedStaysFinished == OpSpec => FinishedStays
<1> DEFINE Stays == \A o \in Ops : Terminal(opRow[o].state) =>
                      \/ opRow'[o].state = opRow[o].state
                      \/ o \in creating /\ opRow'[o].state = "interrupted"
<1>1. OpInv /\ [OpNext]_opVars => [Stays]_opVars
  <2> SUFFICES ASSUME OpInv, OpNext, NEW o \in Ops, Terminal(opRow[o].state)
               PROVE  \/ opRow'[o].state = opRow[o].state
                      \/ o \in creating /\ opRow'[o].state = "interrupted"
    OBVIOUS
  <2> USE DEF Terminal
  <2>0. opRow \in [Ops -> OpRow]
    BY DEF OpInv, QueueType
  <2>1. ASSUME NEW p \in Ops, NEW over \in BOOLEAN, StartCopy(p, over)
        PROVE  opRow'[o] = opRow[o]
    BY <2>0, <2>1 DEF StartCopy, CreateQueuedOp
  <2>2. ASSUME NEW p \in Ops, StartCopyReturns(p)
        PROVE  \/ opRow'[o] = opRow[o]
               \/ o \in creating /\ opRow'[o].state = "interrupted"
    BY <2>0, <2>2 DEF StartCopyReturns, InterruptOp, OpRow
  <2>3. ASSUME NEW p \in Ops, CancelOperation(p) PROVE opRow'[o].state = opRow[o].state
    BY <2>0, <2>3 DEF CancelOperation, OpRow
  <2>4. ASSUME NEW p \in Ops, PauseRow(p) PROVE opRow'[o] = opRow[o]
    BY <2>0, <2>4 DEF PauseRow
  <2>5. ASSUME NEW p \in Ops, ResumeRow(p) PROVE opRow'[o] = opRow[o]
    BY <2>0, <2>5 DEF ResumeRow
  <2>6. ASSUME NEW p \in Ops, LeaseExpires(p) PROVE opRow'[o].state = opRow[o].state
    BY <2>0, <2>6 DEF LeaseExpires, OpRow
  <2>7. ASSUME NEW p \in Ops, NEW s \in Slots, ClaimNextOp(s, p) PROVE opRow'[o] = opRow[o]
    BY <2>0, <2>7 DEF ClaimNextOp, dispatchJobs, HasRunnableOp
  <2>8. ASSUME NEW s \in Slots, NEW state, WithLease(s, state) PROVE opRow'[o] = opRow[o]
    BY <2>0, <2>8 DEF WithLease, Holds
  <2>9. ASSUME NEW s \in Slots, completeClaim(s) PROVE opRow'[o] = opRow[o]
    BY <2>8, <2>9 DEF completeClaim, FinishOpLease, RetryOpLease
  <2>10. ASSUME NEW s \in Slots, completePause(s) PROVE opRow'[o] = opRow[o]
    <3>1. worker[s].op \in Ops
      BY <2>10, SlotFacts DEF completePause, OpInv
    <3> QED
      BY <2>4, <2>10, <3>1 DEF completePause
  <2>11. CASE StartJobs
    BY <2>0, <2>11 DEF StartJobs, RecoverExpiredOps
  <2> QED
    BY <2>1, <2>2, <2>3, <2>4, <2>5, <2>6, <2>7, <2>9, <2>10, <2>11
    DEF OpNext, PauseOp, ResumeOp, Retry, leaseCancelGate, executeCopyClaim, leaseLost,
        StopJobs, Exit
<1> QED
  BY <1>1, QueueInvariant, PTL DEF OpSpec, FinishedStays

------------------------------------------------------------------------------
(***************************************************************************)
(* Copies and moves of trees: no failed rename, rollback, racing creation  *)
(* or crash loses a file of the source, and a plain error leaves nothing   *)
(* hidden, for trees of any files.  The argument follows the one name that *)
(* holds the source's files from step to step, and the steps at which a    *)
(* backup or a quarantined tree may exist.                                 *)
(***************************************************************************)

------------------------------------------------------------------------------
(* The inductive invariant.                                                *)

TransferSteps == {"idle", "stage", "copy", "cleanup", "replace", "inspect", "restore", "publish",
                  "discard", "quarantine", "return", "reinstate", "unwind", "source", "ended"}
Transfers == [at : TransferSteps, move : BOOLEAN, over : BOOLEAN, to : {"dst", "sibling"},
              from : {"stage", "src"}, todo : SUBSET Files, had : SUBSET Files,
              say : {"error", "partial"}]
Trees == [of : {"none", "new", "old", "other"}, files : SUBSET Files, control : BOOLEAN]

TransferTypes ==
    /\ tree \in [Names -> Trees] /\ tt \in Transfers
    /\ ttAnswer \in {"none", "done", "refused", "error", "partial", "duplicate", "lost"}
    /\ tt.at # "ended" => ttAnswer = "none"

\* Only a replacement isolates the old destination, and only a stage is copied into.
OptionsInv ==
    /\ tt.over => tt.to = "dst"
    /\ tt.at \in {"inspect", "restore", "discard", "quarantine", "return", "reinstate", "unwind"}
         => tt.over
    /\ tt.at \in {"idle", "stage", "copy", "cleanup"} => tt.from = "stage"

\* The caller has been or will be told that the transfer is partial, or is not
\* told anything any more.
ToldPartial == \/ tt.at = "cleanup" /\ tt.say = "partial"
               \/ tt.at = "ended" /\ ttAnswer \in {"partial", "lost"}

\* Where a backup and a quarantined tree may be.
HiddenInv ==
    /\ Exists("backup") =>
         \/ tt.at \in {"inspect", "restore", "publish", "discard", "quarantine", "return",
                       "reinstate"}
         \/ ToldPartial
    /\ Exists("backup") /\ tt.at = "publish" => tt.over
    /\ Exists("failed") => tt.at \in {"return", "reinstate", "unwind"} \/ ToldPartial

\* Where the source's files are.
HoldsSource(n) == tree[n].of = "new" /\ tt.had \subseteq tree[n].files
PlaceInv ==
    /\ tt.from = "stage" /\ tt.at # "ended" => HoldsSource("src")
    /\ tt.from = "src" /\ tt.at \in {"replace", "inspect", "restore", "publish"}
         => HoldsSource("src")
    /\ tt.at = "copy" => /\ tree["stage"].of = "new"
                         /\ tt.had \subseteq tree["stage"].files \cup tt.todo
    /\ tt.from = "stage" /\ tt.at \in {"replace", "inspect", "publish"} => HoldsSource("stage")
    /\ tt.at \in {"discard", "quarantine", "source"} => HoldsSource(tt.to)
    /\ tt.from = "src" /\ tt.at \in {"return", "reinstate", "unwind"} => HoldsSource("failed")

TtInv == TransferTypes /\ OptionsInv /\ HiddenInv /\ PlaceInv /\ SourceKept /\ PlainErrorRestores

------------------------------------------------------------------------------
(* Steps of the transfer and renames.                                      *)

SameOptions == /\ tt'.move = tt.move /\ tt'.over = tt.over /\ tt'.to = tt.to
               /\ tt'.from = tt.from /\ tt'.had = tt.had

\* A step changes the place alone; giving up changes it to the cleanup of a
\* stage or to the end.
LEMMA StepFacts ==
    ASSUME tt \in Transfers, NEW s \in TransferSteps, Step(s)
    PROVE  /\ tt' \in Transfers /\ SameOptions /\ tt'.at = s
           /\ tt'.say = tt.say /\ tt'.todo = tt.todo
BY DEF Step, Transfers, SameOptions

LEMMA GiveUpFacts ==
    ASSUME tt \in Transfers, NEW a \in {"error", "partial"}, GiveUp(a)
    PROVE  /\ tt' \in Transfers /\ SameOptions
           /\ tt.from = "stage" => tt'.at = "cleanup" /\ tt'.say = a /\ ttAnswer' = ttAnswer
           /\ tt.from = "src" => tt'.at = "ended" /\ ttAnswer' = a
<1>1. CASE tt.from = "stage"
  BY <1>1 DEF GiveUp, Transfers, SameOptions, TransferSteps
<1>2. CASE tt.from # "stage"
  <2>1. Step("ended") /\ ttAnswer' = a
    BY <1>2 DEF GiveUp, Answer
  <2>2. "ended" \in TransferSteps
    BY DEF TransferSteps
  <2> QED
    BY <1>2, <2>1, <2>2, StepFacts
<1> QED
  BY <1>1, <1>2

LEMMA NothingIsATree == Nothing \in Trees /\ Nothing.of = "none"
BY DEF Nothing, Trees

\* A rename moves one tree and leaves the others.
LEMMA RenameFacts ==
    ASSUME tree \in [Names -> Trees], NEW a \in Names, NEW b \in Names, a # b, Rename(a, b)
    PROVE  /\ tree' \in [Names -> Trees] /\ tree'[a] = Nothing /\ tree'[b] = tree[a]
           /\ \A n \in Names \ {a, b} : tree'[n] = tree[n]
BY NothingIsATree DEF Rename

------------------------------------------------------------------------------
(* The decision and the copy.                                              *)

LEMMA MoveKeepsTrees ==
    ASSUME TtInv, NEW policy \in Policies, NEW move \in BOOLEAN, NEW across \in BOOLEAN,
           Move(policy, move, across)
    PROVE  TtInv'
<1> DEFINE c == applyConflict(policy)
           staged == ~move \/ across
<1>1. /\ c.to \in {"dst", "sibling"} /\ c.over \in BOOLEAN /\ (c.over => c.to = "dst")
      /\ c.at \in {"go", "done", "refused"}
  BY DEF applyConflict
<1> HIDE DEF c
<1>2. /\ tt' = [tt EXCEPT !.move = move, !.over = c.over, !.to = c.to,
                          !.from = IF staged THEN "stage" ELSE "src",
                          !.at = IF c.at # "go" THEN "ended"
                                 ELSE IF staged THEN "stage" ELSE "replace"]
      /\ ttAnswer' = (IF c.at = "go" THEN "none" ELSE c.at) /\ tt.at = "idle" /\ tree' = tree
  BY DEF Move, c
<1>3. tt \in Transfers
  BY DEF TtInv, TransferTypes
<1>4. /\ tt' \in Transfers /\ tt'.over = c.over /\ tt'.to = c.to /\ tt'.had = tt.had
      /\ c.at = "go" => tt'.at = IF staged THEN "stage" ELSE "replace"
      /\ c.at # "go" => tt'.at = "ended"
      /\ tt'.from = IF staged THEN "stage" ELSE "src"
  BY <1>1, <1>2, <1>3 DEF Transfers, TransferSteps
<1>5. ~Exists("backup") /\ ~Exists("failed") /\ HoldsSource("src")
  BY <1>2 DEF TtInv, HiddenInv, OptionsInv, PlaceInv, ToldPartial
<1>6. ~Exists("backup")' /\ ~Exists("failed")' /\ HoldsSource("src")'
  BY <1>2, <1>4, <1>5 DEF Exists, HoldsSource
<1>7. TransferTypes'
  BY <1>1, <1>2, <1>4 DEF TtInv, TransferTypes
<1>8. OptionsInv'
  BY <1>1, <1>4 DEF OptionsInv
<1>9. HiddenInv' /\ PlaceInv' /\ PlainErrorRestores'
  BY <1>1, <1>4, <1>6, <1>2 DEF HiddenInv, PlaceInv, PlainErrorRestores, HoldsSource
<1>10. SourceKept'
  BY <1>6 DEF SourceKept, HoldsSource, Names
<1> QED
  BY <1>7, <1>8, <1>9, <1>10 DEF TtInv

\* Until its end the source's files are where PlaceInv says.
LEMMA PlaceIsKept ==
    ASSUME TransferTypes', OptionsInv', PlaceInv', tt'.at # "ended"
    PROVE  SourceKept'
<1>1. /\ tt'.at \in TransferSteps /\ tt'.from \in {"stage", "src"}
      /\ tt'.to \in {"dst", "sibling"}
  BY DEF TransferTypes, Transfers
<1>2. \E n \in Names \ {"stage"} : HoldsSource(n)'
  BY <1>1 DEF OptionsInv, PlaceInv, TransferSteps, Names
<1> QED
  BY <1>2 DEF SourceKept, HoldsSource

\* What holds the source's files at the end is one of the names that are kept.
LEMMA EndIsKept ==
    ASSUME NEW n \in Names \ {"stage"}, HoldsSource(n)'
    PROVE  SourceKept'
BY DEF SourceKept, HoldsSource

\* The pieces of the invariant, with the trees' and the transfer's fields.
LEMMA TtInvTypes ==
    ASSUME TtInv
    PROVE  /\ tt \in Transfers /\ tt.at \in TransferSteps /\ tt.from \in {"stage", "src"}
           /\ tt.to \in {"dst", "sibling"} /\ tt.say \in {"error", "partial"}
           /\ tree \in [Names -> Trees]
BY DEF TtInv, TransferTypes, Transfers

\* Refused before the stage exists.
LEMMA RefuseKeeps ==
    ASSUME TtInv, Refuse
    PROVE  TtInv'
<1>1. /\ tt.at = "stage" /\ tree' = tree
      /\ tt' \in Transfers /\ SameOptions /\ tt'.at = "ended" /\ tt'.say = tt.say
      /\ ttAnswer' = "error"
  BY TtInvTypes, StepFacts DEF Refuse, Answer, TransferSteps
<1>2. TransferTypes' /\ OptionsInv' /\ HiddenInv' /\ PlaceInv' /\ PlainErrorRestores'
  BY <1>1, TtInvTypes
  DEF TtInv, TransferTypes, OptionsInv, HiddenInv, ToldPartial,
     PlaceInv, HoldsSource, PlainErrorRestores, Exists, SameOptions
<1>3. SourceKept'
  BY <1>1 DEF TtInv, SourceKept, SameOptions
<1> QED
  BY <1>2, <1>3 DEF TtInv

\* Every file of the source is to be copied, in an empty stage.
LEMMA CopyStartsKeeps ==
    ASSUME TtInv, copyTreeStaged
    PROVE  TtInv'
<1>1. /\ tt.at = "stage" /\ tt' \in Transfers /\ SameOptions /\ tt'.at = "copy"
      /\ tt'.todo = tree["src"].files /\ ttAnswer' = ttAnswer
  <2>1. tree["src"].files \in SUBSET Files
    BY TtInvTypes DEF Trees, Names
  <2> QED
    BY <2>1, TtInvTypes DEF copyTreeStaged, Transfers, TransferSteps, SameOptions
<1>2. /\ tree' \in [Names -> Trees] /\ tree'["stage"].of = "new"
      /\ \A n \in Names \ {"stage"} : tree'[n] = tree[n]
  <2>1. Tree("new", {}) \in Trees /\ Tree("new", {}).of = "new"
    BY DEF Tree, Trees
  <2> QED
    BY <2>1, TtInvTypes DEF copyTreeStaged, Names
<1>3. TransferTypes' /\ OptionsInv' /\ HiddenInv' /\ PlaceInv' /\ PlainErrorRestores'
  BY <1>1, <1>2, TtInvTypes
  DEF TtInv, TransferTypes, OptionsInv, HiddenInv, ToldPartial,
     PlaceInv, HoldsSource, PlainErrorRestores, Exists, SameOptions, Names
<1>4. SourceKept'
  BY <1>1, <1>2, <1>3, PlaceIsKept
<1> QED
  BY <1>3, <1>4 DEF TtInv

LEMMA CopyOneKeeps ==
    ASSUME TtInv, NEW f \in Files, copyIntoStage(f)
    PROVE  TtInv'
<1>1. /\ tt.at = "copy" /\ tt' \in Transfers /\ SameOptions /\ tt'.at = "copy"
      /\ tt'.todo = tt.todo \ {f} /\ ttAnswer' = ttAnswer
  BY TtInvTypes DEF copyIntoStage, Transfers, SameOptions
<1>2. /\ tree' \in [Names -> Trees] /\ tree'["stage"].of = tree["stage"].of
      /\ tree'["stage"].files = tree["stage"].files \cup {f}
      /\ \A n \in Names \ {"stage"} : tree'[n] = tree[n]
  BY TtInvTypes DEF copyIntoStage, Names, Trees
<1>3. TransferTypes' /\ OptionsInv' /\ HiddenInv' /\ PlaceInv' /\ PlainErrorRestores'
  BY <1>1, <1>2, TtInvTypes
  DEF TtInv, TransferTypes, OptionsInv, HiddenInv, ToldPartial,
     PlaceInv, HoldsSource, PlainErrorRestores, Exists, SameOptions, Names
<1>4. SourceKept'
  BY <1>1, <1>2, <1>3, PlaceIsKept
<1> QED
  BY <1>3, <1>4 DEF TtInv

LEMMA StagedKeeps ==
    ASSUME TtInv, Staged
    PROVE  TtInv'
<1>1. /\ tt.at = "copy" /\ tree' = tree
      /\ tt' \in Transfers /\ SameOptions /\ tt'.at = "replace" /\ tt'.say = tt.say
      /\ tt.todo = {} /\ ttAnswer' = ttAnswer
  BY TtInvTypes, StepFacts DEF Staged, TransferSteps
<1>2. TransferTypes' /\ OptionsInv' /\ HiddenInv' /\ PlaceInv' /\ PlainErrorRestores'
  BY <1>1, TtInvTypes
  DEF TtInv, TransferTypes, OptionsInv, HiddenInv, ToldPartial,
     PlaceInv, HoldsSource, PlainErrorRestores, Exists, SameOptions
<1>3. SourceKept'
  BY <1>1, <1>2, PlaceIsKept
<1> QED
  BY <1>2, <1>3 DEF TtInv

LEMMA CopyFailsKeeps ==
    ASSUME TtInv, CopyFails
    PROVE  TtInv'
<1>1. /\ tt.at = "copy" /\ tree' = tree
      /\ tt' \in Transfers /\ SameOptions /\ tt'.at = "cleanup" /\ tt'.say = tt.say
      /\ ttAnswer' = ttAnswer
  BY TtInvTypes, StepFacts DEF CopyFails, TransferSteps
<1>2. TransferTypes' /\ OptionsInv' /\ HiddenInv' /\ PlaceInv' /\ PlainErrorRestores'
  BY <1>1, TtInvTypes
  DEF TtInv, TransferTypes, OptionsInv, HiddenInv, ToldPartial,
     PlaceInv, HoldsSource, PlainErrorRestores, Exists, SameOptions
<1>3. SourceKept'
  BY <1>1, <1>2, PlaceIsKept
<1> QED
  BY <1>2, <1>3 DEF TtInv

\* What the caller is told is what was decided before the stage went.
LEMMA CleanupKeeps ==
    ASSUME TtInv, Cleanup
    PROVE  TtInv'
<1>1. /\ tt.at = "cleanup" /\ tt' \in Transfers /\ SameOptions /\ tt'.at = "ended"
      /\ ttAnswer' = tt.say
  BY TtInvTypes, StepFacts DEF Cleanup, Answer, TransferSteps
<1>2. tree' \in [Names -> Trees] /\ \A n \in Names \ {"stage"} : tree'[n] = tree[n]
  BY TtInvTypes, NothingIsATree DEF Cleanup, Names
<1>3. HoldsSource("src")'
  BY <1>1, <1>2, TtInvTypes DEF TtInv, OptionsInv, PlaceInv, HoldsSource, SameOptions, Names
<1>4. TransferTypes' /\ OptionsInv' /\ HiddenInv' /\ PlaceInv' /\ PlainErrorRestores'
  BY <1>1, <1>2, <1>3, TtInvTypes
  DEF TtInv, TransferTypes, OptionsInv, HiddenInv, ToldPartial,
     PlaceInv, HoldsSource, PlainErrorRestores, Exists, SameOptions, Names
<1>5. SourceKept'
  BY <1>3, EndIsKept DEF Names
<1> QED
  BY <1>4, <1>5 DEF TtInv

------------------------------------------------------------------------------
(* The replacement, the publication and the rollbacks.                     *)

\* The old destination goes under the backup name, or nothing is touched.
LEMMA IsolateKeeps ==
    ASSUME TtInv, tt.at = "replace", IsolateOld
    PROVE  TtInv'
<1>1. CASE tt'.at = "publish" /\ Step("publish") /\ tree' = tree /\ ttAnswer' = ttAnswer
  <2>1. tt' \in Transfers /\ SameOptions
    BY <1>1, TtInvTypes, StepFacts DEF TransferSteps
  <2>2. TransferTypes' /\ OptionsInv' /\ HiddenInv' /\ PlaceInv' /\ PlainErrorRestores'
    BY <1>1, <2>1, TtInvTypes
    DEF TtInv, TransferTypes, OptionsInv, HiddenInv, ToldPartial,
       PlaceInv, HoldsSource, PlainErrorRestores, Exists, SameOptions
  <2>3. SourceKept'
    BY <1>1, <2>1, <2>2, PlaceIsKept
  <2> QED
    BY <2>2, <2>3 DEF TtInv
<1>2. CASE tt.over /\ Rename("dst", "backup") /\ Step("inspect") /\ ttAnswer' = ttAnswer
  <2>1. tt' \in Transfers /\ SameOptions /\ tt'.at = "inspect"
    BY <1>2, TtInvTypes, StepFacts DEF TransferSteps
  <2>2. /\ tree' \in [Names -> Trees] /\ tree'["dst"] = Nothing /\ tree'["backup"] = tree["dst"]
        /\ \A n \in Names \ {"dst", "backup"} : tree'[n] = tree[n]
    BY <1>2, TtInvTypes, RenameFacts DEF Names
  <2>3. TransferTypes' /\ OptionsInv' /\ HiddenInv' /\ PlaceInv' /\ PlainErrorRestores'
    BY <1>2, <2>1, <2>2, TtInvTypes
    DEF TtInv, TransferTypes, OptionsInv, HiddenInv, ToldPartial,
       PlaceInv, HoldsSource, PlainErrorRestores, Exists, SameOptions, Names
  <2>4. SourceKept'
    BY <1>2, <2>1, <2>2, <2>3, PlaceIsKept
  <2> QED
    BY <2>3, <2>4 DEF TtInv
<1>3. CASE GiveUp("error") /\ tree' = tree
  <2>1. /\ tt' \in Transfers /\ SameOptions
        /\ tt.from = "stage" => tt'.at = "cleanup" /\ tt'.say = "error" /\ ttAnswer' = ttAnswer
        /\ tt.from = "src" => tt'.at = "ended" /\ ttAnswer' = "error"
    BY <1>3, TtInvTypes, GiveUpFacts
  <2>2. TransferTypes' /\ OptionsInv' /\ HiddenInv' /\ PlaceInv' /\ PlainErrorRestores'
    BY <1>3, <2>1, TtInvTypes
    DEF TtInv, TransferTypes, OptionsInv, HiddenInv, ToldPartial,
       PlaceInv, HoldsSource, PlainErrorRestores, Exists, SameOptions
  <2>3. SourceKept'
    BY <1>3, <2>1 DEF TtInv, SourceKept, SameOptions
  <2> QED
    BY <2>2, <2>3 DEF TtInv
<1> QED
  <2>1. tt \in Transfers
    BY TtInvTypes
  <2>2. Step("publish") => tt'.at = "publish"
    BY <2>1, StepFacts DEF TransferSteps
  <2> QED
    BY <1>1, <1>2, <1>3, <2>2 DEF IsolateOld, TryRename

LEMMA InspectKeeps ==
    ASSUME TtInv, treeContainsReserved
    PROVE  TtInv'
<1>1. PICK s \in {"publish", "restore"} : Step(s)
  BY DEF treeContainsReserved
<1>2. /\ tt.at = "inspect" /\ tree' = tree /\ ttAnswer' = ttAnswer
      /\ tt' \in Transfers /\ SameOptions /\ tt'.at = s
  BY <1>1, TtInvTypes, StepFacts DEF treeContainsReserved, TransferSteps
<1>3. TransferTypes' /\ OptionsInv' /\ HiddenInv' /\ PlaceInv' /\ PlainErrorRestores'
  BY <1>2, TtInvTypes
  DEF TtInv, TransferTypes, OptionsInv, HiddenInv, ToldPartial,
     PlaceInv, HoldsSource, PlainErrorRestores, Exists, SameOptions
<1>4. SourceKept'
  BY <1>2, <1>3, PlaceIsKept
<1> QED
  BY <1>3, <1>4 DEF TtInv

\* The old destination is back, or the caller is told.
LEMMA RestoreKeeps ==
    ASSUME TtInv, restoreTransferBackup
    PROVE  TtInv'
<1>1. CASE tt.at = "restore" /\ MayRename("backup", "dst") /\ Rename("backup", "dst")
           /\ GiveUp("error")
  <2>1. /\ tt' \in Transfers /\ SameOptions
        /\ tt.from = "stage" => tt'.at = "cleanup" /\ tt'.say = "error" /\ ttAnswer' = ttAnswer
        /\ tt.from = "src" => tt'.at = "ended" /\ ttAnswer' = "error"
    BY <1>1, TtInvTypes, StepFacts, GiveUpFacts DEF TransferSteps, Answer
  <2>2. /\ tree' \in [Names -> Trees] /\ tree'["backup"] = Nothing /\ tree'["dst"] = tree["backup"]
        /\ \A n \in Names \ {"backup", "dst"} : tree'[n] = tree[n]
    BY <1>1, TtInvTypes, RenameFacts DEF Names
  <2>3. HoldsSource("src")'
    BY <1>1, <2>1, <2>2, TtInvTypes DEF TtInv, PlaceInv, HoldsSource, SameOptions, Names
  <2>4. TransferTypes' /\ OptionsInv' /\ HiddenInv' /\ PlaceInv' /\ PlainErrorRestores'
    BY <1>1, <2>1, <2>2, <2>3, TtInvTypes
    DEF TtInv, TransferTypes, OptionsInv, HiddenInv, ToldPartial,
       PlaceInv, HoldsSource, PlainErrorRestores, Exists, SameOptions, Names, MayRename
  <2>5. SourceKept'
    BY <2>3, EndIsKept DEF Names
  <2> QED
    BY <2>4, <2>5 DEF TtInv
<1>2. CASE tt.at = "restore" /\ GiveUp("partial") /\ tree' = tree
  <2>1. /\ tt' \in Transfers /\ SameOptions
        /\ tt.from = "stage" => tt'.at = "cleanup" /\ tt'.say = "partial" /\ ttAnswer' = ttAnswer
        /\ tt.from = "src" => tt'.at = "ended" /\ ttAnswer' = "partial"
    BY <1>2, TtInvTypes, GiveUpFacts
  <2>2. TransferTypes' /\ OptionsInv' /\ HiddenInv' /\ PlaceInv' /\ PlainErrorRestores'
    BY <1>2, <2>1, TtInvTypes
    DEF TtInv, TransferTypes, OptionsInv, HiddenInv, ToldPartial,
       PlaceInv, HoldsSource, PlainErrorRestores, Exists, SameOptions
  <2>3. SourceKept'
    BY <1>2, <2>1 DEF TtInv, SourceKept, SameOptions
  <2> QED
    BY <2>2, <2>3 DEF TtInv
<1> QED
  BY <1>1, <1>2 DEF restoreTransferBackup, TryRename

\* The stage, or the source itself, takes the destination's name.
LEMMA PublishKeeps ==
    ASSUME TtInv, PublishRename
    PROVE  TtInv'
<1> DEFINE next == IF Exists("backup") THEN "discard" ELSE "source"
<1>1. CASE tt.at = "publish" /\ MayRename(tt.from, tt.to) /\ Rename(tt.from, tt.to) /\ Step(next)
           /\ ttAnswer' = ttAnswer
  <2>1. tt' \in Transfers /\ SameOptions /\ tt'.at = next
    BY <1>1, TtInvTypes, StepFacts DEF TransferSteps
  <2>2. /\ tree' \in [Names -> Trees] /\ tree'[tt.from] = Nothing /\ tree'[tt.to] = tree[tt.from]
        /\ \A n \in Names \ {tt.from, tt.to} : tree'[n] = tree[n]
    BY <1>1, TtInvTypes, RenameFacts DEF Names
  <2>3. TransferTypes' /\ OptionsInv' /\ HiddenInv' /\ PlaceInv' /\ PlainErrorRestores'
    BY <1>1, <2>1, <2>2, TtInvTypes
    DEF TtInv, TransferTypes, OptionsInv, HiddenInv, ToldPartial,
       PlaceInv, HoldsSource, PlainErrorRestores, Exists, SameOptions, Names
  <2>4. SourceKept'
    BY <1>1, <2>1, <2>2, <2>3, PlaceIsKept
  <2> QED
    BY <2>3, <2>4 DEF TtInv
<1>2. CASE tt.at = "publish" /\ Exists("backup") /\ Step("restore") /\ ttAnswer' = ttAnswer
           /\ tree' = tree
  <2>1. tt' \in Transfers /\ SameOptions /\ tt'.at = "restore"
    BY <1>2, TtInvTypes, StepFacts DEF TransferSteps
  <2>2. TransferTypes' /\ OptionsInv' /\ HiddenInv' /\ PlaceInv' /\ PlainErrorRestores'
    BY <1>2, <2>1, TtInvTypes
    DEF TtInv, TransferTypes, OptionsInv, HiddenInv, ToldPartial,
       PlaceInv, HoldsSource, PlainErrorRestores, Exists, SameOptions
  <2>3. SourceKept'
    BY <1>2, <2>1, <2>2, PlaceIsKept
  <2> QED
    BY <2>2, <2>3 DEF TtInv
<1>3. CASE tt.at = "publish" /\ ~Exists("backup") /\ GiveUp("error") /\ tree' = tree
  <2>1. /\ tt' \in Transfers /\ SameOptions
        /\ tt.from = "stage" => tt'.at = "cleanup" /\ tt'.say = "error" /\ ttAnswer' = ttAnswer
        /\ tt.from = "src" => tt'.at = "ended" /\ ttAnswer' = "error"
    BY <1>3, TtInvTypes, GiveUpFacts
  <2>2. TransferTypes' /\ OptionsInv' /\ HiddenInv' /\ PlaceInv' /\ PlainErrorRestores'
    BY <1>3, <2>1, TtInvTypes
    DEF TtInv, TransferTypes, OptionsInv, HiddenInv, ToldPartial,
       PlaceInv, HoldsSource, PlainErrorRestores, Exists, SameOptions
  <2>3. SourceKept'
    BY <1>3, <2>1 DEF TtInv, SourceKept, SameOptions
  <2> QED
    BY <2>2, <2>3 DEF TtInv
<1> QED
  BY <1>1, <1>2, <1>3 DEF PublishRename, TryRename

LEMMA RemoveKeeps ==
    ASSUME TtInv, NEW f \in Files, removeTree(f)
    PROVE  TtInv'
<1>1. /\ tt.at = "discard" /\ tt' = tt /\ ttAnswer' = ttAnswer /\ Exists("backup")
      /\ tree' \in [Names -> Trees] /\ \A n \in Names \ {"backup"} : tree'[n] = tree[n]
  <2>1. tree["backup"] # Nothing
    BY DEF removeTree, Nothing
  <2> QED
    BY <2>1, TtInvTypes DEF removeTree, Names, Trees, Exists
<1>2. TransferTypes' /\ OptionsInv' /\ HiddenInv' /\ PlaceInv' /\ PlainErrorRestores'
  BY <1>1, TtInvTypes
  DEF TtInv, TransferTypes, OptionsInv, HiddenInv, ToldPartial,
     PlaceInv, HoldsSource, PlainErrorRestores, Exists, SameOptions, Names
<1>3. SourceKept'
  BY <1>1, <1>2, PlaceIsKept
<1> QED
  BY <1>2, <1>3 DEF TtInv

LEMMA DiscardedKeeps ==
    ASSUME TtInv, Discarded
    PROVE  TtInv'
<1>1. /\ tt.at = "discard" /\ tt' \in Transfers /\ SameOptions /\ tt'.at = "source"
      /\ ttAnswer' = ttAnswer
  BY TtInvTypes, StepFacts DEF Discarded, TransferSteps
<1>2. /\ tree' \in [Names -> Trees] /\ tree'["backup"] = Nothing
      /\ \A n \in Names \ {"backup"} : tree'[n] = tree[n]
  BY TtInvTypes, NothingIsATree DEF Discarded, Names
<1>3. TransferTypes' /\ OptionsInv' /\ HiddenInv' /\ PlaceInv' /\ PlainErrorRestores'
  BY <1>1, <1>2, TtInvTypes
  DEF TtInv, TransferTypes, OptionsInv, HiddenInv, ToldPartial,
     PlaceInv, HoldsSource, PlainErrorRestores, Exists, SameOptions, Names
<1>4. SourceKept'
  BY <1>1, <1>2, <1>3, PlaceIsKept
<1> QED
  BY <1>3, <1>4 DEF TtInv

LEMMA DiscardFailsKeeps ==
    ASSUME TtInv, DiscardFails
    PROVE  TtInv'
<1>1. /\ tt.at = "discard" /\ tree' = tree
      /\ tt' \in Transfers /\ SameOptions /\ tt'.at = "quarantine" /\ tt'.say = tt.say
      /\ ttAnswer' = ttAnswer
  BY TtInvTypes, StepFacts DEF DiscardFails, TransferSteps
<1>2. TransferTypes' /\ OptionsInv' /\ HiddenInv' /\ PlaceInv' /\ PlainErrorRestores'
  BY <1>1, TtInvTypes
  DEF TtInv, TransferTypes, OptionsInv, HiddenInv, ToldPartial,
     PlaceInv, HoldsSource, PlainErrorRestores, Exists, SameOptions
<1>3. SourceKept'
  BY <1>1, <1>2, PlaceIsKept
<1> QED
  BY <1>2, <1>3 DEF TtInv

\* The published tree is set aside under a name of its own.
LEMMA QuarantineKeeps ==
    ASSUME TtInv, Quarantine
    PROVE  TtInv'
<1>1. CASE tt.at = "quarantine" /\ MayRename("dst", "failed") /\ Rename("dst", "failed")
           /\ Step("return") /\ ttAnswer' = ttAnswer
  <2>1. tt' \in Transfers /\ SameOptions /\ tt'.at = "return"
    BY <1>1, TtInvTypes, StepFacts, GiveUpFacts DEF TransferSteps, Answer
  <2>2. /\ tree' \in [Names -> Trees] /\ tree'["dst"] = Nothing /\ tree'["failed"] = tree["dst"]
        /\ \A n \in Names \ {"dst", "failed"} : tree'[n] = tree[n]
    BY <1>1, TtInvTypes, RenameFacts DEF Names
  <2>3. TransferTypes' /\ OptionsInv' /\ HiddenInv' /\ PlaceInv' /\ PlainErrorRestores'
    BY <1>1, <2>1, <2>2, TtInvTypes
    DEF TtInv, TransferTypes, OptionsInv, HiddenInv, ToldPartial,
       PlaceInv, HoldsSource, PlainErrorRestores, Exists, SameOptions, Names, MayRename
  <2>4. SourceKept'
    BY <1>1, <2>1, <2>2, <2>3, PlaceIsKept
  <2> QED
    BY <2>3, <2>4 DEF TtInv
<1>2. CASE tt.at = "quarantine" /\ GiveUp("partial") /\ tree' = tree
  <2>1. /\ tt' \in Transfers /\ SameOptions
        /\ tt.from = "stage" => tt'.at = "cleanup" /\ tt'.say = "partial" /\ ttAnswer' = ttAnswer
        /\ tt.from = "src" => tt'.at = "ended" /\ ttAnswer' = "partial"
    BY <1>2, TtInvTypes, GiveUpFacts
  <2>2. TransferTypes' /\ OptionsInv' /\ HiddenInv' /\ PlaceInv' /\ PlainErrorRestores'
    BY <1>2, <2>1, TtInvTypes
    DEF TtInv, TransferTypes, OptionsInv, HiddenInv, ToldPartial,
       PlaceInv, HoldsSource, PlainErrorRestores, Exists, SameOptions
  <2>3. SourceKept'
    BY <1>2, <2>1 DEF TtInv, SourceKept, SameOptions
  <2> QED
    BY <2>2, <2>3 DEF TtInv
<1> QED
  BY <1>1, <1>2 DEF Quarantine, TryRename

LEMMA ReturnBackKeeps ==
    ASSUME TtInv, rollbackReturn
    PROVE  TtInv'
<1>1. CASE tt.at = "return" /\ MayRename("backup", "dst") /\ Rename("backup", "dst")
           /\ Step("unwind") /\ ttAnswer' = ttAnswer
  <2>1. tt' \in Transfers /\ SameOptions /\ tt'.at = "unwind"
    BY <1>1, TtInvTypes, StepFacts, GiveUpFacts DEF TransferSteps, Answer
  <2>2. /\ tree' \in [Names -> Trees] /\ tree'["backup"] = Nothing /\ tree'["dst"] = tree["backup"]
        /\ \A n \in Names \ {"backup", "dst"} : tree'[n] = tree[n]
    BY <1>1, TtInvTypes, RenameFacts DEF Names
  <2>3. TransferTypes' /\ OptionsInv' /\ HiddenInv' /\ PlaceInv' /\ PlainErrorRestores'
    BY <1>1, <2>1, <2>2, TtInvTypes
    DEF TtInv, TransferTypes, OptionsInv, HiddenInv, ToldPartial,
       PlaceInv, HoldsSource, PlainErrorRestores, Exists, SameOptions, Names, MayRename
  <2>4. SourceKept'
    BY <1>1, <2>1, <2>2, <2>3, PlaceIsKept
  <2> QED
    BY <2>3, <2>4 DEF TtInv
<1>2. CASE tt.at = "return" /\ Step("reinstate") /\ ttAnswer' = ttAnswer /\ tree' = tree
  <2>1. tt' \in Transfers /\ SameOptions /\ tt'.at = "reinstate"
    BY <1>2, TtInvTypes, StepFacts DEF TransferSteps
  <2>2. TransferTypes' /\ OptionsInv' /\ HiddenInv' /\ PlaceInv' /\ PlainErrorRestores'
    BY <1>2, <2>1, TtInvTypes
    DEF TtInv, TransferTypes, OptionsInv, HiddenInv, ToldPartial,
       PlaceInv, HoldsSource, PlainErrorRestores, Exists, SameOptions
  <2>3. SourceKept'
    BY <1>2, <2>1, <2>2, PlaceIsKept
  <2> QED
    BY <2>2, <2>3 DEF TtInv
<1> QED
  BY <1>1, <1>2 DEF rollbackReturn, TryRename

LEMMA ReinstateKeeps ==
    ASSUME TtInv, rollbackReinstate
    PROVE  TtInv'
<1>1. CASE tt.at = "reinstate" /\ MayRename("failed", "dst") /\ Rename("failed", "dst")
           /\ GiveUp("partial")
  <2>1. /\ tt' \in Transfers /\ SameOptions
        /\ tt.from = "stage" => tt'.at = "cleanup" /\ tt'.say = "partial" /\ ttAnswer' = ttAnswer
        /\ tt.from = "src" => tt'.at = "ended" /\ ttAnswer' = "partial"
    BY <1>1, TtInvTypes, StepFacts, GiveUpFacts DEF TransferSteps, Answer
  <2>2. /\ tree' \in [Names -> Trees] /\ tree'["failed"] = Nothing /\ tree'["dst"] = tree["failed"]
        /\ \A n \in Names \ {"failed", "dst"} : tree'[n] = tree[n]
    BY <1>1, TtInvTypes, RenameFacts DEF Names
  <2>3. \E n \in {"src", "dst"} : HoldsSource(n)'
    BY <1>1, <2>1, <2>2, TtInvTypes DEF TtInv, PlaceInv, HoldsSource, SameOptions, Names
  <2>4. TransferTypes' /\ OptionsInv' /\ HiddenInv' /\ PlaceInv' /\ PlainErrorRestores'
    BY <1>1, <2>1, <2>2, <2>3, TtInvTypes
    DEF TtInv, TransferTypes, OptionsInv, HiddenInv, ToldPartial,
       PlaceInv, HoldsSource, PlainErrorRestores, Exists, SameOptions, Names, MayRename
  <2>5. SourceKept'
    BY <2>3, EndIsKept DEF Names
  <2> QED
    BY <2>4, <2>5 DEF TtInv
<1>2. CASE tt.at = "reinstate" /\ GiveUp("partial") /\ tree' = tree
  <2>1. /\ tt' \in Transfers /\ SameOptions
        /\ tt.from = "stage" => tt'.at = "cleanup" /\ tt'.say = "partial" /\ ttAnswer' = ttAnswer
        /\ tt.from = "src" => tt'.at = "ended" /\ ttAnswer' = "partial"
    BY <1>2, TtInvTypes, GiveUpFacts
  <2>2. TransferTypes' /\ OptionsInv' /\ HiddenInv' /\ PlaceInv' /\ PlainErrorRestores'
    BY <1>2, <2>1, TtInvTypes
    DEF TtInv, TransferTypes, OptionsInv, HiddenInv, ToldPartial,
       PlaceInv, HoldsSource, PlainErrorRestores, Exists, SameOptions
  <2>3. SourceKept'
    BY <1>2, <2>1 DEF TtInv, SourceKept, SameOptions
  <2> QED
    BY <2>2, <2>3 DEF TtInv
<1> QED
  BY <1>1, <1>2 DEF rollbackReinstate, TryRename

\* A staged transfer drops what it had published; the source was never touched.
LEMMA UnwindStageKeeps ==
    ASSUME TtInv, rollbackPublished
    PROVE  TtInv'
<1>1. tt.at = "unwind" /\ tt.from = "stage"
  BY DEF rollbackPublished
<1>2. CASE tree' = [tree EXCEPT !["failed"] = Nothing] /\ GiveUp("error")
  <2>1. /\ tt' \in Transfers /\ SameOptions
        /\ tt.from = "stage" => tt'.at = "cleanup" /\ tt'.say = "error" /\ ttAnswer' = ttAnswer
        /\ tt.from = "src" => tt'.at = "ended" /\ ttAnswer' = "error"
    BY <1>2, TtInvTypes, GiveUpFacts
  <2>2. /\ tree' \in [Names -> Trees] /\ tree'["failed"] = Nothing
        /\ \A n \in Names \ {"failed"} : tree'[n] = tree[n]
    BY <1>2, TtInvTypes, NothingIsATree DEF Names
  <2>3. TransferTypes' /\ OptionsInv' /\ HiddenInv' /\ PlaceInv' /\ PlainErrorRestores'
    BY <1>1, <2>1, <2>2, TtInvTypes
    DEF TtInv, TransferTypes, OptionsInv, HiddenInv, ToldPartial,
       PlaceInv, HoldsSource, PlainErrorRestores, Exists, SameOptions, Names
  <2>4. SourceKept'
    BY <1>1, <2>1, <2>2, <2>3, PlaceIsKept
  <2> QED
    BY <2>3, <2>4 DEF TtInv
<1>3. CASE tree' = tree /\ GiveUp("partial")
  <2>1. /\ tt' \in Transfers /\ SameOptions
        /\ tt.from = "stage" => tt'.at = "cleanup" /\ tt'.say = "partial" /\ ttAnswer' = ttAnswer
        /\ tt.from = "src" => tt'.at = "ended" /\ ttAnswer' = "partial"
    BY <1>3, TtInvTypes, GiveUpFacts
  <2>2. TransferTypes' /\ OptionsInv' /\ HiddenInv' /\ PlaceInv' /\ PlainErrorRestores'
    BY <1>1, <1>3, <2>1, TtInvTypes
    DEF TtInv, TransferTypes, OptionsInv, HiddenInv, ToldPartial,
       PlaceInv, HoldsSource, PlainErrorRestores, Exists, SameOptions
  <2>3. SourceKept'
    BY <1>1, <1>3, <2>1 DEF TtInv, SourceKept, SameOptions
  <2> QED
    BY <2>2, <2>3 DEF TtInv
<1> QED
  BY <1>2, <1>3 DEF rollbackPublished

\* A moved source goes back to where it was, or the caller is told.
LEMMA UnwindMoveKeeps ==
    ASSUME TtInv, rollbackMoved
    PROVE  TtInv'
<1>1. CASE tt.at = "unwind" /\ tt.from = "src" /\ MayRename("failed", "src") /\ Rename("failed", "src")
           /\ Answer("error")
  <2>1. tt' \in Transfers /\ SameOptions /\ tt'.at = "ended" /\ ttAnswer' = "error"
    BY <1>1, TtInvTypes, StepFacts, GiveUpFacts DEF TransferSteps, Answer
  <2>2. /\ tree' \in [Names -> Trees] /\ tree'["failed"] = Nothing /\ tree'["src"] = tree["failed"]
        /\ \A n \in Names \ {"failed", "src"} : tree'[n] = tree[n]
    BY <1>1, TtInvTypes, RenameFacts DEF Names
  <2>3. HoldsSource("src")'
    BY <1>1, <2>1, <2>2, TtInvTypes DEF TtInv, PlaceInv, HoldsSource, SameOptions, Names
  <2>4. TransferTypes' /\ OptionsInv' /\ HiddenInv' /\ PlaceInv' /\ PlainErrorRestores'
    BY <1>1, <2>1, <2>2, <2>3, TtInvTypes
    DEF TtInv, TransferTypes, OptionsInv, HiddenInv, ToldPartial,
       PlaceInv, HoldsSource, PlainErrorRestores, Exists, SameOptions, Names, MayRename
  <2>5. SourceKept'
    BY <2>3, EndIsKept DEF Names
  <2> QED
    BY <2>4, <2>5 DEF TtInv
<1>2. CASE tt.at = "unwind" /\ tt.from = "src" /\ Answer("partial") /\ tree' = tree
  <2>1. tt' \in Transfers /\ SameOptions /\ tt'.at = "ended" /\ ttAnswer' = "partial"
    BY <1>2, TtInvTypes, StepFacts DEF TransferSteps, Answer
  <2>2. TransferTypes' /\ OptionsInv' /\ HiddenInv' /\ PlaceInv' /\ PlainErrorRestores'
    BY <1>2, <2>1, TtInvTypes
    DEF TtInv, TransferTypes, OptionsInv, HiddenInv, ToldPartial,
       PlaceInv, HoldsSource, PlainErrorRestores, Exists, SameOptions
  <2>3. SourceKept'
    BY <1>2, <2>1 DEF TtInv, SourceKept, SameOptions
  <2> QED
    BY <2>2, <2>3 DEF TtInv
<1> QED
  BY <1>1, <1>2 DEF rollbackMoved, TryRename

\* The source is deleted only when the destination holds its files.
LEMMA SourceGoesKeeps ==
    ASSUME TtInv, deleteResolved
    PROVE  TtInv'
<1>1. tt.at = "source" /\ HoldsSource(tt.to) 
      /\ tt.to \in Names \ {"stage", "src", "backup", "failed"}
  BY TtInvTypes DEF deleteResolved, TtInv, PlaceInv, Names
<1>2. tt' \in Transfers /\ SameOptions /\ tt'.at = "ended" /\ ttAnswer' \in {"done", "duplicate"}
  BY TtInvTypes, StepFacts DEF deleteResolved, Answer, TransferSteps
<1>3. tree' \in [Names -> Trees] /\ \A n \in Names \ {"src"} : tree'[n] = tree[n]
  <2>1. CASE tree' = [tree EXCEPT !["src"] = Nothing] \/ tree' = tree
    BY <2>1, TtInvTypes, NothingIsATree DEF Names
  <2>2. CASE \E left \in SUBSET tree["src"].files : tree' = [tree EXCEPT !["src"].files = left]
    BY <2>2, TtInvTypes DEF Names, Trees
  <2> QED
    BY <2>1, <2>2 DEF deleteResolved
<1>4. HoldsSource(tt.to)'
  BY <1>1, <1>2, <1>3 DEF HoldsSource, SameOptions
<1>5. TransferTypes' /\ OptionsInv' /\ HiddenInv' /\ PlaceInv' /\ PlainErrorRestores'
  BY <1>1, <1>2, <1>3, <1>4, TtInvTypes
  DEF TtInv, TransferTypes, OptionsInv, HiddenInv, ToldPartial,
     PlaceInv, HoldsSource, PlainErrorRestores, Exists, SameOptions, Names
<1>6. SourceKept'
  BY <1>1, <1>2, <1>4 DEF SourceKept, HoldsSource, SameOptions
<1> QED
  BY <1>5, <1>6 DEF TtInv

------------------------------------------------------------------------------
(* Other requests and the end of the process.                              *)

\* A name that is free holds nothing of the source.
LEMMA OtherCreatesKeeps ==
    ASSUME TtInv, OtherCreates
    PROVE  TtInv'
<1>1. tt' = tt /\ ttAnswer' = ttAnswer /\ tt.at # "ended" /\ tree["dst"] = Nothing
  BY DEF OtherCreates, Exists
<1>2. tree' \in [Names -> Trees] /\ \A n \in Names \ {"dst"} : tree'[n] = tree[n]
  <2>1. Tree("other", Files) \in Trees
    BY DEF Tree, Trees
  <2> QED
    BY <2>1, TtInvTypes DEF OtherCreates, Names
<1>3. ~HoldsSource("dst")
  BY <1>1, NothingIsATree DEF HoldsSource
<1>4. TransferTypes' /\ OptionsInv' /\ HiddenInv' /\ PlaceInv' /\ PlainErrorRestores'
  BY <1>1, <1>2, <1>3, TtInvTypes
  DEF TtInv, TransferTypes, OptionsInv, HiddenInv, ToldPartial,
     PlaceInv, HoldsSource, PlainErrorRestores, Exists, SameOptions, Names
<1>5. SourceKept'
  BY <1>1, <1>2, <1>3, <1>4, PlaceIsKept
<1> QED
  BY <1>4, <1>5 DEF TtInv

LEMMA OtherUploadsKeeps ==
    ASSUME TtInv, OtherUploads
    PROVE  TtInv'
<1>1. tt' = tt /\ ttAnswer' = ttAnswer /\ Exists("dst")
  BY DEF OtherUploads
<1>2. /\ tree' \in [Names -> Trees] /\ tree'["dst"].of = tree["dst"].of
      /\ tree["dst"].files \subseteq tree'["dst"].files
      /\ \A m \in Names \ {"dst"} : tree'[m] = tree[m]
  BY TtInvTypes DEF OtherUploads, Names, Trees
<1>3. \A m \in Names : HoldsSource(m) => HoldsSource(m)'
  BY <1>1, <1>2 DEF HoldsSource
<1>4. TransferTypes' /\ OptionsInv' /\ HiddenInv' /\ PlainErrorRestores'
  BY <1>1, <1>2, TtInvTypes DEF TtInv, TransferTypes, OptionsInv, HiddenInv, ToldPartial,
     PlainErrorRestores, Exists, Names
<1>5. PlaceInv'
  BY <1>1, <1>2, <1>3, TtInvTypes DEF TtInv, PlaceInv, Names
<1>6. SourceKept'
  BY <1>1, <1>3 DEF TtInv, SourceKept, HoldsSource
<1> QED
  BY <1>4, <1>5, <1>6 DEF TtInv

LEMMA OtherAddsKeeps ==
    ASSUME TtInv, NEW f \in Files, OtherAdds(f)
    PROVE  TtInv'
<1>1. tt' = tt /\ ttAnswer' = ttAnswer /\ Exists("src")
  BY DEF OtherAdds
<1>2. /\ tree' \in [Names -> Trees] /\ tree'["src"].of = tree["src"].of
      /\ tree["src"].files \subseteq tree'["src"].files
      /\ \A m \in Names \ {"src"} : tree'[m] = tree[m]
  BY TtInvTypes DEF OtherAdds, Names, Trees
<1>3. \A m \in Names : HoldsSource(m) => HoldsSource(m)'
  BY <1>1, <1>2 DEF HoldsSource
<1>4. TransferTypes' /\ OptionsInv' /\ HiddenInv' /\ PlainErrorRestores'
  BY <1>1, <1>2, TtInvTypes DEF TtInv, TransferTypes, OptionsInv, HiddenInv, ToldPartial,
     PlainErrorRestores, Exists, Names
<1>5. PlaceInv'
  BY <1>1, <1>2, <1>3, TtInvTypes DEF TtInv, PlaceInv, Names
<1>6. SourceKept'
  BY <1>1, <1>3 DEF TtInv, SourceKept, HoldsSource
<1> QED
  BY <1>4, <1>5, <1>6 DEF TtInv

LEMMA CrashKeeps ==
    ASSUME TtInv, Crash
    PROVE  TtInv'
<1>1. /\ tt.at \notin {"idle", "ended"} /\ tree' = tree
      /\ tt' \in Transfers /\ SameOptions /\ tt'.at = "ended" /\ ttAnswer' = "lost"
  BY TtInvTypes, StepFacts DEF Crash, TransferSteps
<1>2. TransferTypes' /\ OptionsInv' /\ HiddenInv' /\ PlaceInv' /\ PlainErrorRestores'
  BY <1>1, TtInvTypes
  DEF TtInv, TransferTypes, OptionsInv, HiddenInv, ToldPartial,
     PlaceInv, HoldsSource, PlainErrorRestores, Exists, SameOptions
<1>3. SourceKept'
  BY <1>1 DEF TtInv, SourceKept, SameOptions
<1> QED
  BY <1>2, <1>3 DEF TtInv

------------------------------------------------------------------------------
(* The theorems.                                                           *)

LEMMA TransferInit == TtInit => TtInv
<1> SUFFICES ASSUME TtInit PROVE TtInv
  OBVIOUS
<1>1. PICK old \in {Nothing, Tree("old", Files)}, fs \in (SUBSET Files) \ {{}} :
         /\ tree = [n \in Names |-> CASE n = "src" -> Tree("new", fs)
                                      [] n = "dst" -> old
                                      [] OTHER -> Nothing]
         /\ tt = [at |-> "idle", move |-> FALSE, over |-> FALSE, to |-> "dst",
                  from |-> "stage", todo |-> {}, had |-> fs, say |-> "error"]
  BY DEF TtInit
<1>2. /\ Tree("new", fs) \in Trees /\ Tree("old", Files) \in Trees
      /\ Tree("new", fs).of = "new" /\ Tree("new", fs).files = fs
  BY DEF Tree, Trees
<1>3. /\ tree \in [Names -> Trees] /\ tree["src"] = Tree("new", fs)
      /\ tree["backup"] = Nothing /\ tree["failed"] = Nothing
  BY <1>1, <1>2, NothingIsATree DEF Names
<1>4. tt \in Transfers /\ tt.at = "idle" /\ tt.from = "stage" /\ ~tt.over /\ tt.had = fs
      /\ ttAnswer = "none"
  BY <1>1 DEF Transfers, TransferSteps, TtInit
<1>5. HoldsSource("src")
  BY <1>2, <1>3, <1>4 DEF HoldsSource
<1>6. SourceKept
  BY <1>5 DEF SourceKept, HoldsSource, Names
<1> QED
  BY <1>3, <1>4, <1>5, <1>6 DEF TtInv, TransferTypes, OptionsInv, HiddenInv, PlaceInv, Exists,
     PlainErrorRestores

LEMMA TransferStep == TtInv /\ [TtNext]_ttVars => TtInv'
<1> SUFFICES ASSUME TtInv, [TtNext]_ttVars PROVE TtInv'
  OBVIOUS
<1>1. CASE \E p \in Policies, move, across \in BOOLEAN : Move(p, move, across)
  BY <1>1, MoveKeepsTrees
<1>2. CASE Refuse \/ copyTreeStaged \/ Staged \/ CopyFails \/ Cleanup
  BY <1>2, RefuseKeeps, CopyStartsKeeps, StagedKeeps, CopyFailsKeeps, CleanupKeeps
<1>3. CASE \E f \in Files : copyIntoStage(f) \/ removeTree(f) \/ OtherAdds(f)
  BY <1>3, CopyOneKeeps, RemoveKeeps, OtherAddsKeeps
<1>4. CASE publishStage \/ replaceRename
  BY <1>4, IsolateKeeps DEF publishStage, replaceRename
<1>5. CASE treeContainsReserved \/ restoreTransferBackup \/ PublishRename \/ Discarded
           \/ DiscardFails
  BY <1>5, InspectKeeps, RestoreKeeps, PublishKeeps, DiscardedKeeps, DiscardFailsKeeps
<1>6. CASE Quarantine \/ rollbackReturn \/ rollbackReinstate \/ rollbackPublished \/ rollbackMoved
  BY <1>6, QuarantineKeeps, ReturnBackKeeps, ReinstateKeeps, UnwindStageKeeps, UnwindMoveKeeps
<1>7. CASE deleteResolved \/ OtherCreates \/ OtherUploads \/ Crash
  BY <1>7, SourceGoesKeeps, OtherCreatesKeeps, OtherUploadsKeeps, CrashKeeps
<1>8. CASE UNCHANGED ttVars
  BY <1>8 DEF ttVars, TtInv, TransferTypes, OptionsInv, HiddenInv, ToldPartial, PlaceInv,
     HoldsSource, SourceKept, PlainErrorRestores, Exists
<1> QED
  BY <1>1, <1>2, <1>3, <1>4, <1>5, <1>6, <1>7, <1>8 DEF TtNext

\* The invariant of a transfer and of the requests beside it.
THEOREM TransferInvariant == TtSpec => []TtInv
BY TransferInit, TransferStep, PTL DEF TtSpec

\* The source's files are together under one name at every moment: no failed
\* rename, rollback, racing creation or crash loses any (transfer.go).
THEOREM TransferKeepsSource == TtSpec => []SourceKept
<1>1. TtInv => SourceKept
  BY DEF TtInv
<1> QED
  BY <1>1, TransferInvariant, PTL

\* An error that is not a PartialTransferError leaves nothing hidden
\* (publishStage, replaceRename, rollbackPublished, rollbackMoved).
THEOREM TransferErrorRestores == TtSpec => []PlainErrorRestores
<1>1. TtInv => PlainErrorRestores
  BY DEF TtInv
<1> QED
  BY <1>1, TransferInvariant, PTL

------------------------------------------------------------------------------
(***************************************************************************)
(* The lock table implements LockPromise, for every set of paths, users,   *)
(* requests and leases.  A request reads the clock once and runs its       *)
(* statement later, so a refresh can bring back a lock that has run out    *)
(* since; what makes that safe is that the table never holds two rows that *)
(* conflict, run out or not: the transaction that admits a lock deletes    *)
(* the rows that have run out and compares with all the others.            *)
(***************************************************************************)

\* What the theorems ask of the constants: paths are sequences, no client locks
\* the share's own root (there LocksConflict sees no overlap and the promise is
\* broken), and a write is one of the three the handler knows, where only a
\* move names a second path.
DlConstants(Segments) ==
    /\ LockPaths \subseteq Seq(Segments)
    /\ LockAsks \subseteq [user : LockUsers, path : LockPaths \ {<<>>}, infinite : BOOLEAN,
                           shared : BOOLEAN, lease : Int]
    /\ \A w \in WriteAsks : /\ w.op \in {"put", "delete", "move"}
                            /\ w.op # "move" => w.to = w.path
    /\ Leases \subseteq Int /\ DefaultTimeout \in Int /\ MaxTimeout \in Int
    /\ MaxTokens \in Nat

------------------------------------------------------------------------------
(* The inductive invariant.                                                *)

Rows == [token : 1 .. MaxTokens, path : LockPaths \ {<<>>}, who : LockUsers,
         infinite : BOOLEAN, shared : BOOLEAN, expires : Int]

RowsTyped ==
    /\ dlRows \subseteq Rows /\ dlClock \in Int /\ dlTokens \in 0 .. MaxTokens
    /\ dlReq = [h \in LockHandlers |-> dlReq[h]]

\* What a request has read stays behind the clock.
RequestsTyped ==
    \A h \in LockHandlers :
        /\ dlReq[h].at = "take" => /\ dlReq[h].ask \in LockAsks
                                   /\ dlReq[h].now \in Int /\ dlReq[h].now <= dlClock
        /\ dlReq[h].at = "refresh" => dlReq[h].now \in Int /\ dlReq[h].lease \in Int

TokensUnique ==
    /\ \A l \in dlRows : l.token <= dlTokens
    /\ \A k, l \in dlRows : k.token = l.token => k = l

RowsCompatible == \A k, l \in dlRows : k # l => ~LocksConflict(k, l)

DlInv == RowsTyped /\ RequestsTyped /\ TokensUnique /\ RowsCompatible

------------------------------------------------------------------------------
(* Paths and locks.                                                        *)

(* A prefix agrees with the whole on its own length. *)
LEMMA PrefixElements ==
    ASSUME NEW Segments, NEW s \in Seq(Segments), NEW t \in Seq(Segments)
    PROVE  IsPrefix(s, t) <=> Len(s) <= Len(t) /\ \A i \in 1 .. Len(s) : s[i] = t[i]
<1>1. Len(s) \in Nat /\ Len(t) \in Nat
  BY LenProperties
<1>2. \A i \in 1 .. Len(s) : s[i] \in Segments
  BY ElementOfSeq
<1>3. /\ SubSeq(s, 1, Len(s)) \in Seq(Segments) /\ Len(SubSeq(s, 1, Len(s))) = Len(s)
      /\ \A i \in 1 .. Len(s) : SubSeq(s, 1, Len(s))[i] = s[i]
  <2>1. /\ SubSeq(s, 1, Len(s)) \in Seq(Segments)
        /\ Len(SubSeq(s, 1, Len(s))) = IF 1 <= Len(s) THEN Len(s) - 1 + 1 ELSE 0
        /\ \A i \in 1 .. Len(s) - 1 + 1 : SubSeq(s, 1, Len(s))[i] = s[1 + i - 1]
    BY <1>1, <1>2, SubSeqProperties
  <2> QED
    BY <1>1, <2>1
<1>4. ASSUME Len(s) <= Len(t)
      PROVE  /\ SubSeq(t, 1, Len(s)) \in Seq(Segments)
             /\ Len(SubSeq(t, 1, Len(s))) = Len(s)
             /\ \A i \in 1 .. Len(s) : SubSeq(t, 1, Len(s))[i] = t[i]
  <2>1. \A i \in 1 .. Len(s) : t[i] \in Segments
    BY <1>1, <1>4, ElementOfSeq
  <2>2. /\ SubSeq(t, 1, Len(s)) \in Seq(Segments)
        /\ Len(SubSeq(t, 1, Len(s))) = IF 1 <= Len(s) THEN Len(s) - 1 + 1 ELSE 0
        /\ \A i \in 1 .. Len(s) - 1 + 1 : SubSeq(t, 1, Len(s))[i] = t[1 + i - 1]
    BY <1>1, <2>1, SubSeqProperties
  <2> QED
    BY <1>1, <2>2
<1>5. ASSUME Len(s) <= Len(t), \A i \in 1 .. Len(s) : s[i] = t[i]
      PROVE  SubSeq(s, 1, Len(s)) = SubSeq(t, 1, Len(s))
  BY <1>1, <1>3, <1>4, <1>5, SeqEqual
<1>6. ASSUME Len(s) <= Len(t), SubSeq(s, 1, Len(s)) = SubSeq(t, 1, Len(s))
      PROVE  \A i \in 1 .. Len(s) : s[i] = t[i]
  BY <1>3, <1>4, <1>6
<1> QED
  BY <1>5, <1>6 DEF IsPrefix

(* Two ancestors of one path lie on one line. *)
LEMMA AncestorsComparable ==
    ASSUME NEW Segments, NEW p \in Seq(Segments), NEW s \in Seq(Segments), NEW t \in Seq(Segments),
           IsPrefix(s, p), IsPrefix(t, p)
    PROVE  IsPrefix(s, t) \/ IsPrefix(t, s)
<1>1. Len(s) \in Nat /\ Len(t) \in Nat /\ Len(p) \in Nat
  BY LenProperties
<1>2. /\ Len(s) <= Len(p) /\ \A i \in 1 .. Len(s) : s[i] = p[i]
      /\ Len(t) <= Len(p) /\ \A i \in 1 .. Len(t) : t[i] = p[i]
  BY PrefixElements
<1>3. CASE Len(s) <= Len(t)
  <2>1. \A i \in 1 .. Len(s) : s[i] = t[i]
    BY <1>1, <1>2, <1>3
  <2> QED
    BY <1>3, <2>1, PrefixElements
<1>4. CASE Len(t) <= Len(s)
  <2>1. \A i \in 1 .. Len(t) : t[i] = s[i]
    BY <1>1, <1>2, <1>4
  <2> QED
    BY <1>4, <2>1, PrefixElements
<1> QED
  BY <1>1, <1>3, <1>4

(* Two locks that cover one resource overlap in the sense of the database's
   comparison, unless one of them is on the share's root. *)
LEMMA CoversOverlap ==
    ASSUME NEW Segments, DlConstants(Segments), NEW k \in Rows, NEW l \in Rows,
           NEW p \in LockPaths, covers(k, p), covers(l, p)
    PROVE  locksOverlap(k, l)
<1>1. /\ k.path \in Seq(Segments) /\ l.path \in Seq(Segments) /\ p \in Seq(Segments)
      /\ k.path # <<>> /\ l.path # <<>>
  BY DEF DlConstants, Rows
<1>2. k.path = p \/ (k.infinite /\ IsPrefix(k.path, p))
  BY Zenon DEF covers, isDescendant
<1>3. l.path = p \/ (l.infinite /\ IsPrefix(l.path, p))
  BY Zenon DEF covers, isDescendant
<1>4. CASE k.path = p
  BY <1>1, <1>3, <1>4, Zenon DEF locksOverlap, pathCovers
<1>5. CASE l.path = p
  BY <1>1, <1>2, <1>5, Zenon DEF locksOverlap, pathCovers
<1>6. CASE k.infinite /\ l.infinite /\ IsPrefix(k.path, p) /\ IsPrefix(l.path, p)
  <2>1. IsPrefix(k.path, l.path) \/ IsPrefix(l.path, k.path)
    BY <1>1, <1>6, AncestorsComparable
  <2> QED
    BY <1>1, <1>6, <2>1, Zenon DEF locksOverlap, pathCovers
<1> QED
  BY <1>2, <1>3, <1>4, <1>5, <1>6, Zenon

(* The comparison does not care which lock was there first. *)
LEMMA ConflictSymmetric ==
    ASSUME NEW k, NEW l
    PROVE  LocksConflict(k, l) <=> LocksConflict(l, k)
BY Zenon DEF LocksConflict, locksOverlap

(* A lease says nothing about what a lock covers. *)
LEMMA LeaseIsNoConflict ==
    ASSUME NEW k, NEW l, NEW j,
           k.path = j.path, k.infinite = j.infinite, k.shared = j.shared
    PROVE  LocksConflict(k, l) <=> LocksConflict(j, l)
BY Zenon DEF LocksConflict, locksOverlap

(* The clamped lease is a number. *)
LEMMA ClampType ==
    ASSUME NEW Segments, DlConstants(Segments), NEW d \in Int
    PROVE  clampTimeout(d) \in Int
BY DEF clampTimeout, DlConstants

------------------------------------------------------------------------------
(* The invariant, action by action.                                        *)

(* A request that returns leaves the others as they were. *)
LEMMA ReturnKeeps ==
    ASSUME RowsTyped, RequestsTyped, NEW h \in LockHandlers, Return(h), dlClock' = dlClock
    PROVE  dlReq' = [x \in LockHandlers |-> dlReq'[x]] /\ RequestsTyped'
<1>1. dlReq' = [x \in LockHandlers |-> IF x = h THEN NoReq ELSE dlReq[x]]
  BY DEF RowsTyped, Return
<1>2. NoReq.at = "idle"
  BY DEF NoReq
<1> QED
  BY <1>1, <1>2 DEF RequestsTyped

(* A request that starts holds what it has read. *)
LEMMA StartKeeps ==
    ASSUME RowsTyped, RequestsTyped, NEW h \in LockHandlers, NEW q,
           dlReq' = [dlReq EXCEPT ![h] = q], dlClock' = dlClock,
           q.at = "take" => q.ask \in LockAsks /\ q.now \in Int /\ q.now <= dlClock,
           q.at = "refresh" => q.now \in Int /\ q.lease \in Int
    PROVE  dlReq' = [x \in LockHandlers |-> dlReq'[x]] /\ RequestsTyped'
<1>1. dlReq' = [x \in LockHandlers |-> IF x = h THEN q ELSE dlReq[x]]
  BY DEF RowsTyped
<1> QED
  BY <1>1 DEF RequestsTyped

(* Taking rows away conflicts with nothing. *)
LEMMA ShrinkKeeps ==
    ASSUME DlInv, dlRows' \subseteq dlRows, dlTokens' = dlTokens, dlClock' \in Int,
           dlReq' = [x \in LockHandlers |-> dlReq'[x]], RequestsTyped'
    PROVE  DlInv'
BY DEF DlInv, RowsTyped, TokensUnique, RowsCompatible

(* The row a LOCK would insert. *)
Wanted(h) ==
    [token |-> dlTokens + 1, path |-> dlReq[h].ask.path, who |-> dlReq[h].ask.user,
     infinite |-> dlReq[h].ask.infinite, shared |-> dlReq[h].ask.shared,
     expires |-> dlReq[h].now + clampTimeout(dlReq[h].ask.lease)]

(* Its token is new and it conflicts with no row that stays. *)
LEMMA TakeFacts ==
    ASSUME NEW Segments, DlConstants(Segments), DlInv, NEW h \in LockHandlers, Take(h)
    PROVE  /\ dlReq[h].now \in Int /\ dlReq[h].now <= dlClock
           /\ \/ /\ Wanted(h) \in Rows /\ Wanted(h).token = dlTokens + 1
                 /\ Admissible(Wanted(h), dlReq[h].now) /\ dlTokens' = dlTokens + 1
                 /\ dlTokens' \in 0 .. MaxTokens
                 /\ dlRows' = Swept(dlReq[h].now) \cup {Wanted(h)}
              \/ UNCHANGED <<dlRows, dlTokens>>
           /\ Return(h) /\ dlClock' = dlClock
<1>1. /\ dlReq[h].ask \in LockAsks /\ dlReq[h].now \in Int
      /\ dlReq[h].now <= dlClock
  BY DEF DlInv, RequestsTyped, Take
<1>2. /\ dlReq[h].ask.path \in LockPaths \ {<<>>} /\ dlReq[h].ask.user \in LockUsers
      /\ dlReq[h].ask.lease \in Int
  BY <1>1 DEF DlConstants
<1>3. dlReq[h].ask.infinite \in BOOLEAN /\ dlReq[h].ask.shared \in BOOLEAN
  BY <1>1 DEF DlConstants
<1>4. dlTokens + 1 \in 1 .. MaxTokens /\ dlTokens + 1 \in 0 .. MaxTokens
  BY DEF DlInv, RowsTyped, DlConstants, Take
<1>5. dlReq[h].now + clampTimeout(dlReq[h].ask.lease) \in Int
  BY <1>1, <1>2, ClampType
<1>6. Wanted(h) \in Rows
  BY <1>2, <1>3, <1>4, <1>5 DEF Wanted, Rows
<1>7. Wanted(h).token = dlTokens + 1
  BY DEF Wanted
<1>8. /\ \/ AdmitDavLock(Wanted(h), dlReq[h].now) /\ dlTokens' = dlTokens + 1
         \/ UNCHANGED <<dlRows, dlTokens>>
      /\ Return(h) /\ dlClock' = dlClock
  BY Zenon DEF Take, Wanted
<1> QED
  BY <1>1, <1>4, <1>6, <1>7, <1>8 DEF AdmitDavLock

(* LOCK's transaction. *)
LEMMA TakeKeeps ==
    ASSUME NEW Segments, DlConstants(Segments), DlInv, NEW h \in LockHandlers, Take(h)
    PROVE  DlInv'
<1> DEFINE r == Wanted(h)
           now == dlReq[h].now
<1>1. dlReq' = [x \in LockHandlers |-> dlReq'[x]] /\ RequestsTyped' /\ dlClock' \in Int
  BY TakeFacts, ReturnKeeps DEF DlInv, RowsTyped
<1>2. CASE UNCHANGED <<dlRows, dlTokens>>
  BY <1>1, <1>2, ShrinkKeeps
<1>3. CASE /\ r \in Rows /\ r.token = dlTokens + 1
           /\ Admissible(r, now) /\ dlTokens' = dlTokens + 1
           /\ dlTokens' \in 0 .. MaxTokens
           /\ dlRows' = Swept(now) \cup {r}
  <2> HIDE DEF r, now
  <2>1. Swept(now) \subseteq dlRows
    BY DEF Swept
  <2>2. RowsTyped'
    BY <1>1, <1>3, <2>1 DEF DlInv, RowsTyped
  <2>3. \A l \in Swept(now) : l.token \in Int /\ l.token <= dlTokens
    BY <2>1 DEF DlInv, RowsTyped, TokensUnique, Rows
  <2>4. TokensUnique'
    <3>1. \A l \in dlRows' : l.token <= dlTokens'
      BY <1>3, <2>3 DEF DlInv, RowsTyped
    <3>2. \A l \in Swept(now) : l.token # r.token
      BY <1>3, <2>3 DEF DlInv, RowsTyped
    <3>3. \A k, l \in Swept(now) : k.token = l.token => k = l
      BY <2>1 DEF DlInv, TokensUnique
    <3> QED
      BY <1>3, <3>1, <3>2, <3>3 DEF TokensUnique
  <2>5. RowsCompatible'
    <3>1. \A l \in Swept(now) : ~LocksConflict(l, r) /\ ~LocksConflict(r, l)
      BY <1>3, ConflictSymmetric DEF Admissible, DavLocksAt, Swept
    <3>2. \A k, l \in Swept(now) : k # l => ~LocksConflict(k, l)
      BY <2>1 DEF DlInv, RowsCompatible
    <3> QED
      BY <1>3, <3>1, <3>2 DEF RowsCompatible
  <2> QED
    BY <1>1, <2>2, <2>4, <2>5 DEF DlInv
<1> QED
  BY <1>2, <1>3, TakeFacts

(* What a refresh makes of a row. *)
Extended(h, l) ==
    IF l.token = dlReq[h].token /\ l.expires > dlReq[h].now
    THEN [l EXCEPT !.expires = dlReq[h].now + clampTimeout(dlReq[h].lease)]
    ELSE l

(* Only the lease of the row the token names changes. *)
LEMMA RefreshFacts ==
    ASSUME NEW Segments, DlConstants(Segments), DlInv, NEW h \in LockHandlers, RefreshRow(h)
    PROVE  /\ dlRows' = {Extended(h, l) : l \in dlRows}
           /\ \A l \in dlRows :
                /\ Extended(h, l) \in Rows
                /\ Extended(h, l).token = l.token /\ Extended(h, l).who = l.who
                /\ Extended(h, l).path = l.path /\ Extended(h, l).infinite = l.infinite
                /\ Extended(h, l).shared = l.shared
                /\ l.token # dlReq[h].token => Extended(h, l) = l
           /\ Return(h) /\ UNCHANGED <<dlClock, dlTokens>>
<1>1. dlReq[h].now + clampTimeout(dlReq[h].lease) \in Int
  BY ClampType DEF DlInv, RequestsTyped, RefreshRow
<1>2. \A l \in dlRows : l \in Rows
  BY DEF DlInv, RowsTyped
<1>3. ASSUME NEW l \in Rows, NEW e \in Int
      PROVE  LET m == [l EXCEPT !.expires = e]
             IN  /\ m \in Rows /\ m.token = l.token /\ m.who = l.who /\ m.path = l.path
                 /\ m.infinite = l.infinite /\ m.shared = l.shared
  BY DEF Rows
<1>4. \A l \in dlRows :
        /\ Extended(h, l) \in Rows
        /\ Extended(h, l).token = l.token /\ Extended(h, l).who = l.who
        /\ Extended(h, l).path = l.path /\ Extended(h, l).infinite = l.infinite
        /\ Extended(h, l).shared = l.shared
        /\ l.token # dlReq[h].token => Extended(h, l) = l
  BY <1>1, <1>2, <1>3, Zenon DEF Extended
<1>5. dlRows' = {Extended(h, l) : l \in dlRows}
  BY DEF RefreshRow, RefreshDavLock, Extended
<1> QED
  BY <1>4, <1>5 DEF RefreshRow

(* Refresh's statement. *)
LEMMA RefreshKeeps ==
    ASSUME NEW Segments, DlConstants(Segments), DlInv, NEW h \in LockHandlers, RefreshRow(h)
    PROVE  DlInv'
<1>1. dlReq' = [x \in LockHandlers |-> dlReq'[x]] /\ RequestsTyped'
  BY RefreshFacts, ReturnKeeps DEF DlInv
<1>2. RowsTyped'
  BY <1>1, RefreshFacts DEF DlInv, RowsTyped
<1>3. TokensUnique'
  BY RefreshFacts DEF DlInv, TokensUnique
<1>4. RowsCompatible'
  <2> SUFFICES ASSUME NEW k \in dlRows, NEW l \in dlRows, k # l
               PROVE  ~LocksConflict(Extended(h, k), Extended(h, l))
    BY RefreshFacts DEF RowsCompatible
  <2>1. ~LocksConflict(k, l)
    BY DEF DlInv, RowsCompatible
  <2>2. ~LocksConflict(Extended(h, k), l)
    BY <2>1, RefreshFacts, LeaseIsNoConflict
  <2>3. ~LocksConflict(l, Extended(h, k))
    BY <2>2, ConflictSymmetric
  <2>4. ~LocksConflict(Extended(h, l), Extended(h, k))
    BY <2>3, RefreshFacts, LeaseIsNoConflict
  <2> QED
    BY <2>4, ConflictSymmetric
<1> QED
  BY <1>1, <1>2, <1>3, <1>4 DEF DlInv

(* Every other step starts or ends a request, takes rows away or moves the
   clock. *)
LEMMA OthersShrink ==
    ASSUME NEW Segments, DlConstants(Segments), DlInv, [DlNext]_dlVars,
           \A h \in LockHandlers : ~Take(h) /\ ~RefreshRow(h)
    PROVE  /\ dlRows' \subseteq dlRows /\ dlTokens' = dlTokens
           /\ dlClock' \in Int /\ dlClock <= dlClock'
           /\ dlReq' = [x \in LockHandlers |-> dlReq'[x]] /\ RequestsTyped'
<1>t. RowsTyped /\ RequestsTyped /\ dlClock \in Int
  BY DEF DlInv, RowsTyped
<1>1. CASE UNCHANGED dlVars
  BY <1>1, <1>t DEF dlVars, RowsTyped, RequestsTyped
<1>2. ASSUME NEW h \in LockHandlers, ReleaseRow(h) \/ Put(h) \/ Delete(h) \/ MoveFile(h)
      PROVE  /\ dlRows' \subseteq dlRows /\ dlTokens' = dlTokens /\ dlClock' = dlClock
             /\ Return(h)
  BY <1>2, Zenon DEF ReleaseRow, DropDavLock, Put, Delete, MoveFile, Written
<1>3. ASSUME NEW h \in LockHandlers, NEW ask \in LockAsks, NEW header, Lock(h, ask, header)
      PROVE  /\ UNCHANGED <<dlRows, dlClock, dlTokens>>
             /\ dlReq' = [x \in LockHandlers |-> dlReq'[x]] /\ RequestsTyped'
  <2> DEFINE q == [at |-> "take", ask |-> ask, now |-> dlClock]
  <2>1. dlReq' = [dlReq EXCEPT ![h] = q] /\ UNCHANGED <<dlRows, dlClock, dlTokens>>
    BY <1>3, Zenon DEF Lock
  <2>2. q.at = "take" /\ q.ask \in LockAsks /\ q.now \in Int /\ q.now <= dlClock
    BY <1>t
  <2> HIDE DEF q
  <2> QED
    BY <1>t, <2>1, <2>2, StartKeeps
<1>4. ASSUME NEW h \in LockHandlers, NEW w \in WriteAsks, NEW header, Guarded(h, w, header)
      PROVE  /\ UNCHANGED <<dlRows, dlClock, dlTokens>>
             /\ dlReq' = [x \in LockHandlers |-> dlReq'[x]] /\ RequestsTyped'
  <2> DEFINE q == [at |-> w.op, user |-> w.user, path |-> w.path, to |-> w.to,
                   seen |-> {l.token : l \in DavLocksAt(dlClock)}]
  <2>1. dlReq' = [dlReq EXCEPT ![h] = q] /\ UNCHANGED <<dlRows, dlClock, dlTokens>>
    BY <1>4, Zenon DEF Guarded
  <2>2. q.at = w.op
    OBVIOUS
  <2>3. q.at # "take" /\ q.at # "refresh"
    BY <2>2 DEF DlConstants
  <2> QED
    BY <1>t, <2>1, <2>3, StartKeeps
<1>5. ASSUME NEW h \in LockHandlers, NEW u, NEW token, Unlock(h, u, token)
      PROVE  /\ UNCHANGED <<dlRows, dlClock, dlTokens>>
             /\ dlReq' = [x \in LockHandlers |-> dlReq'[x]] /\ RequestsTyped'
  <2> DEFINE q == [at |-> "release", token |-> token]
  <2>1. dlReq' = [dlReq EXCEPT ![h] = q] /\ UNCHANGED <<dlRows, dlClock, dlTokens>>
    BY <1>5, Zenon DEF Unlock
  <2>2. q.at = "release"
    OBVIOUS
  <2> QED
    BY <1>t, <2>1, <2>2, StartKeeps
<1>6. ASSUME NEW h \in LockHandlers, NEW u, NEW token, NEW lease \in Leases,
             refresh(h, u, token, lease)
      PROVE  /\ UNCHANGED <<dlRows, dlClock, dlTokens>>
             /\ dlReq' = [x \in LockHandlers |-> dlReq'[x]] /\ RequestsTyped'
  <2> DEFINE q == [at |-> "refresh", token |-> token, lease |-> lease, now |-> dlClock]
  <2>1. dlReq' = [dlReq EXCEPT ![h] = q] /\ UNCHANGED <<dlRows, dlClock, dlTokens>>
    BY <1>6, Zenon DEF refresh
  <2>2. q.at = "refresh" /\ q.lease \in Int /\ q.now = dlClock
    BY DEF DlConstants
  <2> QED
    BY <1>t, <2>1, <2>2, StartKeeps
<1>7. CASE SweepDavLocks
  BY <1>7, <1>t DEF SweepDavLocks, Swept, RowsTyped, RequestsTyped
<1>8. CASE Tick
  BY <1>8, <1>t DEF Tick, RowsTyped, RequestsTyped
<1> QED
  BY <1>t, <1>1, <1>2, <1>3, <1>4, <1>5, <1>6, <1>7, <1>8, ReturnKeeps DEF DlNext

(* Every step keeps the invariant. *)
LEMMA DlInvNext ==
    ASSUME NEW Segments, DlConstants(Segments), DlInv, [DlNext]_dlVars
    PROVE  DlInv'
BY TakeKeeps, RefreshKeeps, OthersShrink, ShrinkKeeps

(* The empty table satisfies it. *)
LEMMA DlInvInit ==
    ASSUME NEW Segments, DlConstants(Segments), DlInit
    PROVE  DlInv
<1>1. NoReq.at = "idle"
  BY DEF NoReq
<1> QED
  BY <1>1 DEF DlInit, DlInv, RowsTyped, RequestsTyped, TokensUnique, RowsCompatible,
    DlConstants

------------------------------------------------------------------------------
(* The refinement.                                                         *)

\* The grant a live row stands for.
GrantOf(l) == [token |-> l.token, who |-> l.who, over |-> {p \in LockPaths : covers(l, p)},
               shared |-> l.shared]
Granted == {GrantOf(l) : l \in DavLocksAt(dlClock)}

(* A row is a grant LockPromise knows. *)
LEMMA GrantType ==
    ASSUME NEW l \in Rows
    PROVE  GrantOf(l) \in Promise!Grants
<1>1. l.token \in 1 .. MaxTokens /\ l.who \in LockUsers
  BY DEF Rows
<1>2. l.shared \in BOOLEAN
  BY DEF Rows
<1> QED
  BY <1>1, <1>2 DEF GrantOf, Promise!Grants

(* Rows the database finds compatible are compatible grants. *)
LEMMA CompatibleGrants ==
    ASSUME NEW Segments, DlConstants(Segments), NEW k \in Rows, NEW r \in Rows,
           ~LocksConflict(k, r)
    PROVE  ~Promise!Excludes(GrantOf(r), GrantOf(k))
<1> SUFFICES ASSUME Promise!Excludes(GrantOf(r), GrantOf(k)) PROVE FALSE
  OBVIOUS
<1>1. /\ GrantOf(r).over \cap GrantOf(k).over # {}
      /\ ~(r.shared /\ k.shared)
  BY Zenon DEF Promise!Excludes, GrantOf
<1>2. PICK p \in LockPaths : covers(r, p) /\ covers(k, p)
  BY <1>1 DEF GrantOf
<1>3. locksOverlap(k, r)
  BY <1>2, CoversOverlap
<1> QED
  BY <1>1, <1>3, Zenon DEF LocksConflict

(* A step that adds the grant of one compatible row is a Grant. *)
LEMMA GrantStep ==
    ASSUME NEW Segments, DlConstants(Segments), NEW r \in Rows,
           \A k \in DavLocksAt(dlClock) : k \in Rows /\ ~LocksConflict(k, r),
           Granted' = Granted \cup {GrantOf(r)}
    PROVE  Promise!Grant
<1>1. \A g \in Granted : ~Promise!Excludes(GrantOf(r), g)
  BY CompatibleGrants DEF Granted
<1>2. GrantOf(r) \in Promise!Grants
  BY GrantType
<1> QED
  BY <1>1, <1>2, Zenon DEF Promise!Grant, Granted, GrantOf

(* A step that adds none is a Lapse. *)
LEMMA LapseStep ==
    ASSUME Granted' \subseteq Granted
    PROVE  Promise!Lapse
BY DEF Promise!Lapse, Granted, GrantOf

(* LOCK grants, or finds its own lease run out by the time it writes. *)
LEMMA TakeRefines ==
    ASSUME NEW Segments, DlConstants(Segments), DlInv, NEW h \in LockHandlers, Take(h)
    PROVE  Promise!Grant \/ Promise!Lapse
<1> DEFINE r == Wanted(h)
           now == dlReq[h].now
<1>1. /\ now \in Int /\ dlClock \in Int /\ now <= dlClock /\ dlClock' = dlClock
      /\ \A l \in dlRows : l \in Rows /\ l.expires \in Int
  BY TakeFacts DEF DlInv, RowsTyped, Rows
<1>2. CASE UNCHANGED <<dlRows, dlTokens>>
  <2>1. Granted' \subseteq Granted
    BY <1>1, <1>2 DEF Granted, GrantOf, DavLocksAt
  <2> QED
    BY <2>1, LapseStep
<1>3. CASE /\ r \in Rows /\ Admissible(r, now) /\ dlRows' = Swept(now) \cup {r}
  <2> HIDE DEF r, now
  <2>1. r.expires \in Int
    BY <1>3 DEF Rows
  <2>2. CASE r.expires > dlClock
    <3>1. DavLocksAt(dlClock)' = DavLocksAt(dlClock) \cup {r}
      BY <1>1, <1>3, <2>1, <2>2 DEF DavLocksAt, Swept
    <3>2. Granted' = Granted \cup {GrantOf(r)}
      BY <3>1 DEF Granted, GrantOf
    <3>3. \A k \in DavLocksAt(dlClock) : k \in Rows /\ ~LocksConflict(k, r)
      BY <1>1, <1>3 DEF DavLocksAt, Admissible
    <3> QED
      BY <1>3, <3>2, <3>3, GrantStep
  <2>3. CASE ~(r.expires > dlClock)
    <3>1. DavLocksAt(dlClock)' \subseteq DavLocksAt(dlClock)
      BY <1>1, <1>3, <2>1, <2>3 DEF DavLocksAt, Swept
    <3>2. Granted' \subseteq Granted
      BY <3>1 DEF Granted, GrantOf
    <3> QED
      BY <3>2, LapseStep
  <2> QED
    BY <2>2, <2>3
<1> QED
  BY <1>2, <1>3, TakeFacts

(* A refresh keeps, ends or brings back the grant of its token; what it brings
   back is compatible with every row that was admitted since. *)
LEMMA RefreshRefines ==
    ASSUME NEW Segments, DlConstants(Segments), DlInv, NEW h \in LockHandlers, RefreshRow(h)
    PROVE  Promise!Grant \/ Promise!Lapse
<1> DEFINE X(l) == Extended(h, l)
<1>1. /\ dlRows' = {X(l) : l \in dlRows} /\ dlClock' = dlClock
      /\ \A l \in dlRows :
           /\ X(l) \in Rows /\ X(l).token = l.token /\ X(l).who = l.who
           /\ X(l).path = l.path /\ X(l).infinite = l.infinite /\ X(l).shared = l.shared
           /\ l.token # dlReq[h].token => X(l) = l
  BY RefreshFacts
<1> HIDE DEF X
<1>2. \A l \in dlRows : GrantOf(X(l)) = GrantOf(l)
  BY <1>1, Zenon DEF GrantOf, covers
<1>3. DavLocksAt(dlClock) \subseteq dlRows
  BY DEF DavLocksAt
<1>4. CASE \A l \in dlRows : X(l).expires > dlClock => l.expires > dlClock
  <2>1. Granted' \subseteq Granted
    <3> SUFFICES ASSUME NEW m \in DavLocksAt(dlClock)'
                 PROVE  GrantOf(m) \in Granted
      BY DEF Granted, GrantOf
    <3>1. PICK l \in dlRows : m = X(l) /\ X(l).expires > dlClock
      BY <1>1 DEF DavLocksAt
    <3>2. l \in DavLocksAt(dlClock)
      BY <1>4, <3>1 DEF DavLocksAt
    <3> QED
      BY <1>2, <3>1, <3>2 DEF Granted
  <2> QED
    BY <2>1, LapseStep
<1>5. CASE \E l \in dlRows : X(l).expires > dlClock /\ ~(l.expires > dlClock)
  <2>1. PICK r \in dlRows : X(r).expires > dlClock /\ ~(r.expires > dlClock)
    BY <1>5
  <2>2. r.token = dlReq[h].token
    BY <1>1, <2>1
  <2>3. \A l \in dlRows : l # r => X(l) = l
    BY <1>1, <2>2 DEF DlInv, TokensUnique
  <2>4. Granted' = Granted \cup {GrantOf(r)}
    <3>1. DavLocksAt(dlClock)' = DavLocksAt(dlClock) \cup {X(r)}
      BY <1>1, <2>1, <2>3 DEF DavLocksAt
    <3>2. Granted' = Granted \cup {GrantOf(X(r))}
      BY <3>1 DEF Granted, GrantOf
    <3> QED
      BY <1>2, <3>2
  <2>5. r \in Rows /\ \A k \in DavLocksAt(dlClock) : k \in Rows /\ ~LocksConflict(k, r)
    <3>1. \A k \in DavLocksAt(dlClock) : k \in dlRows /\ k # r
      BY <2>1 DEF DavLocksAt
    <3> QED
      BY <3>1 DEF DlInv, RowsTyped, RowsCompatible
  <2> QED
    BY <2>4, <2>5, GrantStep
<1> QED
  BY <1>4, <1>5

(* Every step of the table is a step of the promise. *)
LEMMA StepRefines ==
    ASSUME NEW Segments, DlConstants(Segments), DlInv, [DlNext]_dlVars
    PROVE  Promise!Grant \/ Promise!Lapse
<1>1. ASSUME \A h \in LockHandlers : ~Take(h) /\ ~RefreshRow(h)
      PROVE  Promise!Lapse
  <2>1. dlRows' \subseteq dlRows /\ dlClock \in Int /\ dlClock' \in Int /\ dlClock <= dlClock'
    BY <1>1, OthersShrink DEF DlInv, RowsTyped
  <2>2. \A l \in dlRows : l.expires \in Int
    BY DEF DlInv, RowsTyped, Rows
  <2>3. DavLocksAt(dlClock)' \subseteq DavLocksAt(dlClock)
    BY <2>1, <2>2 DEF DavLocksAt
  <2>4. Granted' \subseteq Granted
    BY <2>3 DEF Granted, GrantOf
  <2> QED
    BY <2>4, LapseStep
<1> QED
  BY <1>1, TakeRefines, RefreshRefines

------------------------------------------------------------------------------
(* Writes under way.                                                       *)

\* The locks a write has seen were all minted, and the ones that cover what it
\* writes are its own account's, whatever has become of their leases.
SeenMinted ==
    \A h \in LockHandlers : dlReq[h].at \in {"put", "delete", "move"} =>
        dlReq[h].seen \subseteq 1 .. dlTokens

WriteInv == SeenMinted /\ WritesRespectLocks

(* A row of the new table with a token that was minted before was in the old
   one, over the same path and of the same account. *)
LEMMA RowsHaveOrigin ==
    ASSUME NEW Segments, DlConstants(Segments), DlInv, [DlNext]_dlVars
    PROVE  /\ dlTokens <= dlTokens'
           /\ \A l \in dlRows' : l.token <= dlTokens =>
                \E k \in dlRows : /\ k.token = l.token /\ k.who = l.who /\ k.path = l.path
                                  /\ k.infinite = l.infinite
<1>0. dlTokens \in Int
  BY DEF DlInv, RowsTyped
<1>1. ASSUME NEW h \in LockHandlers, Take(h)
      PROVE  dlTokens <= dlTokens' /\ \A l \in dlRows' : l.token <= dlTokens => l \in dlRows
  BY <1>0, <1>1, TakeFacts DEF Swept
<1>2. ASSUME NEW h \in LockHandlers, RefreshRow(h)
      PROVE  /\ dlTokens <= dlTokens'
             /\ \A l \in dlRows' :
                  \E k \in dlRows : /\ k.token = l.token /\ k.who = l.who /\ k.path = l.path
                                    /\ k.infinite = l.infinite
  BY <1>0, <1>2, RefreshFacts
<1>3. ASSUME \A h \in LockHandlers : ~Take(h) /\ ~RefreshRow(h)
      PROVE  dlTokens <= dlTokens' /\ dlRows' \subseteq dlRows
  BY <1>0, <1>3, OthersShrink
<1> QED
  BY <1>1, <1>2, <1>3

(* A request is as it was, has returned, or is a write that has just passed its
   guard. *)
LEMMA WriteOrigin ==
    ASSUME NEW Segments, DlConstants(Segments), DlInv, [DlNext]_dlVars, NEW h \in LockHandlers,
           dlReq'[h].at \in {"put", "delete", "move"}
    PROVE  \/ dlReq'[h] = dlReq[h]
           \/ \E w \in WriteAsks :
                \E header \in ParseIf : Guarded(h, w, header)
<1>1. ASSUME NEW g \in LockHandlers, Return(g) PROVE dlReq'[h] = dlReq[h]
  <2>1. NoReq.at = "idle"
    BY DEF NoReq
  <2> QED
    BY <1>1, <2>1 DEF Return, DlInv, RowsTyped
<1>2. ASSUME NEW g \in LockHandlers, NEW q, dlReq' = [dlReq EXCEPT ![g] = q],
             q.at \notin {"put", "delete", "move"}
      PROVE  dlReq'[h] = dlReq[h]
  BY <1>2 DEF DlInv, RowsTyped
<1>3. ASSUME NEW g \in LockHandlers, g # h, NEW q, dlReq' = [dlReq EXCEPT ![g] = q]
      PROVE  dlReq'[h] = dlReq[h]
  BY <1>3 DEF DlInv, RowsTyped
<1>4. ASSUME NEW g \in LockHandlers,
             Take(g) \/ RefreshRow(g) \/ ReleaseRow(g) \/ Put(g) \/ Delete(g) \/ MoveFile(g)
      PROVE  Return(g)
  BY <1>4, Zenon DEF Take, RefreshRow, ReleaseRow, Put, Delete, MoveFile, Written
<1>5. ASSUME NEW g \in LockHandlers, NEW ask, NEW header, Lock(g, ask, header)
      PROVE  dlReq'[h] = dlReq[h]
  BY <1>2, <1>5 DEF Lock
<1>6. ASSUME NEW g \in LockHandlers, NEW u, NEW token, Unlock(g, u, token)
      PROVE  dlReq'[h] = dlReq[h]
  BY <1>2, <1>6 DEF Unlock
<1>7. ASSUME NEW g \in LockHandlers, NEW u, NEW token, NEW lease, refresh(g, u, token, lease)
      PROVE  dlReq'[h] = dlReq[h]
  BY <1>2, <1>7 DEF refresh
<1>8. ASSUME NEW g \in LockHandlers, g # h, NEW w, NEW header, Guarded(g, w, header)
      PROVE  dlReq'[h] = dlReq[h]
  BY <1>3, <1>8 DEF Guarded
<1>9. CASE SweepDavLocks \/ Tick \/ UNCHANGED dlVars
  BY <1>9 DEF SweepDavLocks, Tick, dlVars
<1> QED
  BY <1>1, <1>4, <1>5, <1>6, <1>7, <1>8, <1>9 DEF DlNext

(* The guard sees every live lock, and no other lock can have a seen token. *)
LEMMA GuardedKeeps ==
    ASSUME NEW Segments, DlConstants(Segments), DlInv, NEW h \in LockHandlers,
           NEW w \in WriteAsks, NEW header, Guarded(h, w, header)
    PROVE  /\ dlReq'[h].seen \subseteq 1 .. dlTokens'
           /\ \A l \in dlRows' : l.token \in dlReq'[h].seen
                /\ (covers(l, dlReq'[h].path) \/ covers(l, dlReq'[h].to))
                => l.who = dlReq'[h].user
<1> DEFINE q == [at |-> w.op, user |-> w.user, path |-> w.path, to |-> w.to,
                 seen |-> {l.token : l \in DavLocksAt(dlClock)}]
<1>1. /\ dlReq' = [dlReq EXCEPT ![h] = q] /\ UNCHANGED <<dlRows, dlTokens>>
      /\ guard(w.path, w.user, header)
      /\ w.op = "move" => guard(w.to, w.user, header)
  BY Zenon DEF Guarded
<1>2. dlReq'[h] = q
  BY <1>1 DEF DlInv, RowsTyped
<1>3. /\ q.path = w.path /\ q.to = w.to /\ q.user = w.user
      /\ q.seen = {l.token : l \in DavLocksAt(dlClock)}
  OBVIOUS
<1> HIDE DEF q
<1>4. \A l \in DavLocksAt(dlClock) : l \in dlRows /\ l.token \in 1 .. dlTokens
  BY DEF DavLocksAt, DlInv, TokensUnique, RowsTyped, Rows
<1>5. \A l \in dlRows : l.token \in q.seen => l \in DavLocksAt(dlClock)
  BY <1>3, <1>4 DEF DlInv, TokensUnique
<1>6. \A l \in DavLocksAt(dlClock) :
        covers(l, w.path) \/ covers(l, w.to) => l.who = w.user
  <2>1. \A l \in DavLocksAt(dlClock) : covers(l, w.path) => l.who = w.user
    BY <1>1, Zenon DEF guard, Guard
  <2>2. CASE w.op = "move"
    BY <1>1, <2>1, <2>2, Zenon DEF guard, Guard
  <2>3. CASE w.op # "move"
    BY <2>1, <2>3 DEF DlConstants
  <2> QED
    BY <2>2, <2>3
<1> QED
  BY <1>1, <1>2, <1>3, <1>4, <1>5, <1>6

(* No step puts another account's lock under a write that has passed its guard
   and seen it. *)
LEMMA WriteInvNext ==
    ASSUME NEW Segments, DlConstants(Segments), DlInv, WriteInv, [DlNext]_dlVars
    PROVE  WriteInv'
<1>0. dlTokens \in Int /\ dlTokens' \in Int
  BY DlInvNext DEF DlInv, RowsTyped
<1> SUFFICES ASSUME NEW h \in LockHandlers, dlReq'[h].at \in {"put", "delete", "move"}
             PROVE  /\ dlReq'[h].seen \subseteq 1 .. dlTokens'
                    /\ \A l \in dlRows' : l.token \in dlReq'[h].seen
                         /\ (covers(l, dlReq'[h].path) \/ covers(l, dlReq'[h].to))
                         => l.who = dlReq'[h].user
  BY DEF WriteInv, SeenMinted, WritesRespectLocks
<1>1. CASE dlReq'[h] = dlReq[h]
  <2>1. /\ dlReq[h].seen \subseteq 1 .. dlTokens
        /\ \A l \in dlRows : l.token \in dlReq[h].seen
             /\ (covers(l, dlReq[h].path) \/ covers(l, dlReq[h].to))
             => l.who = dlReq[h].user
    BY <1>1 DEF WriteInv, SeenMinted, WritesRespectLocks
  <2>2. dlReq[h].seen \subseteq 1 .. dlTokens'
    BY <1>0, <2>1, RowsHaveOrigin
  <2>3. ASSUME NEW l \in dlRows', l.token \in dlReq[h].seen,
               covers(l, dlReq[h].path) \/ covers(l, dlReq[h].to)
        PROVE  l.who = dlReq[h].user
    <3>1. PICK k \in dlRows : /\ k.token = l.token /\ k.who = l.who /\ k.path = l.path
                              /\ k.infinite = l.infinite
      BY <2>1, <2>3, RowsHaveOrigin
    <3>2. covers(k, dlReq[h].path) \/ covers(k, dlReq[h].to)
      BY <2>3, <3>1, Zenon DEF covers
    <3> QED
      BY <2>1, <2>3, <3>1, <3>2
  <2> QED
    BY <1>1, <2>2, <2>3
<1>2. ASSUME NEW w \in WriteAsks, NEW header \in ParseIf, Guarded(h, w, header)
      PROVE  /\ dlReq'[h].seen \subseteq 1 .. dlTokens'
             /\ \A l \in dlRows' : l.token \in dlReq'[h].seen
                  /\ (covers(l, dlReq'[h].path) \/ covers(l, dlReq'[h].to))
                  => l.who = dlReq'[h].user
  BY <1>2, GuardedKeeps
<1> QED
  BY <1>1, <1>2, WriteOrigin

------------------------------------------------------------------------------
(* What follows.                                                           *)

(* The invariant holds in every reachable state. *)
THEOREM LockTableInvariant ==
    ASSUME NEW Segments, DlConstants(Segments)
    PROVE  DlSpec => []DlInv
<1>1. DlInit => DlInv
  BY DlInvInit
<1>2. DlInv /\ [DlNext]_dlVars => DlInv'
  BY DlInvNext
<1> QED
  BY <1>1, <1>2, PTL DEF DlSpec

(* The lock table implements the promise: however LOCKs, refreshes, releases and
   lapsing leases interleave, nobody is granted what an exclusive lock covers. *)
THEOREM LocksKeepPromise ==
    ASSUME NEW Segments, DlConstants(Segments)
    PROVE  DlSpec => KeepsPromise
<1>1. DlInit => Promise!Init
  BY DEF DlInit, Promise!Init, DavLocksAt
<1>2. DlInv /\ [DlNext]_dlVars => Promise!Grant \/ Promise!Lapse
  BY StepRefines
<1> QED
  BY <1>1, <1>2, LockTableInvariant, PTL DEF DlSpec, KeepsPromise, Promise!Spec

(* A write that has passed its guard never lands under a lock that stood then
   and is another account's, whatever happens to the leases in between. *)
THEOREM WritesRespect ==
    ASSUME NEW Segments, DlConstants(Segments)
    PROVE  DlSpec => []WritesRespectLocks
<1>1. DlInit => WriteInv
  <2>1. NoReq.at = "idle"
    BY DEF NoReq
  <2> QED
    BY <2>1 DEF DlInit, WriteInv, SeenMinted, WritesRespectLocks
<1>2. DlInv /\ WriteInv /\ [DlNext]_dlVars => WriteInv'
  BY WriteInvNext
<1>3. WriteInv => WritesRespectLocks
  BY DEF WriteInv
<1> QED
  BY <1>1, <1>2, <1>3, LockTableInvariant, PTL DEF DlSpec

------------------------------------------------------------------------------
(***************************************************************************)
(* The trash, for any paths, any versions and any number of requests.      *)
(***************************************************************************)

\* What the theorem asks of the constants: the mark of an empty path is no
\* version, what is written and what is there at the start are versions.
FtConstants ==
    /\ NoEntry \notin Versions /\ Writes \subseteq Versions
    /\ FirstTrees \subseteq [Paths -> Versions \union {NoEntry}]

\* A trashed entry, and what each kind of request carries.
IsEntry(e) == e.path \in Paths /\ e.ver \in Versions
FtShape(r) ==
    \/ DOMAIN r = {"at"} /\ r.at = "idle"
    \/ /\ DOMAIN r = {"at", "path", "ver", "old", "sent", "hold"}
       /\ r.at \in {"stream", "publish", "settle", "fail"} /\ r.path \in Paths /\ r.ver \in Versions
    \/ /\ DOMAIN r = {"at", "path", "size", "dir"}
       /\ r.at \in {"trash", "unlink", "credit"} /\ r.path \in Paths
    \/ DOMAIN r = {"at", "entry"} /\ r.at = "restore" /\ IsEntry(r.entry)
    \/ DOMAIN r = {"at", "entry", "size"} /\ r.at \in {"purge", "credit"} /\ IsEntry(r.entry)

FtInv ==
    /\ live \in [Paths -> Versions \union {NoEntry}] /\ unwritten \subseteq Versions
    /\ \A e \in trash : IsEntry(e)
    /\ DOMAIN ftReq = Requests /\ \A h \in Requests : FtShape(ftReq[h])

\* A request that goes on or ends keeps the shape of all of them.
LEMMA FtMoves ==
  ASSUME FtInv, NEW h \in Requests, NEW r, FtShape(r), ftReq' = [ftReq EXCEPT ![h] = r]
  PROVE  DOMAIN ftReq' = Requests /\ \A o \in Requests : FtShape(ftReq'[o])
<1>1. DOMAIN ftReq' = Requests /\ \A o \in Requests : ftReq'[o] = IF o = h THEN r ELSE ftReq[o]
  BY DEF FtInv
<1> QED
  BY <1>1 DEF FtInv

\* Where a request may go without losing its shape.
LEMMA FtGoes ==
  ASSUME FtInv, NEW h \in Requests, NEW s,
         \/ ftReq[h].at \in {"stream", "publish"} /\ s \in {"publish", "settle", "fail"}
         \/ ftReq[h].at \in {"trash", "unlink", "purge"} /\ s = "credit"
  PROVE  FtShape([ftReq[h] EXCEPT !.at = s])
<1> DEFINE r == ftReq[h]
           n == [r EXCEPT !.at = s]
<1>1. FtShape(r)
  BY DEF FtInv
<1>2. "at" \in DOMAIN r
  BY <1>1 DEF FtShape
<1>3. DOMAIN n = DOMAIN r /\ n.at = s /\ \A f \in DOMAIN r \ {"at"} : n[f] = r[f]
  BY <1>2
<1> HIDE DEF n
<1>4. CASE DOMAIN r = {"at", "path", "ver", "old", "sent", "hold"} /\ r.at \in {"stream", "publish"} /\ r.path \in Paths /\ r.ver \in Versions
  BY <1>3, <1>4 DEF FtShape
<1>5. CASE DOMAIN r = {"at", "path", "size", "dir"} /\ r.at \in {"trash", "unlink"} /\ r.path \in Paths
  BY <1>3, <1>5 DEF FtShape
<1>6. CASE DOMAIN r = {"at", "entry", "size"} /\ r.at = "purge" /\ IsEntry(r.entry)
  BY <1>3, <1>6 DEF FtShape
<1> QED
  BY <1>1, <1>4, <1>5, <1>6 DEF FtShape, n

\* The steps of a stream rewrite their own counters.
LEMMA FtStreams ==
  ASSUME FtInv, NEW h \in Requests, ftReq[h].at = "stream", DOMAIN ftReq' = Requests,
         \A o \in Requests \ {h} : ftReq'[o] = ftReq[o],
         DOMAIN ftReq'[h] = DOMAIN ftReq[h], ftReq'[h].at \in {"stream", "publish", "fail"},
         ftReq'[h].path = ftReq[h].path, ftReq'[h].ver = ftReq[h].ver
  PROVE  \A o \in Requests : FtShape(ftReq'[o])
<1>1. DOMAIN ftReq[h] = {"at", "path", "ver", "old", "sent", "hold"} /\ ftReq[h].path \in Paths /\ ftReq[h].ver \in Versions
  BY DEF FtInv, FtShape
<1>2. FtShape(ftReq'[h])
  BY <1>1 DEF FtShape
<1> QED
  BY <1>2 DEF FtInv

\* A request begins.
LEMMA FtBegins ==
  ASSUME FtConstants, FtInv, NEW h \in Requests,
         \/ \E p \in Paths, v \in Writes : prepareWrite(h, p, v)
         \/ \E p \in Paths, permanent \in BOOLEAN : DeleteEntry(h, p, permanent)
         \/ \E e \in trash : TrashRestore(h, e) \/ TrashPurge(h, e)
  PROVE  FtInv'
<1>1. ASSUME NEW p \in Paths, NEW v \in Writes, prepareWrite(h, p, v)
      PROVE  FtInv'
  <2> DEFINE r == [at |-> "stream", path |-> p, ver |-> v, old |-> SizeAt(live[p]), sent |-> 0, hold |-> 0]
  <2>1. FtShape(r)
    BY <1>1 DEF FtShape, FtConstants
  <2>2. ftReq' = [ftReq EXCEPT ![h] = r] /\ UNCHANGED <<live, trash>> /\ unwritten' \subseteq unwritten
    BY <1>1 DEF prepareWrite, Begin
  <2> QED
    BY <2>1, <2>2, FtMoves DEF FtInv
<1>2. ASSUME NEW p \in Paths, NEW permanent \in BOOLEAN, DeleteEntry(h, p, permanent)
      PROVE  FtInv'
  <2> DEFINE r == [at |-> IF permanent THEN "unlink" ELSE "trash", path |-> p, size |-> Bytes[live[p]], dir |-> live[p] = Folder]
  <2>1. FtShape(r)
    BY DEF FtShape
  <2>2. ftReq' = [ftReq EXCEPT ![h] = r] /\ UNCHANGED <<live, trash, unwritten>>
    BY <1>2 DEF DeleteEntry, Begin
  <2> QED
    BY <2>1, <2>2, FtMoves DEF FtInv
<1>3. ASSUME NEW e \in trash, TrashRestore(h, e)
      PROVE  FtInv'
  <2> DEFINE r == [at |-> "restore", entry |-> e]
  <2>1. FtShape(r)
    BY DEF FtShape, FtInv
  <2>2. ftReq' = [ftReq EXCEPT ![h] = r] /\ UNCHANGED <<live, trash, unwritten>>
    BY <1>3 DEF TrashRestore, Begin
  <2> QED
    BY <2>1, <2>2, FtMoves DEF FtInv
<1>4. ASSUME NEW e \in trash, TrashPurge(h, e)
      PROVE  FtInv'
  <2> DEFINE r == [at |-> "purge", entry |-> e, size |-> Bytes[e.ver]]
  <2>1. FtShape(r)
    BY DEF FtShape, FtInv
  <2>2. ftReq' = [ftReq EXCEPT ![h] = r] /\ UNCHANGED <<live, trash, unwritten>>
    BY <1>4 DEF TrashPurge, Begin
  <2> QED
    BY <2>1, <2>2, FtMoves DEF FtInv
<1> QED
  BY <1>1, <1>2, <1>3, <1>4

\* A request takes its next step.
LEMMA FtGoesOn ==
  ASSUME FtConstants, FtInv, NEW h \in Requests,
         \/ reserveGrowth(h) \/ Sized(h) \/ BodyFails(h) \/ WriteDurable(h) \/ settleQuota(h)
         \/ releaseQuota(h)
         \/ trashMove(h) \/ deleteResolvedEntry(h) \/ chargeQuota(h)
         \/ RestoreRename(h) \/ PurgeDelete(h)
  PROVE  FtInv'
<1> DEFINE r == ftReq[h]
<1>0. FtShape(r) /\ DOMAIN ftReq = Requests /\ FtShape([at |-> "idle"])
  BY DEF FtInv, FtShape
<1>r. ASSUME Reply(h) PROVE DOMAIN ftReq' = Requests /\ \A o \in Requests : FtShape(ftReq'[o])
  BY <1>0, <1>r, FtMoves DEF Reply
<1>g. ASSUME NEW s, Go(h, s),
             \/ r.at \in {"stream", "publish"} /\ s \in {"publish", "settle", "fail"}
             \/ r.at \in {"trash", "unlink", "purge"} /\ s = "credit"
      PROVE  DOMAIN ftReq' = Requests /\ \A o \in Requests : FtShape(ftReq'[o])
  <2>1. ftReq' = [ftReq EXCEPT ![h] = [ftReq[h] EXCEPT !.at = s]]
    BY <1>g DEF Go
  <2>2. FtShape([ftReq[h] EXCEPT !.at = s])
    BY <1>g, FtGoes
  <2> QED
    BY <2>1, <2>2, FtMoves
<1>l. ASSUME NEW p \in Paths, NEW v \in Versions \union {NoEntry}, live' = [live EXCEPT ![p] = v]
      PROVE  live' \in [Paths -> Versions \union {NoEntry}]
  BY <1>l DEF FtInv
<1>1. CASE reserveGrowth(h)
  <2>1. r.at = "stream" /\ UNCHANGED <<live, trash, unwritten>>
    BY <1>1 DEF reserveGrowth
  <2>2. DOMAIN r = {"at", "path", "ver", "old", "sent", "hold"}
    BY <1>0, <2>1 DEF FtShape
  <2>3. \/ ftReq' = [ftReq EXCEPT ![h].sent = @ + 1]
        \/ \E n : ftReq' = [ftReq EXCEPT ![h].sent = @ + 1, ![h].hold = @ + n]
        \/ ftReq' = [ftReq EXCEPT ![h].at = "fail"]
    BY <1>1, Zenon DEF reserveGrowth
  <2>4. /\ DOMAIN ftReq' = Requests /\ \A o \in Requests \ {h} : ftReq'[o] = ftReq[o]
        /\ DOMAIN ftReq'[h] = DOMAIN r /\ ftReq'[h].at \in {"stream", "publish", "fail"}
        /\ ftReq'[h].path = r.path /\ ftReq'[h].ver = r.ver
    <3>1. CASE ftReq' = [ftReq EXCEPT ![h].sent = @ + 1]
      BY <1>0, <2>1, <2>2, <3>1
    <3>2. CASE \E n : ftReq' = [ftReq EXCEPT ![h].sent = @ + 1, ![h].hold = @ + n]
      BY <1>0, <2>1, <2>2, <3>2
    <3>3. CASE ftReq' = [ftReq EXCEPT ![h].at = "fail"]
      BY <1>0, <2>1, <2>2, <3>3
    <3> QED
      BY <2>3, <3>1, <3>2, <3>3
  <2>5. \A o \in Requests : FtShape(ftReq'[o])
    BY <2>1, <2>4, FtStreams
  <2> QED
    BY <2>1, <2>4, <2>5 DEF FtInv
<1>2. CASE Sized(h)
  <2>1. r.at = "stream" /\ UNCHANGED <<live, trash, unwritten>>
    BY <1>2 DEF Sized
  <2>2. DOMAIN r = {"at", "path", "ver", "old", "sent", "hold"}
    BY <1>0, <2>1 DEF FtShape
  <2>3. PICK keep : ftReq' = [ftReq EXCEPT ![h].at = "publish", ![h].hold = keep]
    BY <1>2, Zenon DEF Sized
  <2>4. /\ DOMAIN ftReq' = Requests /\ \A o \in Requests \ {h} : ftReq'[o] = ftReq[o]
        /\ DOMAIN ftReq'[h] = DOMAIN r /\ ftReq'[h].at \in {"stream", "publish", "fail"}
        /\ ftReq'[h].path = r.path /\ ftReq'[h].ver = r.ver
    BY <1>0, <2>1, <2>2, <2>3
  <2>5. \A o \in Requests : FtShape(ftReq'[o])
    BY <2>1, <2>4, FtStreams
  <2> QED
    BY <2>1, <2>4, <2>5 DEF FtInv
<1>3. CASE BodyFails(h)
  BY <1>3, <1>g DEF BodyFails, FtInv
<1>4. CASE WriteDurable(h)
  <2>1. r.at = "publish" /\ UNCHANGED <<trash, unwritten>> /\ (Go(h, "fail") \/ Go(h, "settle"))
        /\ (UNCHANGED live \/ live' = [live EXCEPT ![r.path] = r.ver])
    BY <1>4 DEF WriteDurable
  <2>2. r.path \in Paths /\ r.ver \in Versions
    BY <1>0, <2>1 DEF FtShape
  <2>3. live' \in [Paths -> Versions \union {NoEntry}]
    BY <2>1, <2>2, <1>l DEF FtInv
  <2> QED
    BY <2>1, <2>3, <1>g DEF FtInv
<1>5. CASE settleQuota(h) \/ releaseQuota(h) \/ chargeQuota(h)
  BY <1>5, <1>r DEF settleQuota, releaseQuota, chargeQuota, FtInv
<1>6. CASE trashMove(h)
  <2>1. r.at = "trash" /\ UNCHANGED unwritten /\ Reply(h)
    BY <1>6 DEF trashMove
  <2>2. r.path \in Paths
    BY <1>0, <2>1 DEF FtShape
  <2>3. CASE UNCHANGED <<live, trash>>
    BY <2>1, <2>3, <1>r DEF FtInv
  <2>4. CASE /\ live[r.path] # NoEntry /\ live' = [live EXCEPT ![r.path] = NoEntry]
             /\ trash' = trash \cup {[ver |-> live[r.path], path |-> r.path]}
    <3>1. IsEntry([ver |-> live[r.path], path |-> r.path])
      BY <2>2, <2>4 DEF IsEntry, FtInv
    <3>2. live' \in [Paths -> Versions \union {NoEntry}]
      BY <2>2, <2>4, <1>l
    <3> QED
      BY <2>1, <2>4, <3>1, <3>2, <1>r DEF FtInv
  <2> QED
    BY <1>6, <2>3, <2>4 DEF trashMove
<1>7. CASE deleteResolvedEntry(h)
  <2>1. r.at = "unlink" /\ UNCHANGED <<trash, unwritten>> /\ (Reply(h) \/ Go(h, "credit"))
        /\ (UNCHANGED live \/ live' = [live EXCEPT ![r.path] = NoEntry])
    BY <1>7 DEF deleteResolvedEntry
  <2>2. r.path \in Paths
    BY <1>0, <2>1 DEF FtShape
  <2>3. live' \in [Paths -> Versions \union {NoEntry}]
    BY <2>1, <2>2, <1>l DEF FtInv
  <2> QED
    BY <2>1, <2>3, <1>g, <1>r DEF FtInv
<1>8. CASE RestoreRename(h)
  <2>1. r.at = "restore" /\ UNCHANGED unwritten /\ Reply(h) /\ trash' \subseteq trash
        /\ (UNCHANGED live \/ live' = [live EXCEPT ![r.entry.path] = r.entry.ver])
    BY <1>8 DEF RestoreRename
  <2>2. IsEntry(r.entry)
    BY <1>0, <2>1 DEF FtShape
  <2>3. live' \in [Paths -> Versions \union {NoEntry}]
    BY <2>1, <2>2, <1>l DEF FtInv, IsEntry
  <2> QED
    BY <2>1, <2>3, <1>r DEF FtInv
<1>9. CASE PurgeDelete(h)
  <2>1. r.at = "purge" /\ UNCHANGED <<live, unwritten>> /\ (Reply(h) \/ Go(h, "credit")) /\ trash' \subseteq trash
    BY <1>9 DEF PurgeDelete
  <2> QED
    BY <2>1, <1>g, <1>r DEF FtInv
<1> QED
  BY <1>1, <1>2, <1>3, <1>4, <1>5, <1>6, <1>7, <1>8, <1>9

\* Every step of the trash keeps the invariant.
LEMMA FtInvStep ==
  ASSUME FtConstants, FtInv, [FtNext]_ftVars
  PROVE  FtInv'
<1>1. ASSUME NEW p \in Paths, NEW q \in Paths, RenameEntry(p, q) PROVE FtInv'
  BY <1>1 DEF RenameEntry, FtInv
<1>2. CASE ProcessEnds
  BY <1>2 DEF ProcessEnds, FtInv, FtShape
<1>3. CASE UNCHANGED ftVars
  BY <1>3 DEF ftVars, FtInv
<1> QED
  BY <1>1, <1>2, <1>3, FtBegins, FtGoesOn DEF FtNext

\* A restore that ends leaves every version where it was, or where it came back.
LEMMA RestoreLoses ==
  ASSUME FtConstants, FtInv, NEW h \in Requests, RestoreRename(h), NEW v \in Versions, Kept(v)
  PROVE  Kept(v)'
<1> DEFINE e == ftReq[h].entry
<1>1. IsEntry(e)
  BY DEF FtInv, FtShape, RestoreRename
<1>2. CASE UNCHANGED <<live, trash>>
  BY <1>2 DEF Kept
<1>3. CASE e \in trash /\ live[e.path] = NoEntry /\ live' = [live EXCEPT ![e.path] = e.ver] /\ trash' = trash \ {e}
  <2>1. live'[e.path] = e.ver /\ \A p \in Paths \ {e.path} : live'[p] = live[p]
    BY <1>1, <1>3 DEF FtInv, IsEntry
  <2> QED
    BY <1>1, <1>3, <2>1 DEF Kept, IsEntry, FtConstants
<1> QED
  BY <1>2, <1>3 DEF RestoreRename

\* A restore never destroys newer data, whatever was written to its path between
\* its look and its rename (trash.go TrashRestore).
THEOREM RestoresKeepNewer ==
    ASSUME FtConstants
    PROVE  FtSpec => RestoreKeepsNewer
<1>1. FtInit => FtInv
  BY DEF FtInit, FtInv, FtConstants, FtShape
<1>2. FtInv /\ [FtNext]_ftVars => FtInv'
  BY FtInvStep
<1>3. FtInv /\ [FtNext]_ftVars =>
        [\A h \in Requests : ftReq[h].at = "restore" /\ ftReq'[h].at = "idle" /\ mixed' = mixed
            => \A v \in Versions : Kept(v) => Kept(v)']_ftVars
  <2> SUFFICES ASSUME FtInv, FtNext, NEW h \in Requests, ftReq[h].at = "restore", ftReq'[h].at = "idle",
                      NEW v \in Versions, Kept(v)
               PROVE  Kept(v)'
    BY DEF ftVars
  <2>1. CASE UNCHANGED <<live, trash>>
    BY <2>1 DEF Kept
  <2>2. ASSUME NEW o \in Requests, o # h, ftReq'[h] # ftReq[h],
               \/ reserveGrowth(o) \/ Sized(o) \/ BodyFails(o) \/ WriteDurable(o) \/ settleQuota(o)
               \/ releaseQuota(o)
               \/ trashMove(o) \/ deleteResolvedEntry(o) \/ chargeQuota(o)
               \/ RestoreRename(o) \/ PurgeDelete(o)
        PROVE  FALSE
    <3>1. ASSUME NEW r, ftReq' = [ftReq EXCEPT ![o] = r] PROVE FALSE
      BY <2>2, <3>1
    <3>2. ASSUME Reply(o) PROVE FALSE
      BY <3>1, <3>2 DEF Reply
    <3>3. ASSUME NEW s, Go(o, s) PROVE FALSE
      BY <3>1, <3>3 DEF Go
    <3>4. CASE reserveGrowth(o)
      BY <3>4, <3>1 DEF reserveGrowth
    <3>5. CASE Sized(o)
      BY <3>5, <3>1 DEF Sized
    <3>6. CASE BodyFails(o) \/ WriteDurable(o) \/ deleteResolvedEntry(o) \/ PurgeDelete(o)
      BY <3>6, <3>2, <3>3 DEF BodyFails, WriteDurable, deleteResolvedEntry, PurgeDelete
    <3>7. CASE settleQuota(o) \/ releaseQuota(o) \/ trashMove(o) \/ chargeQuota(o) \/ RestoreRename(o)
      BY <3>7, <3>2 DEF settleQuota, releaseQuota, trashMove, chargeQuota, RestoreRename
    <3> QED
      BY <2>2, <3>4, <3>5, <3>6, <3>7
  <2>3. ASSUME NEW o \in Requests,
               \/ reserveGrowth(o) \/ Sized(o) \/ BodyFails(o) \/ WriteDurable(o) \/ settleQuota(o)
               \/ releaseQuota(o)
               \/ trashMove(o) \/ deleteResolvedEntry(o) \/ chargeQuota(o)
               \/ RestoreRename(o) \/ PurgeDelete(o)
        PROVE  Kept(v)'
    <3>1. o = h
      BY <2>2, <2>3
    <3>2. RestoreRename(h)
      BY <2>3, <3>1 DEF reserveGrowth, Sized, BodyFails, WriteDurable, settleQuota, releaseQuota, trashMove,
                        deleteResolvedEntry, chargeQuota, PurgeDelete
    <3> QED
      BY <3>2, RestoreLoses
  <2>4. ASSUME NEW p \in Paths, NEW q \in Paths, RenameEntry(p, q) PROVE FALSE
    BY <2>4 DEF RenameEntry
  <2>5. ASSUME NEW o \in Requests,
               \/ \E p \in Paths, w \in Writes : prepareWrite(o, p, w)
               \/ \E p \in Paths, permanent \in BOOLEAN : DeleteEntry(o, p, permanent)
               \/ \E e \in trash : TrashRestore(o, e) \/ TrashPurge(o, e)
        PROVE  UNCHANGED <<live, trash>>
    BY <2>5 DEF prepareWrite, DeleteEntry, TrashRestore, TrashPurge
  <2>6. CASE ProcessEnds
    BY <2>6, <2>1 DEF ProcessEnds
  <2> QED
    BY <2>1, <2>3, <2>4, <2>5, <2>6 DEF FtNext
<1> QED
  BY <1>1, <1>2, <1>3, PTL DEF FtSpec, RestoreKeepsNewer

------------------------------------------------------------------------------
(***************************************************************************)
(* The parts together.  A part out of focus stutters, so a behaviour of    *)
(* the composition is one of each part's specification, and what is proved *)
(* of a part holds in the composition.                                     *)
(***************************************************************************)

\* What is asked of the constants of the proved parts.
StorageConstants(Segments) == NiConstants /\ DlConstants(Segments) /\ FtConstants

\* A step of the composition is a step of each part, or leaves it alone.
LEMMA StorageStepOfPart ==
  ASSUME [Next]_vars
  PROVE  [TtNext]_ttVars /\ [OpNext]_opVars /\ [FtNext]_ftVars /\ [DlNext]_dlVars /\ [NiNext]_niVars
BY DEF Next, vars, Only, DirectTransferStep, TransferTreeStep, OperationQueueStep, FileTrashStep, DavLocksStep,
       ChangeFeedStep, DirRollupsStep, SearchIndexStep, NodeIdsStep, ChunkCollectionStep, UploadClientStep,
       UploadDebrisStep

\* A behaviour of the composition is a behaviour of each part.
LEMMA StorageRunsParts == Spec => TtSpec /\ OpSpec /\ FtSpec /\ DlSpec /\ NiSpec
<1>1. Init => TtInit /\ OpInit /\ FtInit /\ DlInit /\ NiInit
  BY DEF Init
<1> QED
  BY <1>1, StorageStepOfPart, PTL DEF Spec, TtSpec, OpSpec, FtSpec, DlSpec, NiSpec

\* Nothing stored or told is lost: by a copy or a move of a tree (transfer.go),
\* by a copy job and its workers (opqueue.go), by a write past a lock (locks.go)
\* or by a rebuild of the ids (id.go).
THEOREM NothingIsLost ==
    ASSUME NEW Segments, StorageConstants(Segments)
    PROVE  Spec => []NothingLost
<1>0. NiConstants /\ DlConstants(Segments)
  BY DEF StorageConstants
<1>1. TtSpec => []SourceKept /\ []PlainErrorRestores
  BY TransferKeepsSource, TransferErrorRestores
<1>2. OpSpec => []HonestOutcome /\ []RunningIsOwned
  BY OutcomesHonest, RunningAreOwned
<1>3. DlSpec => []WritesRespectLocks
  BY <1>0, WritesRespect
<1>4. NiSpec => []IdsUnique /\ []IdsStable
  BY <1>0, IdsAreUnique, IdsSurviveRebuild
<1>5. SourceKept /\ PlainErrorRestores /\ HonestOutcome /\ RunningIsOwned /\ WritesRespectLocks
      /\ IdsUnique /\ IdsStable => NothingLost
  BY DEF NothingLost
<1> QED
  BY <1>1, <1>2, <1>3, <1>4, <1>5, StorageRunsParts, PTL

\* What is there is not replaced: by a restore from the trash (trash.go) or by
\* what happens to a job after it ended (opqueue.go).
THEOREM NothingIsReplaced ==
    ASSUME FtConstants
    PROVE  Spec => NeverReplaced
<1>1. FtSpec => RestoreKeepsNewer
  BY RestoresKeepNewer
<1>2. OpSpec => FinishedStays
  BY FinishedStaysFinished
<1> QED
  BY <1>1, <1>2, StorageRunsParts, PTL DEF NeverReplaced

\* In the composition too, nobody is granted what another's exclusive lock covers
\* (AdmitDavLock, RefreshDavLock).
THEOREM StorageKeepsPromise ==
    ASSUME NEW Segments, DlConstants(Segments)
    PROVE  Spec => KeepsPromise
<1>1. DlSpec => KeepsPromise
  BY LocksKeepPromise
<1> QED
  BY <1>1, StorageRunsParts, PTL
==============================================================================
