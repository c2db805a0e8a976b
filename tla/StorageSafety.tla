---------------------------- MODULE StorageSafety ----------------------------
(***************************************************************************)
(* How a change on disk reaches those who look: the cached rollups, the    *)
(* change feed and the search index, each for every value of its           *)
(* constants, and then the three in the composition of the storage parts.  *)
(***************************************************************************)
EXTENDS MCStorage, FiniteSetTheorems, SequenceTheorems, TLAPS

------------------------------------------------------------------------------
(***************************************************************************)
(* The rollups.  A walk reads directories one after the other while they   *)
(* change and are marked; what it has counted stays sound as long as its   *)
(* generation is the share's, and the levels it is at cover, together with *)
(* the directories still to visit, everything beneath the first.           *)
(***************************************************************************)

\* What the theorems ask of the constants: a tree of directories below "root",
\* of any depth, none of which is called "all"; and so many changes.
DrConstants ==
    /\ "root" \in DrDirs /\ "all" \notin DrDirs /\ DrChanges \in Nat
    /\ ParentOf \in [DrDirs \ {"root"} -> DrDirs]
    /\ \A d \in DrDirs : "root" \in ChainOf(d)

------------------------------------------------------------------------------
(* The inductive invariant.                                                *)

Rollups == UNION {[S -> Nat] : S \in SUBSET DrDirs}
RowsOf == [node : BOOLEAN, valid : BOOLEAN, gen : Nat, val : Rollups, raced : BOOLEAN]
LevelsOf == [dir : DrDirs, gen : Nat, listed : BOOLEAN, val : Rollups, todo : SUBSET DrDirs, raced : BOOLEAN]

DrTyped ==
    /\ drDisk \in [DrDirs -> Nat] /\ drFloor \in [DrDirs -> Nat] /\ drGen \in Nat /\ drLeft \in Nat
    /\ drToMark \subseteq DrDirs \union {"all"}
    /\ drRow \in [DrDirs -> RowsOf] /\ drWalk \in [Walks -> Seq(LevelsOf)]
    /\ \A e \in DrDirs : drFloor[e] <= drDisk[e]

\* What a rollup says of a directory it counts.
Sound(val, raced, e) == (raced \/ Unmarked(e) \/ val[e] = drDisk[e]) /\ val[e] >= drFloor[e]

\* A row that is served counts everything beneath its directory, soundly.
RowOK(d) ==
    LET r == drRow[d]
    IN /\ r.gen <= drGen
       /\ r.valid => r.node /\ DOMAIN r.val = Below(d)
       /\ DirEtag(d) => \A e \in Below(d) : Sound(r.val, r.raced, e)

\* What a level that was listed has counted is sound while its generation is the
\* share's; the rest is beneath a directory it has still to visit.
Counted(f, below) ==
    /\ DOMAIN f.val \subseteq Below(f.dir)
    /\ \A e \in Below(f.dir) : e \in DOMAIN f.val \/ (\E c \in f.todo : e \in Below(c)) \/ e \in below
    /\ f.todo \subseteq ChildrenOf(f.dir)
    /\ f.gen = drGen => \A e \in DOMAIN f.val : Sound(f.val, f.raced, e)

\* A level that waits for the one it descended into, and the deepest one.
InnerOK(f, g) == f.listed /\ g.dir \in ChildrenOf(f.dir) /\ g.gen = f.gen /\ Counted(f, Below(g.dir))
TopOK(f) == f.listed => Counted(f, {})

WalkOK(s) ==
    /\ \A i \in 1..Len(s) : s[i].gen <= drGen
    /\ \A i \in 1..Len(s) : i < Len(s) => InnerOK(s[i], s[i + 1])
    /\ s # <<>> => TopOK(s[Len(s)])

\* The directory of a level has an id.
KnownDirs(s) == \A i \in 1..Len(s) : drRow[s[i].dir].node

DrInv ==
    /\ DrTyped /\ \A d \in DrDirs : RowOK(d)
    /\ \A w \in Walks : WalkOK(drWalk[w]) /\ KnownDirs(drWalk[w])

------------------------------------------------------------------------------
(* The tree.                                                               *)

\* A chain is closed upwards.
LEMMA ChainClosed ==
  ASSUME DrConstants, NEW d \in DrDirs
  PROVE  ChainOf(d) \subseteq DrDirs /\ d \in ChainOf(d) /\ ClosedAbove(ChainOf(d))
<1>1. ASSUME NEW e \in ChainOf(d) \ {"root"} PROVE ParentOf[e] \in ChainOf(d)
  BY <1>1 DEF DrConstants, ChainOf, ClosedAbove
<1> QED
  BY <1>1 DEF ChainOf, ClosedAbove

LEMMA ChainDown ==
  ASSUME DrConstants, NEW d \in DrDirs, NEW c \in ChildrenOf(d)
  PROVE  c \in DrDirs /\ Below(c) \subseteq Below(d)
<1>1. c \in DrDirs \ {"root"} /\ ParentOf[c] = d
  BY DEF ChildrenOf
<1>2. ASSUME NEW e \in Below(c) PROVE e \in Below(d)
  BY <1>1, <1>2, ChainClosed DEF Below, ClosedAbove
<1> QED
  BY <1>1, <1>2

\* What is beneath a directory is the directory, or beneath one of its children:
\* without the child, the chain could be climbed past the directory.
LEMMA BelowSplit ==
  ASSUME DrConstants, NEW d \in DrDirs, NEW e \in Below(d)
  PROVE  e = d \/ \E c \in ChildrenOf(d) : e \in Below(c)
<1> SUFFICES ASSUME e # d, \A c \in ChildrenOf(d) : e \notin Below(c)
             PROVE  FALSE
  OBVIOUS
<1> DEFINE S == ChainOf(e) \ {d}
<1>1. e \in DrDirs /\ d \in ChainOf(e)
  BY DEF Below
<1>2. S \subseteq DrDirs /\ e \in S
  BY <1>1, ChainClosed
<1>3. ASSUME NEW x \in S \ {"root"} PROVE ParentOf[x] \in S
  <2>1. ParentOf[x] \in ChainOf(e)
    BY <1>1, ChainClosed DEF ClosedAbove
  <2>2. ParentOf[x] # d
    BY <1>1, <1>2 DEF ChildrenOf, Below
  <2> QED
    BY <2>1, <2>2
<1>4. ClosedAbove(S)
  BY <1>3 DEF ClosedAbove
<1>5. d \in S
  BY <1>1, <1>2, <1>4 DEF ChainOf
<1> QED
  BY <1>5

LEMMA OverRollup ==
  ASSUME NEW f \in Rollups, NEW g \in Rollups
  PROVE  /\ Over(f, g) \in Rollups
         /\ DOMAIN Over(f, g) = DOMAIN f \union DOMAIN g
         /\ \A e \in DOMAIN f : Over(f, g)[e] = f[e]
         /\ \A e \in DOMAIN g \ DOMAIN f : Over(f, g)[e] = g[e]
<1>1. DOMAIN f \union DOMAIN g \in SUBSET DrDirs
  BY DEF Rollups
<1>2. Over(f, g) \in [DOMAIN f \union DOMAIN g -> Nat]
  BY DEF Over, Rollups
<1>3. Over(f, g) \in Rollups
  BY <1>1, <1>2 DEF Rollups
<1> QED
  BY <1>3 DEF Over

LEMMA NoValRollup == NoVal \in Rollups /\ NoVal = [e \in {} |-> 0]
<1>1. NoVal \in [{} -> Nat]
  BY DEF NoVal
<1> QED
  BY <1>1 DEF Rollups, NoVal

------------------------------------------------------------------------------
(* Initially, and the changes and their markings.                          *)

LEMMA DrInvInit == ASSUME DrConstants, DrInit PROVE DrInv
<1>1. DrTyped
  BY NoValRollup DEF DrInit, DrTyped, NoRow, RowsOf, DrConstants
<1>2. ASSUME NEW d \in DrDirs PROVE RowOK(d)
  BY DEF DrInit, RowOK, NoRow, DirEtag
<1>3. ASSUME NEW w \in Walks PROVE WalkOK(drWalk[w])
  BY DEF DrInit, WalkOK
<1>4. ASSUME NEW w \in Walks PROVE KnownDirs(drWalk[w])
  BY DEF DrInit, KnownDirs
<1> QED
  BY <1>1, <1>2, <1>3, <1>4 DEF DrInv

\* What depends on nothing that a step changes stays.
LEMMA WalkStays ==
  ASSUME NEW s, WalkOK(s), s \in Seq(LevelsOf),
         drGen' = drGen,
         \A val \in Rollups, raced \in BOOLEAN : \A e \in DrDirs : Sound(val, raced, e) => Sound(val, raced, e)'
  PROVE  WalkOK(s)'
<1>1. ASSUME NEW f \in LevelsOf, NEW B, Counted(f, B) PROVE Counted(f, B)'
  <2>1. f.val \in Rollups /\ f.raced \in BOOLEAN /\ DOMAIN f.val \subseteq DrDirs
    BY DEF LevelsOf, Rollups
  <2> QED
    BY <1>1, <2>1 DEF Counted, Below, ChainOf, ChildrenOf
<1>2. \A i \in 1..Len(s) : s[i] \in LevelsOf
  OBVIOUS
<1>3. \A i \in 1..Len(s) : s[i].gen <= drGen'
  BY DEF WalkOK
<1>4. \A i \in 1..Len(s) : i < Len(s) => InnerOK(s[i], s[i + 1])'
  <2> SUFFICES ASSUME NEW i \in 1..Len(s), i < Len(s) PROVE InnerOK(s[i], s[i + 1])'
    OBVIOUS
  <2>1. InnerOK(s[i], s[i + 1]) /\ s[i] \in LevelsOf
    BY <1>2 DEF WalkOK
  <2>2. Counted(s[i], Below(s[i + 1].dir))'
    BY <1>1, <2>1 DEF InnerOK, Below, ChainOf
  <2> QED
    BY <2>1, <2>2 DEF InnerOK, ChildrenOf
<1>5. s # <<>> => TopOK(s[Len(s)])'
  <2> SUFFICES ASSUME s # <<>> PROVE TopOK(s[Len(s)])'
    OBVIOUS
  <2>1. s[Len(s)] \in LevelsOf
    BY <1>2
  <2> QED
    BY <1>1, <2>1 DEF WalkOK, TopOK
<1> QED
  BY <1>3, <1>4, <1>5 DEF WalkOK

LEMMA ChangeKeeps ==
  ASSUME DrConstants, DrInv, NEW d \in DrDirs, ChangeEntries(d)
  PROVE  DrInv'
<1>1. \A val \in Rollups, raced \in BOOLEAN : \A e \in DrDirs : Sound(val, raced, e) => Sound(val, raced, e)'
  <2>1. \A e \in DrDirs : (Unmarked(e) => Unmarked(e)') /\ (e = d => Unmarked(e)') /\ (e # d => drDisk'[e] = drDisk[e])
    BY DEF ChangeEntries, Unmarked, DrInv, DrTyped
  <2> QED
    BY <2>1 DEF Sound, ChangeEntries
<1>2. DrTyped'
  BY DEF DrInv, DrTyped, ChangeEntries
<1>3. ASSUME NEW x \in DrDirs PROVE RowOK(x)'
  <2>1. drRow[x].val \in Rollups /\ drRow[x].raced \in BOOLEAN /\ RowOK(x)
    BY DEF DrInv, DrTyped, RowsOf
  <2>2. DirEtag(x)' = DirEtag(x) /\ Below(x)' = Below(x) /\ Below(x) \subseteq DrDirs
    BY DEF DirEtag, ChangeEntries, Below, ChainOf
  <2> QED
    BY <1>1, <2>1, <2>2 DEF RowOK, ChangeEntries
<1>4. ASSUME NEW w \in Walks PROVE WalkOK(drWalk[w])'
  BY <1>1, <1>2, WalkStays DEF DrInv, DrTyped, ChangeEntries
<1>5. ASSUME NEW w \in Walks PROVE KnownDirs(drWalk[w])'
  BY DEF DrInv, KnownDirs, ChangeEntries
<1> QED
  BY <1>2, <1>3, <1>4, <1>5 DEF DrInv

\* After the share's generation moved on, nothing a walk has counted is stored
\* for the new one.
LEMMA WalkBumped ==
  ASSUME NEW s \in Seq(LevelsOf), WalkOK(s), drGen \in Nat, drGen' = drGen + 1
  PROVE  WalkOK(s)'
<1>1. \A i \in 1..Len(s) : s[i] \in LevelsOf
  OBVIOUS
<1>2. \A i \in 1..Len(s) : s[i].gen \in Nat /\ s[i].gen <= drGen
  BY <1>1 DEF WalkOK, LevelsOf
<1>3. ASSUME NEW f, NEW B, Counted(f, B), f.gen \in Nat, f.gen <= drGen PROVE Counted(f, B)'
  BY <1>3 DEF Counted, Below, ChainOf, ChildrenOf
<1>4. ASSUME NEW i \in 1..Len(s), i < Len(s) PROVE InnerOK(s[i], s[i + 1])'
  <2>1. InnerOK(s[i], s[i + 1])
    BY <1>4 DEF WalkOK
  <2>2. Counted(s[i], Below(s[i + 1].dir))'
    BY <1>2, <1>3, <2>1 DEF InnerOK, Below, ChainOf
  <2> QED
    BY <2>1, <2>2 DEF InnerOK, ChildrenOf
<1>5. ASSUME s # <<>> PROVE TopOK(s[Len(s)])'
  <2>1. Len(s) \in 1..Len(s)
    BY <1>5
  <2>2. TopOK(s[Len(s)])
    BY <1>5 DEF WalkOK
  <2> QED
    BY <1>2, <1>3, <2>1, <2>2 DEF TopOK
<1>6. \A i \in 1..Len(s) : s[i].gen <= drGen'
  BY <1>2 DEF WalkOK
<1> QED
  BY <1>4, <1>5, <1>6 DEF WalkOK

LEMMA BumpKeeps ==
  ASSUME DrConstants, DrInv, BumpShareGen, UNCHANGED <<drDisk, drLeft>>, drToMark' \subseteq drToMark
  PROVE  DrInv'
<1>1. DrTyped'
  BY DEF DrInv, DrTyped, BumpShareGen
<1>2. ASSUME NEW x \in DrDirs PROVE RowOK(x)'
  BY DEF DrInv, DrTyped, RowsOf, RowOK, BumpShareGen, DirEtag, Below, ChainOf
<1>3. ASSUME NEW w \in Walks PROVE WalkOK(drWalk[w])'
  BY WalkBumped DEF DrInv, DrTyped, BumpShareGen
<1>4. ASSUME NEW w \in Walks PROVE KnownDirs(drWalk[w])'
  BY DEF DrInv, KnownDirs, BumpShareGen
<1> QED
  BY <1>1, <1>2, <1>3, <1>4 DEF DrInv

\* A marked walk, level by level.
Raced(s, chain) == [i \in DOMAIN s |-> [s[i] EXCEPT !.raced = @ \/ (s[i].listed /\ s[i].dir \in chain)]]

LEMMA RacedShape ==
  ASSUME NEW s \in Seq(LevelsOf), NEW chain
  PROVE  /\ Raced(s, chain) \in Seq(LevelsOf) /\ Len(Raced(s, chain)) = Len(s)
         /\ \A i \in 1..Len(s) :
              LET g == Raced(s, chain)[i]
              IN /\ g.dir = s[i].dir /\ g.gen = s[i].gen /\ g.listed = s[i].listed /\ g.val = s[i].val
                 /\ g.todo = s[i].todo /\ g.raced = (s[i].raced \/ (s[i].listed /\ s[i].dir \in chain))
<1>1. DOMAIN s = 1..Len(s) /\ Len(s) \in Nat /\ \A i \in 1..Len(s) : s[i] \in LevelsOf
  OBVIOUS
<1>2. \A i \in 1..Len(s) : Raced(s, chain)[i] = [s[i] EXCEPT !.raced = @ \/ (s[i].listed /\ s[i].dir \in chain)]
  BY <1>1 DEF Raced
<1>3. \A i \in 1..Len(s) : Raced(s, chain)[i] \in LevelsOf
  BY <1>1, <1>2 DEF LevelsOf
<1>4. Raced(s, chain) \in [1..Len(s) -> LevelsOf]
  BY <1>1, <1>3 DEF Raced
<1>5. Raced(s, chain) \in Seq(LevelsOf) /\ Len(Raced(s, chain)) = Len(s)
  BY <1>1, <1>4, SeqDef
<1> QED
  BY <1>1, <1>2, <1>5 DEF LevelsOf

\* The directories whose rollups count x and have an id.
Marked(x) == {e \in ChainOf(x) : e = "root" \/ drRow[e].node}

\* What was sound stays so, but for what counts the directory whose mark is gone
\* and was not raced for it.
LEMMA MarkSound ==
  ASSUME NEW x \in DrDirs, NEW val, NEW raced, NEW now, NEW e \in DrDirs,
         Sound(val, raced, e), raced => now, e = x => now,
         UNCHANGED <<drDisk, drFloor>>, drToMark' = drToMark \ {x}, x # "all"
  PROVE  Sound(val, now, e)'
BY DEF Sound, Unmarked

\* A level that was marked while it waits or is listed keeps what it counted.
LEMMA LevelMarked ==
  ASSUME DrConstants, NEW x \in DrDirs, NEW f \in LevelsOf, NEW g \in LevelsOf, NEW B, Counted(f, B),
         drRow[f.dir].node, f.listed,
         g.dir = f.dir, g.gen = f.gen, g.val = f.val, g.todo = f.todo, g.raced = (f.raced \/ f.dir \in Marked(x)),
         UNCHANGED <<drDisk, drFloor, drGen>>, drToMark' = drToMark \ {x}
  PROVE  Counted(g, B)'
<1>1. ASSUME NEW e \in DOMAIN g.val, g.gen = drGen PROVE Sound(g.val, g.raced, e)'
  <2>1. e \in Below(f.dir) /\ e \in DrDirs /\ Sound(f.val, f.raced, e)
    BY <1>1 DEF Counted, Below
  <2>2. e = x => f.dir \in Marked(x)
    BY <2>1 DEF Below, Marked, ChainOf
  <2>3. x # "all"
    BY DEF DrConstants
  <2> QED
    BY <2>1, <2>2, <2>3, MarkSound
<1> QED
  BY <1>1 DEF Counted, Below, ChainOf, ChildrenOf

LEMMA WalkMarked ==
  ASSUME DrConstants, NEW s \in Seq(LevelsOf), WalkOK(s), KnownDirs(s), NEW x \in DrDirs, NEW t,
         t = Raced(s, Marked(x)), UNCHANGED <<drDisk, drFloor, drGen>>, drToMark' = drToMark \ {x}
  PROVE  WalkOK(t)'
<1>1. /\ t \in Seq(LevelsOf) /\ Len(t) = Len(s)
      /\ \A i \in 1..Len(s) :
           /\ t[i].dir = s[i].dir /\ t[i].gen = s[i].gen /\ t[i].listed = s[i].listed /\ t[i].val = s[i].val
           /\ t[i].todo = s[i].todo /\ t[i].raced = (s[i].raced \/ (s[i].listed /\ s[i].dir \in Marked(x)))
  BY RacedShape
<1>2. \A i \in 1..Len(s) : s[i] \in LevelsOf /\ t[i] \in LevelsOf /\ s[i].dir \in DrDirs
  <2>1. \A i \in 1..Len(s) : s[i] \in LevelsOf
    OBVIOUS
  <2>2. \A i \in 1..Len(t) : t[i] \in LevelsOf
    BY <1>1
  <2> QED
    BY <1>1, <2>1, <2>2 DEF LevelsOf
<1>3. \A i \in 1..Len(s) : drRow[s[i].dir].node /\ s[i].gen <= drGen
  BY DEF WalkOK, KnownDirs
<1>4. ASSUME NEW i \in 1..Len(s), i < Len(s) PROVE InnerOK(t[i], t[i + 1])'
  <2>1. i + 1 \in 1..Len(s) /\ InnerOK(s[i], s[i + 1])
    BY <1>4 DEF WalkOK
  <2>2. Counted(s[i], Below(s[i + 1].dir)) /\ s[i].listed
    BY <2>1 DEF InnerOK
  <2>3. Counted(t[i], Below(s[i + 1].dir))'
    <3> DEFINE B == Below(s[i + 1].dir)
    <3>1. B' = B
      BY DEF Below, ChainOf
    <3> HIDE DEF B
    <3>2. Counted(s[i], B)
      BY <2>2 DEF B
    <3>3. Counted(t[i], B)'
      BY <1>1, <1>2, <1>3, <2>2, <3>1, <3>2, LevelMarked
    <3> QED
      BY <3>3 DEF B
  <2> QED
    BY <1>1, <2>1, <2>3 DEF InnerOK, ChildrenOf
<1>5. ASSUME t # <<>> PROVE TopOK(t[Len(t)])'
  <2>1. s # <<>> /\ Len(t) = Len(s) /\ Len(s) \in 1..Len(s)
    BY <1>1, <1>5
  <2>2. TopOK(s[Len(s)])
    BY <2>1 DEF WalkOK
  <2> SUFFICES ASSUME t[Len(s)].listed PROVE Counted(t[Len(s)], {})'
    BY <2>1 DEF TopOK
  <2>3. Counted(s[Len(s)], {}) /\ s[Len(s)].listed
    BY <1>1, <2>1, <2>2 DEF TopOK
  <2> QED
    BY <1>1, <1>2, <1>3, <2>1, <2>3, LevelMarked
<1> QED
  BY <1>1, <1>2, <1>3, <1>4, <1>5 DEF WalkOK

LEMMA MarkKeeps ==
  ASSUME DrConstants, DrInv, NEW x \in DrDirs, MarkDirty(Marked(x)), UNCHANGED <<drDisk, drLeft>>,
         drToMark' = drToMark \ {x}
  PROVE  DrInv'
<1>1. \A d \in DrDirs : drRow'[d] = IF d \in Marked(x) THEN [drRow[d] EXCEPT !.valid = FALSE] ELSE drRow[d]
  BY DEF MarkDirty
<1>2. drRow' \in [DrDirs -> RowsOf]
  BY DEF MarkDirty, DrInv, DrTyped, RowsOf
<1>3. ASSUME NEW w \in Walks PROVE drWalk'[w] = Raced(drWalk[w], Marked(x))
  BY DEF MarkDirty, Raced
<1>4. drWalk' \in [Walks -> Seq(LevelsOf)]
  <2>1. \A w \in Walks : drWalk'[w] \in Seq(LevelsOf)
    BY <1>3, RacedShape DEF DrInv, DrTyped
  <2>2. drWalk' = [w \in Walks |-> drWalk'[w]]
    BY DEF MarkDirty
  <2> QED
    BY <2>1, <2>2
<1>5. DrTyped'
  BY <1>2, <1>4 DEF DrInv, DrTyped, MarkDirty
<1>6. ASSUME NEW d \in DrDirs PROVE RowOK(d)'
  <2>1. drRow[d] \in RowsOf /\ RowOK(d)
    BY DEF DrInv, DrTyped
  <2>2. CASE d \in Marked(x)
    <3>1. /\ drRow'[d].valid = FALSE /\ drRow'[d].gen = drRow[d].gen
      BY <1>1, <2>1, <2>2 DEF RowsOf
    <3> QED
      BY <2>1, <3>1 DEF RowOK, DirEtag, MarkDirty
  <2>3. CASE d \notin Marked(x)
    <3>1. drRow'[d] = drRow[d] /\ drGen' = drGen
      BY <1>1, <2>3 DEF MarkDirty
    <3>2. ASSUME DirEtag(d), NEW e \in Below(d) PROVE Sound(drRow[d].val, drRow[d].raced, e)'
      <4>1. e \in DrDirs /\ Sound(drRow[d].val, drRow[d].raced, e)
        BY <2>1, <3>2 DEF RowOK, Below
      <4>2. e # x
        BY <2>1, <2>3, <3>2 DEF RowOK, Marked, Below, ChainOf, DirEtag
      <4> DEFINE r == drRow[d]
      <4>3. r' = r
        BY <3>1
      <4> HIDE DEF r
      <4>4. Sound(r.val, r.raced, e) /\ UNCHANGED <<drDisk, drFloor>> /\ x # "all"
        BY <4>1 DEF r, MarkDirty, DrConstants
      <4>5. Sound(r.val, r.raced, e)'
        BY <4>2, <4>3, <4>4 DEF Sound, Unmarked
      <4> QED
        BY <4>5 DEF r
    <3> QED
      BY <2>1, <3>1, <3>2 DEF RowOK, DirEtag, Below, ChainOf
  <2> QED
    BY <2>2, <2>3
<1>7. \A d \in DrDirs : drRow'[d].node = drRow[d].node
  BY <1>1 DEF DrInv, DrTyped, RowsOf
<1>8. ASSUME NEW w \in Walks PROVE WalkOK(drWalk[w])'
  <2> DEFINE t == drWalk'[w]
             s == drWalk[w]
  <2>1. s \in Seq(LevelsOf) /\ WalkOK(s) /\ KnownDirs(s) /\ t = Raced(s, Marked(x)) /\ UNCHANGED <<drDisk, drFloor, drGen>>
    BY <1>3 DEF DrInv, DrTyped, MarkDirty
  <2> QED
    BY <2>1, WalkMarked
<1>9. ASSUME NEW w \in Walks PROVE KnownDirs(drWalk[w])'
  <2> DEFINE s == drWalk[w]
             t == drWalk'[w]
  <2>1. KnownDirs(s) /\ s \in Seq(LevelsOf) /\ t = Raced(s, Marked(x))
    BY <1>3 DEF DrInv, DrTyped
  <2>2. Len(t) = Len(s) /\ \A i \in 1..Len(s) : t[i].dir = s[i].dir /\ s[i].dir \in DrDirs
    <3>1. \A i \in 1..Len(s) : s[i] \in LevelsOf
      BY <2>1
    <3>2. \A i \in 1..Len(s) : s[i].dir \in DrDirs
      BY <3>1 DEF LevelsOf
    <3> HIDE DEF s, t
    <3> QED
      BY <2>1, <3>2, RacedShape
  <2> QED
    BY <1>7, <2>1, <2>2 DEF KnownDirs
<1> QED
  BY <1>5, <1>6, <1>8, <1>9 DEF DrInv

------------------------------------------------------------------------------
(* The walks.                                                              *)

LEMMA UnderShape ==
  ASSUME NEW w \in Walks, drWalk[w] \in Seq(LevelsOf), drWalk[w] # <<>>
  PROVE  /\ Len(drWalk[w]) \in Nat \ {0} /\ Top(w) \in LevelsOf
         /\ Under(w) \in Seq(LevelsOf) /\ Len(Under(w)) = Len(drWalk[w]) - 1
         /\ \A i \in 1..(Len(drWalk[w]) - 1) : Under(w)[i] = drWalk[w][i]
<1> DEFINE s == drWalk[w]
           n == Len(s) - 1
<1>1. Len(s) \in Nat \ {0} /\ \A i \in 1..Len(s) : s[i] \in LevelsOf
  OBVIOUS
<1>2. n \in Int /\ 1 \in Int /\ \A i \in 1..n : s[i] \in LevelsOf
  BY <1>1
<1>3. /\ SubSeq(s, 1, n) \in Seq(LevelsOf)
      /\ Len(SubSeq(s, 1, n)) = (IF 1 <= n THEN n - 1 + 1 ELSE 0)
      /\ \A i \in 1..(n - 1 + 1) : SubSeq(s, 1, n)[i] = s[1 + i - 1]
  BY <1>2, SubSeqProperties
<1> QED
  BY <1>1, <1>3 DEF Under, Top

\* What a walk's levels say depends on the disk, its marks and the generation only.
LEMMA WalkSame ==
  ASSUME NEW s, UNCHANGED <<drDisk, drToMark, drGen, drFloor>>
  PROVE  WalkOK(s)' = WalkOK(s)
<1>1. \A f, B : Counted(f, B)' = Counted(f, B)
  BY DEF Counted, Sound, Unmarked, Below, ChainOf, ChildrenOf
<1>2. \A f, g : InnerOK(f, g)' = InnerOK(f, g)
  BY <1>1 DEF InnerOK, Below, ChainOf, ChildrenOf
<1>3. \A f : TopOK(f)' = TopOK(f)
  BY <1>1 DEF TopOK
<1> QED
  BY <1>2, <1>3 DEF WalkOK

\* The deepest level is at another point of its work.
LEMMA WalkTop ==
  ASSUME NEW s \in Seq(LevelsOf), WalkOK(s), s # <<>>,
         NEW u \in Seq(LevelsOf), Len(u) = Len(s) - 1, \A i \in 1..(Len(s) - 1) : u[i] = s[i],
         NEW f \in LevelsOf, f.dir = s[Len(s)].dir, f.gen = s[Len(s)].gen, TopOK(f)
  PROVE  Append(u, f) \in Seq(LevelsOf) /\ WalkOK(Append(u, f))
<1> DEFINE t == Append(u, f)
           n == Len(s)
<1>1. n \in Nat \ {0} /\ t \in Seq(LevelsOf) /\ Len(t) = n /\ t # <<>> /\ t[n] = f
      /\ \A i \in 1..(n - 1) : t[i] = s[i]
  OBVIOUS
<1> HIDE DEF t
<1>2. \A i \in 1..n : t[i].gen <= drGen /\ t[i].dir = s[i].dir /\ t[i].gen = s[i].gen
  BY <1>1 DEF WalkOK
<1>3. ASSUME NEW i \in 1..n, i < n PROVE InnerOK(t[i], t[i + 1])
  BY <1>1, <1>2, <1>3 DEF WalkOK, InnerOK
<1>4. TopOK(t[n])
  BY <1>1
<1>5. WalkOK(t)
  BY <1>1, <1>2, <1>3, <1>4 DEF WalkOK
<1> QED
  BY <1>1, <1>5 DEF t

\* A level is entered from the deepest one.
LEMMA WalkPush ==
  ASSUME NEW s \in Seq(LevelsOf), WalkOK(s), s # <<>>,
         NEW u \in Seq(LevelsOf), Len(u) = Len(s) - 1, \A i \in 1..(Len(s) - 1) : u[i] = s[i],
         NEW f \in LevelsOf, f.dir = s[Len(s)].dir, f.gen = s[Len(s)].gen,
         NEW g \in LevelsOf, InnerOK(f, g), ~g.listed
  PROVE  Append(Append(u, f), g) \in Seq(LevelsOf) /\ WalkOK(Append(Append(u, f), g))
<1> DEFINE t == Append(Append(u, f), g)
           n == Len(s)
<1>1. n \in Nat \ {0} /\ t \in Seq(LevelsOf) /\ Len(t) = n + 1 /\ t # <<>> /\ t[n] = f /\ t[n + 1] = g
      /\ \A i \in 1..(n - 1) : t[i] = s[i]
  OBVIOUS
<1> HIDE DEF t
<1>2. \A i \in 1..n : t[i].gen <= drGen /\ t[i].dir = s[i].dir /\ t[i].gen = s[i].gen
  BY <1>1 DEF WalkOK
<1>3. t[n + 1].gen <= drGen
  BY <1>1, <1>2 DEF InnerOK
<1>4. ASSUME NEW i \in 1..n, i < n PROVE InnerOK(t[i], t[i + 1])
  BY <1>1, <1>2, <1>4 DEF WalkOK, InnerOK
<1>5. InnerOK(t[n], t[n + 1]) /\ TopOK(t[n + 1])
  BY <1>1 DEF TopOK
<1>6. WalkOK(t)
  <2>1. \A i \in 1..(n + 1) : t[i].gen <= drGen
    BY <1>1, <1>2, <1>3
  <2>2. \A i \in 1..(n + 1) : i < n + 1 => InnerOK(t[i], t[i + 1])
    <3> SUFFICES ASSUME NEW i \in 1..(n + 1), i < n + 1 PROVE InnerOK(t[i], t[i + 1])
      OBVIOUS
    <3>1. CASE i = n
      BY <1>5, <3>1
    <3>2. CASE i # n
      BY <1>1, <1>4, <3>2
    <3> QED
      BY <3>1, <3>2
  <2> QED
    BY <1>1, <1>5, <2>1, <2>2 DEF WalkOK
<1> QED
  BY <1>1, <1>6 DEF t

Handed(u, val, raced) == [u EXCEPT ![Len(u)] = Counting(u[Len(u)], val, raced)]

\* A rollup of everything beneath a level's directory, sound for its generation.
Whole(f, val, raced) ==
    /\ val \in Rollups /\ raced \in BOOLEAN /\ DOMAIN val = Below(f.dir)
    /\ f.gen = drGen => \A e \in DOMAIN val : Sound(val, raced, e)

\* The deepest level is left, and what it found is counted by the one above it.
LEMMA WalkPop ==
  ASSUME DrConstants, NEW s \in Seq(LevelsOf), WalkOK(s), s # <<>>,
         NEW u \in Seq(LevelsOf), Len(u) = Len(s) - 1, \A i \in 1..(Len(s) - 1) : u[i] = s[i], u # <<>>,
         NEW val, NEW raced, Whole(s[Len(s)], val, raced), NEW t, t = Handed(u, val, raced)
  PROVE  t \in Seq(LevelsOf) /\ WalkOK(t) /\ Len(t) = Len(u) /\ \A i \in 1..Len(u) : t[i].dir = u[i].dir
<1> USE DEF Whole
<1> DEFINE n == Len(u)
           f == u[n]
           g == Counting(f, val, raced)
<1>1. n \in Nat \ {0} /\ Len(s) = n + 1 /\ \A i \in 1..n : u[i] = s[i] /\ u[i] \in LevelsOf
  OBVIOUS
<1>2. f \in LevelsOf /\ InnerOK(f, s[n + 1])
  BY <1>1 DEF WalkOK
<1>3. Over(val, f.val) \in Rollups /\ f.val \in Rollups
  BY <1>2, OverRollup DEF LevelsOf
<1>4. /\ g \in LevelsOf /\ g.dir = f.dir /\ g.gen = f.gen /\ g.listed = f.listed /\ g.todo = f.todo
      /\ g.val = Over(val, f.val) /\ g.raced = (f.raced \/ raced)
  BY <1>2, <1>3 DEF LevelsOf, Counting
<1>5. t \in Seq(LevelsOf) /\ Len(t) = n /\ t[n] = g /\ \A i \in 1..(n - 1) : t[i] = s[i]
  <2>1. t = [u EXCEPT ![n] = g]
    BY DEF Handed
  <2> HIDE DEF g
  <2> QED
    BY <1>1, <1>4, <2>1
<1> HIDE DEF f, g
<1>6. Counted(g, {})
  <2> DEFINE c == s[n + 1].dir
  <2>1. f.listed /\ c \in ChildrenOf(f.dir) /\ Counted(f, Below(c)) /\ s[n + 1].gen = f.gen /\ f.dir \in DrDirs
    BY <1>2 DEF InnerOK, LevelsOf
  <2>2. Below(c) \subseteq Below(f.dir)
    BY <2>1, ChainDown
  <2>3. /\ DOMAIN g.val = Below(c) \union DOMAIN f.val
        /\ \A e \in DOMAIN val : g.val[e] = val[e]
        /\ \A e \in DOMAIN f.val \ DOMAIN val : g.val[e] = f.val[e]
    <3>1. DOMAIN val = Below(c)
      BY <1>1
    <3>2. ASSUME NEW v \in Rollups
          PROVE  /\ DOMAIN Over(val, v) = DOMAIN val \union DOMAIN v
                 /\ \A e \in DOMAIN val : Over(val, v)[e] = val[e]
                 /\ \A e \in DOMAIN v \ DOMAIN val : Over(val, v)[e] = v[e]
      BY OverRollup
    <3>3. /\ DOMAIN Over(val, f.val) = DOMAIN val \union DOMAIN f.val
          /\ \A e \in DOMAIN val : Over(val, f.val)[e] = val[e]
          /\ \A e \in DOMAIN f.val \ DOMAIN val : Over(val, f.val)[e] = f.val[e]
      BY <1>3, <3>2
    <3> QED
      BY <1>4, <3>1, <3>3
  <2>4. ASSUME g.gen = drGen, NEW e \in DOMAIN g.val PROVE Sound(g.val, g.raced, e)
    <3>1. CASE e \in DOMAIN val
      BY <1>1, <1>4, <2>1, <2>3, <2>4, <3>1 DEF Sound
    <3>2. CASE e \in DOMAIN f.val \ DOMAIN val
      BY <1>1, <1>4, <2>1, <2>3, <2>4, <3>2 DEF Sound, Counted
    <3> QED
      BY <1>1, <2>3, <2>4, <3>1, <3>2
  <2> QED
    BY <1>4, <2>1, <2>2, <2>3, <2>4 DEF Counted
<1>7. \A i \in 1..n : t[i].gen <= drGen /\ t[i].dir = s[i].dir /\ t[i].gen = s[i].gen
  <2>1. f = s[n]
    BY <1>1 DEF f
  <2>2. \A i \in 1..n : s[i].gen <= drGen
    BY <1>1 DEF WalkOK
  <2>3. ASSUME NEW i \in 1..n PROVE i = n \/ i \in 1..(n - 1)
    BY <1>1
  <2> QED
    BY <1>1, <1>4, <1>5, <2>1, <2>2, <2>3
<1>8. ASSUME NEW i \in 1..n, i < n PROVE InnerOK(t[i], t[i + 1])
  <2>1. i \in 1..(n - 1) /\ i + 1 \in 1..n /\ i < Len(s) /\ i \in 1..Len(s)
    BY <1>1, <1>8
  <2>2. InnerOK(s[i], s[i + 1]) /\ t[i] = s[i] /\ t[i + 1].dir = s[i + 1].dir /\ t[i + 1].gen = s[i + 1].gen
    BY <1>5, <1>7, <2>1 DEF WalkOK
  <2> QED
    BY <2>2 DEF InnerOK
<1>9. TopOK(t[n])
  BY <1>5, <1>6 DEF TopOK
<1> QED
  BY <1>1, <1>5, <1>7, <1>8, <1>9 DEF WalkOK

\* A walk step that leaves the disk, the marks and the generation alone keeps the
\* invariant if what it makes of the rows and of its levels is right.
LEMMA WalkStep ==
  ASSUME DrInv, NEW w \in Walks, NEW t \in Seq(LevelsOf), drWalk' = [drWalk EXCEPT ![w] = t],
         UNCHANGED <<drDisk, drToMark, drGen, drFloor, drLeft>>,
         WalkOK(t), \A i \in 1..Len(t) : drRow'[t[i].dir].node,
         drRow' \in [DrDirs -> RowsOf], \A d \in DrDirs : drRow[d].node => drRow'[d].node,
         \A d \in DrDirs : RowOK(d)'
  PROVE  DrInv'
<1>1. DrTyped'
  BY DEF DrInv, DrTyped
<1>2. ASSUME NEW x \in Walks PROVE WalkOK(drWalk[x])' /\ KnownDirs(drWalk[x])'
  <2>1. CASE x = w
    <3>1. drWalk'[x] = t
      BY <2>1 DEF DrInv, DrTyped
    <3>2. WalkOK(t)'
      BY WalkSame
    <3> QED
      BY <3>1, <3>2 DEF KnownDirs
  <2>2. CASE x # w
    <3>0. PICK s : s = drWalk[x]
      OBVIOUS
    <3>1. drWalk'[x] = s /\ s \in Seq(LevelsOf) /\ WalkOK(s) /\ KnownDirs(s)
      BY <2>2, <3>0 DEF DrInv, DrTyped
    <3>2. \A i \in 1..Len(s) : s[i].dir \in DrDirs
      <4>1. \A i \in 1..Len(s) : s[i] \in LevelsOf
        BY <3>1
      <4> QED
        BY <4>1 DEF LevelsOf
    <3>3. \A i \in 1..Len(s) : drRow'[s[i].dir].node
      BY <3>1, <3>2 DEF KnownDirs
    <3>4. WalkOK(s)'
      BY <3>1, WalkSame
    <3> QED
      BY <3>1, <3>3, <3>4 DEF KnownDirs
  <2> QED
    BY <2>1, <2>2
<1> QED
  BY <1>1, <1>2 DEF DrInv

\* Giving directories ids makes no row valid.
LEMMA UpsertRows ==
  ASSUME DrInv, NEW ds, upsertDir(ds), UNCHANGED <<drDisk, drToMark, drGen, drFloor>>
  PROVE  /\ drRow' \in [DrDirs -> RowsOf] /\ \A d \in DrDirs : drRow[d].node => drRow'[d].node
         /\ \A d \in DrDirs \intersect ds : drRow'[d].node
         /\ \A d \in DrDirs : RowOK(d)'
<1>1. \A d \in DrDirs : drRow[d] \in RowsOf
  BY DEF DrInv, DrTyped
<1>2. drRow' \in [DrDirs -> RowsOf]
  BY <1>1 DEF upsertDir, RowsOf
<1>3. \A d \in DrDirs : /\ drRow'[d].valid = drRow[d].valid /\ drRow'[d].gen = drRow[d].gen
                         /\ drRow'[d].val = drRow[d].val /\ drRow'[d].raced = drRow[d].raced
                         /\ (drRow[d].node => drRow'[d].node) /\ (d \in ds => drRow'[d].node)
  BY <1>1 DEF upsertDir, RowsOf
<1>4. ASSUME NEW d \in DrDirs PROVE RowOK(d)'
  <2>1. RowOK(d)
    BY DEF DrInv
  <2> QED
    BY <1>3, <2>1 DEF RowOK, DirEtag, Sound, Unmarked, Below, ChainOf
<1> QED
  BY <1>2, <1>3, <1>4

LEMMA BeginKeeps ==
  ASSUME DrConstants, DrInv, NEW w \in Walks, NEW d \in DrDirs, AggregateBegin(w, d)
  PROVE  DrInv'
<1> DEFINE l == Level(d, drGen)
<1>1. l \in LevelsOf /\ l.dir = d /\ l.gen = drGen /\ l.listed = FALSE
  BY NoValRollup DEF Level, LevelsOf, DrInv, DrTyped
<1> HIDE DEF l
<1>2. <<l>> \in Seq(LevelsOf) /\ Len(<<l>>) = 1 /\ <<l>>[1] = l
  BY <1>1
<1>3. WalkOK(<<l>>)
  BY <1>1, <1>2 DEF WalkOK, TopOK, DrInv, DrTyped
<1>4. d \in ChainOf(d) /\ upsertDir(ChainOf(d)) /\ UNCHANGED <<drDisk, drToMark, drGen, drFloor, drLeft>>
      /\ drWalk' = [drWalk EXCEPT ![w] = <<l>>]
  BY DEF AggregateBegin, ChainOf, l
<1>5. /\ drRow' \in [DrDirs -> RowsOf] /\ \A x \in DrDirs : drRow[x].node => drRow'[x].node
      /\ drRow'[d].node
      /\ \A x \in DrDirs : RowOK(x)'
  BY <1>4, UpsertRows
<1>6. \A i \in 1..Len(<<l>>) : drRow'[<<l>>[i].dir].node
  BY <1>1, <1>2, <1>5
<1> QED
  BY <1>2, <1>3, <1>4, <1>5, <1>6, WalkStep

LEMMA DescendKeeps ==
  ASSUME DrConstants, DrInv, NEW w \in Walks, NEW d \in DrDirs, Descend(w, d)
  PROVE  DrInv'
<1> DEFINE s == drWalk[w]
           n == Len(s)
           f == [Top(w) EXCEPT !.todo = Top(w).todo \ {d}]
           g == Level(d, Top(w).gen)
           t == Append(Append(Under(w), f), g)
<1>1. s \in Seq(LevelsOf) /\ s # <<>> /\ WalkOK(s) /\ KnownDirs(s) /\ Top(w) = s[n] /\ n \in 1..n
  BY DEF DrInv, DrTyped, Descend, Top
<1>2. /\ Top(w) \in LevelsOf /\ Under(w) \in Seq(LevelsOf) /\ Len(Under(w)) = n - 1
      /\ \A i \in 1..(n - 1) : Under(w)[i] = s[i]
  BY <1>1, UnderShape
<1>3. Counted(Top(w), {}) /\ d \in Top(w).todo /\ Top(w).listed
  BY <1>1 DEF Descend, WalkOK, TopOK
<1>4. /\ f \in LevelsOf /\ f.dir = Top(w).dir /\ f.gen = Top(w).gen /\ f.listed /\ f.val = Top(w).val
      /\ f.raced = Top(w).raced /\ f.todo = Top(w).todo \ {d}
  BY <1>2, <1>3 DEF LevelsOf
<1>5. g \in LevelsOf /\ g.dir = d /\ g.gen = Top(w).gen /\ g.listed = FALSE
  BY <1>2, NoValRollup DEF LevelsOf, Level
<1>6. drWalk' = [drWalk EXCEPT ![w] = t] /\ upsertDir({d}) /\ UNCHANGED <<drDisk, drToMark, drGen, drFloor, drLeft>>
  BY DEF Descend
<1> HIDE DEF f, g
<1>7. InnerOK(f, g)
  <2>1. Counted(f, Below(d))
    BY <1>3, <1>4 DEF Counted
  <2> QED
    BY <1>3, <1>4, <1>5, <2>1 DEF InnerOK, Counted
<1>8. t \in Seq(LevelsOf) /\ WalkOK(t)
  BY <1>1, <1>2, <1>4, <1>5, <1>7, WalkPush
<1>9. /\ drRow' \in [DrDirs -> RowsOf] /\ \A x \in DrDirs : drRow[x].node => drRow'[x].node
      /\ drRow'[d].node
      /\ \A x \in DrDirs : RowOK(x)'
  BY <1>6, UpsertRows
<1>10. ASSUME NEW i \in 1..Len(t) PROVE drRow'[t[i].dir].node
  <2>1. Len(t) = n + 1 /\ t[n] = f /\ t[n + 1] = g /\ \A j \in 1..(n - 1) : t[j] = s[j]
    BY <1>1, <1>2, <1>4, <1>5
  <2>2. \A j \in 1..n : s[j].dir \in DrDirs /\ drRow[s[j].dir].node
    <3>1. \A j \in 1..n : s[j] \in LevelsOf
      BY <1>1
    <3> QED
      BY <1>1, <3>1 DEF LevelsOf, KnownDirs
  <2>3. i = n + 1 \/ i = n \/ i \in 1..(n - 1)
    BY <1>1, <2>1
  <2> QED
    BY <1>1, <1>4, <1>5, <1>9, <2>1, <2>2, <2>3
<1> HIDE DEF t
<1> QED
  BY <1>6, <1>8, <1>9, <1>10, WalkStep

\* A level is left with a rollup of everything beneath its directory.
LEMMA HandUpOK ==
  ASSUME DrConstants, DrInv, NEW w \in Walks, drWalk[w] # <<>>, NEW val, NEW raced, Whole(Top(w), val, raced)
  PROVE  /\ HandUp(w, val, raced) \in Seq(LevelsOf) /\ WalkOK(HandUp(w, val, raced))
         /\ \A i \in 1..Len(HandUp(w, val, raced)) :
              HandUp(w, val, raced)[i].dir \in DrDirs /\ drRow[HandUp(w, val, raced)[i].dir].node
<1> DEFINE s == drWalk[w]
           n == Len(s)
           t == HandUp(w, val, raced)
<1>1. s \in Seq(LevelsOf) /\ s # <<>> /\ WalkOK(s) /\ KnownDirs(s) /\ Top(w) = s[n] /\ n \in 1..n
  BY DEF DrInv, DrTyped, Top
<1>2. /\ Top(w) \in LevelsOf /\ Under(w) \in Seq(LevelsOf) /\ Len(Under(w)) = n - 1
      /\ \A i \in 1..(n - 1) : Under(w)[i] = s[i]
  BY <1>1, UnderShape
<1>3. CASE Under(w) = <<>>
  <2>1. t = <<>>
    BY <1>3 DEF HandUp
  <2>2. WalkOK(<<>>) /\ <<>> \in Seq(LevelsOf) /\ Len(<<>>) = 0
    BY DEF WalkOK
  <2> QED
    BY <2>1, <2>2
<1>4. CASE Under(w) # <<>>
  <2>1. t = [Under(w) EXCEPT ![Len(Under(w))] = Counting(Under(w)[Len(Under(w))], val, raced)]
    BY <1>4 DEF HandUp
  <2> HIDE DEF t
  <2>2. t \in Seq(LevelsOf) /\ WalkOK(t) /\ Len(t) = n - 1 /\ \A i \in 1..(n - 1) : t[i].dir = Under(w)[i].dir
    <3>1. PICK r : r = t
      OBVIOUS
    <3>2. PICK u : u = Under(w)
      OBVIOUS
    <3>3. PICK q : q = s
      OBVIOUS
    <3>4. r \in Seq(LevelsOf) /\ WalkOK(r) /\ Len(r) = Len(u) /\ \A i \in 1..Len(u) : r[i].dir = u[i].dir
      <4>1. u # <<>> /\ q \in Seq(LevelsOf) /\ q # <<>> /\ u \in Seq(LevelsOf) /\ Len(u) = Len(q) - 1
            /\ \A i \in 1..(Len(q) - 1) : u[i] = q[i]
        BY <1>1, <1>2, <1>4, <3>2, <3>3
      <4>2. WalkOK(q) /\ Whole(q[Len(q)], val, raced)
        BY <1>1, <3>3
      <4>3. r = Handed(u, val, raced)
        BY <2>1, <3>1, <3>2 DEF Handed
      <4> QED
        BY <4>1, <4>2, <4>3, WalkPop
    <3> QED
      BY <1>2, <3>1, <3>2, <3>4
  <2>3. \A i \in 1..(n - 1) : s[i].dir \in DrDirs /\ drRow[s[i].dir].node
    <3>1. \A i \in 1..n : s[i] \in LevelsOf
      BY <1>1
    <3> QED
      BY <1>1, <3>1 DEF LevelsOf, KnownDirs
  <2> QED
    BY <1>2, <2>2, <2>3 DEF t
<1> QED
  BY <1>3, <1>4

LEMMA ComputeKeeps ==
  ASSUME DrConstants, DrInv, NEW w \in Walks, computeAggregate(w)
  PROVE  DrInv'
<1> DEFINE s == drWalk[w]
           n == Len(s)
           d == Top(w).dir
<1>1. s \in Seq(LevelsOf) /\ s # <<>> /\ WalkOK(s) /\ KnownDirs(s) /\ Top(w) = s[n] /\ n \in 1..n
  BY DEF DrInv, DrTyped, computeAggregate, Top
<1>2. /\ Top(w) \in LevelsOf /\ Under(w) \in Seq(LevelsOf) /\ Len(Under(w)) = n - 1
      /\ \A i \in 1..(n - 1) : Under(w)[i] = s[i]
  BY <1>1, UnderShape
<1>3. d \in DrDirs /\ drRow[d] \in RowsOf /\ RowOK(d)
  BY <1>2 DEF LevelsOf, DrInv, DrTyped
<1>4. UNCHANGED <<drDisk, drToMark, drRow, drGen, drFloor, drLeft>>
  BY DEF computeAggregate
<1>5. /\ drRow' \in [DrDirs -> RowsOf] /\ \A x \in DrDirs : drRow[x].node => drRow'[x].node
      /\ \A x \in DrDirs : RowOK(x)'
  <2>1. ASSUME NEW x \in DrDirs PROVE RowOK(x)'
    <3>1. RowOK(x)
      BY DEF DrInv
    <3> QED
      BY <1>4, <3>1 DEF RowOK, DirEtag, Sound, Unmarked, Below, ChainOf
  <2> QED
    BY <1>4, <2>1 DEF DrInv, DrTyped
<1>6. CASE DirEtag(d)
  <2> DEFINE t == HandUp(w, drRow[d].val, drRow[d].raced)
  <2>1. drWalk' = [drWalk EXCEPT ![w] = t]
    BY <1>6 DEF computeAggregate
  <2>2. drRow[d].val \in Rollups /\ drRow[d].raced \in BOOLEAN /\ DOMAIN drRow[d].val = Below(d)
        /\ \A e \in DOMAIN drRow[d].val : Sound(drRow[d].val, drRow[d].raced, e)
    BY <1>3, <1>6 DEF RowsOf, RowOK, DirEtag
  <2>3. t \in Seq(LevelsOf) /\ WalkOK(t) /\ \A i \in 1..Len(t) : t[i].dir \in DrDirs /\ drRow[t[i].dir].node
    BY <1>1, <2>2, HandUpOK DEF Whole
  <2> HIDE DEF t
  <2>4. PICK r : r = t
    OBVIOUS
  <2> QED
    BY <1>4, <1>5, <2>1, <2>3, <2>4, WalkStep
<1>7. CASE ~DirEtag(d)
  <2> DEFINE v == [e \in {d} |-> drDisk[e]]
             f == [Top(w) EXCEPT !.listed = TRUE, !.val = v, !.todo = ChildrenOf(d)]
             t == Append(Under(w), f)
  <2>1. drWalk' = [drWalk EXCEPT ![w] = t]
    BY <1>7 DEF computeAggregate
  <2>2. v \in Rollups /\ DOMAIN v = {d} /\ v[d] = drDisk[d]
    <3>1. v \in [{d} -> Nat] /\ {d} \in SUBSET DrDirs
      BY <1>3 DEF DrInv, DrTyped
    <3> QED
      BY <3>1 DEF Rollups
  <2> HIDE DEF v
  <2>3. /\ f \in LevelsOf /\ f.dir = d /\ f.gen = Top(w).gen /\ f.listed /\ f.val = v
        /\ f.todo = ChildrenOf(d)
    BY <1>2, <2>2 DEF LevelsOf, ChildrenOf
  <2> HIDE DEF f
  <2>4. Counted(f, {})
    <3>1. d \in Below(d)
      BY <1>3 DEF Below, ChainOf
    <3>2. Sound(v, f.raced, d)
      BY <1>3, <2>2 DEF Sound, DrInv, DrTyped
    <3>3. \A e \in Below(d) : e = d \/ \E c \in ChildrenOf(d) : e \in Below(c)
      BY <1>3, BelowSplit
    <3> QED
      BY <2>2, <2>3, <3>1, <3>2, <3>3 DEF Counted
  <2>5. t \in Seq(LevelsOf) /\ WalkOK(t)
    BY <1>1, <1>2, <2>3, <2>4, WalkTop DEF TopOK
  <2>6. ASSUME NEW i \in 1..Len(t) PROVE drRow'[t[i].dir].node
    <3>1. Len(t) = n /\ t[n] = f /\ \A j \in 1..(n - 1) : t[j] = s[j]
      BY <1>1, <1>2, <2>3
    <3>2. i = n \/ i \in 1..(n - 1)
      BY <1>1, <3>1
    <3> QED
      BY <1>1, <1>4, <2>3, <3>1, <3>2 DEF KnownDirs
  <2> HIDE DEF t
  <2>7. PICK r : r = t
    OBVIOUS
  <2> QED
    BY <1>4, <1>5, <2>1, <2>5, <2>6, <2>7, WalkStep
<1> QED
  BY <1>6, <1>7

LEMMA StoreKeeps ==
  ASSUME DrConstants, DrInv, NEW w \in Walks, StoreAggregate(w)
  PROVE  DrInv'
<1> DEFINE s == drWalk[w]
           n == Len(s)
           f == Top(w)
           d == f.dir
           t == HandUp(w, f.val, f.raced)
<1>1. s \in Seq(LevelsOf) /\ s # <<>> /\ WalkOK(s) /\ f = s[n] /\ n \in 1..n
  BY DEF DrInv, DrTyped, StoreAggregate, Top
<1>2. f \in LevelsOf /\ f.listed /\ f.todo = {} /\ Counted(f, {}) /\ f.gen <= drGen
  BY <1>1, UnderShape DEF WalkOK, TopOK, StoreAggregate
<1>3. f.val \in Rollups /\ f.raced \in BOOLEAN /\ f.gen \in Nat /\ d \in DrDirs /\ DOMAIN f.val = Below(d)
      /\ (f.gen = drGen => \A e \in DOMAIN f.val : Sound(f.val, f.raced, e))
  BY <1>2 DEF LevelsOf, Counted
<1>4. t \in Seq(LevelsOf) /\ WalkOK(t) /\ \A i \in 1..Len(t) : t[i].dir \in DrDirs /\ drRow[t[i].dir].node
  BY <1>1, <1>3, HandUpOK DEF Whole
<1>5. drWalk' = [drWalk EXCEPT ![w] = t] /\ UNCHANGED <<drDisk, drToMark, drGen, drFloor, drLeft>>
  BY DEF StoreAggregate
<1> DEFINE row == [node |-> TRUE, valid |-> TRUE, gen |-> f.gen, val |-> f.val, raced |-> f.raced]
<1>6. drRow' = drRow \/ drRow' = [drRow EXCEPT ![d] = row]
  BY DEF StoreAggregate, PutDirEtag
<1>7. /\ row \in RowsOf /\ row.node /\ row.gen = f.gen /\ row.val = f.val /\ row.raced = f.raced
  BY <1>3 DEF RowsOf
<1> HIDE DEF t, row
<1>8. /\ drRow' \in [DrDirs -> RowsOf] /\ \A x \in DrDirs : drRow[x].node => drRow'[x].node
      /\ \A x \in DrDirs : drRow'[x] = drRow[x] \/ (x = d /\ drRow'[x] = row)
  BY <1>3, <1>6, <1>7 DEF DrInv, DrTyped
<1>9. ASSUME NEW x \in DrDirs PROVE RowOK(x)'
  <2>1. RowOK(x)
    BY DEF DrInv
  <2>2. CASE drRow'[x] = drRow[x]
    BY <1>5, <2>1, <2>2 DEF RowOK, DirEtag, Sound, Unmarked, Below, ChainOf
  <2>3. CASE x = d /\ drRow'[x] = row
    <3>1. f.gen = drGen => \A e \in Below(d) : Sound(f.val, f.raced, e)
      BY <1>3
    <3>2. PICK v, r : v = f.val /\ r = f.raced
      OBVIOUS
    <3>3. f.gen = drGen => \A e \in Below(d) : Sound(v, r, e)
      BY <3>1, <3>2
    <3>4. \A e : Sound(v, r, e)' = Sound(v, r, e)
      BY <1>5 DEF Sound, Unmarked
    <3>5. Below(x)' = Below(d) /\ drGen' = drGen
      BY <1>5, <2>3 DEF Below, ChainOf
    <3>6. drRow'[x].val = v /\ drRow'[x].raced = r /\ drRow'[x].gen = f.gen /\ drRow'[x].node
          /\ DOMAIN v = Below(d)
      BY <1>3, <1>7, <2>3, <3>2
    <3> QED
      BY <1>2, <3>3, <3>4, <3>5, <3>6 DEF RowOK, DirEtag
  <2> QED
    BY <1>8, <2>2, <2>3
<1>10. PICK r : r = t
  OBVIOUS
<1> QED
  BY <1>4, <1>5, <1>8, <1>9, <1>10, WalkStep

LEMMA DrInvNext ==
  ASSUME DrConstants, DrInv, [DrNext]_drVars
  PROVE  DrInv'
<1>1. ASSUME NEW x \in DrDirs \union {"all"}, invalidateCache(x) PROVE DrInv'
  <2>1. CASE BumpShareGen
    BY <1>1, <2>1, BumpKeeps DEF invalidateCache
  <2>2. CASE x \in DrDirs /\ MarkDirty(Marked(x))
    BY <1>1, <2>2, MarkKeeps DEF invalidateCache
  <2> QED
    BY <1>1, <2>1, <2>2 DEF invalidateCache, InvalidateShare, markChainDirty, Marked
<1>2. CASE UNCHANGED drVars
  <2>1. \A s : WalkOK(s)' = WalkOK(s)
    BY <1>2, WalkSame DEF drVars
  <2>2. \A w \in Walks : WalkOK(drWalk[w])'
    <3> SUFFICES ASSUME NEW w \in Walks PROVE WalkOK(drWalk[w])'
      OBVIOUS
    <3>1. PICK s : s = drWalk[w]
      OBVIOUS
    <3>2. drWalk'[w] = s /\ WalkOK(s)'
      BY <1>2, <2>1, <3>1 DEF DrInv, drVars
    <3> QED
      BY <3>2
  <2>3. \A d \in DrDirs : RowOK(d)'
    BY <1>2 DEF DrInv, drVars, RowOK, DirEtag, Sound, Unmarked, Below, ChainOf
  <2> QED
    BY <1>2, <2>2, <2>3 DEF DrInv, drVars, DrTyped, KnownDirs
<1> QED
  BY <1>1, <1>2, ChangeKeeps, ComputeKeeps, StoreKeeps, BeginKeeps, DescendKeeps DEF DrNext

\* A rollup that is served counts every change that was marked (aggregate.go,
\* diretag.go): a marking that comes while a walk is under way is remembered with
\* what the walk stores, and a walk begun before the share was invalidated stores
\* a row of an old generation.
THEOREM RollupsAreFresh ==
    ASSUME DrConstants
    PROVE  DrSpec => []RollupFresh
<1>1. DrInv => RollupFresh
  BY DEF DrInv, RowOK, Sound, RollupFresh
<1>2. DrInit => DrInv
  BY DrInvInit
<1>3. DrInv /\ [DrNext]_drVars => DrInv'
  BY DrInvNext
<1> QED
  BY <1>1, <1>2, <1>3, PTL DEF DrSpec

------------------------------------------------------------------------------
(***************************************************************************)
(* The change feed.  A client is owed a notice only of a directory it has  *)
(* pinned, so the count of pins is what makes the watcher report: the      *)
(* number of sockets that hold a directory.  From there the notice moves   *)
(* through the queues and is never dropped, a full one turning it into an  *)
(* event that covers everything.                                           *)
(***************************************************************************)

\* What the theorems ask of the constants: finitely many sockets, and no directory has the name of an event that
\* names none.
CfConstants == IsFiniteSet(Conns) /\ All \notin CfPaths /\ NoEvent \notin CfPaths

------------------------------------------------------------------------------
(* The inductive invariant.                                                *)

CfEvents == CfPaths \union {All}
Sockets == [st : {"off", "open", "leaving"}, subs : SUBSET CfPaths, pending : SUBSET CfPaths, due : SUBSET CfPaths,
            writer : BOOLEAN, at : {"idle", "resolved", "pinning"}, path : CfPaths \union {NoEvent}]

CfTyped ==
    /\ cfRaw \in Seq(CfEvents) /\ cfOut \in Seq(CfEvents) /\ cfConn \in [Conns -> Sockets] /\ cfLost \in BOOLEAN
    /\ cfPins \in [CfPaths -> Nat] /\ cfOwed \in [Conns -> SUBSET CfPaths] /\ cfCrossed \in BOOLEAN
    /\ cfHub \in [closed : BOOLEAN, conns : SUBSET Conns] /\ cfWork \in CfEvents \union {NoEvent}

\* A closed socket holds nothing, only an open one subscribes, and a path that is
\* being pinned is subscribed unless its release came first.
SocketInv ==
    \A c \in Conns : LET x == cfConn[c]
                     IN /\ x.st = "off" => x = NewConn /\ c \notin cfHub.conns
                        /\ x.at # "idle" => x.st = "open" /\ x.path \in CfPaths
                        /\ x.at = "pinning" /\ ~cfCrossed => x.path \in x.subs
                        /\ cfOwed[c] \subseteq x.subs

CfInv == CfTyped /\ SocketInv /\ PinsExact /\ NoticeInFlight

\* A socket's pin of p.
HeldBy(x, p) == p \in x.subs /\ ~(x.at = "pinning" /\ x.path = p)
Holders(f, p) == {c \in Conns : HeldBy(f[c], p)}
Count(b) == IF b THEN 1 ELSE 0

------------------------------------------------------------------------------

\* One socket changes: how many hold p.
LEMMA HoldersMoved ==
  ASSUME CfConstants, NEW f \in [Conns -> Sockets], NEW c \in Conns, NEW y, NEW p
  PROVE  /\ Cardinality(Holders(f, p)) \in Nat
         /\ HeldBy(f[c], p) => Cardinality(Holders(f, p)) > 0
         /\ Cardinality(Holders([f EXCEPT ![c] = y], p))
              = Cardinality(Holders(f, p)) + Count(HeldBy(y, p)) - Count(HeldBy(f[c], p))
<1> DEFINE H == Holders(f, p)
           G == Holders([f EXCEPT ![c] = y], p)
<1>1. H \in SUBSET Conns /\ IsFiniteSet(Conns)
  BY DEF Holders, CfConstants
<1>2. IsFiniteSet(H)
  BY <1>1, FS_Subset
<1>3. Cardinality(H) \in Nat
  BY <1>2, FS_CardinalityType
<1>4. c \in H <=> HeldBy(f[c], p)
  BY DEF Holders
<1>5. G = IF HeldBy(y, p) THEN H \union {c} ELSE H \ {c}
  BY DEF Holders
<1> HIDE DEF H, G
<1>6. c \in H => Cardinality(H) > 0
  BY <1>2, <1>3, FS_EmptySet
<1>7. Cardinality(H \union {c}) = IF c \in H THEN Cardinality(H) ELSE Cardinality(H) + 1
  BY <1>2, FS_AddElement
<1>8. Cardinality(H \ {c}) = IF c \in H THEN Cardinality(H) - 1 ELSE Cardinality(H)
  BY <1>2, FS_RemoveElement
<1>9. Cardinality(G) = Cardinality(H) + Count(HeldBy(y, p)) - Count(HeldBy(f[c], p))
  BY <1>3, <1>4, <1>5, <1>7, <1>8 DEF Count
<1> QED
  BY <1>3, <1>4, <1>6, <1>9 DEF H, G

LEMMA PinsAre == PinsExact <=> (cfCrossed \/ \A p \in CfPaths : cfPins[p] = Cardinality(Holders(cfConn, p)))
BY DEF PinsExact, Holders, HeldBy

\* A socket changes and the pins follow.
LEMMA PinsFollow ==
  ASSUME CfConstants, CfInv, NEW c \in Conns, NEW y, cfConn' = [cfConn EXCEPT ![c] = y], cfCrossed => cfCrossed',
         ~cfCrossed' => \A p \in CfPaths : cfPins'[p] = cfPins[p] + Count(HeldBy(y, p)) - Count(HeldBy(cfConn[c], p))
  PROVE  PinsExact'
<1>1. cfConn \in [Conns -> Sockets]
  BY DEF CfInv, CfTyped
<1>2. PICK f : f = cfConn
  OBVIOUS
<1>3. ASSUME NEW p \in CfPaths, ~cfCrossed' PROVE cfPins'[p] = Cardinality(Holders(cfConn', p))
  <2>1. cfPins[p] = Cardinality(Holders(f, p))
    BY <1>2, <1>3, PinsAre DEF CfInv
  <2>2. Cardinality(Holders([f EXCEPT ![c] = y], p))
          = Cardinality(Holders(f, p)) + Count(HeldBy(y, p)) - Count(HeldBy(f[c], p))
    BY <1>1, <1>2, HoldersMoved
  <2>3. Holders([f EXCEPT ![c] = y], p) = Holders(cfConn', p)
    BY <1>2
  <2> QED
    BY <1>2, <1>3, <2>1, <2>2, <2>3
<1>4. PinsExact' <=> (cfCrossed' \/ \A p \in CfPaths : cfPins'[p] = Cardinality(Holders(cfConn', p)))
  BY DEF PinsExact, Holders, HeldBy
<1> QED
  BY <1>3, <1>4

\* What the events in the queues cover.
LEMMA QueuedAppend ==
  ASSUME NEW q \in Seq(CfEvents), NEW e \in CfEvents, NEW p
  PROVE  /\ Append(q, e) \in Seq(CfEvents)
         /\ Queued(q, p) \/ Covers(e, p) => Queued(Append(q, e), p)
<1>1. /\ Append(q, e) \in Seq(CfEvents) /\ Len(q) \in Nat /\ DOMAIN q = 1..Len(q)
      /\ DOMAIN Append(q, e) = 1..(Len(q) + 1) /\ Append(q, e)[Len(q) + 1] = e
      /\ \A i \in 1..Len(q) : Append(q, e)[i] = q[i]
  OBVIOUS
<1>2. Len(q) + 1 \in 1..(Len(q) + 1) /\ 1..Len(q) \subseteq 1..(Len(q) + 1)
  BY <1>1
<1> QED
  BY <1>1, <1>2 DEF Queued

LEMMA QueuedTail ==
  ASSUME NEW q \in Seq(CfEvents), q # <<>>, NEW p
  PROVE  /\ Head(q) \in CfEvents /\ Tail(q) \in Seq(CfEvents)
         /\ Queued(q, p) => Covers(Head(q), p) \/ Queued(Tail(q), p)
<1>1. /\ Len(q) \in Nat \ {0} /\ DOMAIN q = 1..Len(q) /\ Head(q) = q[1] /\ Tail(q) \in Seq(CfEvents)
      /\ DOMAIN Tail(q) = 1..(Len(q) - 1) /\ \A i \in 1..(Len(q) - 1) : Tail(q)[i] = q[i + 1]
  OBVIOUS
<1>2. ASSUME NEW i \in 1..Len(q), Covers(q[i], p), i # 1 PROVE Queued(Tail(q), p)
  <2>1. i - 1 \in 1..(Len(q) - 1) /\ (i - 1) + 1 = i
    BY <1>1, <1>2
  <2>2. i - 1 \in DOMAIN Tail(q) /\ Covers(Tail(q)[i - 1], p)
    BY <1>1, <1>2, <2>1
  <2> QED
    BY <2>2 DEF Queued
<1>3. Head(q) \in CfEvents
  BY <1>1
<1> QED
  BY <1>1, <1>2, <1>3 DEF Queued

\* Where a notice of p may be before a socket has it.
Coming(p) == Queued(cfRaw, p) \/ cfLost \/ Covers(cfWork, p) \/ Queued(cfOut, p)

\* The sockets keep what they have been told, and nobody is owed more.
LEMMA NoticeKept ==
  ASSUME NoticeInFlight,
         \A c \in cfHub'.conns : \A p \in cfOwed'[c] :
             ~cfCrossed' /\ cfConn'[c].writer =>
                \/ Coming(p)'
                \/ p \in cfConn'[c].pending \union cfConn'[c].due
                \/ /\ c \in cfHub.conns /\ p \in cfOwed[c] /\ ~cfCrossed /\ cfConn[c].writer
                   /\ Coming(p) => Coming(p)'
                   /\ p \in cfConn[c].pending \union cfConn[c].due => p \in cfConn'[c].pending \union cfConn'[c].due
  PROVE  NoticeInFlight'
BY DEF NoticeInFlight, Coming

LEMMA ComingSame == ASSUME UNCHANGED cfStream, NEW p PROVE Coming(p)' <=> Coming(p)
BY DEF cfStream, Coming, Queued, Covers

\* What a step of one socket may do.
Follows(c, y) ==
    /\ y \in Sockets /\ cfConn' = [cfConn EXCEPT ![c] = y]
    /\ cfPins' \in [CfPaths -> Nat] /\ cfCrossed' \in BOOLEAN /\ (cfCrossed => cfCrossed')
    /\ ~cfCrossed' => \A p \in CfPaths : cfPins'[p] = cfPins[p] + Count(HeldBy(y, p)) - Count(HeldBy(cfConn[c], p))
    /\ cfOwed' \in [Conns -> SUBSET CfPaths] /\ \A d \in Conns \ {c} : cfOwed'[d] = cfOwed[d]
    /\ cfOwed'[c] \subseteq cfOwed[c] /\ cfOwed'[c] \subseteq y.subs
    /\ cfHub' \in [closed : BOOLEAN, conns : SUBSET Conns] /\ cfHub'.conns \ {c} \subseteq cfHub.conns
    /\ y.st = "off" => y = NewConn /\ c \notin cfHub'.conns
    /\ y.at # "idle" => y.st = "open" /\ y.path \in CfPaths
    /\ y.at = "pinning" /\ ~cfCrossed' => y.path \in y.subs
    /\ c \in cfHub'.conns /\ y.writer => \A p \in cfOwed'[c] :
         /\ c \in cfHub.conns /\ cfConn[c].writer
         /\ p \in cfConn[c].pending \union cfConn[c].due => p \in y.pending \union y.due

LEMMA SocketMoved ==
  ASSUME CfConstants, CfInv, SocketStep, NEW c \in Conns, NEW y, Follows(c, y)
  PROVE  CfInv'
<1>1. /\ y \in Sockets /\ cfConn' = [cfConn EXCEPT ![c] = y]
      /\ cfPins' \in [CfPaths -> Nat] /\ cfCrossed' \in BOOLEAN /\ (cfCrossed => cfCrossed')
      /\ cfOwed' \in [Conns -> SUBSET CfPaths] /\ \A d \in Conns \ {c} : cfOwed'[d] = cfOwed[d]
  BY DEF Follows
<1>2. /\ cfOwed'[c] \subseteq cfOwed[c] /\ cfOwed'[c] \subseteq y.subs
      /\ cfHub' \in [closed : BOOLEAN, conns : SUBSET Conns] /\ cfHub'.conns \ {c} \subseteq cfHub.conns
      /\ (y.st = "off" => y = NewConn /\ c \notin cfHub'.conns)
      /\ (y.at # "idle" => y.st = "open" /\ y.path \in CfPaths)
      /\ (y.at = "pinning" /\ ~cfCrossed' => y.path \in y.subs)
  BY DEF Follows
<1>3. c \in cfHub'.conns /\ y.writer => \A p \in cfOwed'[c] :
         /\ c \in cfHub.conns /\ cfConn[c].writer
         /\ (p \in cfConn[c].pending \union cfConn[c].due => p \in y.pending \union y.due)
  BY DEF Follows
<1>4. cfConn' \in [Conns -> Sockets] /\ \A d \in Conns : cfConn'[d] = IF d = c THEN y ELSE cfConn[d]
  BY <1>1 DEF CfInv, CfTyped
<1>5. CfTyped'
  BY <1>1, <1>2, <1>4 DEF CfInv, CfTyped, SocketStep, cfStream
<1>6. SocketInv'
  <2>1. ASSUME NEW d \in Conns, d # c
        PROVE  /\ cfConn'[d] = cfConn[d] /\ cfOwed'[d] = cfOwed[d] /\ (d \in cfHub'.conns => d \in cfHub.conns)
    BY <1>1, <1>2, <1>4, <2>1
  <2>2. cfConn'[c] = y
    BY <1>4
  <2> QED
    BY <1>1, <1>2, <2>1, <2>2 DEF CfInv, SocketInv
<1>7. PinsExact'
  BY <1>1, PinsFollow DEF Follows
<1>8. NoticeInFlight'
  <2>1. \A p : Coming(p) => Coming(p)'
    BY ComingSame DEF SocketStep
  <2>2. ASSUME NEW d \in cfHub'.conns, NEW p \in cfOwed'[d], ~cfCrossed', cfConn'[d].writer
        PROVE  /\ d \in cfHub.conns /\ p \in cfOwed[d] /\ ~cfCrossed /\ cfConn[d].writer
               /\ (p \in cfConn[d].pending \union cfConn[d].due => p \in cfConn'[d].pending \union cfConn'[d].due)
    <3>0. d \in Conns
      BY <1>2
    <3>1. CASE d = c
      BY <1>1, <1>2, <1>3, <1>4, <2>2, <3>1
    <3>2. CASE d # c
      BY <1>1, <1>2, <1>4, <2>2, <3>0, <3>2
    <3> QED
      BY <3>1, <3>2
  <2> QED
    BY <2>1, <2>2, NoticeKept DEF CfInv
<1> QED
  BY <1>5, <1>6, <1>7, <1>8 DEF CfInv

\* A socket that holds what it held, under the same pins.
LEMMA SocketKeeps ==
  ASSUME CfConstants, CfInv, SocketStep, UNCHANGED <<cfPins, cfCrossed>>, NEW c \in Conns, NEW y \in Sockets,
         cfConn' = [cfConn EXCEPT ![c] = y],
         \A p \in CfPaths : HeldBy(y, p) <=> HeldBy(cfConn[c], p),
         cfOwed' \in [Conns -> SUBSET CfPaths], \A d \in Conns \ {c} : cfOwed'[d] = cfOwed[d],
         cfOwed'[c] \subseteq cfOwed[c], cfOwed'[c] \subseteq y.subs,
         cfHub' \in [closed : BOOLEAN, conns : SUBSET Conns], cfHub'.conns \ {c} \subseteq cfHub.conns,
         y.st # "off", y.at # "idle" => y.st = "open" /\ y.path \in CfPaths,
         y.at = "pinning" /\ ~cfCrossed => y.path \in y.subs,
         y.writer => \A p \in cfOwed'[c] :
           /\ c \in cfHub'.conns => c \in cfHub.conns
           /\ cfConn[c].writer
           /\ p \in cfConn[c].pending \union cfConn[c].due => p \in y.pending \union y.due
  PROVE  CfInv'
<1>1. cfPins \in [CfPaths -> Nat] /\ cfCrossed \in BOOLEAN
  BY DEF CfInv, CfTyped
<1>2. \A p \in CfPaths : cfPins'[p] = cfPins[p] + Count(HeldBy(y, p)) - Count(HeldBy(cfConn[c], p))
  <2>1. ASSUME NEW p \in CfPaths PROVE cfPins'[p] = cfPins[p] + Count(HeldBy(y, p)) - Count(HeldBy(cfConn[c], p))
    <3>1. Count(HeldBy(y, p)) = Count(HeldBy(cfConn[c], p)) /\ Count(HeldBy(y, p)) \in {0, 1}
      BY DEF Count
    <3>2. cfPins[p] \in Nat
      BY <1>1
    <3> HIDE DEF Count
    <3> QED
      BY <3>1, <3>2
  <2> QED
    BY <2>1
<1>3. Follows(c, y)
  BY <1>1, <1>2 DEF Follows
<1> QED
  BY <1>3, SocketMoved

LEMMA ForgetPins ==
  ASSUME CfConstants, CfInv, NEW c \in Conns, NEW ps \in SUBSET CfPaths, Forget(c, ps), NEW y \in Sockets,
         y.subs = cfConn[c].subs \ ps,
         \/ y.at = cfConn[c].at /\ y.path = cfConn[c].path
         \/ y.at # "pinning" /\ cfConn[c].at # "pinning"
  PROVE  /\ cfPins' \in [CfPaths -> Nat] /\ cfCrossed' \in BOOLEAN /\ (cfCrossed => cfCrossed')
         /\ ~cfCrossed' => \A p \in CfPaths : cfPins'[p] = cfPins[p] + Count(HeldBy(y, p)) - Count(HeldBy(cfConn[c], p))
         /\ ~cfCrossed' /\ cfConn[c].at = "pinning" => cfConn[c].path \notin ps \intersect cfConn[c].subs
         /\ cfOwed' = [cfOwed EXCEPT ![c] = cfOwed[c] \ ps]
<1> DEFINE x == cfConn[c]
           gone == ps \intersect x.subs
<1>1. /\ cfPins' = [p \in CfPaths |-> IF p \in gone /\ cfPins[p] > 0 THEN cfPins[p] - 1 ELSE cfPins[p]]
      /\ cfCrossed' = (cfCrossed \/ (x.at = "pinning" /\ x.path \in gone))
      /\ cfOwed' = [cfOwed EXCEPT ![c] = cfOwed[c] \ ps]
  BY DEF Forget, unpinForEvents, Overtakes, CfInv, CfTyped
<1>2. cfPins \in [CfPaths -> Nat] /\ cfConn \in [Conns -> Sockets] /\ cfCrossed \in BOOLEAN
  BY DEF CfInv, CfTyped
<1>3. cfPins' \in [CfPaths -> Nat]
  BY <1>1, <1>2
<1>4. ASSUME NEW p \in CfPaths, ~cfCrossed'
      PROVE  cfPins'[p] = cfPins[p] + Count(HeldBy(y, p)) - Count(HeldBy(x, p))
  <2>1. cfPins[p] = Cardinality(Holders(cfConn, p))
    BY <1>1, <1>4, PinsAre DEF CfInv
  <2>2. HeldBy(x, p) => cfPins[p] > 0
    BY <1>2, <2>1, HoldersMoved
  <2>3. cfPins[p] \in Nat
    BY <1>2
  <2>4. CASE p \in gone
    <3>1. HeldBy(x, p) /\ ~HeldBy(y, p)
      BY <1>1, <1>4, <2>4 DEF HeldBy
    <3>2. cfPins'[p] = cfPins[p] - 1
      BY <1>1, <2>2, <2>4, <3>1
    <3> QED
      BY <2>3, <3>1, <3>2 DEF Count
  <2>5. CASE p \notin gone
    <3>1. HeldBy(x, p) <=> HeldBy(y, p)
      BY <2>5 DEF HeldBy
    <3>2. cfPins'[p] = cfPins[p]
      BY <1>1, <2>5
    <3> QED
      BY <2>3, <3>1, <3>2 DEF Count
  <2> QED
    BY <2>4, <2>5
<1> QED
  BY <1>1, <1>2, <1>3, <1>4

LEMMA NewConnIs ==
  /\ NewConn \in Sockets /\ NewConn.st = "off" /\ NewConn.subs = {} /\ NewConn.at = "idle" /\ ~NewConn.writer
  /\ NewConn.pending = {} /\ NewConn.due = {}
BY DEF NewConn, Sockets

LEMMA CfInvInit == ASSUME CfConstants, CfInit PROVE CfInv
<1>1. /\ cfRaw = <<>> /\ cfLost = FALSE /\ cfOut = <<>> /\ cfHub = [closed |-> FALSE, conns |-> {}]
      /\ cfConn = [c \in Conns |-> NewConn] /\ cfPins = [p \in CfPaths |-> 0] /\ cfOwed = [c \in Conns |-> {}]
      /\ cfCrossed = FALSE /\ cfWork = NoEvent
  BY DEF CfInit
<1>2. CfTyped
  <2>1. cfRaw \in Seq(CfEvents) /\ cfOut \in Seq(CfEvents)
    BY <1>1
  <2>2. cfConn \in [Conns -> Sockets] /\ cfPins \in [CfPaths -> Nat] /\ cfOwed \in [Conns -> SUBSET CfPaths]
    BY <1>1, NewConnIs
  <2>3. cfHub \in [closed : BOOLEAN, conns : SUBSET Conns] /\ cfLost \in BOOLEAN /\ cfCrossed \in BOOLEAN
    BY <1>1
  <2> QED
    BY <1>1, <2>1, <2>2, <2>3 DEF CfTyped
<1>3. SocketInv
  BY <1>1, NewConnIs DEF SocketInv
<1>4. PinsExact
  <2>1. ASSUME NEW p \in CfPaths PROVE cfPins[p] = Cardinality(Holders(cfConn, p))
    <3>1. Holders(cfConn, p) = {}
      BY <1>1, NewConnIs DEF Holders, HeldBy
    <3> QED
      BY <1>1, <3>1, FS_EmptySet
  <2> QED
    BY <2>1, PinsAre
<1>5. NoticeInFlight
  BY <1>1 DEF NoticeInFlight
<1> QED
  BY <1>2, <1>3, <1>4, <1>5 DEF CfInv

LEMMA ServeNoticed ==
  ASSUME CfConstants, CfInv, NEW c \in Conns, serve(c)
  PROVE  CfInv'
<1>1. PICK y : y = [NewConn EXCEPT !.st = "open", !.writer = TRUE]
  OBVIOUS
<1>2. /\ y \in Sockets /\ y.st = "open" /\ y.subs = {} /\ y.at = "idle"
  BY <1>1, NewConnIs DEF NewConn, Sockets
<1>3. /\ cfConn' = [cfConn EXCEPT ![c] = y] /\ cfConn[c].st = "off" /\ SocketStep
      /\ UNCHANGED <<cfPins, cfOwed, cfCrossed>> /\ cfHub' = [cfHub EXCEPT !.conns = cfHub.conns \union {c}]
  BY <1>1 DEF serve
<1>4. cfConn[c] = NewConn /\ cfOwed[c] = {} /\ cfOwed \in [Conns -> SUBSET CfPaths]
  BY <1>3, NewConnIs DEF CfInv, SocketInv, CfTyped
<1>5. cfHub' \in [closed : BOOLEAN, conns : SUBSET Conns] /\ cfHub'.conns = cfHub.conns \union {c}
  BY <1>3 DEF CfInv, CfTyped
<1>6. \A p \in CfPaths : HeldBy(y, p) <=> HeldBy(cfConn[c], p)
  BY <1>2, <1>4, NewConnIs DEF HeldBy
<1> QED
  BY <1>2, <1>3, <1>4, <1>5, <1>6, SocketKeeps

\* A step of one socket that only moves its reader, its writer or its state.
LEMMA SocketTurns ==
  ASSUME CfConstants, CfInv, SocketStep, UNCHANGED <<cfHub, cfPins, cfOwed, cfCrossed>>, NEW c \in Conns,
         NEW y \in Sockets, cfConn' = [cfConn EXCEPT ![c] = y],
         \A p \in CfPaths : HeldBy(y, p) <=> HeldBy(cfConn[c], p),
         cfConn[c].subs \subseteq y.subs, y.st # "off", y.at # "idle" => y.st = "open" /\ y.path \in CfPaths,
         y.at = "pinning" /\ ~cfCrossed => y.path \in y.subs,
         y.writer => cfConn[c].writer /\ cfConn[c].pending \union cfConn[c].due \subseteq y.pending \union y.due
  PROVE  CfInv'
<1>1. /\ cfOwed \in [Conns -> SUBSET CfPaths] /\ cfOwed[c] \subseteq cfConn[c].subs
      /\ cfHub \in [closed : BOOLEAN, conns : SUBSET Conns]
  BY DEF CfInv, CfTyped, SocketInv
<1> QED
  BY <1>1, SocketKeeps

LEMMA ResolveNoticed ==
  ASSUME CfConstants, CfInv, NEW c \in Conns, NEW p \in CfPaths, ResolveForEvents(c, p)
  PROVE  CfInv'
<1>0. cfConn \in [Conns -> Sockets] /\ cfConn[c] \in Sockets
  BY DEF CfInv, CfTyped
<1>1. PICK y : y = [cfConn[c] EXCEPT !.at = "resolved", !.path = p]
  OBVIOUS
<1>2. /\ cfConn' = [cfConn EXCEPT ![c] = y] /\ cfConn[c].st = "open" /\ cfConn[c].at = "idle" /\ SocketStep
      /\ UNCHANGED <<cfHub, cfPins, cfOwed, cfCrossed>>
  BY <1>0, <1>1 DEF ResolveForEvents, Sockets
<1>3. /\ y \in Sockets /\ y.st = "open" /\ y.subs = cfConn[c].subs /\ y.at = "resolved" /\ y.path = p
      /\ y.writer = cfConn[c].writer /\ y.pending = cfConn[c].pending /\ y.due = cfConn[c].due
  BY <1>0, <1>1, <1>2 DEF Sockets
<1>4. \A q \in CfPaths : HeldBy(y, q) <=> HeldBy(cfConn[c], q)
  BY <1>2, <1>3 DEF HeldBy
<1> QED
  BY <1>2, <1>3, <1>4, SocketTurns

LEMMA SubscribeNoticed ==
  ASSUME CfConstants, CfInv, NEW c \in Conns, subscribe(c)
  PROVE  CfInv'
<1>0. cfConn \in [Conns -> Sockets] /\ cfConn[c] \in Sockets
  BY DEF CfInv, CfTyped
<1>a. PICK p : p = cfConn[c].path
  OBVIOUS
<1>1. PICK y : y = [cfConn[c] EXCEPT !.subs = cfConn[c].subs \union {p},
                                     !.at = IF p \in cfConn[c].subs THEN "idle" ELSE "pinning",
                                     !.path = IF p \in cfConn[c].subs THEN NoEvent ELSE p]
  OBVIOUS
<1>2. /\ cfConn' = [cfConn EXCEPT ![c] = y] /\ cfConn[c].at = "resolved" /\ SocketStep
      /\ UNCHANGED <<cfHub, cfPins, cfOwed, cfCrossed>>
  BY <1>0, <1>a, <1>1 DEF subscribe, Sockets
<1>3. cfConn[c].st = "open" /\ p \in CfPaths
  BY <1>a, <1>2 DEF CfInv, SocketInv
<1>4. /\ y \in Sockets /\ y.st = "open" /\ y.subs = cfConn[c].subs \union {p}
      /\ (y.at # "idle" => y.at = "pinning" /\ y.path = p /\ p \notin cfConn[c].subs)
      /\ (p \notin cfConn[c].subs => y.at = "pinning" /\ y.path = p)
      /\ y.writer = cfConn[c].writer /\ y.pending = cfConn[c].pending /\ y.due = cfConn[c].due
  <2>1. CASE p \in cfConn[c].subs
    BY <1>0, <1>1, <1>3, <2>1 DEF Sockets
  <2>2. CASE p \notin cfConn[c].subs
    BY <1>0, <1>1, <1>3, <2>2 DEF Sockets
  <2> QED
    BY <2>1, <2>2
<1>5. \A q \in CfPaths : HeldBy(y, q) <=> HeldBy(cfConn[c], q)
  BY <1>2, <1>4 DEF HeldBy
<1> QED
  BY <1>2, <1>3, <1>4, <1>5, SocketTurns

LEMMA PinNoticed ==
  ASSUME CfConstants, CfInv, NEW c \in Conns, pinForEvents(c)
  PROVE  CfInv'
<1>0. cfConn \in [Conns -> Sockets] /\ cfConn[c] \in Sockets /\ cfPins \in [CfPaths -> Nat] /\ cfCrossed \in BOOLEAN
  BY DEF CfInv, CfTyped
<1>a. PICK p : p = cfConn[c].path
  OBVIOUS
<1>1. PICK y : y = [cfConn[c] EXCEPT !.at = "idle", !.path = NoEvent]
  OBVIOUS
<1>2. /\ cfConn' = [cfConn EXCEPT ![c] = y] /\ cfConn[c].at = "pinning" /\ SocketStep
      /\ cfPins' = [cfPins EXCEPT ![p] = cfPins[p] + 1] /\ UNCHANGED <<cfHub, cfOwed, cfCrossed>>
  BY <1>0, <1>a, <1>1 DEF pinForEvents, Sockets
<1>3. cfConn[c].st = "open" /\ p \in CfPaths /\ (~cfCrossed => p \in cfConn[c].subs) /\ cfOwed[c] \subseteq cfConn[c].subs
  BY <1>a, <1>2 DEF CfInv, SocketInv
<1>4. /\ y \in Sockets /\ y.st = "open" /\ y.subs = cfConn[c].subs /\ y.at = "idle"
      /\ y.writer = cfConn[c].writer /\ y.pending = cfConn[c].pending /\ y.due = cfConn[c].due
  BY <1>0, <1>1, <1>3 DEF Sockets
<1>5. cfPins' \in [CfPaths -> Nat]
  BY <1>0, <1>2, <1>3
<1>6. ASSUME ~cfCrossed, NEW q \in CfPaths
      PROVE  cfPins'[q] = cfPins[q] + Count(HeldBy(y, q)) - Count(HeldBy(cfConn[c], q))
  <2>0. cfPins[q] \in Nat
    BY <1>0
  <2>1. CASE q = p
    <3>1. HeldBy(y, q) /\ ~HeldBy(cfConn[c], q)
      BY <1>a, <1>2, <1>3, <1>4, <1>6, <2>1 DEF HeldBy
    <3>2. cfPins'[q] = cfPins[q] + 1
      BY <1>0, <1>2, <2>1
    <3> QED
      BY <2>0, <3>1, <3>2 DEF Count
  <2>2. CASE q # p
    <3>1. HeldBy(y, q) <=> HeldBy(cfConn[c], q)
      BY <1>a, <1>2, <1>4, <2>2 DEF HeldBy
    <3>2. cfPins'[q] = cfPins[q]
      BY <1>0, <1>2, <2>2
    <3> QED
      BY <2>0, <3>1, <3>2 DEF Count
  <2> QED
    BY <2>1, <2>2
<1>7. cfOwed \in [Conns -> SUBSET CfPaths] /\ cfHub \in [closed : BOOLEAN, conns : SUBSET Conns]
  BY DEF CfInv, CfTyped
<1>8. Follows(c, y)
  BY <1>0, <1>2, <1>3, <1>4, <1>5, <1>6, <1>7 DEF Follows
<1> QED
  BY <1>2, <1>8, SocketMoved

LEMMA DueNoticed ==
  ASSUME CfConstants, CfInv, NEW c \in Conns, due(c)
  PROVE  CfInv'
<1>0. cfConn \in [Conns -> Sockets] /\ cfConn[c] \in Sockets
  BY DEF CfInv, CfTyped
<1>1. PICK ps \in SUBSET cfConn[c].pending : cfConn' = [cfConn EXCEPT ![c].due = ps, ![c].pending = @ \ ps]
  BY DEF due
<1>2. PICK y : y = [cfConn[c] EXCEPT !.due = ps, !.pending = cfConn[c].pending \ ps]
  OBVIOUS
<1>3. /\ cfConn' = [cfConn EXCEPT ![c] = y] /\ cfConn[c].writer /\ cfConn[c].due = {} /\ SocketStep
      /\ UNCHANGED <<cfHub, cfPins, cfOwed, cfCrossed>>
  BY <1>0, <1>1, <1>2 DEF due, Sockets
<1>4. /\ y \in Sockets /\ y.st = cfConn[c].st /\ y.subs = cfConn[c].subs /\ y.at = cfConn[c].at
      /\ y.path = cfConn[c].path /\ y.writer = cfConn[c].writer
      /\ y.pending = cfConn[c].pending \ ps /\ y.due = ps
  BY <1>0, <1>1, <1>2 DEF Sockets
<1>5. /\ cfConn[c].st # "off" /\ (cfConn[c].at # "idle" => cfConn[c].st = "open" /\ cfConn[c].path \in CfPaths)
      /\ (cfConn[c].at = "pinning" /\ ~cfCrossed => cfConn[c].path \in cfConn[c].subs)
  BY <1>3, NewConnIs DEF CfInv, SocketInv
<1>6. \A q \in CfPaths : HeldBy(y, q) <=> HeldBy(cfConn[c], q)
  BY <1>4 DEF HeldBy
<1> QED
  BY <1>1, <1>3, <1>4, <1>5, <1>6, SocketTurns

LEMMA LoopEndsNoticed ==
  ASSUME CfConstants, CfInv, NEW c \in Conns, readLoopEnds(c)
  PROVE  CfInv'
<1>0. cfConn \in [Conns -> Sockets] /\ cfConn[c] \in Sockets
  BY DEF CfInv, CfTyped
<1>1. PICK y : y = [cfConn[c] EXCEPT !.st = "leaving"]
  OBVIOUS
<1>2. /\ cfConn' = [cfConn EXCEPT ![c] = y] /\ cfConn[c].st = "open" /\ cfConn[c].at = "idle" /\ SocketStep
      /\ UNCHANGED <<cfHub, cfPins, cfOwed, cfCrossed>>
  BY <1>0, <1>1 DEF readLoopEnds, Sockets
<1>3. /\ y \in Sockets /\ y.st = "leaving" /\ y.subs = cfConn[c].subs /\ y.at = "idle"
      /\ y.writer = cfConn[c].writer /\ y.pending = cfConn[c].pending /\ y.due = cfConn[c].due
  BY <1>0, <1>1, <1>2 DEF Sockets
<1>4. \A q \in CfPaths : HeldBy(y, q) <=> HeldBy(cfConn[c], q)
  BY <1>2, <1>3 DEF HeldBy
<1> QED
  BY <1>2, <1>3, <1>4, SocketTurns

\* A socket gives up paths.
LEMMA ForgetNoticed ==
  ASSUME CfConstants, CfInv, SocketStep, NEW c \in Conns, NEW ps \in SUBSET CfPaths, Forget(c, ps), NEW y \in Sockets,
         cfConn' = [cfConn EXCEPT ![c] = y], y.subs = cfConn[c].subs \ ps,
         \/ y.at = cfConn[c].at /\ y.path = cfConn[c].path /\ y.st = cfConn[c].st /\ y.st # "off"
         \/ y = NewConn /\ cfConn[c].at # "pinning" /\ c \notin cfHub'.conns,
         cfHub' \in [closed : BOOLEAN, conns : SUBSET Conns], cfHub'.conns \subseteq cfHub.conns,
         y.writer => /\ cfConn[c].writer
                     /\ (cfConn[c].pending \union cfConn[c].due) \ ps \subseteq y.pending \union y.due
  PROVE  CfInv'
<1>1. \/ y.at = cfConn[c].at /\ y.path = cfConn[c].path
      \/ y.at # "pinning" /\ cfConn[c].at # "pinning"
  BY NewConnIs
<1>2. /\ cfPins' \in [CfPaths -> Nat] /\ cfCrossed' \in BOOLEAN /\ (cfCrossed => cfCrossed')
      /\ (~cfCrossed' => \A p \in CfPaths : cfPins'[p] = cfPins[p] + Count(HeldBy(y, p)) - Count(HeldBy(cfConn[c], p)))
      /\ (~cfCrossed' /\ cfConn[c].at = "pinning" => cfConn[c].path \notin ps \intersect cfConn[c].subs)
      /\ cfOwed' = [cfOwed EXCEPT ![c] = cfOwed[c] \ ps]
  BY <1>1, ForgetPins
<1>3. /\ cfOwed \in [Conns -> SUBSET CfPaths] /\ cfOwed[c] \subseteq cfConn[c].subs
      /\ (cfConn[c].at # "idle" => cfConn[c].st = "open" /\ cfConn[c].path \in CfPaths)
      /\ (cfConn[c].at = "pinning" /\ ~cfCrossed => cfConn[c].path \in cfConn[c].subs)
  BY DEF CfInv, CfTyped, SocketInv
<1>4. /\ cfOwed' \in [Conns -> SUBSET CfPaths] /\ cfOwed'[c] = cfOwed[c] \ ps
      /\ \A d \in Conns \ {c} : cfOwed'[d] = cfOwed[d]
  BY <1>2, <1>3
<1>5. y.at = "pinning" /\ ~cfCrossed' => y.path \in y.subs
  BY <1>2, <1>3, NewConnIs
<1>6. Follows(c, y)
  BY <1>2, <1>3, <1>4, <1>5, NewConnIs DEF Follows
<1> QED
  BY <1>6, SocketMoved

LEMMA UnsubscribeNoticed ==
  ASSUME CfConstants, CfInv, NEW c \in Conns, NEW p \in CfPaths, unsubscribe(c, p)
  PROVE  CfInv'
<1>0. cfConn \in [Conns -> Sockets] /\ cfConn[c] \in Sockets /\ cfHub \in [closed : BOOLEAN, conns : SUBSET Conns]
  BY DEF CfInv, CfTyped
<1>1. PICK y : y = [cfConn[c] EXCEPT !.subs = cfConn[c].subs \ {p}, !.pending = cfConn[c].pending \ {p}]
  OBVIOUS
<1>2. /\ cfConn' = [cfConn EXCEPT ![c] = y] /\ cfConn[c].st = "open" /\ SocketStep
      /\ UNCHANGED cfHub /\ Forget(c, {p})
  BY <1>0, <1>1 DEF unsubscribe, Sockets
<1>3. /\ y \in Sockets /\ y.st = cfConn[c].st /\ y.subs = cfConn[c].subs \ {p} /\ y.at = cfConn[c].at
      /\ y.path = cfConn[c].path /\ y.writer = cfConn[c].writer /\ y.pending = cfConn[c].pending \ {p}
      /\ y.due = cfConn[c].due
  BY <1>0, <1>1 DEF Sockets
<1>4. {p} \in SUBSET CfPaths
  OBVIOUS
<1> QED
  BY <1>0, <1>2, <1>3, <1>4, ForgetNoticed

LEMMA FlushNoticed ==
  ASSUME CfConstants, CfInv, NEW c \in Conns, NEW p \in CfPaths, flush(c, p)
  PROVE  CfInv'
<1>0. /\ cfConn \in [Conns -> Sockets] /\ cfConn[c] \in Sockets /\ cfHub \in [closed : BOOLEAN, conns : SUBSET Conns]
      /\ cfConn[c].writer /\ UNCHANGED cfHub /\ SocketStep /\ cfOwed \in [Conns -> SUBSET CfPaths]
  BY DEF CfInv, CfTyped, flush
<1>1. /\ cfConn[c].st # "off" /\ (cfConn[c].at # "idle" => cfConn[c].st = "open" /\ cfConn[c].path \in CfPaths)
      /\ (cfConn[c].at = "pinning" /\ ~cfCrossed => cfConn[c].path \in cfConn[c].subs)
      /\ cfOwed[c] \subseteq cfConn[c].subs
  BY <1>0, NewConnIs DEF CfInv, SocketInv
<1>2. CASE /\ Forget(c, {p})
           /\ cfConn' = [cfConn EXCEPT ![c].due = @ \ {p}, ![c].subs = @ \ {p}, ![c].pending = @ \ {p}]
  <2>1. PICK y : y = [cfConn[c] EXCEPT !.due = cfConn[c].due \ {p}, !.subs = cfConn[c].subs \ {p},
                                       !.pending = cfConn[c].pending \ {p}]
    OBVIOUS
  <2>2. cfConn' = [cfConn EXCEPT ![c] = y]
    BY <1>0, <1>2, <2>1 DEF Sockets
  <2>3. /\ y \in Sockets /\ y.st = cfConn[c].st /\ y.subs = cfConn[c].subs \ {p} /\ y.at = cfConn[c].at
        /\ y.path = cfConn[c].path /\ y.writer = cfConn[c].writer /\ y.pending = cfConn[c].pending \ {p}
        /\ y.due = cfConn[c].due \ {p}
    BY <1>0, <2>1 DEF Sockets
  <2>4. {p} \in SUBSET CfPaths
    OBVIOUS
  <2> QED
    <3>1. (cfConn[c].pending \union cfConn[c].due) \ {p} \subseteq y.pending \union y.due
      BY <2>3
    <3>2. cfHub' \in [closed : BOOLEAN, conns : SUBSET Conns] /\ cfHub'.conns \subseteq cfHub.conns
      BY <1>0
    <3>3. Forget(c, {p}) /\ SocketStep /\ cfConn[c].writer /\ y.st # "off"
      BY <1>0, <1>1, <1>2, <2>3
    <3> QED
      BY <2>2, <2>3, <2>4, <3>1, <3>2, <3>3, ForgetNoticed
<1>3. CASE /\ cfConn' = [cfConn EXCEPT ![c].due = @ \ {p}] /\ cfOwed' = [cfOwed EXCEPT ![c] = @ \ {p}]
           /\ UNCHANGED <<cfPins, cfCrossed>>
  <2>1. PICK y : y = [cfConn[c] EXCEPT !.due = cfConn[c].due \ {p}]
    OBVIOUS
  <2>2. cfConn' = [cfConn EXCEPT ![c] = y]
    BY <1>0, <1>3, <2>1 DEF Sockets
  <2>3. /\ y \in Sockets /\ y.st = cfConn[c].st /\ y.subs = cfConn[c].subs /\ y.at = cfConn[c].at
        /\ y.path = cfConn[c].path /\ y.writer = cfConn[c].writer /\ y.pending = cfConn[c].pending
        /\ y.due = cfConn[c].due \ {p}
    BY <1>0, <2>1 DEF Sockets
  <2>4. \A q \in CfPaths : HeldBy(y, q) <=> HeldBy(cfConn[c], q)
    BY <2>3 DEF HeldBy
  <2>5. /\ cfOwed' \in [Conns -> SUBSET CfPaths] /\ cfOwed'[c] = cfOwed[c] \ {p}
        /\ \A d \in Conns \ {c} : cfOwed'[d] = cfOwed[d]
    BY <1>0, <1>3
  <2> QED
    <3>1. \A q \in cfOwed'[c] : q \in cfConn[c].pending \union cfConn[c].due => q \in y.pending \union y.due
      BY <2>3, <2>5
    <3>2. cfHub' \in [closed : BOOLEAN, conns : SUBSET Conns] /\ cfHub'.conns = cfHub.conns
      BY <1>0
    <3>3. cfOwed'[c] \subseteq cfOwed[c] /\ cfOwed'[c] \subseteq y.subs
      BY <1>1, <2>3, <2>5
    <3>4. /\ UNCHANGED <<cfPins, cfCrossed>> /\ SocketStep /\ cfConn[c].writer /\ y.st # "off"
          /\ (y.at # "idle" => y.st = "open" /\ y.path \in CfPaths) /\ (y.at = "pinning" /\ ~cfCrossed => y.path \in y.subs)
      BY <1>0, <1>1, <1>3, <2>3
    <3> QED
      BY <2>2, <2>3, <2>4, <2>5, <3>1, <3>2, <3>3, <3>4, SocketKeeps
<1>4. CASE cfConn' = [cfConn EXCEPT ![c].due = {}, ![c].writer = FALSE] /\ UNCHANGED <<cfPins, cfOwed, cfCrossed>>
  <2>1. PICK y : y = [cfConn[c] EXCEPT !.due = {}, !.writer = FALSE]
    OBVIOUS
  <2>2. cfConn' = [cfConn EXCEPT ![c] = y]
    BY <1>0, <1>4, <2>1 DEF Sockets
  <2>3. /\ y \in Sockets /\ y.st = cfConn[c].st /\ y.subs = cfConn[c].subs /\ y.at = cfConn[c].at
        /\ y.path = cfConn[c].path /\ ~y.writer
    BY <1>0, <2>1 DEF Sockets
  <2>4. \A q \in CfPaths : HeldBy(y, q) <=> HeldBy(cfConn[c], q)
    BY <2>3 DEF HeldBy
  <2> QED
    BY <1>0, <1>1, <1>4, <2>2, <2>3, <2>4, SocketTurns
<1> QED
  BY <1>2, <1>3, <1>4 DEF flush

LEMMA ReleaseNoticed ==
  ASSUME CfConstants, CfInv, NEW c \in Conns, releaseAll(c)
  PROVE  CfInv'
<1>0. cfConn \in [Conns -> Sockets] /\ cfConn[c] \in Sockets /\ cfHub \in [closed : BOOLEAN, conns : SUBSET Conns]
  BY DEF CfInv, CfTyped
<1>1. PICK y : y = NewConn
  OBVIOUS
<1>2. /\ cfConn' = [cfConn EXCEPT ![c] = y] /\ cfConn[c].st = "leaving" /\ SocketStep
      /\ cfHub' = [cfHub EXCEPT !.conns = cfHub.conns \ {c}] /\ Forget(c, CfPaths)
  BY <1>1 DEF releaseAll
<1>3. cfConn[c].at # "pinning" /\ cfConn[c].subs \subseteq CfPaths
  BY <1>0, <1>2 DEF CfInv, SocketInv, Sockets
<1>4. y \in Sockets /\ y.subs = cfConn[c].subs \ CfPaths /\ ~y.writer
  BY <1>1, <1>3, NewConnIs
<1>5. cfHub' \in [closed : BOOLEAN, conns : SUBSET Conns] /\ cfHub'.conns = cfHub.conns \ {c}
  BY <1>0, <1>2
<1>6. CfPaths \in SUBSET CfPaths
  OBVIOUS
<1> QED
  BY <1>1, <1>2, <1>3, <1>4, <1>5, <1>6, ForgetNoticed

\* Every socket of the hub loses what it held.
LEMMA CloseNoticed ==
  ASSUME CfConstants, CfInv, HubClose
  PROVE  CfInv'
<1>1. /\ cfHub' = [closed |-> TRUE, conns |-> {}] /\ cfOwed' = [c \in Conns |-> {}] /\ SocketStep
      /\ cfConn' = [c \in Conns |-> IF c \in cfHub.conns THEN [cfConn[c] EXCEPT !.subs = {}, !.pending = {}] ELSE cfConn[c]]
      /\ cfPins' = [p \in CfPaths |-> IF cfPins[p] > Cardinality({c \in cfHub.conns : p \in cfConn[c].subs})
                                      THEN cfPins[p] - Cardinality({c \in cfHub.conns : p \in cfConn[c].subs}) ELSE 0]
      /\ cfCrossed' = (cfCrossed \/ \E c \in cfHub.conns : cfConn[c].at = "pinning" /\ cfConn[c].path \in cfConn[c].subs)
  BY DEF HubClose
<1>2. /\ cfConn \in [Conns -> Sockets] /\ cfPins \in [CfPaths -> Nat] /\ cfCrossed \in BOOLEAN
      /\ cfHub.conns \subseteq Conns /\ IsFiniteSet(Conns)
  BY DEF CfInv, CfTyped, CfConstants
<1>3. ASSUME NEW c \in Conns
      PROVE  /\ cfConn'[c] \in Sockets /\ cfConn'[c].st = cfConn[c].st /\ cfConn'[c].at = cfConn[c].at
             /\ cfConn'[c].path = cfConn[c].path
             /\ cfConn'[c].subs = IF c \in cfHub.conns THEN {} ELSE cfConn[c].subs
             /\ (c \notin cfHub.conns => cfConn'[c] = cfConn[c])
  <2>1. cfConn[c] \in Sockets
    BY <1>2
  <2>2. CASE c \in cfHub.conns
    BY <1>1, <2>1, <2>2 DEF Sockets
  <2>3. CASE c \notin cfHub.conns
    BY <1>1, <2>1, <2>3
  <2> QED
    BY <2>2, <2>3
<1>4. /\ cfConn' \in [Conns -> Sockets] /\ cfHub' \in [closed : BOOLEAN, conns : SUBSET Conns] /\ cfHub'.conns = {}
      /\ cfOwed' \in [Conns -> SUBSET CfPaths] /\ cfCrossed' \in BOOLEAN /\ (cfCrossed => cfCrossed')
  BY <1>1, <1>2, <1>3
<1>5. ASSUME NEW p \in CfPaths
      PROVE  cfPins'[p] \in Nat /\ (~cfCrossed' => cfPins'[p] = Cardinality(Holders(cfConn', p)))
  <2> DEFINE H == Holders(cfConn, p)
             L == {c \in cfHub.conns : p \in cfConn[c].subs}
  <2>1. H \in SUBSET Conns /\ L \in SUBSET Conns
    BY <1>2 DEF Holders
  <2>2. IsFiniteSet(H) /\ IsFiniteSet(L)
    BY <1>2, <2>1, FS_Subset
  <2>3. Cardinality(H) \in Nat /\ Cardinality(L) \in Nat
    BY <2>2, FS_CardinalityType
  <2>4. cfPins'[p] = (IF cfPins[p] > Cardinality(L) THEN cfPins[p] - Cardinality(L) ELSE 0) /\ cfPins[p] \in Nat
    BY <1>1, <1>2
  <2>5. ASSUME ~cfCrossed' PROVE cfPins'[p] = Cardinality(Holders(cfConn', p))
    <3>1. \A c \in cfHub.conns : HeldBy(cfConn[c], p) <=> p \in cfConn[c].subs
      BY <1>1, <1>2, <2>5 DEF HeldBy
    <3>2. H \intersect L = L
      BY <1>2, <3>1 DEF Holders
    <3>3. Holders(cfConn', p) = H \ L
      BY <1>2, <1>3, <3>1 DEF Holders, HeldBy
    <3>4. cfPins[p] = Cardinality(H)
      BY <1>4, <2>5, PinsAre DEF CfInv
    <3> HIDE DEF H, L
    <3>5. Cardinality(H \ L) = Cardinality(H) - Cardinality(L) /\ IsFiniteSet(H \ L)
      BY <2>2, <3>2, FS_Difference
    <3>6. Cardinality(H \ L) \in Nat
      BY <3>5, FS_CardinalityType
    <3> QED
      BY <2>3, <2>4, <3>3, <3>4, <3>5, <3>6
  <2> HIDE DEF H, L
  <2>6. cfPins'[p] \in Nat
    BY <2>3, <2>4
  <2> QED
    BY <2>5, <2>6
<1>6. cfPins' \in [CfPaths -> Nat]
  <2>1. cfPins' = [p \in CfPaths |-> cfPins'[p]]
    BY <1>1
  <2> QED
    BY <1>5, <2>1
<1>7. CfTyped'
  BY <1>1, <1>4, <1>6 DEF CfInv, CfTyped, SocketStep, cfStream
<1>8. SocketInv'
  <2>1. ASSUME NEW c \in Conns, c \in cfHub.conns PROVE cfConn[c].st # "off"
    BY <2>1 DEF CfInv, SocketInv
  <2>2. ASSUME NEW c \in Conns, cfConn[c].at = "pinning", ~cfCrossed' PROVE c \notin cfHub.conns
    BY <1>1, <1>4, <2>2 DEF CfInv, SocketInv
  <2>3. \A c \in Conns : cfOwed'[c] = {}
    BY <1>1
  <2> QED
    BY <1>3, <1>4, <2>1, <2>2, <2>3 DEF CfInv, SocketInv
<1>9. PinsExact'
  <2>1. PinsExact' <=> (cfCrossed' \/ \A p \in CfPaths : cfPins'[p] = Cardinality(Holders(cfConn', p)))
    BY DEF PinsExact, Holders, HeldBy
  <2> QED
    BY <1>5, <2>1
<1>10. NoticeInFlight'
  BY <1>4 DEF NoticeInFlight
<1> QED
  BY <1>7, <1>8, <1>9, <1>10 DEF CfInv

\* The stream moves on and loses nothing.
LEMMA StreamNoticed ==
  ASSUME CfInv, UNCHANGED <<cfHub, cfConn, cfPins, cfOwed, cfCrossed>>, cfRaw' \in Seq(CfEvents),
         cfOut' \in Seq(CfEvents), cfLost' \in BOOLEAN, cfWork' \in CfEvents \union {NoEvent},
         \A p \in CfPaths : Coming(p) => Coming(p)'
  PROVE  CfInv'
<1>1. CfTyped' /\ SocketInv' /\ PinsExact'
  BY DEF CfInv, CfTyped, SocketInv, PinsExact
<1>2. \A c \in cfHub.conns : cfOwed[c] \subseteq CfPaths
  BY DEF CfInv, CfTyped
<1>3. NoticeInFlight'
  BY <1>2, NoticeKept DEF CfInv
<1> QED
  BY <1>1, <1>3 DEF CfInv

LEMMA SayLostNoticed ==
  ASSUME CfInv, SayLost
  PROVE  CfInv'
<1>1. /\ cfRaw' = Append(cfRaw, All) /\ cfLost' = FALSE /\ cfOut' = cfOut /\ cfWork' = cfWork
      /\ UNCHANGED <<cfHub, cfConn, cfPins, cfOwed, cfCrossed>> /\ cfRaw \in Seq(CfEvents) /\ cfOut \in Seq(CfEvents)
      /\ All \in CfEvents /\ cfWork \in CfEvents \union {NoEvent}
  BY DEF SayLost, cfPeople, CfInv, CfTyped, CfEvents
<1>2. cfRaw' \in Seq(CfEvents) /\ \A p : Queued(cfRaw', p)
  BY <1>1, QueuedAppend DEF Covers
<1>3. \A p : Coming(p)'
  BY <1>2 DEF Coming, Queued
<1> QED
  BY <1>1, <1>2, <1>3, StreamNoticed

LEMMA AdaptNoticed ==
  ASSUME CfConstants, CfInv, Adapt
  PROVE  CfInv'
<1>1. /\ cfWork' = Head(cfRaw) /\ cfRaw' = Tail(cfRaw) /\ cfOut' = cfOut /\ cfLost' = cfLost /\ cfWork = NoEvent
      /\ UNCHANGED <<cfHub, cfConn, cfPins, cfOwed, cfCrossed>> /\ cfRaw \in Seq(CfEvents) /\ cfOut \in Seq(CfEvents)
      /\ cfRaw # <<>> /\ cfLost \in BOOLEAN
  BY DEF Adapt, cfPeople, CfInv, CfTyped
<1>2. /\ cfRaw' \in Seq(CfEvents) /\ cfWork' \in CfEvents
      /\ \A p : Queued(cfRaw, p) => Covers(cfWork', p) \/ Queued(cfRaw', p)
  BY <1>1, QueuedTail
<1>3. \A p \in CfPaths : ~Covers(cfWork, p)
  BY <1>1 DEF Covers, CfConstants, NoEvent, All
<1>4. \A p \in CfPaths : Coming(p) => Coming(p)'
  <2>1. ASSUME NEW p \in CfPaths, Coming(p) PROVE Coming(p)'
    <3>1. Queued(cfRaw, p) \/ cfLost \/ Queued(cfOut, p)
      BY <1>3, <2>1 DEF Coming
    <3>2. Queued(cfRaw', p) \/ cfLost' \/ Covers(cfWork', p) \/ Queued(cfOut', p)
      BY <1>1, <1>2, <3>1
    <3> QED
      BY <3>2 DEF Coming, Queued, Covers
  <2> QED
    BY <2>1
<1> QED
  BY <1>1, <1>2, <1>4, StreamNoticed

LEMMA SourcesNoticed ==
  ASSUME CfInv, eventSources
  PROVE  CfInv'
<1>1. /\ cfOut' = Append(cfOut, cfWork) /\ cfRaw' = cfRaw /\ cfLost' = cfLost
      /\ UNCHANGED <<cfHub, cfConn, cfPins, cfOwed, cfCrossed>> /\ cfRaw \in Seq(CfEvents) /\ cfOut \in Seq(CfEvents)
      /\ cfLost \in BOOLEAN /\ cfWork \in CfEvents /\ cfWork' = NoEvent
  BY DEF eventSources, cfPeople, CfInv, CfTyped
<1>2. cfOut' \in Seq(CfEvents) /\ \A p : Queued(cfOut, p) \/ Covers(cfWork, p) => Queued(cfOut', p)
  BY <1>1, QueuedAppend
<1>3. \A p \in CfPaths : Coming(p) => Coming(p)'
  <2>1. ASSUME NEW p \in CfPaths, Coming(p) PROVE Coming(p)'
    <3>1. Queued(cfRaw', p) \/ cfLost' \/ Queued(cfOut', p)
      BY <1>1, <1>2, <2>1 DEF Coming
    <3> QED
      BY <3>1 DEF Coming, Queued, Covers
  <2> QED
    BY <2>1
<1> QED
  BY <1>1, <1>2, <1>3, StreamNoticed

LEMMA RegrantNoticed ==
  ASSUME CfInv, UNCHANGED <<cfRaw, cfLost, cfWork, cfOut, cfHub, cfConn, cfPins, cfOwed, cfCrossed>>
  PROVE  CfInv'
<1>1. \A p : Coming(p) => Coming(p)'
  BY ComingSame DEF cfStream
<1> QED
  BY <1>1, StreamNoticed DEF CfInv, CfTyped

\* A change that is owed is reported: its directory is pinned.
LEMMA ChangeNoticed ==
  ASSUME CfConstants, CfInv, NEW p \in CfPaths, ChangeDir(p)
  PROVE  CfInv'
<1>1. /\ UNCHANGED <<cfWork, cfOut, cfHub, cfConn, cfPins, cfCrossed>>
      /\ cfOwed' = [c \in Conns |-> IF HeldBy(cfConn[c], p) THEN cfOwed[c] \union {p} ELSE cfOwed[c]]
      /\ Report(p) \/ (cfPins[p] = 0 /\ UNCHANGED <<cfRaw, cfLost>>)
  BY DEF ChangeDir, HeldBy
<1>2. /\ cfRaw \in Seq(CfEvents) /\ cfOwed \in [Conns -> SUBSET CfPaths] /\ cfConn \in [Conns -> Sockets]
      /\ p \in CfEvents /\ cfLost \in BOOLEAN /\ cfHub.conns \subseteq Conns
  BY DEF CfInv, CfTyped, CfEvents
<1>3. CASE Report(p)
  <2>1. /\ cfRaw' \in Seq(CfEvents) /\ cfLost' \in BOOLEAN /\ (cfLost => cfLost')
        /\ (Queued(cfRaw', p) \/ cfLost') /\ \A q : Queued(cfRaw, q) => Queued(cfRaw', q)
    <3>1. CASE cfRaw' = Append(cfRaw, p) /\ UNCHANGED cfLost
      BY <1>2, <3>1, QueuedAppend DEF Covers
    <3>2. CASE cfLost' = TRUE /\ UNCHANGED cfRaw
      BY <1>2, <3>2
    <3> QED
      BY <1>3, <3>1, <3>2 DEF Report
  <2>2. Coming(p)' /\ \A q : Coming(q) => Coming(q)'
    BY <1>1, <2>1 DEF Coming, Queued, Covers
  <2> QED
    <3>1. CfTyped'
      BY <1>1, <1>2, <2>1 DEF CfInv, CfTyped
    <3>2. SocketInv'
      BY <1>1 DEF CfInv, SocketInv, HeldBy
    <3>3. PinsExact'
      BY <1>1 DEF CfInv, PinsExact
    <3>4. NoticeInFlight'
      <4>1. ASSUME NEW c \in cfHub.conns, NEW q \in cfOwed'[c] PROVE q = p \/ q \in cfOwed[c]
        BY <1>1, <1>2
      <4> QED
        BY <1>1, <2>2, <4>1, NoticeKept DEF CfInv
    <3> QED
      BY <3>1, <3>2, <3>3, <3>4 DEF CfInv
<1>4. CASE cfPins[p] = 0 /\ UNCHANGED <<cfRaw, cfLost>>
  <2>1. ASSUME ~cfCrossed, NEW c \in Conns PROVE ~HeldBy(cfConn[c], p)
    <3>1. Cardinality(Holders(cfConn, p)) = 0
      BY <1>4, <2>1, PinsAre DEF CfInv
    <3>2. HeldBy(cfConn[c], p) => Cardinality(Holders(cfConn, p)) > 0
      BY <1>2, HoldersMoved
    <3> QED
      BY <3>1, <3>2
  <2>2. \A q : Coming(q) => Coming(q)'
    BY <1>1, <1>4 DEF Coming, Queued, Covers
  <2>3. CfTyped'
    BY <1>1, <1>2, <1>4 DEF CfInv, CfTyped
  <2>4. SocketInv'
    BY <1>1 DEF CfInv, SocketInv, HeldBy
  <2>5. PinsExact'
    BY <1>1 DEF CfInv, PinsExact
  <2>6. NoticeInFlight'
    <3>1. ASSUME ~cfCrossed, NEW c \in cfHub.conns, NEW q \in cfOwed'[c] PROVE q \in cfOwed[c]
      BY <1>1, <1>2, <2>1, <3>1
    <3> QED
      BY <1>1, <2>2, <3>1, NoticeKept DEF CfInv
  <2> QED
    BY <2>3, <2>4, <2>5, <2>6 DEF CfInv
<1> QED
  BY <1>1, <1>3, <1>4

\* What leaves the stream is noted by every socket that is owed it.
LEMMA FanOutNoticed ==
  ASSUME CfInv, fanOut
  PROVE  CfInv'
<1>1. PICK e : e = Head(cfOut)
  OBVIOUS
<1>2. /\ UNCHANGED <<cfRaw, cfLost, cfWork, cfHub, cfPins, cfOwed, cfCrossed>> /\ cfOut # <<>> /\ cfOut' = Tail(cfOut)
      /\ cfConn' = [c \in Conns |-> IF c \in cfHub.conns THEN record(cfConn[c], e) ELSE cfConn[c]]
  BY <1>1 DEF fanOut
<1>3. /\ cfOut \in Seq(CfEvents) /\ cfConn \in [Conns -> Sockets] /\ cfHub.conns \subseteq Conns
      /\ cfOwed \in [Conns -> SUBSET CfPaths]
  BY DEF CfInv, CfTyped
<1>4. cfOut' \in Seq(CfEvents) /\ \A p : Queued(cfOut, p) => Covers(e, p) \/ Queued(cfOut', p)
  BY <1>1, <1>2, <1>3, QueuedTail
<1>5. ASSUME NEW c \in Conns
      PROVE  /\ cfConn'[c] \in Sockets /\ cfConn'[c].st = cfConn[c].st /\ cfConn'[c].at = cfConn[c].at
             /\ cfConn'[c].path = cfConn[c].path /\ cfConn'[c].subs = cfConn[c].subs
             /\ cfConn'[c].writer = cfConn[c].writer /\ cfConn'[c].due = cfConn[c].due
             /\ cfConn[c].pending \subseteq cfConn'[c].pending
             /\ (c \notin cfHub.conns => cfConn'[c] = cfConn[c])
             /\ (c \in cfHub.conns => \A p \in cfConn[c].subs : Covers(e, p) => p \in cfConn'[c].pending)
  <2>1. cfConn[c] \in Sockets
    BY <1>3
  <2>2. CASE c \in cfHub.conns
    BY <1>2, <2>1, <2>2 DEF Sockets, record, Covers
  <2>3. CASE c \notin cfHub.conns
    BY <1>2, <2>1, <2>3
  <2> QED
    BY <2>2, <2>3
<1>6. CfTyped'
  <2>1. cfConn' \in [Conns -> Sockets]
    BY <1>2, <1>5
  <2> QED
    BY <1>2, <1>4, <2>1 DEF CfInv, CfTyped
<1>7. SocketInv'
  <2>1. ASSUME NEW c \in Conns, cfConn[c].st = "off" PROVE c \notin cfHub.conns
    BY <2>1 DEF CfInv, SocketInv
  <2> QED
    BY <1>2, <1>5, <2>1 DEF CfInv, SocketInv
<1>8. PinsExact'
  <2>1. ASSUME NEW p \in CfPaths PROVE Holders(cfConn', p) = Holders(cfConn, p)
    BY <1>5 DEF Holders, HeldBy
  <2>2. PinsExact' <=> (cfCrossed' \/ \A p \in CfPaths : cfPins'[p] = Cardinality(Holders(cfConn', p)))
    BY DEF PinsExact, Holders, HeldBy
  <2> QED
    BY <1>2, <2>1, <2>2, PinsAre DEF CfInv
<1>9. NoticeInFlight'
  <2>1. ASSUME NEW p PROVE Coming(p) => Coming(p)' \/ Covers(e, p)
    BY <1>2, <1>4 DEF Coming, Queued, Covers
  <2>2. ASSUME NEW c \in cfHub.conns, NEW p \in cfOwed[c]
        PROVE  /\ (Covers(e, p) => p \in cfConn'[c].pending) /\ cfConn'[c].writer = cfConn[c].writer
               /\ cfConn[c].pending \union cfConn[c].due \subseteq cfConn'[c].pending \union cfConn'[c].due
    <3>1. c \in Conns /\ p \in cfConn[c].subs
      BY <1>3 DEF CfInv, SocketInv
    <3> QED
      BY <1>5, <3>1
  <2> QED
    BY <1>2, <2>1, <2>2, NoticeKept DEF CfInv
<1> QED
  BY <1>6, <1>7, <1>8, <1>9 DEF CfInv

LEMMA CfInvNext ==
  ASSUME CfConstants, CfInv, CfNext
  PROVE  CfInv'
<1>1. ASSUME NEW p \in CfPaths, Regrant(p) PROVE CfInv'
  BY <1>1, RegrantNoticed DEF Regrant, cfStream
<1> QED
  BY <1>1, SayLostNoticed, AdaptNoticed, SourcesNoticed, FanOutNoticed, CloseNoticed, ChangeNoticed, ServeNoticed,
     SubscribeNoticed, PinNoticed, DueNoticed, LoopEndsNoticed, ReleaseNoticed, ResolveNoticed, UnsubscribeNoticed,
     FlushNoticed DEF CfNext

\* A change to a subscribed directory is never forgotten on its way to the socket
\* (events.go, changes.go), and the pins in the watcher are exactly the sockets'.
THEOREM NoticesReachSockets == ASSUME CfConstants PROVE CfSpec => [](NoticeInFlight /\ PinsExact)
<1>1. CfInit => CfInv
  BY CfInvInit
<1>2. CfInv /\ [CfNext]_cfVars => CfInv'
  <2>1. CASE UNCHANGED cfVars
    BY <2>1, RegrantNoticed DEF cfVars
  <2> QED
    BY <2>1, CfInvNext
<1>3. CfInv => NoticeInFlight /\ PinsExact
  BY DEF CfInv
<1> QED
  BY <1>1, <1>2, <1>3, PTL DEF CfSpec

------------------------------------------------------------------------------
(***************************************************************************)
(* The search index.  A complete index knows of every file: it has it, or  *)
(* an event, a queued update or a reconciliation of this generation will   *)
(* bring it.  A build that can still complete the index knows as much of   *)
(* the directories it has walked, and a lost event begins a generation no  *)
(* running build can complete.                                             *)
(***************************************************************************)

\* What the theorems ask of the constants: no directory is called "all".
SeConstants == "all" \notin SeDirs

------------------------------------------------------------------------------
(* The inductive invariant.                                                *)

SeEvents == SeDirs \union {"all"}
Indexes == [attached : BOOLEAN, entries : SUBSET SeDirs, incomplete : BOOLEAN, gen : Nat, late : SUBSET SeDirs]
Updates == [at : {"idle", "list", "write"}, dir : SeDirs \union {""}, held : BOOLEAN, found : BOOLEAN, gen : Nat]
Builds == [at : {"idle", "walk", "merged", "ended"}, gen : Nat, todo : SUBSET SeDirs, batch : SUBSET SeDirs,
           files : Nat, partial : BOOLEAN]

SeTyped ==
    /\ seDisk \subseteq SeDirs /\ seEvents \subseteq SeEvents /\ seQueue \in Seq(SeEvents)
    /\ seIx \in Indexes /\ seUpd \in Updates /\ seBuild \in [Builders -> Builds] /\ seWatch \in BOOLEAN

\* Only an attached index is updated and built.
AtWork ==
    /\ seQueue # <<>> => seIx.attached
    /\ seUpd.gen <= seIx.gen
    /\ seUpd.at # "idle" => seIx.attached /\ seUpd.dir \in SeDirs /\ (seUpd.held => seUpd.dir \in seIx.entries)
    /\ \A b \in Builders : /\ seBuild[b].at # "idle" => seIx.attached
                           /\ seBuild[b].gen <= seIx.gen
                           /\ seBuild[b].at = "merged" => seBuild[b].todo = {} /\ seBuild[b].batch = {}

\* Without a watcher only the administrator builds, and the index is complete for
\* a moment at the end of it.
Unwatched ==
    ~seWatch => /\ seBuild["recover"].at = "idle"
                /\ seIx.attached /\ ~seIx.incomplete => seBuild["job"].at = "ended"

Pending(d) == seEvents \intersect {d, "all"} # {} \/ \E i \in DOMAIN seQueue : seQueue[i] \in {d, "all"}

\* The reconciliation of d listed it, or will, in the generation that is built.
Carried(d) == seUpd.dir = d /\ (seUpd.at = "list" \/ (seUpd.at = "write" /\ seUpd.gen = seIx.gen))

Known(d) == d \in seIx.entries \/ Pending(d) \/ Carried(d) \/ d \in seIx.late

\* What appeared since the listing is announced, unless events were lost since.
ListedInv ==
    seUpd.at = "write" /\ seUpd.gen = seIx.gen /\ seUpd.dir \in seDisk /\ ~seUpd.found => Pending(seUpd.dir)

\* A complete index knows of every file, and so does a build that can still
\* complete it, of the directories it has walked.
CoverInv ==
    /\ seIx.attached /\ ~seIx.incomplete => \A d \in seDisk : Known(d)
    /\ \A b \in Builders : LET x == seBuild[b]
         IN x.at \in {"walk", "merged"} /\ x.gen = seIx.gen /\ ~x.partial
              => \A d \in seDisk \ x.todo : d \in x.batch \/ Known(d)

SeInv == SeTyped /\ AtWork /\ Unwatched /\ (seWatch => ListedInv /\ CoverInv)

------------------------------------------------------------------------------

\* What the index library's operations do to an index.
LEMMA SetIncompleteIs ==
  ASSUME NEW ix \in Indexes
  PROVE  LET y == SetIncomplete(ix)
         IN /\ y \in Indexes /\ y.attached = ix.attached /\ y.entries = ix.entries /\ y.incomplete
            /\ y.gen = ix.gen + 1 /\ y.late = ix.late
<1>1. ix.gen \in Nat /\ ix.gen + 1 \in Nat
  BY DEF Indexes
<1>2. SetIncomplete(ix) \in Indexes
  BY <1>1 DEF SetIncomplete, Indexes
<1> QED
  BY <1>2 DEF SetIncomplete, Indexes

LEMMA AppendToIs ==
  ASSUME NEW ix \in Indexes, NEW ds \in SUBSET SeDirs
  PROVE  LET y == AppendTo(ix, ds)
         IN /\ y \in Indexes /\ y.attached = ix.attached /\ y.entries = ix.entries \union ds
            /\ y.incomplete = ix.incomplete /\ y.gen = ix.gen /\ y.late = ix.late \ ds
BY DEF AppendTo, Indexes

LEMMA TombstoneIs ==
  ASSUME NEW ix \in Indexes, NEW d \in SeDirs, NEW gen
  PROVE  LET y == Tombstone(ix, d, gen)
         IN /\ y \in Indexes /\ y.attached = ix.attached /\ y.entries = ix.entries \ {d}
            /\ y.incomplete = ix.incomplete /\ y.gen = ix.gen /\ ix.late \subseteq y.late
            /\ gen # ix.gen => d \in y.late
BY DEF Tombstone, Indexes

LEMMA CoverageIs ==
  ASSUME NEW ix \in Indexes
  PROVE  LET y == BeginCoverage(ix)
         IN /\ y \in Indexes /\ y.attached = ix.attached /\ y.entries = ix.entries /\ y.incomplete
            /\ y.gen = ix.gen /\ y.late = ix.late
BY DEF BeginCoverage, Indexes

LEMMA NoneIs == NoUpd \in Updates /\ NoBuild \in Builds /\ NoUpd.at = "idle" /\ NoBuild.at = "idle"
                /\ NoUpd.gen = 0 /\ NoBuild.gen = 0
BY DEF NoUpd, NoBuild, Updates, Builds

LEMMA SeInvInit == ASSUME SeInit PROVE SeInv
<1>0. PICK on \in BOOLEAN : seIx = [attached |-> on, entries |-> {}, incomplete |-> TRUE, gen |-> 0, late |-> {}]
  BY DEF SeInit
<1>1. seIx \in Indexes /\ seIx.incomplete /\ seIx.gen = 0
  BY <1>0 DEF Indexes
<1>2. /\ seDisk = {} /\ seEvents = {} /\ seQueue = <<>> /\ seUpd = NoUpd /\ seBuild = [b \in Builders |-> NoBuild]
      /\ seWatch \in BOOLEAN
  BY DEF SeInit
<1>3. SeTyped
  BY <1>1, <1>2, NoneIs DEF SeTyped
<1>4. AtWork
  BY <1>1, <1>2, NoneIs DEF AtWork
<1>5. Unwatched
  BY <1>1, <1>2, NoneIs DEF Unwatched, Builders
<1>6. ListedInv /\ CoverInv
  BY <1>1, <1>2, NoneIs DEF ListedInv, CoverInv
<1> QED
  BY <1>3, <1>4, <1>5, <1>6 DEF SeInv

\* Once the index declines, no running build completes it: nothing is claimed.
LEMMA Declined ==
  ASSUME SeInv, seIx.attached, seIx' = SetIncomplete(seIx), seBuild' = seBuild, seWatch' = seWatch,
         seDisk' = seDisk, seEvents' \subseteq SeEvents, seQueue' \in Seq(SeEvents),
         seUpd' = seUpd \/ seUpd' = NoUpd
  PROVE  SeInv'
<1>1. /\ seIx \in Indexes /\ seIx' \in Indexes /\ seIx'.gen = seIx.gen + 1 /\ seIx'.incomplete
      /\ seIx'.attached
      /\ seIx'.entries = seIx.entries
  BY SetIncompleteIs DEF SeInv, SeTyped
<1>2. SeTyped'
  BY <1>1, NoneIs DEF SeInv, SeTyped
<1>3. ASSUME NEW b \in Builders PROVE seBuild[b].gen \in Nat /\ seBuild[b].gen <= seIx.gen /\ seIx.gen \in Nat
  BY <1>1 DEF SeInv, SeTyped, AtWork, Builds, Indexes
<1>u. seUpd.gen \in Nat /\ seUpd.gen <= seIx.gen /\ seUpd'.gen \in Nat /\ seUpd'.gen <= seIx.gen
      /\ seIx.gen \in Nat
  <2>1. seUpd \in Updates /\ seUpd.gen <= seIx.gen /\ seIx.gen \in Nat
    BY <1>1 DEF SeInv, AtWork, SeTyped, Indexes
  <2>2. seUpd.gen \in Nat
    BY <2>1 DEF Updates
  <2>3. CASE seUpd' = seUpd
    BY <2>1, <2>2, <2>3
  <2>4. CASE seUpd' = NoUpd
    BY <2>1, <2>2, <2>4, NoneIs
  <2> QED
    BY <2>3, <2>4
<1>4. AtWork'
  <2>1. seUpd'.gen <= seIx'.gen
    BY <1>1, <1>u
  <2>2. seUpd'.at # "idle" => seUpd'.dir \in SeDirs /\ (seUpd'.held => seUpd'.dir \in seIx.entries)
    BY NoneIs DEF SeInv, AtWork
  <2> QED
    BY <1>1, <1>3, <2>1, <2>2 DEF SeInv, AtWork
<1>5. Unwatched'
  BY <1>1 DEF SeInv, Unwatched
<1>6. CoverInv'
  BY <1>1, <1>3 DEF CoverInv
<1>7. seWatch => ListedInv'
  BY <1>1, <1>u DEF ListedInv
<1> QED
  BY <1>2, <1>4, <1>5, <1>6, <1>7 DEF SeInv

\* While the generation stays and no build moves, what was known is enough.
LEMMA CoverKept ==
  ASSUME CoverInv, seBuild' = seBuild, seIx'.gen = seIx.gen,
         seIx'.attached /\ ~seIx'.incomplete => seIx.attached /\ ~seIx.incomplete,
         \A d \in seDisk' : (d \in seDisk /\ Known(d) => Known(d)') /\ (d \notin seDisk => Known(d)')
  PROVE  CoverInv'
<1>1. seIx'.attached /\ ~seIx'.incomplete => \A d \in seDisk' : Known(d)'
  BY DEF CoverInv
<1>2. ASSUME NEW b \in Builders, seBuild[b].at \in {"walk", "merged"}, seBuild[b].gen = seIx.gen, ~seBuild[b].partial,
             NEW d \in seDisk' \ seBuild[b].todo
      PROVE  d \in seBuild[b].batch \/ Known(d)'
  BY <1>2 DEF CoverInv
<1> QED
  BY <1>1, <1>2 DEF CoverInv

LEMMA ChangeIndexed ==
  ASSUME SeInv, NEW d \in SeDirs, Change(d)
  PROVE  SeInv'
<1>1. UNCHANGED <<seIx, seQueue, seUpd, seBuild, seWatch>> /\ seDisk' \subseteq seDisk \union {d}
      /\ seEvents \subseteq seEvents' /\ seEvents' \subseteq SeEvents
      /\ (seWatch => d \in seEvents' \/ "all" \in seEvents')
  BY DEF Change, SeInv, SeTyped, SeEvents
<1>2. SeTyped' /\ AtWork' /\ Unwatched'
  BY <1>1 DEF SeInv, SeTyped, AtWork, Unwatched
<1>3. ASSUME seWatch PROVE ListedInv' /\ CoverInv'
  <2>1. \A x : (Pending(x) => Pending(x)') /\ (Carried(x) => Carried(x)')
    BY <1>1 DEF Pending, Carried
  <2>2. Pending(d)'
    BY <1>1, <1>3 DEF Pending
  <2>3. \A x \in seDisk' : (x \in seDisk /\ Known(x) => Known(x)') /\ (x \notin seDisk => Known(x)')
    BY <1>1, <2>1, <2>2 DEF Known
  <2>4. CoverInv'
    BY <1>1, <1>3, <2>3, CoverKept DEF SeInv
  <2>5. ListedInv'
    BY <1>1, <1>3, <2>1, <2>2 DEF SeInv, ListedInv
  <2> QED
    BY <2>4, <2>5
<1> QED
  BY <1>1, <1>2, <1>3 DEF SeInv

LEMMA OfferIndexed ==
  ASSUME SeConstants, SeInv, NEW what \in SeDirs \union {"all"}, Offer(what)
  PROVE  SeInv'
<1>1. UNCHANGED <<seDisk, seUpd, seBuild, seWatch>> /\ seEvents' = seEvents \ {what} /\ seEvents' \subseteq SeEvents
  BY DEF Offer, SeInv, SeTyped, SeEvents
<1>2. CASE seIx.attached /\ seQueue' = Append(seQueue, what) /\ UNCHANGED seIx
  <2>1. seQueue' = Append(seQueue, what) /\ UNCHANGED seIx /\ seQueue \in Seq(SeEvents) /\ what \in SeEvents
    BY <1>2 DEF Offer, SeInv, SeTyped, SeEvents
  <2>2. /\ seQueue' \in Seq(SeEvents) /\ Len(seQueue') = Len(seQueue) + 1 /\ seQueue'[Len(seQueue) + 1] = what
        /\ \A i \in 1..Len(seQueue) : seQueue'[i] = seQueue[i]
        /\ DOMAIN seQueue = 1..Len(seQueue) /\ DOMAIN seQueue' = 1..(Len(seQueue) + 1) /\ Len(seQueue) \in Nat
    BY <2>1
  <2>3. SeTyped' /\ AtWork' /\ Unwatched'
    BY <1>1, <1>2, <2>1, <2>2 DEF SeInv, SeTyped, AtWork, Unwatched
  <2>4. \A x : Carried(x) => Carried(x)'
    BY <1>1, <2>1 DEF Carried
  <2>5. ASSUME NEW x, Pending(x) PROVE Pending(x)'
    <3>1. CASE what \in {x, "all"}
      <4>1. Len(seQueue) + 1 \in DOMAIN seQueue'
        BY <2>2
      <4> QED
        BY <2>2, <3>1, <4>1 DEF Pending
    <3>2. CASE what \notin {x, "all"} /\ seEvents \intersect {x, "all"} # {}
      BY <1>1, <3>2 DEF Pending
    <3>3. CASE \E i \in DOMAIN seQueue : seQueue[i] \in {x, "all"}
      <4>1. PICK i \in 1..Len(seQueue) : seQueue[i] \in {x, "all"}
        BY <2>2, <3>3
      <4>2. i \in DOMAIN seQueue' /\ seQueue'[i] \in {x, "all"}
        BY <2>2, <4>1
      <4> QED
        BY <4>2 DEF Pending
    <3> QED
      BY <2>5, <3>1, <3>2, <3>3 DEF Pending
  <2>6. \A x : Known(x) => Known(x)'
    BY <2>1, <2>4, <2>5 DEF Known
  <2>7. seWatch => CoverInv'
    BY <1>1, <2>1, <2>6, CoverKept DEF SeInv
  <2>8. seWatch => ListedInv'
    BY <1>1, <2>1, <2>5 DEF SeInv, ListedInv
  <2> QED
    BY <1>1, <2>3, <2>7, <2>8 DEF SeInv
<1>3. CASE seIx.attached /\ seIx' = SetIncomplete(seIx) /\ UNCHANGED seQueue
  BY <1>1, <1>3, Declined DEF SeInv, SeTyped
<1>4. CASE ~seIx.attached
  <2>1. UNCHANGED <<seIx, seQueue>> /\ seQueue = <<>> /\ seUpd.at = "idle" /\ \A b \in Builders : seBuild[b].at = "idle"
    BY <1>4 DEF Offer, SeInv, AtWork
  <2>2. SeTyped' /\ AtWork' /\ Unwatched'
    BY <1>1, <2>1 DEF SeInv, SeTyped, AtWork, Unwatched
  <2>3. CoverInv' /\ ListedInv'
    BY <1>1, <1>4, <2>1 DEF CoverInv, ListedInv
  <2> QED
    BY <1>1, <2>2, <2>3 DEF SeInv
<1> QED
  BY <1>2, <1>3, <1>4 DEF Offer, markIncomplete, SetIndexIncomplete

\* An event that is taken from the queue.
LEMMA TakeEvent ==
  ASSUME SeTyped, seQueue # <<>>, seQueue' = Tail(seQueue), UNCHANGED seEvents
  PROVE  /\ Head(seQueue) \in SeEvents /\ seQueue' \in Seq(SeEvents)
         /\ \A x : Pending(x) => Pending(x)' \/ Head(seQueue) \in {x, "all"}
<1>1. seQueue \in Seq(SeEvents) /\ Len(seQueue) \in Nat \ {0} /\ DOMAIN seQueue = 1..Len(seQueue)
  BY DEF SeTyped
<1>2. /\ Head(seQueue) = seQueue[1] /\ seQueue' \in Seq(SeEvents) /\ Len(seQueue') = Len(seQueue) - 1
      /\ DOMAIN seQueue' = 1..(Len(seQueue) - 1)
      /\ \A i \in 1..(Len(seQueue) - 1) : seQueue'[i] = seQueue[i + 1]
  BY <1>1
<1>3. ASSUME NEW x, Pending(x), Head(seQueue) \notin {x, "all"} PROVE Pending(x)'
  <2>1. CASE seEvents \intersect {x, "all"} # {}
    BY <2>1 DEF Pending
  <2>2. CASE \E i \in DOMAIN seQueue : seQueue[i] \in {x, "all"}
    <3>1. PICK i \in 1..Len(seQueue) : seQueue[i] \in {x, "all"}
      BY <1>1, <2>2
    <3>2. i # 1
      BY <1>2, <1>3, <3>1
    <3>3. i - 1 \in 1..(Len(seQueue) - 1) /\ (i - 1) + 1 = i
      BY <1>1, <3>1, <3>2
    <3>4. i - 1 \in DOMAIN seQueue' /\ seQueue'[i - 1] \in {x, "all"}
      BY <1>2, <3>1, <3>3
    <3> QED
      BY <3>4 DEF Pending
  <2> QED
    BY <1>3, <2>1, <2>2 DEF Pending
<1> QED
  BY <1>1, <1>2, <1>3

LEMMA ApplyIndexed ==
  ASSUME SeConstants, SeInv, apply
  PROVE  SeInv'
<1>0. PICK h : h = Head(seQueue)
  OBVIOUS
<1>1. /\ UNCHANGED <<seDisk, seEvents, seBuild, seWatch>> /\ seQueue # <<>> /\ seQueue' = Tail(seQueue)
      /\ seUpd.at = "idle" /\ seIx.attached
  BY DEF apply, SeInv, AtWork
<1>2. /\ h \in SeEvents /\ seQueue' \in Seq(SeEvents)
      /\ \A x : Pending(x) => Pending(x)' \/ h \in {x, "all"}
  BY <1>0, <1>1, TakeEvent DEF SeInv
<1>3. CASE seIx' = SetIncomplete(seIx) /\ UNCHANGED seUpd
  BY <1>1, <1>2, <1>3, Declined DEF SeInv, SeTyped
<1>4. CASE /\ h # "all" /\ UNCHANGED seIx
           /\ seUpd' = [at |-> "list", dir |-> h, held |-> h \in seIx.entries, found |-> FALSE, gen |-> 0]
  <2>1. h \in SeDirs /\ seIx.gen \in Nat
    BY <1>2, <1>4 DEF SeEvents, SeInv, SeTyped, Indexes
  <2>0. PICK held \in BOOLEAN : held <=> h \in seIx.entries
    OBVIOUS
  <2>a. seUpd' = [at |-> "list", dir |-> h, held |-> held, found |-> FALSE, gen |-> 0]
    BY <1>4, <2>0
  <2>2. seUpd' \in Updates /\ seUpd'.at = "list" /\ seUpd'.dir = h /\ seUpd'.gen = 0
        /\ (seUpd'.held => h \in seIx.entries)
    BY <2>0, <2>a, <2>1 DEF Updates
  <2>3. SeTyped'
    BY <1>1, <1>2, <1>4, <2>2 DEF SeInv, SeTyped
  <2>4. AtWork'
    BY <1>1, <1>4, <2>1, <2>2 DEF SeInv, AtWork
  <2>5. Unwatched'
    BY <1>1, <1>4 DEF SeInv, Unwatched
  <2>6. ListedInv'
    BY <2>2 DEF ListedInv
  <2>7. Carried(h)'
    BY <2>2 DEF Carried
  <2>8. ASSUME NEW x, Known(x) PROVE Known(x)'
    <3>1. ~Carried(x)
      BY <1>1 DEF Carried
    <3> QED
      BY <1>2, <1>4, <2>7, <2>8, <3>1 DEF Known
  <2>9. seWatch => CoverInv'
    BY <1>1, <1>4, <2>8, CoverKept DEF SeInv
  <2> QED
    BY <1>1, <2>3, <2>4, <2>5, <2>6, <2>9 DEF SeInv
<1> QED
  BY <1>0, <1>1, <1>3, <1>4 DEF apply, markIncomplete, SetIndexIncomplete

LEMMA ListIndexed ==
  ASSUME SeInv, reconcileList
  PROVE  SeInv'
<1>1. /\ UNCHANGED <<seDisk, seEvents, seQueue, seBuild, seWatch>> /\ seUpd.at = "list" /\ seIx.attached
      /\ seUpd \in Updates /\ seIx \in Indexes /\ seIx.gen \in Nat
  BY DEF reconcileList, SeInv, AtWork, SeTyped, Indexes
<1>2. CASE seIx' = SetIncomplete(seIx) /\ seUpd' = NoUpd
  BY <1>1, <1>2, Declined DEF SeInv, SeTyped
<1>3. CASE /\ seUpd' = [seUpd EXCEPT !.at = "write", !.found = seUpd.dir \in seDisk, !.gen = seIx.gen]
           /\ UNCHANGED seIx
  <2>0. PICK found \in BOOLEAN : found <=> seUpd.dir \in seDisk
    OBVIOUS
  <2>a. seUpd' = [seUpd EXCEPT !.at = "write", !.found = found, !.gen = seIx.gen]
    BY <1>3, <2>0
  <2>1. /\ seUpd' \in Updates /\ seUpd'.at = "write" /\ seUpd'.dir = seUpd.dir /\ seUpd'.held = seUpd.held
        /\ (seUpd'.found <=> seUpd.dir \in seDisk) /\ seUpd'.gen = seIx.gen
    BY <1>1, <2>0, <2>a DEF Updates
  <2>2. SeTyped'
    BY <1>1, <1>3, <2>1 DEF SeInv, SeTyped
  <2>3. AtWork'
    BY <1>1, <1>3, <2>1 DEF SeInv, AtWork
  <2>4. Unwatched'
    BY <1>1, <1>3 DEF SeInv, Unwatched
  <2>5. ListedInv'
    BY <1>1, <2>1 DEF ListedInv
  <2>6. \A x : (Pending(x) => Pending(x)') /\ (Carried(x) => Carried(x)')
    BY <1>1, <1>3, <2>1 DEF Pending, Carried
  <2>7. \A x : Known(x) => Known(x)'
    BY <1>3, <2>6 DEF Known
  <2>8. seWatch => CoverInv'
    BY <1>1, <1>3, <2>7, CoverKept DEF SeInv
  <2> QED
    BY <1>1, <2>2, <2>3, <2>4, <2>5, <2>8 DEF SeInv
<1> QED
  BY <1>1, <1>2, <1>3 DEF reconcileList, markIncomplete, SetIndexIncomplete

LEMMA ReconcileIndexed ==
  ASSUME SeInv, reconcile
  PROVE  SeInv'
<1> DEFINE d == seUpd.dir
<1>1. /\ UNCHANGED <<seDisk, seEvents, seQueue, seBuild, seWatch>> /\ seUpd.at = "write" /\ seIx.attached
      /\ seUpd \in Updates /\ seIx \in Indexes /\ seUpd' = NoUpd /\ d \in SeDirs
      /\ (seUpd.held => d \in seIx.entries)
  BY DEF reconcile, SeInv, AtWork, SeTyped
<1>2. CASE seIx' = SetIncomplete(seIx)
  BY <1>1, <1>2, Declined DEF SeInv, SeTyped
<1>3. CASE \/ seUpd.held /\ ~seUpd.found /\ seIx' = Tombstone(seIx, d, seUpd.gen)
           \/ seUpd.found /\ ~seUpd.held /\ seIx' = AppendTo(seIx, {d})
           \/ (seUpd.held <=> seUpd.found) /\ seIx' = seIx
  <2> DEFINE Steady == /\ seIx' \in Indexes /\ seIx'.attached = seIx.attached /\ seIx'.gen = seIx.gen
                       /\ seIx'.incomplete = seIx.incomplete
             Rest == \A x : x # d => /\ x \in seIx.entries => x \in seIx'.entries
                                     /\ x \in seIx.late => x \in seIx'.late
             Mine == /\ seUpd.found => d \in seIx'.entries
                     /\ ~seUpd.found /\ seUpd.gen # seIx.gen /\ (d \in seIx.entries \/ d \in seIx.late)
                          => d \in seIx'.entries \/ d \in seIx'.late
  <2>a. Steady /\ Rest /\ Mine
    <3>1. CASE seUpd.held /\ ~seUpd.found /\ seIx' = Tombstone(seIx, d, seUpd.gen)
      <4>1. /\ seIx' \in Indexes /\ seIx'.attached = seIx.attached /\ seIx'.entries = seIx.entries \ {d}
            /\ seIx'.incomplete = seIx.incomplete /\ seIx'.gen = seIx.gen /\ seIx.late \subseteq seIx'.late
            /\ (seUpd.gen # seIx.gen => d \in seIx'.late)
        <5>1. seIx \in Indexes /\ d \in SeDirs /\ seIx' = Tombstone(seIx, d, seUpd.gen)
          BY <1>1, <3>1
        <5> HIDE DEF d
        <5> QED
          BY ONLY <5>1, TombstoneIs
      <4> QED
        BY <3>1, <4>1
    <3>2. CASE seUpd.found /\ ~seUpd.held /\ seIx' = AppendTo(seIx, {d})
      <4>1. {d} \in SUBSET SeDirs
        BY <1>1
      <4>2. /\ seIx' \in Indexes /\ seIx'.attached = seIx.attached /\ seIx'.entries = seIx.entries \union {d}
            /\ seIx'.incomplete = seIx.incomplete /\ seIx'.gen = seIx.gen /\ seIx'.late = seIx.late \ {d}
        BY <1>1, <3>2, <4>1, AppendToIs
      <4> QED
        BY <3>2, <4>2
    <3>3. CASE (seUpd.held <=> seUpd.found) /\ seIx' = seIx
      BY <1>1, <3>3
    <3> QED
      BY <1>3, <3>1, <3>2, <3>3
  <2>1. Steady
    BY <2>a
  <2>2. Rest
    BY <2>a
  <2>3. Mine
    BY <2>a
  <2>4. SeTyped'
    BY <1>1, <2>1, NoneIs DEF SeInv, SeTyped
  <2>5. AtWork'
    BY <1>1, <2>1, NoneIs DEF SeInv, AtWork, Indexes
  <2>6. Unwatched'
    BY <1>1, <2>1 DEF SeInv, Unwatched
  <2>7. ListedInv'
    BY <1>1, NoneIs DEF ListedInv
  <2>8. ASSUME seWatch, NEW x \in seDisk, Known(x) PROVE Known(x)'
    <3>1. Pending(x) => Pending(x)'
      BY <1>1 DEF Pending
    <3>2. CASE x # d
      BY <2>2, <2>8, <3>1, <3>2 DEF Known, Carried
    <3>3. CASE x = d /\ ~seUpd.found /\ seUpd.gen = seIx.gen
      <4>1. Pending(d)
        BY <1>1, <2>8, <3>3 DEF SeInv, ListedInv
      <4> QED
        BY <3>1, <3>3, <4>1 DEF Known
    <3>4. CASE x = d /\ seUpd.found
      BY <2>3, <3>4 DEF Known
    <3>5. CASE x = d /\ ~seUpd.found /\ seUpd.gen # seIx.gen
      <4>1. ~Carried(d)
        BY <1>1, <3>5 DEF Carried
      <4> QED
        BY <2>3, <2>8, <3>1, <3>5, <4>1 DEF Known
    <3> QED
      BY <3>2, <3>3, <3>4, <3>5
  <2>9. seWatch => CoverInv'
    BY <1>1, <2>1, <2>8, CoverKept DEF SeInv
  <2> QED
    BY <1>1, <2>4, <2>5, <2>6, <2>7, <2>9 DEF SeInv
<1> QED
  BY <1>2, <1>3 DEF reconcile

\* The index declines while a build gives up or leaves.
LEMMA DeclinedBuild ==
  ASSUME SeInv, seIx.attached, seIx' = SetIncomplete(seIx), UNCHANGED <<seDisk, seEvents, seQueue, seUpd, seWatch>>,
         NEW b \in Builders, NEW y \in Builds, seBuild' = [seBuild EXCEPT ![b] = y],
         y.gen <= seIx.gen, y.at # "merged", y.at = seBuild[b].at \/ y.at = "idle"
  PROVE  SeInv'
<1>1. /\ seIx \in Indexes /\ seIx' \in Indexes /\ seIx'.gen = seIx.gen + 1 /\ seIx'.incomplete
      /\ seIx'.attached /\ seIx'.entries = seIx.entries
  BY SetIncompleteIs DEF SeInv, SeTyped
<1>2. seBuild' \in [Builders -> Builds] /\ \A c \in Builders : seBuild'[c] = IF c = b THEN y ELSE seBuild[c]
  BY DEF SeInv, SeTyped
<1>3. SeTyped'
  BY <1>1, <1>2 DEF SeInv, SeTyped
<1>4. ASSUME NEW c \in Builders PROVE seBuild'[c].gen \in Nat /\ seBuild'[c].gen <= seIx.gen /\ seIx.gen \in Nat
  <2>1. seBuild[c].gen <= seIx.gen /\ seIx.gen \in Nat /\ seBuild'[c] \in Builds
    BY <1>1, <1>2 DEF SeInv, AtWork, Indexes
  <2>2. seBuild'[c].gen \in Nat
    BY <2>1 DEF Builds
  <2> QED
    BY <1>2, <2>1, <2>2
<1>u. seUpd.gen \in Nat /\ seUpd.gen <= seIx.gen /\ seIx.gen \in Nat
  <2>1. seUpd \in Updates /\ seUpd.gen <= seIx.gen /\ seIx.gen \in Nat
    BY <1>1 DEF SeInv, AtWork, SeTyped, Indexes
  <2> QED
    BY <2>1 DEF Updates
<1>5. AtWork'
  <2>1. seUpd'.gen <= seIx'.gen
    BY <1>1, <1>u
  <2>2. \A c \in Builders : seBuild'[c].gen <= seIx'.gen
    BY <1>1, <1>4
  <2>3. \A c \in Builders : seBuild'[c].at = "merged" => seBuild'[c].todo = {} /\ seBuild'[c].batch = {}
    BY <1>2 DEF SeInv, AtWork
  <2> QED
    BY <1>1, <2>1, <2>2, <2>3 DEF SeInv, AtWork
<1>6. Unwatched'
  BY <1>1, <1>2 DEF SeInv, Unwatched, Builders
<1>7. CoverInv'
  <2>1. \A c \in Builders : seBuild'[c].gen # seIx'.gen
    BY <1>1, <1>4
  <2> QED
    BY <1>1, <2>1 DEF CoverInv
<1>8. ListedInv'
  BY <1>1, <1>u DEF ListedInv
<1> QED
  BY <1>3, <1>5, <1>6, <1>7, <1>8 DEF SeInv

\* A build moves on in its generation.
LEMMA BuildMoved ==
  ASSUME SeInv, UNCHANGED <<seDisk, seEvents, seQueue, seUpd, seWatch>>,
         seIx' \in Indexes, seIx'.attached = seIx.attached, seIx'.gen = seIx.gen,
         seIx.entries \subseteq seIx'.entries, seIx.late \subseteq seIx'.late \union seIx'.entries,
         NEW b \in Builders, NEW y \in Builds, seBuild' = [seBuild EXCEPT ![b] = y],
         y.at # "idle" => seIx.attached, y.gen <= seIx.gen, y.at = "merged" => y.todo = {} /\ y.batch = {},
         Unwatched',
         seWatch /\ seIx.attached /\ ~seIx'.incomplete => ~seIx.incomplete \/ \A d \in seDisk : Known(d),
         seWatch /\ y.at \in {"walk", "merged"} /\ y.gen = seIx.gen /\ ~y.partial
           => \A d \in seDisk \ y.todo : d \in y.batch \/ d \in seIx'.entries \/ Known(d)
  PROVE  SeInv'
<1>2. seBuild' \in [Builders -> Builds] /\ \A c \in Builders : seBuild'[c] = IF c = b THEN y ELSE seBuild[c]
  BY DEF SeInv, SeTyped
<1>3. SeTyped'
  BY <1>2 DEF SeInv, SeTyped
<1>5. AtWork'
  BY <1>2 DEF SeInv, AtWork
<1>6. ASSUME NEW d, Known(d) PROVE Known(d)'
  <2>1. (Pending(d) => Pending(d)') /\ (Carried(d) => Carried(d)')
    BY DEF Pending, Carried
  <2> QED
    BY <1>6, <2>1 DEF Known
<1>7. ASSUME seWatch PROVE CoverInv'
  <2>1. seIx'.attached /\ ~seIx'.incomplete => \A d \in seDisk : Known(d)'
    BY <1>6, <1>7 DEF SeInv, CoverInv
  <2>2. ASSUME NEW c \in Builders, seBuild'[c].at \in {"walk", "merged"}, seBuild'[c].gen = seIx.gen,
               ~seBuild'[c].partial, NEW d \in seDisk \ seBuild'[c].todo
        PROVE  d \in seBuild'[c].batch \/ Known(d)'
    <3>1. CASE c = b
      <4>1. d \in y.batch \/ d \in seIx'.entries \/ Known(d)
        BY <1>2, <1>7, <2>2, <3>1
      <4> QED
        BY <1>2, <1>6, <3>1, <4>1 DEF Known
    <3>2. CASE c # b
      <4>1. d \in seBuild[c].batch \/ Known(d)
        BY <1>2, <1>7, <2>2, <3>2 DEF SeInv, CoverInv
      <4> QED
        BY <1>2, <1>6, <3>2, <4>1
    <3> QED
      BY <3>1, <3>2
  <2> QED
    BY <2>1, <2>2 DEF CoverInv
<1>8. seWatch => ListedInv'
  <2>1. Pending(seUpd.dir) => Pending(seUpd.dir)'
    BY DEF Pending
  <2> QED
    BY <2>1 DEF SeInv, ListedInv
<1> QED
  BY <1>3, <1>5, <1>7, <1>8 DEF SeInv

\* Nothing the invariant speaks of changes.
LEMMA IndexUntouched ==
  ASSUME SeInv, UNCHANGED <<seDisk, seEvents, seIx, seQueue, seUpd, seBuild, seWatch>>
  PROVE  SeInv'
<1>1. \A d : Known(d)' <=> Known(d)
  BY DEF Known, Pending, Carried
<1>2. SeTyped' /\ AtWork' /\ Unwatched' /\ (ListedInv => ListedInv')
  BY DEF SeInv, SeTyped, AtWork, Unwatched, ListedInv, Pending
<1>3. CoverInv => CoverInv'
  BY <1>1 DEF CoverInv
<1> QED
  BY <1>2, <1>3 DEF SeInv

LEMMA MarkIncompleteIndexed ==
  ASSUME SeInv, MarkIncomplete
  PROVE  SeInv'
BY Declined DEF MarkIncomplete, SeInv, SeTyped

\* A build begins: it has walked nothing, and the index declines.
LEMMA BuildBeginIndexed ==
  ASSUME SeInv, NEW b \in Builders, BuildBegin(b), seIx.attached, b = "recover" => seWatch,
         seBuild[b].at = "idle", UNCHANGED <<seDisk, seEvents, seQueue, seUpd, seWatch>>
  PROVE  SeInv'
<1>0. PICK y : y = [NoBuild EXCEPT !.at = "walk", !.gen = seIx.gen, !.todo = SeDirs]
  OBVIOUS
<1>1. seIx \in Indexes /\ seIx.gen \in Nat /\ seIx' = BeginCoverage(seIx) /\ seBuild' = [seBuild EXCEPT ![b] = y]
  BY <1>0 DEF SeInv, SeTyped, Indexes, BuildBegin
<1>2. /\ seIx' \in Indexes /\ seIx'.attached = seIx.attached /\ seIx'.entries = seIx.entries /\ seIx'.incomplete
      /\ seIx'.gen = seIx.gen /\ seIx'.late = seIx.late
  BY <1>1, CoverageIs
<1>3. y \in Builds /\ y.at = "walk" /\ y.gen = seIx.gen /\ y.todo = SeDirs
  BY <1>0, <1>1 DEF NoBuild, Builds
<1>4. Unwatched'
  <2>1. seBuild'["recover"] = IF b = "recover" THEN y ELSE seBuild["recover"]
    BY <1>1 DEF SeInv, SeTyped, Builders
  <2> QED
    BY <1>2, <2>1 DEF SeInv, Unwatched
<1>5. seDisk \ y.todo = {}
  BY <1>3 DEF SeInv, SeTyped
<1> QED
  <2>1. seIx.entries \subseteq seIx'.entries /\ seIx.late \subseteq seIx'.late \union seIx'.entries /\ y.gen <= seIx.gen
    BY <1>1, <1>2, <1>3
  <2>2. y.at # "merged" /\ seIx'.incomplete
    BY <1>2, <1>3
  <2> QED
    BY <1>1, <1>2, <1>3, <1>4, <1>5, <2>1, <2>2, BuildMoved

LEMMA RecoverIndexed ==
  ASSUME SeInv, Recover
  PROVE  SeInv'
<1>1. UNCHANGED <<seDisk, seEvents, seQueue, seUpd, seWatch>> /\ seBuild["recover"].at = "idle" /\ "recover" \in Builders
  BY DEF Recover, Builders
<1>2. CASE UNCHANGED <<seBuild, seIx>>
  BY <1>1, <1>2, IndexUntouched
<1>3. CASE seWatch /\ seIx.attached /\ BuildBegin("recover")
  BY <1>1, <1>3, BuildBeginIndexed
<1> QED
  BY <1>2, <1>3 DEF Recover

LEMMA StartIndexed ==
  ASSUME SeInv, StartIndexBuild
  PROVE  SeInv'
BY BuildBeginIndexed DEF StartIndexBuild, Builders

LEMMA RecoverEndIndexed ==
  ASSUME SeInv, RecoverEnd
  PROVE  SeInv'
<1>1. /\ UNCHANGED <<seDisk, seEvents, seIx, seQueue, seUpd, seWatch>> /\ seBuild["recover"].at = "ended"
      /\ seBuild' = [seBuild EXCEPT !["recover"] = NoBuild] /\ "recover" \in Builders
  BY DEF RecoverEnd, Builders
<1>2. Unwatched'
  BY <1>1 DEF SeInv, Unwatched
<1>3. seIx \in Indexes /\ NoBuild.gen <= seIx.gen
  BY NoneIs DEF SeInv, SeTyped, Indexes
<1> QED
  BY <1>1, <1>2, <1>3, NoneIs, BuildMoved

LEMMA RunIndexed ==
  ASSUME SeInv, runIndexBuild
  PROVE  SeInv'
<1>1. /\ UNCHANGED <<seDisk, seEvents, seQueue, seUpd, seWatch>> /\ seBuild["job"].at = "ended"
      /\ seBuild' = [seBuild EXCEPT !["job"] = NoBuild] /\ "job" \in Builders
      /\ IF seWatch THEN UNCHANGED seIx ELSE SetIndexIncomplete
  BY DEF runIndexBuild, Builders
<1>2. seIx \in Indexes /\ NoBuild.gen <= seIx.gen /\ seIx.attached
  BY <1>1, NoneIs DEF SeInv, SeTyped, Indexes, AtWork
<1>3. CASE seWatch
  <2>1. Unwatched'
    BY <1>1, <1>3 DEF Unwatched
  <2> QED
    BY <1>1, <1>2, <1>3, <2>1, NoneIs, BuildMoved
<1>4. CASE ~seWatch
  <2>1. seIx' = SetIncomplete(seIx)
    BY <1>1, <1>2, <1>4 DEF SetIndexIncomplete
  <2> QED
    BY <1>1, <1>2, <2>1, NoneIs, DeclinedBuild
<1> QED
  BY <1>3, <1>4

\* The switch: no build is under way, so nothing is claimed while the index is
\* away or has just come back.
LEMMA SwitchIndexed ==
  ASSUME SeInv, OpenIndex \/ CloseIndex
  PROVE  SeInv'
<1>1. /\ UNCHANGED <<seDisk, seEvents, seBuild, seWatch>> /\ seQueue' = <<>> /\ seUpd' = NoUpd
      /\ \A b \in Builders : seBuild[b].at = "idle"
  BY DEF OpenIndex, CloseIndex
<1>2. seIx \in Indexes /\ seIx.gen \in Nat
  BY DEF SeInv, SeTyped, Indexes
<1>3. seIx' \in Indexes /\ seIx.gen <= seIx'.gen /\ seIx'.gen \in Nat /\ (seIx'.attached => seIx'.incomplete)
  <2>1. CASE OpenIndex
    <3> DEFINE o == [seIx EXCEPT !.attached = TRUE]
    <3>1. o \in Indexes /\ o.gen = seIx.gen /\ seIx' = SetIncomplete(o)
      BY <1>2, <2>1 DEF Indexes, OpenIndex
    <3> HIDE DEF o
    <3>2. seIx' \in Indexes /\ seIx'.gen = seIx.gen + 1 /\ seIx'.incomplete
      BY <3>1, SetIncompleteIs
    <3> QED
      BY <1>2, <3>2
  <2>2. CASE CloseIndex
    <3>1. seIx' = [seIx EXCEPT !.attached = FALSE]
      BY <2>2 DEF CloseIndex
    <3>2. seIx' \in Indexes /\ seIx'.gen = seIx.gen /\ seIx'.attached = FALSE
      BY <1>2, <3>1 DEF Indexes
    <3> QED
      BY <1>2, <3>2
  <2> QED
    BY <2>1, <2>2
<1>4. SeTyped'
  BY <1>1, <1>3, NoneIs DEF SeInv, SeTyped
<1>5. ASSUME NEW b \in Builders PROVE seBuild[b].gen <= seIx'.gen
  <2>1. seBuild[b] \in Builds /\ seBuild[b].gen <= seIx.gen
    BY DEF SeInv, SeTyped, AtWork
  <2>2. seBuild[b].gen \in Nat
    BY <2>1 DEF Builds
  <2> QED
    BY <1>2, <1>3, <2>1, <2>2
<1>6. AtWork'
  BY <1>1, <1>3, <1>5, NoneIs DEF AtWork
<1>7. Unwatched'
  BY <1>1, <1>3 DEF Unwatched, Builders
<1>8. CoverInv' /\ ListedInv'
  BY <1>1, <1>3, NoneIs DEF CoverInv, ListedInv
<1> QED
  BY <1>4, <1>6, <1>7, <1>8 DEF SeInv

LEMMA WalkIndexed ==
  ASSUME SeInv, NEW b \in Builders, walkSource(b)
  PROVE  SeInv'
<1>1. PICK x : x = seBuild[b]
  OBVIOUS
<1>2. /\ x \in Builds /\ x.at = "walk" /\ x.gen <= seIx.gen /\ seIx.attached /\ seIx \in Indexes
      /\ UNCHANGED <<seDisk, seEvents, seQueue, seUpd, seWatch>>
  BY <1>1 DEF walkSource, SeInv, SeTyped, AtWork
<1>3. seWatch /\ x.gen = seIx.gen /\ ~x.partial => \A d \in seDisk \ x.todo : d \in x.batch \/ Known(d)
  BY <1>1, <1>2 DEF SeInv, CoverInv
<1>4. ASSUME NEW y \in Builds, seBuild' = [seBuild EXCEPT ![b] = y], UNCHANGED seIx, y.at = "walk"
      PROVE  Unwatched'
  <2>1. /\ seBuild'["recover"] = IF b = "recover" THEN y ELSE seBuild["recover"]
        /\ seBuild'["job"] = IF b = "job" THEN y ELSE seBuild["job"]
    BY <1>4 DEF SeInv, SeTyped, Builders
  <2> QED
    BY <1>1, <1>2, <1>4, <2>1 DEF SeInv, Unwatched, Builders
<1>5. ASSUME NEW d \in x.todo, d \in seDisk, UNCHANGED seIx,
             seBuild' = [seBuild EXCEPT ![b] = [x EXCEPT !.todo = x.todo \ {d}, !.batch = x.batch \union {d},
                                                         !.files = x.files + 1]]
      PROVE  SeInv'
  <2>0. x.files \in Nat /\ x.files + 1 \in Nat
    BY <1>2 DEF Builds
  <2>1. PICK y : y = [x EXCEPT !.todo = x.todo \ {d}, !.batch = x.batch \union {d}, !.files = x.files + 1]
    OBVIOUS
  <2>2. /\ y \in Builds /\ y.at = "walk" /\ y.gen = x.gen /\ y.partial = x.partial
        /\ y.todo = x.todo \ {d} /\ y.batch = x.batch \union {d}
    BY <1>2, <1>5, <2>0, <2>1 DEF Builds, SeInv, SeTyped
  <2>3. Unwatched'
    BY <1>4, <1>5, <2>1, <2>2
  <2>4. seWatch /\ y.gen = seIx.gen /\ ~y.partial => \A e \in seDisk \ y.todo : e \in y.batch \/ Known(e)
    BY <1>3, <2>2
  <2> QED
    BY <1>2, <1>5, <2>1, <2>2, <2>3, <2>4, BuildMoved
<1>6. ASSUME NEW d \in x.todo, d \notin seDisk, UNCHANGED seIx,
             seBuild' = [seBuild EXCEPT ![b] = [x EXCEPT !.todo = x.todo \ {d}]]
      PROVE  SeInv'
  <2>1. PICK y : y = [x EXCEPT !.todo = x.todo \ {d}]
    OBVIOUS
  <2>2. /\ y \in Builds /\ y.at = "walk" /\ y.gen = x.gen /\ y.partial = x.partial
        /\ y.todo = x.todo \ {d} /\ y.batch = x.batch
    BY <1>2, <1>6, <2>1 DEF Builds
  <2>3. Unwatched'
    BY <1>4, <1>6, <2>1, <2>2
  <2>4. seWatch /\ y.gen = seIx.gen /\ ~y.partial => \A e \in seDisk \ y.todo : e \in y.batch \/ Known(e)
    BY <1>3, <1>6, <2>2
  <2> QED
    BY <1>2, <1>6, <2>1, <2>2, <2>3, <2>4, BuildMoved
<1>7. ASSUME NEW todo \in SUBSET x.todo, UNCHANGED seIx,
             seBuild' = [seBuild EXCEPT ![b] = [x EXCEPT !.todo = todo, !.partial = TRUE]]
      PROVE  SeInv'
  <2>1. PICK y : y = [x EXCEPT !.todo = todo, !.partial = TRUE]
    OBVIOUS
  <2>2. y \in Builds /\ y.at = "walk" /\ y.gen = x.gen /\ y.partial
    BY <1>2, <1>7, <2>1 DEF Builds
  <2>3. Unwatched'
    BY <1>4, <1>7, <2>1, <2>2
  <2> QED
    BY <1>2, <1>7, <2>1, <2>2, <2>3, BuildMoved
<1>8. ASSUME seIx' = SetIncomplete(seIx),
             seBuild' = [seBuild EXCEPT ![b] = [x EXCEPT !.todo = {}, !.partial = TRUE]]
      PROVE  SeInv'
  <2>1. PICK y : y = [x EXCEPT !.todo = {}, !.partial = TRUE]
    OBVIOUS
  <2>2. y \in Builds /\ y.at = "walk" /\ y.gen = x.gen
    BY <1>2, <2>1 DEF Builds
  <2> QED
    BY <1>1, <1>2, <1>8, <2>1, <2>2, DeclinedBuild
<1>9. CASE \E d \in x.todo :
             \/ /\ d \in seDisk /\ x.files < Ceiling
                /\ seBuild' = [seBuild EXCEPT ![b] = [x EXCEPT !.todo = x.todo \ {d}, !.batch = x.batch \union {d},
                                                                !.files = x.files + 1]]
                /\ UNCHANGED seIx
             \/ /\ d \in seDisk /\ x.files >= Ceiling
                /\ seBuild' = [seBuild EXCEPT ![b] = [x EXCEPT !.todo = {}, !.partial = TRUE]]
                /\ seIx' = SetIncomplete(seIx)
             \/ /\ d \notin seDisk
                /\ seBuild' = [seBuild EXCEPT ![b] = [x EXCEPT !.todo = x.todo \ {d}]] /\ UNCHANGED seIx
  BY <1>5, <1>6, <1>8, <1>9
<1>10. CASE \E d \in x.todo : /\ UNCHANGED seIx
                              /\ seBuild' = [seBuild EXCEPT ![b] = [x EXCEPT !.todo = x.todo \ {d}, !.partial = TRUE]]
  <2>1. PICK d \in x.todo : /\ UNCHANGED seIx
                            /\ seBuild' = [seBuild EXCEPT ![b] = [x EXCEPT !.todo = x.todo \ {d}, !.partial = TRUE]]
    BY <1>10
  <2>2. x.todo \ {d} \in SUBSET x.todo
    OBVIOUS
  <2> QED
    BY <1>7, <2>1, <2>2
<1>11. CASE UNCHANGED seIx /\ seBuild' = [seBuild EXCEPT ![b] = [x EXCEPT !.todo = {}, !.partial = TRUE]]
  <2>1. {} \in SUBSET x.todo
    OBVIOUS
  <2> QED
    BY <1>7, <1>11, <2>1
<1> QED
  BY <1>1, <1>9, <1>10, <1>11 DEF walkSource

LEMMA FlushIndexed ==
  ASSUME SeInv, NEW b \in Builders, flushBatch(b)
  PROVE  SeInv'
<1>1. PICK x : x = seBuild[b]
  OBVIOUS
<1>2. /\ x \in Builds /\ x.at = "walk" /\ x.todo = {} /\ x.gen <= seIx.gen /\ seIx.attached /\ seIx \in Indexes
      /\ UNCHANGED <<seDisk, seEvents, seQueue, seUpd, seWatch>> /\ seIx' = AppendTo(seIx, x.batch)
      /\ seBuild' = [seBuild EXCEPT ![b].at = "merged", ![b].batch = {}]
  BY <1>1 DEF flushBatch, SeInv, SeTyped, AtWork
<1>3. PICK y : y = [x EXCEPT !.at = "merged", !.batch = {}]
  OBVIOUS
<1>4. seBuild' = [seBuild EXCEPT ![b] = y]
  BY <1>1, <1>2, <1>3 DEF SeInv, SeTyped, Builds
<1>5. /\ y \in Builds /\ y.at = "merged" /\ y.gen = x.gen /\ y.partial = x.partial /\ y.todo = {} /\ y.batch = {}
      /\ x.batch \in SUBSET SeDirs
  BY <1>2, <1>3 DEF Builds
<1>6. /\ seIx' \in Indexes /\ seIx'.attached = seIx.attached /\ seIx'.entries = seIx.entries \union x.batch
      /\ seIx'.incomplete = seIx.incomplete /\ seIx'.gen = seIx.gen /\ seIx'.late = seIx.late \ x.batch
  BY <1>2, <1>5, AppendToIs
<1>7. Unwatched'
  <2>1. /\ seBuild'["recover"] = IF b = "recover" THEN y ELSE seBuild["recover"]
        /\ seBuild'["job"] = IF b = "job" THEN y ELSE seBuild["job"]
    BY <1>4 DEF SeInv, SeTyped, Builders
  <2> QED
    BY <1>1, <1>2, <1>6, <2>1 DEF SeInv, Unwatched, Builders
<1>8. seWatch /\ y.gen = seIx.gen /\ ~y.partial => \A d \in seDisk \ y.todo : d \in seIx'.entries \/ Known(d)
  BY <1>1, <1>2, <1>5, <1>6 DEF SeInv, CoverInv
<1> QED
  BY <1>2, <1>4, <1>5, <1>6, <1>7, <1>8, BuildMoved

LEMMA BuildEndIndexed ==
  ASSUME SeInv, NEW b \in Builders, BuildEnd(b)
  PROVE  SeInv'
<1>1. PICK x : x = seBuild[b]
  OBVIOUS
<1>2. /\ x \in Builds /\ x.at = "merged" /\ x.todo = {} /\ x.batch = {} /\ x.gen <= seIx.gen /\ seIx.attached
      /\ seIx \in Indexes /\ UNCHANGED <<seDisk, seEvents, seQueue, seUpd, seWatch>>
      /\ seIx' = (IF x.partial THEN seIx ELSE CompleteCoverage(seIx, x.gen))
      /\ seBuild' = [seBuild EXCEPT ![b].at = "ended"]
  BY <1>1 DEF BuildEnd, SeInv, SeTyped, AtWork
<1>3. PICK y : y = [x EXCEPT !.at = "ended"]
  OBVIOUS
<1>4. seBuild' = [seBuild EXCEPT ![b] = y]
  BY <1>1, <1>2, <1>3 DEF SeInv, SeTyped, Builds
<1>5. y \in Builds /\ y.at = "ended" /\ y.gen = x.gen
  BY <1>2, <1>3 DEF Builds
<1>6. /\ seIx' \in Indexes /\ seIx'.attached = seIx.attached /\ seIx'.entries = seIx.entries
      /\ seIx'.gen = seIx.gen /\ seIx'.late = seIx.late
      /\ (~seIx'.incomplete => ~seIx.incomplete \/ (~x.partial /\ x.gen = seIx.gen))
  <2>1. CASE x.partial
    BY <1>2, <2>1
  <2>2. CASE ~x.partial
    <3>1. seIx' = CompleteCoverage(seIx, x.gen)
      BY <1>2, <2>2
    <3>2. PICK g : g = x.gen
      OBVIOUS
    <3>3. /\ seIx' \in Indexes /\ seIx'.attached = seIx.attached /\ seIx'.entries = seIx.entries
          /\ seIx'.gen = seIx.gen /\ seIx'.late = seIx.late /\ (~seIx'.incomplete => ~seIx.incomplete \/ g = seIx.gen)
      BY <1>2, <3>1, <3>2 DEF CompleteCoverage, Indexes
    <3> QED
      BY <2>2, <3>2, <3>3
  <2> QED
    BY <2>1, <2>2
<1>7. Unwatched'
  <2>1. /\ seBuild'["recover"] = IF b = "recover" THEN y ELSE seBuild["recover"]
        /\ seBuild'["job"] = IF b = "job" THEN y ELSE seBuild["job"]
    BY <1>4 DEF SeInv, SeTyped, Builders
  <2> QED
    BY <1>1, <1>2, <1>5, <1>6, <2>1 DEF SeInv, Unwatched, Builders
<1>8. seWatch /\ ~x.partial /\ x.gen = seIx.gen => \A d \in seDisk : Known(d)
  BY <1>1, <1>2 DEF SeInv, CoverInv
<1> QED
  BY <1>2, <1>4, <1>5, <1>6, <1>7, <1>8, BuildMoved

LEMMA SeInvNext ==
  ASSUME SeConstants, SeInv, SeNext
  PROVE  SeInv'
<1>1. CASE CancelBuild
  BY <1>1, IndexUntouched DEF CancelBuild
<1> QED
  BY <1>1, ChangeIndexed, OfferIndexed, MarkIncompleteIndexed, ApplyIndexed, ListIndexed, ReconcileIndexed,
     RecoverIndexed, RecoverEndIndexed, StartIndexed, RunIndexed, SwitchIndexed, WalkIndexed, FlushIndexed,
     BuildEndIndexed DEF SeNext

LEMMA SeInvFinds == ASSUME SeInv PROVE SearchFindsAll
<1>1. ASSUME NEW d \in seDisk, NEW complete \in BOOLEAN, d \notin Query(complete)
      PROVE  OnItsWay(d) \/ (~seWatch /\ seBuild["job"].at = "ended") \/ d \in seIx.late
  <2>1. seIx.attached /\ ~seIx.incomplete /\ d \notin seIx.entries
    BY <1>1 DEF Query, promote
  <2>2. CASE seWatch
    <3>1. Known(d)
      BY <2>1, <2>2 DEF SeInv, CoverInv
    <3> QED
      BY <2>1, <3>1 DEF Known, Pending, Carried, OnItsWay
  <2>3. CASE ~seWatch
    BY <2>1, <2>3 DEF SeInv, Unwatched
  <2> QED
    BY <2>2, <2>3
<1> QED
  BY <1>1 DEF SearchFindsAll

\* A search never misses a file silently (update.go, build.go): the event of the
\* missing file is on its way, or the moment is one of the two the property excepts.
THEOREM SearchMissesNothing == ASSUME SeConstants PROVE SeSpec => []SearchFindsAll
<1>1. SeInit => SeInv
  BY SeInvInit
<1>2. SeInv /\ [SeNext]_seVars => SeInv'
  <2>1. CASE UNCHANGED seVars
    BY <2>1, IndexUntouched DEF seVars
  <2> QED
    BY <2>1, SeInvNext
<1>3. SeInv => SearchFindsAll
  BY SeInvFinds
<1> QED
  BY <1>1, <1>2, <1>3, PTL DEF SeSpec

------------------------------------------------------------------------------
(***************************************************************************)
(* The three in the composition.                                           *)
(***************************************************************************)

\* A step of the composition is a step of each part, or leaves it alone.
LEMMA ReachStepOfPart ==
  ASSUME [Next]_vars
  PROVE  [CfNext]_cfVars /\ [DrNext]_drVars /\ [SeNext]_seVars
BY DEF Next, vars, Only, DirectTransferStep, TransferTreeStep, OperationQueueStep, FileTrashStep, DavLocksStep,
       ChangeFeedStep, DirRollupsStep, SearchIndexStep, NodeIdsStep, ChunkCollectionStep, UploadClientStep,
       UploadDebrisStep

\* A behaviour of the composition is a behaviour of each part.
LEMMA ReachRunsParts == Spec => CfSpec /\ DrSpec /\ SeSpec
<1>1. Init => CfInit /\ DrInit /\ SeInit
  BY DEF Init
<1> QED
  BY <1>1, ReachStepOfPart, PTL DEF Spec, CfSpec, DrSpec, SeSpec

\* A change on disk reaches the socket that subscribed to its directory (changes.go),
\* the rollups above it (aggregate.go) and the search index (update.go).
THEOREM ChangesAreNoticed ==
    ASSUME CfConstants, DrConstants, SeConstants
    PROVE  Spec => []ChangesReach
<1>1. CfSpec => [](NoticeInFlight /\ PinsExact)
  BY NoticesReachSockets
<1>2. DrSpec => []RollupFresh
  BY RollupsAreFresh
<1>3. SeSpec => []SearchFindsAll
  BY SearchMissesNothing
<1>4. NoticeInFlight /\ PinsExact /\ RollupFresh /\ SearchFindsAll => ChangesReach
  BY DEF ChangesReach
<1> QED
  BY <1>1, <1>2, <1>3, <1>4, ReachRunsParts, PTL
==============================================================================
