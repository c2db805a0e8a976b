---------------------------- MODULE DirRollups -----------------------------
(***************************************************************************)
(* The cached rollup of a directory: its ETag and the size and count of    *)
(* everything beneath it (internal/files/aggregate.go over                 *)
(* internal/db/cache/diretag.go), and what invalidates it.                 *)
(*                                                                         *)
(* Two walks run at once. A walk reads a directory's entries, then rolls   *)
(* its subdirectories up, then stores the row. Meanwhile directories       *)
(* change, and the change is marked later, by the handler that wrote or by *)
(* the watcher's event. The value of a rollup is modelled by the version   *)
(* of every directory that went into its hash.                             *)
(***************************************************************************)
EXTENDS Naturals, Sequences

CONSTANTS DrDirs,      \* the directories of the share, "root" among them
          ParentOf,    \* the directory above each of the others
          Walks,       \* the requests that compute a rollup
          DrChanges    \* how many changes are made

VARIABLES drDisk,    \* the version of each directory's own entries
          drToMark,  \* the directories changed and not marked; "all": the watcher lost events
          drRow,     \* the rows: whether the directory has an id, and the rollup stored for it
          drGen,     \* the share's generation
          drFloor,   \* what had changed when the whole share was last invalidated
          drWalk,    \* each walk: the levels it is at, the deepest last
          drLeft     \* changes left

drVars == <<drDisk, drToMark, drRow, drGen, drFloor, drWalk, drLeft>>

\* A directory and everything above it: what whoever climbs from it cannot miss.
ClosedAbove(S) == \A e \in S \ {"root"} : ParentOf[e] \in S
ChainOf(d) == {e \in DrDirs : \A S \in SUBSET DrDirs : d \in S /\ ClosedAbove(S) => e \in S}
Below(d) == {e \in DrDirs : d \in ChainOf(e)}
ChildrenOf(d) == {e \in DrDirs \ {"root"} : ParentOf[e] = d}

\* The rollup of nothing, and two rollups in one: what the first one counts it says.
NoVal == [e \in {} |-> 0]
Over(f, g) == [e \in DOMAIN f \union DOMAIN g |-> IF e \in DOMAIN f THEN f[e] ELSE g[e]]

NoRow == [node |-> FALSE, valid |-> FALSE, gen |-> 0, val |-> NoVal, raced |-> FALSE]

DrInit ==
    /\ drDisk = [d \in DrDirs |-> 0] /\ drToMark = {} /\ drFloor = drDisk
    /\ drRow = [d \in DrDirs |-> NoRow] /\ drGen = 0
    /\ drWalk = [w \in Walks |-> <<>>] /\ drLeft = DrChanges

\* A handler or somebody beside this server changes a directory's entries; the marking comes later. The event
\* of an outside change may be dropped for lack of room, and then it names no directory.
ChangeEntries(d) ==
    /\ drLeft > 0 /\ drLeft' = drLeft - 1
    /\ drDisk' = [drDisk EXCEPT ![d] = @ + 1]
    /\ \E what \in {d, "all"} : drToMark' = drToMark \union {what}
    /\ UNCHANGED <<drRow, drGen, drFloor, drWalk>>

(***************************************************************************)
(* The rows                                                                *)
(***************************************************************************)

\* A row is served when it is valid and of the share's generation.
DirEtag(d) == drRow[d].valid /\ drRow[d].gen = drGen

\* The walks remember, for the properties, which of the directories they have listed were marked since.
MarkDirty(chain) ==
    /\ drRow' = [d \in DrDirs |-> IF d \in chain THEN [drRow[d] EXCEPT !.valid = FALSE] ELSE drRow[d]]
    /\ drWalk' = [w \in Walks |-> [i \in DOMAIN drWalk[w] |->
                    [drWalk[w][i] EXCEPT !.raced = @ \/ (drWalk[w][i].listed /\ drWalk[w][i].dir \in chain)]]]
    /\ UNCHANGED <<drGen, drFloor>>

BumpShareGen == drGen' = drGen + 1 /\ drFloor' = drDisk /\ UNCHANGED <<drRow, drWalk>>

\* Only the directory that changed is marked, not the ones above it.
MutMarkChainDirty(d) == MarkDirty({d}) \/ BumpShareGen

\* The root always, the others when they have an id; a failed marking invalidates the whole share.
markChainDirty(d) ==
    \/ MarkDirty({e \in ChainOf(d) : e = "root" \/ drRow[e].node})
    \/ BumpShareGen

InvalidateShare == BumpShareGen

\* The handler that wrote marks the directory; the watcher's event marks it, or the share when events were lost.
invalidateCache(what) ==
    /\ what \in drToMark /\ drToMark' = drToMark \ {what}
    /\ IF what = "all" THEN InvalidateShare ELSE markChainDirty(what)
    /\ UNCHANGED <<drDisk, drLeft>>

(***************************************************************************)
(* A walk                                                                  *)
(***************************************************************************)

\* A directory a rollup is computed for gets an id.
upsertDir(ds) == drRow' = [d \in DrDirs |-> IF d \in ds THEN [drRow[d] EXCEPT !.node = TRUE] ELSE drRow[d]]

Level(d, gen) == [dir |-> d, gen |-> gen, listed |-> FALSE, val |-> NoVal, todo |-> {}, raced |-> FALSE]

\* The generation is read once, before anything is looked at, and stamps every row of the walk.
AggregateBegin(w, d) ==
    /\ drWalk[w] = <<>> /\ upsertDir(ChainOf(d))
    /\ drWalk' = [drWalk EXCEPT ![w] = <<Level(d, drGen)>>]
    /\ UNCHANGED <<drDisk, drToMark, drGen, drFloor, drLeft>>

Top(w) == drWalk[w][Len(drWalk[w])]
Under(w) == SubSeq(drWalk[w], 1, Len(drWalk[w]) - 1)

\* What a level found goes into the level above it.
Counting(f, val, raced) == [f EXCEPT !.val = Over(val, @), !.raced = @ \/ raced]
HandUp(w, val, raced) ==
    IF Under(w) = <<>> THEN <<>>
    ELSE [Under(w) EXCEPT ![Len(Under(w))] = Counting(@, val, raced)]

\* The cached row answers, or the directory is listed and its subdirectories are next.
computeAggregate(w) ==
    /\ drWalk[w] # <<>> /\ ~Top(w).listed
    /\ drWalk' = [drWalk EXCEPT ![w] =
         IF DirEtag(Top(w).dir)
         THEN HandUp(w, drRow[Top(w).dir].val, drRow[Top(w).dir].raced)
         ELSE Append(Under(w), [Top(w) EXCEPT !.listed = TRUE, !.val = [e \in {Top(w).dir} |-> drDisk[e]],
                                              !.todo = ChildrenOf(Top(w).dir)])]
    /\ UNCHANGED <<drDisk, drToMark, drRow, drGen, drFloor, drLeft>>

Descend(w, d) ==
    /\ drWalk[w] # <<>> /\ Top(w).listed /\ d \in Top(w).todo /\ upsertDir({d})
    /\ drWalk' = [drWalk EXCEPT ![w] = Append(Append(Under(w), [Top(w) EXCEPT !.todo = Top(w).todo \ {d}]), Level(d, Top(w).gen))]
    /\ UNCHANGED <<drDisk, drToMark, drGen, drFloor, drLeft>>

\* The row is stamped with the generation at the time it is stored.
MutPutDirEtag(f) ==
    drRow' = [drRow EXCEPT ![f.dir] = [node |-> TRUE, valid |-> TRUE, gen |-> drGen, val |-> f.val, raced |-> f.raced]]

\* The row is valid again whatever happened to it since the walk read the directory.
PutDirEtag(f) ==
    drRow' = [drRow EXCEPT ![f.dir] = [node |-> TRUE, valid |-> TRUE, gen |-> f.gen, val |-> f.val, raced |-> f.raced]]

\* A rollup that cannot be stored is answered all the same.
StoreAggregate(w) ==
    /\ drWalk[w] # <<>> /\ Top(w).listed /\ Top(w).todo = {}
    /\ PutDirEtag(Top(w)) \/ UNCHANGED drRow
    /\ drWalk' = [drWalk EXCEPT ![w] = HandUp(w, Top(w).val, Top(w).raced)]
    /\ UNCHANGED <<drDisk, drToMark, drGen, drFloor, drLeft>>

DrNext ==
    \/ \E d \in DrDirs : ChangeEntries(d)
    \/ \E what \in DrDirs \union {"all"} : invalidateCache(what)
    \/ \E w \in Walks : computeAggregate(w) \/ StoreAggregate(w)
    \/ \E w \in Walks, d \in DrDirs : AggregateBegin(w, d) \/ Descend(w, d)

DrSpec == DrInit /\ [][DrNext]_drVars

(***************************************************************************)
(* Properties                                                              *)
(***************************************************************************)

DrTypeOK ==
    /\ drDisk \in [DrDirs -> 0..DrChanges] /\ drFloor \in [DrDirs -> 0..DrChanges] /\ drLeft \in 0..DrChanges
    /\ drToMark \subseteq DrDirs \union {"all"} /\ drGen \in 0..DrChanges
    /\ \A d \in DrDirs : /\ drRow[d].node \in BOOLEAN /\ drRow[d].gen \in 0..drGen
                         /\ drRow[d].valid => DOMAIN drRow[d].val = Below(d)
    /\ \A w \in Walks : \A i, j \in 1..Len(drWalk[w]) : i < j => drWalk[w][i].dir \in ChainOf(drWalk[w][j].dir)

\* A change that is not marked yet.
Unmarked(d) == drToMark \intersect {d, "all"} # {}

\* A rollup that is served counts every change that was marked, at any depth of the tree, unless a marking of
\* the directory fell between its walk's reading and its storing; and a rollup begun before the whole share was
\* invalidated is never served afterwards.
RollupFresh ==
    \A d \in DrDirs : DirEtag(d) => \A e \in Below(d) :
        /\ drRow[d].raced \/ Unmarked(e) \/ drRow[d].val[e] = drDisk[e]
        /\ drRow[d].val[e] >= drFloor[e]

\* "Rejecting the write would leave a stale cached ETag still marked valid, telling clients nothing changed when
\* it had": a rollup is never served stale once the change was marked.
RollupNeverStale == \A d \in DrDirs : DirEtag(d) => \A e \in Below(d) : Unmarked(e) \/ drRow[d].val[e] = drDisk[e]
=============================================================================
