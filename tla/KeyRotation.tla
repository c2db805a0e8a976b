---------------------------- MODULE KeyRotation ----------------------------
(***************************************************************************)
(* The master key ring and its rotation: internal/auth (masterkey.go,      *)
(* rotate.go, keystate.go, seal.go) and the sealed rows of                 *)
(* internal/db/state/sealed.go.                                            *)
(*                                                                         *)
(* The key file and the database cannot commit together. A rotation writes *)
(* a ring of both keys, reseals every row in one transaction, and writes a *)
(* ring of the new key alone; the process may stop between any two of      *)
(* those, a write of the file may fail, before or after it was published,  *)
(* and requests seal rows of their own meanwhile. A key is a number nobody *)
(* else draws; a ring is a function from versions to keys.                 *)
(***************************************************************************)
EXTENDS Integers, FiniteSets, Functions

CONSTANTS SealedRows,    \* the rows that may be sealed
          FatalRows,     \* the ones that hold a second factor
          MaxVersion,    \* the last version a rotation may reach
          MaxKeys        \* how many keys may be drawn

VARIABLES krFile,    \* the ring the key file holds, empty when there is none
          krMem,     \* the ring the service serves with
          krVer,     \* the version the database names, 0 when it names none
          krRow,     \* the sealed rows: version and key of each
          krUp,      \* the process: down, a step of its start, or up
          krRot,     \* the rotation in progress
          krSeal,    \* the request that has taken its key and not written its row
          krDrawn,   \* how many keys have been drawn
          krHalf,    \* this process failed to write its compacted ring
          krLost,    \* ... and rotated again from the ring it was left with
          krStray    \* the rows written under a key taken before the last reseal

krVars == <<krFile, krMem, krVer, krRow, krUp, krRot, krSeal, krDrawn, krHalf, krLost, krStray>>

NoRing == <<>>
NoRotation == [step |-> "none"]
NoSeal == [row |-> "none"]

KrInit ==
    /\ krFile = NoRing /\ krMem = NoRing /\ krVer = 0 /\ krRow = <<>> /\ krUp = "down"
    /\ krRot = NoRotation /\ krSeal = NoSeal /\ krDrawn = 0 /\ krHalf = FALSE /\ krLost = FALSE /\ krStray = {}

Newest(ring) == CHOOSE v \in DOMAIN ring : \A w \in DOMAIN ring : w <= v

Active(ring) == [ver |-> Newest(ring), key |-> ring[Newest(ring)]]

\* The ciphertext opens under the key that sealed it, found by the version the row names.
Opens(ring, sealed) == sealed.ver \in DOMAIN ring /\ ring[sealed.ver] = sealed.key

\* A row is opened under the key its version names before it is sealed again.
resealRow(ring, sealed) == Opens(ring, sealed)

NewKeyRing == [v \in {1} |-> krDrawn + 1]

withNewKey(ring) ==
    [v \in DOMAIN ring \union {Newest(ring) + 1} |->
       IF v = Newest(ring) + 1 THEN krDrawn + 1 ELSE ring[v]]

\* The compacted ring keeps the version it was asked to leave behind.
MutCompactTo(ring, ver) == Restrict(ring, {Newest(ring)})

compactTo(ring, ver) == Restrict(ring, {ver})

\* A durable replacement: published; refused; or published and reported as an error.
persist(ring, ok) == krFile' = ring \/ (~ok /\ UNCHANGED krFile)

(***************************************************************************)
(* Start                                                                   *)
(***************************************************************************)

\* OpenMasterKey: the file is loaded, or a ring of one key is generated and written first.
OpenMasterKey ==
    /\ krUp = "down"
    /\ \/ /\ krFile # NoRing
          /\ krMem' = krFile /\ krUp' = "state"
          /\ UNCHANGED <<krFile, krDrawn>>
       \/ /\ krFile = NoRing /\ krDrawn < MaxKeys
          /\ krDrawn' = krDrawn + 1
          /\ \E ok \in BOOLEAN :
                /\ persist(NewKeyRing, ok)
                /\ IF ok THEN krMem' = NewKeyRing /\ krUp' = "state" ELSE UNCHANGED <<krMem, krUp>>
    /\ UNCHANGED <<krVer, krRow, krRot, krSeal, krHalf, krLost, krStray>>

\* startupKeyState: a database that names no version takes the ring's; one whose version
\* the ring lacks refuses.
startupKeyState ==
    /\ krUp = "state"
    /\ krVer' = IF krVer = 0 THEN Newest(krMem) ELSE krVer
    /\ krUp' = IF krVer' \in DOMAIN krMem THEN "align" ELSE "refused"
    /\ UNCHANGED <<krFile, krMem, krRow, krRot, krSeal, krDrawn, krHalf, krLost, krStray>>

alignRing ==
    /\ krUp = "align"
    /\ IF DOMAIN krMem = {krVer}
       THEN krUp' = "check" /\ UNCHANGED <<krFile, krMem>>
       ELSE \E ok \in BOOLEAN :
               /\ persist(compactTo(krMem, krVer), ok)
               /\ IF ok THEN krMem' = compactTo(krMem, krVer) /\ krUp' = "check"
                  ELSE krUp' = "down" /\ UNCHANGED krMem
    /\ UNCHANGED <<krVer, krRow, krRot, krSeal, krDrawn, krHalf, krLost, krStray>>

\* The start samples one row of the kind.
SampleSealedRow == CHOOSE r \in FatalRows \intersect DOMAIN krRow : TRUE

\* A second factor that does not open refuses the start; any other row warns.
checkMasterKey ==
    /\ krUp = "check"
    /\ krUp' = IF FatalRows \intersect DOMAIN krRow # {} /\ ~Opens(krMem, krRow[SampleSealedRow])
               THEN "refused" ELSE "up"
    /\ UNCHANGED <<krFile, krMem, krVer, krRow, krRot, krSeal, krDrawn, krHalf, krLost, krStray>>

\* The process stops anywhere. The file and the database keep what was committed.
Crash ==
    /\ krUp \notin {"down", "refused"}
    /\ krUp' = "down" /\ krMem' = NoRing /\ krRot' = NoRotation /\ krSeal' = NoSeal
    /\ krHalf' = FALSE
    /\ UNCHANGED <<krFile, krVer, krRow, krDrawn, krLost, krStray>>

(***************************************************************************)
(* Sealing                                                                 *)
(***************************************************************************)

\* A request takes the active key and seals; the statement that stores the row runs later.
activeKey ==
    /\ krUp = "up" /\ krSeal = NoSeal
    /\ \E r \in SealedRows : krSeal' = [row |-> r, sealed |-> Active(krMem), since |-> krVer]
    /\ UNCHANGED <<krFile, krMem, krVer, krRow, krUp, krRot, krDrawn, krHalf, krLost, krStray>>

StoreSealed ==
    /\ krSeal # NoSeal
    /\ LET r == krSeal.row IN
       /\ krRow' = [x \in DOMAIN krRow \union {r} |-> IF x = r THEN krSeal.sealed ELSE krRow[x]]
       /\ krStray' = IF krSeal.sealed.ver # krVer THEN krStray \union {r} ELSE krStray \ {r}
    /\ krSeal' = NoSeal
    /\ UNCHANGED <<krFile, krMem, krVer, krUp, krRot, krDrawn, krHalf, krLost>>

(***************************************************************************)
(* Rotation                                                                *)
(***************************************************************************)

\* The ring of both keys is written first, from the ring in memory.
RotateMasterKey ==
    /\ krUp = "up" /\ krRot = NoRotation
    /\ Newest(krMem) < MaxVersion /\ krDrawn < MaxKeys
    /\ krDrawn' = krDrawn + 1
    /\ \E ok \in BOOLEAN :
          /\ persist(withNewKey(krMem), ok)
          /\ krRot' = IF ok THEN [step |-> "reseal", ring |-> withNewKey(krMem)] ELSE NoRotation
    /\ krLost' = (krLost \/ krHalf)
    /\ UNCHANGED <<krMem, krVer, krRow, krUp, krSeal, krHalf, krStray>>

\* The four walks seal every row under the new key.
Resealed(ring) == [r \in DOMAIN krRow |-> Active(ring)]

\* One transaction: every row opened under the key that sealed it and sealed under the new
\* one, the version last. A row that does not open aborts it.
Reseal ==
    /\ krRot.step = "reseal"
    /\ LET ring == krRot.ring IN
       IF \A r \in DOMAIN krRow : resealRow(ring, krRow[r])
       THEN /\ krRow' = Resealed(ring)
            /\ krVer' = Newest(ring)
            /\ krStray' = {}
            /\ krRot' = [step |-> "compact", ring |-> ring]
       ELSE krRot' = NoRotation /\ UNCHANGED <<krRow, krVer, krStray>>
    /\ UNCHANGED <<krFile, krMem, krUp, krSeal, krDrawn, krHalf, krLost>>

\* The ring in memory follows the file; a write that fails leaves the service on the old ring.
Compact ==
    /\ krRot.step = "compact"
    /\ LET ring == compactTo(krRot.ring, Newest(krRot.ring)) IN
       \E ok \in BOOLEAN :
          /\ persist(ring, ok)
          /\ IF ok THEN krMem' = ring /\ UNCHANGED krHalf ELSE krHalf' = TRUE /\ UNCHANGED krMem
    /\ krRot' = NoRotation
    /\ UNCHANGED <<krVer, krRow, krUp, krSeal, krDrawn, krLost, krStray>>

KrNext ==
    \/ OpenMasterKey \/ startupKeyState \/ alignRing \/ checkMasterKey \/ Crash
    \/ activeKey \/ StoreSealed
    \/ RotateMasterKey \/ Reseal \/ Compact

KrSpec == KrInit /\ [][KrNext]_krVars

(***************************************************************************)
(* Properties                                                              *)
(***************************************************************************)

Rings == UNION {[vs -> 1 .. MaxKeys] : vs \in SUBSET (1 .. MaxVersion)}

\* Every variable has its type.
KrTypeOK ==
    /\ krFile \in Rings /\ krMem \in Rings /\ krVer \in 0 .. MaxVersion
    /\ DOMAIN krRow \subseteq SealedRows
    /\ krUp \in {"down", "state", "align", "check", "up", "refused"}
    /\ krRot.step \in {"none", "reseal", "compact"}
    /\ krDrawn \in 0 .. MaxKeys /\ krHalf \in BOOLEAN /\ krLost \in BOOLEAN /\ krStray \subseteq SealedRows

\* What a rotation leaves on disk opens, wherever it stopped: the key file holds the key of every
\* committed row, and no start is refused (rotate.go: "Crashing at any boundary still leaves at
\* least the key the committed database needs"). Two things escape it: a row a request sealed under
\* the old key and stored after the reseal, and a second rotation by a service that failed to
\* write its compacted ring: it draws the version again and overwrites the key the rows now need.
RotationRecoverable ==
    ~krLost => /\ \A r \in DOMAIN krRow \ krStray : Opens(krFile, krRow[r])
               /\ krUp = "refused" => krStray # {}

\* Every committed row opens under the key file.
EveryRowOpens == \A r \in DOMAIN krRow : Opens(krFile, krRow[r])

=============================================================================
