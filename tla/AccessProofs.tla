---------------------------- MODULE AccessProofs -----------------------------
(***************************************************************************)
(* What eight of the parts MCAccess runs keep for every instance: the      *)
(* master key and its rotation (KeyRotation), the request limiter          *)
(* (RequestLimiter), the public links (PublicLinks), signing in (SignIn),  *)
(* the evaluator of grants (Permissions), device logins with their tokens  *)
(* (DeviceLogin), signing on through a provider (SingleSignOn) and the     *)
(* registry of shares (ShareRegistry).  They share no variable.            *)
(***************************************************************************)
EXTENDS KeyRotation, RequestLimiter, PublicLinks, SignIn, Permissions, DeviceLogin, SingleSignOn,
        ShareRegistry, FiniteSetTheorems, WellFoundedInduction, TLAPS

------------------------------------------------------------------------------
(***************************************************************************)
(* A rotation of the master key is recoverable wherever it stops, for any  *)
(* set of rows and any number of rotations, failed writes and restarts.    *)
(* The argument is that one key matters at any time, the one the database  *)
(* names: the key file holds it, every row that is not astray is sealed    *)
(* under it, and so is what a request has in hand if it names its version. *)
(***************************************************************************)

------------------------------------------------------------------------------
(* The inductive invariant.                                                *)

\* Before the database names a version there is nothing sealed, and the key
\* file, if there is one, holds the one key it was generated with.
Unnamed ==
    /\ DOMAIN krRow = {} /\ krRot = NoRotation /\ krSeal = NoSeal
    /\ krUp \in {"down", "state"} /\ (krFile = NoRing \/ DOMAIN krFile = {1})

\* The key file holds the key the database names, and every row that is not
\* astray is sealed under it.
FileHoldsKey ==
    /\ krVer \in DOMAIN krFile
    /\ \A r \in DOMAIN krRow \ krStray : Opens(krFile, krRow[r]) /\ krRow[r].ver = krVer

\* Until the service is up its ring is the file's.
StartInv ==
    /\ krUp # "up" => krRot = NoRotation /\ krSeal = NoSeal /\ ~krHalf
    /\ krUp \in {"state", "align", "check"} => krMem = krFile /\ krFile # NoRing
    /\ krUp = "check" => DOMAIN krMem = {krVer}
    /\ krUp = "refused" => krStray # {}

\* A service that has not failed to compact serves with the one key the
\* database names; while a rotation is between its reseal and its compaction,
\* or after the compaction failed, it serves with the one before.
ServedInv ==
    krUp = "up" =>
      /\ krHalf \/ krRot.step = "compact" => DOMAIN krMem = {krVer - 1}
      /\ ~(krHalf \/ krRot.step = "compact") =>
            DOMAIN krMem = {krVer} /\ krMem[krVer] = krFile[krVer]

\* What a rotation has in hand is what it has written.
RotationInv ==
    /\ krRot = NoRotation \/ (krRot.step \in {"reseal", "compact"} /\ krRot.ring = krFile)
    /\ krRot.step = "reseal" => DOMAIN krFile = {krVer, krVer + 1} /\ ~krHalf
    /\ krRot.step = "compact" => DOMAIN krFile = {krVer - 1, krVer} /\ ~krHalf

\* A request never holds a key newer than the database's, and it holds that
\* key if it names that version.
SealInv ==
    krSeal # NoSeal =>
      /\ krSeal.sealed.ver \in Nat /\ krSeal.sealed.ver <= krVer
      /\ krSeal.sealed.ver = krVer => Opens(krFile, krSeal.sealed)

KeyInv ==
    /\ krVer \in Nat
    /\ krVer = 0 => Unnamed
    /\ krVer # 0 => FileHoldsKey
    /\ StartInv /\ ServedInv /\ RotationInv /\ SealInv

\* The invariant is claimed until a service that failed to compact rotates again.
KrInv == krLost \in BOOLEAN /\ krHalf \in BOOLEAN /\ (~krLost => KeyInv)

------------------------------------------------------------------------------
(* Rings.                                                                  *)

\* The newest version of a ring of one key, and of a ring of two.
LEMMA NewestOfOne ==
    ASSUME NEW ring, NEW v \in Int, DOMAIN ring = {v}
    PROVE  Newest(ring) = v
BY DEF Newest

LEMMA NewestOfTwo ==
    ASSUME NEW ring, NEW v \in Int, DOMAIN ring = {v, v + 1}
    PROVE  Newest(ring) = v + 1
<1>1. \A w \in DOMAIN ring : w <= v + 1
  OBVIOUS
<1>2. \A x \in DOMAIN ring : (\A w \in DOMAIN ring : w <= x) => x = v + 1
  OBVIOUS
<1> QED
  BY <1>1, <1>2 DEF Newest

\* A ring with a new key keeps the old one under its version.
LEMMA RingWithNewKey ==
    ASSUME NEW v \in Int, DOMAIN krMem = {v}
    PROVE  /\ DOMAIN withNewKey(krMem) = {v, v + 1}
           /\ withNewKey(krMem)[v] = krMem[v]
           /\ Newest(withNewKey(krMem)) = v + 1
<1>1. Newest(krMem) = v
  BY NewestOfOne
<1>2. /\ DOMAIN withNewKey(krMem) = {v, v + 1}
      /\ withNewKey(krMem)[v] = krMem[v]
  BY <1>1 DEF withNewKey
<1> QED
  BY <1>2, NewestOfTwo

\* A compacted ring holds one version, with the key the ring had for it.
LEMMA RingCompacted ==
    ASSUME NEW ring, NEW v \in Int
    PROVE  DOMAIN compactTo(ring, v) = {v} /\ compactTo(ring, v)[v] = ring[v]
BY DEF compactTo, Restrict

\* An empty ring has no versions.
LEMMA RingEmpty == DOMAIN NoRing = {}
BY DEF NoRing

------------------------------------------------------------------------------
(* The start.                                                              *)

\* A fresh installation has nothing sealed and no key file.
LEMMA KeyInvInit == KrInit => KrInv
<1> SUFFICES ASSUME KrInit PROVE KrInv
  OBVIOUS
<1>1. DOMAIN krRow = {}
  BY DEF KrInit
<1> QED
  BY <1>1 DEF KrInit, KrInv, KeyInv, Unnamed, StartInv, ServedInv, RotationInv, SealInv,
              NoRotation

\* OpenMasterKey loads the file, or generates one only when nothing is sealed.
LEMMA OpenPreserves ==
    ASSUME KeyInv, OpenMasterKey
    PROVE  KeyInv'
<1>1. krUp = "down" /\ UNCHANGED <<krVer, krRow, krRot, krSeal, krHalf, krLost, krStray>>
  BY DEF OpenMasterKey
<1>2. CASE krFile # NoRing
  <2>1. krMem' = krFile /\ krUp' = "state" /\ UNCHANGED krFile
    BY <1>2 DEF OpenMasterKey
  <2> QED
    BY <1>1, <1>2, <2>1 DEF KeyInv, Unnamed, FileHoldsKey, StartInv, ServedInv, RotationInv,
                            SealInv, Opens
<1>3. CASE krFile = NoRing
  <2>1. krVer = 0 /\ Unnamed
    BY <1>3, RingEmpty DEF KeyInv, FileHoldsKey
  <2>2. krFile' \in {NewKeyRing, NoRing}
    BY <1>3 DEF OpenMasterKey, persist
  <2>3. DOMAIN NewKeyRing = {1}
    BY DEF NewKeyRing
  <2>4. \/ krUp' = "down"
        \/ krUp' = "state" /\ krMem' = NewKeyRing /\ krFile' = NewKeyRing
    BY <1>1, <1>3 DEF OpenMasterKey, persist
  <2>5. NewKeyRing # NoRing
    BY <2>3, RingEmpty
  <2>6. StartInv'
    BY <1>1, <2>4, <2>5 DEF KeyInv, StartInv
  <2> QED
    BY <1>1, <2>1, <2>2, <2>3, <2>4, <2>6
       DEF KeyInv, Unnamed, ServedInv, RotationInv, SealInv, NoRotation
<1> QED
  BY <1>2, <1>3

\* startupKeyState finds the version the database names, so it refuses nothing.
LEMMA StatePreserves ==
    ASSUME KeyInv, startupKeyState
    PROVE  KeyInv'
<1>1. /\ krUp = "state" /\ krMem = krFile /\ krFile # NoRing
      /\ UNCHANGED <<krFile, krMem, krRow, krRot, krSeal, krHalf, krStray>>
      /\ krRot = NoRotation /\ krSeal = NoSeal
  BY DEF startupKeyState, KeyInv, StartInv
<1>2. krVer' \in DOMAIN krMem /\ krVer' \in Nat /\ krVer' # 0
  <2>1. CASE krVer = 0
    <3>1. DOMAIN krMem = {1}
      BY <1>1, <2>1 DEF KeyInv, Unnamed
    <3>2. Newest(krMem) = 1
      BY <3>1, NewestOfOne
    <3> QED
      BY <2>1, <3>1, <3>2 DEF startupKeyState
  <2>2. CASE krVer # 0
    BY <1>1, <2>2 DEF startupKeyState, KeyInv, FileHoldsKey
  <2> QED
    BY <2>1, <2>2
<1>3. krUp' = "align"
  BY <1>2 DEF startupKeyState
<1>4. FileHoldsKey'
  <2>1. CASE krVer = 0
    BY <1>1, <1>2, <2>1 DEF FileHoldsKey, KeyInv, Unnamed
  <2>2. CASE krVer # 0
    BY <1>1, <1>2, <2>2 DEF FileHoldsKey, KeyInv, startupKeyState, Opens
  <2> QED
    BY <2>1, <2>2
<1> QED
  BY <1>1, <1>2, <1>3, <1>4 DEF KeyInv, StartInv, ServedInv, RotationInv, SealInv, NoRotation

\* alignRing drops every key but the one the database names, and may fail after it did.
LEMMA AlignPreserves ==
    ASSUME KeyInv, alignRing
    PROVE  KeyInv'
<1>1. /\ krUp = "align" /\ krMem = krFile /\ krFile # NoRing
      /\ UNCHANGED <<krVer, krRow, krRot, krSeal, krHalf, krStray>>
      /\ krRot = NoRotation /\ krSeal = NoSeal /\ krVer \in Nat
  BY DEF alignRing, KeyInv, StartInv
<1>2. krVer # 0 /\ FileHoldsKey
  BY <1>1 DEF KeyInv, Unnamed
<1>3. CASE DOMAIN krMem = {krVer}
  <2>1. krUp' = "check" /\ UNCHANGED <<krFile, krMem>>
    BY <1>3 DEF alignRing
  <2> QED
    BY <1>1, <1>2, <1>3, <2>1 DEF KeyInv, FileHoldsKey, StartInv, ServedInv, RotationInv,
                                  SealInv, Opens, NoRotation
<1>4. CASE DOMAIN krMem # {krVer}
  <2> DEFINE one == compactTo(krMem, krVer)
  <2>1. DOMAIN one = {krVer} /\ one[krVer] = krFile[krVer]
    BY <1>1, RingCompacted
  <2>2. /\ krFile' \in {one, krFile}
        /\ \/ krUp' = "down"
           \/ krUp' = "check" /\ krMem' = one /\ krFile' = one
    BY <1>4 DEF alignRing, persist
  <2>3. FileHoldsKey'
    <3> HIDE DEF one
    <3>1. krVer \in DOMAIN krFile' /\ krFile'[krVer] = krFile[krVer]
      BY <1>2, <2>1, <2>2 DEF FileHoldsKey
    <3> QED
      BY <1>1, <1>2, <3>1 DEF FileHoldsKey, Opens
  <2>4. one # NoRing
    BY <2>1, RingEmpty
  <2> HIDE DEF one
  <2> QED
    BY <1>1, <1>2, <2>1, <2>2, <2>3, <2>4 DEF KeyInv, StartInv, ServedInv, RotationInv,
                                              SealInv, NoRotation
<1> QED
  BY <1>3, <1>4

\* checkMasterKey refuses only over a second factor that is astray.
LEMMA CheckPreserves ==
    ASSUME KeyInv, checkMasterKey
    PROVE  KeyInv'
<1>1. /\ krUp = "check" /\ krMem = krFile /\ DOMAIN krMem = {krVer}
      /\ UNCHANGED <<krFile, krMem, krVer, krRow, krRot, krSeal, krHalf, krStray>>
      /\ krRot = NoRotation /\ krSeal = NoSeal /\ krVer \in Nat /\ ~krHalf
  BY DEF checkMasterKey, KeyInv, StartInv
<1>2. krVer # 0 /\ FileHoldsKey
  BY <1>1 DEF KeyInv, Unnamed
<1>3. krUp' = "up" \/ (krUp' = "refused" /\ krStray # {})
  <2>1. CASE FatalRows \intersect DOMAIN krRow # {} /\ ~Opens(krMem, krRow[SampleSealedRow])
    <3>1. SampleSealedRow \in DOMAIN krRow
      BY <2>1 DEF SampleSealedRow
    <3>2. SampleSealedRow \in krStray
      BY <1>1, <1>2, <2>1, <3>1 DEF FileHoldsKey
    <3> QED
      BY <2>1, <3>2 DEF checkMasterKey
  <2>2. CASE ~(FatalRows \intersect DOMAIN krRow # {} /\ ~Opens(krMem, krRow[SampleSealedRow]))
    BY <2>2 DEF checkMasterKey
  <2> QED
    BY <2>1, <2>2
<1>4. FileHoldsKey'
  BY <1>1, <1>2 DEF FileHoldsKey, Opens
<1> QED
  BY <1>1, <1>2, <1>3, <1>4 DEF KeyInv, StartInv, ServedInv, RotationInv, SealInv, NoRotation

\* The process forgets its ring, its rotation and its requests.
LEMMA CrashPreserves ==
    ASSUME KeyInv, Crash
    PROVE  KeyInv'
<1>1. /\ krUp' = "down" /\ krRot' = NoRotation /\ krSeal' = NoSeal /\ ~krHalf'
      /\ UNCHANGED <<krFile, krVer, krRow, krStray>>
  BY DEF Crash
<1>2. FileHoldsKey => FileHoldsKey'
  BY <1>1 DEF FileHoldsKey, Opens
<1> QED
  BY <1>1, <1>2 DEF KeyInv, Unnamed, StartInv, ServedInv, RotationInv, SealInv, NoRotation

------------------------------------------------------------------------------
(* Requests.                                                               *)

\* A request takes the newest key of the ring in memory: the database's, or the
\* one before.
LEMMA TakePreserves ==
    ASSUME KeyInv, activeKey
    PROVE  KeyInv'
<1>1. /\ krUp = "up" /\ UNCHANGED <<krFile, krMem, krVer, krRow, krUp, krRot, krHalf, krStray>>
      /\ krSeal'.sealed = Active(krMem) /\ krVer \in Nat /\ krVer # 0 /\ FileHoldsKey
  BY DEF activeKey, KeyInv, Unnamed
<1>2. \/ Newest(krMem) = krVer /\ krMem[krVer] = krFile[krVer]
      \/ Newest(krMem) = krVer - 1
  <2>1. krVer \in Int /\ krVer - 1 \in Int
    BY <1>1
  <2>2. CASE DOMAIN krMem = {krVer} /\ krMem[krVer] = krFile[krVer]
    BY <2>1, <2>2, NewestOfOne
  <2>3. CASE DOMAIN krMem = {krVer - 1}
    BY <2>1, <2>3, NewestOfOne
  <2> QED
    BY <1>1, <2>2, <2>3 DEF KeyInv, ServedInv
<1>3. SealInv'
  <2>1. Active(krMem).ver = Newest(krMem) /\ Active(krMem).key = krMem[Newest(krMem)]
    BY DEF Active
  <2> QED
    BY <1>1, <1>2, <2>1 DEF SealInv, Opens, FileHoldsKey
<1>4. FileHoldsKey'
  BY <1>1 DEF FileHoldsKey, Opens
<1> QED
  BY <1>1, <1>3, <1>4 DEF KeyInv, StartInv, ServedInv, RotationInv

\* A stored row is sealed under the database's key or goes astray.
LEMMA StorePreserves ==
    ASSUME KeyInv, StoreSealed
    PROVE  KeyInv'
<1>1. /\ krSeal # NoSeal /\ krUp = "up" /\ krVer \in Nat /\ krVer # 0 /\ FileHoldsKey
      /\ UNCHANGED <<krFile, krMem, krVer, krUp, krRot, krHalf>> /\ krSeal' = NoSeal
  BY DEF StoreSealed, KeyInv, Unnamed, StartInv
<1>2. /\ krRow' = [x \in DOMAIN krRow \union {krSeal.row} |->
                     IF x = krSeal.row THEN krSeal.sealed ELSE krRow[x]]
      /\ krStray' = IF krSeal.sealed.ver # krVer THEN krStray \union {krSeal.row}
                    ELSE krStray \ {krSeal.row}
  BY DEF StoreSealed
<1>3. FileHoldsKey'
  <2> SUFFICES ASSUME NEW r \in DOMAIN krRow' \ krStray'
               PROVE  Opens(krFile, krRow'[r]) /\ krRow'[r].ver = krVer
    BY <1>1 DEF FileHoldsKey, Opens
  <2>1. CASE r = krSeal.row
    BY <1>1, <1>2, <2>1 DEF KeyInv, SealInv
  <2>2. CASE r # krSeal.row
    BY <1>1, <1>2, <2>2 DEF FileHoldsKey
  <2> QED
    BY <2>1, <2>2
<1> QED
  BY <1>1, <1>3 DEF KeyInv, StartInv, ServedInv, RotationInv, SealInv

------------------------------------------------------------------------------
(* The rotation.                                                           *)

\* The ring of both keys keeps the database's key, whether its write is
\* reported, refused, or published and reported as an error.
LEMMA RotatePreserves ==
    ASSUME KeyInv, RotateMasterKey, ~krHalf
    PROVE  KeyInv'
<1>1. /\ krUp = "up" /\ krRot = NoRotation /\ krVer \in Nat /\ krVer # 0 /\ FileHoldsKey
      /\ UNCHANGED <<krMem, krVer, krRow, krUp, krSeal, krHalf, krStray>>
  BY DEF RotateMasterKey, KeyInv, Unnamed
<1>2. DOMAIN krMem = {krVer} /\ krMem[krVer] = krFile[krVer]
  BY <1>1 DEF KeyInv, ServedInv, NoRotation
<1> DEFINE two == withNewKey(krMem)
<1>3. DOMAIN two = {krVer, krVer + 1} /\ two[krVer] = krFile[krVer]
  <2>1. krVer \in Int
    BY <1>1
  <2> QED
    BY <1>2, <2>1, RingWithNewKey
<1>4. \/ krRot' = [step |-> "reseal", ring |-> two] /\ krFile' = two
      \/ krRot' = NoRotation /\ krFile' \in {two, krFile}
  BY DEF RotateMasterKey, persist
<1> HIDE DEF two
<1>5. krVer \in DOMAIN krFile' /\ krFile'[krVer] = krFile[krVer]
  BY <1>1, <1>3, <1>4 DEF FileHoldsKey
<1>6. FileHoldsKey' /\ SealInv'
  BY <1>1, <1>5 DEF KeyInv, FileHoldsKey, SealInv, Opens
<1>7. RotationInv' /\ ServedInv' /\ StartInv'
  BY <1>1, <1>2, <1>3, <1>4, <1>5 DEF RotationInv, ServedInv, StartInv, NoRotation
<1> QED
  BY <1>1, <1>6, <1>7 DEF KeyInv

\* The reseal moves every row and the version to the new key at once, or
\* changes nothing.
LEMMA ResealPreserves ==
    ASSUME KeyInv, Reseal
    PROVE  KeyInv'
<1>1. /\ krRot.step = "reseal" /\ krRot.ring = krFile /\ krUp = "up" /\ krVer \in Nat
      /\ krVer # 0 /\ FileHoldsKey /\ DOMAIN krFile = {krVer, krVer + 1} /\ ~krHalf
      /\ UNCHANGED <<krFile, krMem, krUp, krSeal, krHalf>>
  BY DEF Reseal, KeyInv, Unnamed, StartInv, RotationInv, NoRotation
<1>2. DOMAIN krMem = {krVer} /\ krMem[krVer] = krFile[krVer]
  BY <1>1 DEF KeyInv, ServedInv
<1>3. Newest(krFile) = krVer + 1
  BY <1>1, NewestOfTwo
<1>4. CASE \A r \in DOMAIN krRow : resealRow(krRot.ring, krRow[r])
  <2>1. /\ krRow' = [r \in DOMAIN krRow |-> [ver |-> krVer + 1, key |-> krFile[krVer + 1]]]
        /\ krVer' = krVer + 1 /\ krStray' = {}
        /\ krRot' = [step |-> "compact", ring |-> krFile]
    BY <1>1, <1>3, <1>4 DEF Reseal, Resealed, Active
  <2>2. FileHoldsKey'
    BY <1>1, <2>1 DEF FileHoldsKey, Opens
  <2>3. SealInv'
    BY <1>1, <2>1 DEF KeyInv, SealInv
  <2> QED
    BY <1>1, <1>2, <2>1, <2>2, <2>3 DEF KeyInv, StartInv, ServedInv, RotationInv
<1>5. CASE ~\A r \in DOMAIN krRow : resealRow(krRot.ring, krRow[r])
  <2>1. krRot' = NoRotation /\ UNCHANGED <<krRow, krVer, krStray>>
    BY <1>5 DEF Reseal
  <2>2. FileHoldsKey' /\ SealInv'
    BY <1>1, <2>1 DEF KeyInv, FileHoldsKey, SealInv, Opens
  <2> QED
    BY <1>1, <1>2, <2>1, <2>2 DEF KeyInv, StartInv, ServedInv, RotationInv, NoRotation
<1> QED
  BY <1>4, <1>5

\* The compacted ring holds the key the database names by now.
LEMMA CompactPreserves ==
    ASSUME KeyInv, Compact
    PROVE  KeyInv'
<1>1. /\ krRot.step = "compact" /\ krRot.ring = krFile /\ krUp = "up" /\ krVer \in Nat
      /\ krVer # 0 /\ FileHoldsKey /\ DOMAIN krFile = {krVer - 1, krVer} /\ ~krHalf
      /\ UNCHANGED <<krVer, krRow, krUp, krSeal, krStray>> /\ krRot' = NoRotation
  BY DEF Compact, KeyInv, Unnamed, StartInv, RotationInv, NoRotation
<1>2. DOMAIN krMem = {krVer - 1}
  BY <1>1 DEF KeyInv, ServedInv
<1>3. Newest(krFile) = krVer
  <2>1. DOMAIN krFile = {krVer - 1, (krVer - 1) + 1} /\ krVer - 1 \in Int
    BY <1>1
  <2> QED
    BY <1>1, <2>1, NewestOfTwo
<1> DEFINE one == compactTo(krFile, krVer)
<1>4. DOMAIN one = {krVer} /\ one[krVer] = krFile[krVer]
  <2>1. krVer \in Int
    BY <1>1
  <2> QED
    BY <2>1, RingCompacted
<1>5. \/ krFile' = one /\ krMem' = one /\ UNCHANGED krHalf
      \/ krFile' \in {one, krFile} /\ krHalf' = TRUE /\ UNCHANGED krMem
  BY <1>1, <1>3 DEF Compact, persist
<1> HIDE DEF one
<1>6. krVer \in DOMAIN krFile' /\ krFile'[krVer] = krFile[krVer]
  BY <1>1, <1>4, <1>5 DEF FileHoldsKey
<1>7. FileHoldsKey' /\ SealInv'
  BY <1>1, <1>6 DEF KeyInv, FileHoldsKey, SealInv, Opens
<1>8. RotationInv' /\ ServedInv' /\ StartInv'
  BY <1>1, <1>2, <1>4, <1>5 DEF RotationInv, ServedInv, StartInv, NoRotation
<1> QED
  BY <1>1, <1>7, <1>8 DEF KeyInv

------------------------------------------------------------------------------
(* Theorems.                                                               *)

\* Every step of the key ring's life preserves the invariant.
LEMMA KrInvNext == KrInv /\ [KrNext]_krVars => KrInv'
<1> SUFFICES ASSUME KrInv, [KrNext]_krVars PROVE KrInv'
  OBVIOUS
<1>1. CASE UNCHANGED krVars
  BY <1>1 DEF krVars, KrInv, KeyInv, Unnamed, FileHoldsKey, StartInv, ServedInv, RotationInv,
              SealInv, Opens
<1>2. CASE KrNext
  <2>1. krLost' \in BOOLEAN /\ krHalf' \in BOOLEAN /\ (krLost => krLost')
    BY <1>2 DEF KrInv, KrNext, OpenMasterKey, startupKeyState, alignRing, checkMasterKey, Crash,
                activeKey, StoreSealed, RotateMasterKey, Reseal, Compact
  <2> SUFFICES ASSUME ~krLost' PROVE KeyInv'
    BY <2>1 DEF KrInv
  <2>2. KeyInv
    BY <2>1 DEF KrInv
  <2>3. CASE RotateMasterKey
    <3>1. ~krHalf
      BY <2>3 DEF RotateMasterKey, KrInv
    <3> QED
      BY <2>2, <2>3, <3>1, RotatePreserves
  <2> QED
    BY <1>2, <2>2, <2>3, OpenPreserves, StatePreserves, AlignPreserves, CheckPreserves,
       CrashPreserves, TakePreserves, StorePreserves, ResealPreserves, CompactPreserves DEF KrNext
<1> QED
  BY <1>1, <1>2

\* The key ring's invariant holds in every reachable state.
THEOREM KeyRingInvariant == KrSpec => []KrInv
BY KeyInvInit, KrInvNext, PTL DEF KrSpec

\* A rotation is recoverable wherever it stops, through any number of rotations,
\* crashes and failed writes of the key file (rotate.go, keystate.go): the file
\* holds the key of every committed row that a request did not store astray, and
\* no start is refused but for such a row.
THEOREM RotationsRecoverable == KrSpec => []RotationRecoverable
<1>1. KrInv => RotationRecoverable
  <2> SUFFICES ASSUME KeyInv
               PROVE  /\ \A r \in DOMAIN krRow \ krStray : Opens(krFile, krRow[r])
                      /\ krUp = "refused" => krStray # {}
    BY DEF KrInv, RotationRecoverable
  <2> QED
    BY DEF KeyInv, Unnamed, FileHoldsKey, StartInv
<1> QED
  BY <1>1, KeyRingInvariant, PTL

------------------------------------------------------------------------------
(***************************************************************************)
(* The limiter lets through what it should, for any clients and requests,  *)
(* any cap, and any limits an operator sets while requests are inside.     *)
(***************************************************************************)

\* What the theorems ask of the constants: the map has room for a bucket, and
\* the limits are integers with a bound, as the settings' are.
LmConstants ==
    /\ LimiterCap \in Nat \ {0} /\ LmMaxClock \in Nat
    /\ LimitChoices \subseteq [rate : Int, burst : Int] /\ LimitChoices # {}
    /\ \E bound \in Nat : \A l \in LimitChoices : l.rate <= bound /\ l.burst <= bound

------------------------------------------------------------------------------
(* The inductive invariant.                                                *)

\* The limits in force are some the operator set, clamped; a call inside has
\* read a time that has been.
CallsInv ==
    /\ lmNow \in 0 .. LmMaxClock
    /\ lmLimits \in {SetLimits(l) : l \in LimitChoices}
    /\ \A c \in LmCallers : lmCall[c].pc = "lock" =>
          lmCall[c].key \in LmClients /\ lmCall[c].now \in 0 .. lmNow
    /\ lmCall = [c \in LmCallers |-> lmCall[c]]

Buckets == [tokens : Nat, last : Nat, born : Nat, spent : Nat]

\* What a bucket has given out and what it still holds came from its first
\* burst and from its rate, for the time up to its last refill.
Earned(b) ==
    /\ b \in Buckets /\ b.born <= b.last
    /\ b.spent + b.tokens <= TopBurst + TopRate * (b.last - b.born)

BucketsInv ==
    /\ DOMAIN lmBuckets \subseteq LmClients
    /\ \A k \in DOMAIN lmBuckets : Earned(lmBuckets[k]) /\ lmBuckets[k].last <= lmNow

MapInv == IsFiniteSet(DOMAIN lmBuckets) /\ Cardinality(DOMAIN lmBuckets) <= LimiterCap

LmInv == CallsInv /\ BucketsInv /\ MapInv

------------------------------------------------------------------------------
(* Limits.                                                                 *)

\* Every set of naturals that is not empty has a least element.
LEMMA LeastNatural ==
    ASSUME NEW T, T \subseteq Nat, T # {}
    PROVE  \E x \in T : \A y \in T : x <= y
<1>1. PICK R : IsWellFoundedOn(R, Nat) /\ \A x, y \in Nat : <<y, x>> \in R <=> y < x
  <2>1. \A x, y \in Nat : <<y, x>> \in OpToRel(<, Nat) <=> y < x
    BY DEF OpToRel
  <2> QED
    BY <2>1, NatLessThanWellFounded, Zenon
<1>2. PICK x \in T : \A y \in T : ~(<<y, x>> \in R)
  BY <1>1, WFMin
<1>3. \A y \in T : ~(y < x)
  BY <1>1, <1>2, Zenon
<1>4. \A y \in T : x <= y
  BY <1>3
<1> QED
  BY <1>4

\* One that is bounded has a greatest: its least upper bound.
LEMMA GreatestNatural ==
    ASSUME NEW S, S \subseteq Nat, S # {}, NEW bound \in Nat, \A n \in S : n <= bound
    PROVE  \E x \in S : \A n \in S : n <= x
<1> DEFINE T == {u \in Nat : \A n \in S : n <= u}
<1>1. PICK x \in T : \A y \in T : x <= y
  <2>1. T \subseteq Nat
    OBVIOUS
  <2>2. bound \in T
    OBVIOUS
  <2> HIDE DEF T
  <2> QED
    BY <2>1, <2>2, LeastNatural
<1>2. x \in S
  <2> SUFFICES ASSUME x \notin S PROVE FALSE
    OBVIOUS
  <2>1. \A n \in S : n < x
    BY <1>1
  <2>2. x \in Nat /\ x # 0
    <3>1. PICK n \in S : TRUE
      OBVIOUS
    <3>2. n \in Nat /\ n < x /\ x \in Nat
      BY <2>1, <3>1
    <3> QED
      BY <3>2
  <2>3. x - 1 \in Nat /\ \A n \in S : n <= x - 1
    BY <2>1, <2>2
  <2> QED
    BY <1>1, <2>2, <2>3
<1> QED
  BY <1>1, <1>2

\* The limits SetLimits leaves in force are at least one and at most the highest.
LEMMA LimitFacts ==
    ASSUME LmConstants
    PROVE  /\ TopRate \in Nat /\ TopBurst \in Nat
           /\ \A l \in LimitChoices :
                /\ SetLimits(l).rate \in Nat /\ SetLimits(l).rate <= TopRate
                /\ SetLimits(l).burst \in Nat /\ SetLimits(l).burst <= TopBurst
<1>1. PICK bound \in Nat : \A l \in LimitChoices : l.rate <= bound /\ l.burst <= bound
  BY DEF LmConstants
<1>2. \A l \in LimitChoices :
         /\ SetLimits(l).rate \in Nat /\ SetLimits(l).rate <= bound + 1
         /\ SetLimits(l).burst \in Nat /\ SetLimits(l).burst <= bound + 1
  BY <1>1 DEF LmConstants, SetLimits, AtLeastOne
<1> DEFINE rates == {SetLimits(l).rate : l \in LimitChoices}
           bursts == {SetLimits(l).burst : l \in LimitChoices}
<1>3. rates \subseteq Nat /\ rates # {} /\ \A n \in rates : n <= bound + 1
  BY <1>2 DEF LmConstants
<1>4. bursts \subseteq Nat /\ bursts # {} /\ \A n \in bursts : n <= bound + 1
  BY <1>2 DEF LmConstants
<1>5. bound + 1 \in Nat
  OBVIOUS
<1>6. \E x \in rates : \A n \in rates : n <= x
  <2> HIDE DEF rates
  <2> QED
    BY <1>3, <1>5, GreatestNatural
<1>7. \E x \in bursts : \A n \in bursts : n <= x
  <2> HIDE DEF bursts
  <2> QED
    BY <1>4, <1>5, GreatestNatural
<1>8. TopRate \in rates /\ \A l \in LimitChoices : SetLimits(l).rate <= TopRate
  BY <1>6 DEF TopRate
<1>9. TopBurst \in bursts /\ \A l \in LimitChoices : SetLimits(l).burst <= TopBurst
  BY <1>7 DEF TopBurst
<1> QED
  BY <1>2, <1>3, <1>4, <1>8, <1>9

\* The limits in force are among them.
LEMMA InForce ==
    ASSUME LmConstants, CallsInv
    PROVE  /\ lmLimits.rate \in Nat /\ lmLimits.rate <= TopRate
           /\ lmLimits.burst \in Nat /\ lmLimits.burst <= TopBurst
BY LimitFacts DEF CallsInv

------------------------------------------------------------------------------
(* A bucket.                                                               *)

\* A higher rate adds no less, and what two stretches of time add is what the
\* whole adds.
LEMMA RateAdds ==
    ASSUME NEW r \in Nat, NEW top \in Nat, r <= top, NEW a \in Int, NEW b \in Int, NEW c \in Int,
           a <= b, b <= c
    PROVE  top * (b - a) + (c - b) * r <= top * (c - a)
<1>1. \A d \in Nat : d * r <= d * top
  <2> SUFFICES ASSUME NEW d \in Nat PROVE d * r <= d * top
    OBVIOUS
  <2>1. PICK e \in Nat : top = r + e
    BY top - r \in Nat
  <2>2. d * top = d * r + d * e /\ d * e >= 0
    BY <2>1
  <2> QED
    BY <2>2
<1>2. (c - b) * r <= (c - b) * top
  BY <1>1
<1>3. top * (c - a) = top * (b - a) + (c - b) * top
  OBVIOUS
<1> QED
  BY <1>2, <1>3

\* Refill moves an earned bucket to an earned one, and its time forward only.
LEMMA RefillEarned ==
    ASSUME LmConstants, CallsInv, NEW b, Earned(b), NEW now \in Nat
    PROVE  /\ Earned(Refill(b, now))
           /\ Refill(b, now).last = (IF now <= b.last THEN b.last ELSE now)
<1> DEFINE gained == b.tokens + (now - b.last) * lmLimits.rate
           left == IF gained > lmLimits.burst THEN lmLimits.burst ELSE gained
<1>1. /\ b.tokens \in Nat /\ b.last \in Nat /\ b.born \in Nat /\ b.spent \in Nat
      /\ b.born <= b.last /\ b \in Buckets
      /\ b.spent + b.tokens <= TopBurst + TopRate * (b.last - b.born)
  BY DEF Earned, Buckets
<1>2. /\ lmLimits.rate \in Nat /\ lmLimits.rate <= TopRate /\ lmLimits.burst \in Nat
      /\ TopRate \in Nat /\ TopBurst \in Nat
  BY InForce, LimitFacts
<1>3. CASE now <= b.last
  BY <1>3 DEF Refill
<1>4. CASE ~(now <= b.last)
  <2>1. Refill(b, now) = [b EXCEPT !.tokens = left, !.last = now]
    BY <1>4 DEF Refill
  <2>2. (now - b.last) * lmLimits.rate \in Nat
    BY <1>1, <1>2, <1>4
  <2>3. left \in Nat /\ left <= gained
    BY <1>1, <1>2, <2>2
  <2>4. TopRate * (b.last - b.born) + (now - b.last) * lmLimits.rate <= TopRate * (now - b.born)
    BY <1>1, <1>2, <1>4, RateAdds
  <2>5. /\ TopRate * (b.last - b.born) \in Int /\ TopRate * (now - b.born) \in Int
    BY <1>1, <1>2
  <2>6. b.spent + left <= TopBurst + TopRate * (now - b.born)
    BY <1>1, <1>2, <2>2, <2>3, <2>4, <2>5
  <2> HIDE DEF left
  <2>7. /\ Refill(b, now) \in Buckets /\ Refill(b, now).tokens = left
        /\ Refill(b, now).last = now /\ Refill(b, now).born = b.born
        /\ Refill(b, now).spent = b.spent
    BY <1>1, <2>1, <2>3 DEF Buckets
  <2> QED
    BY <1>1, <1>4, <2>6, <2>7 DEF Earned
<1> QED
  BY <1>3, <1>4

\* A charge moves one from what is held to what is spent, or nothing.
LEMMA ChargeEarned ==
    ASSUME LmConstants, NEW b, Earned(b)
    PROVE  Earned(Charge(b)) /\ Charge(b).last = b.last
<1>1. /\ b.tokens \in Nat /\ b.last \in Nat /\ b.born \in Nat /\ b.spent \in Nat /\ b \in Buckets
      /\ TopRate \in Nat /\ TopBurst \in Nat
  BY LimitFacts DEF Earned, Buckets
<1>2. CASE b.tokens < 1
  BY <1>2 DEF Charge
<1>3. CASE ~(b.tokens < 1)
  <2>1. Charge(b) = [b EXCEPT !.tokens = b.tokens - 1, !.spent = b.spent + 1]
    BY <1>3 DEF Charge
  <2>2. /\ Charge(b) \in Buckets /\ Charge(b).tokens = b.tokens - 1
        /\ Charge(b).spent = b.spent + 1 /\ Charge(b).last = b.last /\ Charge(b).born = b.born
    <3> DEFINE t == b.tokens - 1
               n == b.spent + 1
    <3>1. t \in Nat /\ n \in Nat
      BY <1>1, <1>3
    <3>2. Charge(b) = [b EXCEPT !.tokens = t, !.spent = n]
      BY <2>1
    <3> HIDE DEF t, n
    <3>3. /\ Charge(b) \in Buckets /\ Charge(b).tokens = t /\ Charge(b).spent = n
          /\ Charge(b).last = b.last /\ Charge(b).born = b.born
      BY <1>1, <3>1, <3>2 DEF Buckets
    <3> QED
      BY <3>3 DEF t, n
  <2>3. TopRate * (b.last - b.born) \in Int
    BY <1>1
  <2> QED
    BY <1>1, <2>2, <2>3 DEF Earned
<1> QED
  BY <1>2, <1>3

\* A new bucket has earned its burst.
LEMMA FreshEarned ==
    ASSUME LmConstants, CallsInv, NEW now \in Nat
    PROVE  Earned([tokens |-> lmLimits.burst, last |-> now, born |-> now, spent |-> 0])
<1>1. lmLimits.burst \in Nat /\ lmLimits.burst <= TopBurst /\ TopRate \in Nat /\ TopBurst \in Nat
  BY InForce, LimitFacts
<1>2. TopRate * (now - now) = 0
  BY <1>1
<1> QED
  BY <1>1, <1>2 DEF Earned, Buckets

------------------------------------------------------------------------------
(* Steps.                                                                  *)

\* A new limiter has no buckets and nobody inside.
LEMMA LmInvInit ==
    ASSUME LmConstants
    PROVE  LmInit => LmInv
<1> SUFFICES ASSUME LmInit PROVE LmInv
  OBVIOUS
<1>1. DOMAIN lmBuckets = {}
  BY DEF LmInit
<1>2. MapInv
  BY <1>1, FS_EmptySet DEF MapInv, LmConstants
<1>3. CallsInv
  BY DEF LmInit, CallsInv, LmConstants, LmIdle
<1> QED
  BY <1>1, <1>2, <1>3 DEF LmInv, BucketsInv

\* Allow, under the lock: the map stays within its cap and every bucket earned.
LEMMA AllowPreserves ==
    ASSUME LmConstants, LmInv, NEW c \in LmCallers, Allow(c)
    PROVE  LmInv'
<1> DEFINE k == lmCall[c].key
           now == lmCall[c].now
           isNew == k \notin DOMAIN lmBuckets
           newcomer == [tokens |-> lmLimits.burst, last |-> now, born |-> now, spent |-> 0]
           b == Refill(IF isNew THEN newcomer ELSE lmBuckets[k], now)
           full == isNew /\ Cardinality(DOMAIN lmBuckets) >= LimiterCap
<1>1. /\ lmCall[c].pc = "lock" /\ lmCall' = [lmCall EXCEPT ![c] = LmIdle]
      /\ UNCHANGED <<lmNow, lmLimits, lmLeft>>
  BY DEF Allow
<1>2. PICK gone \in evictOne(full) :
        lmBuckets' = [x \in DOMAIN Restrict(lmBuckets, DOMAIN lmBuckets \ gone) \cup {k} |->
                        IF x = k THEN Charge(b)
                        ELSE Restrict(lmBuckets, DOMAIN lmBuckets \ gone)[x]]
  BY DEF Allow
<1>3. k \in LmClients /\ now \in Nat /\ now <= lmNow /\ lmNow \in Nat
  BY <1>1 DEF LmInv, CallsInv, LmConstants
<1>4. CallsInv'
  BY <1>1 DEF LmInv, CallsInv, LmIdle
<1>5. Earned(b) /\ b.last <= lmNow
  <2> DEFINE old == IF isNew THEN newcomer ELSE lmBuckets[k]
  <2>1. Earned(old) /\ old.last <= lmNow /\ old.last \in Nat
    <3>1. CASE isNew
      <4>1. Earned(newcomer)
        BY <1>3, FreshEarned DEF LmInv
      <4> QED
        BY <1>3, <3>1, <4>1
    <3>2. CASE ~isNew
      BY <3>2 DEF LmInv, BucketsInv, Earned, Buckets
    <3> QED
      BY <3>1, <3>2
  <2>2. CallsInv
    BY DEF LmInv
  <2> HIDE DEF old, now
  <2>3. /\ Earned(Refill(old, now))
        /\ Refill(old, now).last = (IF now <= old.last THEN old.last ELSE now)
    BY <1>3, <2>1, <2>2, RefillEarned
  <2>4. Refill(old, now).last <= lmNow
    BY <1>3, <2>1, <2>3
  <2> QED
    BY <2>3, <2>4 DEF old, now
<1> HIDE DEF b
<1>6. Earned(Charge(b)) /\ Charge(b).last <= lmNow
  BY <1>5, ChargeEarned
<1>7. /\ DOMAIN lmBuckets' = (DOMAIN lmBuckets \ gone) \cup {k} /\ lmBuckets'[k] = Charge(b)
      /\ \A x \in DOMAIN lmBuckets \ gone : x # k => lmBuckets'[x] = lmBuckets[x]
  BY <1>2 DEF Restrict
<1> HIDE DEF k
<1>8. BucketsInv'
  BY <1>1, <1>3, <1>6, <1>7 DEF LmInv, BucketsInv
<1>9. MapInv'
  <2> DEFINE D == DOMAIN lmBuckets
  <2>0. IsFiniteSet(D) /\ Cardinality(D) <= LimiterCap /\ Cardinality(D) \in Nat
        /\ LimiterCap \in Nat
    BY FS_CardinalityType DEF LmInv, MapInv, LmConstants
  <2>1. CASE full
    <3>1. PICK g \in D : gone = {g}
      BY <1>2, <2>1 DEF evictOne
    <3>2. k \notin D \ {g} /\ DOMAIN lmBuckets' = (D \ {g}) \cup {k}
      BY <1>7, <2>1, <3>1
    <3> HIDE DEF D
    <3>3. IsFiniteSet(D \ {g}) /\ Cardinality(D \ {g}) = Cardinality(D) - 1
      BY <2>0, <3>1, FS_RemoveElement
    <3>4. /\ IsFiniteSet((D \ {g}) \cup {k})
          /\ Cardinality((D \ {g}) \cup {k}) = Cardinality(D \ {g}) + 1
      BY <3>2, <3>3, FS_AddElement
    <3> QED
      BY <2>0, <3>2, <3>3, <3>4 DEF MapInv
  <2>2. CASE ~full
    <3>1. DOMAIN lmBuckets' = D \cup {k}
      BY <1>2, <1>7, <2>2 DEF evictOne
    <3>2. k \notin D => Cardinality(D) < LimiterCap
      BY <2>0, <2>2
    <3> HIDE DEF D
    <3>3. /\ IsFiniteSet(D \cup {k})
          /\ Cardinality(D \cup {k}) = IF k \in D THEN Cardinality(D) ELSE Cardinality(D) + 1
      BY <2>0, FS_AddElement
    <3> QED
      BY <2>0, <3>1, <3>2, <3>3 DEF MapInv
  <2> QED
    BY <2>1, <2>2
<1> QED
  BY <1>4, <1>8, <1>9 DEF LmInv

\* Every step preserves the invariant.
LEMMA LmInvNext ==
    ASSUME LmConstants
    PROVE  LmInv /\ [LmNext]_lmVars => LmInv'
<1> SUFFICES ASSUME LmInv, [LmNext]_lmVars PROVE LmInv'
  OBVIOUS
<1>1. ASSUME NEW c \in LmCallers, ReadClock(c) PROVE LmInv'
  <2>1. /\ UNCHANGED <<lmNow, lmLimits, lmBuckets>>
        /\ \E k \in LmClients :
             lmCall' = [lmCall EXCEPT ![c] = [pc |-> "lock", key |-> k, now |-> lmNow]]
    BY <1>1 DEF ReadClock
  <2>2. CallsInv'
    BY <2>1 DEF LmInv, CallsInv, LmConstants
  <2> QED
    BY <2>1, <2>2 DEF LmInv, BucketsInv, MapInv
<1>2. ASSUME NEW c \in LmCallers, Allow(c) PROVE LmInv'
  BY <1>2, AllowPreserves
<1>3. CASE ApplyLimits
  BY <1>3 DEF ApplyLimits, LmInv, CallsInv, BucketsInv, MapInv
<1>4. CASE LmTick
  <2>1. lmNow' \in 0 .. LmMaxClock /\ lmNow <= lmNow' /\ lmNow \in Nat
    BY <1>4 DEF LmTick, LmInv, CallsInv, LmConstants
  <2>2. UNCHANGED <<lmLimits, lmBuckets, lmCall>>
    BY <1>4 DEF LmTick
  <2>3. CallsInv'
    BY <2>1, <2>2 DEF LmInv, CallsInv
  <2>4. BucketsInv'
    BY <2>1, <2>2 DEF LmInv, BucketsInv, Earned, Buckets
  <2> QED
    BY <2>2, <2>3, <2>4 DEF LmInv, MapInv
<1>5. CASE UNCHANGED lmVars
  BY <1>5 DEF lmVars, LmInv, CallsInv, BucketsInv, MapInv
<1> QED
  BY <1>1, <1>2, <1>3, <1>4, <1>5 DEF LmNext

------------------------------------------------------------------------------
(* Theorems.                                                               *)

\* The limiter's invariant holds in every reachable state.
THEOREM LimiterInvariant ==
    ASSUME LmConstants
    PROVE  LmSpec => []LmInv
BY LmInvInit, LmInvNext, PTL DEF LmSpec

\* A bucket never lets through more than a burst and what the highest rate adds
\* in its life, in whatever order calls with older clock readings enter the lock
\* (Allow) and however the limits change meanwhile (SetLimits).
THEOREM LimiterHolds ==
    ASSUME LmConstants
    PROVE  LmSpec => []LimiterBound
<1>1. LmInv => LimiterBound
  <2> SUFFICES ASSUME LmInv, NEW k \in DOMAIN lmBuckets
               PROVE  lmBuckets[k].spent <= TopBurst + TopRate * (lmNow - lmBuckets[k].born)
    BY DEF LimiterBound
  <2> DEFINE b == lmBuckets[k]
  <2>1. /\ b.tokens \in Nat /\ b.last \in Nat /\ b.born \in Nat /\ b.spent \in Nat
        /\ b.born <= b.last /\ b.last <= lmNow /\ lmNow \in Nat
        /\ b.spent + b.tokens <= TopBurst + TopRate * (b.last - b.born)
    BY DEF LmInv, CallsInv, BucketsInv, Earned, Buckets, LmConstants
  <2>2. TopRate \in Nat /\ TopBurst \in Nat /\ 0 \in Nat /\ 0 <= TopRate
    BY LimitFacts
  <2> HIDE DEF b
  <2>3. TopRate * (b.last - b.born) + (lmNow - b.last) * 0 <= TopRate * (lmNow - b.born)
    BY <2>1, <2>2, RateAdds
  <2>4. TopRate * (b.last - b.born) \in Int /\ TopRate * (lmNow - b.born) \in Int
        /\ (lmNow - b.last) * 0 = 0
    BY <2>1, <2>2
  <2>5. b.spent <= TopBurst + TopRate * (lmNow - b.born)
    BY <2>1, <2>2, <2>3, <2>4
  <2> QED
    BY <2>5 DEF b
<1> QED
  BY <1>1, LimiterInvariant, PTL

\* The map of buckets never outgrows its cap (evictOne).
THEOREM LimiterStaysBounded ==
    ASSUME LmConstants
    PROVE  LmSpec => []LimiterBounded
<1>1. LmInv => LimiterBounded
  BY DEF LmInv, MapInv, LimiterBounded
<1> QED
  BY <1>1, LimiterInvariant, PTL

------------------------------------------------------------------------------
(***************************************************************************)
(* Public links: the cap on downloads holds, and a visitor is handed only  *)
(* what the owner shared, for any number of visitors, links asked for,     *)
(* edits, folders and passwords.  A request works on the row it read when  *)
(* it began, so the argument is about what it may still conclude from it:  *)
(* which changes of the folder and of the password it has been marked      *)
(* with, and that a link it holds was not made again behind its back.      *)
(***************************************************************************)

\* What the theorems ask of the constants: finitely many visitors, and asks
\* in the form the handlers take them.
LkConstants ==
    /\ IsFiniteSet(Visits)
    /\ MaxObj \in Nat \ {0} /\ MaxPw \in Nat /\ MaxClock \in Nat \ {0}
    /\ LinkSpecs \subseteq [perms : SUBSET Perms, pw : 0 .. MaxPw, exp : 0 .. MaxClock,
                            max : {Unlimited} \cup Nat]
    /\ Surfaces \subseteq [op : {"get", "zip", "drop"}, sub : {"root", "child"}]
    /\ Patches \subseteq [field : {"perms"}, to : SUBSET Perms]
                         \cup [field : {"pw"}, to : 0 .. MaxPw]
                         \cup [field : {"max"}, to : {Unlimited} \cup Nat]

------------------------------------------------------------------------------
(* The inductive invariant.                                                *)

Marks == SUBSET {"pw", "moved"}
Tickets == [hash : 0 .. MaxPw, gave : 0 .. MaxPw, exp : Nat, late : BOOLEAN]
Editing == [at : {"update"}, patch : Patches, during : Marks]
Unlocking == [at : {"verify", "mint"}, guess : 1 .. MaxPw, exp : 0 .. MaxClock, during : Marks]
VisitSteps == {"gate", "open", "pay", "send", "drop"}
Visiting == [at : VisitSteps, op : {"get", "zip", "drop"},
             sub : {"root", "child"}, link : LinkRow, proof : Tickets, got : Nat,
             acl : {TRUE}, during : Marks]

LinkRequests == {Idle} \cup Editing \cup Unlocking \cup Visiting

LinkTypes ==
    /\ lkRow \in LinkRow \cup {NoLink}
    /\ lkObj \in 0 .. MaxObj /\ lkGen \in 1 .. MaxObj /\ lkClock \in 1 .. MaxClock
    /\ lkFile \in Visits \cup {NoFile} /\ lkGrant \subseteq Perms \cup {"Share"}
    /\ lkCookie \in Tickets /\ lkSent \in Nat /\ lkTopCap \in {Unlimited} \cup Nat
    /\ lkReq \in [Visits -> LinkRequests]

\* Under a cap, every body sent or about to be sent has been counted in the
\* row, and the count is within the largest cap even when the row is gone.
Sending == {h \in Visits : lkReq[h].at = "send"}
CountInv ==
    lkTopCap # Unlimited =>
      /\ lkSent + Cardinality(Sending) <= lkTopCap
      /\ lkRow # NoLink => /\ lkRow.max # Unlimited /\ lkRow.max <= lkTopCap
                           /\ lkRow.downs <= lkTopCap
                           /\ lkSent + Cardinality(Sending) <= lkRow.downs

\* A ticket is for the password its visitor gave, unless the password was set
\* while it was being made.
Honest(t) == t.gave = t.hash \/ t.late

\* What a request may still conclude from the row it read, by its place.  It
\* met a link that had room, so the link is not one that can be made again; the
\* password and the folder are what it read unless it has been marked; past
\* the gate its proof is for the password it read.
RequestOK(q) ==
    /\ q.at \notin {"idle", "update"} => lkTopCap # 0
    /\ q.at \in VisitSteps => Honest(q.proof)
    /\ q.at = "mint" /\ "pw" \notin q.during /\ lkRow # NoLink /\ lkRow.pw # 0
         => q.guess = lkRow.pw
    /\ q.at = "gate" /\ "pw" \notin q.during /\ lkRow # NoLink => lkRow.pw = q.link.pw
    /\ q.at \in {"gate", "open"} /\ q.link.pin # 0 /\ lkObj # q.link.pin => "moved" \in q.during
    /\ q.at \in {"pay", "send", "drop"} /\ q.link.pin # 0 /\ q.got # q.link.pin
         => "moved" \in q.during
    /\ q.at \in {"open", "pay", "send", "drop"} /\ q.link.pw # 0 /\ "pw" \notin q.during
         => q.proof.hash = q.link.pw
RequestsInv == Honest(lkCookie) /\ \A h \in Visits : RequestOK(lkReq[h])

LkInv == LinkTypes /\ CountInv /\ RequestsInv

------------------------------------------------------------------------------
(* Requests and their count.                                               *)

\* A row is told from no row.
LEMMA RowIsLink ==
    ASSUME NEW r \in LinkRow
    PROVE  r # NoLink
<1>1. "max" \in DOMAIN r
  BY DEF LinkRow
<1>2. DOMAIN NoLink = {"perms"}
  BY DEF NoLink
<1> QED
  BY <1>1, <1>2

\* A request is idle or of one of three kinds, told apart by its place.
LEMMA PlaceOfKind ==
    /\ Idle.at = "idle"
    /\ \A q \in Editing : q.at = "update"
    /\ \A q \in Unlocking : q.at \in {"verify", "mint"}
    /\ \A q \in Visiting : q.at \in VisitSteps
BY DEF Idle, Editing, Unlocking, Visiting

LEMMA KindByPlace ==
    ASSUME NEW q \in LinkRequests
    PROVE  /\ q.at = "idle" <=> q = Idle
           /\ q.at = "update" <=> q \in Editing
           /\ q.at \in {"verify", "mint"} <=> q \in Unlocking
           /\ q.at \in VisitSteps <=> q \in Visiting
           /\ q.at \in {"idle", "update", "verify", "mint"} \cup VisitSteps
<1>1. /\ {"idle"} \cap ({"update", "verify", "mint"} \cup VisitSteps) = {}
      /\ "update" \notin VisitSteps /\ {"verify", "mint"} \cap VisitSteps = {}
  BY DEF VisitSteps
<1> QED
  BY <1>1, PlaceOfKind DEF LinkRequests

\* Note adds its mark to every request in flight and changes nothing else of it.
MarkedAs(q, n, w) ==
    /\ n \in LinkRequests /\ n.at = q.at
    /\ q \in Unlocking => n.guess = q.guess /\ n.during = q.during \cup {w}
    /\ q \in Visiting => /\ n.during = q.during \cup {w} /\ n.link = q.link
                         /\ n.proof = q.proof /\ n.got = q.got

LEMMA MarkOne ==
    ASSUME NEW q \in LinkRequests, NEW w \in {"pw", "moved"}
    PROVE  MarkedAs(q, IF q = Idle THEN Idle ELSE [q EXCEPT !.during = @ \cup {w}], w)
<1> DEFINE n == [q EXCEPT !.during = @ \cup {w}]
<1>1. CASE q = Idle
  BY <1>1, KindByPlace, PlaceOfKind DEF MarkedAs, LinkRequests, VisitSteps
<1>2. CASE q \in Editing
  <2>1. n \in Editing
    BY <1>2 DEF Editing, Marks
  <2>2. q # Idle /\ q \notin Unlocking /\ q \notin Visiting
    BY <1>2, KindByPlace, PlaceOfKind DEF VisitSteps
  <2> QED
    BY <1>2, <2>1, <2>2, PlaceOfKind DEF MarkedAs, LinkRequests
<1>3. CASE q \in Unlocking
  <2>1. n \in Unlocking /\ n.at = q.at /\ n.guess = q.guess /\ n.during = q.during \cup {w}
    BY <1>3 DEF Unlocking, Marks
  <2>2. q # Idle /\ q \notin Visiting
    BY <1>3, KindByPlace, PlaceOfKind DEF VisitSteps
  <2> QED
    BY <2>1, <2>2 DEF MarkedAs, LinkRequests
<1>4. CASE q \in Visiting
  <2>1. /\ n \in Visiting /\ n.at = q.at /\ n.during = q.during \cup {w}
        /\ n.link = q.link /\ n.proof = q.proof /\ n.got = q.got
    BY <1>4 DEF Visiting, Marks
  <2>2. q # Idle /\ q \notin Unlocking
    BY <1>4, KindByPlace, PlaceOfKind DEF VisitSteps
  <2> QED
    BY <2>1, <2>2 DEF MarkedAs, LinkRequests
<1> QED
  BY <1>1, <1>2, <1>3, <1>4 DEF LinkRequests

LEMMA NoteMarks ==
    ASSUME LinkTypes, NEW w \in {"pw", "moved"}, NEW h \in Visits
    PROVE  MarkedAs(lkReq[h], Note(w)[h], w)
<1>1. lkReq[h] \in LinkRequests
  BY DEF LinkTypes
<1>2. Note(w)[h] = IF lkReq[h] = Idle THEN Idle ELSE [lkReq[h] EXCEPT !.during = @ \cup {w}]
  BY DEF Note
<1> QED
  BY <1>1, <1>2, MarkOne

\* How the number of bodies about to be sent moves with one request.
LEMMA SendingCount ==
    ASSUME LkConstants, LinkTypes, NEW h \in Visits
    PROVE  /\ IsFiniteSet(Sending) /\ Cardinality(Sending) \in Nat
           /\ h \in Sending => Cardinality(Sending \ {h}) = Cardinality(Sending) - 1
           /\ h \notin Sending => Cardinality(Sending \cup {h}) = Cardinality(Sending) + 1
<1>1. IsFiniteSet(Sending)
  BY FS_Subset DEF LkConstants, Sending
<1> QED
  BY <1>1, FS_CardinalityType, FS_RemoveElement, FS_AddElement

\* The count stays when the same requests are about to send.
LEMMA SendingSame ==
    ASSUME \A h \in Visits : lkReq'[h].at = "send" <=> lkReq[h].at = "send"
    PROVE  Sending' = Sending
BY DEF Sending

\* One request moves on, and neither folder, cap nor password changes.
LEMMA OneMovesOn ==
    ASSUME LkInv, NEW h \in Visits, NEW r \in LinkRequests,
           lkReq' = [lkReq EXCEPT ![h] = r],
           UNCHANGED <<lkObj, lkTopCap>>,
           lkRow' = NoLink <=> lkRow = NoLink, lkRow # NoLink => lkRow'.pw = lkRow.pw,
           RequestOK(r)
    PROVE  /\ lkReq' \in [Visits -> LinkRequests]
           /\ \A g \in Visits : RequestOK(lkReq[g])'
           /\ \A g \in Visits : lkReq'[g] = IF g = h THEN r ELSE lkReq[g]
<1>1. lkReq \in [Visits -> LinkRequests]
  BY DEF LkInv, LinkTypes
<1>2. \A g \in Visits : lkReq'[g] = IF g = h THEN r ELSE lkReq[g]
  BY <1>1
<1>3. ASSUME NEW g \in Visits PROVE RequestOK(lkReq[g])'
  <2>1. RequestOK(lkReq[g])
    BY DEF LkInv, RequestsInv
  <2> QED
    BY <1>2, <2>1 DEF RequestOK, Honest
<1> QED
  BY <1>1, <1>2, <1>3

\* The same, when it moves to or from no place but those before the send.
LEMMA VisitorMovesOn ==
    ASSUME LkInv, NEW h \in Visits, NEW r \in LinkRequests,
           lkReq' = [lkReq EXCEPT ![h] = r],
           lkReq[h].at # "send", r.at # "send",
           UNCHANGED visitVars,
           RequestOK(r)
    PROVE  LkInv'
<1>1. /\ lkReq' \in [Visits -> LinkRequests]
      /\ \A g \in Visits : RequestOK(lkReq[g])'
      /\ \A g \in Visits : lkReq'[g] = IF g = h THEN r ELSE lkReq[g]
  BY OneMovesOn DEF visitVars
<1>2. LinkTypes'
  BY <1>1 DEF LkInv, LinkTypes, visitVars, LinkRow
<1>3. Sending' = Sending
  BY <1>1, SendingSame
<1>4. CountInv'
  BY <1>3 DEF LkInv, CountInv, visitVars
<1>5. RequestsInv'
  BY <1>1 DEF LkInv, RequestsInv, visitVars, Honest
<1> QED
  BY <1>2, <1>4, <1>5 DEF LkInv

\* An answered request holds nothing.
LEMMA IdleOK == Idle \in LinkRequests /\ Idle.at = "idle" /\ RequestOK(Idle)
BY DEF LinkRequests, Idle, RequestOK, VisitSteps

------------------------------------------------------------------------------
(* Requests that only move on.                                             *)

\* Facts about a request from its place, with the types of what it holds.
LEMMA VisitHolds ==
    ASSUME LkInv, NEW h \in Visits
    PROVE  /\ lkReq[h] \in LinkRequests /\ RequestOK(lkReq[h])
           /\ lkReq[h].at \in VisitSteps => lkReq[h] \in Visiting
           /\ lkReq[h].at \in {"verify", "mint"} => lkReq[h] \in Unlocking
           /\ lkReq[h].at = "update" => lkReq[h] \in Editing
<1>1. lkReq[h] \in LinkRequests /\ RequestOK(lkReq[h])
  BY DEF LkInv, LinkTypes, RequestsInv
<1> QED
  BY <1>1, KindByPlace

\* A link that LinkPublic lets through has room, so its cap is not zero.
LEMMA PublicHasRoom ==
    ASSUME LkInv, LinkPublic
    PROVE  /\ lkRow \in LinkRow /\ lkTopCap # 0
           /\ lkRow.pin # 0 => lkRow.pin = lkObj
<1>1. lkRow \in LinkRow /\ lkRow # NoLink
  BY DEF LkInv, LinkTypes, LinkPublic, resolveLink
<1>2. lkRow.max \in {Unlimited} \cup Nat /\ lkRow.downs \in Nat
  BY <1>1 DEF LinkRow
<1>3. lkRow.max = Unlimited \/ lkRow.downs < lkRow.max
  BY <1>2 DEF LinkPublic, linkLive, IsExhausted, Unlimited
<1> QED
  BY <1>1, <1>2, <1>3 DEF LkInv, LinkTypes, CountInv, LinkPublic, linkBase, Unlimited

\* Answering a request that is not about to send keeps the invariant.
LEMMA ReturnKeeps ==
    ASSUME LkInv, NEW h \in Visits, Return(h), UNCHANGED visitVars, lkReq[h].at # "send"
    PROVE  LkInv'
BY IdleOK, VisitorMovesOn DEF Return

LEMMA UpdateLinkKeeps ==
    ASSUME LkInv, NEW h \in Visits, NEW patch \in Patches, UpdateLink(h, patch)
    PROVE  LkInv'
<1> DEFINE r == [at |-> "update", patch |-> patch, during |-> {}]
<1>1. r \in Editing /\ r.at = "update"
  BY DEF Editing, Marks
<1>2. r \in LinkRequests /\ RequestOK(r)
  BY <1>1 DEF LinkRequests, RequestOK, VisitSteps
<1>3. lkReq[h].at # "send"
  BY DEF UpdateLink, Idle
<1> QED
  BY <1>1, <1>2, <1>3, VisitorMovesOn DEF UpdateLink

LEMMA UnlockKeeps ==
    ASSUME LkInv, NEW h \in Visits, NEW guess \in 1 .. MaxPw, Unlock(h, guess)
    PROVE  LkInv'
<1> DEFINE r == [at |-> "verify", guess |-> guess, exp |-> lkRow.exp, during |-> {}]
<1>1. lkRow \in LinkRow /\ lkTopCap # 0
  BY PublicHasRoom DEF Unlock
<1>2. r \in Unlocking /\ r.at = "verify"
  BY <1>1 DEF Unlocking, Marks, LinkRow
<1>3. r \in LinkRequests /\ RequestOK(r)
  BY <1>1, <1>2 DEF LinkRequests, RequestOK, VisitSteps
<1>4. lkReq[h].at # "send"
  BY DEF Unlock, Idle
<1> QED
  BY <1>2, <1>3, <1>4, VisitorMovesOn DEF Unlock, visitVars

LEMMA CheckPasswordKeeps ==
    ASSUME LkInv, NEW h \in Visits, LinkCheckPassword(h)
    PROVE  LkInv'
<1> DEFINE q == lkReq[h]
           r == [q EXCEPT !.at = "mint"]
<1>1. q \in Unlocking /\ RequestOK(q) /\ q.at = "verify"
  BY VisitHolds DEF LinkCheckPassword
<1>2. CASE ~(lkRow = NoLink \/ lkRow.pw \in {0, q.guess})
  BY <1>1, <1>2, ReturnKeeps DEF LinkCheckPassword
<1>3. CASE lkRow = NoLink \/ lkRow.pw \in {0, q.guess}
  <2>1. /\ r \in Unlocking /\ r.at = "mint" /\ r.guess = q.guess
    BY <1>1 DEF Unlocking
  <2>2. r \in LinkRequests /\ RequestOK(r)
    BY <1>1, <1>3, <2>1 DEF LinkRequests, RequestOK, VisitSteps
  <2>3. lkReq' = [lkReq EXCEPT ![h] = r]
    BY <1>3 DEF LinkCheckPassword, Go
  <2> QED
    BY <1>1, <2>1, <2>2, <2>3, VisitorMovesOn DEF LinkCheckPassword
<1> QED
  BY <1>2, <1>3

LEMMA LinkForKeeps ==
    ASSUME LkConstants, LkInv, NEW h \in Visits, NEW s \in Surfaces,
           NEW t \in {lkCookie, NoTicket}, linkFor(h, s, t)
    PROVE  LkInv'
<1> DEFINE r == [at |-> "gate", op |-> s.op, sub |-> s.sub, link |-> lkRow,
                 proof |-> t, got |-> 0, acl |-> TRUE, during |-> {}]
<1>1. lkRow \in LinkRow /\ lkTopCap # 0 /\ (lkRow.pin # 0 => lkRow.pin = lkObj)
  BY PublicHasRoom DEF linkFor
<1>2. t \in Tickets /\ Honest(t)
  <2>1. NoTicket \in Tickets /\ Honest(NoTicket)
    BY DEF NoTicket, Tickets, Honest, LkConstants
  <2> QED
    BY <2>1 DEF LkInv, LinkTypes, RequestsInv
<1>3. s.op \in {"get", "zip", "drop"} /\ s.sub \in {"root", "child"}
  BY DEF LkConstants
<1>4. r \in Visiting /\ r.at = "gate" /\ r.proof = t /\ r.link = lkRow
  BY <1>1, <1>2, <1>3 DEF Visiting, Marks, VisitSteps
<1>5. r \in LinkRequests /\ RequestOK(r)
  BY <1>1, <1>2, <1>4 DEF LinkRequests, RequestOK
<1>6. lkReq[h].at # "send"
  BY DEF linkFor, Idle
<1> QED
  BY <1>4, <1>5, <1>6, VisitorMovesOn DEF linkFor

\* Past the gate the proof is for the password the row has, which is the one
\* the request read unless it has been marked.
LEMMA UnlockedKeeps ==
    ASSUME LkInv, NEW h \in Visits, unlocked(h)
    PROVE  LkInv'
<1> DEFINE q == lkReq[h]
           r == [q EXCEPT !.at = "open"]
           pass == \/ q.link.pw = 0
                   \/ lkRow # NoLink /\ lkRow.pw # 0 /\ q.proof # NoTicket /\ verifyTicket(q.proof)
           need == IF q.op = "drop" THEN "Create" ELSE "Download"
<1>1. q \in Visiting /\ RequestOK(q) /\ q.at = "gate"
  BY VisitHolds DEF unlocked, VisitSteps
<1>2. CASE ~(pass /\ need \in q.link.perms)
  BY <1>1, <1>2, ReturnKeeps DEF unlocked
<1>3. CASE pass /\ need \in q.link.perms
  <2>1. /\ r \in Visiting /\ r.at = "open" /\ r.link = q.link /\ r.proof = q.proof
        /\ r.during = q.during
    BY <1>1 DEF Visiting, VisitSteps
  <2>2. q.link.pw # 0 /\ "pw" \notin q.during => q.proof.hash = q.link.pw
    BY <1>1, <1>3 DEF RequestOK, verifyTicket
  <2>3. r \in LinkRequests /\ RequestOK(r)
    BY <1>1, <2>1, <2>2 DEF LinkRequests, RequestOK, VisitSteps
  <2>4. lkReq' = [lkReq EXCEPT ![h] = r]
    BY <1>3 DEF unlocked, Go
  <2> QED
    BY <1>1, <2>1, <2>3, <2>4, VisitorMovesOn DEF unlocked
<1> QED
  BY <1>2, <1>3

\* What is opened is the folder at the path now, and a child only with the
\* owner's access now.
LEMMA OpenedKeeps ==
    ASSUME LkInv, NEW h \in Visits, lkReq[h].at = "open", Opened(h), UNCHANGED visitVars,
           lkReq[h].sub = "child" => lkGrant # {}
    PROVE  LkInv'
<1> DEFINE q == lkReq[h]
           r == [q EXCEPT !.at = "pay", !.got = lkObj, !.acl = TRUE]
<1>1. q \in Visiting /\ RequestOK(q) /\ q.at = "open"
  BY VisitHolds DEF VisitSteps
<1>2. lkObj \in Nat
  BY DEF LkInv, LinkTypes
<1>3. /\ r \in Visiting /\ r.at = "pay" /\ r.link = q.link /\ r.proof = q.proof
      /\ r.during = q.during /\ r.got = lkObj
  BY <1>1, <1>2 DEF Visiting, VisitSteps
<1>4. r \in LinkRequests /\ RequestOK(r)
  BY <1>1, <1>3 DEF LinkRequests, RequestOK, VisitSteps
<1>5. (q.sub = "child" => lkGrant # {}) = TRUE
  OBVIOUS
<1>6. lkReq' = [lkReq EXCEPT ![h] = r]
  BY <1>5 DEF Opened
<1> QED
  BY <1>1, <1>3, <1>4, <1>6, VisitorMovesOn

LEMMA DownloadKeeps ==
    ASSUME LkInv, NEW h \in Visits, Download(h)
    PROVE  LkInv'
<1>1. CASE LinkStreamAt(lkReq[h].link, lkReq[h].sub)
  <2>1. lkReq[h].sub = "child" => lkGrant # {}
    BY <1>1 DEF LinkStreamAt, linkChildResolved
  <2> QED
    BY <1>1, <2>1, OpenedKeeps DEF Download
<1>2. CASE ~LinkStreamAt(lkReq[h].link, lkReq[h].sub)
  BY <1>2, ReturnKeeps DEF Download
<1> QED
  BY <1>1, <1>2

LEMMA ZipKeeps ==
    ASSUME LkInv, NEW h \in Visits, ZipDownload(h)
    PROVE  LkInv'
<1>1. CASE LinkBrowse(lkReq[h].link, lkReq[h].sub) /\ Opened(h)
  <2>1. lkReq[h].sub = "child" => lkGrant # {}
    BY <1>1 DEF LinkBrowse, linkChildResolved
  <2> QED
    BY <1>1, <2>1, OpenedKeeps DEF ZipDownload
<1>2. CASE Return(h)
  BY <1>2, ReturnKeeps DEF ZipDownload
<1> QED
  BY <1>1, <1>2 DEF ZipDownload

LEMMA DropKeeps ==
    ASSUME LkInv, NEW h \in Visits, Drop(h)
    PROVE  LkInv'
<1> DEFINE q == lkReq[h]
           r == [q EXCEPT !.at = "drop", !.got = lkObj]
<1>1. q \in Visiting /\ RequestOK(q) /\ q.at = "open"
  BY VisitHolds DEF Drop, VisitSteps
<1>2. CASE ~(linkDropDir(q.link) /\ lkFile = NoFile)
  BY <1>1, <1>2, ReturnKeeps DEF Drop
<1>3. CASE linkDropDir(q.link) /\ lkFile = NoFile
  <2>1. lkObj \in Nat
    BY DEF LkInv, LinkTypes
  <2>2. /\ r \in Visiting /\ r.at = "drop" /\ r.link = q.link /\ r.proof = q.proof
        /\ r.during = q.during /\ r.got = lkObj
    BY <1>1, <2>1 DEF Visiting, VisitSteps
  <2>3. r \in LinkRequests /\ RequestOK(r)
    BY <1>1, <2>2 DEF LinkRequests, RequestOK, VisitSteps
  <2>4. lkReq' = [lkReq EXCEPT ![h] = r]
    BY <1>3 DEF Drop
  <2> QED
    BY <1>1, <2>2, <2>3, <2>4, VisitorMovesOn DEF Drop
<1> QED
  BY <1>2, <1>3

------------------------------------------------------------------------------
(* Requests that leave something behind.                                   *)

\* The download that is counted is the one that is sent.
LEMMA NoteDownloadKeeps ==
    ASSUME LkConstants, LkInv, NEW h \in Visits, NoteLinkDownload(h)
    PROVE  LkInv'
<1> DEFINE q == lkReq[h]
           r == [q EXCEPT !.at = "send"]
<1>1. q \in Visiting /\ RequestOK(q) /\ q.at = "pay"
  BY VisitHolds DEF NoteLinkDownload, VisitSteps
<1>2. CASE ~HasRoom
  BY <1>1, <1>2, ReturnKeeps DEF NoteLinkDownload, rowVars, visitVars
<1>3. CASE HasRoom
  <2>1. lkRow \in LinkRow /\ lkRow # NoLink
    BY <1>3 DEF HasRoom, LkInv, LinkTypes
  <2>2. lkRow' = [lkRow EXCEPT !.downs = @ + 1]
    BY <1>3 DEF NoteLinkDownload, ConsumeDownload
  <2>3. /\ lkRow' \in LinkRow /\ lkRow'.downs = lkRow.downs + 1 /\ lkRow'.max = lkRow.max
        /\ lkRow'.pw = lkRow.pw /\ lkRow.downs \in Nat /\ lkRow.max \in {Unlimited} \cup Nat
    BY <2>1, <2>2 DEF LinkRow
  <2>4. lkRow' # NoLink
    BY <2>3, RowIsLink
  <2>5. /\ r \in Visiting /\ r.at = "send" /\ r.link = q.link /\ r.proof = q.proof
        /\ r.during = q.during /\ r.got = q.got
    BY <1>1 DEF Visiting, VisitSteps
  <2>6. r \in LinkRequests /\ RequestOK(r)
    BY <1>1, <2>5 DEF LinkRequests, RequestOK, VisitSteps
  <2>7. lkReq' = [lkReq EXCEPT ![h] = r] /\ UNCHANGED <<rowVars, lkTopCap>>
    BY <1>3 DEF NoteLinkDownload, Go
  <2>8. /\ lkReq' \in [Visits -> LinkRequests]
        /\ \A g \in Visits : RequestOK(lkReq[g])'
        /\ \A g \in Visits : lkReq'[g] = IF g = h THEN r ELSE lkReq[g]
    BY <2>1, <2>3, <2>4, <2>6, <2>7, OneMovesOn DEF rowVars
  <2>9. LinkTypes'
    BY <2>3, <2>7, <2>8 DEF LkInv, LinkTypes, rowVars
  <2>10. Sending' = Sending \cup {h} /\ h \notin Sending
    BY <1>1, <2>5, <2>8 DEF Sending
  <2>11. Cardinality(Sending') = Cardinality(Sending) + 1 /\ Cardinality(Sending) \in Nat
    BY <2>10, SendingCount DEF LkInv
  <2>12. CountInv'
    <3>1. lkSent' = lkSent /\ lkTopCap' = lkTopCap /\ lkSent \in Nat
          /\ lkTopCap \in {Unlimited} \cup Nat
      BY <2>7 DEF rowVars, LkInv, LinkTypes
    <3> QED
      BY <1>3, <2>1, <2>3, <2>11, <3>1 DEF LkInv, CountInv, HasRoom, Unlimited
  <2>13. RequestsInv'
    BY <2>7, <2>8 DEF LkInv, RequestsInv, rowVars, Honest
  <2> QED
    BY <2>9, <2>12, <2>13 DEF LkInv
<1> QED
  BY <1>2, <1>3

\* One request about to send becomes at most one body sent.
LEMMA SendBodyKeeps ==
    ASSUME LkConstants, LkInv, NEW h \in Visits, SendBody(h)
    PROVE  LkInv'
<1>1. lkReq[h].at = "send" /\ lkReq' = [lkReq EXCEPT ![h] = Idle]
      /\ UNCHANGED <<lkRow, lkObj, lkGen, lkFile, lkGrant, lkClock, lkCookie, lkTopCap>>
      /\ lkSent' \in {lkSent, lkSent + 1}
  BY DEF SendBody, Return
<1>2. /\ lkReq' \in [Visits -> LinkRequests]
      /\ \A g \in Visits : RequestOK(lkReq[g])'
      /\ \A g \in Visits : lkReq'[g] = IF g = h THEN Idle ELSE lkReq[g]
  BY <1>1, IdleOK, OneMovesOn
<1>3. LinkTypes'
  BY <1>1, <1>2 DEF LkInv, LinkTypes
<1>4. Sending' = Sending \ {h} /\ h \in Sending
  BY <1>1, <1>2, IdleOK DEF Sending
<1>5. Cardinality(Sending') = Cardinality(Sending) - 1 /\ Cardinality(Sending) \in Nat
  BY <1>4, SendingCount DEF LkInv
<1>6. lkSent \in Nat /\ (lkRow # NoLink => lkRow.downs \in Nat)
      /\ lkTopCap \in {Unlimited} \cup Nat
  BY DEF LkInv, LinkTypes, LinkRow
<1>7. CountInv'
  BY <1>1, <1>5, <1>6 DEF LkInv, CountInv, Unlimited
<1>8. RequestsInv'
  BY <1>1, <1>2 DEF LkInv, RequestsInv, Honest
<1> QED
  BY <1>3, <1>7, <1>8 DEF LkInv

LEMMA DropFileKeeps ==
    ASSUME LkInv, NEW h \in Visits, LinkDropFile(h)
    PROVE  LkInv'
<1>1. lkReq[h].at = "drop" /\ lkReq' = [lkReq EXCEPT ![h] = Idle]
      /\ UNCHANGED <<lkRow, lkObj, lkGen, lkGrant, lkClock, lkCookie, lkSent, lkTopCap>>
      /\ lkFile' \in {lkFile, h}
  BY DEF LinkDropFile, Return
<1>2. /\ lkReq' \in [Visits -> LinkRequests]
      /\ \A g \in Visits : RequestOK(lkReq[g])'
      /\ \A g \in Visits : lkReq'[g] = IF g = h THEN Idle ELSE lkReq[g]
  BY <1>1, IdleOK, OneMovesOn
<1>3. LinkTypes'
  BY <1>1, <1>2 DEF LkInv, LinkTypes
<1>4. Sending' = Sending
  BY <1>1, <1>2, IdleOK, SendingSame
<1>5. CountInv'
  BY <1>1, <1>4 DEF LkInv, CountInv
<1>6. RequestsInv'
  BY <1>1, <1>2 DEF LkInv, RequestsInv, Honest
<1> QED
  BY <1>3, <1>5, <1>6 DEF LkInv

\* The ticket is for the password given, or the Unlock carries the mark.
LEMMA MintKeeps ==
    ASSUME LkConstants, LkInv, NEW h \in Visits, MintTicket(h)
    PROVE  LkInv'
<1> DEFINE q == lkReq[h]
           c == [hash |-> lkRow.pw, gave |-> q.guess,
                 exp |-> IF q.exp # Never THEN q.exp ELSE MaxClock + 1,
                 late |-> "pw" \in q.during]
<1>1. q \in Unlocking /\ RequestOK(q) /\ q.at = "mint"
  BY VisitHolds DEF MintTicket
<1>2. lkReq' = [lkReq EXCEPT ![h] = Idle]
      /\ UNCHANGED <<lkRow, lkObj, lkGen, lkFile, lkGrant, lkClock, lkSent, lkTopCap>>
      /\ lkCookie' = IF lkRow = NoLink \/ lkRow.pw = 0 THEN lkCookie ELSE c
  BY DEF MintTicket, Return
<1>3. /\ lkReq' \in [Visits -> LinkRequests]
      /\ \A g \in Visits : RequestOK(lkReq[g])'
      /\ \A g \in Visits : lkReq'[g] = IF g = h THEN Idle ELSE lkReq[g]
  BY <1>2, IdleOK, OneMovesOn
<1>4. lkCookie' \in Tickets /\ Honest(lkCookie')
  <2>1. CASE lkRow = NoLink \/ lkRow.pw = 0
    BY <1>2, <2>1 DEF LkInv, LinkTypes, RequestsInv, Honest
  <2>2. CASE ~(lkRow = NoLink \/ lkRow.pw = 0)
    <3>1. lkRow.pw \in 0 .. MaxPw /\ q.guess \in 0 .. MaxPw /\ q.exp \in 0 .. MaxClock
      BY <1>1, <2>2 DEF LkInv, LinkTypes, LinkRow, Unlocking, LkConstants
    <3>2. c \in Tickets
      BY <3>1 DEF Tickets, LkConstants
    <3>3. "pw" \notin q.during => q.guess = lkRow.pw
      BY <1>1, <2>2 DEF RequestOK
    <3>4. Honest(c)
      BY <3>3 DEF Honest
    <3> QED
      BY <1>2, <2>2, <3>2, <3>4
  <2> QED
    BY <2>1, <2>2
<1>5. LinkTypes'
  BY <1>2, <1>3, <1>4 DEF LkInv, LinkTypes
<1>6. Sending' = Sending
  BY <1>1, <1>3, IdleOK, SendingSame
<1>7. CountInv'
  BY <1>2, <1>6 DEF LkInv, CountInv
<1>8. RequestsInv'
  BY <1>3, <1>4 DEF RequestsInv, Honest
<1> QED
  BY <1>5, <1>7, <1>8 DEF LkInv

------------------------------------------------------------------------------
(* The owner, and what happens around the link.                            *)

\* A link is made where none was used: nobody holds one, nothing was sent.
LEMMA CreateKeeps ==
    ASSUME LkConstants, LkInv, NEW spec \in LinkSpecs, CreateLink(spec)
    PROVE  LkInv'
<1> DEFINE row == [perms |-> spec.perms, pw |-> spec.pw, exp |-> spec.exp, max |-> spec.max,
                   downs |-> 0, pin |-> pinIdentity]
<1>1. /\ lkRow' = row /\ lkTopCap = 0 /\ lkTopCap' = spec.max
      /\ UNCHANGED <<lkObj, lkGen, lkFile, lkGrant, lkClock, lkCookie, lkSent, lkReq>>
  BY DEF CreateLink, Insert, rowVars
<1>2. /\ spec.perms \in SUBSET Perms /\ spec.pw \in 0 .. MaxPw /\ spec.exp \in 0 .. MaxClock
      /\ spec.max \in {Unlimited} \cup Nat
  BY DEF LkConstants
<1>3. pinIdentity \in 0 .. MaxObj
  BY DEF LkInv, LinkTypes, LkConstants, pinIdentity
<1>4. row \in LinkRow
  BY <1>2, <1>3 DEF LinkRow
<1>5. LinkTypes'
  BY <1>1, <1>2, <1>4 DEF LkInv, LinkTypes
<1>6. \A h \in Visits : lkReq[h].at \in {"idle", "update"}
  BY <1>1 DEF LkInv, RequestsInv, RequestOK
<1>7. Sending = {} /\ Sending' = {}
  BY <1>1, <1>6 DEF Sending
<1>8. Cardinality(Sending) = 0 /\ Cardinality(Sending') = 0
  BY <1>7, FS_EmptySet
<1>9. lkSent = 0 /\ lkSent' = 0
  BY <1>1, <1>8 DEF LkInv, LinkTypes, CountInv, Unlimited
<1>10. CountInv'
  BY <1>1, <1>2, <1>8, <1>9 DEF CountInv, Unlimited
<1>11. ASSUME NEW h \in Visits PROVE RequestOK(lkReq[h])'
  BY <1>1, <1>6 DEF RequestOK, VisitSteps
<1>12. RequestsInv'
  BY <1>1, <1>11 DEF LkInv, RequestsInv, Honest
<1> QED
  BY <1>5, <1>10, <1>12 DEF LkInv

\* What is asked of the row is asked only while there is one.
LEMMA DeleteKeeps ==
    ASSUME LkInv, DeleteLink
    PROVE  LkInv'
<1>1. lkRow' = NoLink
      /\ UNCHANGED <<lkObj, lkGen, lkFile, lkGrant, lkClock, lkCookie, lkSent, lkReq, lkTopCap>>
  BY DEF DeleteLink, rowVars
<1>2. LinkTypes'
  BY <1>1 DEF LkInv, LinkTypes
<1>3. CountInv'
  BY <1>1 DEF LkInv, CountInv, Sending
<1>4. ASSUME NEW h \in Visits PROVE RequestOK(lkReq[h])'
  <2>1. RequestOK(lkReq[h])
    BY DEF LkInv, RequestsInv
  <2> QED
    BY <1>1, <2>1 DEF RequestOK, Honest
<1>5. RequestsInv'
  BY <1>1, <1>4 DEF LkInv, RequestsInv, Honest
<1> QED
  BY <1>2, <1>3, <1>5 DEF LkInv

\* An edited column is in the row's type; only "max" moves the cap, only "pw"
\* the password.
LEMMA ColumnFacts ==
    ASSUME LkConstants, NEW p \in Patches, lkRow \in LinkRow, UpdateColumn(p)
    PROVE  /\ lkRow' \in LinkRow /\ lkRow'.downs = lkRow.downs
           /\ p.field # "pw" => lkRow'.pw = lkRow.pw
           /\ p.field = "max" => lkRow'.max = p.to /\ p.to \in {Unlimited} \cup Nat
           /\ p.field # "max" => lkRow'.max = lkRow.max
<1>1. CASE p \in [field : {"perms"}, to : SUBSET Perms]
  BY <1>1 DEF UpdateColumn, LinkRow
<1>2. CASE p \in [field : {"pw"}, to : 0 .. MaxPw]
  BY <1>2 DEF UpdateColumn, LinkRow
<1>3. CASE p \in [field : {"max"}, to : {Unlimited} \cup Nat]
  BY <1>3 DEF UpdateColumn, LinkRow
<1> QED
  BY <1>1, <1>2, <1>3 DEF LkConstants

\* A new password marks every request in flight; a new cap is within the
\* largest.
LEMMA UpdateRowKeeps ==
    ASSUME LkConstants, LkInv, NEW h \in Visits, UpdateRow(h)
    PROVE  LkInv'
<1> DEFINE p == lkReq[h].patch
<1>1. lkReq[h] \in Editing /\ lkReq[h].at = "update" /\ p \in Patches
      /\ UNCHANGED <<lkObj, lkGen, lkFile, lkGrant, lkClock, lkCookie, lkSent>>
  BY VisitHolds DEF UpdateRow, rowVars, Editing
<1>2. CASE lkRow = NoLink
  BY <1>1, <1>2, ReturnKeeps DEF UpdateRow, rowVars, visitVars
<1>3. CASE lkRow # NoLink
  <2> DEFINE base == IF p.field = "pw" THEN Note("pw") ELSE lkReq
  <2>1. /\ UpdateColumn(p)
        /\ lkTopCap' = IF p.field = "max" THEN Wider(lkTopCap, p.to) ELSE lkTopCap
        /\ lkReq' = [base EXCEPT ![h] = Idle]
    BY <1>3 DEF UpdateRow
  <2>2. lkRow \in LinkRow
    BY <1>3 DEF LkInv, LinkTypes
  <2>3. /\ lkRow' \in LinkRow /\ lkRow'.downs = lkRow.downs
        /\ p.field # "pw" => lkRow'.pw = lkRow.pw
        /\ p.field = "max" => lkRow'.max = p.to /\ p.to \in {Unlimited} \cup Nat
        /\ p.field # "max" => lkRow'.max = lkRow.max
    BY <1>1, <2>1, <2>2, ColumnFacts
  <2>4. lkRow' # NoLink
    BY <2>3, RowIsLink
  <2>5. lkReq \in [Visits -> LinkRequests] /\ lkTopCap \in {Unlimited} \cup Nat /\ lkSent \in Nat
    BY DEF LkInv, LinkTypes
  <2>6. DOMAIN Note("pw") = Visits /\ Note("pw") = [g \in Visits |-> Note("pw")[g]]
    BY DEF Note
  <2>7. \A g \in Visits : lkReq'[g] = IF g = h THEN Idle ELSE base[g]
    BY <2>1, <2>5, <2>6
  <2>8. \A g \in Visits : MarkedAs(lkReq[g], Note("pw")[g], "pw")
    BY NoteMarks DEF LkInv
  <2>9. lkReq' \in [Visits -> LinkRequests]
    <3>1. \A g \in Visits : base[g] \in LinkRequests
      BY <2>5, <2>8 DEF MarkedAs
    <3>2. DOMAIN lkReq' = Visits /\ lkReq' = [g \in Visits |-> lkReq'[g]]
      BY <2>1, <2>5, <2>6
    <3> QED
      BY <2>7, <3>1, <3>2, IdleOK
  <2>10. /\ lkTopCap' \in {Unlimited} \cup Nat /\ (lkTopCap = Unlimited => lkTopCap' = Unlimited)
         /\ lkTopCap' # Unlimited => lkTopCap <= lkTopCap'
         /\ p.field = "max" /\ lkTopCap' # Unlimited => p.to # Unlimited /\ p.to <= lkTopCap'
         /\ lkTopCap # 0 => lkTopCap' # 0
    BY <2>1, <2>3, <2>5 DEF Wider, Unlimited
  <2>11. LinkTypes'
    BY <1>1, <2>3, <2>9, <2>10 DEF LkInv, LinkTypes
  <2>12. \A g \in Visits : lkReq'[g].at = "send" <=> lkReq[g].at = "send"
    BY <1>1, <2>7, <2>8, IdleOK DEF MarkedAs
  <2>13. Sending' = Sending
    BY <2>12, SendingSame
  <2>14. Cardinality(Sending) \in Nat /\ lkRow.downs \in Nat /\ lkRow.max \in {Unlimited} \cup Nat
    BY <2>2, SendingCount DEF LkInv, LinkRow
  <2>15. CountInv'
    <3> SUFFICES ASSUME lkTopCap' # Unlimited
                 PROVE  /\ lkSent + Cardinality(Sending) <= lkTopCap'
                        /\ lkRow'.max # Unlimited /\ lkRow'.max <= lkTopCap'
                        /\ lkRow'.downs <= lkTopCap'
                        /\ lkSent + Cardinality(Sending) <= lkRow'.downs
      BY <1>1, <2>13 DEF CountInv
    <3>1. /\ lkSent + Cardinality(Sending) <= lkTopCap /\ lkRow.max # Unlimited
          /\ lkRow.max <= lkTopCap /\ lkRow.downs <= lkTopCap
          /\ lkSent + Cardinality(Sending) <= lkRow.downs
      BY <1>3, <2>10 DEF LkInv, CountInv
    <3> QED
      BY <2>3, <2>5, <2>10, <2>14, <3>1 DEF Unlimited
  <2>16. ASSUME NEW g \in Visits PROVE RequestOK(lkReq[g])'
    <3>1. RequestOK(lkReq[g]) /\ lkReq[g] \in LinkRequests
      BY VisitHolds
    <3>2. CASE g = h
      BY <2>7, <3>2, IdleOK DEF RequestOK, VisitSteps
    <3>3. CASE g # h /\ p.field # "pw"
      <4>1. lkReq'[g] = lkReq[g]
        BY <2>7, <3>3
      <4> QED
        BY <1>1, <1>3, <2>3, <2>4, <2>10, <3>1, <3>3, <4>1 DEF RequestOK, Honest
    <3>4. CASE g # h /\ p.field = "pw"
      <4>1. MarkedAs(lkReq[g], lkReq'[g], "pw")
        BY <2>7, <2>8, <3>4
      <4>2. lkReq'[g].at = lkReq[g].at
        BY <4>1 DEF MarkedAs
      <4>3. CASE lkReq[g].at \in {"idle", "update"}
        BY <4>2, <4>3 DEF RequestOK, VisitSteps
      <4>4. CASE lkReq[g].at \in {"verify", "mint"}
        <5>1. "pw" \in lkReq'[g].during
          BY <3>1, <4>1, <4>4, KindByPlace DEF MarkedAs
        <5> QED
          BY <2>10, <3>1, <4>2, <4>4, <5>1 DEF RequestOK, VisitSteps
      <4>5. CASE lkReq[g].at \in VisitSteps
        <5>1. /\ lkReq'[g].during = lkReq[g].during \cup {"pw"}
              /\ lkReq'[g].link = lkReq[g].link /\ lkReq'[g].proof = lkReq[g].proof
              /\ lkReq'[g].got = lkReq[g].got
          BY <3>1, <4>1, <4>5, KindByPlace DEF MarkedAs
        <5> QED
          BY <1>1, <2>10, <3>1, <4>2, <4>5, <5>1 DEF RequestOK, VisitSteps, Honest
      <4> QED
        BY <3>1, <4>3, <4>4, <4>5, KindByPlace
    <3> QED
      BY <3>2, <3>3, <3>4
  <2>17. RequestsInv'
    BY <1>1, <2>16 DEF LkInv, RequestsInv, Honest
  <2> QED
    BY <2>11, <2>15, <2>17 DEF LkInv
<1> QED
  BY <1>2, <1>3

\* A folder that goes marks every request in flight.
LEMMA MoveKeeps ==
    ASSUME LkConstants, LkInv, MoveTarget
    PROVE  LkInv'
<1>1. lkObj' = 0 /\ lkFile' = NoFile /\ lkReq' = Note("moved")
      /\ UNCHANGED <<lkRow, lkGen, lkGrant, lkClock, lkCookie, lkSent, lkTopCap>>
  BY DEF MoveTarget
<1>2. \A g \in Visits : MarkedAs(lkReq[g], lkReq'[g], "moved")
  BY <1>1, NoteMarks DEF LkInv
<1>3. lkReq' \in [Visits -> LinkRequests]
  <2>1. lkReq' = [g \in Visits |-> lkReq'[g]]
    BY <1>1 DEF Note
  <2> QED
    BY <1>2, <2>1 DEF MarkedAs
<1>4. LinkTypes'
  BY <1>1, <1>3 DEF LkInv, LinkTypes, LkConstants
<1>5. Sending' = Sending
  BY <1>2, SendingSame DEF MarkedAs
<1>6. CountInv'
  BY <1>1, <1>5 DEF LkInv, CountInv
<1>7. ASSUME NEW g \in Visits PROVE RequestOK(lkReq[g])'
  <2>1. RequestOK(lkReq[g]) /\ lkReq[g] \in LinkRequests
    BY VisitHolds
  <2>2. lkReq'[g].at = lkReq[g].at
    BY <1>2 DEF MarkedAs
  <2>3. CASE lkReq[g].at \in {"idle", "update"}
    BY <2>2, <2>3 DEF RequestOK, VisitSteps
  <2>4. CASE lkReq[g].at \in {"verify", "mint"}
    <3>1. lkReq'[g].during = lkReq[g].during \cup {"moved"} /\ lkReq'[g].guess = lkReq[g].guess
      BY <1>2, <2>1, <2>4, KindByPlace DEF MarkedAs
    <3> QED
      BY <1>1, <2>1, <2>2, <2>4, <3>1 DEF RequestOK, VisitSteps
  <2>5. CASE lkReq[g].at \in VisitSteps
    <3>1. /\ lkReq'[g].during = lkReq[g].during \cup {"moved"}
          /\ lkReq'[g].link = lkReq[g].link /\ lkReq'[g].proof = lkReq[g].proof
      BY <1>2, <2>1, <2>5, KindByPlace DEF MarkedAs
    <3> QED
      BY <1>1, <2>1, <2>2, <2>5, <3>1 DEF RequestOK, VisitSteps, Honest
  <2> QED
    BY <2>1, <2>3, <2>4, <2>5, KindByPlace
<1>8. RequestsInv'
  BY <1>1, <1>7 DEF LkInv, RequestsInv, Honest
<1> QED
  BY <1>4, <1>6, <1>8 DEF LkInv

\* A folder that appears is not the one any request read, all of which have
\* met the absence of theirs.
LEMMA AroundKeeps ==
    ASSUME LkConstants, LkInv, NewTarget \/ Revoke \/ Tick
    PROVE  LkInv'
<1>1. /\ UNCHANGED <<lkRow, lkFile, lkCookie, lkReq, lkSent, lkTopCap>>
      /\ lkObj' = lkObj \/ lkObj = 0
  BY DEF NewTarget, Revoke, Tick
<1>2. LinkTypes'
  <2>1. CASE NewTarget
    BY <1>1, <2>1 DEF NewTarget, LkInv, LinkTypes, LkConstants
  <2>2. CASE Revoke \/ Tick
    BY <1>1, <2>2 DEF Revoke, Tick, LkInv, LinkTypes, LkConstants
  <2> QED
    BY <2>1, <2>2
<1>3. CountInv'
  BY <1>1 DEF LkInv, CountInv, Sending
<1>4. ASSUME NEW h \in Visits PROVE RequestOK(lkReq[h])'
  <2>1. RequestOK(lkReq[h])
    BY DEF LkInv, RequestsInv
  <2> QED
    BY <1>1, <2>1 DEF RequestOK, Honest
<1>5. RequestsInv'
  BY <1>1, <1>4 DEF LkInv, RequestsInv, Honest
<1> QED
  BY <1>2, <1>3, <1>5 DEF LkInv

------------------------------------------------------------------------------
(* The theorems.                                                           *)

LEMMA LinkInit ==
    ASSUME LkConstants, LkInit
    PROVE  LkInv
<1>1. \A h \in Visits : lkReq[h] = Idle
  BY DEF LkInit
<1>2. LinkTypes
  BY IdleOK DEF LkInit, LinkTypes, LkConstants, Tickets, NoTicket, Unlimited
<1>3. Sending = {}
  BY <1>1, IdleOK DEF Sending
<1>4. CountInv
  BY <1>3, FS_EmptySet DEF LkInit, CountInv, Unlimited
<1>5. RequestsInv
  BY <1>1, IdleOK DEF LkInit, RequestsInv, Honest, NoTicket
<1> QED
  BY <1>2, <1>4, <1>5 DEF LkInv

LEMMA LinkStep ==
    ASSUME LkConstants, LkInv, [LkNext]_lkVars
    PROVE  LkInv'
<1>1. CASE \E spec \in LinkSpecs : CreateLink(spec)
  BY <1>1, CreateKeeps
<1>2. CASE DeleteLink
  BY <1>2, DeleteKeeps
<1>3. CASE MoveTarget
  BY <1>3, MoveKeeps
<1>4. CASE NewTarget \/ Revoke \/ Tick
  BY <1>4, AroundKeeps
<1>5. ASSUME NEW h \in Visits,
             \/ UpdateRow(h) \/ LinkCheckPassword(h) \/ MintTicket(h)
             \/ unlocked(h) \/ Download(h) \/ ZipDownload(h) \/ NoteLinkDownload(h)
             \/ SendBody(h) \/ Drop(h) \/ LinkDropFile(h)
      PROVE  LkInv'
  BY <1>5, UpdateRowKeeps, CheckPasswordKeeps, MintKeeps, UnlockedKeeps, DownloadKeeps, ZipKeeps,
     NoteDownloadKeeps, SendBodyKeeps, DropKeeps, DropFileKeeps
<1>6. ASSUME NEW h \in Visits, \E patch \in Patches : UpdateLink(h, patch)
      PROVE  LkInv'
  BY <1>6, UpdateLinkKeeps
<1>7. ASSUME NEW h \in Visits, \E guess \in 1 .. MaxPw : Unlock(h, guess)
      PROVE  LkInv'
  BY <1>7, UnlockKeeps
<1>8. ASSUME NEW h \in Visits, \E s \in Surfaces, t \in {lkCookie, NoTicket} : linkFor(h, s, t)
      PROVE  LkInv'
  BY <1>8, LinkForKeeps
<1>9. CASE UNCHANGED lkVars
  <2>1. UNCHANGED visitVars /\ lkReq' = lkReq
    BY <1>9 DEF lkVars, visitVars
  <2> QED
    BY <2>1 DEF LkInv, LinkTypes, CountInv, Sending, RequestsInv, RequestOK, Honest, visitVars
<1> QED
  BY <1>1, <1>2, <1>3, <1>4, <1>5, <1>6, <1>7, <1>8, <1>9 DEF LkNext

\* The invariant of one public link, its visitors and its owner.
THEOREM LinkInvariant ==
    ASSUME LkConstants
    PROVE  LkSpec => []LkInv
<1>1. LkInit => LkInv
  BY LinkInit
<1>2. LkInv /\ [LkNext]_lkVars => LkInv'
  BY LinkStep
<1> QED
  BY <1>1, <1>2, PTL DEF LkSpec

\* The cap on downloads holds: no more bodies are sent than the largest cap
\* the owner ever set, however many visitors race for the last one and whatever
\* the owner does to the link meanwhile (ConsumeShareDownload, handleDownload).
THEOREM LinkCapHolds ==
    ASSUME LkConstants
    PROVE  LkSpec => []CapHolds
<1>1. LkInv => CapHolds
  <2> SUFFICES ASSUME LkInv, lkTopCap # Unlimited
               PROVE  lkSent <= lkTopCap
    BY DEF CapHolds
  <2>1. IsFiniteSet(Sending)
    BY FS_Subset DEF LkConstants, Sending
  <2>2. Cardinality(Sending) \in Nat
    BY <2>1, FS_CardinalityType
  <2> QED
    BY <2>2 DEF LkInv, LinkTypes, CountInv
<1> QED
  BY <1>1, LinkInvariant, PTL

\* Whatever a visitor is handed is what the owner shared, past the password,
\* except for what changed while that very request ran (linkFor, LinkStreamAt,
\* Unlock).
THEOREM LinkAdmitsHonestly ==
    ASSUME LkConstants
    PROVE  LkSpec => []AdmittedHonestly
<1>1. LkInv => AdmittedHonestly
  <2> SUFFICES ASSUME LkInv, NEW h \in Visits, lkReq[h].at \in {"pay", "send", "drop"}
               PROVE  /\ lkReq[h].link.pin # 0 /\ lkReq[h].got # lkReq[h].link.pin
                           => "moved" \in lkReq[h].during
                      /\ lkReq[h].acl
                      /\ lkReq[h].link.pw # 0 /\ "pw" \notin lkReq[h].during
                           => /\ lkReq[h].proof.hash = lkReq[h].link.pw
                              /\ lkReq[h].proof.gave = lkReq[h].link.pw \/ lkReq[h].proof.late
    BY DEF AdmittedHonestly
  <2>1. lkReq[h] \in Visiting /\ RequestOK(lkReq[h]) /\ lkReq[h].at \in VisitSteps
    BY VisitHolds DEF VisitSteps
  <2>2. lkReq[h].acl
    BY <2>1 DEF Visiting
  <2> QED
    BY <2>1, <2>2 DEF RequestOK, Honest
<1> QED
  BY <1>1, LinkInvariant, PTL

------------------------------------------------------------------------------
(***************************************************************************)
(* Signing in (SignIn), for any number of requests, tokens and generations *)
(* of the cache: a deleted session stays deleted, what the credential      *)
(* cache would serve is what the account row says, and a one-time code     *)
(* opens one sign-in.  A decision in the cache is right because whoever    *)
(* changes the row moves the generation after it, and a decision carries   *)
(* a generation read before the row.                                       *)
(***************************************************************************)

\* What the theorems ask of the constants: times are numbers.
SiConstants == SiMaxStep \in Nat /\ SessionLife \in Int

\* A code is claimed in the thirty-second step it was stamped in.  Held across
\* the end of its step, a request can claim a step that another one pruned.
PromptClaims == SiMaxLag = 0

------------------------------------------------------------------------------
(* The inductive invariant.                                                *)

AccountRows == [pw : Passwords, weak : BOOLEAN, disabled : BOOLEAN, linked : BOOLEAN,
                secret : Secrets, secrets : Secrets, sets : Nat]
SessionTimes == [seen : Int, absolute : Int]
Decisions == [accepted : BOOLEAN, disabled : BOOLEAN, gen : Nat]

LoginReqs == [op : {"login"}, step : {"verify", "rehash", "rehashSessions", "rehashBump", "decide"},
              pw : Passwords, acct : AccountRows]
TotpReqs == [op : {"totp", "enroll"}, step : {"claim", "create"}, code : TotpCodes, stamp : Int]
RecoverReqs == [op : {"totp"}, step : {"recover", "create"}, set : Nat]
LookupReqs == [op : {"lookup"}, step : {"account", "touch"}, token : SiTokens,
               row : SessionTimes, now : Int]
CredReqs == [op : {"cred"}, step : {"account"}, pw : Passwords, gen : Nat]
StoreReqs == [op : {"cred"}, step : {"store"}, pw : Passwords, gen : Nat, accepted : BOOLEAN,
              disabled : BOOLEAN]
ChangeReqs == [op : {"change"}, step : {"sessions", "bump"}]
EnrollReqs == [op : {"enroll"}, step : {"bump"}, secret : Secrets]
CodesReqs == [op : {"enroll"}, step : {"codes"}]

SignInReqs == {SiIdle} \cup LoginReqs \cup TotpReqs \cup RecoverReqs \cup LookupReqs
              \cup CredReqs \cup StoreReqs \cup ChangeReqs \cup EnrollReqs \cup CodesReqs

SignInTypes ==
    /\ siRow \in AccountRows /\ siReq \in [SiRequests -> SignInReqs]
    /\ siSess \in [DOMAIN siSess -> SessionTimes] /\ DOMAIN siSess \subseteq SiTokens
    /\ siCred \in [DOMAIN siCred -> Decisions] /\ DOMAIN siCred \subseteq Passwords
    /\ siGen \in Nat /\ siClock \in Nat

\* A decision, stored or about to be, rests on no later generation than the
\* one it carries, and agrees with the row if that is the one in force.
Agrees(pw, d) ==
    /\ d.accepted <=> (pw = siRow.pw /\ ~siRow.linked)
    /\ d.disabled = siRow.disabled
DecisionsInv ==
    /\ \A pw \in DOMAIN siCred : siCred[pw].gen <= siGen
    /\ \A q \in SiRequests : siReq[q].op = "cred" => siReq[q].gen <= siGen
    /\ ~Changing =>
         /\ \A pw \in DOMAIN siCred : siCred[pw].gen = siGen => Agrees(pw, siCred[pw])
         /\ \A q \in SiRequests :
              siReq[q].op = "cred" /\ siReq[q].step = "store" /\ siReq[q].gen = siGen
                => Agrees(siReq[q].pw, siReq[q])

\* A spent recovery code is in no set that is still stored.
RecoveryInv ==
    /\ siCodes \subseteq 1 .. siRow.sets
    /\ siSpent \subseteq TotpCodes \cup {RecoveryCode(s) : s \in 1 .. siRow.sets}
    /\ \A s \in siCodes : RecoveryCode(s) \notin siSpent

\* A spent code of the factor in force is held by the replay guard or has left
\* the window; a code to be claimed is still in it.
ReplayInv ==
    /\ siRow.secret \in {0, siRow.secrets}
    /\ siTwice \subseteq siSpent \cap TotpCodes /\ \A c \in siTwice : c.secret # siRow.secret
    /\ \A c \in siSpent \cap TotpCodes :
         /\ c.secret <= siRow.secrets
         /\ c.secret = siRow.secret => c.step \in siUsed \/ c.step < siClock - totpWindow
    /\ \A q \in SiRequests :
         siReq[q].op \in {"totp", "enroll"} /\ siReq[q].step = "claim" =>
           /\ siReq[q].stamp = siClock /\ siReq[q].code.step >= siClock - totpWindow
           /\ siReq[q].code.secret <= siRow.secrets

SiInv == SignInTypes /\ RevokedStaysDead /\ DecisionsInv /\ RecoveryInv

------------------------------------------------------------------------------
(* The steps.                                                              *)

(* A session is stored under a token no row and no revocation has had. *)
LEMMA SessionCreated ==
  ASSUME SiConstants, SignInTypes, NEW q, CreateSession(q)
  PROVE  /\ NewToken \in SiTokens \ (DOMAIN siSess \cup siGone)
         /\ DOMAIN siSess' = DOMAIN siSess \cup {NewToken}
         /\ siSess' \in [DOMAIN siSess' -> SessionTimes] /\ DOMAIN siSess' \subseteq SiTokens
<1>1. NewToken \in SiTokens \ (DOMAIN siSess \cup siGone)
  BY DEF CreateSession, TokensLeft, NewToken
<1>2. siClock \in Int /\ siClock + SessionLife \in Int
  BY DEF SignInTypes, SiConstants
<1> DEFINE t == NewToken
<1>3. siSess' = [u \in DOMAIN siSess \cup {t} |->
                    IF u = t THEN [seen |-> siClock, absolute |-> siClock + SessionLife]
                    ELSE siSess[u]]
  BY DEF CreateSession
<1> HIDE DEF t
<1>4. DOMAIN siSess' = DOMAIN siSess \cup {t} /\ siSess' \in [DOMAIN siSess' -> SessionTimes]
  BY <1>2, <1>3 DEF SignInTypes, SessionTimes
<1> QED
  BY <1>1, <1>4 DEF t, SignInTypes

(* A recovery code is no second-factor code, and two sets have two codes. *)
LEMMA CodesDiffer ==
  ASSUME NEW s
  PROVE  /\ RecoveryCode(s) \notin TotpCodes
         /\ \A r : RecoveryCode(r) = RecoveryCode(s) => r = s
<1>1. \A c \in TotpCodes : "secret" \in DOMAIN c
  BY DEF TotpCodes
<1>2. DOMAIN RecoveryCode(s) = {"set"} /\ "secret" # "set"
  BY DEF RecoveryCode
<1>3. ASSUME NEW r, RecoveryCode(r) = RecoveryCode(s) PROVE r = s
  BY <1>3 DEF RecoveryCode
<1> QED
  BY <1>1, <1>2, <1>3

(* Every variable keeps its type. *)
LEMMA SignInTypesStep ==
  ASSUME SiConstants, SiInv, SiNext
  PROVE  SignInTypes'
<1> USE SiConstants DEF SiInv, SignInTypes, SignInReqs, LoginReqs, TotpReqs, RecoverReqs,
     LookupReqs, CredReqs, StoreReqs, ChangeReqs, EnrollReqs, CodesReqs, SiIdle, Passwords,
     Secrets, AccountRows, SessionTimes, Decisions, NewToken, TotpCodes
<1>1. CASE SiTick
  BY <1>1 DEF SiTick
<1>2. ASSUME NEW q \in SiRequests, Login(q) PROVE SignInTypes'
  BY <1>2 DEF Login, Begins, Becomes
<1>3. ASSUME NEW q \in SiRequests, Verify(q) PROVE SignInTypes'
  BY <1>3 DEF Verify, At, Becomes, Goes
<1>4. ASSUME NEW q \in SiRequests, Rehash(q) PROVE SignInTypes'
  <2>1. siReq[q] \in LoginReqs
    BY <1>4 DEF Rehash, SiInv, SignInTypes, At, SignInReqs, LoginReqs, TotpReqs, RecoverReqs,
         LookupReqs, CredReqs, StoreReqs, ChangeReqs, EnrollReqs, CodesReqs, SiIdle
  <2>2. siRow' \in AccountRows
    BY <1>4, <2>1 DEF Rehash, SiInv, SignInTypes, AccountRows, LoginReqs
  <2>3. siReq' \in [SiRequests -> SignInReqs]
    BY <1>4, <2>1 DEF Rehash, Goes, SiInv, SignInTypes, LoginReqs, SignInReqs
  <2> QED
    BY <1>4, <2>2, <2>3 DEF Rehash, SiInv, SignInTypes
<1>5. ASSUME NEW q \in SiRequests, RehashSessions(q) PROVE SignInTypes'
  BY <1>5 DEF RehashSessions, At, Goes, DeleteSessionsOf, DeleteSessions, Restrict
<1>6. ASSUME NEW q \in SiRequests, RehashBump(q) PROVE SignInTypes'
  BY <1>6 DEF RehashBump, At, Goes, bumpGeneration
<1>7. ASSUME NEW q \in SiRequests, Decide(q) PROVE SignInTypes'
  <2>1. siReq' \in [SiRequests -> SignInReqs]
    BY <1>7 DEF Decide, Becomes, SiInv, SignInTypes, SignInReqs
  <2>2. siSess' \in [DOMAIN siSess' -> SessionTimes] /\ DOMAIN siSess' \subseteq SiTokens
    BY <1>7, SessionCreated DEF Decide, SiInv, SignInTypes
  <2> QED
    BY <1>7, <2>1, <2>2 DEF Decide, SiInv, SignInTypes
<1>8. ASSUME NEW q \in SiRequests, LoginTOTP(q) PROVE SignInTypes'
  BY <1>8 DEF LoginTOTP, Begins, Becomes, Matches, totpWindow
<1>9. ASSUME NEW q \in SiRequests, Claim(q) PROVE SignInTypes'
  BY <1>9 DEF Claim, At, ClaimTOTPStep, Accepts, Nothing, Becomes, Goes, totpWindow
<1>10. ASSUME NEW q \in SiRequests, UseRecoveryCode(q) PROVE SignInTypes'
  BY <1>10 DEF UseRecoveryCode, At, ConsumeRecoveryCode, RecoveryCode, Accepts, Nothing, Becomes,
       Goes
<1>11. ASSUME NEW q \in SiRequests, GrantSession(q) PROVE SignInTypes'
  <2>1. siReq' \in [SiRequests -> SignInReqs]
    BY <1>11 DEF GrantSession, Becomes, SiInv, SignInTypes, SignInReqs
  <2>2. siSess' \in [DOMAIN siSess' -> SessionTimes] /\ DOMAIN siSess' \subseteq SiTokens
    BY <1>11, SessionCreated DEF GrantSession, SiInv, SignInTypes
  <2> QED
    BY <1>11, <2>1, <2>2 DEF GrantSession, SiInv, SignInTypes
<1>12. ASSUME NEW q \in SiRequests, LookupSession(q) PROVE SignInTypes'
  BY <1>12 DEF LookupSession, Begins, Becomes, DeleteSessions, Restrict
<1>13. ASSUME NEW q \in SiRequests, LookupAccount(q) PROVE SignInTypes'
  BY <1>13 DEF LookupAccount, At, Becomes, Goes
<1>14. ASSUME NEW q \in SiRequests, Touch(q) PROVE SignInTypes'
  BY <1>14 DEF Touch, At, TouchSession, Becomes
<1>15. ASSUME NEW q \in SiRequests, VerifyPassword(q) PROVE SignInTypes'
  BY <1>15 DEF VerifyPassword, Begins, Becomes
<1>16. ASSUME NEW q \in SiRequests, VerifyAccount(q) PROVE SignInTypes'
  BY <1>16 DEF VerifyAccount, At, Becomes
<1>17. ASSUME NEW q \in SiRequests, credStore(q) PROVE SignInTypes'
  BY <1>17 DEF credStore, At, Becomes, StampOf
<1>18. ASSUME NEW q \in SiRequests, SetPassword(q) PROVE SignInTypes'
  <2>1. siRow.pw \in {1, 2} /\ 3 - siRow.pw \in Passwords
    BY DEF SiInv, SignInTypes, AccountRows, Passwords
  <2>2. siRow' \in AccountRows
    BY <1>18, <2>1 DEF SetPassword, SiInv, SignInTypes, AccountRows
  <2> QED
    BY <1>18, <2>2 DEF SetPassword, Becomes, SiInv, SignInTypes, SignInReqs, ChangeReqs
<1>19. ASSUME NEW q \in SiRequests, EndSessions(q) PROVE SignInTypes'
  BY <1>19 DEF EndSessions, At, Goes, DeleteSessionsOf, DeleteSessions, Restrict
<1>20. ASSUME NEW q \in SiRequests, SetAccountDisabled(q) PROVE SignInTypes'
  BY <1>20 DEF SetAccountDisabled, Begins, Becomes, Bumping, DeleteSessionsOf, DeleteSessions,
       Restrict
<1>21. ASSUME NEW q \in SiRequests, SetOIDCLink(q) PROVE SignInTypes'
  BY <1>21 DEF SetOIDCLink, Begins, Becomes, Bumping
<1>22. ASSUME NEW q \in SiRequests, RevokeSession(q) PROVE SignInTypes'
  BY <1>22 DEF RevokeSession, Begins, Becomes, Bumping, DeleteSessions, Restrict
<1>23. ASSUME NEW q \in SiRequests, EnrollTOTP(q) PROVE SignInTypes'
  <2>1. siRow.secrets + 1 \in Secrets
    BY <1>23 DEF EnrollTOTP, SiInv, SignInTypes, AccountRows, Secrets
  <2>2. siRow' \in AccountRows
    BY <1>23, <2>1 DEF EnrollTOTP, SiInv, SignInTypes, AccountRows
  <2> QED
    BY <1>23, <2>1, <2>2 DEF EnrollTOTP, Becomes, SiInv, SignInTypes, SignInReqs, EnrollReqs
<1>24. ASSUME NEW q \in SiRequests, EnrollBump(q) PROVE SignInTypes'
  BY <1>24 DEF EnrollBump, At, bumpGeneration, Becomes, Matches, totpWindow
<1>25. ASSUME NEW q \in SiRequests, EnrollClaim(q) PROVE SignInTypes'
  BY <1>25 DEF EnrollClaim, At, ClaimTOTPStep, Accepts, Nothing, Becomes, totpWindow
<1>26. ASSUME NEW q \in SiRequests, GenerateRecoveryCodes(q) PROVE SignInTypes'
  BY <1>26 DEF GenerateRecoveryCodes, At, ReplaceRecoveryCodes, Becomes
<1>27. ASSUME NEW q \in SiRequests, DisableTOTP(q) PROVE SignInTypes'
  BY <1>27 DEF DisableTOTP, Begins, Becomes, Bumping
<1>28. ASSUME NEW q \in SiRequests, ChangeBump(q) PROVE SignInTypes'
  BY <1>28 DEF ChangeBump, At, bumpGeneration, Becomes
<1> QED
  BY SiNext, <1>1, <1>2, <1>3, <1>4, <1>5, <1>6, <1>7, <1>8, <1>9, <1>10, <1>11, <1>12, <1>13,
       <1>14, <1>15, <1>16, <1>17, <1>18, <1>19, <1>20, <1>21, <1>22, <1>23, <1>24, <1>25, <1>26,
       <1>27, <1>28 DEF SiNext

(* No step stores a deleted session again. *)
LEMMA RevokedStep ==
  ASSUME SiConstants, SiInv, SiNext
  PROVE  RevokedStaysDead'
<1> USE DEF SiInv, SignInTypes, RevokedStaysDead, NewToken, SignInReqs, LoginReqs, TotpReqs,
     RecoverReqs, LookupReqs, CredReqs, StoreReqs, ChangeReqs, EnrollReqs, CodesReqs, SiIdle
<1>1. CASE SiTick
  BY <1>1 DEF SiTick
<1>2. ASSUME NEW q \in SiRequests, Login(q) PROVE RevokedStaysDead'
  BY <1>2 DEF Login, Begins, Becomes
<1>3. ASSUME NEW q \in SiRequests, Verify(q) PROVE RevokedStaysDead'
  BY <1>3 DEF Verify, At, Becomes, Goes
<1>4. ASSUME NEW q \in SiRequests, Rehash(q) PROVE RevokedStaysDead'
  BY <1>4 DEF Rehash, At, Goes
<1>5. ASSUME NEW q \in SiRequests, RehashSessions(q) PROVE RevokedStaysDead'
  BY <1>5 DEF RehashSessions, At, Goes, DeleteSessionsOf, DeleteSessions, Restrict
<1>6. ASSUME NEW q \in SiRequests, RehashBump(q) PROVE RevokedStaysDead'
  BY <1>6 DEF RehashBump, At, Goes, bumpGeneration
<1>7. ASSUME NEW q \in SiRequests, Decide(q) PROVE RevokedStaysDead'
  BY <1>7 DEF Decide, At, Becomes, CreateSession, TokensLeft
<1>8. ASSUME NEW q \in SiRequests, LoginTOTP(q) PROVE RevokedStaysDead'
  BY <1>8 DEF LoginTOTP, Begins, Becomes, Matches, totpWindow
<1>9. ASSUME NEW q \in SiRequests, Claim(q) PROVE RevokedStaysDead'
  BY <1>9 DEF Claim, At, ClaimTOTPStep, Accepts, Nothing, Becomes, Goes, totpWindow
<1>10. ASSUME NEW q \in SiRequests, UseRecoveryCode(q) PROVE RevokedStaysDead'
  BY <1>10 DEF UseRecoveryCode, At, ConsumeRecoveryCode, RecoveryCode, Accepts, Nothing, Becomes,
       Goes
<1>11. ASSUME NEW q \in SiRequests, GrantSession(q) PROVE RevokedStaysDead'
  BY <1>11 DEF GrantSession, At, CreateSession, TokensLeft, Becomes
<1>12. ASSUME NEW q \in SiRequests, LookupSession(q) PROVE RevokedStaysDead'
  BY <1>12 DEF LookupSession, Begins, Becomes, DeleteSessions, Restrict
<1>13. ASSUME NEW q \in SiRequests, LookupAccount(q) PROVE RevokedStaysDead'
  BY <1>13 DEF LookupAccount, At, Becomes, Goes
<1>14. ASSUME NEW q \in SiRequests, Touch(q) PROVE RevokedStaysDead'
  BY <1>14 DEF Touch, At, TouchSession, Becomes
<1>15. ASSUME NEW q \in SiRequests, VerifyPassword(q) PROVE RevokedStaysDead'
  BY <1>15 DEF VerifyPassword, Begins, Becomes
<1>16. ASSUME NEW q \in SiRequests, VerifyAccount(q) PROVE RevokedStaysDead'
  BY <1>16 DEF VerifyAccount, At, Becomes
<1>17. ASSUME NEW q \in SiRequests, credStore(q) PROVE RevokedStaysDead'
  BY <1>17 DEF credStore, At, Becomes, StampOf
<1>18. ASSUME NEW q \in SiRequests, SetPassword(q) PROVE RevokedStaysDead'
  BY <1>18 DEF SetPassword, Begins, Becomes
<1>19. ASSUME NEW q \in SiRequests, EndSessions(q) PROVE RevokedStaysDead'
  BY <1>19 DEF EndSessions, At, Goes, DeleteSessionsOf, DeleteSessions, Restrict
<1>20. ASSUME NEW q \in SiRequests, SetAccountDisabled(q) PROVE RevokedStaysDead'
  BY <1>20 DEF SetAccountDisabled, Begins, Becomes, Bumping, DeleteSessionsOf, DeleteSessions,
       Restrict
<1>21. ASSUME NEW q \in SiRequests, SetOIDCLink(q) PROVE RevokedStaysDead'
  BY <1>21 DEF SetOIDCLink, Begins, Becomes, Bumping
<1>22. ASSUME NEW q \in SiRequests, RevokeSession(q) PROVE RevokedStaysDead'
  BY <1>22 DEF RevokeSession, Begins, Becomes, Bumping, DeleteSessions, Restrict
<1>23. ASSUME NEW q \in SiRequests, EnrollTOTP(q) PROVE RevokedStaysDead'
  BY <1>23 DEF EnrollTOTP, Begins, Becomes
<1>24. ASSUME NEW q \in SiRequests, EnrollBump(q) PROVE RevokedStaysDead'
  BY <1>24 DEF EnrollBump, At, bumpGeneration, Becomes, Matches, totpWindow
<1>25. ASSUME NEW q \in SiRequests, EnrollClaim(q) PROVE RevokedStaysDead'
  BY <1>25 DEF EnrollClaim, At, ClaimTOTPStep, Accepts, Nothing, Becomes, totpWindow
<1>26. ASSUME NEW q \in SiRequests, GenerateRecoveryCodes(q) PROVE RevokedStaysDead'
  BY <1>26 DEF GenerateRecoveryCodes, At, ReplaceRecoveryCodes, Becomes
<1>27. ASSUME NEW q \in SiRequests, DisableTOTP(q) PROVE RevokedStaysDead'
  BY <1>27 DEF DisableTOTP, Begins, Becomes, Bumping
<1>28. ASSUME NEW q \in SiRequests, ChangeBump(q) PROVE RevokedStaysDead'
  BY <1>28 DEF ChangeBump, At, bumpGeneration, Becomes
<1> QED
  BY SiNext, <1>1, <1>2, <1>3, <1>4, <1>5, <1>6, <1>7, <1>8, <1>9, <1>10, <1>11, <1>12, <1>13,
       <1>14, <1>15, <1>16, <1>17, <1>18, <1>19, <1>20, <1>21, <1>22, <1>23, <1>24, <1>25, <1>26,
       <1>27, <1>28 DEF SiNext

(* No step leaves a decision behind that disagrees with the row. *)
LEMMA DecisionsStep ==
  ASSUME SiConstants, SiInv, SiNext
  PROVE  DecisionsInv'
<1> USE DEF SiInv, SignInTypes, DecisionsInv, Agrees, Changing, SignInReqs, LoginReqs, TotpReqs,
     RecoverReqs, LookupReqs, CredReqs, StoreReqs, ChangeReqs, EnrollReqs, CodesReqs, SiIdle,
     Decisions, AccountRows
<1>1. CASE SiTick
  BY <1>1 DEF SiTick
<1>2. ASSUME NEW q \in SiRequests, Login(q) PROVE DecisionsInv'
  BY <1>2 DEF Login, Begins, Becomes
<1>3. ASSUME NEW q \in SiRequests, Verify(q) PROVE DecisionsInv'
  BY <1>3 DEF Verify, At, Becomes, Goes
<1>4. ASSUME NEW q \in SiRequests, Rehash(q) PROVE DecisionsInv'
  BY <1>4 DEF Rehash, At, Goes
<1>5. ASSUME NEW q \in SiRequests, RehashSessions(q) PROVE DecisionsInv'
  BY <1>5 DEF RehashSessions, At, Goes, DeleteSessionsOf, DeleteSessions, Restrict
<1>6. ASSUME NEW q \in SiRequests, RehashBump(q) PROVE DecisionsInv'
  BY <1>6 DEF RehashBump, At, Goes, bumpGeneration
<1>7. ASSUME NEW q \in SiRequests, Decide(q) PROVE DecisionsInv'
  BY <1>7 DEF Decide, At, Becomes, CreateSession, TokensLeft
<1>8. ASSUME NEW q \in SiRequests, LoginTOTP(q) PROVE DecisionsInv'
  BY <1>8 DEF LoginTOTP, Begins, Becomes, Matches, totpWindow
<1>9. ASSUME NEW q \in SiRequests, Claim(q) PROVE DecisionsInv'
  BY <1>9 DEF Claim, At, ClaimTOTPStep, Accepts, Nothing, Becomes, Goes, totpWindow
<1>10. ASSUME NEW q \in SiRequests, UseRecoveryCode(q) PROVE DecisionsInv'
  BY <1>10 DEF UseRecoveryCode, At, ConsumeRecoveryCode, RecoveryCode, Accepts, Nothing, Becomes,
       Goes
<1>11. ASSUME NEW q \in SiRequests, GrantSession(q) PROVE DecisionsInv'
  BY <1>11 DEF GrantSession, At, CreateSession, TokensLeft, Becomes
<1>12. ASSUME NEW q \in SiRequests, LookupSession(q) PROVE DecisionsInv'
  BY <1>12 DEF LookupSession, Begins, Becomes, DeleteSessions, Restrict
<1>13. ASSUME NEW q \in SiRequests, LookupAccount(q) PROVE DecisionsInv'
  BY <1>13 DEF LookupAccount, At, Becomes, Goes
<1>14. ASSUME NEW q \in SiRequests, Touch(q) PROVE DecisionsInv'
  BY <1>14 DEF Touch, At, TouchSession, Becomes
<1>15. ASSUME NEW q \in SiRequests, VerifyPassword(q) PROVE DecisionsInv'
  BY <1>15 DEF VerifyPassword, Begins, Becomes
<1>16. ASSUME NEW q \in SiRequests, VerifyAccount(q) PROVE DecisionsInv'
  BY <1>16 DEF VerifyAccount, At, Becomes
<1>17. ASSUME NEW q \in SiRequests, credStore(q) PROVE DecisionsInv'
  BY <1>17 DEF credStore, At, Becomes, StampOf
<1>18. ASSUME NEW q \in SiRequests, SetPassword(q) PROVE DecisionsInv'
  BY <1>18 DEF SetPassword, Begins, Becomes
<1>19. ASSUME NEW q \in SiRequests, EndSessions(q) PROVE DecisionsInv'
  BY <1>19 DEF EndSessions, At, Goes, DeleteSessionsOf, DeleteSessions, Restrict
<1>20. ASSUME NEW q \in SiRequests, SetAccountDisabled(q) PROVE DecisionsInv'
  BY <1>20 DEF SetAccountDisabled, Begins, Becomes, Bumping, DeleteSessionsOf, DeleteSessions,
       Restrict
<1>21. ASSUME NEW q \in SiRequests, SetOIDCLink(q) PROVE DecisionsInv'
  BY <1>21 DEF SetOIDCLink, Begins, Becomes, Bumping
<1>22. ASSUME NEW q \in SiRequests, RevokeSession(q) PROVE DecisionsInv'
  BY <1>22 DEF RevokeSession, Begins, Becomes, Bumping, DeleteSessions, Restrict
<1>23. ASSUME NEW q \in SiRequests, EnrollTOTP(q) PROVE DecisionsInv'
  BY <1>23 DEF EnrollTOTP, Begins, Becomes
<1>24. ASSUME NEW q \in SiRequests, EnrollBump(q) PROVE DecisionsInv'
  BY <1>24 DEF EnrollBump, At, bumpGeneration, Becomes, Matches, totpWindow
<1>25. ASSUME NEW q \in SiRequests, EnrollClaim(q) PROVE DecisionsInv'
  BY <1>25 DEF EnrollClaim, At, ClaimTOTPStep, Accepts, Nothing, Becomes, totpWindow
<1>26. ASSUME NEW q \in SiRequests, GenerateRecoveryCodes(q) PROVE DecisionsInv'
  BY <1>26 DEF GenerateRecoveryCodes, At, ReplaceRecoveryCodes, Becomes
<1>27. ASSUME NEW q \in SiRequests, DisableTOTP(q) PROVE DecisionsInv'
  BY <1>27 DEF DisableTOTP, Begins, Becomes, Bumping
<1>28. ASSUME NEW q \in SiRequests, ChangeBump(q) PROVE DecisionsInv'
  BY <1>28 DEF ChangeBump, At, bumpGeneration, Becomes
<1> QED
  BY SiNext, <1>1, <1>2, <1>3, <1>4, <1>5, <1>6, <1>7, <1>8, <1>9, <1>10, <1>11, <1>12, <1>13,
       <1>14, <1>15, <1>16, <1>17, <1>18, <1>19, <1>20, <1>21, <1>22, <1>23, <1>24, <1>25, <1>26,
       <1>27, <1>28 DEF SiNext

(* No step stores a spent recovery code again. *)
LEMMA RecoveryStep ==
  ASSUME SiConstants, SiInv, SiNext
  PROVE  RecoveryInv'
<1> USE DEF SiInv, SignInTypes, RecoveryInv, AccountRows, SignInReqs, LoginReqs, TotpReqs,
     RecoverReqs, LookupReqs, CredReqs, StoreReqs, ChangeReqs, EnrollReqs, CodesReqs, SiIdle
<1>1. CASE SiTick
  BY <1>1 DEF SiTick
<1>2. ASSUME NEW q \in SiRequests, Login(q) PROVE RecoveryInv'
  BY <1>2 DEF Login, Begins, Becomes
<1>3. ASSUME NEW q \in SiRequests, Verify(q) PROVE RecoveryInv'
  BY <1>3 DEF Verify, At, Becomes, Goes
<1>4. ASSUME NEW q \in SiRequests, Rehash(q) PROVE RecoveryInv'
  BY <1>4 DEF Rehash, At, Goes
<1>5. ASSUME NEW q \in SiRequests, RehashSessions(q) PROVE RecoveryInv'
  BY <1>5 DEF RehashSessions, At, Goes, DeleteSessionsOf, DeleteSessions, Restrict
<1>6. ASSUME NEW q \in SiRequests, RehashBump(q) PROVE RecoveryInv'
  BY <1>6 DEF RehashBump, At, Goes, bumpGeneration
<1>7. ASSUME NEW q \in SiRequests, Decide(q) PROVE RecoveryInv'
  BY <1>7 DEF Decide, At, Becomes, CreateSession, TokensLeft
<1>8. ASSUME NEW q \in SiRequests, LoginTOTP(q) PROVE RecoveryInv'
  BY <1>8 DEF LoginTOTP, Begins, Becomes, Matches, totpWindow
<1>9. ASSUME NEW q \in SiRequests, Claim(q) PROVE RecoveryInv'
  <2>1. siReq[q].code \in TotpCodes
    BY <1>9 DEF Claim, At
  <2>2. siSpent' \subseteq siSpent \cup {siReq[q].code}
    BY <1>9 DEF Claim, ClaimTOTPStep, Accepts, Nothing
  <2>3. siCodes' = siCodes /\ siRow' = siRow
    BY <1>9 DEF Claim
  <2> QED
    BY <2>1, <2>2, <2>3, CodesDiffer
<1>10. ASSUME NEW q \in SiRequests, UseRecoveryCode(q) PROVE RecoveryInv'
  BY <1>10 DEF UseRecoveryCode, At, ConsumeRecoveryCode, RecoveryCode, Accepts, Nothing, Becomes,
       Goes
<1>11. ASSUME NEW q \in SiRequests, GrantSession(q) PROVE RecoveryInv'
  BY <1>11 DEF GrantSession, At, CreateSession, TokensLeft, Becomes
<1>12. ASSUME NEW q \in SiRequests, LookupSession(q) PROVE RecoveryInv'
  BY <1>12 DEF LookupSession, Begins, Becomes, DeleteSessions, Restrict
<1>13. ASSUME NEW q \in SiRequests, LookupAccount(q) PROVE RecoveryInv'
  BY <1>13 DEF LookupAccount, At, Becomes, Goes
<1>14. ASSUME NEW q \in SiRequests, Touch(q) PROVE RecoveryInv'
  BY <1>14 DEF Touch, At, TouchSession, Becomes
<1>15. ASSUME NEW q \in SiRequests, VerifyPassword(q) PROVE RecoveryInv'
  BY <1>15 DEF VerifyPassword, Begins, Becomes
<1>16. ASSUME NEW q \in SiRequests, VerifyAccount(q) PROVE RecoveryInv'
  BY <1>16 DEF VerifyAccount, At, Becomes
<1>17. ASSUME NEW q \in SiRequests, credStore(q) PROVE RecoveryInv'
  BY <1>17 DEF credStore, At, Becomes, StampOf
<1>18. ASSUME NEW q \in SiRequests, SetPassword(q) PROVE RecoveryInv'
  BY <1>18 DEF SetPassword, Begins, Becomes
<1>19. ASSUME NEW q \in SiRequests, EndSessions(q) PROVE RecoveryInv'
  BY <1>19 DEF EndSessions, At, Goes, DeleteSessionsOf, DeleteSessions, Restrict
<1>20. ASSUME NEW q \in SiRequests, SetAccountDisabled(q) PROVE RecoveryInv'
  BY <1>20 DEF SetAccountDisabled, Begins, Becomes, Bumping, DeleteSessionsOf, DeleteSessions,
       Restrict
<1>21. ASSUME NEW q \in SiRequests, SetOIDCLink(q) PROVE RecoveryInv'
  BY <1>21 DEF SetOIDCLink, Begins, Becomes, Bumping
<1>22. ASSUME NEW q \in SiRequests, RevokeSession(q) PROVE RecoveryInv'
  BY <1>22 DEF RevokeSession, Begins, Becomes, Bumping, DeleteSessions, Restrict
<1>23. ASSUME NEW q \in SiRequests, EnrollTOTP(q) PROVE RecoveryInv'
  BY <1>23 DEF EnrollTOTP, Begins, Becomes
<1>24. ASSUME NEW q \in SiRequests, EnrollBump(q) PROVE RecoveryInv'
  BY <1>24 DEF EnrollBump, At, bumpGeneration, Becomes, Matches, totpWindow
<1>25. ASSUME NEW q \in SiRequests, EnrollClaim(q) PROVE RecoveryInv'
  <2>1. siReq[q].code \in TotpCodes
    BY <1>25 DEF EnrollClaim, At
  <2>2. siSpent' \subseteq siSpent \cup {siReq[q].code}
    BY <1>25 DEF EnrollClaim, ClaimTOTPStep, Accepts, Nothing
  <2>3. siCodes' = siCodes /\ siRow' = siRow
    BY <1>25 DEF EnrollClaim
  <2> QED
    BY <2>1, <2>2, <2>3, CodesDiffer
<1>26. ASSUME NEW q \in SiRequests, GenerateRecoveryCodes(q) PROVE RecoveryInv'
  <2>1. siCodes' = {siRow.sets + 1} /\ siRow'.sets = siRow.sets + 1 /\ siSpent' = siSpent
    BY <1>26 DEF GenerateRecoveryCodes, ReplaceRecoveryCodes
  <2>2. siRow.sets \in Nat
    OBVIOUS
  <2>3. RecoveryCode(siRow.sets + 1) \notin siSpent
    BY <2>2, CodesDiffer
  <2>4. 1 .. siRow.sets \subseteq 1 .. siRow'.sets /\ siCodes' \subseteq 1 .. siRow'.sets
    BY <2>1, <2>2
  <2> QED
    BY <2>1, <2>3, <2>4
<1>27. ASSUME NEW q \in SiRequests, DisableTOTP(q) PROVE RecoveryInv'
  BY <1>27 DEF DisableTOTP, Begins, Becomes, Bumping
<1>28. ASSUME NEW q \in SiRequests, ChangeBump(q) PROVE RecoveryInv'
  BY <1>28 DEF ChangeBump, At, bumpGeneration, Becomes
<1> QED
  BY SiNext, <1>1, <1>2, <1>3, <1>4, <1>5, <1>6, <1>7, <1>8, <1>9, <1>10, <1>11, <1>12, <1>13,
       <1>14, <1>15, <1>16, <1>17, <1>18, <1>19, <1>20, <1>21, <1>22, <1>23, <1>24, <1>25, <1>26,
       <1>27, <1>28 DEF SiNext

(* The replay guard holds every spent code that could still be claimed. *)
LEMMA ReplayStep ==
  ASSUME SiConstants, PromptClaims, ReplayInv, SiInv, SiNext
  PROVE  ReplayInv'
<1> USE DEF SiInv, SignInTypes, ReplayInv, RecoveryInv, RecoveryCode, TotpCodes, totpWindow,
     AccountRows, Secrets, SignInReqs, LoginReqs, TotpReqs, RecoverReqs, LookupReqs, CredReqs,
     StoreReqs, ChangeReqs, EnrollReqs, CodesReqs, SiIdle
<1>1. CASE SiTick
  <2>1. ASSUME NEW q \in SiRequests, siReq[q].op \in {"totp", "enroll"}, siReq[q].step = "claim"
        PROVE  FALSE
    <3>1. siReq[q] \in TotpReqs
      BY <2>1 DEF SiInv, SignInTypes, SignInReqs, LoginReqs, TotpReqs, RecoverReqs, LookupReqs,
                  CredReqs, StoreReqs, ChangeReqs, EnrollReqs, CodesReqs, SiIdle
    <3>2. siReq[q].stamp = siClock /\ "stamp" \in DOMAIN siReq[q] /\ siClock \in Nat
      BY <2>1, <3>1 DEF ReplayInv, TotpReqs, SiInv, SignInTypes
    <3>3. siClock + 1 - siReq[q].stamp <= 0
      BY <1>1, <2>1, <3>2, PromptClaims DEF SiTick, PromptClaims
    <3> QED
      BY <3>2, <3>3
  <2>2. /\ siClock \in Nat /\ siClock' = siClock + 1 /\ siReq' = siReq
        /\ UNCHANGED <<siRow, siUsed, siSpent, siTwice>>
    BY <1>1 DEF SiTick, SiInv, SignInTypes
  <2>3. \A c \in TotpCodes : c.step \in Int
    BY SiConstants DEF TotpCodes, SiConstants
  <2> QED
    BY <2>1, <2>2, <2>3 DEF ReplayInv, totpWindow
<1>2. ASSUME NEW q \in SiRequests, Login(q) PROVE ReplayInv'
  BY <1>2 DEF Login, Begins, Becomes
<1>3. ASSUME NEW q \in SiRequests, Verify(q) PROVE ReplayInv'
  BY <1>3 DEF Verify, At, Becomes, Goes
<1>4. ASSUME NEW q \in SiRequests, Rehash(q) PROVE ReplayInv'
  BY <1>4 DEF Rehash, At, Goes
<1>5. ASSUME NEW q \in SiRequests, RehashSessions(q) PROVE ReplayInv'
  BY <1>5 DEF RehashSessions, At, Goes, DeleteSessionsOf, DeleteSessions, Restrict
<1>6. ASSUME NEW q \in SiRequests, RehashBump(q) PROVE ReplayInv'
  BY <1>6 DEF RehashBump, At, Goes, bumpGeneration
<1>7. ASSUME NEW q \in SiRequests, Decide(q) PROVE ReplayInv'
  BY <1>7 DEF Decide, At, Becomes, CreateSession, TokensLeft
<1>8. ASSUME NEW q \in SiRequests, LoginTOTP(q) PROVE ReplayInv'
  BY <1>8 DEF LoginTOTP, Begins, Becomes, Matches
<1>9. ASSUME NEW q \in SiRequests, Claim(q) PROVE ReplayInv'
  BY <1>9 DEF Claim, At, ClaimTOTPStep, Accepts, Nothing, Becomes, Goes
<1>10. ASSUME NEW q \in SiRequests, UseRecoveryCode(q) PROVE ReplayInv'
  BY <1>10 DEF UseRecoveryCode, At, ConsumeRecoveryCode, Accepts, Nothing, Becomes, Goes
<1>11. ASSUME NEW q \in SiRequests, GrantSession(q) PROVE ReplayInv'
  BY <1>11 DEF GrantSession, At, CreateSession, TokensLeft, Becomes
<1>12. ASSUME NEW q \in SiRequests, LookupSession(q) PROVE ReplayInv'
  BY <1>12 DEF LookupSession, Begins, Becomes, DeleteSessions, Restrict
<1>13. ASSUME NEW q \in SiRequests, LookupAccount(q) PROVE ReplayInv'
  BY <1>13 DEF LookupAccount, At, Becomes, Goes
<1>14. ASSUME NEW q \in SiRequests, Touch(q) PROVE ReplayInv'
  BY <1>14 DEF Touch, At, TouchSession, Becomes
<1>15. ASSUME NEW q \in SiRequests, VerifyPassword(q) PROVE ReplayInv'
  BY <1>15 DEF VerifyPassword, Begins, Becomes
<1>16. ASSUME NEW q \in SiRequests, VerifyAccount(q) PROVE ReplayInv'
  BY <1>16 DEF VerifyAccount, At, Becomes
<1>17. ASSUME NEW q \in SiRequests, credStore(q) PROVE ReplayInv'
  BY <1>17 DEF credStore, At, Becomes, StampOf
<1>18. ASSUME NEW q \in SiRequests, SetPassword(q) PROVE ReplayInv'
  BY <1>18 DEF SetPassword, Begins, Becomes
<1>19. ASSUME NEW q \in SiRequests, EndSessions(q) PROVE ReplayInv'
  BY <1>19 DEF EndSessions, At, Goes, DeleteSessionsOf, DeleteSessions, Restrict
<1>20. ASSUME NEW q \in SiRequests, SetAccountDisabled(q) PROVE ReplayInv'
  BY <1>20 DEF SetAccountDisabled, Begins, Becomes, Bumping, DeleteSessionsOf, DeleteSessions,
       Restrict
<1>21. ASSUME NEW q \in SiRequests, SetOIDCLink(q) PROVE ReplayInv'
  BY <1>21 DEF SetOIDCLink, Begins, Becomes, Bumping
<1>22. ASSUME NEW q \in SiRequests, RevokeSession(q) PROVE ReplayInv'
  BY <1>22 DEF RevokeSession, Begins, Becomes, Bumping, DeleteSessions, Restrict
<1>23. ASSUME NEW q \in SiRequests, EnrollTOTP(q) PROVE ReplayInv'
  BY <1>23 DEF EnrollTOTP, Begins, Becomes
<1>24. ASSUME NEW q \in SiRequests, EnrollBump(q) PROVE ReplayInv'
  BY <1>24 DEF EnrollBump, At, bumpGeneration, Becomes, Matches
<1>25. ASSUME NEW q \in SiRequests, EnrollClaim(q) PROVE ReplayInv'
  BY <1>25 DEF EnrollClaim, At, ClaimTOTPStep, Accepts, Nothing, Becomes
<1>26. ASSUME NEW q \in SiRequests, GenerateRecoveryCodes(q) PROVE ReplayInv'
  BY <1>26 DEF GenerateRecoveryCodes, At, ReplaceRecoveryCodes, Becomes
<1>27. ASSUME NEW q \in SiRequests, DisableTOTP(q) PROVE ReplayInv'
  BY <1>27 DEF DisableTOTP, Begins, Becomes, Bumping
<1>28. ASSUME NEW q \in SiRequests, ChangeBump(q) PROVE ReplayInv'
  BY <1>28 DEF ChangeBump, At, bumpGeneration, Becomes
<1> QED
  BY SiNext, <1>1, <1>2, <1>3, <1>4, <1>5, <1>6, <1>7, <1>8, <1>9, <1>10, <1>11, <1>12, <1>13,
       <1>14, <1>15, <1>16, <1>17, <1>18, <1>19, <1>20, <1>21, <1>22, <1>23, <1>24, <1>25, <1>26,
       <1>27, <1>28 DEF SiNext

LEMMA SignInStart == ASSUME SiConstants PROVE SiInit => SiInv /\ ReplayInv
<1> SUFFICES ASSUME SiInit PROVE SiInv /\ ReplayInv
  OBVIOUS
<1> USE DEF SiInit
<1>1. siRow \in AccountRows /\ siRow.secret = siRow.secrets /\ siRow.sets = 1
  <2>1. PICK weak \in BOOLEAN, secret \in 0 .. 1 :
          siRow = [pw |-> 1, weak |-> weak, disabled |-> FALSE, linked |-> FALSE,
                   secret |-> secret, secrets |-> secret, sets |-> 1]
    OBVIOUS
  <2> QED
    BY <2>1 DEF AccountRows, Passwords, Secrets
<1>2. DOMAIN siSess = {} /\ DOMAIN siCred = {}
  OBVIOUS
<1>3. SignInTypes /\ RevokedStaysDead
  BY <1>1, <1>2 DEF SignInTypes, SignInReqs, RevokedStaysDead
<1>4. DecisionsInv
  BY <1>2 DEF DecisionsInv, SiIdle
<1>5. RecoveryInv /\ ReplayInv
  BY <1>1 DEF RecoveryInv, ReplayInv, SiIdle
<1> QED
  BY <1>3, <1>4, <1>5 DEF SiInv

LEMMA SignInInvStep == ASSUME SiConstants PROVE SiInv /\ [SiNext]_siVars => SiInv'
<1>1. ASSUME SiInv, SiNext PROVE SiInv'
  BY <1>1, SignInTypesStep, RevokedStep, DecisionsStep, RecoveryStep DEF SiInv
<1>2. ASSUME SiInv, UNCHANGED siVars PROVE SiInv'
  BY <1>2 DEF SiInv, siVars, SignInTypes, RevokedStaysDead, DecisionsInv, Agrees, Changing,
              RecoveryInv
<1> QED
  BY <1>1, <1>2

LEMMA ReplayGuardStep ==
  ASSUME SiConstants, PromptClaims
  PROVE  SiInv /\ ReplayInv /\ [SiNext]_siVars => ReplayInv'
<1>1. ASSUME SiInv, ReplayInv, SiNext PROVE ReplayInv'
  BY <1>1, ReplayStep
<1>2. ASSUME ReplayInv, UNCHANGED siVars PROVE ReplayInv'
  BY <1>2 DEF ReplayInv, siVars
<1> QED
  BY <1>1, <1>2

\* The invariant of sign-in, for any number of requests and tokens.
THEOREM SignInInvariant == ASSUME SiConstants PROVE SiSpec => []SiInv
<1>1. SiInit => SiInv
  BY SignInStart
<1>2. SiInv /\ [SiNext]_siVars => SiInv'
  BY SignInInvStep
<1> QED
  BY <1>1, <1>2, PTL DEF SiSpec

\* A session row that was deleted never comes back, whatever a lookup that had
\* read it goes on to write, and no new session takes its token (session.go
\* RevokeSession, LookupSession).
THEOREM RevokedNeverReturns == ASSUME SiConstants PROVE SiSpec => []RevokedStaysDead
<1>1. SiInv => RevokedStaysDead
  BY DEF SiInv
<1> QED
  BY <1>1, SignInInvariant, PTL

\* Between changes, what the credential cache would serve is what the account
\* row says, although a decision is made from a row read some steps before it is
\* stored and changes commit before they move the generation (cache.go, auth.go).
THEOREM CacheServesRow == ASSUME SiConstants PROVE SiSpec => []CacheAgrees
<1>1. SiInv => CacheAgrees
  BY DEF SiInv, DecisionsInv, Agrees, CacheAgrees
<1> QED
  BY <1>1, SignInInvariant, PTL

\* A recovery code opens one sign-in, and so does a second-factor code while its
\* factor stays enrolled, however many requests present it at once, as long as a
\* code is claimed in the step it was stamped in (totp.go VerifyTOTP,
\* recovery.go).
THEOREM CodesOpenOnce == ASSUME SiConstants, PromptClaims PROVE SiSpec => []CodesSpentOnce
<1>1. SiInit => ReplayInv
  BY SignInStart
<1>2. SiInv /\ ReplayInv /\ [SiNext]_siVars => ReplayInv'
  BY PromptClaims, ReplayGuardStep
<1>3. ReplayInv => CodesSpentOnce
  <2>1. \A c \in TotpCodes : "secret" \in DOMAIN c
    BY DEF TotpCodes
  <2> QED
    BY <2>1 DEF ReplayInv, CodesSpentOnce
<1> QED
  BY SignInInvariant, <1>1, <1>2, <1>3, PTL DEF SiSpec

------------------------------------------------------------------------------
(***************************************************************************)
(* The evaluator answers from the rows in force.  Two arguments carry it.  *)
(* A remembered decision names the generation read before it was made, and *)
(* every install moves the generation, so an answer under the current one  *)
(* was made from the tables in force.  And as long as the reload that      *)
(* ended last was neither failed nor crossed, either the tables are the    *)
(* stored ones or some request still has its reload ahead of it.           *)
(***************************************************************************)

\* At least one request, and a memory of at least one decision
\* (decisionCacheCapacity is 4096).
PeConstants == Admins # {} /\ CacheCap \in Nat \ {0}

\* The stages of a request that has committed and not yet installed.
Reloading == {"grants", "members", "install"}

\* The shapes the steps rely on; the memo is a sequence of whatever it holds.
Stages == {"unmigrated", "idle"} \union Reloading

AdminShape ==
    /\ peAdmin \in [Admins -> [pc : Stages, rows : {peAdmin[a].rows : a \in Admins},
                               member : {peAdmin[a].member : a \in Admins}, crossed : BOOLEAN]]
    /\ peStale \in BOOLEAN

AskShape ==
    /\ peAsk = [pc |-> peAsk.pc, key |-> peAsk.key, gen |-> peAsk.gen, ok |-> peAsk.ok]
    /\ peAsk.gen \in Nat /\ peEval.gen \in Nat

MemoShape == peCache \in Seq({peCache[i] : i \in DOMAIN peCache}) /\ Len(peCache) <= CacheCap

Answer(k) == evaluateLocked(k[1], k[2], k[3], peEval.rows, peEval.member)

\* No answer names a generation that is still to come, and one that names the
\* current generation was made from the tables in force.
MemoInv ==
    /\ peAsk.gen <= peEval.gen
    /\ peAsk.pc = "store" /\ peAsk.gen = peEval.gen => peAsk.ok = Answer(peAsk.key)
    /\ \A i \in DOMAIN peCache :
        /\ peCache[i].gen \in Nat /\ peCache[i].gen <= peEval.gen
        /\ peCache[i].gen = peEval.gen => peCache[i].ok = Answer(peCache[i].key)

\* What a reload has read is still stored unless another request committed since.
ReadsInv ==
    \A a \in Admins : ~peAdmin[a].crossed =>
        /\ peAdmin[a].pc \in {"members", "install"} => peAdmin[a].rows = peRow
        /\ peAdmin[a].pc = "install" => peAdmin[a].member = peMember

\* The tables in force are the stored ones, or a reload is still to come.
PendingInv ==
    \/ peStale
    \/ peEval.rows = peRow /\ peEval.member = peMember
    \/ \E a \in Admins : peAdmin[a].pc \in {"unmigrated"} \union Reloading

PeInv == AdminShape /\ AskShape /\ MemoShape /\ MemoInv /\ ReadsInv /\ PendingInv

\* Remembering adds the one entry, keeps the memo within its capacity and
\* invents no other (cache.go store).
LEMMA StoreAdds ==
  ASSUME PeConstants, MemoShape, NEW k, NEW gen, NEW ok
  PROVE  LET new == store(k, gen, ok)
             entry == [key |-> k, gen |-> gen, ok |-> ok]
         IN /\ new \in Seq({new[i] : i \in DOMAIN new}) /\ Len(new) <= CacheCap
            /\ \A i \in DOMAIN new : new[i] = entry \/ \E j \in DOMAIN peCache : new[i] = peCache[j]
<1> DEFINE entry == [key |-> k, gen |-> gen, ok |-> ok]
           old == {peCache[i] : i \in DOMAIN peCache}
           S == old \union {entry}
           new == store(k, gen, ok)
<1>1. peCache \in Seq(S) /\ Len(peCache) \in Nat /\ DOMAIN peCache = 1..Len(peCache)
      /\ Len(peCache) <= CacheCap
  BY DEF MemoShape
<1>2. new \in Seq(S) /\ Len(new) <= CacheCap
  <2>1. CASE Cached(k) # {}
    <3>1. new = [i \in DOMAIN peCache |-> IF i \in Cached(k) THEN entry ELSE peCache[i]]
      BY <2>1 DEF store
    <3>2. \A i \in 1..Len(peCache) : new[i] \in S
      BY <1>1, <3>1
    <3> QED
      BY <1>1, <3>1, <3>2
  <2>2. CASE Cached(k) = {} /\ Len(peCache) >= CacheCap
    <3>1. peCache # <<>>
      BY <1>1, <2>2 DEF PeConstants
    <3>2. Tail(peCache) \in Seq(S) /\ Len(Tail(peCache)) = Len(peCache) - 1
      BY <1>1, <3>1
    <3>3. new = Append(Tail(peCache), entry)
      BY <2>2 DEF store
    <3> HIDE DEF S, entry
    <3>4. entry \in S
      BY DEF S
    <3> QED
      BY <1>1, <3>2, <3>3, <3>4 DEF PeConstants
  <2>3. CASE Cached(k) = {} /\ ~(Len(peCache) >= CacheCap)
    <3>3. new = Append(peCache, entry)
      BY <2>3 DEF store
    <3> HIDE DEF S, entry
    <3>4. entry \in S
      BY DEF S
    <3> QED
      BY <1>1, <2>3, <3>3, <3>4 DEF PeConstants
  <2> QED
    BY <2>1, <2>2, <2>3
<1>3. \A i \in DOMAIN new : new[i] \in S
  BY <1>2
<1> HIDE DEF new
<1>4. new \in Seq({new[i] : i \in DOMAIN new})
  BY <1>2
<1> QED
  BY <1>2, <1>3, <1>4 DEF new

\* The steps that change rows and memberships only differ in what they change.
LEMMA ChangesCommit ==
  ASSUME NEW a \in Admins,
         \/ \E g \in GrantPool : PersistGrant(a, g) \/ \E i \in DOMAIN peRow : UpdateGrant(a, i, g)
         \/ \E i \in DOMAIN peRow : DeleteGrant(a, i)
         \/ \E m \in PeUsers \X PeGroups : AddMembership(a, m) \/ RemoveMembership(a, m)
         \/ \E s \in PeUsers \union PeGroups : DeleteSubject(a, s)
  PROVE  Changed(a)
<1> QED
  BY Zenon DEF PersistGrant, UpdateGrant, DeleteGrant, AddMembership, RemoveMembership, DeleteSubject

\* What requests have read lies in the set of what they have read.
LEMMA ShapeOfReads ==
  ASSUME NEW f, NEW R, NEW M, f \in [Admins -> [pc : Stages, rows : R, member : M, crossed : BOOLEAN]]
  PROVE  f \in [Admins -> [pc : Stages, rows : {f[b].rows : b \in Admins},
                           member : {f[b].member : b \in Admins}, crossed : BOOLEAN]]
<1>1. \A a \in Admins : f[a] \in [pc : Stages, rows : {f[b].rows : b \in Admins},
                               member : {f[b].member : b \in Admins}, crossed : BOOLEAN]
  OBVIOUS
<1> QED
  BY <1>1

LEMMA EvaluatorStep ==
  ASSUME PeConstants, PeInv, PeNext
  PROVE  PeInv'
<1> USE DEF PeInv
<1>1. ASSUME NEW u, NEW p, NEW w, Evaluate(u, p, w) PROVE PeInv'
  <2>1. AdminShape'
    BY <1>1 DEF Evaluate, NoAsk, AdminShape, Reloading
  <2>2. AskShape'
    BY <1>1 DEF Evaluate, NoAsk, AskShape
  <2>3. MemoShape'
    BY <1>1 DEF Evaluate, NoAsk, MemoShape
  <2>4. MemoInv'
    <3>1. peAsk' = peAsk \/ peAsk' = [pc |-> "evaluate", key |-> <<u, p, w>>, gen |-> peEval.gen, ok |-> FALSE]
      BY <1>1 DEF Evaluate, NoAsk
    <3>2. UNCHANGED <<peEval, peCache>>
      BY <1>1 DEF Evaluate
    <3> QED
      BY <3>1, <3>2 DEF MemoInv, AskShape, Answer
  <2>5. ReadsInv'
    BY <1>1 DEF Evaluate, NoAsk, ReadsInv, AdminShape, Reloading
  <2>6. PendingInv'
    BY <1>1 DEF Evaluate, NoAsk, PendingInv, AdminShape, Reloading, ReadsInv
  <2> QED
    BY <2>1, <2>2, <2>3, <2>4, <2>5, <2>6
<1>2. ASSUME evaluateUnlocked PROVE PeInv'
  <2>1. AdminShape'
    BY <1>2 DEF evaluateUnlocked, AdminShape, Reloading
  <2>2. AskShape'
    BY <1>2 DEF evaluateUnlocked, AskShape
  <2>3. MemoShape'
    BY <1>2 DEF evaluateUnlocked, MemoShape
  <2>4. MemoInv'
    BY <1>2 DEF evaluateUnlocked, MemoInv, AskShape, Answer
  <2>5. ReadsInv'
    BY <1>2 DEF evaluateUnlocked, ReadsInv, AdminShape, Reloading
  <2>6. PendingInv'
    BY <1>2 DEF evaluateUnlocked, PendingInv, AdminShape, Reloading, ReadsInv
  <2> QED
    BY <2>1, <2>2, <2>3, <2>4, <2>5, <2>6
<1>3. ASSUME Remember PROVE PeInv'
  <2> DEFINE entry == [key |-> peAsk.key, gen |-> peAsk.gen, ok |-> peAsk.ok]
        new == store(peAsk.key, peAsk.gen, peAsk.ok)
  <2>0. /\ MemoShape'
        /\ \A i \in DOMAIN peCache' :
            peCache'[i] = entry \/ \E j \in DOMAIN peCache : peCache'[i] = peCache[j]
    <3>1. peCache' = new
      BY <1>3 DEF Remember
    <3>2. /\ new \in Seq({new[i] : i \in DOMAIN new}) /\ Len(new) <= CacheCap
          /\ \A i \in DOMAIN new : new[i] = entry \/ \E j \in DOMAIN peCache : new[i] = peCache[j]
      BY PeConstants, StoreAdds
    <3> HIDE DEF new
    <3> QED
      BY <3>1, <3>2 DEF MemoShape
  <2>1. AdminShape'
    BY <1>3, <2>0 DEF Remember, NoAsk, AdminShape, Reloading
  <2>2. AskShape'
    BY <1>3, <2>0 DEF Remember, NoAsk, AskShape
  <2>3. MemoShape'
    BY <1>3, <2>0 DEF Remember, NoAsk, MemoShape
  <2>4. MemoInv'
    BY <1>3, <2>0 DEF Remember, NoAsk, MemoInv, AskShape, Answer
  <2>5. ReadsInv'
    BY <1>3, <2>0 DEF Remember, NoAsk, ReadsInv, AdminShape, Reloading
  <2>6. PendingInv'
    BY <1>3, <2>0 DEF Remember, NoAsk, PendingInv, AdminShape, Reloading, ReadsInv
  <2> QED
    BY <2>1, <2>2, <2>3, <2>4, <2>5, <2>6
<1>4. ASSUME foldDuplicateGrants PROVE PeInv'
  <2>1. AdminShape'
    <3>1. peAdmin' \in [Admins -> [pc : Stages, rows : {peAdmin[b].rows : b \in Admins} \union {peRow, <<>>},
                         member : {peAdmin[b].member : b \in Admins} \union {peMember, {}}, crossed : BOOLEAN]]
      BY <1>4 DEF foldDuplicateGrants, LoadFromState, IdleAdmin, AdminShape, Stages, Reloading
    <3>2. peStale' \in BOOLEAN
      BY <1>4 DEF foldDuplicateGrants, LoadFromState, IdleAdmin, AdminShape
    <3> QED
      BY <3>1, <3>2, ShapeOfReads DEF AdminShape
  <2>2. AskShape'
    BY <1>4 DEF foldDuplicateGrants, LoadFromState, IdleAdmin, AskShape
  <2>3. MemoShape'
    BY <1>4 DEF foldDuplicateGrants, LoadFromState, IdleAdmin, MemoShape
  <2>4. MemoInv'
    BY <1>4 DEF foldDuplicateGrants, LoadFromState, IdleAdmin, MemoInv, AskShape, Answer
  <2>5. ReadsInv'
    BY <1>4 DEF foldDuplicateGrants, LoadFromState, IdleAdmin, ReadsInv, AdminShape, Reloading
  <2>6. PendingInv'
    BY <1>4 DEF foldDuplicateGrants, LoadFromState, IdleAdmin, PendingInv, AdminShape, Reloading, ReadsInv
  <2> QED
    BY <2>1, <2>2, <2>3, <2>4, <2>5, <2>6
<1>5. ASSUME NEW a \in Admins, ReloadGrants(a) PROVE PeInv'
  <2>1. AdminShape'
    <3>1. peAdmin' \in [Admins -> [pc : Stages, rows : {peAdmin[b].rows : b \in Admins} \union {peRow, <<>>},
                         member : {peAdmin[b].member : b \in Admins} \union {peMember, {}}, crossed : BOOLEAN]]
      BY <1>5 DEF ReloadGrants, AdminShape, Stages, Reloading
    <3>2. peStale' \in BOOLEAN
      BY <1>5 DEF ReloadGrants, AdminShape
    <3> QED
      BY <3>1, <3>2, ShapeOfReads DEF AdminShape
  <2>2. AskShape'
    BY <1>5 DEF ReloadGrants, AskShape
  <2>3. MemoShape'
    BY <1>5 DEF ReloadGrants, MemoShape
  <2>4. MemoInv'
    BY <1>5 DEF ReloadGrants, MemoInv, AskShape, Answer
  <2>5. ReadsInv'
    BY <1>5 DEF ReloadGrants, ReadsInv, AdminShape, Reloading
  <2>6. PendingInv'
    BY <1>5 DEF ReloadGrants, PendingInv, AdminShape, Reloading, ReadsInv
  <2> QED
    BY <2>1, <2>2, <2>3, <2>4, <2>5, <2>6
<1>6. ASSUME NEW a \in Admins, Memberships(a) PROVE PeInv'
  <2>1. AdminShape'
    <3>1. peAdmin' \in [Admins -> [pc : Stages, rows : {peAdmin[b].rows : b \in Admins} \union {peRow, <<>>},
                         member : {peAdmin[b].member : b \in Admins} \union {peMember, {}}, crossed : BOOLEAN]]
      BY <1>6 DEF Memberships, AdminShape, Stages, Reloading
    <3>2. peStale' \in BOOLEAN
      BY <1>6 DEF Memberships, AdminShape
    <3> QED
      BY <3>1, <3>2, ShapeOfReads DEF AdminShape
  <2>2. AskShape'
    BY <1>6 DEF Memberships, AskShape
  <2>3. MemoShape'
    BY <1>6 DEF Memberships, MemoShape
  <2>4. MemoInv'
    BY <1>6 DEF Memberships, MemoInv, AskShape, Answer
  <2>5. ReadsInv'
    BY <1>6 DEF Memberships, ReadsInv, AdminShape, Reloading
  <2>6. PendingInv'
    BY <1>6 DEF Memberships, PendingInv, AdminShape, Reloading, ReadsInv
  <2> QED
    BY <2>1, <2>2, <2>3, <2>4, <2>5, <2>6
<1>7. ASSUME NEW a \in Admins, Install(a) PROVE PeInv'
  <2>1. AdminShape'
    <3>1. peAdmin' \in [Admins -> [pc : Stages, rows : {peAdmin[b].rows : b \in Admins} \union {peRow, <<>>},
                         member : {peAdmin[b].member : b \in Admins} \union {peMember, {}}, crossed : BOOLEAN]]
      BY <1>7 DEF Install, LoadFromState, IdleAdmin, AdminShape, Stages, Reloading
    <3>2. peStale' \in BOOLEAN
      BY <1>7 DEF Install, LoadFromState, IdleAdmin, AdminShape
    <3> QED
      BY <3>1, <3>2, ShapeOfReads DEF AdminShape
  <2>2. AskShape'
    BY <1>7 DEF Install, LoadFromState, IdleAdmin, AskShape
  <2>3. MemoShape'
    BY <1>7 DEF Install, LoadFromState, IdleAdmin, MemoShape
  <2>4. MemoInv'
    BY <1>7 DEF Install, LoadFromState, IdleAdmin, MemoInv, AskShape, Answer
  <2>5. ReadsInv'
    BY <1>7 DEF Install, LoadFromState, IdleAdmin, ReadsInv, AdminShape, Reloading
  <2>6. PendingInv'
    BY <1>7 DEF Install, LoadFromState, IdleAdmin, PendingInv, AdminShape, Reloading, ReadsInv
  <2> QED
    BY <2>1, <2>2, <2>3, <2>4, <2>5, <2>6
<1>8. ASSUME NEW a \in Admins, ReloadFails(a) PROVE PeInv'
  <2>1. AdminShape'
    <3>1. peAdmin' \in [Admins -> [pc : Stages, rows : {peAdmin[b].rows : b \in Admins} \union {peRow, <<>>},
                         member : {peAdmin[b].member : b \in Admins} \union {peMember, {}}, crossed : BOOLEAN]]
      BY <1>8 DEF ReloadFails, IdleAdmin, AdminShape, Stages, Reloading
    <3>2. peStale' \in BOOLEAN
      BY <1>8 DEF ReloadFails, IdleAdmin, AdminShape
    <3> QED
      BY <3>1, <3>2, ShapeOfReads DEF AdminShape
  <2>2. AskShape'
    BY <1>8 DEF ReloadFails, IdleAdmin, AskShape
  <2>3. MemoShape'
    BY <1>8 DEF ReloadFails, IdleAdmin, MemoShape
  <2>4. MemoInv'
    BY <1>8 DEF ReloadFails, IdleAdmin, MemoInv, AskShape, Answer
  <2>5. ReadsInv'
    BY <1>8 DEF ReloadFails, IdleAdmin, ReadsInv, AdminShape, Reloading
  <2>6. PendingInv'
    BY <1>8 DEF ReloadFails, IdleAdmin, PendingInv, AdminShape, Reloading, ReadsInv
  <2> QED
    BY <2>1, <2>2, <2>3, <2>4, <2>5, <2>6
<1>9. ASSUME NEW a \in Admins, Changed(a) PROVE PeInv'
  <2>1. AdminShape'
    <3>1. peAdmin' \in [Admins -> [pc : Stages, rows : {peAdmin[b].rows : b \in Admins} \union {peRow, <<>>},
                         member : {peAdmin[b].member : b \in Admins} \union {peMember, {}}, crossed : BOOLEAN]]
      <4> DEFINE Shape == [pc : Stages, rows : {peAdmin[b].rows : b \in Admins} \union {peRow, <<>>},
                           member : {peAdmin[b].member : b \in Admins} \union {peMember, {}}, crossed : BOOLEAN]
                 next == [b \in Admins |-> IF b = a THEN [IdleAdmin EXCEPT !.pc = "grants"]
                           ELSE [peAdmin[b] EXCEPT !.crossed = peAdmin[b].pc \in {"members", "install"}]]
      <4>1. [IdleAdmin EXCEPT !.pc = "grants"] \in Shape
        BY DEF IdleAdmin, Stages, Reloading
      <4>2. \A b \in Admins : [peAdmin[b] EXCEPT !.crossed = peAdmin[b].pc \in {"members", "install"}] \in Shape
        <5>1. \A b \in Admins, c \in BOOLEAN : [peAdmin[b] EXCEPT !.crossed = c] \in Shape
          BY DEF AdminShape
        <5>2. \A b \in Admins : (peAdmin[b].pc \in {"members", "install"}) \in BOOLEAN
          OBVIOUS
        <5> HIDE DEF Shape
        <5> QED
          BY <5>1, <5>2, Zenon
      <4>3. peAdmin' = next
        BY <1>9 DEF Changed
      <4> HIDE DEF Shape
      <4> QED
        BY <4>1, <4>2, <4>3 DEF Shape
    <3>2. peStale' \in BOOLEAN
      BY <1>9 DEF Changed, IdleAdmin, AdminShape
    <3> QED
      BY <3>1, <3>2, ShapeOfReads DEF AdminShape
  <2>2. AskShape'
    BY <1>9 DEF Changed, IdleAdmin, AskShape
  <2>3. MemoShape'
    BY <1>9 DEF Changed, IdleAdmin, MemoShape
  <2>4. MemoInv'
    BY <1>9 DEF Changed, IdleAdmin, MemoInv, AskShape, Answer
  <2>5. ReadsInv'
    BY <1>9 DEF Changed, IdleAdmin, ReadsInv, AdminShape, Reloading
  <2>6. PendingInv'
    BY <1>9 DEF Changed, IdleAdmin, PendingInv, AdminShape, Reloading, ReadsInv
  <2> QED
    BY <2>1, <2>2, <2>3, <2>4, <2>5, <2>6
<1> QED
  BY <1>1, <1>2, <1>3, <1>4, <1>5, <1>6, <1>7, <1>8, <1>9, ChangesCommit DEF PeNext

LEMMA EvaluatorStart == ASSUME PeConstants PROVE PeInit => PeInv
<1> USE DEF PeInit, PeInv, IdleAdmin, NoAsk, Reloading
<1>1. PeInit => AdminShape /\ AskShape /\ MemoShape
  <2>1. PeInit => AdminShape
    <3>1. PeInit => peAdmin \in [Admins -> [pc : Stages, rows : {<<>>}, member : {{}}, crossed : BOOLEAN]]
                   /\ peStale \in BOOLEAN
      BY DEF Stages
    <3> QED
      BY <3>1, ShapeOfReads DEF AdminShape
  <2>2. PeInit => AskShape
    BY DEF AskShape
  <2>3. PeInit => MemoShape
    BY PeConstants DEF MemoShape, PeConstants
  <2> QED
    BY <2>1, <2>2, <2>3
<1>2. PeInit => MemoInv
  BY DEF MemoInv
<1>3. PeInit => ReadsInv /\ PendingInv
  BY PeConstants DEF ReadsInv, PendingInv, PeConstants
<1> QED
  BY <1>1, <1>2, <1>3

\* The invariant of the evaluator, for any rows, questions and requests at once.
THEOREM EvaluatorInvariant == ASSUME PeConstants PROVE PeSpec => []PeInv
<1>1. PeInit => PeInv
  BY EvaluatorStart
<1>2. PeInv /\ [PeNext]_peVars => PeInv'
  <2>1. ASSUME PeInv, PeNext PROVE PeInv'
    BY <2>1, EvaluatorStep
  <2>2. ASSUME PeInv, UNCHANGED peVars PROVE PeInv'
    BY <2>2 DEF peVars, PeInv, AdminShape, AskShape, MemoShape, MemoInv, ReadsInv, PendingInv, Answer
  <2> QED
    BY <2>1, <2>2
<1> QED
  BY <1>1, <1>2, PTL DEF PeSpec

\* A decision remembered under the current generation is the one the tables in
\* force give, although a question reads the generation, evaluates and stores in
\* separate critical sections and installs fall in between (eval.go Evaluate,
\* cache.go).
THEOREM MemoServesTables == ASSUME PeConstants PROVE PeSpec => []RememberedIsCurrent
<1>1. PeInv => RememberedIsCurrent
  BY DEF PeInv, MemoInv, Answer, RememberedIsCurrent
<1> QED
  BY <1>1, EvaluatorInvariant, PTL

\* Between requests the evaluator holds exactly the stored rows and memberships,
\* provided the reload that ended last did not fail and no other request
\* committed between its reads and its install (core.go ReloadGrants).
THEOREM EvaluatorCatchesUp == ASSUME PeConstants PROVE PeSpec => []EvaluatorCurrent
<1>1. PeInv => EvaluatorCurrent
  BY DEF PeInv, PendingInv, Reloading, EvaluatorCurrent
<1> QED
  BY <1>1, EvaluatorInvariant, PTL

------------------------------------------------------------------------------
(***************************************************************************)
(* A device login mints for the person who approved it first, and the      *)
(* token cache serves no credential its rows would refuse.  The approval   *)
(* stays with the first because the statement that approves repeats the    *)
(* check; the cache is right for the reason the decision cache of signing  *)
(* in is: a decision carries the generation read with its row, and every   *)
(* change moves the generation after it has committed.                     *)
(***************************************************************************)

\* What the theorems ask of the constants: the mark for no one names no account.
DvConstants == DvNobody \notin Owners

------------------------------------------------------------------------------
(* The inductive invariant.                                                *)

FlowRows == [live : BOOLEAN, created : Nat, approved : Owners \cup {DvNobody}, polled : Nat]
CredRows == [user : Owners, expires : Nat, wiped : BOOLEAN, dead : BOOLEAN]
FlowReqs == [op : {"approve", "mint"}, flow : Flows, user : Owners]
MintedReqs == [op : {"minted"}, flow : Flows]
TokenReqs == [op : {"account", "store"}, cred : Nat, user : Owners, expires : Nat, gen : Nat]
DeviceReqs == {DvIdle, DvBumping} \cup FlowReqs \cup MintedReqs \cup TokenReqs

FlowTypes ==
    /\ dvFlow \in [Flows -> FlowRows]
    /\ dvSaid \in [Flows -> Owners \cup {DvNobody}]
    /\ dvMinted \subseteq [flow : Flows, user : Owners, cred : Nat]
    /\ dvClock \in Nat /\ dvGen \in Nat
RowTypes ==
    /\ dvCred \in [DOMAIN dvCred -> CredRows] /\ dvOn \subseteq Owners
    /\ dvCache \in [DOMAIN dvCache -> [gen : Nat, inserted : Nat, expires : Nat]]
ReqTypes == dvReq \in [DvRequests -> DeviceReqs]

\* Credentials are numbered from one, and no number is given twice.
NumberedInv ==
    /\ \E n \in Nat : DOMAIN dvCred = 1 .. n
    /\ \A m \in dvMinted : m.cred \in DOMAIN dvCred
    /\ DOMAIN dvCache \subseteq DOMAIN dvCred

\* A flow that is still open was approved by no one yet, and whoever the row
\* names, or a poll or a credential took from it, is who approved first.
FlowInv ==
    /\ \A f \in Flows :
         /\ dvFlow[f].live /\ dvFlow[f].approved = DvNobody => dvSaid[f] = DvNobody
         /\ dvFlow[f].approved # DvNobody => dvSaid[f] = dvFlow[f].approved
    /\ \A q \in DvRequests : dvReq[q].op = "mint" => dvSaid[dvReq[q].flow] = dvReq[q].user
    /\ \A m \in dvMinted : dvSaid[m.flow] = m.user

\* What a decision, stored or on its way, repeats of its row never changes.
CopiesInv ==
    /\ \A c \in DOMAIN dvCache : dvCache[c].gen <= dvGen /\ dvCache[c].expires = dvCred[c].expires
    /\ \A q \in DvRequests : dvReq[q].op \in {"account", "store"} =>
         /\ dvReq[q].cred \in DOMAIN dvCred /\ dvReq[q].gen <= dvGen
         /\ dvReq[q].user = dvCred[dvReq[q].cred].user
         /\ dvReq[q].expires = dvCred[dvReq[q].cred].expires

\* Between changes, a decision of the generation in force is right.
Sound(c) == ~dvCred[c].dead /\ ~dvCred[c].wiped
TokensInv ==
    ~Revoking =>
      /\ \A c \in DOMAIN dvCache : dvCache[c].gen = dvGen => Sound(c) /\ dvCred[c].user \in dvOn
      /\ \A q \in DvRequests : dvReq[q].op \in {"account", "store"} /\ dvReq[q].gen = dvGen =>
           /\ Sound(dvReq[q].cred)
           /\ dvReq[q].op = "store" => dvCred[dvReq[q].cred].user \in dvOn

DvInv == FlowTypes /\ RowTypes /\ ReqTypes /\ NumberedInv /\ FlowInv /\ CopiesInv /\ TokensInv

------------------------------------------------------------------------------
(* The steps.                                                              *)

\* A new credential gets a number no row has (apppw.go mintAppPassword).
LEMMA FreshIsNew ==
  ASSUME DvInv
  PROVE  /\ Fresh \in Nat /\ Fresh \notin DOMAIN dvCred
         /\ \E n \in Nat : DOMAIN dvCred \cup {Fresh} = 1 .. n
<1>1. PICK n \in Nat : DOMAIN dvCred = 1 .. n
  BY DEF DvInv, NumberedInv
<1>2. DOMAIN dvCred \cup {m.cred : m \in dvMinted} = 1 .. n
  BY <1>1 DEF DvInv, NumberedInv
<1>3. Cardinality(1 .. n) = n
  <2>1. 1 \in Int /\ n \in Int
    OBVIOUS
  <2>2. Cardinality(1 .. n) = IF 1 > n THEN 0 ELSE n - 1 + 1
    BY <2>1, FS_Interval
  <2> QED
    BY <2>2
<1>4. Fresh = n + 1
  BY <1>2, <1>3 DEF Fresh
<1>5. 1 .. n \cup {n + 1} = 1 .. (n + 1)
  OBVIOUS
<1> QED
  BY <1>1, <1>4, <1>5

\* The rows after a credential was made.
LEMMA RowMade ==
  ASSUME DvInv, NEW user \in Owners, NEW expires \in Nat, CreateAppPassword(Fresh, user, expires)
  PROVE  /\ DOMAIN dvCred' = DOMAIN dvCred \cup {Fresh}
         /\ dvCred' \in [DOMAIN dvCred' -> CredRows]
         /\ \A c \in DOMAIN dvCred : dvCred'[c] = dvCred[c]
<1>1. \A c \in DOMAIN dvCred \cup {Fresh} : dvCred'[c] =
        IF c = Fresh THEN [user |-> user, expires |-> expires, wiped |-> FALSE, dead |-> FALSE] ELSE dvCred[c]
  BY DEF CreateAppPassword
<1>2. DOMAIN dvCred' = DOMAIN dvCred \cup {Fresh} /\ dvCred' = [c \in DOMAIN dvCred' |-> dvCred'[c]]
  BY DEF CreateAppPassword
<1>3. \A c \in DOMAIN dvCred' : dvCred'[c] \in CredRows
  <2>1. [user |-> user, expires |-> expires, wiped |-> FALSE, dead |-> FALSE] \in CredRows
    BY DEF CredRows
  <2>2. \A c \in DOMAIN dvCred : dvCred[c] \in CredRows
    BY DEF DvInv, RowTypes
  <2> QED
    BY <1>1, <1>2, <2>1, <2>2
<1> QED
  BY <1>1, <1>2, <1>3, FreshIsNew

\* A step of one request leaves the others where they are.
LEMMA OneMoves ==
  ASSUME ReqTypes, NEW q \in DvRequests, NEW r \in DeviceReqs, DvBecomes(q, r)
  PROVE  ReqTypes' /\ dvReq'[q] = r /\ \A p \in DvRequests \ {q} : dvReq'[p] = dvReq[p]
BY DEF ReqTypes, DvBecomes

\* What a request holds at each of its places.
LEMMA RequestHolds ==
  ASSUME ReqTypes, NEW q \in DvRequests
  PROVE  /\ dvReq[q].op \in {"approve", "mint"} => dvReq[q].flow \in Flows /\ dvReq[q].user \in Owners
         /\ dvReq[q].op = "minted" => dvReq[q].flow \in Flows
         /\ dvReq[q].op \in {"account", "store"} => dvReq[q] \in TokenReqs
BY DEF ReqTypes, DeviceReqs, FlowReqs, MintedReqs, TokenReqs, DvIdle, DvBumping

\* A request that starts, or goes on without ending a change, ends no other change.
LEMMA OneStays ==
  ASSUME ReqTypes, NEW q \in DvRequests, NEW r, UNCHANGED dvReq \/ DvBecomes(q, r),
         dvReq[q].op \notin {"bump", "minted"}, Revoking
  PROVE  Revoking'
<1>1. PICK p \in DvRequests : dvReq[p].op \in {"bump", "minted"}
  BY DEF Revoking
<1>2. dvReq'[p] = dvReq[p]
  BY <1>1 DEF DvBecomes, ReqTypes
<1> QED
  BY <1>1, <1>2 DEF Revoking

\* What checking the owner of a token does (apppw.go VerifyAppPasswordID).
LEMMA OwnerOutcome ==
  ASSUME ReqTypes, NEW q \in DvRequests, VerifyOwner(q)
  PROVE  /\ \A p \in DvRequests \ {q} : dvReq'[p] = dvReq[p]
         /\ \/ dvReq'[q] = DvIdle
            \/ /\ dvReq[q].user \in dvOn /\ dvReq'[q].op = "store" /\ dvReq[q].op = "account"
               /\ dvReq'[q].cred = dvReq[q].cred /\ dvReq'[q].user = dvReq[q].user
               /\ dvReq'[q].expires = dvReq[q].expires /\ dvReq'[q].gen = dvReq[q].gen
         /\ Revoking => Revoking'
<1>1. dvReq[q] \in TokenReqs /\ dvReq[q].op = "account"
  BY RequestHolds DEF VerifyOwner, DvAt
<1>2. CASE dvReq[q].user \in dvOn
  <2>1. [dvReq[q] EXCEPT !.op = "store"] \in DeviceReqs
    BY <1>1 DEF DeviceReqs, TokenReqs
  <2>2. DvBecomes(q, [dvReq[q] EXCEPT !.op = "store"])
    BY <1>2 DEF VerifyOwner
  <2> QED
    BY <1>1, <1>2, <2>1, <2>2, OneMoves, OneStays DEF TokenReqs
<1>3. CASE dvReq[q].user \notin dvOn
  <2>1. DvIdle \in DeviceReqs
    BY DEF DeviceReqs
  <2>2. DvBecomes(q, DvIdle)
    BY <1>3 DEF VerifyOwner
  <2> QED
    BY <1>1, <2>1, <2>2, OneMoves, OneStays
<1> QED
  BY <1>2, <1>3

\* What a poll does (loginflow.go Poll).
LEMMA PollOutcome ==
  ASSUME FlowTypes, NEW q \in DvRequests, Poll(q)
  PROVE  /\ dvReq[q] = DvIdle
         /\ \E f \in Flows :
              \/ UNCHANGED dvReq /\ \E n \in Nat : dvFlow' = [dvFlow EXCEPT ![f].polled = n]
              \/ /\ UNCHANGED dvFlow /\ dvFlow[f].approved \in Owners
                 /\ DvBecomes(q, [op |-> "mint", flow |-> f, user |-> dvFlow[f].approved])
<1>1. PICK f \in Flows : IF dvFlow[f].approved = DvNobody
             THEN TouchLoginFlowPoll(f) /\ UNCHANGED dvReq
             ELSE /\ DvBecomes(q, [op |-> "mint", flow |-> f, user |-> dvFlow[f].approved])
                  /\ UNCHANGED dvFlow
  BY DEF Poll
<1>2. CASE dvFlow[f].approved = DvNobody
  <2>1. \E n \in Nat : dvFlow' = [dvFlow EXCEPT ![f].polled = n]
    <3> DEFINE n == IF dvFlow[f].polled <= dvClock - FlowPollInterval THEN dvClock ELSE dvFlow[f].polled
    <3>1. n \in Nat
      BY DEF FlowTypes, FlowRows
    <3>2. dvFlow' = [dvFlow EXCEPT ![f].polled = n]
      BY <1>1, <1>2 DEF TouchLoginFlowPoll
    <3> HIDE DEF n
    <3> QED
      BY <3>1, <3>2
  <2> QED
    BY <1>1, <1>2, <2>1 DEF Poll, DvBegins
<1>3. CASE dvFlow[f].approved # DvNobody
  BY <1>1, <1>3 DEF Poll, DvBegins, FlowTypes, FlowRows
<1> QED
  BY <1>2, <1>3

\* What checking a token against its row does (apppw.go VerifyAppPasswordID).
LEMMA VerifyOutcome ==
  ASSUME DvInv, NEW q \in DvRequests, VerifyAppPasswordID(q)
  PROVE  /\ dvReq[q] = DvIdle
         /\ \/ UNCHANGED dvReq
            \/ \E c \in DOMAIN dvCred :
                 /\ Sound(c) /\ [op |-> "account", cred |-> c, user |-> dvCred[c].user,
                                   expires |-> dvCred[c].expires, gen |-> dvGen] \in TokenReqs
                 /\ DvBecomes(q, [op |-> "account", cred |-> c, user |-> dvCred[c].user,
                                   expires |-> dvCred[c].expires, gen |-> dvGen])
<1>1. PICK c \in DOMAIN dvCred :
             IF dvCred[c].dead \/ dvCred[c].wiped \/ (dvCred[c].expires # DvNever /\ dvClock >= dvCred[c].expires)
             THEN UNCHANGED dvReq
             ELSE DvBecomes(q, [op |-> "account", cred |-> c, user |-> dvCred[c].user,
                                expires |-> dvCred[c].expires, gen |-> dvGen])
  BY DEF VerifyAppPasswordID
<1>2. c \in Nat /\ dvCred[c] \in CredRows /\ dvGen \in Nat
  BY DEF DvInv, NumberedInv, RowTypes, FlowTypes
<1> QED
  BY <1>1, <1>2 DEF VerifyAppPasswordID, DvBegins, Sound, TokenReqs, CredRows

LEMMA FlowTypesStep ==
  ASSUME DvConstants, DvInv, DvNext
  PROVE  FlowTypes'
<1> USE DvConstants DEF DvInv, FlowTypes, FlowRows
<1>1. ASSUME DvTick PROVE FlowTypes'
  BY <1>1 DEF DvTick
<1>2. ASSUME SweepLoginFlows PROVE FlowTypes'
  BY <1>2 DEF SweepLoginFlows, NoFlow
<1>3. ASSUME NEW q \in DvRequests, Begin(q) PROVE FlowTypes'
  <2>1. [NoFlow EXCEPT !.live = TRUE, !.created = dvClock] \in FlowRows
    BY DEF NoFlow, FlowRows
  <2>2. PICK f \in Flows : dvFlow' = [dvFlow EXCEPT ![f] = [NoFlow EXCEPT !.live = TRUE, !.created = dvClock]]
    BY <1>3 DEF Begin
  <2> QED
    BY <1>3, <2>1, <2>2 DEF Begin
<1>4. ASSUME NEW q \in DvRequests, Approve(q) PROVE FlowTypes'
  BY <1>4 DEF Approve, DvBegins, DvBecomes
<1>5. ASSUME NEW q \in DvRequests, ApproveLoginFlow(q) PROVE FlowTypes'
  <2>1. dvReq[q].flow \in Flows /\ dvReq[q].user \in Owners
    BY <1>5, RequestHolds DEF ApproveLoginFlow, DvAt
  <2>2. CASE UNCHANGED <<dvFlow, dvSaid>>
    BY <1>5, <2>2 DEF ApproveLoginFlow
  <2>3. CASE Approves(dvReq[q].flow, dvReq[q].user)
    BY <1>5, <2>1, <2>3 DEF ApproveLoginFlow, Approves, FlowRows
  <2> QED
    BY <1>5, <2>2, <2>3 DEF ApproveLoginFlow
<1>6. ASSUME NEW q \in DvRequests, Poll(q) PROVE FlowTypes'
  <2>1. CASE UNCHANGED dvFlow
    BY <1>6, <2>1 DEF Poll
  <2>2. ASSUME NEW f \in Flows, NEW n \in Nat, dvFlow' = [dvFlow EXCEPT ![f].polled = n] PROVE FlowTypes'
    BY <1>6, <2>2 DEF Poll, FlowRows
  <2> QED
    BY <1>6, <2>1, <2>2, PollOutcome
<1>7. ASSUME NEW q \in DvRequests, MintSyncCredential(q) PROVE FlowTypes'
  <2>1. dvReq[q].flow \in Flows /\ dvReq[q].user \in Owners /\ Fresh \in Nat
    BY <1>7, RequestHolds, FreshIsNew DEF MintSyncCredential, DvAt
  <2> QED
    BY <1>7, <2>1 DEF MintSyncCredential
<1>8. ASSUME NEW q \in DvRequests, DropLoginFlow(q) PROVE FlowTypes'
  <2>1. dvReq[q].flow \in Flows /\ NoFlow \in FlowRows
    BY <1>8, RequestHolds DEF DropLoginFlow, DvAt, NoFlow, FlowRows
  <2> QED
    BY <1>8, <2>1 DEF DropLoginFlow
<1>9. ASSUME NEW q \in DvRequests, MintAppPassword(q) PROVE FlowTypes'
  BY <1>9 DEF MintAppPassword, DvBegins, DvBecomes, DvNever, DvBumping
<1>10. ASSUME NEW q \in DvRequests, RevokeAppPassword(q) PROVE FlowTypes'
  BY <1>10 DEF RevokeAppPassword, DvBegins, DvBecomes, DvBumping
<1>11. ASSUME NEW q \in DvRequests, RequestWipe(q) PROVE FlowTypes'
  BY <1>11 DEF RequestWipe, DvBegins, DvBecomes, DvBumping
<1>12. ASSUME NEW q \in DvRequests, SetDisabled(q) PROVE FlowTypes'
  BY <1>12 DEF SetDisabled, DvBegins, DvBecomes, DvBumping
<1>13. ASSUME NEW q \in DvRequests, BumpGeneration(q) PROVE FlowTypes'
  BY <1>13 DEF BumpGeneration, DvAt, DvBecomes, DvIdle
<1>14. ASSUME NEW q \in DvRequests, VerifyAppPasswordID(q) PROVE FlowTypes'
  BY <1>14 DEF VerifyAppPasswordID, DvBegins, DvBecomes
<1>15. ASSUME NEW q \in DvRequests, VerifyOwner(q) PROVE FlowTypes'
  BY <1>15 DEF VerifyOwner, DvAt, DvBecomes, DvIdle
<1>16. ASSUME NEW q \in DvRequests, tokenStore(q) PROVE FlowTypes'
  BY <1>16 DEF tokenStore, Stored, DvAt, DvBecomes, DvIdle
<1> QED
  BY <1>1, <1>2, <1>3, <1>4, <1>5, <1>6, <1>7, <1>8, <1>9, <1>10, <1>11, <1>12, <1>13, <1>14, <1>15, <1>16 DEF DvNext

LEMMA RowTypesStep ==
  ASSUME DvConstants, DvInv, DvNext
  PROVE  RowTypes'
<1> USE DvConstants DEF DvInv, RowTypes, CredRows
<1>1. ASSUME DvTick PROVE RowTypes'
  BY <1>1 DEF DvTick
<1>2. ASSUME SweepLoginFlows PROVE RowTypes'
  BY <1>2 DEF SweepLoginFlows, NoFlow
<1>3. ASSUME NEW q \in DvRequests, Begin(q) PROVE RowTypes'
  BY <1>3 DEF Begin, DvBegins, NoFlow
<1>4. ASSUME NEW q \in DvRequests, Approve(q) PROVE RowTypes'
  BY <1>4 DEF Approve, DvBegins, DvBecomes
<1>5. ASSUME NEW q \in DvRequests, ApproveLoginFlow(q) PROVE RowTypes'
  BY <1>5 DEF ApproveLoginFlow, Approves, DvAt, DvBecomes, DvIdle
<1>6. ASSUME NEW q \in DvRequests, Poll(q) PROVE RowTypes'
  BY <1>6 DEF Poll, DvBegins, DvBecomes, TouchLoginFlowPoll
<1>7. ASSUME NEW q \in DvRequests, MintSyncCredential(q) PROVE RowTypes'
  <2>1. dvReq[q].user \in Owners /\ DvNever \in Nat
    BY <1>7, RequestHolds DEF MintSyncCredential, DvAt, DvNever
  <2> QED
    BY <1>7, <2>1, RowMade DEF MintSyncCredential
<1>8. ASSUME NEW q \in DvRequests, DropLoginFlow(q) PROVE RowTypes'
  BY <1>8 DEF DropLoginFlow, DvAt, DvBecomes, NoFlow, DvIdle
<1>9. ASSUME NEW q \in DvRequests, MintAppPassword(q) PROVE RowTypes'
  <2>1. PICK u \in dvOn, expires \in {DvNever, dvClock + 1} : CreateAppPassword(Fresh, u, expires)
    BY <1>9 DEF MintAppPassword
  <2>2. expires \in Nat
    BY DEF FlowTypes, DvNever
  <2> QED
    BY <1>9, <2>1, <2>2, RowMade DEF MintAppPassword
<1>10. ASSUME NEW q \in DvRequests, RevokeAppPassword(q) PROVE RowTypes'
  BY <1>10 DEF RevokeAppPassword, DvBegins, DvBecomes, DvBumping
<1>11. ASSUME NEW q \in DvRequests, RequestWipe(q) PROVE RowTypes'
  BY <1>11 DEF RequestWipe, DvBegins, DvBecomes, DvBumping
<1>12. ASSUME NEW q \in DvRequests, SetDisabled(q) PROVE RowTypes'
  BY <1>12 DEF SetDisabled, DvBegins, DvBecomes, DvBumping
<1>13. ASSUME NEW q \in DvRequests, BumpGeneration(q) PROVE RowTypes'
  BY <1>13 DEF BumpGeneration, DvAt, DvBecomes, DvIdle
<1>14. ASSUME NEW q \in DvRequests, VerifyAppPasswordID(q) PROVE RowTypes'
  BY <1>14 DEF VerifyAppPasswordID, DvBegins, DvBecomes
<1>15. ASSUME NEW q \in DvRequests, VerifyOwner(q) PROVE RowTypes'
  BY <1>15 DEF VerifyOwner, DvAt, DvBecomes, DvIdle
<1>16. ASSUME NEW q \in DvRequests, tokenStore(q) PROVE RowTypes'
  <2>1. dvReq[q] \in TokenReqs
    BY <1>16, RequestHolds DEF tokenStore, DvAt
  <2>2. [gen |-> dvReq[q].gen, inserted |-> dvClock, expires |-> dvReq[q].expires]
          \in [gen : Nat, inserted : Nat, expires : Nat]
    BY <2>1 DEF TokenReqs, FlowTypes
  <2> QED
    BY <1>16, <2>2 DEF tokenStore, Stored
<1> QED
  BY <1>1, <1>2, <1>3, <1>4, <1>5, <1>6, <1>7, <1>8, <1>9, <1>10, <1>11, <1>12, <1>13, <1>14, <1>15, <1>16 DEF DvNext

LEMMA ReqTypesStep ==
  ASSUME DvConstants, DvInv, DvNext
  PROVE  ReqTypes'
<1> USE DvConstants DEF DvInv, ReqTypes, DeviceReqs, FlowReqs, MintedReqs, TokenReqs, DvIdle, DvBumping
<1>1. ASSUME DvTick PROVE ReqTypes'
  BY <1>1 DEF DvTick
<1>2. ASSUME SweepLoginFlows PROVE ReqTypes'
  BY <1>2 DEF SweepLoginFlows, NoFlow
<1>3. ASSUME NEW q \in DvRequests, Begin(q) PROVE ReqTypes'
  BY <1>3 DEF Begin, DvBegins, NoFlow
<1>4. ASSUME NEW q \in DvRequests, Approve(q) PROVE ReqTypes'
  <2>1. PICK f \in Flows, u \in dvOn : DvBecomes(q, [op |-> "approve", flow |-> f, user |-> u])
    BY <1>4 DEF Approve
  <2>2. [op |-> "approve", flow |-> f, user |-> u] \in DeviceReqs
    BY DEF RowTypes
  <2> QED
    BY <2>1, <2>2, OneMoves
<1>5. ASSUME NEW q \in DvRequests, ApproveLoginFlow(q) PROVE ReqTypes'
  BY <1>5 DEF ApproveLoginFlow, Approves, DvAt, DvBecomes
<1>6. ASSUME NEW q \in DvRequests, Poll(q) PROVE ReqTypes'
  <2>1. CASE UNCHANGED dvReq
    BY <2>1
  <2>2. ASSUME NEW f \in Flows, dvFlow[f].approved \in Owners,
               DvBecomes(q, [op |-> "mint", flow |-> f, user |-> dvFlow[f].approved])
        PROVE ReqTypes'
    <3>1. [op |-> "mint", flow |-> f, user |-> dvFlow[f].approved] \in DeviceReqs
      BY <2>2
    <3> QED
      BY <2>2, <3>1, OneMoves
  <2> QED
    BY <1>6, <2>1, <2>2, PollOutcome
<1>7. ASSUME NEW q \in DvRequests, MintSyncCredential(q) PROVE ReqTypes'
  BY <1>7 DEF MintSyncCredential, DvAt, DvBecomes
<1>8. ASSUME NEW q \in DvRequests, DropLoginFlow(q) PROVE ReqTypes'
  BY <1>8 DEF DropLoginFlow, DvAt, DvBecomes, NoFlow
<1>9. ASSUME NEW q \in DvRequests, MintAppPassword(q) PROVE ReqTypes'
  BY <1>9 DEF MintAppPassword, DvBegins, DvBecomes, DvNever
<1>10. ASSUME NEW q \in DvRequests, RevokeAppPassword(q) PROVE ReqTypes'
  BY <1>10 DEF RevokeAppPassword, DvBegins, DvBecomes
<1>11. ASSUME NEW q \in DvRequests, RequestWipe(q) PROVE ReqTypes'
  BY <1>11 DEF RequestWipe, DvBegins, DvBecomes
<1>12. ASSUME NEW q \in DvRequests, SetDisabled(q) PROVE ReqTypes'
  BY <1>12 DEF SetDisabled, DvBegins, DvBecomes
<1>13. ASSUME NEW q \in DvRequests, BumpGeneration(q) PROVE ReqTypes'
  BY <1>13 DEF BumpGeneration, DvAt, DvBecomes
<1>14. ASSUME NEW q \in DvRequests, VerifyAppPasswordID(q) PROVE ReqTypes'
  <2>1. CASE UNCHANGED dvReq
    BY <2>1
  <2>2. ASSUME NEW r \in TokenReqs, DvBecomes(q, r) PROVE ReqTypes'
    BY <2>2, OneMoves
  <2> QED
    BY <1>14, <2>1, <2>2, VerifyOutcome
<1>15. ASSUME NEW q \in DvRequests, VerifyOwner(q) PROVE ReqTypes'
  BY <1>15 DEF VerifyOwner, DvAt, DvBecomes
<1>16. ASSUME NEW q \in DvRequests, tokenStore(q) PROVE ReqTypes'
  BY <1>16 DEF tokenStore, Stored, DvAt, DvBecomes
<1> QED
  BY <1>1, <1>2, <1>3, <1>4, <1>5, <1>6, <1>7, <1>8, <1>9, <1>10, <1>11, <1>12, <1>13, <1>14, <1>15, <1>16 DEF DvNext

LEMMA NumberedStep ==
  ASSUME DvConstants, DvInv, DvNext
  PROVE  NumberedInv'
<1> USE DvConstants DEF DvInv, NumberedInv
<1>1. ASSUME DvTick PROVE NumberedInv'
  BY <1>1 DEF DvTick
<1>2. ASSUME SweepLoginFlows PROVE NumberedInv'
  BY <1>2 DEF SweepLoginFlows, NoFlow
<1>3. ASSUME NEW q \in DvRequests, Begin(q) PROVE NumberedInv'
  BY <1>3 DEF Begin, DvBegins, NoFlow
<1>4. ASSUME NEW q \in DvRequests, Approve(q) PROVE NumberedInv'
  BY <1>4 DEF Approve, DvBegins, DvBecomes
<1>5. ASSUME NEW q \in DvRequests, ApproveLoginFlow(q) PROVE NumberedInv'
  BY <1>5 DEF ApproveLoginFlow, Approves, DvAt, DvBecomes, DvIdle
<1>6. ASSUME NEW q \in DvRequests, Poll(q) PROVE NumberedInv'
  BY <1>6 DEF Poll, DvBegins, DvBecomes, TouchLoginFlowPoll
<1>7. ASSUME NEW q \in DvRequests, MintSyncCredential(q) PROVE NumberedInv'
  <2>1. dvReq[q].user \in Owners /\ DvNever \in Nat
    BY <1>7, RequestHolds DEF MintSyncCredential, DvAt, DvNever
  <2>2. DOMAIN dvCred' = DOMAIN dvCred \cup {Fresh}
    BY <1>7, <2>1, RowMade DEF MintSyncCredential
  <2> QED
    BY <1>7, <2>2, FreshIsNew DEF MintSyncCredential
<1>8. ASSUME NEW q \in DvRequests, DropLoginFlow(q) PROVE NumberedInv'
  BY <1>8 DEF DropLoginFlow, DvAt, DvBecomes, NoFlow, DvIdle
<1>9. ASSUME NEW q \in DvRequests, MintAppPassword(q) PROVE NumberedInv'
  <2>2. DOMAIN dvCred' = DOMAIN dvCred \cup {Fresh}
    BY <1>9 DEF MintAppPassword, CreateAppPassword
  <2> QED
    BY <1>9, <2>2, FreshIsNew DEF MintAppPassword
<1>10. ASSUME NEW q \in DvRequests, RevokeAppPassword(q) PROVE NumberedInv'
  BY <1>10 DEF RevokeAppPassword, DvBegins, DvBecomes, DvBumping
<1>11. ASSUME NEW q \in DvRequests, RequestWipe(q) PROVE NumberedInv'
  BY <1>11 DEF RequestWipe, DvBegins, DvBecomes, DvBumping
<1>12. ASSUME NEW q \in DvRequests, SetDisabled(q) PROVE NumberedInv'
  BY <1>12 DEF SetDisabled, DvBegins, DvBecomes, DvBumping
<1>13. ASSUME NEW q \in DvRequests, BumpGeneration(q) PROVE NumberedInv'
  BY <1>13 DEF BumpGeneration, DvAt, DvBecomes, DvIdle
<1>14. ASSUME NEW q \in DvRequests, VerifyAppPasswordID(q) PROVE NumberedInv'
  BY <1>14 DEF VerifyAppPasswordID, DvBegins, DvBecomes
<1>15. ASSUME NEW q \in DvRequests, VerifyOwner(q) PROVE NumberedInv'
  BY <1>15 DEF VerifyOwner, DvAt, DvBecomes, DvIdle
<1>16. ASSUME NEW q \in DvRequests, tokenStore(q) PROVE NumberedInv'
  <2>1. dvReq[q].cred \in DOMAIN dvCred
    BY <1>16 DEF tokenStore, DvAt, CopiesInv
  <2> QED
    BY <1>16, <2>1 DEF tokenStore, Stored
<1> QED
  BY <1>1, <1>2, <1>3, <1>4, <1>5, <1>6, <1>7, <1>8, <1>9, <1>10, <1>11, <1>12, <1>13, <1>14, <1>15, <1>16 DEF DvNext

LEMMA FlowStep ==
  ASSUME DvConstants, DvInv, DvNext
  PROVE  FlowInv'
<1> USE DvConstants DEF DvInv, FlowInv, FlowTypes, DvConstants
<1>1. ASSUME DvTick PROVE FlowInv'
  BY <1>1 DEF DvTick
<1>2. ASSUME SweepLoginFlows PROVE FlowInv'
  BY <1>2 DEF SweepLoginFlows, NoFlow
<1>3. ASSUME NEW q \in DvRequests, Begin(q) PROVE FlowInv'
  BY <1>3 DEF Begin, DvBegins, NoFlow
<1>4. ASSUME NEW q \in DvRequests, Approve(q) PROVE FlowInv'
  BY <1>4 DEF Approve, DvBegins, DvBecomes
<1>5. ASSUME NEW q \in DvRequests, ApproveLoginFlow(q) PROVE FlowInv'
  <2>1. dvReq[q].flow \in Flows /\ dvReq[q].user \in Owners
    BY <1>5, RequestHolds DEF ApproveLoginFlow, DvAt
  <2>2. dvReq'[q].op = "idle" /\ \A p \in DvRequests \ {q} : dvReq'[p] = dvReq[p]
    BY <1>5, OneMoves DEF ApproveLoginFlow, DvIdle, DeviceReqs
  <2>3. CASE UNCHANGED <<dvFlow, dvSaid>>
    BY <1>5, <2>2, <2>3 DEF ApproveLoginFlow
  <2>4. CASE /\ dvFlow[dvReq[q].flow].live /\ dvFlow[dvReq[q].flow].approved = DvNobody
             /\ Approves(dvReq[q].flow, dvReq[q].user)
    <3> DEFINE f == dvReq[q].flow
               u == dvReq[q].user
    <3>1. dvSaid[f] = DvNobody
      BY <2>1, <2>4
    <3>2. /\ dvFlow'[f].approved = u /\ dvSaid'[f] = u
          /\ \A g \in Flows \ {f} : dvFlow'[g] = dvFlow[g] /\ dvSaid'[g] = dvSaid[g]
      BY <2>1, <2>4, <3>1 DEF Approves, FlowRows
    <3>3. \A p \in DvRequests : dvReq[p].op = "mint" =>
             dvReq[p].flow \in Flows \ {f} /\ dvSaid[dvReq[p].flow] = dvReq[p].user
      BY <3>1, RequestHolds
    <3>4. \A m \in dvMinted : m.flow \in Flows \ {f} /\ dvSaid[m.flow] = m.user
      BY <3>1
    <3>5. dvMinted' = dvMinted
      BY <1>5 DEF ApproveLoginFlow
    <3>6. \A g \in Flows :
         /\ dvFlow'[g].live /\ dvFlow'[g].approved = DvNobody => dvSaid'[g] = DvNobody
         /\ dvFlow'[g].approved # DvNobody => dvSaid'[g] = dvFlow'[g].approved
      BY <2>1, <3>2
    <3> QED
      BY <2>2, <3>2, <3>3, <3>4, <3>5, <3>6
  <2> QED
    BY <1>5, <2>3, <2>4 DEF ApproveLoginFlow
<1>6. ASSUME NEW q \in DvRequests, Poll(q) PROVE FlowInv'
  <2>0. UNCHANGED <<dvSaid, dvMinted>>
    BY <1>6 DEF Poll
  <2>1. ASSUME NEW f \in Flows, NEW n \in Nat, UNCHANGED dvReq, dvFlow' = [dvFlow EXCEPT ![f].polled = n]
        PROVE FlowInv'
    <3>1. \A g \in Flows : dvFlow'[g].live = dvFlow[g].live /\ dvFlow'[g].approved = dvFlow[g].approved
      BY <2>1 DEF FlowRows
    <3> QED
      BY <2>0, <2>1, <3>1
  <2>2. ASSUME NEW f \in Flows, dvFlow[f].approved \in Owners, UNCHANGED dvFlow,
               DvBecomes(q, [op |-> "mint", flow |-> f, user |-> dvFlow[f].approved])
        PROVE FlowInv'
    <3> DEFINE r == [op |-> "mint", flow |-> f, user |-> dvFlow[f].approved]
    <3>1. r \in DeviceReqs
      BY <2>2 DEF DeviceReqs, FlowReqs
    <3>2. dvReq'[q] = r /\ \A p \in DvRequests \ {q} : dvReq'[p] = dvReq[p]
      BY <2>2, <3>1, OneMoves
    <3>3. dvSaid[f] = dvFlow[f].approved
      BY <2>2
    <3> QED
      BY <2>0, <2>2, <3>2, <3>3
  <2>3. PICK f \in Flows :
              \/ UNCHANGED dvReq /\ \E n \in Nat : dvFlow' = [dvFlow EXCEPT ![f].polled = n]
              \/ /\ UNCHANGED dvFlow /\ dvFlow[f].approved \in Owners
                 /\ DvBecomes(q, [op |-> "mint", flow |-> f, user |-> dvFlow[f].approved])
    BY <1>6, PollOutcome
  <2> HIDE DEF FlowInv
  <2> QED
    BY <2>1, <2>2, <2>3
<1>7. ASSUME NEW q \in DvRequests, MintSyncCredential(q) PROVE FlowInv'
  BY <1>7 DEF MintSyncCredential, DvAt, DvBecomes
<1>8. ASSUME NEW q \in DvRequests, DropLoginFlow(q) PROVE FlowInv'
  BY <1>8 DEF DropLoginFlow, DvAt, DvBecomes, NoFlow, DvIdle
<1>9. ASSUME NEW q \in DvRequests, MintAppPassword(q) PROVE FlowInv'
  BY <1>9 DEF MintAppPassword, DvBegins, DvBecomes, DvNever, DvBumping
<1>10. ASSUME NEW q \in DvRequests, RevokeAppPassword(q) PROVE FlowInv'
  BY <1>10 DEF RevokeAppPassword, DvBegins, DvBecomes, DvBumping
<1>11. ASSUME NEW q \in DvRequests, RequestWipe(q) PROVE FlowInv'
  BY <1>11 DEF RequestWipe, DvBegins, DvBecomes, DvBumping
<1>12. ASSUME NEW q \in DvRequests, SetDisabled(q) PROVE FlowInv'
  BY <1>12 DEF SetDisabled, DvBegins, DvBecomes, DvBumping
<1>13. ASSUME NEW q \in DvRequests, BumpGeneration(q) PROVE FlowInv'
  BY <1>13 DEF BumpGeneration, DvAt, DvBecomes, DvIdle
<1>14. ASSUME NEW q \in DvRequests, VerifyAppPasswordID(q) PROVE FlowInv'
  <2>1. \A p \in DvRequests : dvReq'[p].op = "mint" => dvReq'[p] = dvReq[p]
    <3>1. ASSUME NEW r \in TokenReqs, DvBecomes(q, r)
          PROVE \A p \in DvRequests : dvReq'[p].op = "mint" => dvReq'[p] = dvReq[p]
      BY <3>1, OneMoves DEF TokenReqs, DeviceReqs
    <3> QED
      BY <1>14, <3>1, VerifyOutcome
  <2> QED
    BY <1>14, <2>1 DEF VerifyAppPasswordID
<1>15. ASSUME NEW q \in DvRequests, VerifyOwner(q) PROVE FlowInv'
  <2>1. \A p \in DvRequests : dvReq'[p].op = "mint" => dvReq'[p] = dvReq[p]
    BY <1>15, OwnerOutcome DEF DvIdle
  <2> QED
    BY <1>15, <2>1 DEF VerifyOwner
<1>16. ASSUME NEW q \in DvRequests, tokenStore(q) PROVE FlowInv'
  BY <1>16 DEF tokenStore, Stored, DvAt, DvBecomes, DvIdle
<1> QED
  BY <1>1, <1>2, <1>3, <1>4, <1>5, <1>6, <1>7, <1>8, <1>9, <1>10, <1>11, <1>12, <1>13, <1>14, <1>15, <1>16 DEF DvNext

LEMMA CopiesStep ==
  ASSUME DvConstants, DvInv, DvNext
  PROVE  CopiesInv'
<1> USE DvConstants DEF DvInv, CopiesInv, NumberedInv
<1>1. ASSUME DvTick PROVE CopiesInv'
  BY <1>1 DEF DvTick
<1>2. ASSUME SweepLoginFlows PROVE CopiesInv'
  BY <1>2 DEF SweepLoginFlows, NoFlow
<1>3. ASSUME NEW q \in DvRequests, Begin(q) PROVE CopiesInv'
  BY <1>3 DEF Begin, DvBegins, NoFlow
<1>4. ASSUME NEW q \in DvRequests, Approve(q) PROVE CopiesInv'
  BY <1>4 DEF Approve, DvBegins, DvBecomes
<1>5. ASSUME NEW q \in DvRequests, ApproveLoginFlow(q) PROVE CopiesInv'
  BY <1>5 DEF ApproveLoginFlow, Approves, DvAt, DvBecomes, DvIdle
<1>6. ASSUME NEW q \in DvRequests, Poll(q) PROVE CopiesInv'
  <2>1. \A p \in DvRequests : dvReq'[p].op \in {"account", "store"} => dvReq'[p] = dvReq[p]
    <3>1. ASSUME NEW f \in Flows, dvFlow[f].approved \in Owners,
                 DvBecomes(q, [op |-> "mint", flow |-> f, user |-> dvFlow[f].approved])
          PROVE \A p \in DvRequests : dvReq'[p].op \in {"account", "store"} => dvReq'[p] = dvReq[p]
      <4>1. [op |-> "mint", flow |-> f, user |-> dvFlow[f].approved] \in DeviceReqs
        BY <3>1 DEF DeviceReqs, FlowReqs
      <4> QED
        BY <3>1, <4>1, OneMoves
    <3> QED
      BY <1>6, <3>1, PollOutcome
  <2> QED
    BY <1>6, <2>1 DEF Poll
<1>7. ASSUME NEW q \in DvRequests, MintSyncCredential(q) PROVE CopiesInv'
  <2>1. \A p \in DvRequests : dvReq'[p].op \in {"account", "store"} => dvReq'[p] = dvReq[p]
    <3>1. [op |-> "minted", flow |-> dvReq[q].flow] \in DeviceReqs
      BY <1>7, RequestHolds DEF MintSyncCredential, DvAt, DeviceReqs, MintedReqs
    <3> QED
      BY <1>7, <3>1, OneMoves DEF MintSyncCredential
  <2>2. \A c \in DOMAIN dvCred : c \in DOMAIN dvCred' /\ dvCred'[c] = dvCred[c]
    <3>1. dvReq[q].user \in Owners /\ DvNever \in Nat
      BY <1>7, RequestHolds DEF MintSyncCredential, DvAt, DvNever
    <3> QED
      BY <1>7, <3>1, RowMade DEF MintSyncCredential
  <2> QED
    BY <1>7, <2>1, <2>2 DEF MintSyncCredential
<1>8. ASSUME NEW q \in DvRequests, DropLoginFlow(q) PROVE CopiesInv'
  <2>1. \A p \in DvRequests : dvReq'[p].op \in {"account", "store"} => dvReq'[p] = dvReq[p]
    <3>1. DvIdle \in DeviceReqs
      BY DEF DeviceReqs
    <3> QED
      BY <1>8, <3>1, OneMoves DEF DropLoginFlow, DvIdle
  <2> QED
    BY <1>8, <2>1, RequestHolds DEF TokenReqs, DropLoginFlow, FlowTypes, RowTypes
<1>9. ASSUME NEW q \in DvRequests, MintAppPassword(q) PROVE CopiesInv'
  <2>1. \A p \in DvRequests : dvReq'[p].op \in {"account", "store"} => dvReq'[p] = dvReq[p]
    <3>1. DvBumping \in DeviceReqs
      BY DEF DeviceReqs
    <3> QED
      BY <1>9, <3>1, OneMoves DEF MintAppPassword, DvBumping
  <2>2. \A c \in DOMAIN dvCred : c \in DOMAIN dvCred' /\ dvCred'[c] = dvCred[c]
    <3>1. PICK u \in dvOn, expires \in {DvNever, dvClock + 1} : CreateAppPassword(Fresh, u, expires)
      BY <1>9 DEF MintAppPassword
    <3>2. expires \in Nat /\ u \in Owners
      BY DEF FlowTypes, RowTypes, DvNever
    <3> QED
      BY <3>1, <3>2, RowMade
  <2> QED
    BY <1>9, <2>1, <2>2 DEF MintAppPassword
<1>10. ASSUME NEW q \in DvRequests, RevokeAppPassword(q) PROVE CopiesInv'
  BY <1>10 DEF RevokeAppPassword, DvBegins, DvBecomes, DvBumping
<1>11. ASSUME NEW q \in DvRequests, RequestWipe(q) PROVE CopiesInv'
  BY <1>11 DEF RequestWipe, DvBegins, DvBecomes, DvBumping
<1>12. ASSUME NEW q \in DvRequests, SetDisabled(q) PROVE CopiesInv'
  BY <1>12 DEF SetDisabled, DvBegins, DvBecomes, DvBumping
<1>13. ASSUME NEW q \in DvRequests, BumpGeneration(q) PROVE CopiesInv'
  <2>1. \A p \in DvRequests : dvReq'[p].op \in {"account", "store"} => dvReq'[p] = dvReq[p]
    <3>1. DvIdle \in DeviceReqs
      BY DEF DeviceReqs
    <3> QED
      BY <1>13, <3>1, OneMoves DEF BumpGeneration, DvIdle
  <2> QED
    BY <1>13, <2>1, RequestHolds DEF TokenReqs, BumpGeneration, FlowTypes, RowTypes
<1>14. ASSUME NEW q \in DvRequests, VerifyAppPasswordID(q) PROVE CopiesInv'
  <2>1. CASE UNCHANGED dvReq
    BY <1>14, <2>1 DEF VerifyAppPasswordID
  <2>2. ASSUME NEW c \in DOMAIN dvCred, NEW r \in TokenReqs, DvBecomes(q, r),
               r = [op |-> "account", cred |-> c, user |-> dvCred[c].user, expires |-> dvCred[c].expires,
                    gen |-> dvGen]
        PROVE CopiesInv'
    <3>1. dvReq'[q] = r /\ \A p \in DvRequests \ {q} : dvReq'[p] = dvReq[p]
      BY <2>2, OneMoves DEF DeviceReqs
    <3> QED
      BY <1>14, <2>2, <3>1 DEF VerifyAppPasswordID, FlowTypes
  <2> QED
    BY <1>14, <2>1, <2>2, VerifyOutcome
<1>15. ASSUME NEW q \in DvRequests, VerifyOwner(q) PROVE CopiesInv'
  <2>1. \A p \in DvRequests : dvReq'[p].op \in {"account", "store"} =>
          /\ dvReq[p].op \in {"account", "store"} /\ dvReq'[p].cred = dvReq[p].cred
          /\ dvReq'[p].user = dvReq[p].user /\ dvReq'[p].expires = dvReq[p].expires
          /\ dvReq'[p].gen = dvReq[p].gen
    BY <1>15, OwnerOutcome DEF DvIdle
  <2> QED
    BY <1>15, <2>1 DEF VerifyOwner
<1>16. ASSUME NEW q \in DvRequests, tokenStore(q) PROVE CopiesInv'
  BY <1>16 DEF tokenStore, Stored, DvAt, DvBecomes, DvIdle
<1> QED
  BY <1>1, <1>2, <1>3, <1>4, <1>5, <1>6, <1>7, <1>8, <1>9, <1>10, <1>11, <1>12, <1>13, <1>14, <1>15, <1>16 DEF DvNext

LEMMA TokensStep ==
  ASSUME DvConstants, DvInv, DvNext
  PROVE  TokensInv'
<1> USE DvConstants DEF DvInv, TokensInv, Revoking, Sound, CopiesInv, NumberedInv
<1>1. ASSUME DvTick PROVE TokensInv'
  BY <1>1 DEF DvTick
<1>2. ASSUME SweepLoginFlows PROVE TokensInv'
  BY <1>2 DEF SweepLoginFlows, NoFlow
<1>3. ASSUME NEW q \in DvRequests, Begin(q) PROVE TokensInv'
  BY <1>3 DEF Begin, DvBegins, NoFlow
<1>4. ASSUME NEW q \in DvRequests, Approve(q) PROVE TokensInv'
  <2>1. \A p \in DvRequests : dvReq'[p].op \in {"account", "store", "bump", "minted"} => dvReq'[p] = dvReq[p]
    <3>1. PICK f \in Flows, u \in dvOn : DvBecomes(q, [op |-> "approve", flow |-> f, user |-> u])
      BY <1>4 DEF Approve
    <3>2. [op |-> "approve", flow |-> f, user |-> u] \in DeviceReqs
      BY DEF RowTypes, DeviceReqs, FlowReqs
    <3> QED
      BY <3>1, <3>2, OneMoves
  <2>2. dvReq[q].op = "idle"
    BY <1>4 DEF Approve, DvBegins, DvIdle
  <2>3. Revoking => Revoking'
    BY <1>4, <2>2, OneStays DEF Approve
  <2> QED
    BY <1>4, <2>1, <2>3 DEF Approve
<1>5. ASSUME NEW q \in DvRequests, ApproveLoginFlow(q) PROVE TokensInv'
  BY <1>5 DEF ApproveLoginFlow, Approves, DvAt, DvBecomes, DvIdle
<1>6. ASSUME NEW q \in DvRequests, Poll(q) PROVE TokensInv'
  <2>1. \A p \in DvRequests : dvReq'[p].op \in {"account", "store"} => dvReq'[p] = dvReq[p]
    <3>1. ASSUME NEW f \in Flows, dvFlow[f].approved \in Owners,
                 DvBecomes(q, [op |-> "mint", flow |-> f, user |-> dvFlow[f].approved])
          PROVE \A p \in DvRequests : dvReq'[p].op \in {"account", "store"} => dvReq'[p] = dvReq[p]
      <4>1. [op |-> "mint", flow |-> f, user |-> dvFlow[f].approved] \in DeviceReqs
        BY <3>1 DEF DeviceReqs, FlowReqs
      <4> QED
        BY <3>1, <4>1, OneMoves
    <3> QED
      BY <1>6, <3>1, PollOutcome
  <2>2. dvReq[q].op = "idle"
    BY <1>6 DEF Poll, DvBegins, DvIdle
  <2>3. Revoking => Revoking'
    BY <1>6, <2>2, OneStays, PollOutcome DEF Poll
  <2> QED
    BY <1>6, <2>1, <2>3 DEF Poll
<1>7. ASSUME NEW q \in DvRequests, MintSyncCredential(q) PROVE TokensInv'
  <2>1. dvReq'[q].op \in {"bump", "minted"}
    <3>1. [op |-> "minted", flow |-> dvReq[q].flow] \in DeviceReqs
      BY <1>7, RequestHolds DEF MintSyncCredential, DvAt, DeviceReqs, MintedReqs
    <3> QED
      BY <1>7, <3>1, OneMoves DEF MintSyncCredential
  <2> QED
    BY <2>1
<1>8. ASSUME NEW q \in DvRequests, DropLoginFlow(q) PROVE TokensInv'
  <2>1. \A p \in DvRequests : dvReq'[p].op \in {"account", "store"} => dvReq'[p] = dvReq[p]
    <3>1. DvIdle \in DeviceReqs
      BY DEF DeviceReqs
    <3> QED
      BY <1>8, <3>1, OneMoves DEF DropLoginFlow, DvIdle
  <2>2. /\ \A p \in DvRequests : dvReq[p].op \in {"account", "store"} => dvReq[p].gen # dvGen'
        /\ \A c \in DOMAIN dvCache : dvCache[c].gen # dvGen'
    BY <1>8, RequestHolds DEF DropLoginFlow, TokenReqs, FlowTypes, RowTypes
  <2>3. UNCHANGED <<dvCred, dvOn, dvCache>>
    BY <1>8 DEF DropLoginFlow
  <2> QED
    BY <2>1, <2>2, <2>3
<1>9. ASSUME NEW q \in DvRequests, MintAppPassword(q) PROVE TokensInv'
  <2>1. dvReq'[q].op \in {"bump", "minted"}
    <3>1. DvBumping \in DeviceReqs
      BY DEF DeviceReqs
    <3> QED
      BY <1>9, <3>1, OneMoves DEF MintAppPassword, DvBumping
  <2> QED
    BY <2>1
<1>10. ASSUME NEW q \in DvRequests, RevokeAppPassword(q) PROVE TokensInv'
  <2>1. dvReq'[q].op \in {"bump", "minted"}
    <3>1. DvBumping \in DeviceReqs
      BY DEF DeviceReqs
    <3> QED
      BY <1>10, <3>1, OneMoves DEF RevokeAppPassword, DvBumping
  <2> QED
    BY <2>1
<1>11. ASSUME NEW q \in DvRequests, RequestWipe(q) PROVE TokensInv'
  <2>1. dvReq'[q].op \in {"bump", "minted"}
    <3>1. DvBumping \in DeviceReqs
      BY DEF DeviceReqs
    <3> QED
      BY <1>11, <3>1, OneMoves DEF RequestWipe, DvBumping
  <2> QED
    BY <2>1
<1>12. ASSUME NEW q \in DvRequests, SetDisabled(q) PROVE TokensInv'
  <2>1. dvReq'[q].op \in {"bump", "minted"}
    <3>1. DvBumping \in DeviceReqs
      BY DEF DeviceReqs
    <3> QED
      BY <1>12, <3>1, OneMoves DEF SetDisabled, DvBumping
  <2> QED
    BY <2>1
<1>13. ASSUME NEW q \in DvRequests, BumpGeneration(q) PROVE TokensInv'
  <2>1. \A p \in DvRequests : dvReq'[p].op \in {"account", "store"} => dvReq'[p] = dvReq[p]
    <3>1. DvIdle \in DeviceReqs
      BY DEF DeviceReqs
    <3> QED
      BY <1>13, <3>1, OneMoves DEF BumpGeneration, DvIdle
  <2>2. /\ \A p \in DvRequests : dvReq[p].op \in {"account", "store"} => dvReq[p].gen # dvGen'
        /\ \A c \in DOMAIN dvCache : dvCache[c].gen # dvGen'
    BY <1>13, RequestHolds DEF BumpGeneration, TokenReqs, FlowTypes, RowTypes
  <2>3. UNCHANGED <<dvCred, dvOn, dvCache>>
    BY <1>13 DEF BumpGeneration
  <2> QED
    BY <2>1, <2>2, <2>3
<1>14. ASSUME NEW q \in DvRequests, VerifyAppPasswordID(q) PROVE TokensInv'
  <2>1. CASE UNCHANGED dvReq
    BY <1>14, <2>1 DEF VerifyAppPasswordID
  <2>2. ASSUME NEW c \in DOMAIN dvCred, Sound(c), NEW r \in TokenReqs, DvBecomes(q, r),
               r = [op |-> "account", cred |-> c, user |-> dvCred[c].user, expires |-> dvCred[c].expires,
                    gen |-> dvGen]
        PROVE TokensInv'
    <3>1. dvReq'[q] = r /\ \A p \in DvRequests \ {q} : dvReq'[p] = dvReq[p]
      BY <2>2, OneMoves DEF DeviceReqs
    <3>2. dvReq[q].op = "idle"
      BY <1>14 DEF VerifyAppPasswordID, DvBegins, DvIdle
    <3>3. Revoking => Revoking'
      BY <2>2, <3>2, OneStays
    <3> QED
      BY <1>14, <2>2, <3>1, <3>3 DEF VerifyAppPasswordID
  <2> QED
    BY <1>14, <2>1, <2>2, VerifyOutcome
<1>15. ASSUME NEW q \in DvRequests, VerifyOwner(q) PROVE TokensInv'
  <2>1. dvReq[q].op = "account" /\ dvReq[q].user = dvCred[dvReq[q].cred].user
    BY <1>15 DEF VerifyOwner, DvAt
  <2>2. \A p \in DvRequests : dvReq'[p].op \in {"account", "store"} =>
          /\ dvReq[p].op \in {"account", "store"} /\ dvReq'[p].cred = dvReq[p].cred
          /\ dvReq'[p].gen = dvReq[p].gen /\ (p # q => dvReq'[p] = dvReq[p])
          /\ (p = q => dvReq[q].user \in dvOn)
    BY <1>15, OwnerOutcome DEF DvIdle
  <2>3. Revoking => Revoking'
    BY <1>15, <2>1, OwnerOutcome
  <2> QED
    BY <1>15, <2>1, <2>2, <2>3 DEF VerifyOwner
<1>16. ASSUME NEW q \in DvRequests, tokenStore(q) PROVE TokensInv'
  BY <1>16 DEF tokenStore, Stored, DvAt, DvBecomes, DvIdle
<1> QED
  BY <1>1, <1>2, <1>3, <1>4, <1>5, <1>6, <1>7, <1>8, <1>9, <1>10, <1>11, <1>12, <1>13, <1>14, <1>15, <1>16 DEF DvNext

LEMMA DeviceStart == ASSUME DvConstants PROVE DvInit => DvInv
<1> USE DEF DvInit
<1>1. DvInit => FlowTypes /\ RowTypes /\ ReqTypes
  BY DEF FlowTypes, RowTypes, ReqTypes, NoFlow, FlowRows, DeviceReqs
<1>2. DvInit => NumberedInv
  <2>1. 1 .. 0 = {} /\ DOMAIN <<>> = {}
    OBVIOUS
  <2> QED
    BY <2>1 DEF NumberedInv
<1>3. DvInit => FlowInv /\ CopiesInv /\ TokensInv
  BY DEF FlowInv, CopiesInv, TokensInv, DvIdle, NoFlow
<1> QED
  BY <1>1, <1>2, <1>3 DEF DvInv

\* The invariant of device login and app passwords, for any flows and requests.
THEOREM DeviceInvariant == ASSUME DvConstants PROVE DvSpec => []DvInv
<1>1. DvInit => DvInv
  BY DeviceStart
<1>2. DvInv /\ [DvNext]_dvVars => DvInv'
  <2>1. ASSUME DvInv, DvNext PROVE DvInv'
    BY <2>1, FlowTypesStep, RowTypesStep, ReqTypesStep, NumberedStep, FlowStep, CopiesStep, TokensStep DEF DvInv
  <2>2. ASSUME DvInv, UNCHANGED dvVars PROVE DvInv'
    BY <2>2 DEF DvInv, dvVars, FlowTypes, RowTypes, ReqTypes, NumberedInv, FlowInv, CopiesInv, TokensInv, Revoking, Sound
  <2> QED
    BY <2>1, <2>2
<1> QED
  BY <1>1, <1>2, PTL DEF DvSpec

\* Whatever a device login mints, it mints for the person who approved it first,
\* however many browsers approve it together (loginflow.go ApproveLoginFlow).
THEOREM FirstApproverMints == ASSUME DvConstants PROVE DvSpec => []FlowMintsForApprover
<1>1. DvInv => FlowMintsForApprover
  BY DEF DvInv, FlowInv, FlowMintsForApprover
<1> QED
  BY <1>1, DeviceInvariant, PTL

\* Between changes the token cache answers only for credentials that are neither
\* revoked nor wiped nor expired, of accounts that are enabled, although a
\* decision is stored some steps after its rows were read (apppw.go, cache.go).
THEOREM TokenCacheServesLive == ASSUME DvConstants PROVE DvSpec => []CacheServesLive
<1>1. DvInv => CacheServesLive
  BY DEF DvInv, RowTypes, FlowTypes, CopiesInv, TokensInv, Sound, CacheServesLive, tokenLookup
<1> QED
  BY <1>1, DeviceInvariant, PTL

------------------------------------------------------------------------------
(***************************************************************************)
(* Signing on through a provider, for any number of attempts, callbacks    *)
(* and keys.  An attempt is redeemed by the transaction that deletes its   *)
(* row.  A session is earned because a token that passes the claims names  *)
(* the attempt whose callback carries it, and what the provider says of an *)
(* attempt is the identity that signed on in it.  A withdrawn key runs out *)
(* with the cached set, which was read while the key was published.        *)
(***************************************************************************)

\* What the theorems ask of the constants: the mark for nobody names nothing, the
\* provider has a key, its set is cached for some time, and a token differs from
\* a genuine one in the ways Faulty knows.
OiConstants ==
    /\ None \notin Accounts \cup Identities
    /\ DOMAIN KeyOf # {} /\ OiMaxClock \in Nat /\ OiMaxClock >= 1 /\ JWKSTTL \in Nat /\ JWKSTTL > 0
    /\ Faults \subseteq {"forged", "no key", "alg", "own key", "critical", "issuer", "audience", "shared",
                         "party", "endless", "expired", "future", "nobody"}

------------------------------------------------------------------------------
(* The inductive invariant.                                                *)

\* Where the rows and the requests are.
RowsInv ==
    /\ oiFlow \in [Attempts -> [live : BOOLEAN, user : Accounts \cup {None}, created : Int]]
    /\ oiLink \in [Identities -> Accounts \cup {None}]
    /\ oiWho \in [Attempts -> Identities \cup {None}]
    /\ oiReq = [c \in Callbacks |-> oiReq[c]]

\* An attempt that has a row was not redeemed, and one without secrets has no row.
RedeemInv ==
    /\ oiRedeemed \in [Attempts -> {0, 1}]
    /\ \A f \in Attempts : /\ oiFlow[f].live => oiRedeemed[f] = 0 /\ oiWho[f] # None
                           /\ oiWho[f] = None => oiRedeemed[f] = 0

\* What a callback carries, by where it is: a token says of the attempt it names who signed on in it,
\* and one that was verified names the callback's own attempt.
SaysWho(t, who) == t.nonce \in Attempts /\ who[t.nonce] \in Identities /\ t.sub \in {who[t.nonce], ""}
OwnToken(r, who) == r.tok.nonce = r.flow /\ r.tok.sub = who[r.flow]
CarriesOK(r, who, consent) ==
    /\ r.op \in {"exchange", "key", "fetch", "complete", "session"} => r.flow \in Attempts /\ who[r.flow] \in Identities
    /\ r.op \in {"exchange", "key", "fetch", "complete"} => r.user \in Accounts \cup {None}
    /\ r.op \in {"key", "fetch"} => SaysWho(r.tok, who)
    /\ r.op \in {"complete", "session"} => OwnToken(r, who)
    /\ r.op = "session" => r.user \in Accounts /\ <<r.user, r.tok.sub>> \in consent
CarriedInv == \A c \in Callbacks : CarriesOK(oiReq[c], oiWho, oiConsent)

\* A session was earned, and what earned it stays.
SessionInv ==
    \A s \in oiSess : /\ s.flow \in Attempts /\ oiWho[s.flow] \in Identities
                      /\ OwnToken(s, oiWho) /\ <<s.user, s.tok.sub>> \in oiConsent

\* A key is published until it is withdrawn, once; the cached set was published when it was read,
\* and a key that verified a token had not been out of the published set for the set's lifetime.
ProviderKeyInv ==
    /\ oiClock \in 1 .. OiMaxClock /\ oiPub \subseteq DOMAIN KeyOf
    /\ oiGone \in [DOMAIN KeyOf -> Int]
    /\ \A k \in oiPub : oiGone[k] = OiMaxClock + JWKSTTL
    /\ oiKeys \in [at : Int, keys : SUBSET DOMAIN KeyOf] /\ oiKeys.at <= oiClock
    /\ \A k \in oiKeys.keys : oiKeys.at <= oiGone[k]
    /\ oiAccepted \subseteq [key : DOMAIN KeyOf, at : Int]
    /\ \A a \in oiAccepted : a.at <= oiClock /\ a.at < oiGone[a.key] + JWKSTTL
    /\ oiTurned = {}

OiInv == RowsInv /\ RedeemInv /\ CarriedInv /\ SessionInv /\ LinksOwn /\ ProviderKeyInv

------------------------------------------------------------------------------
(* The steps.                                                              *)

\* One callback moves.
LEMMA CallbackMoves ==
  ASSUME oiReq = [c \in Callbacks |-> oiReq[c]], NEW c \in Callbacks, NEW r, OiBecomes(c, r)
  PROVE  /\ oiReq' = [d \in Callbacks |-> oiReq'[d]] /\ oiReq'[c] = r
         /\ \A d \in Callbacks \ {c} : oiReq'[d] = oiReq[d]
BY DEF OiBecomes

\* A callback keeps what it carries while attempts keep who signed on in them and nothing attached
\* is forgotten.
LEMMA CarriedStays ==
  ASSUME NEW r, NEW who, NEW who2, NEW consent, NEW consent2,
         \A f \in Attempts : who[f] \in Identities => who2[f] = who[f],
         consent \subseteq consent2, CarriesOK(r, who, consent)
  PROVE  CarriesOK(r, who2, consent2)
BY DEF CarriesOK, SaysWho, OwnToken

LEMMA CarriedMoves ==
  ASSUME RowsInv, CarriedInv, NEW c \in Callbacks, NEW r, OiBecomes(c, r),
         UNCHANGED oiWho, oiConsent \subseteq oiConsent', CarriesOK(r, oiWho, oiConsent')
  PROVE  CarriedInv'
<1>1. oiReq'[c] = r /\ \A d \in Callbacks \ {c} : oiReq'[d] = oiReq[d]
  BY CallbackMoves DEF RowsInv
<1>2. ASSUME NEW d \in Callbacks PROVE CarriesOK(oiReq'[d], oiWho', oiConsent')
  <2>1. CASE d = c
    BY <1>1, <2>1
  <2>2. CASE d # c
    <3>1. CarriesOK(oiReq[d], oiWho, oiConsent)
      BY DEF CarriedInv
    <3>2. CarriesOK(oiReq[d], oiWho', oiConsent')
      BY <3>1, CarriedStays
    <3> QED
      BY <1>1, <2>2, <3>2
  <2> QED
    BY <2>1, <2>2
<1> QED
  BY <1>2 DEF CarriedInv

\* What a provider may answer to a callback of f (http.go exchange).
LEMMA TokensSayWho ==
  ASSUME OiConstants, RowsInv, NEW f \in Attempts, oiWho[f] \in Identities, NEW t \in TokenShapes(f)
  PROVE  SaysWho(t, oiWho)
<1>1. ASSUME NEW g \in Attempts, NEW k, oiWho[g] \in Identities
      PROVE  /\ Genuine(g, k).nonce = g /\ Genuine(g, k).sub = oiWho[g]
             /\ SaysWho(Genuine(g, k), oiWho)
  BY <1>1 DEF Genuine, SaysWho
<1>2. ASSUME NEW k \in oiPub, NEW fault \in Faults PROVE SaysWho(Faulty(Genuine(f, k), fault), oiWho)
  <2> DEFINE u == Genuine(f, k)
  <2>1. Faulty(u, fault).nonce = f /\ Faulty(u, fault).sub \in {oiWho[f], ""}
    BY <1>2, OiConstants DEF OiConstants, Faulty, Genuine
  <2> QED
    BY <2>1 DEF SaysWho
<1>3. CASE t \in {Genuine(g, k) : g \in {h \in Attempts : oiWho[h] # None}, k \in oiPub}
  <2>1. PICK g \in {h \in Attempts : oiWho[h] # None}, k \in oiPub : t = Genuine(g, k)
    BY <1>3
  <2>2. oiWho[g] \in Identities
    BY DEF RowsInv
  <2> QED
    BY <1>1, <2>1, <2>2
<1>4. CASE t \in {Faulty(Genuine(f, k), fault) : k \in oiPub, fault \in Faults}
  BY <1>2, <1>4
<1> QED
  BY <1>3, <1>4 DEF TokenShapes

\* What passes the claims names the callback's own attempt (authorize.go checkClaims).
LEMMA VerifiedCarries ==
  ASSUME RowsInv, CarriedInv, NEW c \in Callbacks, oiReq[c].op \in {"key", "fetch"}, Verified(c),
         UNCHANGED <<oiWho, oiConsent>>
  PROVE  CarriedInv' /\ oiReq' = [d \in Callbacks |-> oiReq'[d]]
<1> DEFINE t == oiReq[c].tok
           r == Carry(c, "complete", [nonce |-> t.nonce, sub |-> t.sub])
<1>1. CarriesOK(oiReq[c], oiWho, oiConsent)
  BY DEF CarriedInv
<1>2. CASE checkClaims(t, oiReq[c].flow) /\ OiBecomes(c, r)
  <2>1. t.nonce = oiReq[c].flow /\ t.sub = oiWho[oiReq[c].flow]
    BY <1>1, <1>2 DEF checkClaims, CarriesOK, SaysWho
  <2>2. CarriesOK(r, oiWho, oiConsent')
    BY <1>1, <2>1 DEF Carry, CarriesOK, OwnToken
  <2> QED
    BY <1>2, <2>2, CarriedMoves, CallbackMoves DEF RowsInv
<1>3. CASE Ends(c)
  <2>1. CarriesOK(OiIdle, oiWho, oiConsent')
    BY DEF CarriesOK, OiIdle
  <2> QED
    BY <1>3, <2>1, CarriedMoves, CallbackMoves DEF RowsInv, Ends
<1> QED
  BY <1>2, <1>3 DEF Verified

\* What a callback carries stays what it may carry, whichever step is taken.
LEMMA CarriedStep ==
  ASSUME OiConstants, OiInv, OiNext
  PROVE  CarriedInv' /\ oiReq' = [d \in Callbacks |-> oiReq'[d]]
<1> USE DEF OiInv
<1>a. \A r : r = OiIdle \/ r.op = "smb" => CarriesOK(r, oiWho, oiConsent')
  BY DEF CarriesOK, OiIdle
<1>b. ASSUME UNCHANGED oiReq, oiConsent \subseteq oiConsent',
             \A f \in Attempts : oiWho[f] \in Identities => oiWho'[f] = oiWho[f]
      PROVE  CarriedInv' /\ oiReq' = [d \in Callbacks |-> oiReq'[d]]
  <2>1. ASSUME NEW d \in Callbacks PROVE CarriesOK(oiReq[d], oiWho', oiConsent')
    <3>1. CarriesOK(oiReq[d], oiWho, oiConsent)
      BY DEF CarriedInv
    <3> QED
      BY <1>b, <3>1, CarriedStays
  <2> QED
    BY <1>b, <2>1 DEF CarriedInv, RowsInv
<1>c. ASSUME NEW c \in Callbacks, NEW r, OiBecomes(c, r), UNCHANGED oiWho, oiConsent \subseteq oiConsent',
             CarriesOK(r, oiWho, oiConsent')
      PROVE  CarriedInv' /\ oiReq' = [d \in Callbacks |-> oiReq'[d]]
  BY <1>c, CarriedMoves, CallbackMoves DEF RowsInv
<1>1. ASSUME RotateKeys \/ OiTick PROVE CarriedInv' /\ oiReq' = [d \in Callbacks |-> oiReq'[d]]
  BY <1>1, <1>b DEF RotateKeys, OiTick, oiStore
<1>2. ASSUME NEW f \in Attempts, Start(f) \/ LinkStart(f)
      PROVE  CarriedInv' /\ oiReq' = [d \in Callbacks |-> oiReq'[d]]
  <2>1. PICK u : begin(f, u)
    BY <1>2 DEF Start, LinkStart
  <2>2. \A g \in Attempts : oiWho[g] \in Identities => oiWho'[g] = oiWho[g]
    BY <2>1, OiConstants DEF begin, RowsInv, OiConstants
  <2>3. UNCHANGED <<oiReq, oiConsent>>
    BY <2>1 DEF begin
  <2> QED
    BY <1>b, <2>2, <2>3
<1>3. ASSUME NEW c \in Callbacks, Callback(c) PROVE CarriedInv' /\ oiReq' = [d \in Callbacks |-> oiReq'[d]]
  <2>0. UNCHANGED <<oiWho, oiConsent>>
    BY <1>3 DEF Callback, oiProvider
  <2>1. PICK f \in Attempts, binding \in Attempts, session \in Accounts \cup {None} :
          /\ TakeOIDCFlow(f)
          /\ IF binding = f
             THEN OiBecomes(c, [op |-> "exchange", flow |-> f, user |-> oiFlow[f].user,
                                session |-> IF oiFlow[f].user = None THEN None ELSE session])
             ELSE UNCHANGED oiReq
    BY <1>3 DEF Callback
  <2>2. CASE binding = f
    <3> DEFINE r == [op |-> "exchange", flow |-> f, user |-> oiFlow[f].user,
                     session |-> IF oiFlow[f].user = None THEN None ELSE session]
    <3>1. oiWho[f] \in Identities /\ oiFlow[f].user \in Accounts \cup {None}
      BY <2>1 DEF TakeOIDCFlow, RedeemInv, RowsInv
    <3>2. CarriesOK(r, oiWho, oiConsent')
      BY <3>1 DEF CarriesOK
    <3> HIDE DEF r
    <3>3. OiBecomes(c, r)
      BY <2>1, <2>2 DEF r
    <3> QED
      BY <1>c, <2>0, <3>2, <3>3
  <2>3. CASE binding # f
    BY <1>b, <2>0, <2>1, <2>3
  <2> QED
    BY <2>2, <2>3
<1>4. ASSUME NEW c \in Callbacks, TakeExpired(c) PROVE CarriedInv' /\ oiReq' = [d \in Callbacks |-> oiReq'[d]]
  BY <1>4, <1>b DEF TakeExpired, oiProvider
<1>5. ASSUME NEW c \in Callbacks, Exchange(c) PROVE CarriedInv' /\ oiReq' = [d \in Callbacks |-> oiReq'[d]]
  <2>0. UNCHANGED <<oiWho, oiConsent>>
    BY <1>5 DEF Exchange, oiProvider, oiStore
  <2>1. CarriesOK(oiReq[c], oiWho, oiConsent) /\ oiReq[c].op = "exchange"
    BY <1>5 DEF Exchange, OiAt, CarriedInv
  <2>2. ASSUME NEW t \in TokenShapes(oiReq[c].flow), OiBecomes(c, Carry(c, "key", t))
        PROVE  CarriedInv' /\ oiReq' = [d \in Callbacks |-> oiReq'[d]]
    <3>1. SaysWho(t, oiWho)
      BY <2>1, TokensSayWho DEF CarriesOK
    <3>2. CarriesOK(Carry(c, "key", t), oiWho, oiConsent')
      BY <2>1, <3>1 DEF CarriesOK, Carry
    <3> QED
      BY <1>c, <2>0, <2>2, <3>2
  <2>3. CASE Ends(c)
    BY <1>a, <1>c, <2>0, <2>3 DEF Ends
  <2> QED
    BY <1>5, <2>2, <2>3 DEF Exchange
<1>6. ASSUME NEW c \in Callbacks, VerifyIDToken(c) PROVE CarriedInv' /\ oiReq' = [d \in Callbacks |-> oiReq'[d]]
  <2>0. UNCHANGED <<oiWho, oiConsent>>
    BY <1>6 DEF VerifyIDToken, oiProvider, oiStore
  <2>1. CarriesOK(oiReq[c], oiWho, oiConsent) /\ oiReq[c].op = "key"
    BY <1>6 DEF VerifyIDToken, OiAt, CarriedInv
  <2>2. CASE Verified(c)
    BY <2>0, <2>1, <2>2, VerifiedCarries
  <2>3. CASE Ends(c)
    BY <1>a, <1>c, <2>0, <2>3 DEF Ends
  <2>4. CASE OiBecomes(c, Carry(c, "fetch", oiReq[c].tok))
    <3>1. CarriesOK(Carry(c, "fetch", oiReq[c].tok), oiWho, oiConsent')
      BY <2>1 DEF CarriesOK, Carry
    <3> QED
      BY <1>c, <2>0, <2>4, <3>1
  <2> QED
    BY <1>6, <2>2, <2>3, <2>4 DEF VerifyIDToken, keyFor
<1>7. ASSUME NEW c \in Callbacks, fetchJWKS(c) PROVE CarriedInv' /\ oiReq' = [d \in Callbacks |-> oiReq'[d]]
  <2>0. UNCHANGED <<oiWho, oiConsent>> /\ oiReq[c].op = "fetch"
    BY <1>7 DEF fetchJWKS, oiProvider, oiStore, OiAt
  <2>2. CASE Verified(c)
    BY <2>0, <2>2, VerifiedCarries
  <2>3. CASE Ends(c)
    BY <1>a, <1>c, <2>0, <2>3 DEF Ends
  <2> QED
    BY <1>7, <2>2, <2>3 DEF fetchJWKS
<1>8. ASSUME NEW c \in Callbacks, completeLink(c) PROVE CarriedInv' /\ oiReq' = [d \in Callbacks |-> oiReq'[d]]
  <2>0. UNCHANGED oiWho /\ oiConsent \subseteq oiConsent'
    BY <1>8 DEF completeLink, oiProvider
  <2>1. Ends(c) \/ \E u : OiBecomes(c, [op |-> "smb", user |-> u, on |-> FALSE])
    BY <1>8 DEF completeLink
  <2> QED
    BY <1>a, <1>c, <2>0, <2>1 DEF Ends
<1>9. ASSUME NEW c \in Callbacks, setSMBEnabled(c) PROVE CarriedInv' /\ oiReq' = [d \in Callbacks |-> oiReq'[d]]
  BY <1>a, <1>c, <1>9 DEF setSMBEnabled, oiProvider, Ends
<1>10. ASSUME NEW c \in Callbacks, UserForOIDCIdentity(c)
       PROVE  CarriedInv' /\ oiReq' = [d \in Callbacks |-> oiReq'[d]]
  <2>0. UNCHANGED <<oiWho, oiConsent>>
    BY <1>10 DEF UserForOIDCIdentity, oiProvider, oiStore
  <2>1. CarriesOK(oiReq[c], oiWho, oiConsent) /\ oiReq[c].op = "complete"
    BY <1>10 DEF UserForOIDCIdentity, OiAt, CarriedInv
  <2> DEFINE u == oiLink[oiReq[c].tok.sub]
             r == [op |-> "session", flow |-> oiReq[c].flow, user |-> u, tok |-> oiReq[c].tok]
  <2>2. CASE u # None /\ OiBecomes(c, r)
    <3>1. u \in Accounts /\ <<u, oiReq[c].tok.sub>> \in oiConsent
      BY <2>1, <2>2 DEF CarriesOK, OwnToken, RowsInv, LinksOwn
    <3>2. CarriesOK(r, oiWho, oiConsent')
      BY <2>0, <2>1, <3>1 DEF CarriesOK, OwnToken
    <3> QED
      BY <1>c, <2>0, <2>2, <3>2
  <2>3. CASE Ends(c)
    BY <1>a, <1>c, <2>0, <2>3 DEF Ends
  <2> QED
    BY <1>10, <2>2, <2>3 DEF UserForOIDCIdentity
<1>11. ASSUME NEW c \in Callbacks, completeSignIn(c) PROVE CarriedInv' /\ oiReq' = [d \in Callbacks |-> oiReq'[d]]
  BY <1>a, <1>c, <1>11 DEF completeSignIn, oiProvider, Ends
<1>12. ASSUME NEW c \in Callbacks, RemoveOIDCLink(c) PROVE CarriedInv' /\ oiReq' = [d \in Callbacks |-> oiReq'[d]]
  <2>1. \E u : OiBecomes(c, [op |-> "smb", user |-> u, on |-> TRUE])
    BY <1>12 DEF RemoveOIDCLink
  <2> QED
    BY <1>a, <1>c, <1>12, <2>1 DEF RemoveOIDCLink, oiProvider
<1> QED
  BY <1>1, <1>2, <1>3, <1>4, <1>5, <1>6, <1>7, <1>8, <1>9, <1>10, <1>11, <1>12 DEF OiNext

\* The actions of a callback that leave attempts, links, keys alone.
LEMMA RowsStep ==
  ASSUME OiConstants, OiInv, OiNext
  PROVE  RowsInv' /\ RedeemInv'
<1> USE DEF OiInv, RowsInv, RedeemInv
<1>0. oiReq' = [d \in Callbacks |-> oiReq'[d]]
  BY CarriedStep
<1>1. ASSUME UNCHANGED <<oiFlow, oiLink, oiWho, oiRedeemed>> PROVE RowsInv' /\ RedeemInv'
  BY <1>0, <1>1
<1>2. ASSUME NEW f \in Attempts, NEW u \in Accounts \cup {None}, begin(f, u) PROVE RowsInv' /\ RedeemInv'
  <2>1. oiClock \in Int /\ oiWho[f] = None
    BY <1>2 DEF begin, ProviderKeyInv
  <2>2. PICK i \in Identities : oiWho' = [oiWho EXCEPT ![f] = i]
    BY <1>2 DEF begin
  <2>3. /\ oiFlow' \in [Attempts -> [live : BOOLEAN, user : Accounts \cup {None}, created : Int]]
        /\ \A g \in Attempts \ {f} : oiFlow'[g].live => oiFlow[g].live
    BY <1>2, <2>1 DEF begin, StartOIDCFlow
  <2>4. UNCHANGED <<oiLink, oiRedeemed>>
    BY <1>2 DEF begin
  <2> QED
    BY <1>0, <2>1, <2>2, <2>3, <2>4, OiConstants DEF OiConstants
<1>3. ASSUME NEW f \in Attempts, oiFlow[f].live, oiFlow' = [oiFlow EXCEPT ![f].live = FALSE],
             oiRedeemed' \in {oiRedeemed, [oiRedeemed EXCEPT ![f] = @ + 1]}, UNCHANGED <<oiLink, oiWho>>
      PROVE  RowsInv' /\ RedeemInv'
  <2>1. /\ oiFlow' \in [Attempts -> [live : BOOLEAN, user : Accounts \cup {None}, created : Int]]
        /\ ~oiFlow'[f].live /\ \A g \in Attempts \ {f} : oiFlow'[g] = oiFlow[g]
    BY <1>3
  <2>2. /\ oiRedeemed' \in [Attempts -> {0, 1}]
        /\ \A g \in Attempts \ {f} : oiRedeemed'[g] = oiRedeemed[g]
    BY <1>3
  <2> QED
    BY <1>0, <1>3, <2>1, <2>2
<1>4. ASSUME NEW c \in Callbacks, Callback(c) PROVE RowsInv' /\ RedeemInv'
  <2>1. PICK f \in Attempts : /\ TakeOIDCFlow(f)
                              /\ oiRedeemed' \in {oiRedeemed, [oiRedeemed EXCEPT ![f] = @ + 1]}
    BY <1>4 DEF Callback
  <2> QED
    BY <1>3, <1>4, <2>1 DEF Callback, TakeOIDCFlow, oiProvider
<1>5. ASSUME NEW c \in Callbacks, TakeExpired(c) PROVE RowsInv' /\ RedeemInv'
  BY <1>3, <1>5 DEF TakeExpired, oiProvider
<1>6. ASSUME NEW c \in Callbacks, completeLink(c) PROVE RowsInv' /\ RedeemInv'
  <2>1. CarriesOK(oiReq[c], oiWho, oiConsent) /\ oiReq[c].op = "complete" /\ oiReq[c].user # None
    BY <1>6 DEF completeLink, OiAt, CarriedInv
  <2>2. oiReq[c].user \in Accounts
    BY <2>1 DEF CarriesOK
  <2>3. oiLink' \in [Identities -> Accounts \cup {None}]
    BY <1>6, <2>2 DEF completeLink, CreateOIDCLink
  <2> QED
    BY <1>0, <1>6, <2>3 DEF completeLink, oiProvider
<1>7. ASSUME NEW c \in Callbacks, RemoveOIDCLink(c) PROVE RowsInv' /\ RedeemInv'
  BY <1>0, <1>7 DEF RemoveOIDCLink, oiProvider
<1>8. ASSUME NEW c \in Callbacks, \/ Exchange(c) \/ VerifyIDToken(c) \/ fetchJWKS(c) \/ setSMBEnabled(c)
                                  \/ UserForOIDCIdentity(c) \/ completeSignIn(c)
      PROVE  RowsInv' /\ RedeemInv'
  <2>1. UNCHANGED <<oiFlow, oiLink, oiWho, oiRedeemed>>
    BY <1>8 DEF Exchange, VerifyIDToken, fetchJWKS, setSMBEnabled, UserForOIDCIdentity, completeSignIn,
                oiProvider, oiStore
  <2> QED
    BY <1>1, <2>1
<1>9. ASSUME RotateKeys \/ OiTick PROVE RowsInv' /\ RedeemInv'
  BY <1>1, <1>9 DEF RotateKeys, OiTick, oiStore
<1> HIDE DEF RowsInv, RedeemInv
<1> QED
  BY <1>2, <1>4, <1>5, <1>6, <1>7, <1>8, <1>9 DEF OiNext, Start, LinkStart

\* A session keeps what earned it, and a new one had it in hand (oidcbridge.go).
LEMMA SessionStep ==
  ASSUME OiConstants, OiInv, OiNext
  PROVE  SessionInv' /\ LinksOwn'
<1> USE DEF OiInv
<1>1. ASSUME UNCHANGED <<oiSess, oiLink>>, oiConsent \subseteq oiConsent',
             \A f \in Attempts : oiWho[f] \in Identities => oiWho'[f] = oiWho[f]
      PROVE  SessionInv' /\ LinksOwn'
  BY <1>1 DEF SessionInv, LinksOwn, OwnToken
<1>2. ASSUME RotateKeys \/ OiTick PROVE SessionInv' /\ LinksOwn'
  BY <1>1, <1>2 DEF RotateKeys, OiTick, oiStore
<1>3. ASSUME NEW f \in Attempts, Start(f) \/ LinkStart(f) PROVE SessionInv' /\ LinksOwn'
  <2>1. PICK u : begin(f, u)
    BY <1>3 DEF Start, LinkStart
  <2>2. \A g \in Attempts : oiWho[g] \in Identities => oiWho'[g] = oiWho[g]
    BY <2>1, OiConstants DEF begin, RowsInv, OiConstants
  <2>3. UNCHANGED <<oiSess, oiLink, oiConsent>>
    BY <2>1 DEF begin
  <2> QED
    BY <1>1, <2>2, <2>3
<1>4. ASSUME NEW c \in Callbacks, \/ Callback(c) \/ TakeExpired(c) \/ Exchange(c) \/ VerifyIDToken(c)
                                  \/ fetchJWKS(c) \/ setSMBEnabled(c) \/ UserForOIDCIdentity(c)
      PROVE  SessionInv' /\ LinksOwn'
  <2>1. UNCHANGED <<oiSess, oiLink, oiConsent, oiWho>>
    BY <1>4 DEF Callback, TakeExpired, Exchange, VerifyIDToken, fetchJWKS, setSMBEnabled,
                UserForOIDCIdentity, oiProvider, oiStore
  <2> QED
    BY <1>1, <2>1
<1>5. ASSUME NEW c \in Callbacks, completeLink(c) PROVE SessionInv' /\ LinksOwn'
  <2> DEFINE u == oiReq[c].user
             i == oiReq[c].tok.sub
  <2>0. UNCHANGED <<oiSess, oiWho>>
    BY <1>5 DEF completeLink, oiProvider
  <2>1. CASE UNCHANGED <<oiLink, oiConsent>>
    BY <1>1, <2>0, <2>1
  <2>2. CASE /\ oiReq[c].session = u /\ CreateOIDCLink(u, i)
             /\ oiConsent' = oiConsent \cup {<<oiReq[c].session, i>>}
    <3>1. SessionInv'
      BY <2>0, <2>2 DEF SessionInv, OwnToken
    <3>2. \A j \in Identities : oiLink'[j] = IF j = i THEN u ELSE IF oiLink[j] = u THEN None ELSE oiLink[j]
      BY <2>2 DEF CreateOIDCLink
    <3>3. <<u, i>> \in oiConsent' /\ oiConsent \subseteq oiConsent'
      BY <2>2
    <3> HIDE DEF u, i
    <3>4. LinksOwn'
      BY <3>2, <3>3 DEF LinksOwn
    <3> QED
      BY <3>1, <3>4
  <2> QED
    BY <1>5, <2>1, <2>2 DEF completeLink
<1>6. ASSUME NEW c \in Callbacks, completeSignIn(c) PROVE SessionInv' /\ LinksOwn'
  <2>0. UNCHANGED <<oiLink, oiConsent, oiWho>>
    BY <1>6 DEF completeSignIn, oiProvider
  <2>1. CarriesOK(oiReq[c], oiWho, oiConsent) /\ oiReq[c].op = "session"
    BY <1>6 DEF completeSignIn, OiAt, CarriedInv
  <2> DEFINE r == [user |-> oiReq[c].user, flow |-> oiReq[c].flow, tok |-> oiReq[c].tok]
  <2>2. /\ r.flow \in Attempts /\ oiWho[r.flow] \in Identities
        /\ OwnToken(r, oiWho) /\ <<r.user, r.tok.sub>> \in oiConsent
    BY <2>1 DEF CarriesOK, OwnToken
  <2>3. oiSess' = oiSess \cup {r}
    BY <1>6 DEF completeSignIn
  <2> HIDE DEF r
  <2>4. SessionInv'
    BY <2>0, <2>2, <2>3 DEF SessionInv, OwnToken
  <2> QED
    BY <2>0, <2>4 DEF LinksOwn
<1>7. ASSUME NEW c \in Callbacks, RemoveOIDCLink(c) PROVE SessionInv' /\ LinksOwn'
  <2>0. UNCHANGED <<oiSess, oiConsent, oiWho>>
    BY <1>7 DEF RemoveOIDCLink, oiProvider
  <2>1. \A j \in Identities : oiLink'[j] \in {None, oiLink[j]}
    BY <1>7 DEF RemoveOIDCLink
  <2> QED
    BY <2>0, <2>1 DEF SessionInv, OwnToken, LinksOwn
<1> QED
  BY <1>2, <1>3, <1>4, <1>5, <1>6, <1>7 DEF OiNext

\* A key that verifies now was published when the set it is in was read (jws.go keyFor).
LEMMA AcceptedStays ==
  ASSUME OiConstants, ProviderKeyInv, NEW c \in Callbacks, Verified(c),
         oiReq[c].tok.kid \in DOMAIN KeyOf, oiClock < oiGone[oiReq[c].tok.kid] + JWKSTTL
  PROVE  /\ oiAccepted' \subseteq [key : DOMAIN KeyOf, at : Int]
         /\ \A a \in oiAccepted' : a.at <= oiClock /\ a.at < oiGone[a.key] + JWKSTTL
<1> DEFINE a == [key |-> oiReq[c].tok.kid, at |-> oiClock]
<1>1. oiAccepted' \subseteq oiAccepted \cup {a}
  BY DEF Verified
<1>2. a \in [key : DOMAIN KeyOf, at : Int] /\ a.at = oiClock /\ a.key = oiReq[c].tok.kid
  BY DEF ProviderKeyInv
<1> HIDE DEF a
<1> QED
  BY <1>1, <1>2 DEF ProviderKeyInv

LEMMA ProviderKeyStep ==
  ASSUME OiConstants, OiInv, OiNext
  PROVE  ProviderKeyInv'
<1> USE DEF OiInv
<1>0. OiMaxClock \in Nat /\ JWKSTTL \in Nat /\ JWKSTTL > 0
  BY OiConstants DEF OiConstants
<1>k. /\ oiClock \in Int /\ oiClock >= 1 /\ oiClock <= OiMaxClock /\ oiKeys.at \in Int /\ oiKeys.at <= oiClock
      /\ oiKeys.keys \subseteq DOMAIN KeyOf /\ oiPub \subseteq DOMAIN KeyOf
      /\ \A k \in DOMAIN KeyOf : oiGone[k] \in Int
  BY <1>0 DEF ProviderKeyInv
<1>1. ASSUME UNCHANGED <<oiPub, oiGone, oiClock, oiKeys, oiAccepted, oiTurned>> PROVE ProviderKeyInv'
  BY <1>1 DEF ProviderKeyInv
<1>2. ASSUME RotateKeys PROVE ProviderKeyInv'
  <2>0. UNCHANGED <<oiClock, oiKeys, oiAccepted, oiTurned>>
    BY <1>2 DEF RotateKeys, oiClient
  <2>1. PICK k \in DOMAIN KeyOf : /\ k \notin oiPub /\ oiGone[k] = OiMaxClock + JWKSTTL /\ oiPub' = {k}
                                  /\ oiGone' = [j \in DOMAIN KeyOf |-> IF j \in oiPub THEN oiClock ELSE oiGone[j]]
    BY <1>2 DEF RotateKeys
  <2>2. /\ oiGone' \in [DOMAIN KeyOf -> Int] /\ oiPub' \subseteq DOMAIN KeyOf
        /\ \A j \in oiPub' : oiGone'[j] = OiMaxClock + JWKSTTL
    BY <2>1 DEF ProviderKeyInv
  <2>3. \A j \in oiKeys.keys : oiKeys.at <= oiGone'[j]
    BY <1>k, <2>1 DEF ProviderKeyInv
  <2>4. ASSUME NEW a \in oiAccepted PROVE a.at <= oiClock /\ a.at < oiGone'[a.key] + JWKSTTL
    <3>1. a.key \in DOMAIN KeyOf /\ a.at \in Int /\ a.at <= oiClock /\ a.at < oiGone[a.key] + JWKSTTL
      BY DEF ProviderKeyInv
    <3>2. oiGone'[a.key] \in {oiClock, oiGone[a.key]}
      BY <2>1, <3>1
    <3> QED
      BY <1>0, <1>k, <3>1, <3>2
  <2> QED
    BY <2>0, <2>2, <2>3, <2>4 DEF ProviderKeyInv
<1>3. ASSUME OiTick PROVE ProviderKeyInv'
  <2>1. /\ UNCHANGED <<oiPub, oiGone, oiKeys, oiAccepted, oiTurned>>
        /\ oiClock' = oiClock + 1 /\ oiClock < OiMaxClock
    BY <1>3 DEF OiTick, oiClient
  <2>2. oiClock' \in 1 .. OiMaxClock /\ oiKeys.at <= oiClock'
    BY <1>0, <1>k, <2>1
  <2>3. \A a \in oiAccepted : a.at <= oiClock' /\ a.at < oiGone[a.key] + JWKSTTL
    BY <1>k, <2>1 DEF ProviderKeyInv
  <2> QED
    BY <2>1, <2>2, <2>3 DEF ProviderKeyInv
<1>4. ASSUME NEW f \in Attempts, Start(f) \/ LinkStart(f) PROVE ProviderKeyInv'
  BY <1>1, <1>4 DEF Start, LinkStart, begin
<1>5. ASSUME NEW c \in Callbacks, \/ Callback(c) \/ TakeExpired(c) \/ Exchange(c) \/ completeLink(c)
                                  \/ setSMBEnabled(c) \/ UserForOIDCIdentity(c) \/ completeSignIn(c)
                                  \/ RemoveOIDCLink(c)
      PROVE  ProviderKeyInv'
  <2>1. UNCHANGED <<oiPub, oiGone, oiClock, oiKeys, oiAccepted, oiTurned>>
    BY <1>5 DEF Callback, TakeExpired, Exchange, completeLink, setSMBEnabled, UserForOIDCIdentity,
                completeSignIn, RemoveOIDCLink, oiProvider, oiClient
  <2> QED
    BY <1>1, <2>1
<1>6. ASSUME NEW c \in Callbacks, VerifyIDToken(c) PROVE ProviderKeyInv'
  <2>0. UNCHANGED <<oiPub, oiGone, oiClock>>
    BY <1>6 DEF VerifyIDToken, oiProvider
  <2>1. CASE fresh(oiKeys, JWKSTTL) /\ oiReq[c].tok.kid \in oiKeys.keys /\ Verified(c)
             /\ UNCHANGED <<oiKeys, oiTurned>>
    <3>1. oiReq[c].tok.kid \in DOMAIN KeyOf /\ oiClock < oiGone[oiReq[c].tok.kid] + JWKSTTL
      BY <1>0, <1>k, <2>1 DEF fresh, ProviderKeyInv
    <3> QED
      BY <2>0, <2>1, <3>1, AcceptedStays DEF ProviderKeyInv
  <2>2. CASE oiKeys' \in {Cold, oiKeys} /\ UNCHANGED <<oiAccepted, oiTurned>>
    <3>1. /\ oiKeys' \in [at : Int, keys : SUBSET DOMAIN KeyOf] /\ oiKeys'.at <= oiClock
          /\ \A k \in oiKeys'.keys : oiKeys'.at <= oiGone[k]
      <4>1. CASE oiKeys' = oiKeys
        BY <4>1 DEF ProviderKeyInv
      <4>2. CASE oiKeys' = Cold
        BY <1>k, <4>2 DEF Cold
      <4> QED
        BY <2>2, <4>1, <4>2
    <3> QED
      BY <2>0, <2>2, <3>1 DEF ProviderKeyInv
  <2> QED
    BY <1>6, <2>1, <2>2 DEF VerifyIDToken, keyFor
<1>7. ASSUME NEW c \in Callbacks, fetchJWKS(c) PROVE ProviderKeyInv'
  <2>0. UNCHANGED <<oiPub, oiGone, oiClock, oiTurned>>
    BY <1>7 DEF fetchJWKS, oiProvider
  <2>1. CASE UNCHANGED <<oiKeys, oiAccepted>>
    BY <1>1, <2>0, <2>1
  <2>2. CASE oiKeys' = [at |-> oiClock, keys |-> oiPub]
    <3>1. /\ oiKeys' \in [at : Int, keys : SUBSET DOMAIN KeyOf] /\ oiKeys'.at <= oiClock
          /\ \A k \in oiKeys'.keys : oiKeys'.at <= oiGone[k]
      <4>1. \A k \in oiPub : oiClock <= oiGone[k]
        BY <1>0, <1>k DEF ProviderKeyInv
      <4>2. oiKeys'.at = oiClock /\ oiKeys'.keys = oiPub
        BY <2>2
      <4> QED
        BY <1>k, <2>2, <4>1, <4>2
    <3>2. CASE UNCHANGED oiAccepted
      BY <2>0, <3>1, <3>2 DEF ProviderKeyInv
    <3>3. CASE oiReq[c].tok.kid \in oiPub /\ Verified(c)
      <4>1. oiReq[c].tok.kid \in DOMAIN KeyOf /\ oiClock < oiGone[oiReq[c].tok.kid] + JWKSTTL
        BY <1>0, <1>k, <3>3 DEF ProviderKeyInv
      <4> QED
        BY <2>0, <3>1, <3>3, <4>1, AcceptedStays DEF ProviderKeyInv
    <3> QED
      BY <1>7, <3>2, <3>3 DEF fetchJWKS
  <2> QED
    BY <1>7, <2>1, <2>2 DEF fetchJWKS
<1> QED
  BY <1>2, <1>3, <1>4, <1>5, <1>6, <1>7 DEF OiNext

------------------------------------------------------------------------------
(* The theorems.                                                           *)

LEMMA OiInitInv ==
  ASSUME OiConstants, OiInit
  PROVE  OiInv
<1> USE DEF OiInit
<1>1. RowsInv /\ LinksOwn /\ SessionInv
  BY DEF RowsInv, LinksOwn, SessionInv
<1>4. RedeemInv
  BY DEF RedeemInv
<1>2. CarriedInv
  BY DEF CarriedInv, CarriesOK, OiIdle
<1>3. ProviderKeyInv
  <2>0. OiMaxClock \in Nat /\ OiMaxClock >= 1 /\ JWKSTTL \in Nat /\ DOMAIN KeyOf # {}
    BY OiConstants DEF OiConstants
  <2>1. (CHOOSE k \in DOMAIN KeyOf : TRUE) \in DOMAIN KeyOf
    BY <2>0
  <2>2. oiPub \subseteq DOMAIN KeyOf
    BY <2>1
  <2>3. oiKeys.at = -1 /\ oiKeys.keys = {} /\ oiKeys \in [at : Int, keys : SUBSET DOMAIN KeyOf]
    BY DEF Cold
  <2>4. oiGone \in [DOMAIN KeyOf -> Int] /\ \A k \in oiPub : oiGone[k] = OiMaxClock + JWKSTTL
    BY <2>0, <2>2
  <2>5. oiAccepted = {} /\ oiTurned = {} /\ oiClock = 1
    OBVIOUS
  <2> HIDE DEF OiInit
  <2> QED
    BY <2>0, <2>2, <2>3, <2>4, <2>5 DEF ProviderKeyInv
<1> QED
  BY <1>1, <1>2, <1>3, <1>4 DEF OiInv

\* What signing on through a provider keeps at every step.
THEOREM SignOnInvariant ==
  ASSUME OiConstants
  PROVE  OiSpec => []OiInv
<1>1. OiInit => OiInv
  BY OiInitInv
<1>2. OiInv /\ [OiNext]_oiVars => OiInv'
  <2>1. CASE OiNext
    BY <2>1, RowsStep, CarriedStep, SessionStep, ProviderKeyStep DEF OiInv
  <2>2. CASE UNCHANGED oiVars
    BY <2>2 DEF oiVars, OiInv, RowsInv, RedeemInv, CarriedInv, SessionInv, LinksOwn, ProviderKeyInv, CarriesOK,
                SaysWho, OwnToken
  <2> QED
    BY <2>1, <2>2
<1> QED
  BY <1>1, <1>2, PTL DEF OiSpec

\* An attempt is redeemed once, whichever callbacks race for it
\* (oidclink.go TakeOIDCFlow).
THEOREM AttemptRedeemedOnce ==
  ASSUME OiConstants
  PROVE  OiSpec => []RedeemedOnce
<1>1. OiInv => RedeemedOnce
  BY DEF OiInv, RedeemInv, RedeemedOnce
<1> QED
  BY <1>1, SignOnInvariant, PTL

\* A session answers the very attempt it came from, for the identity that signed on in it, and
\* belongs to an account that attached that identity while signed in (oidcbridge.go).
THEOREM SessionsAreEarned ==
  ASSUME OiConstants
  PROVE  OiSpec => []SessionsEarned
<1>1. OiInv => SessionsEarned
  BY DEF OiInv, SessionInv, OwnToken, SessionsEarned
<1> QED
  BY <1>1, SignOnInvariant, PTL

\* Every link was attached by its own account, and an account has one (oidcbridge.go completeLink,
\* oidclink.go CreateOIDCLink).
THEOREM LinksStayOwn ==
  ASSUME OiConstants
  PROVE  OiSpec => []LinksOwn
<1>1. OiInv => LinksOwn
  BY DEF OiInv
<1> QED
  BY <1>1, SignOnInvariant, PTL

\* A withdrawn key verifies nothing once the cached set has lived its time, and no published key is
\* refused as unknown (jws.go keyFor, cache.go).
THEOREM KeysRunOut ==
  ASSUME OiConstants
  PROVE  OiSpec => []KeysCurrent
<1>1. OiInv => KeysCurrent
  BY DEF OiInv, ProviderKeyInv, KeysCurrent
<1> QED
  BY <1>1, SignOnInvariant, PTL

------------------------------------------------------------------------------
(***************************************************************************)
(* The registry holds exactly the roots somebody answers for, for any      *)
(* number of administrators, shares and faults.  A root has one holder at  *)
(* a time: the request or the probe that opened it until it installs it,   *)
(* then the live entry, and whoever takes an entry out of the map closes   *)
(* its root.                                                               *)
(***************************************************************************)

SrConstants == MaxShareId \in Nat

------------------------------------------------------------------------------
(* The inductive invariant.                                                *)

RequestFields == {"pc", "op", "id", "def", "before", "served", "rekey", "h", "fresh"}
RegistryProbeFields == {"todo", "pc", "id", "h", "stale"}

\* Only a request about to install holds a root, and only a probe about to heal.
AdminHolds(r) == DOMAIN r = RequestFields /\ r.h \in Nat /\ (r.pc # "install" => r.h = 0)
AdminsHold == srReq = [a \in SrAdmins |-> srReq[a]] /\ \A a \in SrAdmins : AdminHolds(srReq[a])
ProbeHolds(p) == DOMAIN p = RegistryProbeFields /\ p.h \in Nat /\ (p.pc # "heal" => p.h = 0)
RootsInv ==
    /\ DOMAIN srRow \subseteq Ids /\ \A i \in DOMAIN srLive : srLive[i].root \in Nat
    /\ IsFiniteSet(DOMAIN srOpen)

\* No root has two holders.
OneHolder ==
    /\ \A i, j \in DOMAIN srLive : srLive[i].root = srLive[j].root /\ srLive[i].root # 0 => i = j
    /\ \A a, b \in SrAdmins : srReq[a].h = srReq[b].h /\ srReq[a].h # 0 => a = b
    /\ \A i \in DOMAIN srLive : srLive[i].root # 0 =>
         srLive[i].root # srProbe.h /\ \A a \in SrAdmins : srLive[i].root # srReq[a].h
    /\ \A a \in SrAdmins : srReq[a].h # 0 => srReq[a].h # srProbe.h

SrInv == AdminsHold /\ ProbeHolds(srProbe) /\ RootsInv /\ OneHolder /\ NoRootLeak

------------------------------------------------------------------------------
(* Fresh values.                                                           *)

\* A root is opened under a handle nobody has.
LEMMA HandleIsFresh ==
  ASSUME IsFiniteSet(DOMAIN srOpen)
  PROVE  FreshHandle \in Nat /\ FreshHandle # 0 /\ FreshHandle \notin DOMAIN srOpen
<1> DEFINE n == Cardinality(DOMAIN srOpen)
<1>1. n \in Nat
  BY FS_CardinalityType
<1>2. IsFiniteSet(1 .. n + 1) /\ Cardinality(1 .. n + 1) = n + 1
  BY <1>1, FS_Interval
<1>3. \E h \in 1 .. n + 1 : h \notin DOMAIN srOpen
  <2>1. SUFFICES ASSUME 1 .. n + 1 \subseteq DOMAIN srOpen PROVE FALSE
    OBVIOUS
  <2>2. Cardinality(1 .. n + 1) <= n
    BY <2>1, FS_Subset
  <2> QED
    BY <1>1, <1>2, <2>2
<1>4. FreshHandle \in 1 .. n + 1 /\ FreshHandle \notin DOMAIN srOpen
  BY <1>3 DEF FreshHandle
<1> QED
  BY <1>1, <1>4

\* A new row gets an id of its own, counted from one.
LEMMA RowIdIsNew ==
  ASSUME SrConstants, DOMAIN srRow \subseteq Ids, NewRowId <= MaxShareId
  PROVE  NewRowId \in Ids /\ NewRowId \notin DOMAIN srRow
<1>1. CASE DOMAIN srRow = {}
  BY <1>1 DEF NewRowId, Ids, SrConstants
<1>2. CASE DOMAIN srRow # {}
  <2> DEFINE T == {MaxShareId - i : i \in DOMAIN srRow}
  <2>1. T \subseteq Nat /\ T # {}
    BY <1>2 DEF Ids, SrConstants
  <2>2. PICK x \in T : \A y \in T : x <= y
    BY <2>1, LeastNatural
  <2>3. PICK i \in DOMAIN srRow : x = MaxShareId - i
    BY <2>2
  <2>4. \A j \in DOMAIN srRow : i >= j
    BY <2>2, <2>3 DEF Ids, SrConstants
  <2>5. Max(DOMAIN srRow) \in DOMAIN srRow /\ \A j \in DOMAIN srRow : Max(DOMAIN srRow) >= j
    BY <2>3, <2>4 DEF Max
  <2> QED
    BY <1>2, <2>5 DEF NewRowId, Ids, SrConstants
<1> QED
  BY <1>1, <1>2

------------------------------------------------------------------------------
(* The steps, by what they do to the roots.                                *)

\* Nobody opens, hands over or closes a root.
LEMMA RootsRest ==
  ASSUME SrInv, srLive' = srLive, srOpen' = srOpen, srProbe'.h = srProbe.h,
         \A a \in SrAdmins : srReq'[a].h = srReq[a].h, DOMAIN srRow' \subseteq Ids
  PROVE  RootsInv' /\ OneHolder' /\ NoRootLeak'
<1>1. Held' = Held
  BY DEF Held
<1> QED
  BY <1>1 DEF SrInv, RootsInv, OneHolder, NoRootLeak

\* A request is somewhere else, and no one holds another root.
LEMMA RequestMoves ==
  ASSUME AdminsHold, NEW a \in SrAdmins, NEW r, AdminHolds(r), srReq' = [srReq EXCEPT ![a] = r]
  PROVE  AdminsHold' /\ srReq'[a] = r /\ \A b \in SrAdmins \ {a} : srReq'[b] = srReq[b]
BY DEF AdminsHold

LEMMA RequestGoes ==
  ASSUME AdminsHold, NEW a \in SrAdmins, NEW pc, srReq[a].pc # "install", pc # "install", Goto(a, pc)
  PROVE  AdminsHold' /\ \A b \in SrAdmins : srReq'[b].h = srReq[b].h
<1>1. AdminHolds([srReq[a] EXCEPT !.pc = pc]) /\ [srReq[a] EXCEPT !.pc = pc].h = srReq[a].h
  BY DEF AdminsHold, AdminHolds, RequestFields
<1> QED
  BY <1>1, RequestMoves DEF Goto

LEMMA RequestEnds ==
  ASSUME AdminsHold, NEW a \in SrAdmins, srReq[a].pc # "install", End(a)
  PROVE  AdminsHold' /\ \A b \in SrAdmins : srReq'[b].h = srReq[b].h
<1>1. AdminHolds(SrIdle) /\ SrIdle.h = srReq[a].h
  BY DEF AdminsHold, AdminHolds, RequestFields, SrIdle
<1> QED
  BY <1>1, RequestMoves DEF End

\* A write that overtakes others takes no root from them.
LEMMA OvertakenHold ==
  ASSUME AdminsHold, ProbeHolds(srProbe), NEW a \in SrAdmins, NEW i, NEW next,
         AdminHolds(next), next.h = srReq[a].h, Overtaken(a, i, next)
  PROVE  /\ AdminsHold' /\ \A b \in SrAdmins : srReq'[b].h = srReq[b].h
         /\ ProbeHolds(srProbe') /\ srProbe'.h = srProbe.h
<1> DEFINE marked(b) == [srReq[b] EXCEPT !.fresh = srReq[b].fresh /\ srReq[b].id # i]
           seen == [srProbe EXCEPT !.stale = srProbe.stale \union {i}]
<1>1. \A b \in SrAdmins : AdminHolds(marked(b)) /\ marked(b).h = srReq[b].h
  BY DEF AdminsHold, AdminHolds, RequestFields
<1>2. srReq' = [b \in SrAdmins |-> IF b = a THEN next ELSE marked(b)]
  BY DEF Overtaken
<1>3. srReq' = [b \in SrAdmins |-> srReq'[b]] /\ \A b \in SrAdmins : srReq'[b] = IF b = a THEN next ELSE marked(b)
  BY <1>2
<1>4. AdminsHold' /\ \A b \in SrAdmins : srReq'[b].h = srReq[b].h
  <2> HIDE DEF marked
  <2> QED
    BY <1>1, <1>3 DEF AdminsHold
<1>5. ProbeHolds(seen) /\ seen.h = srProbe.h
  BY DEF ProbeHolds, RegistryProbeFields
<1>6. srProbe' = seen \/ srProbe' = srProbe
  BY DEF Overtaken
<1> QED
  <2> HIDE DEF seen
  <2> QED
    BY <1>4, <1>5, <1>6

\* What is put into the map, and what is closed for it.
LEMMA EntryReplaced ==
  ASSUME NEW i, NEW e, replaceEntry(i, e)
  PROVE  /\ DOMAIN srLive' = DOMAIN srLive \cup {i} /\ srLive'[i] = e
         /\ \A j \in DOMAIN srLive \ {i} : srLive'[j] = srLive[j]
         /\ i \in DOMAIN srLive /\ srLive[i].root # 0 => DOMAIN srOpen' = DOMAIN srOpen \ {srLive[i].root}
         /\ ~(i \in DOMAIN srLive /\ srLive[i].root # 0) => srOpen' = srOpen
BY DEF replaceEntry, Put, SrDrop

LEMMA EntryRemoved ==
  ASSUME NEW i, UnregisterShare(i)
  PROVE  /\ DOMAIN srLive' = DOMAIN srLive \ {i}
         /\ \A j \in DOMAIN srLive \ {i} : srLive'[j] = srLive[j]
         /\ i \in DOMAIN srLive /\ srLive[i].root # 0 => DOMAIN srOpen' = DOMAIN srOpen \ {srLive[i].root}
         /\ ~(i \in DOMAIN srLive /\ srLive[i].root # 0) => srOpen' = srOpen
BY DEF UnregisterShare, SrDrop

\* A request hands its root, if it has one, to an entry.
LEMMA RequestInstalls ==
  ASSUME SrInv, NEW a \in SrAdmins, NEW i, NEW e, e.root = srReq[a].h, replaceEntry(i, e),
         srReq'[a].h = 0, \A b \in SrAdmins \ {a} : srReq'[b].h = srReq[b].h,
         srProbe'.h = srProbe.h, srRow' = srRow
  PROVE  RootsInv' /\ OneHolder' /\ NoRootLeak'
<1>0. /\ DOMAIN srLive' = DOMAIN srLive \cup {i} /\ srLive'[i] = e
      /\ \A j \in DOMAIN srLive \ {i} : srLive'[j] = srLive[j]
      /\ i \in DOMAIN srLive /\ srLive[i].root # 0 => DOMAIN srOpen' = DOMAIN srOpen \ {srLive[i].root}
      /\ ~(i \in DOMAIN srLive /\ srLive[i].root # 0) => srOpen' = srOpen
  BY EntryReplaced
<1>1. e.root \in Nat
  BY DEF SrInv, AdminsHold, AdminHolds
<1>2. IsFiniteSet(DOMAIN srOpen')
  BY <1>0, FS_Subset DEF SrInv, RootsInv
<1>3. RootsInv'
  BY <1>1, <1>2, <1>0 DEF SrInv, RootsInv
<1>4. OneHolder'
  BY <1>0 DEF SrInv, OneHolder
<1>5. DOMAIN srOpen' \subseteq Held' \ {0}
  <2> SUFFICES ASSUME NEW h \in DOMAIN srOpen' PROVE h \in Held' \ {0}
    OBVIOUS
  <2>1. h \in Held /\ h # 0 /\ (i \in DOMAIN srLive /\ srLive[i].root # 0 => h # srLive[i].root)
    BY <1>0 DEF SrInv, NoRootLeak
  <2>2. CASE h = srProbe.h
    BY <2>1, <2>2 DEF Held
  <2>3. CASE \E b \in SrAdmins : h = srReq[b].h
    BY <2>1, <2>3, <1>0 DEF Held
  <2>4. CASE \E j \in DOMAIN srLive : h = srLive[j].root
    BY <2>1, <2>4, <1>0 DEF Held
  <2> QED
    BY <2>1, <2>2, <2>3, <2>4 DEF Held
<1>6. Held' \ {0} \subseteq DOMAIN srOpen'
  <2> SUFFICES ASSUME NEW h \in Held', h # 0 PROVE h \in DOMAIN srOpen'
    OBVIOUS
  <2>1. h \in Held /\ (i \in DOMAIN srLive /\ srLive[i].root # 0 => h # srLive[i].root)
    BY <1>0 DEF Held, SrInv, OneHolder
  <2> QED
    BY <2>1, <1>0 DEF SrInv, NoRootLeak
<1> QED
  BY <1>3, <1>4, <1>5, <1>6 DEF NoRootLeak

\* The probe hands over the root it opened, if it did.
LEMMA ProbeInstalls ==
  ASSUME SrInv, NEW i, NEW e, e.root = srProbe.h, replaceEntry(i, e),
         srReq' = srReq, srProbe'.h = 0, srRow' = srRow
  PROVE  RootsInv' /\ OneHolder' /\ NoRootLeak'
<1>0. /\ DOMAIN srLive' = DOMAIN srLive \cup {i} /\ srLive'[i] = e
      /\ \A j \in DOMAIN srLive \ {i} : srLive'[j] = srLive[j]
      /\ i \in DOMAIN srLive /\ srLive[i].root # 0 => DOMAIN srOpen' = DOMAIN srOpen \ {srLive[i].root}
      /\ ~(i \in DOMAIN srLive /\ srLive[i].root # 0) => srOpen' = srOpen
  BY EntryReplaced
<1>1. e.root \in Nat
  BY DEF SrInv, ProbeHolds
<1>2. IsFiniteSet(DOMAIN srOpen')
  BY <1>0, FS_Subset DEF SrInv, RootsInv
<1>3. RootsInv'
  BY <1>1, <1>2, <1>0 DEF SrInv, RootsInv
<1>4. OneHolder'
  BY <1>0 DEF SrInv, OneHolder
<1>5. DOMAIN srOpen' \subseteq Held' \ {0}
  <2> SUFFICES ASSUME NEW h \in DOMAIN srOpen' PROVE h \in Held' \ {0}
    OBVIOUS
  <2>1. h \in Held /\ h # 0 /\ (i \in DOMAIN srLive /\ srLive[i].root # 0 => h # srLive[i].root)
    BY <1>0 DEF SrInv, NoRootLeak
  <2>2. CASE h = srProbe.h
    BY <2>1, <2>2, <1>0 DEF Held
  <2>3. CASE \E b \in SrAdmins : h = srReq[b].h
    BY <2>1, <2>3 DEF Held
  <2>4. CASE \E j \in DOMAIN srLive : h = srLive[j].root
    BY <2>1, <2>4, <1>0 DEF Held
  <2> QED
    BY <2>1, <2>2, <2>3, <2>4 DEF Held
<1>6. Held' \ {0} \subseteq DOMAIN srOpen'
  <2> SUFFICES ASSUME NEW h \in Held', h # 0 PROVE h \in DOMAIN srOpen'
    OBVIOUS
  <2>1. h \in Held /\ (i \in DOMAIN srLive /\ srLive[i].root # 0 => h # srLive[i].root)
    BY <1>0 DEF Held, SrInv, OneHolder
  <2> QED
    BY <2>1, <1>0 DEF SrInv, NoRootLeak
<1> QED
  BY <1>3, <1>4, <1>5, <1>6 DEF NoRootLeak

\* An entry that is taken out takes its root with it.
LEMMA EntryGoes ==
  ASSUME SrInv, NEW i, UnregisterShare(i), \A b \in SrAdmins : srReq'[b].h = srReq[b].h,
         srProbe' = srProbe, srRow' = srRow
  PROVE  RootsInv' /\ OneHolder' /\ NoRootLeak'
<1>0. /\ DOMAIN srLive' = DOMAIN srLive \ {i}
      /\ \A j \in DOMAIN srLive \ {i} : srLive'[j] = srLive[j]
      /\ i \in DOMAIN srLive /\ srLive[i].root # 0 => DOMAIN srOpen' = DOMAIN srOpen \ {srLive[i].root}
      /\ ~(i \in DOMAIN srLive /\ srLive[i].root # 0) => srOpen' = srOpen
  BY EntryRemoved
<1>2. IsFiniteSet(DOMAIN srOpen')
  BY <1>0, FS_Subset DEF SrInv, RootsInv
<1>3. RootsInv'
  BY <1>2, <1>0 DEF SrInv, RootsInv
<1>4. OneHolder'
  BY <1>0 DEF SrInv, OneHolder
<1>5. DOMAIN srOpen' \subseteq Held' \ {0}
  <2> SUFFICES ASSUME NEW h \in DOMAIN srOpen' PROVE h \in Held' \ {0}
    OBVIOUS
  <2>1. h \in Held /\ h # 0 /\ (i \in DOMAIN srLive /\ srLive[i].root # 0 => h # srLive[i].root)
    BY <1>0 DEF SrInv, NoRootLeak
  <2> QED
    BY <2>1, <1>0 DEF Held
<1>6. Held' \ {0} \subseteq DOMAIN srOpen'
  <2> SUFFICES ASSUME NEW h \in Held', h # 0 PROVE h \in DOMAIN srOpen'
    OBVIOUS
  <2>1. h \in Held /\ (i \in DOMAIN srLive /\ srLive[i].root # 0 => h # srLive[i].root)
    BY <1>0 DEF Held, SrInv, OneHolder
  <2> QED
    BY <2>1, <1>0 DEF SrInv, NoRootLeak
<1> QED
  BY <1>3, <1>4, <1>5, <1>6 DEF NoRootLeak

\* A root is opened by somebody who held none.
LEMMA RootOpened ==
  ASSUME SrInv, NEW loc, srOpen' = Put(srOpen, FreshHandle, loc), srLive' = srLive, srRow' = srRow,
         \/ /\ srProbe.h = 0 /\ srProbe'.h = FreshHandle
            /\ srReq' = srReq
         \/ /\ srProbe' = srProbe
            /\ \E a \in SrAdmins : /\ srReq[a].h = 0 /\ srReq'[a].h = FreshHandle
                                   /\ \A b \in SrAdmins \ {a} : srReq'[b].h = srReq[b].h
  PROVE  RootsInv' /\ OneHolder' /\ NoRootLeak'
<1>1. FreshHandle \in Nat /\ FreshHandle # 0 /\ FreshHandle \notin DOMAIN srOpen
  BY HandleIsFresh DEF SrInv, RootsInv
<1>2. DOMAIN srOpen' = DOMAIN srOpen \cup {FreshHandle}
  BY DEF Put
<1>3. IsFiniteSet(DOMAIN srOpen')
  BY <1>2, FS_AddElement DEF SrInv, RootsInv
<1>4. FreshHandle \notin Held
  BY <1>1 DEF SrInv, NoRootLeak
<1>5. OneHolder'
  BY <1>1, <1>4 DEF SrInv, OneHolder, Held
<1>6. Held' \ {0} = (Held \ {0}) \cup {FreshHandle}
  BY <1>1 DEF Held
<1> QED
  BY <1>2, <1>3, <1>5, <1>6 DEF SrInv, RootsInv, NoRootLeak

\* A request that is over holds nothing, and one that moves on keeps what it holds.
LEMMA IdleHoldsNothing == AdminHolds(SrIdle) /\ SrIdle.h = 0
BY DEF AdminHolds, RequestFields, SrIdle

LEMMA MovesOn ==
  ASSUME NEW r, AdminHolds(r), r.pc # "install", NEW pc, pc # "install"
  PROVE  AdminHolds([r EXCEPT !.pc = pc]) /\ [r EXCEPT !.pc = pc].h = r.h
BY DEF AdminHolds, RequestFields

LEMMA RegistryStep ==
  ASSUME SrConstants, SrInv, SrNext
  PROVE  SrInv'
<1> USE DEF SrInv
<1>0. ASSUME NEW a \in SrAdmins
      PROVE  AdminHolds(srReq[a]) /\ (srReq[a].pc # "install" => srReq[a].h = 0)
  BY <1>0 DEF AdminsHold, AdminHolds
<1>1. ASSUME NEW a \in SrAdmins, CreateShare(a) PROVE SrInv'
  <2>0. srReq[a].pc = "idle" /\ UNCHANGED <<srRow, srLive, srOpen, srGrant, srAcl, srUp, srProbe, srTorn>>
    BY <1>1, Zenon DEF CreateShare
  <2>1. PICK n \in SrNames, l \in SrLocs, k \in Keys : srReq' = [srReq EXCEPT ![a] = [SrIdle EXCEPT !.pc = "insert", !.op = "create",
                                   !.def = [NoDef EXCEPT !.name = n, !.loc = l, !.key = k]]]
    BY <1>1, Zenon DEF CreateShare
  <2> DEFINE r == [SrIdle EXCEPT !.pc = "insert", !.op = "create",
                      !.def = [NoDef EXCEPT !.name = n, !.loc = l, !.key = k]]
  <2>2. AdminHolds(r) /\ r.h = 0
    BY DEF AdminHolds, RequestFields, SrIdle
  <2>3. srReq' = [srReq EXCEPT ![a] = r]
    BY <2>1
  <2> HIDE DEF r
  <2>4. AdminsHold' /\ \A b \in SrAdmins : srReq'[b].h = srReq[b].h
    BY <1>0, <2>0, <2>2, <2>3, RequestMoves
  <2> QED
    BY <2>0, <2>4, RootsRest DEF RootsInv
<1>2. ASSUME NEW a \in SrAdmins, InsertShare(a) PROVE SrInv'
  <2>1. CASE End(a) /\ UNCHANGED <<srRow, srProbe>>
    BY <1>2, <2>1, RequestEnds, RootsRest DEF InsertShare, RootsInv
  <2>2. CASE ~(End(a) /\ UNCHANGED <<srRow, srProbe>>)
    <3> DEFINE r == srReq[a]
               def == [r.def EXCEPT !.born = srLeft.born]
               next == [r EXCEPT !.id = NewRowId, !.def = def, !.pc = IF def.key = "none" THEN "open" ELSE "secret"]
    <3>1. Overtaken(a, NewRowId, next) /\ srRow' = Put(srRow, NewRowId, [def EXCEPT !.key = "none"])
          /\ NewRowId <= MaxShareId
      BY <1>2, <2>2 DEF InsertShare
    <3>2. AdminHolds(next) /\ next.h = srReq[a].h
      BY <1>0, <1>2 DEF InsertShare, AdminHolds, RequestFields
    <3>3. DOMAIN srRow' \subseteq Ids
      BY <3>1, RowIdIsNew DEF Put, RootsInv
    <3> HIDE DEF next
    <3> QED
      BY <1>2, <3>1, <3>2, <3>3, OvertakenHold, RootsRest DEF InsertShare
  <2> QED
    BY <2>1, <2>2
<1>3. ASSUME NEW a \in SrAdmins, UpdateShare(a) PROVE SrInv'
  <2>0. srReq[a].pc = "idle" /\ UNCHANGED <<srRow, srLive, srOpen, srGrant, srAcl, srUp, srProbe, srTorn>>
    BY <1>3, Zenon DEF UpdateShare
  <2>1. PICK i, n, l, rekey, k : srReq' = [srReq EXCEPT ![a] = Patched(i, n, l, rekey, k)]
    <3>1. \E i \in DOMAIN srLive, n \in SrNames, l \in SrLocs, rekey \in BOOLEAN, k \in Keys \ {"none"},
             s3 \in Objects, vc \in Objects :
            /\ BackendOf[l] = BackendOf[srLive[i].def.loc]
            /\ applyShareBackendPatch(BackendOf[l], s3, vc)
            /\ rekey => s3 \union vc # {}
            /\ ~rekey => k = "right"
            /\ srReq' = [srReq EXCEPT ![a] = Patched(i, n, l, rekey, k)]
      BY <1>3 DEF UpdateShare
    <3> QED
      BY <3>1
  <2>2. AdminHolds(Patched(i, n, l, rekey, k)) /\ Patched(i, n, l, rekey, k).h = 0
    BY DEF AdminHolds, RequestFields, Patched
  <2>3. AdminsHold' /\ \A b \in SrAdmins : srReq'[b].h = srReq[b].h
    BY <1>0, <2>0, <2>1, <2>2, RequestMoves
  <2> QED
    BY <2>0, <2>3, RootsRest DEF RootsInv
<1>4. ASSUME NEW a \in SrAdmins, WriteRow(a) PROVE SrInv'
  <2>1. CASE End(a) /\ UNCHANGED <<srRow, srProbe>>
    BY <1>4, <2>1, RequestEnds, RootsRest DEF WriteRow, RootsInv
  <2>2. CASE ~(End(a) /\ UNCHANGED <<srRow, srProbe>>)
    <3> DEFINE next == [srReq[a] EXCEPT !.pc = IF srReq[a].rekey THEN "secret" ELSE "open"]
    <3>1. Overtaken(a, srReq[a].id, next) /\ DOMAIN srRow' = DOMAIN srRow
      BY <1>4, <2>2 DEF WriteRow, StoreRow
    <3>2. AdminHolds(next) /\ next.h = srReq[a].h
      BY <1>0, <1>4 DEF WriteRow, AdminHolds, RequestFields
    <3> HIDE DEF next
    <3> QED
      BY <1>4, <3>1, <3>2, OvertakenHold, RootsRest DEF WriteRow, RootsInv
  <2> QED
    BY <2>1, <2>2
<1>5. ASSUME NEW a \in SrAdmins, WriteSecret(a) PROVE SrInv'
  <2>1. CASE End(a) /\ UNCHANGED <<srRow, srProbe>>
    BY <1>5, <2>1, RequestEnds, RootsRest DEF WriteSecret, RootsInv
  <2>2. CASE Goto(a, "rollback") /\ UNCHANGED <<srRow, srProbe>>
    BY <1>5, <2>2, RequestGoes, RootsRest DEF WriteSecret, RootsInv
  <2>3. CASE Overtaken(a, srReq[a].id, [srReq[a] EXCEPT !.pc = "open"]) /\ UpdateShareSecret(srReq[a].id, srReq[a].def.key)
    <3> DEFINE next == [srReq[a] EXCEPT !.pc = "open"]
    <3>1. Overtaken(a, srReq[a].id, next) /\ DOMAIN srRow' = DOMAIN srRow
      BY <2>3 DEF UpdateShareSecret
    <3>2. AdminHolds(next) /\ next.h = srReq[a].h
      BY <1>0, <1>5, MovesOn DEF WriteSecret
    <3> HIDE DEF next
    <3> QED
      BY <1>5, <3>1, <3>2, OvertakenHold, RootsRest DEF WriteSecret, RootsInv
  <2> QED
    BY <1>5, <2>1, <2>2, <2>3 DEF WriteSecret
<1>6. ASSUME NEW a \in SrAdmins, OpenRoot(a) PROVE SrInv'
  <2> DEFINE r == srReq[a]
             def == IF r.pc = "reopen" THEN r.before ELSE r.def
  <2>1. CASE ~Open(def)
    <3>1. PICK pc \in {"rollback", "restore", "broken"} : Goto(a, pc)
      BY <1>6, <2>1 DEF OpenRoot
    <3> QED
      BY <1>6, <2>1, <3>1, RequestGoes, RootsRest DEF OpenRoot, RootsInv
  <2>2. CASE Open(def)
    <3> DEFINE next == [r EXCEPT !.h = FreshHandle, !.pc = "install", !.def = def]
    <3>1. srReq' = [srReq EXCEPT ![a] = next] /\ srOpen' = Put(srOpen, FreshHandle, def.loc)
      BY <1>6, <2>2 DEF OpenRoot
    <3>2. FreshHandle \in Nat
      BY HandleIsFresh DEF RootsInv
    <3>3. AdminHolds(next) /\ next.h = FreshHandle
      BY <1>0, <3>2 DEF AdminHolds, RequestFields
    <3> HIDE DEF next
    <3>4. AdminsHold' /\ srReq'[a].h = FreshHandle /\ \A b \in SrAdmins \ {a} : srReq'[b].h = srReq[b].h
      BY <3>1, <3>3, RequestMoves
    <3>5. srReq[a].h = 0
      BY <1>0, <1>6 DEF OpenRoot
    <3> QED
      BY <1>6, <3>1, <3>4, <3>5, RootOpened DEF OpenRoot
  <2> QED
    BY <2>1, <2>2
<1>7. ASSUME NEW a \in SrAdmins, RegisterShare(a) PROVE SrInv'
  <2> DEFINE r == srReq[a]
             next == IF r.op = "create" THEN [r EXCEPT !.pc = "grant", !.h = 0] ELSE SrIdle
  <2>1. srReq' = [srReq EXCEPT ![a] = next] /\ replaceEntry(r.id, Entry(r.def, r.h))
    BY <1>7 DEF RegisterShare
  <2>2. AdminHolds(next) /\ next.h = 0
    BY <1>0 DEF AdminHolds, RequestFields, SrIdle
  <2> HIDE DEF next
  <2>3. AdminsHold' /\ srReq'[a].h = 0 /\ \A b \in SrAdmins \ {a} : srReq'[b].h = srReq[b].h
    BY <2>1, <2>2, RequestMoves
  <2>4. Entry(r.def, r.h).root = r.h
    BY DEF Entry
  <2> QED
    BY <1>7, <2>1, <2>3, <2>4, RequestInstalls DEF RegisterShare
<1>8. ASSUME NEW a \in SrAdmins, LeaveBroken(a) PROVE SrInv'
  <2> DEFINE r == srReq[a]
  <2>1. AdminsHold' /\ \A b \in SrAdmins : srReq'[b].h = srReq[b].h
    BY <1>8, RequestEnds DEF LeaveBroken
  <2>2. r.h = 0 /\ Entry(r.def, 0).root = 0
    BY <1>0, <1>8 DEF LeaveBroken, Entry
  <2> QED
    BY <1>8, <2>1, <2>2, RequestInstalls DEF LeaveBroken, RegisterBroken
<1>9. ASSUME NEW a \in SrAdmins, restoreShare(a) PROVE SrInv'
  <2>1. CASE Goto(a, "broken") /\ UNCHANGED <<srRow, srProbe>>
    BY <1>9, <2>1, RequestGoes, RootsRest DEF restoreShare, RootsInv
  <2>2. CASE ~(Goto(a, "broken") /\ UNCHANGED <<srRow, srProbe>>)
    <3> DEFINE next == [srReq[a] EXCEPT !.pc = IF srReq[a].before.key = "none" THEN "reopen" ELSE "resecret"]
    <3>1. Overtaken(a, srReq[a].id, next) /\ DOMAIN srRow' = DOMAIN srRow
      BY <1>9, <2>2 DEF restoreShare, StoreRow
    <3>2. AdminHolds(next) /\ next.h = srReq[a].h
      BY <1>0, <1>9 DEF restoreShare, AdminHolds, RequestFields
    <3> HIDE DEF next
    <3> QED
      BY <1>9, <3>1, <3>2, OvertakenHold, RootsRest DEF restoreShare, RootsInv
  <2> QED
    BY <2>1, <2>2
<1>10. ASSUME NEW a \in SrAdmins, restoreSecret(a) PROVE SrInv'
  <2>1. CASE Goto(a, "broken") /\ UNCHANGED <<srRow, srProbe>>
    BY <1>10, <2>1, RequestGoes, RootsRest DEF restoreSecret, RootsInv
  <2>2. CASE ~(Goto(a, "broken") /\ UNCHANGED <<srRow, srProbe>>)
    <3> DEFINE next == [srReq[a] EXCEPT !.pc = "reopen"]
    <3>1. Overtaken(a, srReq[a].id, next) /\ DOMAIN srRow' = DOMAIN srRow
      BY <1>10, <2>2 DEF restoreSecret, UpdateShareSecret
    <3>2. AdminHolds(next) /\ next.h = srReq[a].h
      BY <1>0, <1>10, MovesOn DEF restoreSecret
    <3> HIDE DEF next
    <3> QED
      BY <1>10, <3>1, <3>2, OvertakenHold, RootsRest DEF restoreSecret, RootsInv
  <2> QED
    BY <2>1, <2>2
<1>11. ASSUME NEW a \in SrAdmins, rollbackShareRow(a) PROVE SrInv'
  <2>1. CASE End(a) /\ UNCHANGED <<srRow, srProbe>>
    BY <1>11, <2>1, RequestEnds, RootsRest DEF rollbackShareRow, RootsInv
  <2>2. CASE ~(End(a) /\ UNCHANGED <<srRow, srProbe>>)
    <3>1. Overtaken(a, srReq[a].id, SrIdle) /\ DOMAIN srRow' \subseteq DOMAIN srRow
      BY <1>11, <2>2 DEF rollbackShareRow, DeleteRow, SrDrop
    <3>2. AdminHolds(SrIdle) /\ SrIdle.h = srReq[a].h
      BY <1>0, <1>11, IdleHoldsNothing DEF rollbackShareRow
    <3> QED
      BY <1>11, <3>1, <3>2, OvertakenHold, RootsRest DEF rollbackShareRow, RootsInv
  <2> QED
    BY <2>1, <2>2
<1>12. ASSUME NEW a \in SrAdmins, grantShareToContext(a) PROVE SrInv'
  BY <1>12, RequestEnds, RootsRest DEF grantShareToContext, RootsInv
<1>13. ASSUME NEW a \in SrAdmins, RetryShare(a) PROVE SrInv'
  <2>1. PICK i, def, inStep : srReq' = [srReq EXCEPT ![a] = [SrIdle EXCEPT !.pc = "open", !.op = "retry",
                                         !.id = i, !.def = def, !.fresh = inStep]]
    BY <1>13 DEF RetryShare
  <2> DEFINE r == [SrIdle EXCEPT !.pc = "open", !.op = "retry", !.id = i, !.def = def, !.fresh = inStep]
  <2>2. AdminHolds(r) /\ r.h = 0
    BY DEF AdminHolds, RequestFields, SrIdle
  <2>3. srReq' = [srReq EXCEPT ![a] = r]
    BY <2>1
  <2> HIDE DEF r
  <2>4. AdminsHold' /\ \A b \in SrAdmins : srReq'[b].h = srReq[b].h
    BY <1>0, <1>13, <2>2, <2>3, RequestMoves DEF RetryShare
  <2> QED
    BY <1>13, <2>4, RootsRest DEF RetryShare, RootsInv
<1>14. ASSUME NEW a \in SrAdmins, DeleteShare(a) PROVE SrInv'
  <2>1. PICK i, inStep : srReq' = [srReq EXCEPT ![a] = [SrIdle EXCEPT !.pc = "delete", !.op = "delete",
                                    !.id = i, !.fresh = inStep]]
    BY <1>14 DEF DeleteShare
  <2> DEFINE r == [SrIdle EXCEPT !.pc = "delete", !.op = "delete", !.id = i, !.fresh = inStep]
  <2>2. AdminHolds(r) /\ r.h = 0
    BY DEF AdminHolds, RequestFields, SrIdle
  <2>3. srReq' = [srReq EXCEPT ![a] = r]
    BY <2>1
  <2> HIDE DEF r
  <2>4. AdminsHold' /\ \A b \in SrAdmins : srReq'[b].h = srReq[b].h
    BY <1>0, <1>14, <2>2, <2>3, RequestMoves DEF DeleteShare
  <2> QED
    BY <1>14, <2>4, RootsRest DEF DeleteShare, RootsInv
<1>15. ASSUME NEW a \in SrAdmins, DeleteShareRow(a) PROVE SrInv'
  <2>1. CASE End(a) /\ UNCHANGED <<srRow, srProbe>>
    BY <1>15, <2>1, RequestEnds, RootsRest DEF DeleteShareRow, RootsInv
  <2>2. CASE ~(End(a) /\ UNCHANGED <<srRow, srProbe>>)
    <3> DEFINE next == [srReq[a] EXCEPT !.pc = "unregister"]
    <3>1. Overtaken(a, srReq[a].id, next) /\ DOMAIN srRow' \subseteq DOMAIN srRow
      BY <1>15, <2>2 DEF DeleteShareRow, DeleteRow, SrDrop
    <3>2. AdminHolds(next) /\ next.h = srReq[a].h
      BY <1>0, <1>15, MovesOn DEF DeleteShareRow
    <3> HIDE DEF next
    <3> QED
      BY <1>15, <3>1, <3>2, OvertakenHold, RootsRest DEF DeleteShareRow, RootsInv
  <2> QED
    BY <2>1, <2>2
<1>16. ASSUME NEW a \in SrAdmins, DeleteLive(a) PROVE SrInv'
  <2>1. AdminsHold' /\ \A b \in SrAdmins : srReq'[b].h = srReq[b].h
    BY <1>16, RequestGoes DEF DeleteLive
  <2> QED
    BY <1>16, <2>1, EntryGoes DEF DeleteLive
<1>17. ASSUME NEW a \in SrAdmins, DeleteReload(a) PROVE SrInv'
  BY <1>17, RequestEnds, RootsRest DEF DeleteReload, RootsInv
<1>18. ASSUME ProbeShares PROVE SrInv'
  <2>1. ProbeHolds(srProbe') /\ srProbe'.h = srProbe.h
    BY <1>18 DEF ProbeShares, ProbeHolds, RegistryProbeFields
  <2> QED
    BY <1>18, <2>1, RootsRest DEF ProbeShares, RootsInv, AdminsHold
<1>19. ASSUME ProbeLook PROVE SrInv'
  <2> DEFINE i == Min(DOMAIN srProbe.todo)
             def == srProbe.todo[i]
  <2>0. srProbe.h = 0 /\ srProbe.pc = "look"
    BY <1>19 DEF ProbeLook, ProbeHolds
  <2>1. CASE srOpen' = Put(srOpen, FreshHandle, def.loc)
             /\ srProbe' = [srProbe EXCEPT !.pc = "heal", !.id = i, !.h = FreshHandle]
    <3>1. FreshHandle \in Nat
      BY HandleIsFresh DEF RootsInv
    <3>2. ProbeHolds(srProbe') /\ srProbe'.h = FreshHandle
      BY <2>1, <3>1 DEF ProbeHolds, RegistryProbeFields
    <3> QED
      BY <1>19, <2>0, <2>1, <3>2, RootOpened DEF ProbeLook, AdminsHold
  <2>2. CASE UNCHANGED srOpen /\ srProbe' = [srProbe EXCEPT !.pc = "break", !.id = i]
    <3>1. ProbeHolds(srProbe') /\ srProbe'.h = srProbe.h
      BY <2>0, <2>2 DEF ProbeHolds, RegistryProbeFields
    <3> QED
      BY <1>19, <2>2, <3>1, RootsRest DEF ProbeLook, RootsInv, AdminsHold
  <2>3. CASE UNCHANGED srOpen /\ srProbe' = [srProbe EXCEPT !.todo = SrDrop(srProbe.todo, i)]
    <3>1. ProbeHolds(srProbe') /\ srProbe'.h = srProbe.h
      BY <2>0, <2>3 DEF ProbeHolds, RegistryProbeFields
    <3> QED
      BY <1>19, <2>3, <3>1, RootsRest DEF ProbeLook, RootsInv, AdminsHold
  <2> QED
    BY <1>19, <2>1, <2>2, <2>3 DEF ProbeLook
<1>20. ASSUME ProbeSettle PROVE SrInv'
  <2>1. ProbeHolds(srProbe') /\ srProbe'.h = 0
    BY <1>20 DEF ProbeSettle, ProbeHolds, RegistryProbeFields
  <2>2. Entry(srProbe.todo[srProbe.id], srProbe.h).root = srProbe.h
    BY DEF Entry
  <2> QED
    BY <1>20, <2>1, <2>2, ProbeInstalls DEF ProbeSettle, AdminsHold
<1>21. ASSUME ProbeEnd PROVE SrInv'
  <2>1. ProbeHolds(srProbe') /\ srProbe'.h = srProbe.h
    BY <1>21 DEF ProbeEnd, ProbeHolds, RegistryProbeFields, ProbeIdle
  <2> QED
    BY <1>21, <2>1, RootsRest DEF ProbeEnd, RootsInv, AdminsHold
<1>22. ASSUME DiskFlips PROVE SrInv'
  BY <1>22, RootsRest DEF DiskFlips, RootsInv, AdminsHold
<1>23. ASSUME ReloadPersistedShares PROVE SrInv'
  <2> DEFINE up == {i \in DOMAIN srRow : Open(srRow[i])}
  <2>1. DOMAIN srLive' = DOMAIN srRow /\ DOMAIN srOpen' = up /\ srRow' = srRow
        /\ \A i \in DOMAIN srRow : srLive'[i].root = IF i \in up THEN i ELSE 0
    BY <1>23 DEF ReloadPersistedShares, Entry
  <2>2. AdminsHold' /\ \A a \in SrAdmins : srReq'[a].h = 0
    <3>1. srReq' = [a \in SrAdmins |-> SrIdle]
      BY <1>23 DEF ReloadPersistedShares
    <3> QED
      BY <3>1, IdleHoldsNothing DEF AdminsHold
  <2>3. ProbeHolds(srProbe') /\ srProbe'.h = 0
    BY <1>23 DEF ReloadPersistedShares, ProbeHolds, RegistryProbeFields, ProbeIdle
  <2>4. up \subseteq Ids /\ IsFiniteSet(up) /\ \A i \in up : i \in Nat /\ i # 0
    <3>1. up \subseteq Ids /\ IsFiniteSet(Ids)
      BY FS_Interval DEF RootsInv, Ids, SrConstants
    <3> QED
      BY <3>1, FS_Subset DEF Ids, SrConstants
  <2> HIDE DEF up
  <2>5. RootsInv' /\ OneHolder'
    BY <2>1, <2>2, <2>3, <2>4 DEF RootsInv, OneHolder
  <2>6. NoRootLeak'
    <3>1. up \subseteq DOMAIN srRow
      BY DEF up
    <3> QED
      BY <2>1, <2>2, <2>3, <2>4, <3>1 DEF NoRootLeak, Held
  <2> QED
    BY <2>2, <2>3, <2>5, <2>6
<1> QED
  BY <1>1, <1>2, <1>3, <1>4, <1>5, <1>6, <1>7, <1>8, <1>9, <1>10, <1>11, <1>12, <1>13, <1>14, <1>15,
     <1>16, <1>17, <1>18, <1>19, <1>20, <1>21, <1>22, <1>23 DEF SrNext

LEMMA RegistryInvariant == ASSUME SrConstants PROVE SrSpec => []SrInv
<1>1. SrInit => SrInv
  <2> SUFFICES ASSUME SrInit PROVE SrInv
    OBVIOUS
  <2>1. AdminsHold /\ \A a \in SrAdmins : srReq[a].h = 0
    <3>1. srReq = [a \in SrAdmins |-> SrIdle]
      BY DEF SrInit
    <3> QED
      BY <3>1, IdleHoldsNothing DEF AdminsHold
  <2>2. ProbeHolds(srProbe) /\ srProbe.h = 0
    BY DEF SrInit, ProbeHolds, RegistryProbeFields, ProbeIdle
  <2>3. DOMAIN srRow = {} /\ DOMAIN srLive = {} /\ DOMAIN srOpen = {} /\ IsFiniteSet({})
    BY FS_EmptySet DEF SrInit
  <2> QED
    BY <2>1, <2>2, <2>3 DEF SrInv, RootsInv, OneHolder, NoRootLeak, Held
<1>2. SrInv /\ [SrNext]_srVars => SrInv'
  <2>1. CASE SrNext
    BY <2>1, RegistryStep
  <2>2. CASE UNCHANGED srVars
    BY <2>2 DEF srVars, SrInv, AdminsHold, RootsInv, OneHolder, NoRootLeak, Held
  <2> QED
    BY <2>1, <2>2
<1> QED
  BY <1>1, <1>2, PTL DEF SrSpec

(* Registering, retrying, probing, replacing and removing shares leaves    *)
(* exactly the roots somebody still holds open (registry.go replaceEntry,  *)
(* UnregisterShare).                                                       *)
THEOREM RootsAreHeld == ASSUME SrConstants PROVE SrSpec => []NoRootLeak
<1>1. SrInv => NoRootLeak
  BY DEF SrInv
<1> QED
  BY <1>1, RegistryInvariant, PTL
==============================================================================
