-------------------------- MODULE UploadCacheProofs --------------------------
(***************************************************************************)
(* What UploadCache guarantees for every length, every set of handlers and *)
(* every fault.  Three layers, each an inductive invariant of its own:     *)
(*                                                                         *)
(*  - FrontierInv needs nothing of the client: types, and a merge frontier *)
(*    that covers only durable and recorded bytes;                         *)
(*  - HeldInv, on top of it, says that no acknowledged byte is lost.  It   *)
(*    is false for a client that resends an offset with another size (run  *)
(*    cache_recut), so it is proved for a client that cuts the file one    *)
(*    way and, with any cut, for a client that sends in order to a spool   *)
(*    that a restart keeps or loses as a whole;                            *)
(*  - CounterInv says that the spool's byte counter is exact when the      *)
(*    client sends in order, whatever it sends and whatever fails.         *)
(***************************************************************************)
EXTENDS UploadCache, FiniteSetTheorems, WellFoundedInduction, TLAPS

\* A client that cuts the file one way: a resent offset has the same size.
UniformChunks == \A c, d \in Chunks : c.off = d.off => c.size = d.size

\* A client that sends in order to a spool on a memory filesystem.
SequentialWholeSpool == RandomAccess = FALSE /\ "powerloss" \notin Faults

-----------------------------------------------------------------------------
(* The first layer.                                                        *)

Idle == \A w \in Workers : wpc[w] = "idle"

\* A chunk file is always one whole chunk of the client's.
FilesAreChunks ==
  \A o \in Offsets : cache[o] # 0 => [off |-> o, size |-> cache[o]] \in Chunks

\* A handler in its commit section holds the row lock.
HandlersInv ==
  \A w \in Workers :
    /\ wpc[w] # "idle" => wchunk[w] \in Chunks
    /\ wpc[w] \in {"locked", "renamed"} => rowLock = w

\* The listing a merge step works from goes stale only harmlessly.
MergerInv ==
  /\ mpc \in {"copy", "sync", "record", "unlink"} =>
       mchunk \in Chunks
  /\ mpc \in {"copy", "sync", "record"} =>
       /\ mfront = merged
       /\ 0 .. (mend - 1) \subseteq recorded
       /\ mend > mfront \/ mend = mchunk.off + mchunk.size
  /\ mpc \in {"sync", "record"} /\ mend > mfront => 0 .. (mend - 1) \subseteq part
  /\ mpc = "record" /\ mend > mfront => 0 .. (mend - 1) \subseteq durable
  /\ mpc = "unlink" => mchunk.off + mchunk.size <= merged

\* Finalize owns the drain loop only when every handler has left, and what it
\* leaves when the loop ends has nothing more to merge.
FinalizerInv ==
  /\ gate = "open" => fin = "idle"
  /\ fin \in {"drain", "drained", "done"} => Idle
  /\ fin \in {"drained", "done"} => mpc = "wait"
  /\ fin = "drained" =>
       Mergeable(cache, merged, ContiguousPrefix(recorded)) = {}

StoppedInv ==
  /\ durable \subseteq part
  /\ ~up => /\ Idle /\ mpc = "wait" /\ fin = "idle" /\ gate = "open"

FrontierInv ==
  /\ TypeOK /\ FilesAreChunks /\ HandlersInv /\ MergerInv /\ FinalizerInv
  /\ StoppedInv /\ FrontierDurable /\ FrontierCommitted

-----------------------------------------------------------------------------
(* The second layer.                                                       *)

\* What a handler has renamed is still held somewhere when it comes to record
\* it: the merger may unlink the new file, but only when every byte is below
\* the frontier.
RenamedHeld ==
  \A w \in Workers : wpc[w] = "renamed" =>
    Span(wchunk[w].off, wchunk[w].size)
      \subseteq (0 .. (merged - 1)) \cup Cached(cache)

HeldInv == RenamedHeld /\ ClaimedBytesHeld /\ PublishedComplete

CacheInv == FrontierInv /\ HeldInv

-----------------------------------------------------------------------------
(* The third layer: a client that sends in order.                          *)

\* The row lock per offset admits one handler at the resumable offset, and
\* nothing but its own rename touches the file it is about to replace.
OneHandler ==
  \A w \in Workers : wpc[w] # "idle" =>
    /\ wchunk[w].off = ContiguousPrefix(recorded)
    /\ wpc[w] = "locked" => wold[w] = cache[wchunk[w].off]
    /\ \A v \in Workers : wpc[v] # "idle" => v = w

\* The listed file lies below the resumable offset, so no handler replaces it
\* between the listing and the unlink.
ListingCurrent ==
  mpc \in {"copy", "sync", "record", "unlink"} =>
    /\ mchunk.off < ContiguousPrefix(recorded)
    /\ mchunk.size = cache[mchunk.off]

CounterExact == up => used = Measure(cache)

CounterInv == FrontierInv /\ OneHandler /\ ListingCurrent /\ CounterExact

\* In order, the recorded set is a prefix, and a restart leaves the spool
\* whole or empty, so what RecoverCache cuts away leaves a prefix again.
PrefixOnly == recorded = 0 .. (ContiguousPrefix(recorded) - 1)

SpoolWholeOrGone ==
  ~up => \/ recorded \subseteq (0 .. (merged - 1)) \cup Cached(cache)
         \/ Cached(cache) = {}

SequentialInv == CounterInv /\ HeldInv /\ PrefixOnly /\ SpoolWholeOrGone

-----------------------------------------------------------------------------
(* Facts about the operators.                                              *)

(* A non-empty set of naturals has a least element. *)
LEMMA LeastNatural ==
  ASSUME NEW T, T \subseteq Nat, T # {}
  PROVE  \E x \in T : \A y \in T : x <= y
<1>1. PICK x \in T : \A y \in T : ~ (<<y, x>> \in OpToRel(<, Nat))
  BY NatLessThanWellFounded, WFMin
<1>2. \A y \in T : ~ (y < x)
  BY <1>1 DEF OpToRel
<1> QED
  BY <1>2

(* ContiguousPrefix is what its name says: the first position outside S. *)
LEMMA PrefixIsPrefix ==
  ASSUME NEW S, S \subseteq AllPositions
  PROVE  /\ ContiguousPrefix(S) \in 0 .. Len
         /\ ContiguousPrefix(S) \notin S
         /\ 0 .. (ContiguousPrefix(S) - 1) \subseteq S
<1> DEFINE T == {n \in Nat : n \notin S}
<1>1. Len \in T /\ T \subseteq Nat
  BY LenAssumption DEF AllPositions
<1>2. PICK x \in T : \A y \in T : x <= y
  BY <1>1, LeastNatural
<1>3. IsPrefix(S, x)
  BY <1>1, <1>2, LenAssumption DEF IsPrefix
<1>4. x \in 0 .. Len
  BY <1>3 DEF IsPrefix
<1> QED
  BY <1>3, <1>4 DEF ContiguousPrefix, IsPrefix

(* Membership in the cached positions, without unfolding the union. *)
LEMMA CachedMembers ==
  ASSUME NEW files, NEW b
  PROVE  b \in Cached(files) <=> \E o \in Offsets : b \in Span(o, files[o])
BY DEF Cached

(* The measured size is a natural number once the chunks are finitely many. *)
LEMMA MeasureType ==
  ASSUME NEW files
  PROVE  Measure(files) \in Nat
<1> DEFINE P == Offsets \X AllPositions
<1>1. Offsets \subseteq 0 .. Len
  BY ChunksAssumption, ChunksFit, LenAssumption DEF Offsets
<1>2. IsFiniteSet(Offsets)
  <2>1. IsFiniteSet(0 .. Len)
    <3>1. 0 \in Int /\ Len \in Int
      BY LenAssumption
    <3> QED
      BY <3>1, FS_Interval
  <2> QED
    BY <1>1, <2>1, FS_Subset
<1>3. IsFiniteSet(AllPositions)
  BY LenAssumption, FS_Interval DEF AllPositions
<1>4. IsFiniteSet(P)
  BY <1>2, <1>3, FS_Product
<1>5. {p \in P : p[2] < files[p[1]]} \subseteq P
  OBVIOUS
<1>6. IsFiniteSet({p \in P : p[2] < files[p[1]]})
  BY <1>4, <1>5, FS_Subset
<1> QED
  BY <1>6, FS_CardinalityType DEF Measure

(* What an idle process holds is typed. *)
LEMMA IdleTypes ==
  NoChunk \in Listed /\ 0 \in 0 .. Len
BY LenAssumption DEF NoChunk, Listed

(* A chunk is the record of its two fields, and both are in range. *)
LEMMA ChunkShape ==
  ASSUME NEW c \in Chunks
  PROVE  /\ c = [off |-> c.off, size |-> c.size]
         /\ c.off \in Offsets /\ c.off \in Nat
         /\ c.size \in 1 .. Len /\ c.off + c.size <= Len
BY ChunksAssumption, ChunksFit, LenAssumption DEF Offsets

-----------------------------------------------------------------------------
(* One lemma per action.                                                   *)

(* A handler is admitted: nothing but its own state changes, and the gate is
   open. *)
LEMMA PatchAdmitFrontier ==
  ASSUME FrontierInv, NEW w \in Workers, NEW c \in Chunks, PatchAdmit(w, c)
  PROVE  FrontierInv'
<1>1. TypeOK'
  BY DEF FrontierInv, PatchAdmit, rowVars, storeVars, mergeVars, finVars,
    TypeOK
<1>2. HandlersInv'
  BY DEF FrontierInv, PatchAdmit, rowVars, storeVars, mergeVars, finVars,
    HandlersInv, TypeOK
<1>3. FinalizerInv'
  BY DEF FrontierInv, PatchAdmit, rowVars, storeVars, mergeVars, finVars,
    FinalizerInv, Idle
<1>4. StoppedInv'
  BY DEF FrontierInv, PatchAdmit, rowVars, storeVars, mergeVars, finVars,
    StoppedInv, Idle
<1>5. (FilesAreChunks /\ MergerInv /\ FrontierDurable /\ FrontierCommitted)'
  BY DEF FrontierInv, PatchAdmit, rowVars, storeVars, mergeVars, finVars,
    FilesAreChunks, MergerInv, FrontierDurable,
    FrontierCommitted
<1> QED
  BY <1>1, <1>2, <1>3, <1>4, <1>5 DEF FrontierInv

(* A body is staged. *)
LEMMA PatchStageFrontier ==
  ASSUME FrontierInv, NEW w \in Workers, PatchStage(w)
  PROVE  FrontierInv'
<1>1. TypeOK'
  BY DEF FrontierInv, PatchStage, rowVars, storeVars, mergeVars, finVars,
    TypeOK
<1>2. HandlersInv'
  BY DEF FrontierInv, PatchStage, rowVars, storeVars, mergeVars, finVars,
    HandlersInv, TypeOK
<1>3. FinalizerInv'
  BY DEF FrontierInv, PatchStage, rowVars, storeVars, mergeVars, finVars,
    FinalizerInv, Idle
<1>4. StoppedInv'
  BY DEF FrontierInv, PatchStage, rowVars, storeVars, mergeVars, finVars,
    StoppedInv, Idle
<1>5. (FilesAreChunks /\ MergerInv /\ FrontierDurable /\ FrontierCommitted)'
  BY DEF FrontierInv, PatchStage, rowVars, storeVars, mergeVars, finVars,
    FilesAreChunks, MergerInv, FrontierDurable,
    FrontierCommitted
<1> QED
  BY <1>1, <1>2, <1>3, <1>4, <1>5 DEF FrontierInv

(* A handler answers with a refusal before its commit section. *)
LEMMA PatchRefuseFrontier ==
  ASSUME FrontierInv, NEW w \in Workers, PatchRefuse(w)
  PROVE  FrontierInv'
<1>1. TypeOK'
  BY DEF FrontierInv, PatchRefuse, rowVars, storeVars, mergeVars, finVars,
    TypeOK
<1>2. HandlersInv'
  BY DEF FrontierInv, PatchRefuse, rowVars, storeVars, mergeVars, finVars,
    HandlersInv, TypeOK
<1>3. FinalizerInv'
  BY DEF FrontierInv, PatchRefuse, rowVars, storeVars, mergeVars, finVars,
    FinalizerInv, Idle
<1>4. StoppedInv'
  BY DEF FrontierInv, PatchRefuse, rowVars, storeVars, mergeVars, finVars,
    StoppedInv, Idle
<1>5. (FilesAreChunks /\ MergerInv /\ FrontierDurable /\ FrontierCommitted)'
  BY DEF FrontierInv, PatchRefuse, rowVars, storeVars, mergeVars, finVars,
    FilesAreChunks, MergerInv, FrontierDurable,
    FrontierCommitted
<1> QED
  BY <1>1, <1>2, <1>3, <1>4, <1>5 DEF FrontierInv

(* A handler enters its commit section. *)
LEMMA PatchLockFrontier ==
  ASSUME FrontierInv, NEW w \in Workers, PatchLock(w)
  PROVE  FrontierInv'
<1>1. TypeOK'
  <2>1. wchunk[w] \in Chunks
    BY DEF FrontierInv, HandlersInv, PatchLock
  <2>2. cache[wchunk[w].off] \in 0 .. Len
    BY <2>1, ChunkShape DEF FrontierInv, TypeOK
  <2> QED
    BY <2>2 DEF FrontierInv, PatchLock, rowVars, storeVars, mergeVars, finVars,
      TypeOK
<1>2. HandlersInv'
  BY WorkersAssumption DEF FrontierInv, PatchLock, rowVars, storeVars,
    mergeVars, finVars, HandlersInv, TypeOK
<1>3. FinalizerInv'
  BY DEF FrontierInv, PatchLock, rowVars, storeVars, mergeVars, finVars,
    FinalizerInv, Idle
<1>4. StoppedInv'
  BY DEF FrontierInv, PatchLock, rowVars, storeVars, mergeVars, finVars,
    StoppedInv, Idle
<1>5. (FilesAreChunks /\ MergerInv /\ FrontierDurable /\ FrontierCommitted)'
  BY DEF FrontierInv, PatchLock, rowVars, storeVars, mergeVars, finVars,
    FilesAreChunks, MergerInv, FrontierDurable,
    FrontierCommitted
<1> QED
  BY <1>1, <1>2, <1>3, <1>4, <1>5 DEF FrontierInv

(* The rename over the offset: with one size per offset the new file covers
   the old one, so no cached position is lost. *)
LEMMA PatchRenameFrontier ==
  ASSUME FrontierInv, NEW w \in Workers, PatchRename(w)
  PROVE  FrontierInv'
<1> DEFINE c == wchunk[w]
<1>a. c \in Chunks /\ c.off \in Offsets /\ c.off \in Nat /\ c.size \in 1 .. Len
  BY ChunksAssumption, ChunksFit, LenAssumption
     DEF FrontierInv, HandlersInv, PatchRename, Offsets
<1>1. TypeOK'
  BY <1>a DEF FrontierInv, PatchRename, rowVars, mergeVars, finVars, TypeOK
<1>2. FilesAreChunks'
  <2>1. [off |-> c.off, size |-> c.size] \in Chunks
    BY <1>a, ChunkShape
  <2>2. \A o \in Offsets : cache'[o] = IF o = c.off THEN c.size ELSE cache[o]
    BY DEF FrontierInv, TypeOK, PatchRename
  <2> QED
    BY <2>1, <2>2 DEF FrontierInv, FilesAreChunks
<1>3. HandlersInv'
  BY <1>a DEF FrontierInv, HandlersInv, TypeOK, PatchRename,
    rowVars
<1>4. FinalizerInv'
  BY DEF FrontierInv, PatchRename, rowVars, mergeVars, finVars, FinalizerInv,
    Idle, HandlersInv
<1>5. StoppedInv'
  BY DEF FrontierInv, PatchRename, rowVars, mergeVars, finVars, StoppedInv,
    Idle
<1>6. (MergerInv /\ FrontierDurable /\ FrontierCommitted)'
  BY DEF FrontierInv, PatchRename, rowVars, mergeVars, finVars, MergerInv,
    FrontierDurable, FrontierCommitted
<1> QED
  BY <1>1, <1>2, <1>3, <1>4, <1>5, <1>6 DEF FrontierInv

(* The range is recorded: what was renamed is still held. *)
LEMMA PatchRecordFrontier ==
  ASSUME FrontierInv, NEW w \in Workers, PatchRecord(w)
  PROVE  FrontierInv'
<1> DEFINE c == wchunk[w]
<1>a. Span(c.off, c.size) \subseteq AllPositions
  BY ChunksAssumption, ChunksFit, LenAssumption
     DEF FrontierInv, HandlersInv, PatchRecord, Span, AllPositions
<1>1. TypeOK'
  BY <1>a, IdleTypes DEF FrontierInv, PatchRecord, PatchLeave, storeVars,
    finVars, TypeOK
<1>2. HandlersInv'
  BY DEF FrontierInv, PatchRecord, PatchLeave, storeVars, finVars, HandlersInv,
    TypeOK
<1>3. MergerInv'
  BY DEF FrontierInv, PatchRecord, PatchLeave, storeVars, finVars, MergerInv
<1>4. FinalizerInv'
  BY DEF FrontierInv, PatchRecord, PatchLeave, storeVars, finVars,
    FinalizerInv, Idle, HandlersInv
<1>5. StoppedInv'
  BY DEF FrontierInv, PatchRecord, PatchLeave, storeVars, finVars, StoppedInv,
    Idle
<1>6. FrontierCommitted'
  BY DEF FrontierInv, PatchRecord, PatchLeave, storeVars, finVars,
    FrontierCommitted
<1>7. (FilesAreChunks /\ FrontierDurable)'
  BY DEF FrontierInv, PatchRecord, PatchLeave, storeVars, finVars,
    FilesAreChunks, FrontierDurable
<1> QED
  BY <1>1, <1>2, <1>3, <1>4, <1>5, <1>6, <1>7 DEF FrontierInv

(* A handler leaves without recording. *)
LEMMA PatchAbandonFrontier ==
  ASSUME FrontierInv, NEW w \in Workers, PatchAbandon(w)
  PROVE  FrontierInv'
<1>1. TypeOK'
  BY IdleTypes DEF FrontierInv, PatchAbandon, PatchLeave, rowVars, storeVars, mergeVars,
    finVars, TypeOK
<1>2. HandlersInv'
  BY DEF FrontierInv, PatchAbandon, PatchLeave, rowVars, storeVars, mergeVars,
    finVars, HandlersInv, TypeOK
<1>3. FinalizerInv'
  BY DEF FrontierInv, PatchAbandon, PatchLeave, rowVars, storeVars, mergeVars,
    finVars, FinalizerInv, Idle, HandlersInv
<1>4. StoppedInv'
  BY DEF FrontierInv, PatchAbandon, PatchLeave, rowVars, storeVars, mergeVars,
    finVars, StoppedInv, Idle
<1>5. (FilesAreChunks /\ MergerInv /\ FrontierDurable /\ FrontierCommitted)'
  BY DEF FrontierInv, PatchAbandon, PatchLeave, rowVars, storeVars, mergeVars,
    finVars, FilesAreChunks, MergerInv, FrontierDurable,
    FrontierCommitted
<1> QED
  BY <1>1, <1>2, <1>3, <1>4, <1>5 DEF FrontierInv

(* The merger takes its wake token. *)
LEMMA MergeWakeFrontier ==
  ASSUME FrontierInv, MergeWake
  PROVE  FrontierInv'
<1>1. TypeOK'
  BY DEF FrontierInv, MergeWake, rowVars, storeVars, patchVars, finVars, TypeOK
<1>2. MergerInv'
  BY DEF FrontierInv, MergeWake, rowVars, storeVars, patchVars, finVars,
    MergerInv
<1>3. FinalizerInv'
  BY DEF FrontierInv, MergeWake, rowVars, storeVars, patchVars, finVars,
    FinalizerInv, Idle
<1>4. StoppedInv'
  BY DEF FrontierInv, MergeWake, rowVars, storeVars, patchVars, finVars,
    StoppedInv, Idle
<1>5. (FilesAreChunks /\ HandlersInv
      /\ FrontierDurable /\ FrontierCommitted)'
  BY DEF FrontierInv, MergeWake, rowVars, storeVars, patchVars, finVars,
    FilesAreChunks, HandlersInv, FrontierDurable,
    FrontierCommitted
<1> QED
  BY <1>1, <1>2, <1>3, <1>4, <1>5 DEF FrontierInv

(* A merge step chooses its chunk. *)
LEMMA MergeListFrontier ==
  ASSUME FrontierInv, MergeList
  PROVE  FrontierInv'
<1> DEFINE committed == ContiguousPrefix(recorded)
           M == Mergeable(cache, merged, committed)
           next == NextMergeable(cache, merged, committed)
<1>a. committed \in 0 .. Len /\ 0 .. (committed - 1) \subseteq recorded
  BY PrefixIsPrefix DEF FrontierInv, TypeOK
<1>b. ASSUME M # {}
      PROVE  /\ next \in Offsets /\ next \in Nat /\ cache[next] \in 1 .. Len
             /\ committed > merged \/ next + cache[next] <= merged
             /\ [off |-> next, size |-> cache[next]] \in Chunks
  <2>1. M \subseteq Nat
    BY ChunksAssumption DEF Mergeable, Offsets
  <2>2. \E o \in M : \A q \in M : o <= q
    BY <1>b, <2>1, LeastNatural
  <2>3. next \in M
    BY <2>2 DEF NextMergeable
  <2> QED
    BY <2>1, <2>3, LenAssumption DEF FrontierInv, TypeOK, FilesAreChunks, Mergeable
<1>c. ASSUME M # {}
      PROVE  next + cache[next] <= Len
  <2> DEFINE d == [off |-> next, size |-> cache[next]]
  <2>1. d \in Chunks
    BY <1>b, <1>c
  <2>2. d.off + d.size <= Len
    BY <2>1, ChunksFit
  <2> QED
    BY <2>2
<1>d. merged \in 0 .. Len /\ merged <= committed
  <2>1. merged \in 0 .. Len /\ 0 .. (merged - 1) \subseteq recorded
    BY DEF FrontierInv, TypeOK, FrontierCommitted
  <2> QED
    BY <1>a, <2>1, PrefixIsPrefix, LenAssumption DEF FrontierInv, TypeOK
<1>1. TypeOK'
  <2>1. CASE M = {}
    BY <2>1, LenAssumption
       DEF FrontierInv, TypeOK, MergeList, MergeNext, NoChunk, Listed, rowVars,
           storeVars, patchVars
  <2>2. CASE M # {}
    <3>1. Min2(next + cache[next], committed) \in 0 .. Len
      BY <1>a, <1>b, <1>c, <2>2, LenAssumption DEF Min2
    <3> QED
      BY <1>b, <2>2, <3>1
         DEF FrontierInv, TypeOK, MergeList, Listed, rowVars, storeVars, patchVars
  <2> QED
    BY <2>1, <2>2
<1>2. MergerInv'
  <2>1. CASE M = {}
    BY <2>1 DEF MergeList, MergeNext, MergerInv
  <2>2. CASE M # {}
    <3> DEFINE e == Min2(next + cache[next], committed)
    <3>1. 0 .. (e - 1) \subseteq recorded
      BY <1>a, <1>b, <2>2 DEF Min2
    <3>2. e > merged \/ e = next + cache[next]
      BY <1>a, <1>b, <1>d, <2>2 DEF Min2
    <3> QED
      BY <1>b, <2>2, <3>1, <3>2 DEF MergeList, MergerInv, rowVars
  <2> QED
    BY <2>1, <2>2
<1>3. FinalizerInv'
  BY DEF FrontierInv, MergeList, MergeNext, rowVars, storeVars, patchVars,
    FinalizerInv, Idle
<1>4. StoppedInv'
  BY DEF FrontierInv, MergeList, MergeNext, rowVars, storeVars, patchVars,
    StoppedInv, Idle
<1>5. (FilesAreChunks /\ HandlersInv
      /\ FrontierDurable /\ FrontierCommitted)'
  BY DEF FrontierInv, MergeList, MergeNext, rowVars, storeVars, patchVars,
    FilesAreChunks, HandlersInv, FrontierDurable, FrontierCommitted
<1> QED
  BY <1>1, <1>2, <1>3, <1>4, <1>5 DEF FrontierInv

(* The copy never reaches past the recorded prefix it was given. *)
LEMMA MergeCopyFrontier ==
  ASSUME FrontierInv, MergeCopy
  PROVE  FrontierInv'
<1>a. mend > mfront => /\ CopyEnd \in Int /\ CopyEnd <= mend
                      /\ CopyEnd > mfront
  BY StepMaxAssumption, ChunksAssumption, LenAssumption
     DEF FrontierInv, TypeOK, MergerInv, MergeCopy, CopyEnd, Min2, Offsets
<1>1. TypeOK'
  <2>1. mend' \in 0 .. Len
    BY <1>a, LenAssumption DEF FrontierInv, TypeOK, MergeCopy
  <2>2. part' \subseteq AllPositions
    <3>1. mend > mfront => mfront .. (CopyEnd - 1) \subseteq AllPositions
      BY <1>a, LenAssumption DEF FrontierInv, TypeOK, AllPositions
    <3> QED
      BY <3>1 DEF FrontierInv, TypeOK, MergeCopy
  <2> QED
    BY <2>1, <2>2
       DEF FrontierInv, TypeOK, MergeCopy, rowVars, patchVars, finVars
<1>2. MergerInv'
  <2>1. CASE mend > mfront
    <3>1. 0 .. (CopyEnd - 1) \subseteq recorded
      BY <1>a, <2>1 DEF FrontierInv, TypeOK, MergerInv, MergeCopy
    <3>2. 0 .. (CopyEnd - 1) \subseteq part'
      <4>1. 0 .. (mfront - 1) \subseteq part
        BY DEF FrontierInv, MergerInv, MergeCopy, FrontierDurable, StoppedInv
      <4>2. part' = part \cup (mfront .. (CopyEnd - 1))
        BY <2>1 DEF MergeCopy
      <4> QED
        BY <1>a, <2>1, <4>1, <4>2 DEF FrontierInv, TypeOK
    <3> QED
      BY <1>a, <2>1, <3>1, <3>2
         DEF FrontierInv, MergerInv, MergeCopy, rowVars
  <2>2. CASE ~(mend > mfront)
    BY <2>2 DEF FrontierInv, MergerInv, MergeCopy, rowVars
  <2> QED
    BY <2>1, <2>2
<1>3. FinalizerInv'
  BY DEF FrontierInv, MergeCopy, rowVars, patchVars, finVars, FinalizerInv,
    Idle
<1>4. StoppedInv'
  BY DEF FrontierInv, MergeCopy, rowVars, patchVars, finVars, StoppedInv, Idle
<1>5. (FilesAreChunks /\ HandlersInv
      /\ FrontierDurable /\ FrontierCommitted)'
  BY DEF FrontierInv, MergeCopy, rowVars, patchVars, finVars, FilesAreChunks,
    HandlersInv, FrontierDurable, FrontierCommitted
<1> QED
  BY <1>1, <1>2, <1>3, <1>4, <1>5 DEF FrontierInv

(* SyncData makes the copy durable before the frontier moves. *)
LEMMA MergeSyncFrontier ==
  ASSUME FrontierInv, MergeSync
  PROVE  FrontierInv'
<1>1. TypeOK'
  BY DEF FrontierInv, MergeSync, rowVars, patchVars, finVars, TypeOK
<1>2. MergerInv'
  BY DEF FrontierInv, MergeSync, rowVars, patchVars, finVars, MergerInv
<1>3. FinalizerInv'
  BY DEF FrontierInv, MergeSync, rowVars, patchVars, finVars, FinalizerInv,
    Idle
<1>4. StoppedInv'
  BY DEF FrontierInv, MergeSync, rowVars, patchVars, finVars, StoppedInv, Idle
<1>5. FrontierDurable'
  BY DEF FrontierInv, MergeSync, rowVars, patchVars, finVars,
    FrontierDurable, StoppedInv
<1>6. (FilesAreChunks /\ HandlersInv /\ FrontierCommitted)'
  BY DEF FrontierInv, MergeSync, rowVars, patchVars, finVars, FilesAreChunks,
    HandlersInv, FrontierCommitted
<1> QED
  BY <1>1, <1>2, <1>3, <1>4, <1>5, <1>6 DEF FrontierInv

(* The frontier advances over what is durable and recorded. *)
LEMMA MergeRecordFrontier ==
  ASSUME FrontierInv, MergeRecord
  PROVE  FrontierInv'
<1>1. TypeOK'
  BY LenAssumption, ChunksAssumption DEF FrontierInv, MergeRecord, MergeNext,
    storeVars, patchVars, TypeOK, Listed, NoChunk
<1>2. HandlersInv'
  BY DEF FrontierInv, MergeRecord, MergeNext, storeVars, patchVars,
    HandlersInv, TypeOK, MergerInv
<1>3. MergerInv'
  BY ChunksAssumption DEF FrontierInv, MergeRecord, MergeNext, storeVars,
    patchVars, MergerInv, TypeOK, NoChunk
<1>4. FinalizerInv'
  BY ChunksAssumption DEF FrontierInv, MergeRecord, MergeNext, storeVars,
    patchVars, FinalizerInv, Idle, TypeOK, MergerInv
<1>5. StoppedInv'
  BY DEF FrontierInv, MergeRecord, MergeNext, storeVars, patchVars, StoppedInv,
    Idle
<1>6. FrontierDurable'
  BY DEF FrontierInv, MergeRecord, MergeNext, storeVars, patchVars,
    FrontierDurable, TypeOK, MergerInv
<1>7. FrontierCommitted'
  BY DEF FrontierInv, MergeRecord, MergeNext, storeVars, patchVars,
    FrontierCommitted, TypeOK, MergerInv
<1>8. FilesAreChunks'
  BY DEF FrontierInv, MergeRecord, MergeNext, storeVars, patchVars,
    FilesAreChunks
<1> QED
  BY <1>1, <1>2, <1>3, <1>4, <1>5, <1>6, <1>7, <1>8 DEF FrontierInv

(* The unlinked file, replaced or not since it was listed, has every position
   below the frontier. *)
LEMMA MergeUnlinkFrontier ==
  ASSUME FrontierInv, MergeUnlink
  PROVE  FrontierInv'
<1>a. /\ mchunk \in Chunks /\ mchunk.off \in Nat /\ mchunk.size \in Nat
      /\ mchunk.off \in Offsets /\ mchunk.off + mchunk.size <= merged
      /\ merged \in Nat
  BY ChunksAssumption, LenAssumption
     DEF FrontierInv, TypeOK, MergerInv, MergeUnlink, Offsets
<1>1. TypeOK'
  BY <1>a, LenAssumption DEF FrontierInv, MergeUnlink, MergeNext, rowVars,
    patchVars, finVars, TypeOK, Listed, NoChunk
<1>2. FilesAreChunks'
  BY <1>a DEF FrontierInv, MergeUnlink, MergeNext, rowVars, patchVars, finVars,
    FilesAreChunks, TypeOK
<1>3. HandlersInv'
  BY DEF FrontierInv, HandlersInv, MergeUnlink, rowVars, patchVars
<1>4. MergerInv'
  BY DEF FrontierInv, MergeUnlink, MergeNext, rowVars, patchVars, finVars,
    MergerInv
<1>5. FinalizerInv'
  BY DEF FrontierInv, MergeUnlink, MergeNext, rowVars, patchVars, finVars,
    FinalizerInv, Idle
<1>6. StoppedInv'
  BY DEF FrontierInv, MergeUnlink, MergeNext, rowVars, patchVars, finVars,
    StoppedInv, Idle
<1>7. (FrontierDurable /\ FrontierCommitted)'
  BY DEF FrontierInv, MergeUnlink, MergeNext, rowVars, patchVars, finVars,
    FrontierDurable, FrontierCommitted
<1> QED
  BY <1>1, <1>2, <1>3, <1>4, <1>5, <1>6, <1>7 DEF FrontierInv

(* The file stays and is listed again. *)
LEMMA MergeUnlinkFailsFrontier ==
  ASSUME FrontierInv, MergeUnlinkFails
  PROVE  FrontierInv'
<1>1. TypeOK'
  BY LenAssumption DEF FrontierInv, MergeUnlinkFails, MergeNext, rowVars,
    storeVars, patchVars, finVars, TypeOK, Listed, NoChunk
<1>2. MergerInv'
  BY DEF FrontierInv, MergeUnlinkFails, MergeNext, rowVars, storeVars,
    patchVars, finVars, MergerInv
<1>3. FinalizerInv'
  BY DEF FrontierInv, MergeUnlinkFails, MergeNext, rowVars, storeVars,
    patchVars, finVars, FinalizerInv, Idle
<1>4. StoppedInv'
  BY DEF FrontierInv, MergeUnlinkFails, MergeNext, rowVars, storeVars,
    patchVars, finVars, StoppedInv, Idle
<1>5. (FilesAreChunks /\ HandlersInv
      /\ FrontierDurable /\ FrontierCommitted)'
  BY DEF FrontierInv, MergeUnlinkFails, MergeNext, rowVars, storeVars,
    patchVars, finVars, FilesAreChunks, HandlersInv,
    FrontierDurable, FrontierCommitted
<1> QED
  BY <1>1, <1>2, <1>3, <1>4, <1>5 DEF FrontierInv

(* A failed step changes nothing durable. *)
LEMMA MergeFailFrontier ==
  ASSUME FrontierInv, MergeFail
  PROVE  FrontierInv'
<1>1. TypeOK'
  BY LenAssumption DEF FrontierInv, MergeFail, MergeNext, rowVars, storeVars,
    patchVars, finVars, TypeOK, Listed, NoChunk
<1>2. MergerInv'
  BY DEF FrontierInv, MergeFail, MergeNext, rowVars, storeVars, patchVars,
    finVars, MergerInv
<1>3. FinalizerInv'
  BY DEF FrontierInv, MergeFail, MergeNext, rowVars, storeVars, patchVars,
    finVars, FinalizerInv, Idle
<1>4. StoppedInv'
  BY DEF FrontierInv, MergeFail, MergeNext, rowVars, storeVars, patchVars,
    finVars, StoppedInv, Idle
<1>5. (FilesAreChunks /\ HandlersInv
      /\ FrontierDurable /\ FrontierCommitted)'
  BY DEF FrontierInv, MergeFail, MergeNext, rowVars, storeVars, patchVars,
    finVars, FilesAreChunks, HandlersInv, FrontierDurable, FrontierCommitted
<1> QED
  BY <1>1, <1>2, <1>3, <1>4, <1>5 DEF FrontierInv

(* The gate closes. *)
LEMMA FinCloseFrontier ==
  ASSUME FrontierInv, FinClose
  PROVE  FrontierInv'
<1>1. TypeOK'
  BY DEF FrontierInv, FinClose, rowVars, storeVars, patchVars, mergeVars,
    TypeOK
<1>2. FinalizerInv'
  BY DEF FrontierInv, FinClose, rowVars, storeVars, patchVars, mergeVars,
    FinalizerInv, Idle
<1>3. StoppedInv'
  BY DEF FrontierInv, FinClose, rowVars, storeVars, patchVars, mergeVars,
    StoppedInv, Idle
<1>4. (FilesAreChunks /\ HandlersInv
      /\ MergerInv /\ FrontierDurable /\ FrontierCommitted)'
  BY DEF FrontierInv, FinClose, rowVars, storeVars, patchVars, mergeVars,
    FilesAreChunks, HandlersInv, MergerInv, FrontierDurable, FrontierCommitted
<1> QED
  BY <1>1, <1>2, <1>3, <1>4 DEF FrontierInv

(* The terminal request gives up and the gate reopens. *)
LEMMA FinCancelFrontier ==
  ASSUME FrontierInv, FinCancel
  PROVE  FrontierInv'
<1>1. TypeOK'
  BY DEF FrontierInv, FinCancel, rowVars, storeVars, patchVars, mergeVars,
    TypeOK
<1>2. FinalizerInv'
  BY DEF FrontierInv, FinCancel, rowVars, storeVars, patchVars, mergeVars,
    FinalizerInv, Idle
<1>3. StoppedInv'
  BY DEF FrontierInv, FinCancel, rowVars, storeVars, patchVars, mergeVars,
    StoppedInv, Idle
<1>4. (FilesAreChunks /\ HandlersInv
      /\ MergerInv /\ FrontierDurable /\ FrontierCommitted)'
  BY DEF FrontierInv, FinCancel, rowVars, storeVars, patchVars, mergeVars,
    FilesAreChunks, HandlersInv, MergerInv, FrontierDurable, FrontierCommitted
<1> QED
  BY <1>1, <1>2, <1>3, <1>4 DEF FrontierInv

(* The drain starts with every handler gone. *)
LEMMA FinDrainFrontier ==
  ASSUME FrontierInv, FinDrain
  PROVE  FrontierInv'
<1>1. TypeOK'
  BY DEF FrontierInv, FinDrain, rowVars, storeVars, patchVars, TypeOK
<1>2. MergerInv'
  BY DEF FrontierInv, FinDrain, rowVars, storeVars, patchVars, MergerInv
<1>3. FinalizerInv'
  BY DEF FrontierInv, FinDrain, rowVars, storeVars, patchVars, FinalizerInv,
    Idle
<1>4. StoppedInv'
  BY DEF FrontierInv, FinDrain, rowVars, storeVars, patchVars, StoppedInv, Idle
<1>5. (FilesAreChunks /\ HandlersInv
      /\ FrontierDurable /\ FrontierCommitted)'
  BY DEF FrontierInv, FinDrain, rowVars, storeVars, patchVars, FilesAreChunks,
    HandlersInv, FrontierDurable, FrontierCommitted
<1> QED
  BY <1>1, <1>2, <1>3, <1>4, <1>5 DEF FrontierInv

(* Nothing is left to merge and the set is complete, so the frontier is at the
   end of the file. *)
LEMMA FinPublishFrontier ==
  ASSUME FrontierInv, FinPublish
  PROVE  FrontierInv'
<1>1. TypeOK'
  BY LenAssumption, MeasureType DEF FrontierInv, FinPublish, rowVars,
    patchVars, mergeVars, TypeOK
<1>2. FilesAreChunks'
  BY DEF FrontierInv, FinPublish, rowVars, patchVars, mergeVars,
    FilesAreChunks, TypeOK
<1>3. HandlersInv'
  BY DEF FrontierInv, FinPublish, rowVars, patchVars, mergeVars, HandlersInv,
    TypeOK, FinalizerInv, Idle
<1>4. MergerInv'
  BY DEF FrontierInv, FinPublish, rowVars, patchVars, mergeVars, MergerInv,
    FinalizerInv
<1>5. FinalizerInv'
  BY DEF FrontierInv, FinPublish, rowVars, patchVars, mergeVars, FinalizerInv,
    Idle
<1>6. StoppedInv'
  BY DEF FrontierInv, FinPublish, rowVars, patchVars, mergeVars, StoppedInv,
    Idle
<1>7. FrontierDurable'
  BY DEF FrontierInv, FinPublish, rowVars, patchVars, mergeVars,
    FrontierDurable, StoppedInv
<1>8. FrontierCommitted'
  BY DEF FrontierInv, FinPublish, rowVars, patchVars, mergeVars,
    FrontierCommitted
<1> QED
  BY <1>1, <1>2, <1>3, <1>4, <1>5, <1>6, <1>7, <1>8 DEF FrontierInv

(* A refused finalization reopens the gate. *)
LEMMA FinRefuseFrontier ==
  ASSUME FrontierInv, FinRefuse
  PROVE  FrontierInv'
<1>1. TypeOK'
  BY DEF FrontierInv, FinRefuse, rowVars, storeVars, patchVars, mergeVars,
    TypeOK
<1>2. FinalizerInv'
  BY DEF FrontierInv, FinRefuse, rowVars, storeVars, patchVars, mergeVars,
    FinalizerInv, Idle
<1>3. StoppedInv'
  BY DEF FrontierInv, FinRefuse, rowVars, storeVars, patchVars, mergeVars,
    StoppedInv, Idle
<1>4. (FilesAreChunks /\ HandlersInv
      /\ MergerInv /\ FrontierDurable /\ FrontierCommitted)'
  BY DEF FrontierInv, FinRefuse, rowVars, storeVars, patchVars, mergeVars,
    FilesAreChunks, HandlersInv, MergerInv, FrontierDurable, FrontierCommitted
<1> QED
  BY <1>1, <1>2, <1>3, <1>4 DEF FrontierInv

(* A crash keeps every file. *)
LEMMA CrashFrontier ==
  ASSUME FrontierInv, Crash
  PROVE  FrontierInv'
<1>1. TypeOK'
  <2>1. cache' \in [Offsets -> 0 .. Len]
    BY LenAssumption DEF FrontierInv, TypeOK, Crash, Stop
  <2>2. part' \subseteq AllPositions
    BY DEF FrontierInv, TypeOK, Crash, Stop
  <2>3. /\ wchunk' \in [Workers -> Chunks \cup {NoChunk}]
        /\ wold' \in [Workers -> 0 .. Len]
        /\ mchunk' \in Listed /\ mfront' \in 0 .. Len /\ mend' \in 0 .. Len
    BY IdleTypes DEF Crash, Stop, MergeNext
  <2>4. /\ recorded' \subseteq AllPositions /\ merged' \in 0 .. Len
        /\ durable' \subseteq AllPositions
    BY DEF FrontierInv, TypeOK, Crash, Stop, rowVars
  <2>5. up' \in BOOLEAN /\ wake' \in BOOLEAN
    BY Zenon DEF Crash, Stop
  <2>6. /\ wpc' = [v \in Workers |-> "idle"]
        /\ mpc' = "wait" /\ gate' = "open" /\ fin' = "idle"
        /\ used' = 0 /\ rowLock' = None
    BY DEF Crash, Stop, MergeNext
  <2> QED
    BY <2>1, <2>2, <2>3, <2>4, <2>5, <2>6 DEF TypeOK
<1>2. FilesAreChunks'
  BY DEF FrontierInv, Crash, Stop, MergeNext, rowVars, FilesAreChunks, TypeOK
<1>3. HandlersInv'
  BY DEF FrontierInv, Crash, Stop, MergeNext, rowVars, HandlersInv, TypeOK
<1>4. MergerInv'
  BY DEF FrontierInv, Crash, Stop, MergeNext, rowVars, MergerInv
<1>5. FinalizerInv'
  BY DEF FrontierInv, Crash, Stop, MergeNext, rowVars, FinalizerInv, Idle
<1>6. StoppedInv'
  BY DEF FrontierInv, Crash, Stop, MergeNext, rowVars, StoppedInv, Idle
<1>7. FrontierDurable'
  BY DEF FrontierInv, Crash, Stop, MergeNext, rowVars, FrontierDurable
<1>8. FrontierCommitted'
  BY DEF FrontierInv, Crash, Stop, MergeNext, rowVars, FrontierCommitted
<1> QED
  BY <1>1, <1>2, <1>3, <1>4, <1>5, <1>6, <1>7, <1>8 DEF FrontierInv

(* A reboot loses the spool; the durable part stays. *)
LEMMA RebootFrontier ==
  ASSUME FrontierInv, Reboot
  PROVE  FrontierInv'
<1>1. TypeOK'
  <2>1. cache' \in [Offsets -> 0 .. Len]
    BY LenAssumption DEF FrontierInv, TypeOK, Reboot, Stop
  <2>2. part' \subseteq AllPositions
    BY DEF FrontierInv, TypeOK, Reboot, Stop
  <2>3. /\ wchunk' \in [Workers -> Chunks \cup {NoChunk}]
        /\ wold' \in [Workers -> 0 .. Len]
        /\ mchunk' \in Listed /\ mfront' \in 0 .. Len /\ mend' \in 0 .. Len
    BY IdleTypes DEF Reboot, Stop, MergeNext
  <2>4. /\ recorded' \subseteq AllPositions /\ merged' \in 0 .. Len
        /\ durable' \subseteq AllPositions
    BY DEF FrontierInv, TypeOK, Reboot, Stop, rowVars
  <2>5. up' \in BOOLEAN /\ wake' \in BOOLEAN
    BY Zenon DEF Reboot, Stop
  <2>6. /\ wpc' = [v \in Workers |-> "idle"]
        /\ mpc' = "wait" /\ gate' = "open" /\ fin' = "idle"
        /\ used' = 0 /\ rowLock' = None
    BY DEF Reboot, Stop, MergeNext
  <2> QED
    BY <2>1, <2>2, <2>3, <2>4, <2>5, <2>6 DEF TypeOK
<1>2. FilesAreChunks'
  BY DEF FrontierInv, Reboot, Stop, MergeNext, rowVars, FilesAreChunks, TypeOK
<1>3. HandlersInv'
  BY DEF FrontierInv, Reboot, Stop, MergeNext, rowVars, HandlersInv, TypeOK
<1>4. MergerInv'
  BY DEF FrontierInv, Reboot, Stop, MergeNext, rowVars, MergerInv
<1>5. FinalizerInv'
  BY DEF FrontierInv, Reboot, Stop, MergeNext, rowVars, FinalizerInv, Idle
<1>6. StoppedInv'
  BY DEF FrontierInv, Reboot, Stop, MergeNext, rowVars, StoppedInv, Idle
<1>7. FrontierDurable'
  BY DEF FrontierInv, Reboot, Stop, MergeNext, rowVars, FrontierDurable
<1>8. FrontierCommitted'
  BY DEF FrontierInv, Reboot, Stop, MergeNext, rowVars, FrontierCommitted
<1> QED
  BY <1>1, <1>2, <1>3, <1>4, <1>5, <1>6, <1>7, <1>8 DEF FrontierInv

(* A power cut loses any of the unsynced renames. *)
LEMMA PowerLossFrontier ==
  ASSUME FrontierInv, PowerLoss
  PROVE  FrontierInv'
<1>1. TypeOK'
  <2>1. cache' \in [Offsets -> 0 .. Len]
    BY LenAssumption DEF FrontierInv, TypeOK, PowerLoss, Stop
  <2>2. part' \subseteq AllPositions
    BY DEF FrontierInv, TypeOK, PowerLoss, Stop
  <2>3. /\ wchunk' \in [Workers -> Chunks \cup {NoChunk}]
        /\ wold' \in [Workers -> 0 .. Len]
        /\ mchunk' \in Listed /\ mfront' \in 0 .. Len /\ mend' \in 0 .. Len
    BY IdleTypes DEF PowerLoss, Stop, MergeNext
  <2>4. /\ recorded' \subseteq AllPositions /\ merged' \in 0 .. Len
        /\ durable' \subseteq AllPositions
    BY DEF FrontierInv, TypeOK, PowerLoss, Stop, rowVars
  <2>5. up' \in BOOLEAN /\ wake' \in BOOLEAN
    BY Zenon DEF PowerLoss, Stop
  <2>6. /\ wpc' = [v \in Workers |-> "idle"]
        /\ mpc' = "wait" /\ gate' = "open" /\ fin' = "idle"
        /\ used' = 0 /\ rowLock' = None
    BY DEF PowerLoss, Stop, MergeNext
  <2> QED
    BY <2>1, <2>2, <2>3, <2>4, <2>5, <2>6 DEF TypeOK
<1>2. FilesAreChunks'
  BY DEF FrontierInv, PowerLoss, Stop, MergeNext, rowVars, FilesAreChunks,
    TypeOK
<1>3. HandlersInv'
  BY DEF FrontierInv, PowerLoss, Stop, MergeNext, rowVars, HandlersInv, TypeOK
<1>4. MergerInv'
  BY DEF FrontierInv, PowerLoss, Stop, MergeNext, rowVars, MergerInv
<1>5. FinalizerInv'
  BY DEF FrontierInv, PowerLoss, Stop, MergeNext, rowVars, FinalizerInv, Idle
<1>6. StoppedInv'
  BY DEF FrontierInv, PowerLoss, Stop, MergeNext, rowVars, StoppedInv, Idle
<1>7. FrontierDurable'
  BY DEF FrontierInv, PowerLoss, Stop, MergeNext, rowVars, FrontierDurable
<1>8. FrontierCommitted'
  BY DEF FrontierInv, PowerLoss, Stop, MergeNext, rowVars, FrontierCommitted
<1> QED
  BY <1>1, <1>2, <1>3, <1>4, <1>5, <1>6, <1>7, <1>8 DEF FrontierInv

(* RecoverCache trims the recorded set to what is held. *)
LEMMA RecoverFrontier ==
  ASSUME FrontierInv, Recover
  PROVE  FrontierInv'
<1>1. TypeOK'
  BY MeasureType DEF FrontierInv, Recover, storeVars, patchVars, mergeVars,
    finVars, TypeOK
<1>2. MergerInv'
  BY DEF FrontierInv, Recover, storeVars, patchVars, mergeVars, finVars,
    MergerInv, StoppedInv
<1>3. FinalizerInv'
  BY DEF FrontierInv, Recover, storeVars, patchVars, mergeVars, finVars,
    FinalizerInv, Idle, StoppedInv
<1>4. StoppedInv'
  BY DEF FrontierInv, Recover, storeVars, patchVars, mergeVars, finVars,
    StoppedInv, Idle
<1>5. FrontierCommitted'
  BY DEF FrontierInv, Recover, storeVars, patchVars, mergeVars, finVars,
    FrontierCommitted
<1>6. (FilesAreChunks /\ HandlersInv /\ FrontierDurable)'
  BY DEF FrontierInv, Recover, storeVars, patchVars, mergeVars, finVars,
    FilesAreChunks, HandlersInv, FrontierDurable
<1> QED
  BY <1>1, <1>2, <1>3, <1>4, <1>5, <1>6 DEF FrontierInv

-----------------------------------------------------------------------------
(* A fresh session satisfies the first layer. *)
LEMMA FrontierInit ==
  Init => FrontierInv
<1> SUFFICES ASSUME Init PROVE FrontierInv
  OBVIOUS
<1>1. TypeOK
  <2>1. /\ cache \in [Offsets -> 0 .. Len]
        /\ wchunk \in [Workers -> Chunks \cup {NoChunk}]
        /\ wold \in [Workers -> 0 .. Len]
        /\ mchunk \in Listed /\ mfront \in 0 .. Len /\ mend \in 0 .. Len
        /\ merged \in 0 .. Len
    BY IdleTypes DEF Init
  <2>2. up \in BOOLEAN /\ wake \in BOOLEAN
    BY Zenon DEF Init
  <2> QED
    BY <2>1, <2>2 DEF Init, TypeOK
<1>2. FilesAreChunks /\ HandlersInv /\ MergerInv
  BY DEF Init, FilesAreChunks, HandlersInv, MergerInv
<1>3. FinalizerInv /\ StoppedInv
  BY DEF Init, FinalizerInv, StoppedInv
<1>4. FrontierDurable /\ FrontierCommitted
  BY DEF Init, FrontierDurable, FrontierCommitted
<1> QED
  BY <1>1, <1>2, <1>3, <1>4 DEF FrontierInv

(* Every step of the handlers, the merger, Finalize and a restart preserves
   the first layer. *)
LEMMA FrontierNext ==
  ASSUME FrontierInv, [Next]_vars
  PROVE  FrontierInv'
<1>1. CASE UNCHANGED vars
  BY <1>1
     DEF vars, rowVars, storeVars, patchVars, mergeVars, finVars, FrontierInv,
         TypeOK, FilesAreChunks, HandlersInv, MergerInv, FinalizerInv,
         StoppedInv, Idle, FrontierDurable, FrontierCommitted
<1>2. CASE Patch
  BY <1>2, PatchAdmitFrontier, PatchStageFrontier, PatchRefuseFrontier,
     PatchLockFrontier, PatchRenameFrontier, PatchRecordFrontier,
     PatchAbandonFrontier
     DEF Patch
<1>3. CASE Merge
  BY <1>3, MergeWakeFrontier, MergeListFrontier, MergeCopyFrontier,
     MergeSyncFrontier, MergeRecordFrontier, MergeUnlinkFrontier,
     MergeUnlinkFailsFrontier, MergeFailFrontier
     DEF Merge
<1>4. CASE Finalize
  BY <1>1, <1>4, FinCloseFrontier, FinCancelFrontier, FinDrainFrontier,
     FinPublishFrontier, FinRefuseFrontier
     DEF Finalize, Published
<1>5. CASE Restart
  BY <1>5, CrashFrontier, RebootFrontier, PowerLossFrontier,
     RecoverFrontier
     DEF Restart
<1> QED
  BY <1>1, <1>2, <1>3, <1>4, <1>5 DEF Next

-----------------------------------------------------------------------------
(* The second layer.                                                       *)

(* A step that leaves rows and files alone and renames nothing keeps what is
   held. *)
LEMMA HeldFrame ==
  ASSUME HeldInv, UNCHANGED <<recorded, merged, cache, part>>,
         up' => up, fin' = "done" <=> fin = "done",
         \A w \in Workers : wpc'[w] = "renamed" =>
           wpc[w] = "renamed" /\ wchunk'[w] = wchunk[w]
  PROVE  HeldInv'
BY DEF HeldInv, RenamedHeld, ClaimedBytesHeld, PublishedComplete

(* The rename loses no cached position: the case each client has to make. *)
LEMMA RenameHeld ==
  ASSUME FrontierInv, HeldInv, NEW w \in Workers, PatchRename(w),
         recorded \subseteq (0 .. (merged - 1)) \cup Cached(cache'),
         \A v \in Workers : wpc[v] = "renamed" => v = w
  PROVE  HeldInv'
<1> DEFINE c == wchunk[w]
<1>1. c \in Chunks /\ c.off \in Offsets
  BY ChunkShape DEF FrontierInv, HandlersInv, PatchRename
<1>2. Span(c.off, c.size) \subseteq Cached(cache')
  BY <1>1, CachedMembers DEF FrontierInv, TypeOK, PatchRename
<1>3. RenamedHeld'
  BY <1>2 DEF FrontierInv, TypeOK, RenamedHeld, PatchRename, rowVars
<1>4. ClaimedBytesHeld' /\ PublishedComplete'
  BY DEF HeldInv, ClaimedBytesHeld, PublishedComplete, PatchRename, rowVars,
    finVars
<1> QED
  BY <1>3, <1>4 DEF HeldInv

(* One size per offset: the new file covers the one it replaces. *)
LEMMA UniformRename ==
  ASSUME UniformChunks, FrontierInv, HeldInv, NEW w \in Workers,
         PatchRename(w)
  PROVE  HeldInv'
<1> DEFINE c == wchunk[w]
<1>1. c \in Chunks /\ c.off \in Offsets /\ c.off \in Nat /\ c.size \in 1 .. Len
  BY ChunkShape DEF FrontierInv, HandlersInv, PatchRename
<1>2. \A o \in Offsets : Span(o, cache[o]) \subseteq Span(o, cache'[o])
  <2> SUFFICES ASSUME NEW o \in Offsets, o = c.off
               PROVE  Span(o, cache[o]) \subseteq Span(o, cache'[o])
    BY DEF FrontierInv, TypeOK, PatchRename
  <2>1. cache'[o] = c.size
    BY <1>1 DEF FrontierInv, TypeOK, PatchRename
  <2>2. cache[o] = 0 \/ cache[o] = c.size
    BY <1>1 DEF FrontierInv, FilesAreChunks, UniformChunks
  <2> QED
    BY <1>1, <2>1, <2>2 DEF Span
<1>3. Cached(cache) \subseteq Cached(cache')
  BY <1>2, CachedMembers
<1>4. up /\ fin # "done"
  BY DEF FrontierInv, StoppedInv, FinalizerInv, Idle, PatchRename
<1>5. recorded \subseteq (0 .. (merged - 1)) \cup Cached(cache')
  BY <1>3, <1>4 DEF HeldInv, ClaimedBytesHeld
<1>6. \A v \in Workers : wpc[v] = "renamed" => v = w
  BY DEF FrontierInv, HandlersInv, PatchRename
<1> QED
  BY <1>5, <1>6, RenameHeld

(* The range is recorded: what was renamed is still held. *)
LEMMA RecordHeld ==
  ASSUME FrontierInv, HeldInv, NEW w \in Workers, PatchRecord(w)
  PROVE  HeldInv'
BY DEF FrontierInv, FinalizerInv, Idle, TypeOK, HeldInv, RenamedHeld,
  ClaimedBytesHeld, PublishedComplete, PatchRecord, PatchLeave, storeVars,
  finVars

(* The unlinked file has every position below the frontier, if its size is
   the one the listing saw or there is no file any more. *)
LEMMA UnlinkHeld ==
  ASSUME FrontierInv, HeldInv, MergeUnlink,
         cache[mchunk.off] \in {0, mchunk.size}
  PROVE  HeldInv'
<1>1. /\ mchunk \in Chunks /\ mchunk.off \in Nat /\ mchunk.size \in Nat
      /\ mchunk.off \in Offsets /\ mchunk.off + mchunk.size <= merged
      /\ merged \in Nat
  BY ChunkShape, LenAssumption
     DEF FrontierInv, TypeOK, MergerInv, MergeUnlink
<1>2. \A o \in Offsets :
        Span(o, cache[o]) \subseteq (0 .. (merged - 1)) \cup Span(o, cache'[o])
  <2> SUFFICES ASSUME NEW o \in Offsets, o = mchunk.off
               PROVE  Span(o, cache[o]) \subseteq 0 .. (merged - 1)
    BY DEF FrontierInv, TypeOK, MergeUnlink
  <2> QED
    BY <1>1 DEF Span
<1>3. Cached(cache) \subseteq (0 .. (merged - 1)) \cup Cached(cache')
  BY <1>2, CachedMembers
<1> QED
  BY <1>3 DEF HeldInv, RenamedHeld, ClaimedBytesHeld, PublishedComplete,
    MergeUnlink, rowVars, patchVars, finVars

(* Nothing is left to merge and the set is complete, so the frontier is at the
   end of the file. *)
LEMMA PublishHeld ==
  ASSUME FrontierInv, HeldInv, FinPublish
  PROVE  HeldInv'
<1>1. merged = Len
  <2> SUFFICES ASSUME merged < Len
               PROVE  FALSE
    BY LenAssumption DEF FrontierInv, TypeOK
  <2>1. ContiguousPrefix(recorded) = Len
    BY PrefixIsPrefix, LenAssumption
       DEF FrontierInv, TypeOK, FinPublish, AllPositions
  <2>2. merged \in recorded
    BY LenAssumption DEF FrontierInv, TypeOK, FinPublish, AllPositions
  <2>3. merged \in Cached(cache)
    BY <2>2, LenAssumption
       DEF FrontierInv, TypeOK, HeldInv, ClaimedBytesHeld, StoppedInv,
           FinPublish
  <2>4. PICK o \in Offsets : merged \in Span(o, cache[o])
    BY <2>3, CachedMembers
  <2>5. o \in Mergeable(cache, merged, Len)
    BY <2>4, LenAssumption, ChunksAssumption
       DEF FrontierInv, TypeOK, Span, Mergeable, Offsets
  <2> QED
    BY <2>1, <2>5 DEF FrontierInv, FinalizerInv, FinPublish
<1>2. part = AllPositions
  BY <1>1 DEF FrontierInv, TypeOK, FrontierDurable, StoppedInv, AllPositions
<1>3. \A w \in Workers : wpc[w] = "idle"
  BY DEF FrontierInv, FinalizerInv, Idle, FinPublish
<1> QED
  BY <1>2, <1>3 DEF HeldInv, RenamedHeld, ClaimedBytesHeld,
    PublishedComplete, FinPublish, rowVars, patchVars

(* Every step except the rename and the unlink, which depend on the client,
   keeps what is held. *)
LEMMA HeldNext ==
  ASSUME FrontierInv, HeldInv, [Next]_vars,
         \A w \in Workers : PatchRename(w) => HeldInv',
         MergeUnlink => HeldInv'
  PROVE  HeldInv'
<1>1. CASE UNCHANGED vars
  BY <1>1, HeldFrame
     DEF vars, rowVars, storeVars, patchVars, finVars
<1>2. CASE Patch
  <2>1. PICK w \in Workers :
          \/ \E c \in Chunks : PatchAdmit(w, c)
          \/ PatchStage(w) \/ PatchRefuse(w) \/ PatchLock(w)
          \/ PatchRename(w) \/ PatchRecord(w) \/ PatchAbandon(w)
    BY <1>2 DEF Patch
  <2>2. ASSUME NEW c \in Chunks, PatchAdmit(w, c) PROVE HeldInv'
    BY <2>2, HeldFrame
       DEF PatchAdmit, FrontierInv, TypeOK, rowVars, storeVars, finVars
  <2>3. CASE PatchStage(w)
    BY <2>3, HeldFrame
       DEF PatchStage, FrontierInv, TypeOK, rowVars, storeVars, finVars
  <2>4. CASE PatchRefuse(w)
    BY <2>4, HeldFrame
       DEF PatchRefuse, FrontierInv, TypeOK, rowVars, storeVars, finVars
  <2>5. CASE PatchLock(w)
    BY <2>5, HeldFrame
       DEF PatchLock, FrontierInv, TypeOK, rowVars, storeVars, finVars
  <2>6. CASE PatchAbandon(w)
    BY <2>6, HeldFrame
       DEF PatchAbandon, PatchLeave, FrontierInv, TypeOK, rowVars, storeVars,
           finVars
  <2> QED
    BY <2>1, <2>2, <2>3, <2>4, <2>5, <2>6, RecordHeld
<1>3. CASE Merge
  <2>1. CASE MergeWake
    BY <2>1, HeldFrame DEF MergeWake, rowVars, storeVars, patchVars, finVars
  <2>2. CASE MergeList
    BY <2>2, HeldFrame
       DEF MergeList, FrontierInv, FinalizerInv, rowVars, storeVars, patchVars
  <2>3. CASE MergeCopy
    BY <2>3
       DEF MergeCopy, HeldInv, RenamedHeld, ClaimedBytesHeld,
           PublishedComplete, FrontierInv, FinalizerInv, rowVars, patchVars,
           finVars
  <2>4. CASE MergeSync
    BY <2>4, HeldFrame DEF MergeSync, rowVars, patchVars, finVars
  <2>5. CASE MergeRecord
    <3>1. 0 .. (merged - 1) \subseteq 0 .. (merged' - 1)
      BY <2>5 DEF MergeRecord, FrontierInv, TypeOK
    <3> QED
      BY <2>5, <3>1
         DEF MergeRecord, HeldInv, RenamedHeld, ClaimedBytesHeld,
             PublishedComplete, FrontierInv, FinalizerInv, storeVars,
             patchVars
  <2>6. CASE MergeUnlinkFails
    BY <2>6, HeldFrame
       DEF MergeUnlinkFails, rowVars, storeVars, patchVars, finVars
  <2>7. CASE MergeFail
    BY <2>7, HeldFrame
       DEF MergeFail, rowVars, storeVars, patchVars, finVars
  <2> QED
    BY <1>3, <2>1, <2>2, <2>3, <2>4, <2>5, <2>6, <2>7 DEF Merge
<1>4. CASE Finalize
  <2>1. CASE FinClose \/ FinCancel \/ FinDrain \/ FinRefuse
    BY <2>1, HeldFrame
       DEF FinClose, FinCancel, FinDrain, FinRefuse, rowVars, storeVars,
           patchVars
  <2> QED
    BY <1>1, <1>4, <2>1, PublishHeld DEF Finalize, Published
<1>5. CASE Restart
  <2>1. ASSUME NEW kept, NEW left, Stop(kept, left) PROVE HeldInv'
    BY <2>1 DEF Stop, HeldInv, RenamedHeld, ClaimedBytesHeld,
      PublishedComplete
  <2>2. CASE Recover
    BY <2>2
       DEF Recover, HeldInv, RenamedHeld, ClaimedBytesHeld, PublishedComplete,
           FrontierInv, StoppedInv, storeVars, patchVars, finVars
  <2> QED
    BY <1>5, <2>1, <2>2 DEF Restart, Crash, Reboot, PowerLoss
<1> QED
  BY <1>1, <1>2, <1>3, <1>4, <1>5 DEF Next

(* The second layer holds of a fresh session. *)
LEMMA HeldInit ==
  Init => HeldInv
BY DEF Init, HeldInv, RenamedHeld, ClaimedBytesHeld, PublishedComplete

(* The invariant of a client that cuts the file one way. *)
LEMMA UniformNext ==
  ASSUME UniformChunks, CacheInv, [Next]_vars
  PROVE  CacheInv'
<1>1. FrontierInv'
  BY FrontierNext DEF CacheInv
<1>2. MergeUnlink => cache[mchunk.off] \in {0, mchunk.size}
  BY ChunkShape
     DEF CacheInv, FrontierInv, MergerInv, FilesAreChunks, UniformChunks,
         MergeUnlink
<1>3. HeldInv'
  BY <1>2, HeldNext, UniformRename, UnlinkHeld DEF CacheInv
<1> QED
  BY <1>1, <1>3 DEF CacheInv

-----------------------------------------------------------------------------
(* The third layer.                                                        *)

(* Recording more never moves the resumable offset back. *)
LEMMA PrefixGrows ==
  ASSUME NEW S, NEW T, S \subseteq T, T \subseteq AllPositions
  PROVE  ContiguousPrefix(S) <= ContiguousPrefix(T)
<1>1. /\ ContiguousPrefix(S) \in 0 .. Len
      /\ 0 .. (ContiguousPrefix(S) - 1) \subseteq S
  BY PrefixIsPrefix
<1>2. ContiguousPrefix(T) \in 0 .. Len /\ ContiguousPrefix(T) \notin T
  BY PrefixIsPrefix
<1> QED
  BY <1>1, <1>2, LenAssumption

(* Offsets are finitely many positions. *)
LEMMA OffsetsFinite ==
  Offsets \subseteq 0 .. Len /\ IsFiniteSet(Offsets) /\ IsFiniteSet(AllPositions)
<1>1. Offsets \subseteq 0 .. Len
  BY ChunksAssumption, ChunksFit, LenAssumption DEF Offsets
<1>2. 0 \in Int /\ Len \in Int /\ Len - 1 \in Int
  BY LenAssumption
<1>3. IsFiniteSet(0 .. Len) /\ IsFiniteSet(0 .. (Len - 1))
  BY <1>2, FS_Interval
<1> QED
  BY <1>1, <1>3, FS_Subset DEF AllPositions

(* A file of n bytes is n of the pairs that Measure counts. *)
LEMMA ColumnSize ==
  ASSUME NEW o, NEW n \in 0 .. Len
  PROVE  /\ IsFiniteSet({o} \X (0 .. (n - 1)))
         /\ Cardinality({o} \X (0 .. (n - 1))) = n
<1>1. IsFiniteSet({o}) /\ Cardinality({o}) = 1
  BY FS_Singleton
<1>2. n \in Nat /\ 0 \in Int /\ n - 1 \in Int
  BY LenAssumption
<1>3. IsFiniteSet(0 .. (n - 1)) /\ Cardinality(0 .. (n - 1)) = n
  BY <1>2, FS_Interval
<1>4. /\ IsFiniteSet({o} \X (0 .. (n - 1)))
      /\ Cardinality({o} \X (0 .. (n - 1)))
           = Cardinality({o}) * Cardinality(0 .. (n - 1))
  BY <1>1, <1>3, FS_Product
<1> QED
  BY <1>1, <1>2, <1>3, <1>4

(* Replacing one file changes the measure by the difference of the sizes. *)
LEMMA MeasureUpdate ==
  ASSUME NEW files \in [Offsets -> 0 .. Len], NEW o \in Offsets,
         NEW n \in 0 .. Len
  PROVE  Measure([files EXCEPT ![o] = n]) = Measure(files) - files[o] + n
<1> DEFINE rest == {p \in Offsets \X AllPositions :
                      p[1] # o /\ p[2] < files[p[1]]}
           col(k) == {o} \X (0 .. (k - 1))
           shape(f) == {p \in Offsets \X AllPositions : p[2] < f[p[1]]}
           new == [files EXCEPT ![o] = n]
<1>1. IsFiniteSet(rest)
  <2>1. IsFiniteSet(Offsets \X AllPositions)
    BY OffsetsFinite, FS_Product
  <2> QED
    BY <2>1, FS_Subset
<1>2. shape(files) = rest \cup col(files[o])
  BY LenAssumption DEF AllPositions
<1>3. shape(new) = rest \cup col(n)
  BY LenAssumption DEF AllPositions
<1>4. \A k \in 0 .. Len :
        Cardinality(rest \cup col(k)) = Cardinality(rest) + k
  <2> SUFFICES ASSUME NEW k \in 0 .. Len
               PROVE  Cardinality(rest \cup col(k)) = Cardinality(rest) + k
    OBVIOUS
  <2>1. IsFiniteSet(col(k)) /\ Cardinality(col(k)) = k
    BY ColumnSize
  <2>2. rest \cap col(k) = {}
    OBVIOUS
  <2>3. Cardinality(rest \cap col(k)) = 0
    BY <2>2, FS_EmptySet
  <2>4. Cardinality(rest \cup col(k))
          = Cardinality(rest) + Cardinality(col(k))
              - Cardinality(rest \cap col(k))
    BY <1>1, <2>1, FS_Union
  <2>5. Cardinality(rest) \in Nat /\ k \in Nat
    BY <1>1, FS_CardinalityType, LenAssumption
  <2> HIDE DEF rest, col
  <2> QED
    BY <2>1, <2>3, <2>4, <2>5
<1>5. files[o] \in 0 .. Len
  OBVIOUS
<1>6. Measure(files) = Cardinality(rest) + files[o]
  BY <1>2, <1>4, <1>5 DEF Measure
<1>7. Measure(new) = Cardinality(rest) + n
  BY <1>3, <1>4 DEF Measure
<1>8. Cardinality(rest) \in Nat
  BY <1>1, FS_CardinalityType
<1> HIDE DEF rest, new
<1>9. Measure(new) = Measure(files) - files[o] + n
  BY <1>5, <1>6, <1>7, <1>8, LenAssumption
<1> QED
  BY <1>9 DEF new

(* An empty spool measures nothing. *)
LEMMA MeasureEmpty ==
  Measure([o \in Offsets |-> 0]) = 0
<1>1. {p \in Offsets \X AllPositions : p[2] < [o \in Offsets |-> 0][p[1]]} = {}
  BY LenAssumption DEF AllPositions
<1> QED
  BY <1>1, FS_EmptySet DEF Measure

(* A step that leaves the recorded set and the files alone, brings no handler
   in and keeps the listing keeps the third layer. *)
LEMMA CounterFrame ==
  ASSUME OneHandler, ListingCurrent, CounterExact,
         UNCHANGED <<recorded, cache, used, up>>,
         \A w \in Workers :
           /\ wpc'[w] # "idle" => wpc[w] # "idle" /\ wchunk'[w] = wchunk[w]
           /\ wpc'[w] = "locked" =>
                \/ wpc[w] = "locked" /\ wold'[w] = wold[w]
                \/ wold'[w] = cache[wchunk[w].off],
         mpc' \in {"copy", "sync", "record", "unlink"} =>
           mpc \in {"copy", "sync", "record", "unlink"} /\ mchunk' = mchunk
  PROVE  (OneHandler /\ ListingCurrent /\ CounterExact)'
BY DEF OneHandler, ListingCurrent, CounterExact

(* The offset a handler is admitted for is the one every handler is at, and
   the lock on it is taken. *)
LEMMA AdmitCounts ==
  ASSUME RandomAccess = FALSE, CounterInv, NEW w \in Workers,
         NEW c \in Chunks, PatchAdmit(w, c)
  PROVE  (OneHandler /\ ListingCurrent /\ CounterExact)'
<1>1. \A v \in Workers : wpc[v] = "idle"
  BY DEF CounterInv, OneHandler, PatchAdmit
<1>2. OneHandler'
  BY <1>1 DEF CounterInv, FrontierInv, TypeOK, OneHandler, PatchAdmit, rowVars
<1> QED
  BY <1>2 DEF CounterInv, ListingCurrent, CounterExact, PatchAdmit, rowVars,
    storeVars, mergeVars

(* The rename takes off what the stat under the lock saw. *)
LEMMA RenameCounts ==
  ASSUME CounterInv, NEW w \in Workers, PatchRename(w)
  PROVE  (OneHandler /\ ListingCurrent /\ CounterExact)'
<1> DEFINE c == wchunk[w]
<1>1. /\ c \in Chunks /\ c.off \in Offsets /\ c.size \in 0 .. Len
      /\ c.off = ContiguousPrefix(recorded) /\ wold[w] = cache[c.off]
      /\ \A v \in Workers : wpc[v] # "idle" => v = w
  BY ChunkShape, LenAssumption
     DEF CounterInv, FrontierInv, HandlersInv, OneHandler, PatchRename
<1>2. cache \in [Offsets -> 0 .. Len] /\ used \in Int
  BY DEF CounterInv, FrontierInv, TypeOK
<1>3. OneHandler'
  BY <1>1 DEF CounterInv, FrontierInv, TypeOK, OneHandler, PatchRename,
    rowVars
<1>4. ListingCurrent'
  <2>1. mpc \in {"copy", "sync", "record", "unlink"} =>
          mchunk.off \in Offsets /\ mchunk.off # c.off
    BY <1>1, ChunkShape, PrefixIsPrefix, LenAssumption
       DEF CounterInv, FrontierInv, TypeOK, MergerInv, ListingCurrent
  <2> QED
    BY <1>1, <1>2, <2>1
       DEF CounterInv, ListingCurrent, PatchRename, rowVars, mergeVars
<1>5. CounterExact'
  <2>1. Measure(cache') = Measure(cache) - cache[c.off] + c.size
    BY <1>1, <1>2, MeasureUpdate DEF PatchRename
  <2>2. Measure(cache) \in Int /\ cache[c.off] \in Int /\ c.size \in Int
    BY <1>1, <1>2, MeasureType, LenAssumption
  <2> QED
    BY <1>1, <1>2, <2>1, <2>2 DEF CounterInv, CounterExact, PatchRename
<1> QED
  BY <1>3, <1>4, <1>5

(* After the record no handler is left, and the listing is further below the
   resumable offset. *)
LEMMA RecordCounts ==
  ASSUME CounterInv, NEW w \in Workers, PatchRecord(w)
  PROVE  (OneHandler /\ ListingCurrent /\ CounterExact)'
<1> DEFINE c == wchunk[w]
<1>1. OneHandler'
  BY DEF CounterInv, FrontierInv, TypeOK, OneHandler, PatchRecord, PatchLeave
<1>2. recorded \subseteq recorded' /\ recorded' \subseteq AllPositions
  BY PatchRecordFrontier DEF CounterInv, FrontierInv, TypeOK, PatchRecord
<1>3. /\ ContiguousPrefix(recorded) <= ContiguousPrefix(recorded')
      /\ ContiguousPrefix(recorded) \in Int /\ ContiguousPrefix(recorded') \in Int
  BY <1>2, PrefixGrows, PrefixIsPrefix, LenAssumption
<1>4. mpc \in {"copy", "sync", "record", "unlink"} => mchunk.off \in Int
  BY ChunkShape DEF CounterInv, FrontierInv, MergerInv
<1> QED
  BY <1>1, <1>3, <1>4
     DEF CounterInv, ListingCurrent, CounterExact, PatchRecord, storeVars

(* The chosen file starts below the frontier or has bytes the row records, so
   it starts below the resumable offset. *)
LEMMA ListCounts ==
  ASSUME CounterInv, MergeList
  PROVE  (OneHandler /\ ListingCurrent /\ CounterExact)'
<1> DEFINE committed == ContiguousPrefix(recorded)
           M == Mergeable(cache, merged, committed)
           next == NextMergeable(cache, merged, committed)
<1>1. merged \in 0 .. Len /\ committed \in 0 .. Len /\ merged <= committed
  <2>1. merged \in 0 .. Len /\ 0 .. (merged - 1) \subseteq recorded
        /\ recorded \subseteq AllPositions
    BY DEF CounterInv, FrontierInv, TypeOK, FrontierCommitted
  <2> QED
    BY <2>1, PrefixIsPrefix, LenAssumption
<1>2. ASSUME M # {} PROVE next < committed
  <2>1. M \subseteq Nat
    BY ChunksAssumption DEF Mergeable, Offsets
  <2>2. \E o \in M : \A q \in M : o <= q
    BY <1>2, <2>1, LeastNatural
  <2>3. next \in M
    BY <2>2 DEF NextMergeable
  <2> QED
    BY <1>1, <2>1, <2>3, LenAssumption
       DEF CounterInv, FrontierInv, TypeOK, Mergeable
<1>3. ListingCurrent'
  BY <1>2 DEF MergeList, MergeNext, ListingCurrent, rowVars, storeVars
<1>4. OneHandler' /\ CounterExact'
  BY DEF CounterInv, OneHandler, CounterExact, MergeList, rowVars, storeVars,
    patchVars
<1> QED
  BY <1>3, <1>4

(* The unlink gives back the size the listing saw, which is still the size of
   the file, and not the file a handler has measured. *)
LEMMA UnlinkCounts ==
  ASSUME CounterInv, MergeUnlink
  PROVE  (OneHandler /\ ListingCurrent /\ CounterExact)'
<1>1. /\ mchunk \in Chunks /\ mchunk.off \in Offsets
      /\ mchunk.size = cache[mchunk.off]
      /\ mchunk.off < ContiguousPrefix(recorded)
  BY ChunkShape
     DEF CounterInv, FrontierInv, MergerInv, ListingCurrent, MergeUnlink
<1>2. cache \in [Offsets -> 0 .. Len] /\ used \in Int /\ 0 \in 0 .. Len
  BY LenAssumption DEF CounterInv, FrontierInv, TypeOK
<1>3. ContiguousPrefix(recorded) \in Int /\ mchunk.off \in Int
  BY <1>1, ChunkShape, PrefixIsPrefix, LenAssumption
     DEF CounterInv, FrontierInv, TypeOK
<1>4. OneHandler'
  <2>1. \A w \in Workers : wpc[w] # "idle" =>
          wchunk[w].off \in Offsets /\ wchunk[w].off # mchunk.off
    BY <1>1, <1>3, ChunkShape
       DEF CounterInv, FrontierInv, HandlersInv, OneHandler
  <2>2. \A w \in Workers : wpc[w] # "idle" =>
          cache'[wchunk[w].off] = cache[wchunk[w].off]
    BY <1>1, <1>2, <2>1 DEF MergeUnlink
  <2> QED
    BY <2>2 DEF CounterInv, OneHandler, MergeUnlink, rowVars, patchVars
<1>5. CounterExact'
  <2>1. Measure(cache') = Measure(cache) - cache[mchunk.off] + 0
    BY <1>1, <1>2, MeasureUpdate DEF MergeUnlink
  <2>2. Measure(cache) \in Int /\ cache[mchunk.off] \in Int
    BY <1>1, <1>2, MeasureType, LenAssumption
  <2> QED
    BY <1>1, <1>2, <2>1, <2>2
       DEF CounterInv, CounterExact, MergeUnlink
<1>6. ListingCurrent'
  BY DEF ListingCurrent, MergeUnlink, MergeNext
<1> QED
  BY <1>4, <1>5, <1>6

(* Publication removes the directory and takes its measure off the counter. *)
LEMMA PublishCounts ==
  ASSUME CounterInv, FinPublish
  PROVE  (OneHandler /\ ListingCurrent /\ CounterExact)'
<1>1. \A w \in Workers : wpc[w] = "idle"
  BY DEF CounterInv, FrontierInv, FinalizerInv, Idle, FinPublish
<1>2. mpc = "wait"
  BY DEF CounterInv, FrontierInv, FinalizerInv, FinPublish
<1>3. up
  BY DEF CounterInv, FrontierInv, StoppedInv, FinPublish
<1>4. used' = Measure(cache')
  BY <1>3, MeasureType, MeasureEmpty
     DEF CounterInv, CounterExact, FinPublish
<1> QED
  BY <1>1, <1>2, <1>4
     DEF OneHandler, ListingCurrent, CounterExact, FinPublish, patchVars,
         mergeVars

(* Every step of a session that is sent in order keeps the counter exact. *)
LEMMA CounterNext ==
  ASSUME RandomAccess = FALSE, CounterInv, [Next]_vars
  PROVE  CounterInv'
<1> SUFFICES (OneHandler /\ ListingCurrent /\ CounterExact)'
  BY FrontierNext DEF CounterInv
<1>t. OneHandler /\ ListingCurrent /\ CounterExact /\ TypeOK
  BY DEF CounterInv, FrontierInv
<1>1. CASE UNCHANGED vars
  BY <1>1, <1>t, CounterFrame
     DEF vars, rowVars, storeVars, patchVars, mergeVars
<1>2. CASE Patch
  <2>1. PICK w \in Workers :
          \/ \E c \in Chunks : PatchAdmit(w, c)
          \/ PatchStage(w) \/ PatchRefuse(w) \/ PatchLock(w)
          \/ PatchRename(w) \/ PatchRecord(w) \/ PatchAbandon(w)
    BY <1>2 DEF Patch
  <2>2. CASE PatchStage(w)
    BY <2>2, <1>t, CounterFrame
       DEF PatchStage, TypeOK, rowVars, storeVars, mergeVars
  <2>3. CASE PatchRefuse(w)
    BY <2>3, <1>t, CounterFrame
       DEF PatchRefuse, TypeOK, rowVars, storeVars, mergeVars
  <2>4. CASE PatchLock(w)
    BY <2>4, <1>t, CounterFrame
       DEF PatchLock, TypeOK, rowVars, storeVars, mergeVars
  <2>5. CASE PatchAbandon(w)
    BY <2>5, <1>t, CounterFrame
       DEF PatchAbandon, PatchLeave, TypeOK, rowVars, storeVars, mergeVars
  <2> QED
    BY <2>1, <2>2, <2>3, <2>4, <2>5, AdmitCounts, RenameCounts, RecordCounts
<1>3. CASE Merge
  <2>1. CASE MergeWake
    BY <2>1, <1>t, CounterFrame
       DEF MergeWake, rowVars, storeVars, patchVars
  <2>2. CASE MergeCopy
    BY <2>2, <1>t, CounterFrame DEF MergeCopy, rowVars, patchVars
  <2>3. CASE MergeSync
    BY <2>3, <1>t, CounterFrame DEF MergeSync, rowVars, patchVars
  <2>4. CASE MergeRecord
    BY <2>4, <1>t, CounterFrame
       DEF MergeRecord, MergeNext, storeVars, patchVars
  <2>5. CASE MergeUnlinkFails
    BY <2>5, <1>t, CounterFrame
       DEF MergeUnlinkFails, MergeNext, rowVars, storeVars, patchVars
  <2>6. CASE MergeFail
    BY <2>6, <1>t, CounterFrame
       DEF MergeFail, MergeNext, rowVars, storeVars, patchVars
  <2> QED
    BY <1>3, <2>1, <2>2, <2>3, <2>4, <2>5, <2>6, ListCounts, UnlinkCounts
       DEF Merge
<1>4. CASE Finalize
  <2>1. CASE FinClose
    BY <2>1, <1>t, CounterFrame
       DEF FinClose, rowVars, storeVars, patchVars, mergeVars
  <2>2. CASE FinCancel
    BY <2>2, <1>t, CounterFrame
       DEF FinCancel, rowVars, storeVars, patchVars, mergeVars
  <2>3. CASE FinDrain
    BY <2>3, <1>t, CounterFrame
       DEF FinDrain, rowVars, storeVars, patchVars
  <2>4. CASE FinRefuse
    BY <2>4, <1>t, CounterFrame
       DEF FinRefuse, rowVars, storeVars, patchVars, mergeVars
  <2> QED
    BY <1>1, <1>4, <2>1, <2>2, <2>3, <2>4, PublishCounts
       DEF Finalize, Published
<1>5. CASE Restart
  <2>1. ASSUME NEW kept, NEW left, Stop(kept, left)
        PROVE  (OneHandler /\ ListingCurrent /\ CounterExact)'
    BY <2>1 DEF Stop, MergeNext, OneHandler, ListingCurrent, CounterExact
  <2>2. CASE Recover
    BY <2>2
       DEF Recover, CounterInv, FrontierInv, StoppedInv, Idle, OneHandler,
           ListingCurrent, CounterExact, storeVars, patchVars, mergeVars
  <2> QED
    BY <1>5, <2>1, <2>2 DEF Restart, Crash, Reboot, PowerLoss
<1> QED
  BY <1>1, <1>2, <1>3, <1>4, <1>5 DEF Next

(* The resumable offset of a prefix is its length. *)
LEMMA PrefixOfInterval ==
  ASSUME NEW n \in 0 .. Len
  PROVE  ContiguousPrefix(0 .. (n - 1)) = n
<1>1. 0 .. (n - 1) \subseteq AllPositions
  BY LenAssumption DEF AllPositions
<1> DEFINE k == ContiguousPrefix(0 .. (n - 1))
<1>2. k \in 0 .. Len /\ k \notin 0 .. (n - 1) /\ 0 .. (k - 1) \subseteq 0 .. (n - 1)
  BY <1>1, PrefixIsPrefix
<1> HIDE DEF k
<1>3. k = n
  <2>1. k >= n
    BY <1>2, LenAssumption
  <2>2. ASSUME k > n PROVE FALSE
    <3>1. n \in 0 .. (k - 1)
      BY <1>2, <2>2, LenAssumption
    <3> QED
      BY <1>2, <3>1
  <2> QED
    BY <1>2, <2>1, <2>2, LenAssumption
<1> QED
  BY <1>3 DEF k

(* In order, the file a rename replaces starts at the resumable offset: it
   holds no byte the row records. *)
LEMMA SequentialRename ==
  ASSUME SequentialInv, NEW w \in Workers, PatchRename(w)
  PROVE  HeldInv'
<1> DEFINE c == wchunk[w]
<1>1. c.off = ContiguousPrefix(recorded) /\ c.off \in Nat /\ c.off \in Offsets
  BY ChunkShape
     DEF SequentialInv, CounterInv, FrontierInv, HandlersInv, OneHandler,
         PatchRename
<1>2. up /\ fin # "done"
  BY DEF SequentialInv, CounterInv, FrontierInv, StoppedInv, FinalizerInv,
    Idle, PatchRename
<1>3. \A b \in recorded : b \in Nat /\ b < c.off
  BY <1>1 DEF SequentialInv, PrefixOnly
<1>4. recorded \subseteq (0 .. (merged - 1)) \cup Cached(cache')
  <2> SUFFICES ASSUME NEW b \in recorded, b \in Cached(cache)
               PROVE  b \in Cached(cache')
    BY <1>2 DEF SequentialInv, HeldInv, ClaimedBytesHeld
  <2>1. PICK o \in Offsets : b \in Span(o, cache[o])
    BY CachedMembers
  <2>2. o # c.off
    BY <1>1, <1>3, <2>1, ChunksAssumption
       DEF SequentialInv, CounterInv, FrontierInv, TypeOK, Span, Offsets
  <2>3. cache'[o] = cache[o]
    BY <2>2
       DEF SequentialInv, CounterInv, FrontierInv, TypeOK, PatchRename
  <2> QED
    BY <2>1, <2>3, CachedMembers
<1>5. \A v \in Workers : wpc[v] = "renamed" => v = w
  BY DEF SequentialInv, CounterInv, OneHandler, PatchRename
<1> QED
  BY <1>4, <1>5, RenameHeld DEF SequentialInv, CounterInv

(* Only a handler's record and RecoverCache change the recorded set. *)
LEMMA RecordedChanges ==
  ASSUME [Next]_vars
  PROVE  \/ UNCHANGED recorded
         \/ \E w \in Workers : PatchRecord(w)
         \/ Recover
BY DEF Next, vars, rowVars, Patch, PatchAdmit, PatchStage, PatchRefuse,
  PatchLock, PatchRename, PatchAbandon, Merge, MergeWake, MergeList,
  MergeCopy, MergeSync, MergeRecord, MergeUnlink, MergeUnlinkFails, MergeFail,
  Finalize, FinClose, FinCancel, FinDrain, FinPublish, FinRefuse, Published,
  Restart, Crash, Reboot, PowerLoss, Stop

(* The recorded set stays a prefix: a handler adds what follows it, and
   RecoverCache cuts nothing off or all that is above the frontier. *)
LEMMA PrefixStays ==
  ASSUME SequentialInv, [Next]_vars
  PROVE  PrefixOnly'
<1>1. CASE UNCHANGED recorded
  BY <1>1 DEF SequentialInv, PrefixOnly
<1>2. ASSUME NEW w \in Workers, PatchRecord(w) PROVE PrefixOnly'
  <2> DEFINE c == wchunk[w]
             p == ContiguousPrefix(recorded)
  <2>1. c.off = p /\ c.off \in Nat /\ c.size \in 1 .. Len /\ c.off + c.size <= Len
    BY <1>2, ChunkShape
       DEF SequentialInv, CounterInv, FrontierInv, HandlersInv, OneHandler,
           PatchRecord
  <2>2. recorded' = (0 .. (p - 1)) \cup (p .. (p + c.size - 1))
    BY <1>2, <2>1 DEF SequentialInv, PrefixOnly, PatchRecord, Span
  <2> HIDE DEF c, p
  <2>3. recorded' = 0 .. ((p + c.size) - 1) /\ p + c.size \in 0 .. Len
    BY <2>1, <2>2, LenAssumption
  <2> QED
    BY <2>3, PrefixOfInterval DEF PrefixOnly
<1>3. CASE Recover
  <2>1. CASE recorded \subseteq (0 .. (merged - 1)) \cup Cached(cache)
    BY <1>1, <1>3, <2>1 DEF Recover
  <2>2. CASE Cached(cache) = {}
    <3>1. recorded' = 0 .. (merged - 1) /\ merged \in 0 .. Len
      BY <1>3, <2>2
         DEF Recover, SequentialInv, CounterInv, FrontierInv, TypeOK,
             FrontierCommitted
    <3> QED
      BY <3>1, PrefixOfInterval DEF PrefixOnly
  <2> QED
    BY <1>3, <2>1, <2>2 DEF SequentialInv, SpoolWholeOrGone, Recover
<1> QED
  BY <1>1, <1>2, <1>3, RecordedChanges

(* While the process is down nothing but RecoverCache happens. *)
LEMMA DownIsStill ==
  ASSUME FrontierInv, ~up, [Next]_vars
  PROVE  Recover \/ UNCHANGED <<recorded, merged, cache, up>>
<1>1. Idle /\ mpc = "wait" /\ fin = "idle"
  BY DEF FrontierInv, StoppedInv
<1>2. CASE UNCHANGED vars
  BY <1>2 DEF vars, rowVars, storeVars
<1>3. ~Patch
  BY <1>1 DEF Patch, Idle, PatchAdmit, PatchStage, PatchRefuse, PatchLock,
    PatchRename, PatchRecord, PatchAbandon
<1>4. ~Merge
  BY <1>1 DEF Merge, MergeWake, MergeList, MergeCopy, MergeSync, MergeRecord,
    MergeUnlink, MergeUnlinkFails, MergeFail
<1>5. ~Finalize
  BY <1>1 DEF Finalize, FinClose, FinCancel, FinDrain, FinPublish, FinRefuse,
    Published
<1>6. Restart => Recover
  BY DEF Restart, Crash, Reboot, PowerLoss, Stop
<1> QED
  BY <1>2, <1>3, <1>4, <1>5, <1>6 DEF Next

(* A restart finds the spool whole, or empty. *)
LEMMA SpoolStays ==
  ASSUME SequentialWholeSpool, SequentialInv, [Next]_vars
  PROVE  SpoolWholeOrGone'
<1>1. CASE ~up
  <2>1. CASE Recover
    BY <2>1 DEF Recover, SpoolWholeOrGone
  <2>2. CASE UNCHANGED <<recorded, merged, cache, up>>
    BY <2>2 DEF SequentialInv, SpoolWholeOrGone
  <2> QED
    BY <1>1, <2>1, <2>2, DownIsStill DEF SequentialInv, CounterInv
<1>2. CASE up
  <2>1. CASE Crash
    <3>1. cache' = cache /\ UNCHANGED rowVars /\ fin # "done"
      BY <2>1 DEF Crash, Stop, SequentialInv, CounterInv, FrontierInv, TypeOK
    <3> QED
      BY <1>2, <3>1
         DEF SequentialInv, HeldInv, ClaimedBytesHeld, SpoolWholeOrGone,
             rowVars
  <2>2. CASE Reboot
    <3>1. \A o \in Offsets : cache'[o] = 0
      BY <2>2 DEF Reboot, Stop
    <3>2. \A o \in Offsets : Span(o, cache'[o]) = {}
      BY <3>1, ChunksAssumption DEF Span, Offsets
    <3>3. Cached(cache') = {}
      BY <3>2, CachedMembers
    <3> QED
      BY <3>3 DEF SpoolWholeOrGone
  <2>3. CASE ~(Crash \/ Reboot)
    <3>1. up'
      BY <1>2, <2>3
         DEF Next, vars, SequentialWholeSpool, Patch, PatchAdmit, PatchStage,
             PatchRefuse, PatchLock, PatchRename, PatchRecord, PatchAbandon,
             Merge, MergeWake, MergeList, MergeCopy, MergeSync, MergeRecord,
             MergeUnlink, MergeUnlinkFails, MergeFail, Finalize, FinClose,
             FinCancel, FinDrain, FinPublish, FinRefuse, Published, Restart,
             PowerLoss, Recover
    <3> QED
      BY <3>1 DEF SpoolWholeOrGone
  <2> QED
    BY <2>1, <2>2, <2>3
<1> QED
  BY <1>1, <1>2 DEF SequentialInv, CounterInv, FrontierInv, TypeOK

(* The invariant of a client that sends in order to a spool on a memory
   filesystem. *)
LEMMA SequentialNext ==
  ASSUME SequentialWholeSpool, SequentialInv, [Next]_vars
  PROVE  SequentialInv'
<1>1. CounterInv'
  BY CounterNext DEF SequentialInv, SequentialWholeSpool
<1>2. MergeUnlink => cache[mchunk.off] \in {0, mchunk.size}
  BY DEF SequentialInv, CounterInv, ListingCurrent, MergeUnlink
<1>3. HeldInv'
  BY <1>2, HeldNext, SequentialRename, UnlinkHeld DEF SequentialInv, CounterInv
<1> QED
  BY <1>1, <1>3, PrefixStays, SpoolStays DEF SequentialInv

(* A fresh session satisfies the third layer too. *)
LEMMA SequentialInit ==
  Init => SequentialInv
<1> SUFFICES ASSUME Init PROVE SequentialInv
  OBVIOUS
<1>1. OneHandler /\ ListingCurrent
  BY DEF Init, OneHandler, ListingCurrent
<1>2. CounterExact
  BY MeasureEmpty DEF Init, CounterExact
<1>3. PrefixOnly
  <2>1. 0 \in 0 .. Len /\ {} = 0 .. (0 - 1)
    BY LenAssumption
  <2>2. ContiguousPrefix(0 .. (0 - 1)) = 0
    BY <2>1, PrefixOfInterval
  <2> QED
    BY <2>1, <2>2 DEF Init, PrefixOnly
<1>4. SpoolWholeOrGone
  BY DEF Init, SpoolWholeOrGone
<1> QED
  BY <1>1, <1>2, <1>3, <1>4, FrontierInit, HeldInit
     DEF SequentialInv, CounterInv

-----------------------------------------------------------------------------
(* What holds whatever the client sends.                                   *)

(* The first layer holds in every reachable state. *)
THEOREM FrontierInvariant == Spec => []FrontierInv
<1>1. FrontierInv /\ [Next]_vars => FrontierInv'
  BY FrontierNext
<1> QED
  BY <1>1, FrontierInit, PTL DEF Spec

(* Type correctness of the cached data plane, whatever the client sends. *)
THEOREM CacheTypeCorrect == Spec => []TypeOK
<1>1. FrontierInv => TypeOK
  BY DEF FrontierInv
<1> QED
  BY <1>1, FrontierInvariant, PTL

(* Copy, sync, record: the frontier covers only positions on the destination
   disk, whatever the client sends and whatever fails. *)
THEOREM FrontierSound == Spec => []FrontierDurable
<1>1. FrontierInv => FrontierDurable
  BY DEF FrontierInv
<1> QED
  BY <1>1, FrontierInvariant, PTL

(* Nothing beyond the committed contiguous prefix is ever merged, whatever the
   client sends and whatever fails. *)
THEOREM FrontierWithinRow == Spec => []FrontierCommitted
<1>1. FrontierInv => FrontierCommitted
  BY DEF FrontierInv
<1> QED
  BY <1>1, FrontierInvariant, PTL

-----------------------------------------------------------------------------
(* A client that cuts the file one way.                                    *)

(* The two layers together hold in every reachable state. *)
THEOREM CacheInvariant ==
  ASSUME UniformChunks
  PROVE  Spec => []CacheInv
<1>1. Init => CacheInv
  BY FrontierInit, HeldInit DEF CacheInv
<1>2. CacheInv /\ [Next]_vars => CacheInv'
  BY UniformNext
<1> QED
  BY <1>1, <1>2, PTL DEF Spec

(* No acknowledged byte is ever lost, whatever crashes and power cuts do to
   the spool: mergeStep's durability argument. *)
THEOREM AcknowledgedBytesSafe ==
  ASSUME UniformChunks
  PROVE  Spec => []ClaimedBytesHeld
<1>1. CacheInv => ClaimedBytesHeld
  BY DEF CacheInv, HeldInv
<1> QED
  BY <1>1, CacheInvariant, PTL

(* Finalize never publishes a file with a hole. *)
THEOREM PublicationComplete ==
  ASSUME UniformChunks
  PROVE  Spec => []PublishedComplete
<1>1. CacheInv => PublishedComplete
  BY DEF CacheInv, HeldInv
<1> QED
  BY <1>1, CacheInvariant, PTL

-----------------------------------------------------------------------------
(* A client that sends in order.                                           *)

(* In order, the spool's counter equals what the files measure, whatever sizes
   the client sends, however often it resends an offset, and whatever fails. *)
THEOREM SequentialCounterExact ==
  ASSUME RandomAccess = FALSE
  PROVE  Spec => []SpoolCounterExact
<1>1. Init => CounterInv
  BY SequentialInit DEF SequentialInv
<1>2. CounterInv /\ [Next]_vars => CounterInv'
  BY CounterNext
<1>3. CounterInv => SpoolCounterExact
  BY DEF CounterInv, CounterExact, SpoolCounterExact
<1> QED
  BY <1>1, <1>2, <1>3, PTL DEF Spec

(* In order, and with a spool that a restart keeps or loses as a whole, no
   acknowledged byte is lost and no file with a hole is published, however the
   client cuts the file when it resumes. *)
THEOREM SequentialBytesSafe ==
  ASSUME SequentialWholeSpool
  PROVE  Spec => [](ClaimedBytesHeld /\ PublishedComplete)
<1>1. SequentialInv /\ [Next]_vars => SequentialInv'
  BY SequentialNext
<1>2. SequentialInv => ClaimedBytesHeld /\ PublishedComplete
  BY DEF SequentialInv, HeldInv
<1> QED
  BY <1>1, <1>2, SequentialInit, PTL DEF Spec
=============================================================================
