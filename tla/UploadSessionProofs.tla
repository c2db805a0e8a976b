------------------------- MODULE UploadSessionProofs -------------------------
(***************************************************************************)
(* Two models of what becomes of upload sessions: one session whose chunks *)
(* are ordered by name (NamedSpool), for any number of chunks and          *)
(* handlers, any limit on spooled names and any number of faults; and many *)
(* sessions beside the sweep that collects what they leave (UploadDebris). *)
(* They share no variable.                                                 *)
(***************************************************************************)
EXTENDS NamedSpool, UploadDebris, FiniteSetTheorems, TLAPS

-----------------------------------------------------------------------------
(* The inductive invariant.                                                *)

Held(n) == head < Len(part) /\ part[next] = n

\* The row lock is what makes a commit section exclusive, and nothing is in
\* one while a session is assembled or after it was published.
LockInv ==
  /\ \A p \in Putters : pc[p] \in Committing <=> lock = p
  /\ asm = "saved" \/ row = "done" => \A p \in Putters : pc[p] = "idle"
  /\ asm = "saved" => row = "receiving"

\* What a handler knows at each place of its commit section: the chunk that is
\* about to be counted lies at the write head, the one about to be entered in
\* the row has its file, the one about to be acknowledged is behind the cursor.
HandlerInv ==
  \A p \in Putters :
    /\ pc[p] # "idle" => name[p] \in Names
    /\ pc[p] = "appended" => name[p] = next /\ Held(next)
    /\ pc[p] = "renamed" => name[p] > next /\ name[p] \in files
    /\ pc[p] \in {"drain", "merged"} => name[p] < next
    /\ pc[p] = "merged" => next \in spooled /\ Held(next)

\* A part file whose length somebody stated has no room past that length; one
\* without a length has no holes, whatever was left past the write head.
LengthInv ==
  /\ stated # 0 => total = stated /\ Len(part) <= total
  /\ stated = 0 => \A i \in 1 .. Len(part) : part[i] = i

\* Once Assemble has saved the length, the part is the file to publish.
SavedInv ==
  asm = "saved" => /\ \A i \in 1 .. Len(part) : part[i] = i
                   /\ stated # 0 => Len(part) = stated

NamedInv == /\ TypeOK /\ LockInv /\ HandlerInv /\ AssembledInOrder
            /\ AckedKept /\ LengthInv /\ SavedInv /\ PublishedInOrder

-----------------------------------------------------------------------------
(* The part file under Put.                                                *)

\* Writing the chunk n = head + 1 keeps every other cell and the length, or
\* appends one cell.
LEMMA PutFacts ==
  ASSUME TypeOK, AssembledInOrder, next \in Names, Put(next)
  PROVE  /\ part' \in Seq(0 .. N)
         /\ Len(part') = (IF head < Len(part) THEN Len(part) ELSE head + 1)
         /\ Len(part') <= N
         /\ part'[next] = next
         /\ \A i \in 1 .. Len(part') : i # next => i <= Len(part) /\ part'[i] = part[i]
<1>1. next = head + 1 /\ head \in Nat /\ Len(part) \in Nat /\ head <= Len(part)
      /\ part \in Seq(0 .. N) /\ N \in Nat /\ next \in 0 .. N
  BY NAssumption DEF TypeOK, AssembledInOrder, Names
<1>2. CASE head < Len(part)
  <2>1. part' = [part EXCEPT ![head + 1] = next]
    BY <1>2 DEF Put
  <2>2. QED BY <1>1, <1>2, <2>1 DEF TypeOK
<1>3. CASE ~(head < Len(part))
  <2>1. part' = Append(part, next) /\ Len(part) = head
    BY <1>1, <1>3 DEF Put
  <2>2. QED BY <1>1, <1>3, <2>1 DEF Names
<1>4. QED BY <1>2, <1>3

-----------------------------------------------------------------------------
(* Steps that leave the row and the files alone.                           *)

\* A step that leaves the row, the part and the spool alone keeps what is said of them.
LEMMA SameFiles ==
  ASSUME NamedInv, UNCHANGED <<rowVars, fileVars, asm, stated>>
  PROVE  AssembledInOrder' /\ LengthInv' /\ SavedInv' /\ PublishedInOrder'
BY DEF NamedInv, rowVars, fileVars, AssembledInOrder, LengthInv, SavedInv,
       PublishedInOrder

\* A handler that answers without a change, and may acknowledge a chunk that is
\* behind the cursor.
LEMMA AnswerPreserves ==
  ASSUME NamedInv, NEW p \in Putters, pc[p] \in Committing, Answer(p),
         UNCHANGED <<rowVars, fileVars, asm, stated>>, faults' \in 0 .. MaxFaults,
         acked' = acked \/ (acked' = acked \cup {name[p]} /\ name[p] < next)
  PROVE  NamedInv'
<1> USE DEF NamedInv
<1>1. name[p] \in Names /\ lock = p
  BY DEF HandlerInv, LockInv, Committing
<1>2. pc' = [pc EXCEPT ![p] = "idle"] /\ name' = [name EXCEPT ![p] = 0] /\ lock' = None
  BY DEF Answer, Goto
<1>3. TypeOK'
  <2>1. pc' \in [Putters -> Committing \cup {"idle", "body"}] /\ name' \in [Putters -> 0 .. N]
    BY <1>2, NAssumption DEF TypeOK
  <2>2. acked' \subseteq Names
    BY <1>1 DEF TypeOK
  <2>3. QED BY <1>2, <2>1, <2>2 DEF TypeOK, rowVars, fileVars
<1>4. LockInv'
  BY <1>1, <1>2, PuttersAssumption DEF LockInv, TypeOK, rowVars, Committing
<1>5. HandlerInv'
  BY <1>2 DEF HandlerInv, TypeOK, Held, rowVars, fileVars
<1>6. AckedKept'
  BY <1>1 DEF AckedKept, rowVars, fileVars, TypeOK
<1>7. QED BY <1>3, <1>4, <1>5, <1>6, SameFiles

\* PutNamed's first locked section only admits a body: it commits nothing.
LEMMA PutStartPreserves ==
  ASSUME NamedInv, NEW p \in Putters, NEW n \in Names, PutStart(p, n)
  PROVE  NamedInv'
<1> USE DEF NamedInv
<1>1. /\ pc' = [pc EXCEPT ![p] = "body"] /\ name' = [name EXCEPT ![p] = n]
      /\ UNCHANGED <<rowVars, fileVars, lock, asm, clientVars>>
      /\ pc[p] = "idle" /\ lock = None /\ asm = "idle" /\ row = "receiving"
  BY DEF PutStart, Goto
<1>2. TypeOK'
  BY <1>1, NAssumption DEF TypeOK, rowVars, fileVars, clientVars, Names
<1>3. LockInv'
  BY <1>1, PuttersAssumption DEF LockInv, TypeOK, rowVars, Committing
<1>4. HandlerInv'
  BY <1>1 DEF HandlerInv, TypeOK, Held, rowVars, fileVars
<1>5. AckedKept'
  BY <1>1 DEF AckedKept, rowVars, fileVars, clientVars
<1>6. QED BY <1>1, <1>2, <1>3, <1>4, <1>5, SameFiles DEF clientVars

\* Taking the row lock again opens the one commit section there is.
LEMMA PutStagedPreserves ==
  ASSUME NamedInv, NEW p \in Putters, PutStaged(p)
  PROVE  NamedInv'
<1> USE DEF NamedInv
<1>1. /\ pc' = [pc EXCEPT ![p] = "commit"] /\ lock' = p /\ lock = None
      /\ UNCHANGED <<rowVars, fileVars, name, asm, clientVars>> /\ pc[p] = "body"
  BY DEF PutStaged, Goto
<1>2. TypeOK'
  BY <1>1 DEF TypeOK, rowVars, fileVars, clientVars, Committing
<1>3. LockInv'
  BY <1>1, PuttersAssumption DEF LockInv, TypeOK, rowVars, Committing
<1>4. HandlerInv'
  BY <1>1 DEF HandlerInv, TypeOK, Held, rowVars, fileVars
<1>5. AckedKept'
  BY <1>1 DEF AckedKept, rowVars, fileVars, clientVars
<1>6. QED BY <1>1, <1>2, <1>3, <1>4, <1>5, SameFiles DEF clientVars

\* A body that breaks off leaves the session as it was.
LEMMA PutBrokenPreserves ==
  ASSUME NamedInv, NEW p \in Putters, PutBroken(p)
  PROVE  NamedInv'
<1> USE DEF NamedInv
<1>1. /\ pc' = [pc EXCEPT ![p] = "idle"] /\ name' = [name EXCEPT ![p] = 0]
      /\ UNCHANGED <<rowVars, fileVars, lock, asm, acked, stated>> /\ pc[p] = "body"
      /\ faults < MaxFaults /\ faults' = faults + 1
  BY DEF PutBroken, Goto, Fault
<1>2. TypeOK'
  BY <1>1, NAssumption, BoundsAssumption DEF TypeOK, rowVars, fileVars
<1>3. LockInv'
  BY <1>1, PuttersAssumption DEF LockInv, TypeOK, rowVars, Committing
<1>4. HandlerInv'
  BY <1>1 DEF HandlerInv, TypeOK, Held, rowVars, fileVars
<1>5. AckedKept'
  BY <1>1 DEF AckedKept, rowVars, fileVars
<1>6. QED BY <1>1, <1>2, <1>3, <1>4, <1>5, SameFiles

\* The steps that answer: a retry, a refusal, the end of a drain, a failure.
LEMMA AnsweringPreserves ==
  ASSUME NamedInv, NEW p \in Putters,
         \/ PutRetry(p) \/ PutRefuse(p) \/ DrainEnds(p) \/ DrainStops(p) \/ PutFails(p)
  PROVE  NamedInv'
<1> USE DEF NamedInv
<1>1. faults \in 0 .. MaxFaults
  BY DEF TypeOK
<1>2. CASE PutRetry(p)
  BY <1>1, <1>2, AnswerPreserves DEF PutRetry, Created, Committing
<1>3. CASE PutRefuse(p)
  BY <1>1, <1>3, AnswerPreserves DEF PutRefuse, clientVars, Committing
<1>4. CASE DrainEnds(p)
  <2>1. name[p] < next
    BY <1>4 DEF DrainEnds, HandlerInv
  <2>2. QED BY <1>1, <1>4, <2>1, AnswerPreserves DEF DrainEnds, Created, Committing
<1>5. CASE DrainStops(p)
  BY <1>1, <1>5, AnswerPreserves DEF DrainStops, clientVars, Committing
<1>6. CASE PutFails(p)
  <2>1. faults' \in 0 .. MaxFaults
    BY <1>1, <1>6, BoundsAssumption DEF PutFails, Fault
  <2>2. QED BY <1>6, <2>1, AnswerPreserves DEF PutFails, Committing
<1>7. QED BY <1>2, <1>3, <1>4, <1>5, <1>6

-----------------------------------------------------------------------------
(* Steps of the commit section.                                            *)

\* Whoever is in a commit section is the only one, and neither an assembly nor
\* the publication has begun.
LEMMA CommitAlone ==
  ASSUME TypeOK, LockInv, NEW p \in Putters, pc[p] \in Committing
  PROVE  /\ lock = p /\ asm = "idle" /\ row = "receiving"
         /\ \A q \in Putters : q # p => pc[q] \notin Committing
BY DEF TypeOK, LockInv, Committing

\* A chunk copied to the write head: by PutAppend from the body, by DrainMerge
\* from the spool, whose file may have gone afterwards.
LEMMA CopyPreserves ==
  ASSUME NamedInv, NEW p \in Putters, NEW l \in {"appended", "merged"},
         pc[p] \in {"commit", "drain"}, pc' = [pc EXCEPT ![p] = l],
         next \in Names, Fits, Put(next),
         files' = files \/ files' = files \ {next},
         faults' \in 0 .. MaxFaults,
         l = "appended" => name[p] = next,
         l = "merged" => name[p] < next /\ next \in spooled,
         UNCHANGED <<rowVars, dest, lock, name, asm, acked, stated>>
  PROVE  NamedInv'
<1> USE DEF NamedInv
<1>0. TypeOK /\ AssembledInOrder /\ next = head + 1 /\ head \in Nat /\ Len(part) \in Nat
      /\ total \in Nat /\ stated \in Nat /\ N \in Nat
  BY NAssumption DEF AssembledInOrder, TypeOK
<1>1. /\ part' \in Seq(0 .. N)
      /\ Len(part') = (IF head < Len(part) THEN Len(part) ELSE head + 1)
      /\ Len(part') <= N
      /\ part'[next] = next
      /\ \A i \in 1 .. Len(part') : i # next => i <= Len(part) /\ part'[i] = part[i]
  BY <1>0, PutFacts
<1>2. head < Len(part') /\ Len(part) <= Len(part') /\ Len(part') \in Nat
  BY <1>0, <1>1 DEF AssembledInOrder
<1>3. /\ lock = p /\ asm = "idle" /\ row = "receiving"
      /\ \A q \in Putters : q # p => pc[q] \notin Committing
  BY CommitAlone DEF Committing
<1>4. TypeOK'
  <2>1. pc' \in [Putters -> Committing \cup {"idle", "body"}]
    BY DEF TypeOK, Committing
  <2>2. QED BY <1>1, <2>1 DEF TypeOK, rowVars, Names
<1>5. LockInv'
  BY <1>3, PuttersAssumption DEF LockInv, TypeOK, rowVars, Committing
<1>6. HandlerInv'
  <2> SUFFICES ASSUME NEW q \in Putters
               PROVE  (/\ pc[q] # "idle" => name[q] \in Names
                       /\ pc[q] = "appended" => name[q] = next /\ Held(next)
                       /\ pc[q] = "renamed" => name[q] > next /\ name[q] \in files
                       /\ pc[q] \in {"drain", "merged"} => name[q] < next
                       /\ pc[q] = "merged" => next \in spooled /\ Held(next))'
    BY DEF HandlerInv
  <2>1. Held(next)'
    BY <1>1, <1>2 DEF Held, rowVars
  <2>2. CASE q = p
    BY <2>1, <2>2 DEF HandlerInv, TypeOK, rowVars, Committing
  <2>3. CASE q # p
    BY <1>3, <2>3 DEF HandlerInv, TypeOK, rowVars, Committing
  <2>4. QED BY <2>2, <2>3
<1>7. AssembledInOrder'
  <2>1. \A i \in 1 .. head : i # next /\ i \in 1 .. Len(part') /\ part[i] = i
    BY <1>0, <1>2 DEF AssembledInOrder
  <2>2. \A i \in 1 .. head : part'[i] = i
    BY <1>1, <2>1
  <2>3. QED BY <1>0, <1>2, <2>2 DEF AssembledInOrder, rowVars
<1>8. AckedKept'
  <2> SUFFICES ASSUME NEW n \in acked
               PROVE  (\/ n < next \/ n \in files \cap spooled
                       \/ n = next /\ head < Len(part) /\ part[next] = n)'
    BY DEF AckedKept
  <2>1. CASE n = next
    BY <1>1, <1>2, <2>1 DEF rowVars
  <2>2. CASE n # next
    BY <2>2 DEF AckedKept, rowVars
  <2>3. QED BY <2>1, <2>2
<1>9. LengthInv'
  <2>1. stated # 0 => Len(part') <= total
    BY <1>0, <1>1 DEF LengthInv, Fits
  <2>2. stated = 0 => \A i \in 1 .. Len(part') : part'[i] = i
    <3> SUFFICES ASSUME stated = 0, NEW i \in 1 .. Len(part') PROVE part'[i] = i
      OBVIOUS
    <3>1. CASE i = next
      BY <1>1, <3>1
    <3>2. CASE i # next
      BY <1>0, <1>1, <1>2, <3>2 DEF LengthInv
    <3>3. QED BY <3>1, <3>2
  <2>3. QED BY <2>1, <2>2 DEF LengthInv, rowVars
<1>10. SavedInv' /\ PublishedInOrder'
  BY <1>3 DEF SavedInv, PublishedInOrder, rowVars
<1>11. QED BY <1>4, <1>5, <1>6, <1>7, <1>8, <1>9, <1>10

\* The expected name is copied to the write head.
LEMMA PutAppendPreserves ==
  ASSUME NamedInv, NEW p \in Putters, PutAppend(p)
  PROVE  NamedInv'
<1>1. /\ pc[p] \in {"commit", "drain"} /\ pc' = [pc EXCEPT ![p] = "appended"]
      /\ Fits /\ Put(next) /\ name[p] = next /\ pc[p] = "commit"
      /\ UNCHANGED <<rowVars, files, dest, lock, name, asm, acked, stated, faults>>
  BY DEF PutAppend, Goto, clientVars
<1>2. next \in Names /\ faults \in 0 .. MaxFaults
  BY <1>1 DEF NamedInv, HandlerInv, TypeOK
<1>3. QED BY <1>1, <1>2, CopyPreserves

\* drainSpool copies the next spooled name to the write head, its file gone or not.
LEMMA DrainMergePreserves ==
  ASSUME NamedInv, NEW p \in Putters, DrainMerge(p)
  PROVE  NamedInv'
<1>1. /\ pc[p] \in {"commit", "drain"} /\ pc' = [pc EXCEPT ![p] = "merged"]
      /\ Fits /\ Put(next) /\ next \in spooled /\ pc[p] = "drain"
      /\ files' = files \/ files' = files \ {next}
      /\ UNCHANGED <<rowVars, dest, lock, name, asm, acked, stated>>
  BY DEF DrainMerge, Goto
<1>2. next \in Names /\ name[p] < next
  BY <1>1 DEF NamedInv, HandlerInv, TypeOK
<1>3. faults' \in 0 .. MaxFaults
  BY BoundsAssumption DEF DrainMerge, Fault, NamedInv, TypeOK
<1>4. QED BY <1>1, <1>2, <1>3, CopyPreserves

\* The cursor moves past the chunk that was copied, by PutAdvance or by
\* DrainAdvance.
LEMMA AdvancePreserves ==
  ASSUME NamedInv, NEW p \in Putters, pc[p] \in {"appended", "merged"},
         next \in Names, Held(next), name[p] <= next,
         head' = head + 1, next' = next + 1, pc' = [pc EXCEPT ![p] = "drain"],
         spooled' \in {spooled, spooled \ {next}},
         UNCHANGED <<row, total, fileVars, lock, name, asm, clientVars>>
  PROVE  NamedInv'
<1> USE DEF NamedInv
<1>0. next = head + 1 /\ head \in Nat /\ Len(part) \in Nat /\ N \in Nat
  BY NAssumption DEF AssembledInOrder, TypeOK
<1>1. /\ lock = p /\ asm = "idle" /\ row = "receiving"
      /\ \A q \in Putters : q # p => pc[q] \notin Committing
  BY CommitAlone DEF Committing
<1>2. TypeOK'
  <2>1. pc' \in [Putters -> Committing \cup {"idle", "body"}]
    BY DEF TypeOK, Committing
  <2>2. next' \in 1 .. N + 1 /\ head' \in 0 .. N /\ spooled' \subseteq Names
    BY <1>0 DEF TypeOK, Names
  <2>3. QED BY <2>1, <2>2 DEF TypeOK, fileVars, clientVars
<1>3. LockInv'
  BY <1>1, PuttersAssumption DEF LockInv, TypeOK, Committing
<1>4. HandlerInv'
  <2> SUFFICES ASSUME NEW q \in Putters
               PROVE  (/\ pc[q] # "idle" => name[q] \in Names
                       /\ pc[q] = "appended" => name[q] = next /\ Held(next)
                       /\ pc[q] = "renamed" => name[q] > next /\ name[q] \in files
                       /\ pc[q] \in {"drain", "merged"} => name[q] < next
                       /\ pc[q] = "merged" => next \in spooled /\ Held(next))'
    BY DEF HandlerInv
  <2>1. CASE q = p
    <3>1. name[p] \in Names /\ name[p] < next + 1
      BY <1>0 DEF HandlerInv, Names
    <3>2. pc'[q] = "drain"
      BY <2>1 DEF TypeOK
    <3>3. QED BY <2>1, <3>1, <3>2
  <2>2. CASE q # p
    <3>1. pc'[q] = pc[q] /\ pc[q] \notin Committing
      BY <1>1, <2>2 DEF TypeOK
    <3>2. QED BY <3>1 DEF HandlerInv, Committing
  <2>3. QED BY <2>1, <2>2
<1>5. AssembledInOrder'
  BY <1>0 DEF AssembledInOrder, Held, fileVars
<1>6. AckedKept'
  <2> SUFFICES ASSUME NEW n \in acked PROVE n < next + 1 \/ n \in files \cap spooled'
    BY DEF AckedKept, fileVars, clientVars
  <2>1. n \in Nat
    BY DEF TypeOK, Names
  <2>2. QED BY <1>0, <2>1 DEF AckedKept
<1>7. LengthInv' /\ SavedInv' /\ PublishedInOrder'
  BY <1>1 DEF LengthInv, SavedInv, PublishedInOrder, fileVars, clientVars
<1>8. QED BY <1>2, <1>3, <1>4, <1>5, <1>6, <1>7

\* The cursor moves past the name that was appended.
LEMMA PutAdvancePreserves ==
  ASSUME NamedInv, NEW p \in Putters, PutAdvance(p)
  PROVE  NamedInv'
<1>1. pc[p] = "appended" /\ name[p] = next /\ Held(next) /\ name[p] \in Names
  BY DEF PutAdvance, NamedInv, HandlerInv
<1>2. next \in Nat
  BY <1>1, NAssumption DEF Names
<1>3. /\ head' = head + 1 /\ next' = next + 1 /\ pc' = [pc EXCEPT ![p] = "drain"]
      /\ UNCHANGED <<row, total, fileVars, lock, name, asm, clientVars>>
      /\ spooled' \in {spooled, spooled \ {next}}
  BY DEF PutAdvance, Goto
<1>4. next \in Names /\ name[p] <= next
  BY <1>1, <1>2
<1>5. QED BY <1>1, <1>3, <1>4, AdvancePreserves

\* The cursor moves past the name that was drained, which leaves the spool set.
LEMMA DrainAdvancePreserves ==
  ASSUME NamedInv, NEW p \in Putters, DrainAdvance(p)
  PROVE  NamedInv'
<1>1. /\ pc[p] = "merged" /\ name[p] < next /\ Held(next) /\ next \in spooled
      /\ name[p] \in Names
  BY DEF DrainAdvance, NamedInv, HandlerInv
<1>2. next \in Names /\ name[p] <= next
  BY <1>1, NAssumption DEF NamedInv, TypeOK, Names
<1>3. QED BY <1>1, <1>2, AdvancePreserves DEF DrainAdvance, Goto

\* A name ahead of the cursor gets its spool file before the row knows of it.
LEMMA PutSpoolPreserves ==
  ASSUME NamedInv, NEW p \in Putters, PutSpool(p)
  PROVE  NamedInv'
<1> USE DEF NamedInv
<1>1. /\ pc[p] = "commit" /\ name[p] > next /\ files' = files \cup {name[p]}
      /\ pc' = [pc EXCEPT ![p] = "renamed"]
      /\ UNCHANGED <<rowVars, part, dest, lock, name, asm, clientVars>>
  BY DEF PutSpool, Goto
<1>2. name[p] \in Names
  BY <1>1 DEF HandlerInv
<1>3. /\ lock = p /\ asm = "idle" /\ row = "receiving"
      /\ \A q \in Putters : q # p => pc[q] \notin Committing
  BY <1>1, CommitAlone DEF Committing
<1>4. TypeOK'
  BY <1>1, <1>2 DEF TypeOK, rowVars, clientVars, Committing
<1>5. LockInv'
  BY <1>1, <1>3, PuttersAssumption DEF LockInv, TypeOK, rowVars, Committing
<1>6. HandlerInv'
  BY <1>1, <1>2, <1>3 DEF HandlerInv, TypeOK, Held, rowVars, Committing
<1>7. AckedKept'
  BY <1>1 DEF AckedKept, rowVars, clientVars
<1>8. AssembledInOrder' /\ LengthInv' /\ SavedInv' /\ PublishedInOrder'
  BY <1>1 DEF AssembledInOrder, LengthInv, SavedInv, PublishedInOrder, rowVars, clientVars
<1>9. QED BY <1>4, <1>5, <1>6, <1>7, <1>8

\* The row takes the name in and the client is answered.
LEMMA PutSpooledPreserves ==
  ASSUME NamedInv, NEW p \in Putters, PutSpooled(p)
  PROVE  NamedInv'
<1> USE DEF NamedInv
<1>1. /\ pc[p] = "renamed" /\ spooled' = spooled \cup {name[p]}
      /\ pc' = [pc EXCEPT ![p] = "idle"] /\ name' = [name EXCEPT ![p] = 0] /\ lock' = None
      /\ acked' = acked \cup {name[p]}
      /\ UNCHANGED <<row, next, head, total, fileVars, asm, stated, faults>>
  BY DEF PutSpooled, Answer, Goto, Created
<1>2. name[p] \in Names /\ name[p] \in files
  BY <1>1 DEF HandlerInv
<1>3. /\ lock = p /\ asm = "idle" /\ row = "receiving"
      /\ \A q \in Putters : q # p => pc[q] \notin Committing
  BY <1>1, CommitAlone DEF Committing
<1>4. TypeOK'
  BY <1>1, <1>2, NAssumption DEF TypeOK, fileVars
<1>5. LockInv'
  BY <1>1, <1>3, PuttersAssumption DEF LockInv, TypeOK, Committing
<1>6. HandlerInv'
  BY <1>1, <1>3 DEF HandlerInv, TypeOK, Held, fileVars, Committing
<1>7. AckedKept'
  BY <1>1, <1>2 DEF AckedKept, fileVars
<1>8. AssembledInOrder' /\ LengthInv' /\ SavedInv' /\ PublishedInOrder'
  BY <1>1 DEF AssembledInOrder, LengthInv, SavedInv, PublishedInOrder, fileVars
<1>9. QED BY <1>4, <1>5, <1>6, <1>7, <1>8

-----------------------------------------------------------------------------
(* Assemble, and a crash.                                                  *)

\* Assemble settles the length: what lies in the part is then exactly the file.
LEMMA AssembleSavePreserves ==
  ASSUME NamedInv, NEW hdr \in Headers, AssembleSave(hdr)
  PROVE  NamedInv'
<1> USE DEF NamedInv
<1> DEFINE bound == IF hdr # 0 THEN hdr ELSE total
<1>1. /\ asm = "idle" /\ row = "receiving" /\ \A p \in Putters : pc[p] = "idle"
      /\ hdr # 0 /\ total # 0 => hdr = total
      /\ bound > 0 => head = bound
      /\ bound = 0 => head > 0
      /\ total' = (IF bound = 0 THEN head ELSE bound)
      /\ stated' = (IF hdr # 0 THEN hdr ELSE stated) /\ asm' = "saved"
      /\ UNCHANGED <<row, next, head, spooled, fileVars, putVars, acked, faults>>
  BY DEF AssembleSave
<1>2. /\ hdr \in {0, N} /\ total \in 0 .. N /\ head \in 0 .. N /\ stated \in 0 .. N
      /\ N \in Nat \ {0} /\ Len(part) \in Nat /\ head <= Len(part) /\ Len(part) <= N
  BY NAssumption, LengthsAssumption DEF TypeOK, AssembledInOrder
<1>3. TypeOK'
  BY <1>1, <1>2 DEF TypeOK, fileVars, putVars
<1>4. LockInv' /\ HandlerInv' /\ AckedKept' /\ AssembledInOrder' /\ PublishedInOrder'
  BY <1>1 DEF LockInv, HandlerInv, AckedKept, AssembledInOrder, PublishedInOrder, Held,
              fileVars, putVars
<1>5. total' = head
  BY <1>1, <1>2
<1>6. stated' # 0 => Len(part) = head /\ total' = stated'
  BY <1>1, <1>2, <1>5 DEF LengthInv
<1>7. \A i \in 1 .. Len(part) : part[i] = i
  <2>1. CASE stated' # 0
    BY <1>2, <1>6, <2>1 DEF AssembledInOrder
  <2>2. CASE stated' = 0
    BY <1>1, <1>2, <2>2 DEF LengthInv
  <2>3. QED BY <2>1, <2>2
<1>8. LengthInv' /\ SavedInv'
  BY <1>1, <1>2, <1>5, <1>6, <1>7 DEF LengthInv, SavedInv, fileVars
<1>9. QED BY <1>3, <1>4, <1>8

\* finalize publishes the part as it lies there.
LEMMA AssemblePublishPreserves ==
  ASSUME NamedInv, AssemblePublish
  PROVE  NamedInv'
<1> USE DEF NamedInv
<1>1. /\ asm = "saved" /\ dest' = part /\ row' = "done" /\ asm' = "idle"
      /\ UNCHANGED <<next, head, spooled, total, part, files, putVars, clientVars>>
  BY DEF AssemblePublish
<1>2. TypeOK'
  BY <1>1 DEF TypeOK, putVars, clientVars
<1>3. LockInv' /\ HandlerInv' /\ AckedKept' /\ AssembledInOrder'
  BY <1>1 DEF LockInv, HandlerInv, AckedKept, AssembledInOrder, Held, putVars, clientVars
<1>4. LengthInv' /\ SavedInv'
  BY <1>1 DEF LengthInv, SavedInv, clientVars
<1>5. PublishedInOrder'
  BY <1>1 DEF PublishedInOrder, SavedInv, clientVars
<1>6. QED BY <1>2, <1>3, <1>4, <1>5

\* An assembly that fails leaves the session receiving, with the length it took.
LEMMA AssembleFailsPreserves ==
  ASSUME NamedInv, AssembleFails
  PROVE  NamedInv'
<1> USE DEF NamedInv
<1>1. /\ asm = "saved" /\ asm' = "idle" /\ faults < MaxFaults /\ faults' = faults + 1
      /\ UNCHANGED <<rowVars, fileVars, putVars, acked, stated>>
  BY DEF AssembleFails, Fault
<1>2. TypeOK'
  BY <1>1, BoundsAssumption DEF TypeOK, rowVars, fileVars, putVars
<1>3. LockInv' /\ HandlerInv' /\ AckedKept' /\ AssembledInOrder'
  BY <1>1 DEF LockInv, HandlerInv, AckedKept, AssembledInOrder, Held, rowVars, fileVars, putVars
<1>4. LengthInv' /\ SavedInv' /\ PublishedInOrder'
  BY <1>1 DEF LengthInv, SavedInv, PublishedInOrder, rowVars, fileVars
<1>5. QED BY <1>2, <1>3, <1>4

\* A crash forgets the handlers and keeps the row and the files.
LEMMA CrashPreserves ==
  ASSUME NamedInv, Crash
  PROVE  NamedInv'
<1> USE DEF NamedInv
<1>1. /\ faults < MaxFaults /\ faults' = faults + 1 /\ row = "receiving" /\ lock' = None
      /\ pc' = [p \in Putters |-> "idle"] /\ name' = [p \in Putters |-> 0] /\ asm' = "idle"
      /\ UNCHANGED <<rowVars, fileVars, acked, stated>>
  BY DEF Crash, Fault
<1>2. TypeOK'
  BY <1>1, BoundsAssumption, NAssumption DEF TypeOK, rowVars, fileVars
<1>3. LockInv' /\ HandlerInv'
  BY <1>1, PuttersAssumption DEF LockInv, HandlerInv, rowVars, Committing
<1>4. AckedKept' /\ AssembledInOrder'
  BY <1>1 DEF AckedKept, AssembledInOrder, rowVars, fileVars
<1>5. LengthInv' /\ SavedInv' /\ PublishedInOrder'
  BY <1>1 DEF LengthInv, SavedInv, PublishedInOrder, rowVars, fileVars
<1>6. QED BY <1>2, <1>3, <1>4, <1>5

-----------------------------------------------------------------------------
(* The invariant and what follows from it.                                 *)

\* A new session satisfies the invariant, with or without a declared length.
LEMMA NamedInvInit == Init => NamedInv
<1> SUFFICES ASSUME Init PROVE NamedInv
  OBVIOUS
<1>1. /\ total \in 0 .. N /\ N \in Nat \ {0} /\ stated = total
      /\ part = [i \in 1 .. total |-> 0] /\ head = 0 /\ next = 1
  BY NAssumption, LengthsAssumption DEF Init
<1>2. part \in Seq(0 .. N) /\ Len(part) = total
  BY <1>1
<1>3. TypeOK
  <2>1. dest \in Seq(0 .. N)
    BY DEF Init
  <2>2. QED BY <1>1, <1>2, <2>1, BoundsAssumption DEF Init, TypeOK
<1>4. LockInv /\ HandlerInv
  BY PuttersAssumption DEF Init, LockInv, HandlerInv, Committing
<1>5. AssembledInOrder /\ AckedKept
  BY <1>1, <1>2 DEF Init, AssembledInOrder, AckedKept
<1>6. LengthInv /\ SavedInv /\ PublishedInOrder
  BY <1>1, <1>2 DEF Init, LengthInv, SavedInv, PublishedInOrder
<1>7. QED BY <1>3, <1>4, <1>5, <1>6 DEF NamedInv

\* Every step of the name-ordered path preserves the invariant.
LEMMA NamedInvNext == NamedInv /\ [Next]_vars => NamedInv'
<1> SUFFICES ASSUME NamedInv, [Next]_vars PROVE NamedInv'
  OBVIOUS
<1>1. ASSUME NEW p \in Putters, PutNamed(p) PROVE NamedInv'
  <2>1. ASSUME NEW n \in Names, PutStart(p, n) PROVE NamedInv'
    BY <2>1, PutStartPreserves
  <2>2. CASE PutStaged(p) BY <2>2, PutStagedPreserves
  <2>3. CASE PutBroken(p) BY <2>3, PutBrokenPreserves
  <2>4. CASE PutRetry(p) \/ PutRefuse(p) \/ DrainEnds(p) \/ DrainStops(p) \/ PutFails(p)
    BY <2>4, AnsweringPreserves
  <2>5. CASE PutAppend(p) BY <2>5, PutAppendPreserves
  <2>6. CASE PutAdvance(p) BY <2>6, PutAdvancePreserves
  <2>7. CASE PutSpool(p) BY <2>7, PutSpoolPreserves
  <2>8. CASE PutSpooled(p) BY <2>8, PutSpooledPreserves
  <2>9. CASE DrainMerge(p) BY <2>9, DrainMergePreserves
  <2>10. CASE DrainAdvance(p) BY <2>10, DrainAdvancePreserves
  <2>11. QED
    BY <1>1, <2>1, <2>2, <2>3, <2>4, <2>5, <2>6, <2>7, <2>8, <2>9, <2>10 DEF PutNamed
<1>2. ASSUME NEW hdr \in Headers, AssembleSave(hdr) PROVE NamedInv'
  BY <1>2, AssembleSavePreserves
<1>3. CASE AssemblePublish BY <1>3, AssemblePublishPreserves
<1>4. CASE AssembleFails BY <1>4, AssembleFailsPreserves
<1>5. CASE Crash BY <1>5, CrashPreserves
<1>6. CASE Over \/ UNCHANGED vars
  <2>1. UNCHANGED vars
    BY <1>6 DEF Over
  <2>2. QED
    BY <2>1 DEF vars, rowVars, fileVars, putVars, clientVars, NamedInv, TypeOK, LockInv,
                HandlerInv, Held, AssembledInOrder, AckedKept, LengthInv, SavedInv,
                PublishedInOrder
<1>7. QED BY <1>1, <1>2, <1>3, <1>4, <1>5, <1>6 DEF Next, Assemble

\* NamedInv holds in every reachable state.
THEOREM NamedInvariant == Spec => []NamedInv
<1>1. QED BY NamedInvInit, NamedInvNext, PTL DEF Spec

\* Every variable of a name-ordered session keeps its type: the cursor and the
\* part file never run past the last name.
THEOREM NamedTypeCorrect == Spec => []TypeOK
<1>1. NamedInv => TypeOK BY DEF NamedInv
<1>2. QED BY <1>1, NamedInvariant, PTL

\* What the cursor covers is in the part file in order, wherever a PutNamed or
\* its drain was interrupted (named.go).
THEOREM AssemblyOrdered == Spec => []AssembledInOrder
<1>1. NamedInv => AssembledInOrder BY DEF NamedInv
<1>2. QED BY <1>1, NamedInvariant, PTL

\* A chunk that PutNamed acknowledged is behind the cursor, in its spool file,
\* or at the write head already, through any number of faults.
THEOREM AcknowledgedChunksSafe == Spec => []AckedKept
<1>1. NamedInv => AckedKept BY DEF NamedInv
<1>2. QED BY <1>1, NamedInvariant, PTL

\* What Assemble publishes is the chunks in order, and all of them when the
\* length was stated by the MKCOL or the MOVE.
THEOREM AssemblyPublishesOrder == Spec => []PublishedInOrder
<1>1. NamedInv => PublishedInOrder BY DEF NamedInv
<1>2. QED BY <1>1, NamedInvariant, PTL

------------------------------------------------------------------------------
(***************************************************************************)
(* What sessions leave on disk: the sweep spares every session that can    *)
(* still receive, finds every orphan and takes the old ones, for any       *)
(* number of sessions, creations, sweeps and restarts.  The sweep works    *)
(* from a listing, so the argument is about time: a session that is not in *)
(* the listing was created after it, and a creation is shorter than the    *)
(* grace period.                                                           *)
(***************************************************************************)

\* What the theorems ask of the constants: ids are drawn from 1 on, and a
\* session lives for some time.
UdConstants == TTL \in Nat \ {0} /\ \E n \in Nat : UdIds = 1 .. n

------------------------------------------------------------------------------
(* The inductive invariant.                                                *)

SessionRows == [state : {"receiving", "finalizing", "done", "aborted"}, len : Lengths,
                expires : Int, cached : BOOLEAN]
Creations == [pc : {"part", "touch", "row"}, id : UdIds, len : Lengths, born : Nat]
Sweeps == [pc : {"expired", "dirs", "done"}, now : Nat, live : SUBSET UdIds,
           expired : SUBSET UdIds, cand : SUBSET UdIds,
           dirs : SUBSET {DirOf[id] : id \in UdIds}, debt : SUBSET UdIds]

DebrisTypes ==
    /\ udNow \in Nat /\ udOn \in BOOLEAN
    /\ udRow \in [UdIds -> {NoRow} \cup SessionRows] /\ udPart \in [UdIds -> Int]
    /\ udFin \in [UdIds -> {"no", "marked", "timed", "published"}]
    /\ udReq \in [UdReqs -> {UdIdle} \cup Creations] /\ udSw \in {UdIdle} \cup Sweeps
    /\ udPast \in [stray : SUBSET UdIds, lapsed : SUBSET UdIds, dated : SUBSET UdIds, used : Nat]
    /\ udTouched \subseteq {DirOf[id] : id \in UdIds}

\* A creation works on an id of its own that has no row yet, is younger than a
\* session's lifetime, and its part is no older than itself.
CreationOK(q) ==
    /\ q.id <= udPast.used /\ q.born <= udNow /\ udNow - q.born < TTL
    /\ udRow[q.id] = NoRow /\ udFin[q.id] = "no" /\ q.id \notin udPast.dated
    /\ q.pc # "part" => udPart[q.id] # Absent /\ udPart[q.id] >= q.born
CreationInv ==
    /\ \A h \in UdReqs : udReq[h] # UdIdle => CreationOK(udReq[h])
    /\ \A g, h \in UdReqs : g # h /\ udReq[g] # UdIdle /\ udReq[h] # UdIdle
                            => udReq[g].id # udReq[h].id

\* Ids not drawn yet have left nothing; only a finalizing row is being
\* finalized; what can still be received or published has its part.
SessionOK(id) ==
    /\ udPart[id] # Absent \/ Exists(id) \/ id \in udPast.dated => id <= udPast.used
    /\ udFin[id] # "no" => udRow[id].state = "finalizing"
    /\ Live(id) \/ udFin[id] \in {"marked", "timed"}
         => id \in udPast.dated \/ udPart[id] # Absent
SessionInv == \A id \in UdIds : SessionOK(id)

\* A session that the running sweep did not list is younger than its grace.
YoungInv ==
    udSw # UdIdle =>
      /\ udSw.now <= udNow /\ udSw.cand \cap udSw.live = {}
      /\ \A id \in UdIds \ udSw.live :
           Exists(id) /\ id \notin udPast.dated /\ udPart[id] # Absent
             => udSw.now - udPart[id] < TTL

\* A part lies in a recorded directory once its creation is past recording it.
FindInv ==
    \A id \in UdIds :
      (/\ udPart[id] # Absent /\ id \notin udPast.stray
       /\ \A h \in UdReqs : udReq[h].pc = "touch" => udReq[h].id # id)
      => DirOf[id] \in udTouched

\* What the sweep owes is never created again; while it is there it is still an
\* orphan, as old, and still ahead of the sweep.
DebtInv ==
    udSw # UdIdle =>
      \A id \in udSw.debt :
        /\ id <= udPast.used /\ \A h \in UdReqs : udReq[h] # UdIdle => udReq[h].id # id
        /\ udPart[id] # Absent =>
          /\ Orphan(id) /\ id \notin udSw.live /\ udSw.now - udPart[id] >= TTL
          /\ udSw.pc # "done"
          /\ udSw.pc = "expired" => DirOf[id] \in udTouched
          /\ udSw.pc = "dirs" => DirOf[id] \in udSw.dirs \/ id \in udSw.cand

UdInv == DebrisTypes /\ CreationInv /\ SessionInv /\ YoungInv /\ FindInv /\ DebtInv

------------------------------------------------------------------------------
(* Rows, creations and sweeps.                                             *)

\* A row is told from no row, a creation and a sweep from none.
LEMMA DebrisKinds ==
    /\ NoRow.state = "none" /\ \A r \in SessionRows : r.state # "none"
    /\ UdIdle.pc = "idle" /\ \A q \in Creations : q.pc \in {"part", "touch", "row"}
    /\ \A w \in Sweeps : w.pc \in {"expired", "dirs", "done"}
BY DEF NoRow, SessionRows, UdIdle, Creations, Sweeps

LEMMA DebrisFacts ==
    ASSUME DebrisTypes
    PROVE  /\ \A id \in UdIds : /\ udRow[id] \in {NoRow} \cup SessionRows /\ udPart[id] \in Int
                                /\ Exists(id) <=> udRow[id] \in SessionRows
                                /\ ~Exists(id) <=> udRow[id] = NoRow
                                /\ udFin[id] \in {"no", "marked", "timed", "published"}
           /\ \A h \in UdReqs : /\ udReq[h] = UdIdle <=> udReq[h].pc = "idle"
                                /\ udReq[h] # UdIdle <=> udReq[h] \in Creations
           /\ udSw = UdIdle <=> udSw.pc = "idle"
           /\ udSw # UdIdle <=> udSw \in Sweeps
           /\ udPast.used \in Nat /\ udPast.dated \subseteq UdIds /\ udPast.stray \subseteq UdIds
BY DebrisKinds DEF DebrisTypes, Exists

\* A step on one session that has a row disturbs neither the creations nor what
\* the sweep knows of the others.
LEMMA SessionChanges ==
    ASSUME UdConstants, UdInv, NEW id \in UdIds, Exists(id), DebrisTypes', SessionOK(id)',
           udNow' = udNow, udReq' = udReq, udTouched' = udTouched,
           \A j \in UdIds \ {id} : /\ udRow'[j] = udRow[j] /\ udPart'[j] = udPart[j]
                                   /\ udFin'[j] = udFin[j]
                                   /\ j \in udPast'.dated <=> j \in udPast.dated,
           udPast'.stray = udPast.stray, udPast'.used = udPast.used,
           udPast.dated \subseteq udPast'.dated,
           udPart[id] = Absent => udPart'[id] = Absent,
           udPart'[id] \in {Absent, udPart[id], udNow} \/ id \in udPast'.dated,
           udSw' = UdIdle <=> udSw = UdIdle,
           udSw # UdIdle => /\ udSw'.now = udSw.now /\ udSw'.live = udSw.live
                            /\ udSw'.cand = udSw.cand /\ udSw'.dirs = udSw.dirs
                            /\ udSw'.debt = udSw.debt /\ udSw'.pc = udSw.pc
    PROVE  UdInv'
<1>1. DebrisTypes /\ TTL \in Nat \ {0}
  BY DEF UdInv, UdConstants
<1>2. \A h \in UdReqs : udReq[h] # UdIdle => udReq[h].id \in UdIds /\ udReq[h].id # id
  <2>1. \A h \in UdReqs : udReq[h] # UdIdle => udReq[h].id \in UdIds /\ udRow[udReq[h].id] = NoRow
    BY <1>1, DebrisFacts DEF UdInv, CreationInv, CreationOK, Creations
  <2> QED
    BY <1>1, <2>1, DebrisFacts
<1>3. CreationInv'
  <2>1. ASSUME NEW h \in UdReqs, udReq'[h] # UdIdle PROVE CreationOK(udReq[h])'
    <3>1. CreationOK(udReq[h]) /\ udReq[h].id \in UdIds \ {id}
      BY <1>2, <2>1 DEF UdInv, CreationInv
    <3> QED
      BY <3>1 DEF CreationOK
  <2> QED
    BY <2>1 DEF UdInv, CreationInv
<1>4. SessionInv'
  <2>1. ASSUME NEW j \in UdIds \ {id} PROVE SessionOK(j)'
    <3>1. SessionOK(j)
      BY DEF UdInv, SessionInv
    <3> QED
      BY <3>1 DEF SessionOK, Exists, Live
  <2> QED
    BY <2>1 DEF SessionInv
<1>5. YoungInv'
  <2> SUFFICES ASSUME udSw' # UdIdle
               PROVE  /\ udSw.now <= udNow /\ udSw.cand \cap udSw.live = {}
                      /\ \A j \in UdIds \ udSw.live :
                           Exists(j)' /\ j \notin udPast'.dated /\ udPart'[j] # Absent
                             => udSw.now - udPart'[j] < TTL
    BY DEF YoungInv
  <2>1. udSw.now \in Nat /\ udNow \in Nat
    BY <1>1, DebrisFacts DEF DebrisTypes, Sweeps
  <2>2. /\ udSw.now <= udNow /\ udSw.cand \cap udSw.live = {}
        /\ \A j \in UdIds \ udSw.live :
             Exists(j) /\ j \notin udPast.dated /\ udPart[j] # Absent => udSw.now - udPart[j] < TTL
    BY DEF UdInv, YoungInv
  <2>3. \A j \in UdIds \ {id} : Exists(j)' <=> Exists(j)
    BY DEF Exists
  <2> QED
    BY <1>1, <2>1, <2>2, <2>3
<1>6. FindInv'
  BY DEF UdInv, FindInv
<1>7. DebtInv'
  <2>0. udSw # UdIdle => \A j \in udSw.debt :
          j <= udPast.used /\ \A h \in UdReqs : udReq[h] # UdIdle => udReq[h].id # j
    BY DEF UdInv, DebtInv
  <2> SUFFICES ASSUME udSw # UdIdle, NEW j \in udSw.debt, udPart'[j] # Absent
               PROVE  /\ Orphan(j)' /\ j \notin udSw.live /\ udSw.now - udPart'[j] >= TTL
                      /\ udSw.pc # "done"
                      /\ udSw.pc = "expired" => DirOf[j] \in udTouched
                      /\ udSw.pc = "dirs" => DirOf[j] \in udSw.dirs \/ j \in udSw.cand
    BY <2>0 DEF DebtInv
  <2>1. j \in UdIds
    BY <1>1, DebrisFacts DEF Sweeps
  <2>2. udPart[j] # Absent => Orphan(j)
    BY DEF UdInv, DebtInv
  <2>3. j # id
    BY <2>2 DEF Orphan
  <2>4. Orphan(j)'
    BY <2>1, <2>2, <2>3 DEF Orphan, Exists
  <2> QED
    BY <2>1, <2>3, <2>4 DEF UdInv, DebtInv
<1> QED
  BY <1>3, <1>4, <1>5, <1>6, <1>7 DEF UdInv

------------------------------------------------------------------------------
(* Steps on one session.                                                   *)

\* What SessionChanges asks of a step that leaves the sweep and the past alone.
LEMMA OneSession ==
    ASSUME UdConstants, UdInv, NEW id \in UdIds, Exists(id),
           NEW r \in {NoRow} \cup SessionRows, NEW p \in {Absent, udPart[id], udNow},
           NEW f \in {"no", "marked", "timed", "published"},
           udPart[id] = Absent => p = Absent,
           udRow' = [udRow EXCEPT ![id] = r], udPart' = [udPart EXCEPT ![id] = p],
           udFin' = [udFin EXCEPT ![id] = f],
           UNCHANGED <<udNow, udReq, udTouched, udOn>>,
           \/ udSw' = udSw
           \/ udSw # UdIdle /\ \E e \in SUBSET UdIds : udSw' = [udSw EXCEPT !.expired = e],
           udPast' = udPast \/ \E l \in SUBSET UdIds : udPast' = [udPast EXCEPT !.lapsed = l],
           f # "no" => r.state = "finalizing",
           (r.state = "receiving" /\ udNow <= r.expires) \/ f \in {"marked", "timed"}
             => id \in udPast.dated \/ p # Absent
    PROVE  UdInv'
<1>1. DebrisTypes
  BY DEF UdInv
<1>2. p \in Int /\ udNow \in Nat
  BY <1>1, DebrisFacts DEF DebrisTypes, Absent
<1>3. /\ udRow' \in [UdIds -> {NoRow} \cup SessionRows] /\ udPart' \in [UdIds -> Int]
      /\ udFin' \in [UdIds -> {"no", "marked", "timed", "published"}]
      /\ udRow'[id] = r /\ udPart'[id] = p /\ udFin'[id] = f
      /\ \A j \in UdIds \ {id} : /\ udRow'[j] = udRow[j] /\ udPart'[j] = udPart[j]
                                 /\ udFin'[j] = udFin[j]
  BY <1>1, <1>2 DEF DebrisTypes
<1>4. /\ udPast' \in [stray : SUBSET UdIds, lapsed : SUBSET UdIds, dated : SUBSET UdIds, used : Nat]
      /\ udPast'.stray = udPast.stray /\ udPast'.used = udPast.used
      /\ udPast'.dated = udPast.dated
  BY <1>1 DEF DebrisTypes
<1>5. /\ udSw' \in {UdIdle} \cup Sweeps /\ (udSw' = UdIdle <=> udSw = UdIdle)
      /\ udSw # UdIdle => /\ udSw'.now = udSw.now /\ udSw'.live = udSw.live
                          /\ udSw'.cand = udSw.cand /\ udSw'.dirs = udSw.dirs
                          /\ udSw'.debt = udSw.debt /\ udSw'.pc = udSw.pc
  <2>1. CASE udSw' = udSw
    BY <1>1, <2>1 DEF DebrisTypes
  <2>2. CASE udSw # UdIdle /\ \E e \in SUBSET UdIds : udSw' = [udSw EXCEPT !.expired = e]
    <3>1. udSw \in Sweeps
      BY <1>1, <2>2, DebrisFacts
    <3>2. udSw' \in Sweeps /\ udSw'.now = udSw.now /\ udSw'.live = udSw.live
          /\ udSw'.cand = udSw.cand /\ udSw'.dirs = udSw.dirs
          /\ udSw'.debt = udSw.debt /\ udSw'.pc = udSw.pc
      BY <2>2, <3>1 DEF Sweeps
    <3> QED
      BY <2>2, <3>2, DebrisKinds
  <2> QED
    BY <2>1, <2>2
<1>6. DebrisTypes'
  BY <1>1, <1>3, <1>4, <1>5 DEF DebrisTypes
<1>7. SessionOK(id)'
  <2>1. SessionOK(id)
    BY DEF UdInv, SessionInv
  <2>2. id <= udPast'.used
    BY <1>4, <2>1 DEF SessionOK
  <2> QED
    BY <1>3, <1>4, <2>1, <2>2 DEF SessionOK, Live
<1> QED
  BY <1>3, <1>4, <1>5, <1>6, <1>7, SessionChanges

\* The row of a session that exists, and its variants.
LEMMA RowVariants ==
    ASSUME UdConstants, UdInv, NEW id \in UdIds, Exists(id)
    PROVE  LET kept == udRow[id]
               longer == [kept EXCEPT !.expires = udNow + TTL]
           IN  /\ kept \in SessionRows /\ longer \in SessionRows /\ longer.state = kept.state
               /\ \A s \in {"receiving", "finalizing", "done", "aborted"} :
                    /\ [kept EXCEPT !.state = s] \in SessionRows
                    /\ [kept EXCEPT !.state = s].state = s
                    /\ [longer EXCEPT !.state = s] \in SessionRows
                    /\ [longer EXCEPT !.state = s].state = s
<1>1. udRow[id] \in SessionRows /\ udNow + TTL \in Int
  BY DebrisFacts DEF UdInv, UdConstants, DebrisTypes
<1> QED
  BY <1>1 DEF SessionRows

LEMMA LiveExists ==
    ASSUME UdInv, NEW id \in UdIds, Live(id)
    PROVE  Exists(id) /\ udFin[id] = "no"
BY DebrisFacts DEF UdInv, SessionInv, SessionOK, Live, Exists

LEMMA FinExists ==
    ASSUME UdInv, NEW id \in UdIds, udFin[id] # "no"
    PROVE  Exists(id) /\ udRow[id].state = "finalizing"
BY DEF UdInv, SessionInv, SessionOK, Exists

LEMMA PatchKeeps ==
    ASSUME UdConstants, UdInv, NEW id \in UdIds, Patch(id)
    PROVE  UdInv'
<1> DEFINE r == [udRow[id] EXCEPT !.expires = udNow + TTL]
           p == IF udRow[id].cached THEN udPart[id] ELSE udNow
<1>1. Exists(id) /\ r \in SessionRows /\ udFin[id] = "no" /\ udPart[id] # Absent
  BY LiveExists, RowVariants DEF Patch
<1>2. udRow' = [udRow EXCEPT ![id] = r]
  BY DEF Patch, Extended
<1>3. udPart' = [udPart EXCEPT ![id] = p] /\ udFin' = [udFin EXCEPT ![id] = "no"]
  BY <1>1 DEF Patch, UdInv, DebrisTypes
<1>4. p # Absent /\ udNow # Absent
  BY <1>1 DEF UdInv, DebrisTypes, Absent
<1> QED
  BY <1>1, <1>2, <1>3, <1>4, OneSession DEF Patch

LEMMA MergeKeeps ==
    ASSUME UdConstants, UdInv, NEW id \in UdIds, mergeStep(id)
    PROVE  UdInv'
<1>1. Exists(id) /\ udRow[id] \in SessionRows /\ udNow # Absent
  <2>1. Exists(id) /\ DebrisTypes
    BY DEF mergeStep, UdInv
  <2> QED
    BY <2>1, DebrisFacts DEF DebrisTypes, Absent
<1>2. udRow' = [udRow EXCEPT ![id] = udRow[id]] /\ udFin' = [udFin EXCEPT ![id] = udFin[id]]
      /\ udPart' = [udPart EXCEPT ![id] = udNow]
  BY DEF mergeStep, UdInv, DebrisTypes
<1>3. udFin[id] \in {"no", "marked", "timed", "published"}
      /\ (udFin[id] # "no" => udRow[id].state = "finalizing")
  BY DebrisFacts, FinExists DEF UdInv
<1> QED
  BY <1>1, <1>2, <1>3, OneSession DEF mergeStep

LEMMA MarkKeeps ==
    ASSUME UdConstants, UdInv, NEW id \in UdIds, FinalizeMark(id)
    PROVE  UdInv'
<1> DEFINE r == [udRow[id] EXCEPT !.state = "finalizing"]
           l == udPast.lapsed \cup {id}
<1>1. Exists(id) /\ r \in SessionRows /\ r.state = "finalizing" /\ udPart[id] # Absent
  BY LiveExists, RowVariants DEF FinalizeMark
<1>2. udRow' = [udRow EXCEPT ![id] = r] /\ udFin' = [udFin EXCEPT ![id] = "marked"]
  BY DEF FinalizeMark
<1>3. udPart' = [udPart EXCEPT ![id] = udPart[id]]
  BY DEF FinalizeMark, UdInv, DebrisTypes
<1>4. udPast' = [udPast EXCEPT !.lapsed = l] /\ l \in SUBSET UdIds
  BY DEF FinalizeMark, UdInv, DebrisTypes
<1>5. UNCHANGED <<udNow, udReq, udTouched, udOn>> /\ udSw' = udSw
  BY DEF FinalizeMark
<1> HIDE DEF r, l
<1>6. \E k \in SUBSET UdIds : udPast' = [udPast EXCEPT !.lapsed = k]
  BY <1>4
<1> QED
  BY <1>1, <1>2, <1>3, <1>5, <1>6, OneSession

LEMMA PublishDebrisKeeps ==
    ASSUME UdConstants, UdInv, NEW id \in UdIds, FinalizePublish(id)
    PROVE  UdInv'
<1>1. Exists(id) /\ udRow[id].state = "finalizing" /\ udRow[id] \in SessionRows
      /\ UNCHANGED <<udNow, udReq, udTouched, udOn, udSw, udPast>>
  BY FinExists, RowVariants DEF FinalizePublish
<1>2. CASE /\ udPart[id] # Absent /\ udPart' = [udPart EXCEPT ![id] = Absent]
           /\ udFin' = [udFin EXCEPT ![id] = "published"] /\ UNCHANGED udRow
  <2>1. udRow' = [udRow EXCEPT ![id] = udRow[id]]
    BY <1>2 DEF UdInv, DebrisTypes
  <2> QED
    BY <1>1, <1>2, <2>1, OneSession
<1>3. CASE /\ udRow' = [Extended(id) EXCEPT ![id].state = "receiving"]
           /\ udFin' = [udFin EXCEPT ![id] = "no"] /\ UNCHANGED udPart
  <2> DEFINE longer == [udRow[id] EXCEPT !.expires = udNow + TTL]
             r == [longer EXCEPT !.state = "receiving"]
  <2>1. r \in SessionRows
    BY <1>1, RowVariants
  <2>2. udRow' = [udRow EXCEPT ![id] = r]
    BY <1>3 DEF Extended, UdInv, DebrisTypes
  <2>3. udPart' = [udPart EXCEPT ![id] = udPart[id]]
    BY <1>3 DEF UdInv, DebrisTypes
  <2>4. id \in udPast.dated \/ udPart[id] # Absent
    BY DEF FinalizePublish, UdInv, SessionInv, SessionOK
  <2> HIDE DEF r
  <2> QED
    BY <1>1, <1>3, <2>1, <2>2, <2>3, <2>4, OneSession
<1> QED
  BY <1>2, <1>3 DEF FinalizePublish

LEMMA FinalizeEndKeeps ==
    ASSUME UdConstants, UdInv, NEW id \in UdIds, FinalizeEnd(id)
    PROVE  UdInv'
<1>1. Exists(id)
  BY FinExists DEF FinalizeEnd
<1>2. PICK r \in {NoRow, [udRow[id] EXCEPT !.state = "done"]} : udRow' = [udRow EXCEPT ![id] = r]
  BY DEF FinalizeEnd
<1>3. r \in {NoRow} \cup SessionRows /\ r.state \in {"none", "done"}
  <2>1. /\ [udRow[id] EXCEPT !.state = "done"] \in SessionRows
        /\ [udRow[id] EXCEPT !.state = "done"].state = "done"
    BY <1>1, RowVariants
  <2> QED
    BY <2>1, DebrisKinds
<1>4. udPart' = [udPart EXCEPT ![id] = udPart[id]] /\ udFin' = [udFin EXCEPT ![id] = "no"]
  BY DEF FinalizeEnd, UdInv, DebrisTypes
<1> QED
  BY <1>1, <1>2, <1>3, <1>4, OneSession DEF FinalizeEnd

LEMMA AbortDebrisKeeps ==
    ASSUME UdConstants, UdInv, NEW id \in UdIds, Abort(id)
    PROVE  UdInv'
<1>1. Exists(id) /\ udFin[id] = "no"
  BY LiveExists DEF Abort
<1>2. PICK r \in {NoRow, [udRow[id] EXCEPT !.state = "aborted"]} : udRow' = [udRow EXCEPT ![id] = r]
  BY DEF Abort
<1>3. r \in {NoRow} \cup SessionRows /\ r.state \in {"none", "aborted"}
  <2>1. /\ [udRow[id] EXCEPT !.state = "aborted"] \in SessionRows
        /\ [udRow[id] EXCEPT !.state = "aborted"].state = "aborted"
    BY <1>1, RowVariants
  <2> QED
    BY <2>1, DebrisKinds
<1>4. udPart' = [udPart EXCEPT ![id] = Absent] /\ udFin' = [udFin EXCEPT ![id] = "no"]
  BY <1>1 DEF Abort, UdInv, DebrisTypes
<1> QED
  BY <1>1, <1>2, <1>3, <1>4, OneSession DEF Abort

\* What the sweep collects has run out and is not being finalized.
LEMMA CollectKeeps ==
    ASSUME UdConstants, UdInv, NEW id \in UdIds, collectExpired(id)
    PROVE  UdInv'
<1>1. /\ udSw # UdIdle /\ udSw' = [udSw EXCEPT !.expired = udSw.expired \ {id}]
      /\ udSw.expired \ {id} \in SUBSET UdIds
      /\ UNCHANGED <<udNow, udReq, udTouched, udOn, udPast, udFin>>
  BY DebrisFacts DEF collectExpired, UdInv, Sweeps
<1>2. CASE UNCHANGED <<udRow, udPart>>
  <2>1. CASE Exists(id)
    <3>1. /\ udRow' = [udRow EXCEPT ![id] = udRow[id]] /\ udFin' = [udFin EXCEPT ![id] = udFin[id]]
          /\ udPart' = [udPart EXCEPT ![id] = udPart[id]]
      BY <1>1, <1>2 DEF UdInv, DebrisTypes
    <3>2. SessionOK(id) /\ udFin[id] \in {"no", "marked", "timed", "published"}
      BY DebrisFacts DEF UdInv, SessionInv
    <3>3. udRow[id] \in SessionRows
      BY <2>1, RowVariants
    <3> QED
      BY <1>1, <2>1, <3>1, <3>2, <3>3, OneSession DEF SessionOK, Live
  <2>2. CASE ~Exists(id)
    <3>1. udSw \in Sweeps /\ udSw' \in Sweeps /\ udSw' # UdIdle
          /\ udSw'.now = udSw.now /\ udSw'.live = udSw.live
          /\ udSw'.cand = udSw.cand /\ udSw'.dirs = udSw.dirs
          /\ udSw'.debt = udSw.debt /\ udSw'.pc = udSw.pc
      <4>1. udSw \in Sweeps
        BY <1>1, DebrisFacts DEF UdInv
      <4>2. udSw' \in Sweeps /\ udSw'.now = udSw.now /\ udSw'.live = udSw.live
            /\ udSw'.cand = udSw.cand /\ udSw'.dirs = udSw.dirs
            /\ udSw'.debt = udSw.debt /\ udSw'.pc = udSw.pc
        BY <1>1, <4>1 DEF Sweeps
      <4> QED
        BY <4>1, <4>2, DebrisKinds
    <3> QED
      BY <1>1, <1>2, <3>1 DEF UdInv, DebrisTypes, CreationInv, CreationOK, SessionInv, SessionOK,
         YoungInv, FindInv, DebtInv, Orphan, Exists, Live
  <2> QED
    BY <2>1, <2>2
<1>3. CASE ~(~Exists(id) \/ Live(id) \/ udRow[id].state = "finalizing")
  <2>1. Exists(id) /\ ~Live(id) /\ udFin[id] = "no" /\ udRow[id] \in SessionRows
    BY <1>3, FinExists, RowVariants
  <2>2. PICK r \in {NoRow, udRow[id]} : udRow' = [udRow EXCEPT ![id] = r]
    <3>1. udRow = [udRow EXCEPT ![id] = udRow[id]]
      BY DEF UdInv, DebrisTypes
    <3> QED
      BY <1>3, <3>1 DEF collectExpired
  <2>3. udPart' = [udPart EXCEPT ![id] = Absent] /\ udFin' = [udFin EXCEPT ![id] = "no"]
    BY <1>3, <2>1 DEF collectExpired, UdInv, DebrisTypes
  <2>4. r \in {NoRow} \cup SessionRows /\ ~(r.state = "receiving" /\ udNow <= r.expires)
    BY <2>1, DebrisKinds DEF Live
  <2> QED
    BY <1>1, <2>1, <2>2, <2>3, <2>4, OneSession
<1> QED
  BY <1>2, <1>3 DEF collectExpired

LEMMA RecoverKeeps ==
    ASSUME UdConstants, UdInv, NEW id \in UdIds, recoverFinalizing(id)
    PROVE  UdInv'
<1>1. /\ udSw # UdIdle /\ udSw' = [udSw EXCEPT !.expired = udSw.expired \ {id}]
      /\ udSw.expired \ {id} \in SUBSET UdIds
      /\ UNCHANGED <<udNow, udReq, udTouched, udOn, udPast>>
  BY DebrisFacts DEF recoverFinalizing, UdInv, Sweeps
<1>2. Exists(id) /\ udFin[id] = "no"
  BY DEF recoverFinalizing, Exists
<1>3. udPart' = [udPart EXCEPT ![id] = udPart[id]] /\ udFin' = [udFin EXCEPT ![id] = "no"]
  BY <1>2 DEF recoverFinalizing, UdInv, DebrisTypes
<1> DEFINE longer == [udRow[id] EXCEPT !.expires = udNow + TTL]
           r == [longer EXCEPT !.state = "receiving"]
<1>4. CASE udPart[id] # Absent
  <2>1. udRow' = [udRow EXCEPT ![id] = r]
    BY <1>4 DEF recoverFinalizing, Extended, UdInv, DebrisTypes
  <2>2. r \in SessionRows
    BY <1>2, RowVariants
  <2> HIDE DEF r
  <2> QED
    BY <1>1, <1>2, <1>3, <1>4, <2>1, <2>2, OneSession
<1>5. CASE udPart[id] = Absent
  <2>1. udRow' = [udRow EXCEPT ![id] = NoRow]
    BY <1>5 DEF recoverFinalizing
  <2> QED
    BY <1>1, <1>2, <1>3, <2>1, DebrisKinds, OneSession
<1> QED
  BY <1>4, <1>5

\* A part given the client's own time is remembered as dated.
LEMMA SetTimesKeeps ==
    ASSUME UdConstants, UdInv, NEW id \in UdIds, SetTimes(id)
    PROVE  UdInv'
<1>1. Exists(id) /\ udRow[id].state = "finalizing" /\ udPart[id] # Absent
  BY FinExists DEF SetTimes
<1>2. /\ udFin' = [udFin EXCEPT ![id] = "timed"] /\ udPart' = [udPart EXCEPT ![id] = LongAgo]
      /\ udPast' = [udPast EXCEPT !.dated = udPast.dated \cup {id}]
      /\ UNCHANGED <<udNow, udRow, udTouched, udReq, udSw, udOn>>
  BY DEF SetTimes
<1>3. /\ udPast' \in [stray : SUBSET UdIds, lapsed : SUBSET UdIds, dated : SUBSET UdIds, used : Nat]
      /\ udPast'.stray = udPast.stray /\ udPast'.used = udPast.used
      /\ udPast'.dated = udPast.dated \cup {id}
  BY <1>2 DEF UdInv, DebrisTypes
<1>4. DebrisTypes'
  BY <1>2, <1>3 DEF UdInv, DebrisTypes, LongAgo
<1>5. SessionOK(id)'
  BY <1>1, <1>2, <1>3 DEF UdInv, DebrisTypes, SessionInv, SessionOK
<1> QED
  BY <1>1, <1>2, <1>3, <1>4, <1>5, SessionChanges DEF UdInv, DebrisTypes

------------------------------------------------------------------------------
(* Creations.                                                              *)

\* What the invariant says of the creation a step belongs to.
LEMMA CreationFacts ==
    ASSUME UdConstants, UdInv, NEW h \in UdReqs, udReq[h] # UdIdle
    PROVE  /\ udReq[h] \in Creations /\ udReq[h].id \in UdIds /\ CreationOK(udReq[h])
           /\ ~Exists(udReq[h].id)
           /\ \A g \in UdReqs \ {h} : udReq[g] # UdIdle => udReq[g].id # udReq[h].id
           /\ udSw # UdIdle => udReq[h].id \notin udSw.debt
<1>1. udReq[h] \in Creations /\ CreationOK(udReq[h])
  BY DebrisFacts DEF UdInv, CreationInv
<1>2. udReq[h].id \in UdIds
  BY <1>1 DEF Creations
<1> QED
  BY <1>1, <1>2, DebrisFacts DEF UdInv, CreationInv, CreationOK, DebtInv

LEMMA AdmitKeeps ==
    ASSUME UdConstants, UdInv, NEW h \in UdReqs, Admit(h)
    PROVE  UdInv'
<1> DEFINE new == udPast.used + 1
<1>1. DebrisTypes /\ TTL \in Nat \ {0} /\ udNow \in Nat /\ udPast.used \in Nat
  BY DebrisFacts DEF UdInv, UdConstants, DebrisTypes
<1>2. new \in UdIds
  <2>1. PICK n \in Nat : UdIds = 1 .. n
    BY DEF UdConstants
  <2>2. Cardinality(UdIds) = n
    BY <2>1, FS_Interval
  <2> QED
    BY <1>1, <2>1, <2>2 DEF Admit
<1>3. PICK l \in Lengths :
        udReq' = [udReq EXCEPT ![h] = [pc |-> "part", id |-> new, len |-> l, born |-> udNow]]
  BY DEF Admit
<1> DEFINE q == [pc |-> "part", id |-> new, len |-> l, born |-> udNow]
<1>4. q \in Creations /\ q.pc = "part" /\ q.id = new /\ q.born = udNow /\ q # UdIdle
  BY <1>1, <1>2 DEF Creations, UdIdle
<1>5. udReq' = [udReq EXCEPT ![h] = q] /\ udReq[h] = UdIdle
  BY <1>3 DEF Admit
<1> HIDE DEF q
<1>6. udReq' \in [UdReqs -> {UdIdle} \cup Creations] /\ udReq'[h] = q
      /\ \A g \in UdReqs \ {h} : udReq'[g] = udReq[g]
  BY <1>1, <1>4, <1>5 DEF DebrisTypes
<1>7. /\ udPast' \in [stray : SUBSET UdIds, lapsed : SUBSET UdIds, dated : SUBSET UdIds, used : Nat]
      /\ udPast'.stray = udPast.stray /\ udPast'.used = new /\ udPast'.dated = udPast.dated
      /\ UNCHANGED <<udNow, udRow, udPart, udTouched, udFin, udSw, udOn>>
  BY <1>1 DEF Admit, DebrisTypes
<1>8. udPart[new] = Absent /\ ~Exists(new) /\ new \notin udPast.dated /\ udFin[new] = "no"
  <2>1. ~(new <= udPast.used) /\ SessionOK(new)
    BY <1>1, <1>2 DEF UdInv, SessionInv
  <2> QED
    BY <2>1 DEF SessionOK, Exists
<1>9. DebrisTypes'
  BY <1>1, <1>6, <1>7 DEF DebrisTypes
<1>10. \A g \in UdReqs \ {h} :
         udReq[g] # UdIdle => udReq[g].id \in UdIds /\ udReq[g].id <= udPast.used
  BY CreationFacts DEF CreationOK
<1>11. CreationInv'
  <2>1. CreationOK(udReq[h])'
    BY <1>1, <1>2, <1>4, <1>6, <1>7, <1>8, DebrisFacts DEF CreationOK
  <2>2. ASSUME NEW g \in UdReqs \ {h}, udReq[g] # UdIdle PROVE CreationOK(udReq[g])'
    <3>1. CreationOK(udReq[g]) /\ udReq[g] \in Creations
      BY <2>2, CreationFacts
    <3> QED
      BY <1>1, <1>2, <1>6, <1>7, <3>1 DEF CreationOK, Creations, UdConstants
  <2>3. \A g \in UdReqs \ {h} : udReq[g] # UdIdle => udReq[g].id # new
    BY <1>1, <1>10
  <2> QED
    BY <1>4, <1>6, <2>1, <2>2, <2>3 DEF UdInv, CreationInv
<1>12. SessionInv'
  <2>1. ASSUME NEW id \in UdIds PROVE SessionOK(id)'
    <3>1. SessionOK(id) /\ (id <= udPast.used => id <= new)
      BY <1>1 DEF UdInv, SessionInv, UdConstants
    <3> QED
      BY <1>7, <3>1 DEF SessionOK, Exists, Live
  <2> QED
    BY <2>1 DEF SessionInv
<1>13. YoungInv'
  BY <1>7 DEF UdInv, YoungInv, Exists
<1>14. FindInv'
  <2>1. \A g \in UdReqs : udReq'[g].pc = "touch" <=> udReq[g].pc = "touch"
    BY <1>4, <1>5, <1>6, DebrisKinds
  <2>2. \A g \in UdReqs : udReq[g].pc = "touch" => udReq'[g] = udReq[g]
    BY <1>5, <1>6, DebrisKinds
  <2> QED
    BY <1>7, <2>1, <2>2 DEF UdInv, FindInv
<1>15. DebtInv'
  <2> SUFFICES ASSUME udSw # UdIdle, NEW j \in udSw.debt
               PROVE  /\ j <= new /\ \A g \in UdReqs : udReq'[g] # UdIdle => udReq'[g].id # j
                      /\ udPart[j] # Absent => Orphan(j)'
    BY <1>7 DEF UdInv, DebtInv
  <2>1. j \in UdIds
    BY <1>1, DebrisFacts DEF Sweeps
  <2>2. j <= udPast.used /\ j <= new /\ j # new
    BY <1>1, <2>1 DEF UdInv, DebtInv, UdConstants
  <2>3. \A g \in UdReqs : udReq'[g] # UdIdle => udReq'[g].id # j
    BY <1>4, <1>6, <2>2 DEF UdInv, DebtInv
  <2>4. udPart[j] # Absent => Orphan(j)'
    BY <1>7, <2>3 DEF UdInv, DebtInv, Orphan, Exists
  <2> QED
    BY <2>2, <2>3, <2>4
<1> QED
  BY <1>9, <1>11, <1>12, <1>13, <1>14, <1>15 DEF UdInv

\* A creation that goes on to its next step keeps its id, its start and its lock.
LEMMA NextPlace ==
    ASSUME UdConstants, UdInv, NEW h \in UdReqs, udReq[h] # UdIdle,
           NEW c \in {"part", "touch", "row"}, udReq' = [udReq EXCEPT ![h].pc = c]
    PROVE  /\ udReq' \in [UdReqs -> {UdIdle} \cup Creations]
           /\ udReq'[h] \in Creations /\ udReq'[h] # UdIdle /\ udReq'[h].pc = c
           /\ udReq'[h].id = udReq[h].id /\ udReq'[h].born = udReq[h].born
           /\ \A g \in UdReqs \ {h} : udReq'[g] = udReq[g]
           /\ \A g \in UdReqs : /\ udReq'[g] # UdIdle <=> udReq[g] # UdIdle
                                /\ udReq'[g].id = udReq[g].id
<1>1. udReq[h] \in Creations /\ udReq \in [UdReqs -> {UdIdle} \cup Creations]
  BY CreationFacts DEF UdInv, DebrisTypes
<1> DEFINE q == [udReq[h] EXCEPT !.pc = c]
<1>2. q \in Creations /\ q.pc = c /\ q.id = udReq[h].id /\ q.born = udReq[h].born
  BY <1>1 DEF Creations
<1>3. q # UdIdle
  BY <1>2, DebrisKinds
<1>4. udReq' = [udReq EXCEPT ![h] = q]
  OBVIOUS
<1> HIDE DEF q
<1>5. udReq' \in [UdReqs -> {UdIdle} \cup Creations] /\ udReq'[h] = q
      /\ \A g \in UdReqs \ {h} : udReq'[g] = udReq[g]
  BY <1>1, <1>2, <1>4
<1> QED
  BY <1>2, <1>3, <1>5

LEMMA CreatePartKeeps ==
    ASSUME UdConstants, UdInv, NEW h \in UdReqs, createPart(h)
    PROVE  UdInv'
<1> DEFINE id == udReq[h].id
<1>1. DebrisTypes /\ TTL \in Nat \ {0} /\ udNow \in Nat /\ udReq[h] # UdIdle /\ udReq[h].pc = "part"
  BY DebrisFacts DEF createPart, UdInv, UdConstants, DebrisTypes
<1>2. /\ udReq[h] \in Creations /\ id \in UdIds /\ CreationOK(udReq[h]) /\ ~Exists(id)
      /\ \A g \in UdReqs \ {h} : udReq[g] # UdIdle => udReq[g].id # id
      /\ udSw # UdIdle => id \notin udSw.debt
  BY <1>1, CreationFacts
<1>3. /\ udPart' = [udPart EXCEPT ![id] = udNow] /\ udReq' = [udReq EXCEPT ![h].pc = "touch"]
      /\ UNCHANGED <<udNow, udRow, udTouched, udFin, udSw, udOn, udPast>>
  BY DEF createPart
<1>4. /\ udReq' \in [UdReqs -> {UdIdle} \cup Creations]
      /\ udReq'[h] \in Creations /\ udReq'[h] # UdIdle /\ udReq'[h].pc = "touch"
      /\ udReq'[h].id = id /\ udReq'[h].born = udReq[h].born
      /\ \A g \in UdReqs \ {h} : udReq'[g] = udReq[g]
      /\ \A g \in UdReqs : (udReq'[g] # UdIdle <=> udReq[g] # UdIdle) /\ udReq'[g].id = udReq[g].id
  BY <1>1, <1>3, NextPlace
<1> HIDE DEF id
<1>5. /\ udPart' \in [UdIds -> Int] /\ udPart'[id] = udNow
      /\ \A j \in UdIds \ {id} : udPart'[j] = udPart[j]
  BY <1>1, <1>2, <1>3 DEF DebrisTypes
<1>6. DebrisTypes'
  BY <1>1, <1>3, <1>4, <1>5 DEF DebrisTypes
<1>7. CreationInv'
  <2>1. CreationOK(udReq[h])'
    <3>1. udReq[h].born <= udNow /\ udReq[h].born \in Nat /\ udNow # Absent
      BY <1>1, <1>2 DEF CreationOK, Creations, Absent
    <3> QED
      BY <1>1, <1>2, <1>3, <1>4, <1>5, <3>1 DEF CreationOK, id
  <2>2. ASSUME NEW g \in UdReqs \ {h}, udReq[g] # UdIdle PROVE CreationOK(udReq[g])'
    <3>1. CreationOK(udReq[g]) /\ udReq[g].id \in UdIds \ {id}
      BY <1>2, <2>2, CreationFacts
    <3> QED
      BY <1>3, <1>4, <1>5, <3>1 DEF CreationOK
  <2>3. \A g \in UdReqs : udReq'[g] # UdIdle => CreationOK(udReq[g])'
    BY <1>4, <2>1, <2>2
  <2> QED
    BY <1>4, <2>3 DEF UdInv, CreationInv
<1>8. SessionInv'
  <2>1. ASSUME NEW j \in UdIds PROVE SessionOK(j)'
    <3>1. SessionOK(j) /\ id <= udPast.used /\ udNow # Absent
      BY <1>1, <1>2 DEF UdInv, SessionInv, CreationOK, id, Absent
    <3> QED
      BY <1>3, <1>5, <3>1 DEF SessionOK, Exists, Live
  <2> QED
    BY <2>1 DEF SessionInv
<1>9. YoungInv'
  BY <1>2, <1>3, <1>5 DEF UdInv, YoungInv, Exists
<1>10. FindInv'
  <2>1. \A g \in UdReqs : udReq[g].pc = "touch" => udReq'[g] = udReq[g]
    BY <1>1, <1>4
  <2> QED
    BY <1>3, <1>4, <1>5, <2>1 DEF UdInv, FindInv
<1>11. DebtInv'
  <2> SUFFICES ASSUME udSw # UdIdle, NEW j \in udSw.debt
               PROVE  /\ udPart'[j] = udPart[j]
                      /\ udPart[j] # Absent /\ Orphan(j) => Orphan(j)'
    BY <1>3, <1>4 DEF UdInv, DebtInv
  <2>1. j \in UdIds \ {id}
    BY <1>1, <1>2, DebrisFacts DEF Sweeps
  <2> QED
    BY <1>3, <1>4, <1>5, <2>1 DEF Orphan, Exists
<1> QED
  BY <1>6, <1>7, <1>8, <1>9, <1>10, <1>11 DEF UdInv

LEMMA TouchKeeps ==
    ASSUME UdConstants, UdInv, NEW h \in UdReqs, TouchUploadDir(h)
    PROVE  UdInv'
<1> DEFINE id == udReq[h].id
<1>1. DebrisTypes /\ udReq[h] # UdIdle /\ udReq[h].pc = "touch"
  BY DebrisFacts DEF TouchUploadDir, UdInv
<1>2. udReq[h] \in Creations /\ id \in UdIds /\ CreationOK(udReq[h])
  BY <1>1, CreationFacts
<1>3. /\ udReq' = [udReq EXCEPT ![h].pc = "row"]
      /\ UNCHANGED <<udNow, udRow, udPart, udFin, udSw, udOn>>
  BY DEF TouchUploadDir
<1>4. /\ udReq' \in [UdReqs -> {UdIdle} \cup Creations]
      /\ udReq'[h] \in Creations /\ udReq'[h] # UdIdle /\ udReq'[h].pc = "row"
      /\ udReq'[h].id = id /\ udReq'[h].born = udReq[h].born
      /\ \A g \in UdReqs \ {h} : udReq'[g] = udReq[g]
      /\ \A g \in UdReqs : (udReq'[g] # UdIdle <=> udReq[g] # UdIdle) /\ udReq'[g].id = udReq[g].id
  BY <1>1, <1>3, NextPlace
<1>5. \/ udTouched' = udTouched \cup {DirOf[id]} /\ udPast' = udPast
      \/ udTouched' = udTouched /\ udPast' = [udPast EXCEPT !.stray = udPast.stray \cup {id}]
  BY DEF TouchUploadDir
<1> HIDE DEF id
<1>6. /\ udPast' \in [stray : SUBSET UdIds, lapsed : SUBSET UdIds, dated : SUBSET UdIds, used : Nat]
      /\ udPast'.used = udPast.used /\ udPast'.dated = udPast.dated
      /\ udTouched \subseteq udTouched' /\ udTouched' \subseteq {DirOf[j] : j \in UdIds}
      /\ udPast.stray \subseteq udPast'.stray
      /\ DirOf[id] \in udTouched' \/ id \in udPast'.stray
  BY <1>1, <1>2, <1>5 DEF DebrisTypes
<1>7. DebrisTypes'
  BY <1>1, <1>3, <1>4, <1>6 DEF DebrisTypes
<1>8. CreationInv'
  <2>1. CreationOK(udReq[h])'
    BY <1>1, <1>2, <1>3, <1>4, <1>6 DEF CreationOK, id
  <2>2. \A g \in UdReqs \ {h} : udReq[g] # UdIdle => CreationOK(udReq[g])'
    BY <1>3, <1>4, <1>6 DEF UdInv, CreationInv, CreationOK
  <2>3. \A g \in UdReqs : udReq'[g] # UdIdle => CreationOK(udReq[g])'
    BY <1>4, <2>1, <2>2
  <2> QED
    BY <1>4, <2>3 DEF UdInv, CreationInv
<1>9. SessionInv'
  BY <1>3, <1>6 DEF UdInv, SessionInv, SessionOK, Exists, Live
<1>10. YoungInv'
  BY <1>3, <1>6 DEF UdInv, YoungInv, Exists
<1>11. FindInv'
  BY <1>3, <1>4, <1>6 DEF UdInv, FindInv, id
<1>12. DebtInv'
  BY <1>3, <1>4, <1>6 DEF UdInv, DebtInv, Orphan, Exists
<1> QED
  BY <1>7, <1>8, <1>9, <1>10, <1>11, <1>12 DEF UdInv

\* The row of a creation comes while its part is younger than a sweep's grace.
LEMMA CreateRowKeeps ==
    ASSUME UdConstants, UdInv, NEW h \in UdReqs, CreateUploadSession(h)
    PROVE  UdInv'
<1> DEFINE id == udReq[h].id
<1>1. DebrisTypes /\ TTL \in Nat \ {0} /\ udNow \in Nat /\ udReq[h] # UdIdle /\ udReq[h].pc = "row"
  BY DebrisFacts DEF CreateUploadSession, UdInv, UdConstants, DebrisTypes
<1>2. /\ udReq[h] \in Creations /\ id \in UdIds /\ CreationOK(udReq[h]) /\ ~Exists(id)
      /\ \A g \in UdReqs \ {h} : udReq[g] # UdIdle => udReq[g].id # id
      /\ udSw # UdIdle => id \notin udSw.debt
  BY <1>1, CreationFacts
<1>3. /\ udReq' = [udReq EXCEPT ![h] = UdIdle]
      /\ UNCHANGED <<udNow, udTouched, udFin, udSw, udOn, udPast>>
  BY DEF CreateUploadSession
<1>4. newRow(h) \in SessionRows
  BY <1>1, <1>2 DEF newRow, SessionRows, Creations, DebrisTypes
<1>5. PICK r \in {NoRow, newRow(h)} : udRow' = [udRow EXCEPT ![id] = r]
  <2>1. udRow = [udRow EXCEPT ![id] = NoRow]
    BY <1>1, <1>2, DebrisFacts DEF DebrisTypes
  <2> QED
    BY <2>1 DEF CreateUploadSession
<1>6. PICK p \in {Absent, udPart[id]} :
        udPart' = [udPart EXCEPT ![id] = p] /\ (p = Absent => r = NoRow)
  <2>1. udPart = [udPart EXCEPT ![id] = udPart[id]]
    BY <1>1, <1>2 DEF DebrisTypes
  <2>2. udPart[id] # Absent
    BY <1>1, <1>2 DEF CreationOK
  <2>3. CASE udRow' = [udRow EXCEPT ![id] = newRow(h)] /\ UNCHANGED udPart
    BY <2>1, <2>2, <2>3
  <2>4. CASE udPart' = [udPart EXCEPT ![id] = Absent] /\ UNCHANGED udRow
    <3>1. udRow'[id] = r /\ udRow[id] = NoRow
      BY <1>1, <1>2, <1>5, DebrisFacts DEF DebrisTypes
    <3> QED
      BY <2>4, <3>1
  <2> QED
    BY <2>3, <2>4 DEF CreateUploadSession
<1> HIDE DEF id
<1>7. /\ udRow' \in [UdIds -> {NoRow} \cup SessionRows] /\ udPart' \in [UdIds -> Int]
      /\ udReq' \in [UdReqs -> {UdIdle} \cup Creations]
      /\ udRow'[id] = r /\ udPart'[id] = p /\ udReq'[h] = UdIdle
      /\ \A j \in UdIds \ {id} : udRow'[j] = udRow[j] /\ udPart'[j] = udPart[j]
      /\ \A g \in UdReqs \ {h} : udReq'[g] = udReq[g]
  BY <1>1, <1>2, <1>3, <1>4, <1>5, <1>6 DEF DebrisTypes, Absent
<1>8. DebrisTypes'
  BY <1>1, <1>3, <1>7 DEF DebrisTypes
<1>9. CreationInv'
  <2>1. ASSUME NEW g \in UdReqs \ {h}, udReq[g] # UdIdle PROVE CreationOK(udReq[g])'
    <3>1. CreationOK(udReq[g]) /\ udReq[g].id \in UdIds \ {id}
      BY <1>2, <2>1, CreationFacts
    <3> QED
      BY <1>3, <1>7, <3>1 DEF CreationOK
  <2> QED
    BY <1>7, <2>1 DEF UdInv, CreationInv
<1>10. SessionInv'
  <2>1. ASSUME NEW j \in UdIds \ {id} PROVE SessionOK(j)'
    <3>1. SessionOK(j)
      BY DEF UdInv, SessionInv
    <3> QED
      BY <1>3, <1>7, <3>1 DEF SessionOK, Exists, Live
  <2>2. ASSUME NEW j \in UdIds, j = id PROVE SessionOK(j)'
    <3>1. udFin[id] = "no" /\ id <= udPast.used /\ NoRow.state = "none"
      BY <1>2, DebrisKinds DEF CreationOK, id
    <3> QED
      BY <1>3, <1>6, <1>7, <2>2, <3>1 DEF SessionOK, Exists, Live
  <2> QED
    BY <2>1, <2>2 DEF SessionInv
<1>11. YoungInv'
  <2>1. ASSUME udSw # UdIdle, p # Absent PROVE udSw.now - p < TTL
    <3>1. udSw.now \in Nat /\ udSw.now <= udNow
      BY <1>1, <2>1, DebrisFacts DEF UdInv, YoungInv, Sweeps
    <3>2. p = udPart[id] /\ p \in Int /\ udReq[h].born \in Nat
      BY <1>1, <1>2, <1>6, <2>1, DebrisFacts DEF Creations
    <3>3. p >= udReq[h].born /\ udNow - udReq[h].born < TTL
      BY <1>1, <1>2, <3>2 DEF CreationOK, id
    <3> QED
      BY <1>1, <3>1, <3>2, <3>3
  <2> QED
    BY <1>3, <1>7, <2>1 DEF UdInv, YoungInv, Exists
<1>12. FindInv'
  <2>1. \A g \in UdReqs : udReq[g].pc = "touch" => udReq'[g] = udReq[g]
    BY <1>1, <1>7
  <2> QED
    BY <1>3, <1>6, <1>7, <2>1 DEF UdInv, FindInv
<1>13. DebtInv'
  <2> SUFFICES ASSUME udSw # UdIdle, NEW j \in udSw.debt
               PROVE  /\ udPart'[j] = udPart[j]
                      /\ \A g \in UdReqs : udReq'[g] # UdIdle => udReq'[g].id # j
                      /\ udPart[j] # Absent /\ Orphan(j) => Orphan(j)'
    BY <1>3 DEF UdInv, DebtInv
  <2>1. j \in UdIds \ {id}
    BY <1>1, <1>2, DebrisFacts DEF Sweeps
  <2>2. \A g \in UdReqs : udReq'[g] # UdIdle => udReq'[g].id # j
    BY <1>7 DEF UdInv, DebtInv
  <2> QED
    BY <1>7, <2>1, <2>2 DEF Orphan, Exists
<1> QED
  BY <1>8, <1>9, <1>10, <1>11, <1>12, <1>13 DEF UdInv

------------------------------------------------------------------------------
(* The sweep, the clock and the restart.                                   *)

\* A step of the sweep alone has only the sweep's own parts to keep.
LEMMA SweepMoves ==
    ASSUME UdConstants, UdInv,
           UNCHANGED <<udNow, udRow, udPart, udTouched, udReq, udFin, udPast, udOn>>,
           udSw' \in {UdIdle} \cup Sweeps, YoungInv', DebtInv'
    PROVE  UdInv'
BY DEF UdInv, DebrisTypes, CreationInv, CreationOK, SessionInv, SessionOK, FindInv, Exists, Live

\* The listing holds every session there is; the debt is what is an orphan now.
LEMMA SweepKeeps ==
    ASSUME UdConstants, UdInv, Sweep
    PROVE  UdInv'
<1> DEFINE w == [pc |-> "expired", now |-> udNow, live |-> {id \in UdIds : Exists(id)},
                 expired |-> {id \in UdIds : Exists(id) /\ udRow[id].expires <= udNow},
                 cand |-> {}, dirs |-> {},
                 debt |-> {id \in UdIds : /\ Orphan(id) /\ DirOf[id] \in udTouched
                                          /\ udNow - udPart[id] >= TTL}]
<1>1. /\ udSw' = w
      /\ UNCHANGED <<udNow, udRow, udPart, udTouched, udReq, udFin, udPast, udOn>>
  BY DEF Sweep
<1>2. udNow \in Nat
  BY DEF UdInv, DebrisTypes
<1>3. /\ w \in Sweeps /\ w.pc = "expired" /\ w.now = udNow /\ w.cand = {}
      /\ w.live = {id \in UdIds : Exists(id)}
      /\ w.debt = {id \in UdIds : /\ Orphan(id) /\ DirOf[id] \in udTouched
                                  /\ udNow - udPart[id] >= TTL}
  BY <1>2 DEF Sweeps
<1> HIDE DEF w
<1>4. YoungInv'
  BY <1>1, <1>2, <1>3 DEF YoungInv, Exists
<1>5. DebtInv'
  <2>1. \A id \in UdIds : Orphan(id) => id <= udPast.used
    BY DEF UdInv, SessionInv, SessionOK, Orphan
  <2> QED
    BY <1>1, <1>3, <2>1 DEF DebtInv, Orphan, Exists
<1> QED
  BY <1>1, <1>3, <1>4, <1>5, SweepMoves

LEMMA TouchedDirsKeeps ==
    ASSUME UdConstants, UdInv, touchedDirs
    PROVE  UdInv'
<1>1. /\ udSw \in Sweeps /\ udSw # UdIdle /\ udSw.pc = "expired"
      /\ udTouched \subseteq {DirOf[id] : id \in UdIds}
  BY DebrisFacts DEF touchedDirs, UdInv, DebrisTypes
<1>2. /\ udSw' \in Sweeps /\ udSw'.pc = "dirs" /\ udSw'.dirs = udTouched
      /\ udSw'.now = udSw.now /\ udSw'.live = udSw.live
      /\ udSw'.cand = udSw.cand /\ udSw'.debt = udSw.debt
  BY <1>1 DEF touchedDirs, Sweeps
<1>3. UNCHANGED <<udNow, udRow, udPart, udTouched, udReq, udFin, udPast, udOn>>
  BY DEF touchedDirs
<1>4. YoungInv'
  BY <1>1, <1>2, <1>3 DEF UdInv, YoungInv, Exists
<1>5. DebtInv'
  BY <1>1, <1>2, <1>3 DEF UdInv, DebtInv, Orphan, Exists
<1> QED
  BY <1>2, <1>3, <1>4, <1>5, SweepMoves

LEMMA SweepDirKeeps ==
    ASSUME UdConstants, UdInv, NEW d, sweepDir(d)
    PROVE  UdInv'
<1> DEFINE c == {id \in UdIds \ udSw.live : DirOf[id] = d /\ udPart[id] # Absent}
<1>1. udSw \in Sweeps /\ udSw # UdIdle /\ udSw.pc = "dirs" /\ udSw.cand = {}
  BY DebrisFacts DEF sweepDir, UdInv, DebrisTypes
<1>2. udSw' = [udSw EXCEPT !.dirs = udSw.dirs \ {d}, !.cand = c] /\ c \in SUBSET UdIds
  BY DEF sweepDir, claimedNames
<1> HIDE DEF c
<1>3. /\ udSw' \in Sweeps /\ udSw'.pc = "dirs" /\ udSw'.dirs = udSw.dirs \ {d}
      /\ udSw'.now = udSw.now /\ udSw'.live = udSw.live
      /\ udSw'.cand = c /\ udSw'.debt = udSw.debt
  BY <1>1, <1>2 DEF Sweeps
<1>4. UNCHANGED <<udNow, udRow, udPart, udTouched, udReq, udFin, udPast, udOn>>
  BY DEF sweepDir
<1>5. YoungInv'
  BY <1>1, <1>3, <1>4 DEF UdInv, YoungInv, Exists, c
<1>6. DebtInv'
  <2>1. udSw.debt \subseteq UdIds
    BY <1>1 DEF Sweeps
  <2> QED
    BY <1>1, <1>3, <1>4, <2>1 DEF UdInv, DebtInv, Orphan, Exists, c
<1> QED
  BY <1>3, <1>4, <1>5, <1>6, SweepMoves

\* A part old enough by the sweep's clock belongs to no session and to no
\* creation that has written one.
LEMMA OldIsDebris ==
    ASSUME UdConstants, UdInv, udSw # UdIdle, NEW id \in UdIds \ udSw.live,
           udPart[id] # Absent, OldEnough(udPart[id], udSw.now), id \notin udPast.dated
    PROVE  /\ ~Exists(id)
           /\ \A h \in UdReqs : udReq[h] # UdIdle /\ udReq[h].id = id => udReq[h].pc = "part"
<1>1. /\ udSw.now \in Nat /\ udNow \in Nat /\ TTL \in Nat \ {0} /\ udPart[id] \in Int
      /\ udSw.now <= udNow /\ udSw.now - udPart[id] >= TTL
  BY DebrisFacts DEF UdInv, UdConstants, DebrisTypes, Sweeps, YoungInv, OldEnough
<1>2. ~Exists(id)
  BY <1>1 DEF UdInv, YoungInv
<1>3. ASSUME NEW h \in UdReqs, udReq[h] # UdIdle, udReq[h].id = id, udReq[h].pc # "part"
      PROVE  FALSE
  <2>1. CreationOK(udReq[h]) /\ udReq[h].born \in Nat
    BY <1>3, CreationFacts DEF Creations
  <2>2. udPart[id] >= udReq[h].born /\ udNow - udReq[h].born < TTL
    BY <1>3, <2>1 DEF CreationOK
  <2> QED
    BY <1>1, <2>1, <2>2
<1> QED
  BY <1>2, <1>3

LEMMA SweepPartKeeps ==
    ASSUME UdConstants, UdInv, NEW id \in UdIds, SweepPart(id)
    PROVE  UdInv'
<1>1. /\ DebrisTypes /\ udSw \in Sweeps /\ udSw # UdIdle /\ udSw.pc = "dirs"
      /\ id \in udSw.cand /\ id \notin udSw.live
  BY DebrisFacts DEF SweepPart, UdInv, YoungInv
<1>2. UNCHANGED <<udNow, udRow, udTouched, udReq, udFin, udOn, udPast>>
  BY DEF SweepPart
<1>3. ASSUME NEW o \in SUBSET UdIds, o \subseteq udSw.debt,
             \/ udSw' = [udSw EXCEPT !.cand = udSw.cand \ {id}, !.debt = o]
             \/ udSw' = [udSw EXCEPT !.cand = udSw.cand \ {id}] /\ o = udSw.debt
      PROVE  /\ udSw' \in Sweeps /\ udSw' # UdIdle /\ udSw'.pc = udSw.pc /\ udSw'.dirs = udSw.dirs
             /\ udSw'.now = udSw.now /\ udSw'.live = udSw.live
             /\ udSw'.cand = udSw.cand \ {id} /\ udSw'.debt = o
  <2>1. /\ udSw' \in Sweeps /\ udSw'.pc = udSw.pc /\ udSw'.dirs = udSw.dirs
        /\ udSw'.now = udSw.now /\ udSw'.live = udSw.live
        /\ udSw'.cand = udSw.cand \ {id} /\ udSw'.debt = o
    BY <1>1, <1>3 DEF Sweeps
  <2> QED
    BY <2>1, DebrisKinds
<1>4. udSw.debt \in SUBSET UdIds
  BY <1>1 DEF Sweeps
<1>5. CASE UNCHANGED udPart
  <2>1. ASSUME NEW o \in SUBSET UdIds, o \subseteq udSw.debt,
               udSw' \in Sweeps, udSw' # UdIdle, udSw'.pc = udSw.pc, udSw'.dirs = udSw.dirs,
               udSw'.now = udSw.now, udSw'.live = udSw.live,
               udSw'.cand = udSw.cand \ {id}, udSw'.debt = o,
               id \in o => udPart[id] = Absent
        PROVE  UdInv'
    <3>1. YoungInv'
      BY <1>1, <1>2, <1>5, <2>1 DEF UdInv, YoungInv, Exists
    <3>2. DebtInv'
      <4> SUFFICES ASSUME NEW j \in o
                   PROVE  /\ j <= udPast.used
                          /\ \A h \in UdReqs : udReq[h] # UdIdle => udReq[h].id # j
                          /\ udPart[j] # Absent =>
                               /\ Orphan(j) /\ j \notin udSw.live /\ udSw.now - udPart[j] >= TTL
                               /\ DirOf[j] \in udSw.dirs \/ j \in udSw.cand \ {id}
        BY <1>1, <1>2, <1>5, <2>1 DEF DebtInv, Orphan, Exists
      <4>1. j \in udSw.debt
        BY <2>1
      <4> QED
        BY <1>1, <2>1, <4>1 DEF UdInv, DebtInv
    <3> QED
      BY <1>2, <1>5, <2>1, <3>1, <3>2, SweepMoves
  <2>2. CASE udSw' = [udSw EXCEPT !.cand = udSw.cand \ {id}, !.debt = udSw.debt \ {id}]
    <3> DEFINE o == udSw.debt \ {id}
    <3>1. o \in SUBSET UdIds /\ o \subseteq udSw.debt /\ id \notin o
      BY <1>4
    <3>2. udSw' = [udSw EXCEPT !.cand = udSw.cand \ {id}, !.debt = o]
      BY <2>2
    <3> HIDE DEF o
    <3>3. /\ udSw' \in Sweeps /\ udSw' # UdIdle /\ udSw'.pc = udSw.pc /\ udSw'.dirs = udSw.dirs
          /\ udSw'.now = udSw.now /\ udSw'.live = udSw.live
          /\ udSw'.cand = udSw.cand \ {id} /\ udSw'.debt = o
      BY <1>3, <3>1, <3>2
    <3> QED
      BY <2>1, <3>1, <3>3
  <2>3. CASE /\ ~(udPart[id] # Absent /\ OldEnough(udPart[id], udSw.now))
             /\ udSw' = [udSw EXCEPT !.cand = udSw.cand \ {id}]
    <3>1. id \in udSw.debt => udPart[id] = Absent
      BY <1>1, <2>3 DEF UdInv, DebtInv, OldEnough
    <3> QED
      BY <1>3, <1>4, <2>1, <2>3, <3>1
  <2>4. CASE udPart' = [udPart EXCEPT ![id] = Absent] /\ udPart[id] # Absent
    <3>1. udPart'[id] = Absent
      BY <1>1, <2>4 DEF DebrisTypes
    <3> QED
      BY <1>5, <2>4, <3>1
  <2> QED
    BY <2>2, <2>3, <2>4 DEF SweepPart
<1>6. CASE /\ udPart[id] # Absent /\ OldEnough(udPart[id], udSw.now)
           /\ udPart' = [udPart EXCEPT ![id] = Absent]
           /\ udSw' = [udSw EXCEPT !.cand = udSw.cand \ {id}]
  <2>1. /\ udSw' \in Sweeps /\ udSw' # UdIdle /\ udSw'.pc = udSw.pc /\ udSw'.dirs = udSw.dirs
        /\ udSw'.now = udSw.now /\ udSw'.live = udSw.live
        /\ udSw'.cand = udSw.cand \ {id} /\ udSw'.debt = udSw.debt
    BY <1>3, <1>4, <1>6
  <2>2. /\ udPart' \in [UdIds -> Int] /\ udPart'[id] = Absent
        /\ \A j \in UdIds \ {id} : udPart'[j] = udPart[j]
    BY <1>1, <1>6 DEF DebrisTypes, Absent
  <2>3. /\ id \notin udPast.dated => ~Exists(id)
        /\ \A h \in UdReqs : udReq[h] # UdIdle /\ udReq[h].id = id => udReq[h].pc = "part"
    <3>1. CASE id \in udPast.dated
      BY <3>1 DEF UdInv, CreationInv, CreationOK
    <3>2. CASE id \notin udPast.dated
      BY <1>1, <1>6, <3>2, OldIsDebris
    <3> QED
      BY <3>1, <3>2
  <2>4. DebrisTypes'
    BY <1>1, <1>2, <2>1, <2>2 DEF DebrisTypes
  <2>5. CreationInv'
    <3>1. ASSUME NEW h \in UdReqs, udReq[h] # UdIdle PROVE CreationOK(udReq[h])'
      <4>1. CreationOK(udReq[h]) /\ udReq[h].id \in UdIds
        BY <3>1, CreationFacts
      <4> QED
        BY <1>2, <2>2, <2>3, <3>1, <4>1 DEF CreationOK
    <3> QED
      BY <1>2, <3>1 DEF UdInv, CreationInv
  <2>6. SessionInv'
    <3>1. ASSUME NEW j \in UdIds PROVE SessionOK(j)'
      <4>1. SessionOK(j) /\ (udFin[j] # "no" => Exists(j)) /\ (Live(j) => Exists(j))
        BY FinExists, LiveExists DEF UdInv, SessionInv
      <4>2. udFin[j] \in {"marked", "timed"} => udFin[j] # "no"
        OBVIOUS
      <4> QED
        BY <1>2, <2>2, <2>3, <4>1, <4>2 DEF SessionOK, Exists, Live
    <3> QED
      BY <3>1 DEF SessionInv
  <2>7. YoungInv'
    BY <1>1, <1>2, <2>1, <2>2 DEF UdInv, YoungInv, Exists
  <2>8. FindInv'
    BY <1>2, <2>2 DEF UdInv, FindInv
  <2>9. DebtInv'
    <3> SUFFICES ASSUME NEW j \in udSw.debt
                 PROVE  /\ j <= udPast.used
                        /\ \A h \in UdReqs : udReq[h] # UdIdle => udReq[h].id # j
                        /\ udPart'[j] # Absent =>
                             /\ Orphan(j)' /\ j \notin udSw.live /\ udSw.now - udPart'[j] >= TTL
                             /\ DirOf[j] \in udSw.dirs \/ j \in udSw.cand \ {id}
      BY <1>1, <1>2, <2>1 DEF DebtInv
    <3>1. j \in UdIds
      BY <1>4
    <3> QED
      BY <1>1, <1>2, <2>2, <3>1 DEF UdInv, DebtInv, Orphan, Exists
  <2> QED
    BY <2>4, <2>5, <2>6, <2>7, <2>8, <2>9 DEF UdInv
<1> QED
  BY <1>5, <1>6 DEF SweepPart

LEMMA SweepCacheKeeps ==
    ASSUME UdConstants, UdInv, sweepCache
    PROVE  UdInv'
<1>1. udSw \in Sweeps /\ udSw # UdIdle /\ udSw.pc = "dirs" /\ udSw.dirs = {} /\ udSw.cand = {}
  BY DebrisFacts DEF sweepCache, UdInv
<1>2. /\ udSw' \in Sweeps /\ udSw'.pc = "done" /\ udSw'.dirs = udSw.dirs
      /\ udSw'.now = udSw.now /\ udSw'.live = udSw.live
      /\ udSw'.cand = udSw.cand /\ udSw'.debt = udSw.debt
  BY <1>1 DEF sweepCache, Sweeps
<1>3. UNCHANGED <<udNow, udRow, udPart, udTouched, udReq, udFin, udPast, udOn>>
  BY DEF sweepCache
<1>4. YoungInv'
  BY <1>1, <1>2, <1>3 DEF UdInv, YoungInv, Exists
<1>5. DebtInv'
  BY <1>1, <1>2, <1>3 DEF UdInv, DebtInv
<1> QED
  BY <1>2, <1>3, <1>4, <1>5, SweepMoves

LEMMA SweepEndsKeeps ==
    ASSUME UdConstants, UdInv, SweepEnds
    PROVE  UdInv'
<1>1. udSw' = UdIdle /\ UNCHANGED <<udNow, udRow, udPart, udTouched, udReq, udFin, udPast, udOn>>
  BY DEF SweepEnds
<1>2. YoungInv' /\ DebtInv'
  BY <1>1 DEF YoungInv, DebtInv
<1> QED
  BY <1>1, <1>2, SweepMoves

LEMMA UdTickKeeps ==
    ASSUME UdConstants, UdInv, UdTick
    PROVE  UdInv'
<1>1. DebrisTypes /\ udNow \in Nat /\ udNow' = udNow + 1 /\ TTL \in Nat \ {0}
      /\ UNCHANGED <<udRow, udPart, udTouched, udReq, udFin, udSw, udOn, udPast>>
  BY DEF UdTick, UdInv, DebrisTypes, UdConstants
<1>2. DebrisTypes'
  BY <1>1 DEF DebrisTypes
<1>3. CreationInv'
  <2>1. ASSUME NEW h \in UdReqs, udReq[h] # UdIdle PROVE CreationOK(udReq[h])'
    <3>1. CreationOK(udReq[h]) /\ udReq[h].born \in Nat /\ udNow + 1 - udReq[h].born < TTL
      BY <2>1, CreationFacts DEF Creations, UdTick
    <3> QED
      BY <1>1, <3>1 DEF CreationOK
  <2> QED
    BY <1>1, <2>1 DEF UdInv, CreationInv
<1>4. SessionInv'
  <2>1. ASSUME NEW id \in UdIds PROVE SessionOK(id)'
    <3>1. SessionOK(id)
      BY DEF UdInv, SessionInv
    <3>2. Live(id)' => Live(id)
      <4>1. ASSUME udRow[id].state = "receiving" PROVE udRow[id].expires \in Int
        BY <1>1, <4>1, DebrisFacts DEF Exists, SessionRows
      <4> QED
        BY <1>1, <4>1 DEF Live
    <3> QED
      BY <1>1, <3>1, <3>2 DEF SessionOK, Exists
  <2> QED
    BY <2>1 DEF SessionInv
<1>5. YoungInv'
  <2>1. udSw # UdIdle => udSw.now \in Nat
    BY <1>1, DebrisFacts DEF Sweeps
  <2> QED
    BY <1>1, <2>1 DEF UdInv, YoungInv, Exists
<1>6. FindInv' /\ DebtInv'
  BY <1>1 DEF UdInv, FindInv, DebtInv, Orphan, Exists
<1> QED
  BY <1>2, <1>3, <1>4, <1>5, <1>6 DEF UdInv

\* A restart ends creations and sweeps; a part whose directory was not recorded
\* yet is remembered as stray.
LEMMA UdRestartKeeps ==
    ASSUME UdConstants, UdInv, UdRestart
    PROVE  UdInv'
<1> DEFINE cut == {udReq[h].id : h \in {g \in UdReqs : udReq[g].pc = "touch"}}
<1>1. /\ udReq' = [h \in UdReqs |-> UdIdle] /\ udFin' = [id \in UdIds |-> "no"] /\ udSw' = UdIdle
      /\ udPast' = [udPast EXCEPT !.stray = udPast.stray \cup cut]
      /\ UNCHANGED <<udNow, udRow, udPart, udTouched, udOn>>
  BY DEF UdRestart
<1>2. DebrisTypes /\ cut \subseteq UdIds
  <2>1. \A h \in UdReqs : udReq[h].pc = "touch" => udReq[h] # UdIdle
    BY DebrisKinds
  <2> QED
    BY <2>1, CreationFacts DEF UdInv
<1> HIDE DEF cut
<1>3. /\ udPast' \in [stray : SUBSET UdIds, lapsed : SUBSET UdIds, dated : SUBSET UdIds, used : Nat]
      /\ udPast'.stray = udPast.stray \cup cut
      /\ udPast'.used = udPast.used /\ udPast'.dated = udPast.dated
  BY <1>1, <1>2 DEF DebrisTypes
<1>4. DebrisTypes'
  BY <1>1, <1>2, <1>3 DEF DebrisTypes
<1>5. CreationInv' /\ YoungInv' /\ DebtInv'
  BY <1>1 DEF CreationInv, YoungInv, DebtInv
<1>6. SessionInv'
  BY <1>1, <1>3 DEF UdInv, SessionInv, SessionOK, Exists, Live
<1>7. FindInv'
  BY <1>1, <1>3 DEF UdInv, FindInv, cut
<1> QED
  BY <1>4, <1>5, <1>6, <1>7 DEF UdInv

------------------------------------------------------------------------------
(* The theorems.                                                           *)

LEMMA DebrisInit ==
    ASSUME UdConstants, UdInit
    PROVE  UdInv
<1>1. NoRow.state = "none" /\ UdIdle.pc = "idle"
  BY DebrisKinds
<1>2. DebrisTypes
  BY DEF UdInit, DebrisTypes, Absent
<1>3. CreationInv /\ YoungInv /\ DebtInv /\ FindInv
  BY DEF UdInit, CreationInv, YoungInv, DebtInv, FindInv
<1>4. SessionInv
  BY <1>1 DEF UdInit, SessionInv, SessionOK, Exists, Live
<1> QED
  BY <1>2, <1>3, <1>4 DEF UdInv

LEMMA DebrisStep ==
    ASSUME UdConstants, UdInv, [UdNext]_udVars
    PROVE  UdInv'
<1>1. CASE UNCHANGED udVars
  BY <1>1 DEF udVars, UdInv, DebrisTypes, CreationInv, CreationOK, SessionInv, SessionOK, YoungInv,
     FindInv, DebtInv, Orphan, Exists, Live
<1>2. CASE SetCacheEnabled
  BY <1>2 DEF SetCacheEnabled, UdInv, DebrisTypes, CreationInv, CreationOK, SessionInv, SessionOK,
     YoungInv, FindInv, DebtInv, Orphan, Exists, Live
<1>3. ASSUME NEW h \in UdReqs,
             Admit(h) \/ createPart(h) \/ TouchUploadDir(h) \/ CreateUploadSession(h)
      PROVE  UdInv'
  BY <1>3, AdmitKeeps, CreatePartKeeps, TouchKeeps, CreateRowKeeps
<1>4. ASSUME NEW id \in UdIds,
             \/ Patch(id) \/ mergeStep(id) \/ FinalizeMark(id) \/ SetTimes(id)
             \/ FinalizePublish(id) \/ FinalizeEnd(id) \/ Abort(id)
      PROVE  UdInv'
  BY <1>4, PatchKeeps, MergeKeeps, MarkKeeps, SetTimesKeeps, PublishDebrisKeeps,
     FinalizeEndKeeps, AbortDebrisKeeps
<1>5. ASSUME NEW id \in UdIds, collectExpired(id) \/ recoverFinalizing(id) \/ SweepPart(id)
      PROVE  UdInv'
  BY <1>5, CollectKeeps, RecoverKeeps, SweepPartKeeps
<1>6. ASSUME NEW d, sweepDir(d) PROVE UdInv'
  BY <1>6, SweepDirKeeps
<1>7. CASE Sweep \/ touchedDirs \/ sweepCache \/ SweepEnds
  BY <1>7, SweepKeeps, TouchedDirsKeeps, SweepCacheKeeps, SweepEndsKeeps
<1>8. CASE UdTick \/ UdRestart
  BY <1>8, UdTickKeeps, UdRestartKeeps
<1> QED
  BY <1>1, <1>2, <1>3, <1>4, <1>5, <1>6, <1>7, <1>8 DEF UdNext

THEOREM DebrisInvariant == ASSUME UdConstants PROVE UdSpec => []UdInv
<1>1. UdInit => UdInv
  BY DebrisInit
<1>2. UdInv /\ [UdNext]_udVars => UdInv'
  BY DebrisStep
<1> QED
  BY <1>1, <1>2, PTL DEF UdSpec

\* However many sessions come and go while a sweep runs, and wherever the process
\* restarts, the sweep takes no part of a session that can still receive, except
\* one that a publication under way has given the client's own time (sweep.go
\* Sweep, sweepDir, collectExpired).
THEOREM SweepSparesReceiving == ASSUME UdConstants PROVE UdSpec => []SweepSparesLive
<1>1. UdInv => SweepSparesLive
  BY DEF UdInv, SessionInv, SessionOK, SweepSparesLive
<1> QED
  BY <1>1, DebrisInvariant, PTL

\* Every part without a row lies in a directory the sweep looks into, unless
\* recording that directory failed or was cut off (session.go Create).
THEOREM OrphansAreFindable == ASSUME UdConstants PROVE UdSpec => []OrphanFindable
<1>1. UdInv => OrphanFindable
  <2> SUFFICES ASSUME UdInv, NEW id \in UdIds, Orphan(id), id \notin udPast.stray
               PROVE  DirOf[id] \in udTouched
    BY DEF OrphanFindable
  <2>1. \A h \in UdReqs : udReq[h].pc = "touch" => udReq[h].id # id
    BY DebrisKinds DEF Orphan
  <2> QED
    BY <2>1 DEF UdInv, FindInv, Orphan
<1> QED
  BY <1>1, DebrisInvariant, PTL

\* A sweep that runs to its end has taken every orphan old enough when it began,
\* but for those it could not unlink (sweep.go Sweep, sweepDir).
THEOREM SweepCollectsDebt == ASSUME UdConstants PROVE UdSpec => []CollectsDebt
<1>1. UdInv => CollectsDebt
  <2> SUFFICES ASSUME UdInv, udSw.pc = "done", NEW id \in udSw.debt
               PROVE  udPart[id] = Absent
    BY DEF CollectsDebt
  <2>1. udSw # UdIdle
    BY DebrisKinds
  <2> QED
    BY <2>1 DEF UdInv, DebtInv
<1> QED
  BY <1>1, DebrisInvariant, PTL
==============================================================================
