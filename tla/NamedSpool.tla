------------------------------ MODULE NamedSpool ------------------------------
(***************************************************************************)
(* The name-ordered upload session (backend/internal/uploads, PutNamed and *)
(* Assemble), which the chunked-upload collection of the Nextcloud surface *)
(* uses.  A chunk carries a number and no offset: the one that comes next  *)
(* is appended to the part file, every other one is spooled to a file of   *)
(* its own until its predecessors have arrived.                            *)
(*                                                                         *)
(* The row's cursor and the files are changed one after the other, and a   *)
(* crash, a failing disk or a client that hangs up may come between any    *)
(* two of those steps.  A chunk is one cell and its content is its name.   *)
(* That no body is under way while a session is assembled is taken from    *)
(* UploadLifecycle.                                                        *)
(***************************************************************************)
EXTENDS Integers, Sequences, FiniteSets

CONSTANTS
  N,           \* the file's chunks are named 1 .. N
  Putters,     \* PUT handlers
  Declared,    \* lengths MKCOL may have declared; 0: none
  Headers,     \* lengths the assembling MOVE may state; 0: none
  MaxSpooled,  \* limits.UploadSpooledNames
  MaxFaults    \* bound of the model: crashes and failing steps

None == "none"
Names == 1 .. N

ASSUME NAssumption == N \in Nat \ {0}
ASSUME LengthsAssumption == Declared \subseteq 0 .. N /\ Headers \subseteq {0, N}
ASSUME BoundsAssumption == MaxSpooled \in Nat /\ MaxFaults \in Nat
ASSUME PuttersAssumption == None \notin Putters

VARIABLES
  (* The session row. *)
  row,        \* "receiving", or "done" once published
  next,       \* next_name
  head,       \* write_head
  spooled,    \* spooled_names
  total,      \* total_len; 0: not declared
  (* Files. *)
  part,       \* the part file, a sequence of chunk names, 0 for a hole
  files,      \* names that have a spool file
  dest,       \* the published file
  (* The process. *)
  lock,       \* holder of the session's row lock
  pc, name,   \* the PUT handlers
  asm,        \* the assembling request: "idle" or "saved"
  (* What the client knows, and the environment's faults. *)
  acked,      \* names answered with 201
  stated,     \* the length the client has stated; 0: none
  faults

rowVars    == <<row, next, head, spooled, total>>
fileVars   == <<part, files, dest>>
putVars    == <<lock, pc, name>>
clientVars == <<acked, stated, faults>>
vars == <<rowVars, fileVars, putVars, asm, clientVars>>

Init ==
  /\ row = "receiving" /\ next = 1 /\ head = 0 /\ spooled = {}
  /\ total \in Declared
  /\ part = [i \in 1 .. total |-> 0] /\ files = {} /\ dest = <<>>
  /\ lock = None /\ pc = [p \in Putters |-> "idle"]
  /\ name = [p \in Putters |-> 0]
  /\ asm = "idle" /\ acked = {} /\ stated = total /\ faults = 0

Fault == faults < MaxFaults /\ faults' = faults + 1

\* commitStagedAt, mergeChunk: one chunk is copied to the write head.
Put(n) == part' = IF head < Len(part) THEN [part EXCEPT ![head + 1] = n]
                                      ELSE Append(part, n)

\* A chunk at the write head stays within the declared length.
Fits == total = 0 \/ head < total

\* namedHeldBytes: what is assembled and what the row says is spooled; a name
\* whose file has gone counts for nothing.
NamedHeldBytes(replacing) ==
  head + Cardinality((spooled \ {replacing}) \cap files)

-----------------------------------------------------------------------------
(* PutNamed.                                                               *)

Goto(p, l) == pc' = [pc EXCEPT ![p] = l]

\* The handler answers and lets go of the row lock.
Answer(p) == /\ Goto(p, "idle") /\ name' = [name EXCEPT ![p] = 0]
             /\ lock' = None

Created(p) == acked' = acked \cup {name[p]} /\ UNCHANGED <<stated, faults>>

\* The first locked section: the state, the limit on spooled names, the lease.
PutStart(p, n) ==
  /\ pc[p] = "idle" /\ lock = None /\ asm = "idle" /\ row = "receiving"
  /\ n = next \/ n \in spooled \/ Cardinality(spooled) < MaxSpooled
  /\ Goto(p, "body") /\ name' = [name EXCEPT ![p] = n]
  /\ UNCHANGED <<rowVars, fileVars, lock, asm, clientVars>>

\* The body has been staged and the row lock is taken again.
PutStaged(p) ==
  /\ pc[p] = "body" /\ lock = None /\ lock' = p /\ Goto(p, "commit")
  /\ UNCHANGED <<rowVars, fileVars, name, asm, clientVars>>

PutBroken(p) ==
  /\ pc[p] = "body" /\ Fault
  /\ Goto(p, "idle") /\ name' = [name EXCEPT ![p] = 0]
  /\ UNCHANGED <<rowVars, fileVars, lock, asm, acked, stated>>

\* Mutant: the comparison takes the expected name for an old one.
MutIgnoresNext(p) ==
  /\ pc[p] = "commit" /\ name[p] <= next /\ Answer(p) /\ Created(p)
  /\ UNCHANGED <<rowVars, fileVars, asm>>

\* The name has been assembled already: a retry after a lost response.
PutRetry(p) ==
  /\ pc[p] = "commit" /\ name[p] < next /\ Answer(p) /\ Created(p)
  /\ UNCHANGED <<rowVars, fileVars, asm>>

\* The expected name goes to the write head and is synced.
PutAppend(p) ==
  /\ pc[p] = "commit" /\ name[p] = next /\ Fits
  /\ Put(next) /\ Goto(p, "appended")
  /\ UNCHANGED <<rowVars, files, dest, lock, name, asm, clientVars>>

PutAdvance(p) ==
  /\ pc[p] = "appended"
  /\ head' = head + 1 /\ next' = next + 1 /\ Goto(p, "drain")
  /\ UNCHANGED <<row, spooled, total, fileVars, lock, name, asm, clientVars>>

\* Another name waits in the spool, within the length the session may hold.
PutSpool(p) ==
  /\ pc[p] = "commit" /\ name[p] > next
  /\ total = 0 \/ NamedHeldBytes(name[p]) < total
  /\ files' = files \cup {name[p]} /\ Goto(p, "renamed")
  /\ UNCHANGED <<rowVars, part, dest, lock, name, asm, clientVars>>

\* Mutant: the answer does not wait for the row.
MutAcksRename(p) ==
  /\ pc[p] = "renamed" /\ Answer(p) /\ Created(p)
  /\ UNCHANGED <<rowVars, fileVars, asm>>

PutSpooled(p) ==
  /\ pc[p] = "renamed" /\ spooled' = spooled \cup {name[p]}
  /\ Answer(p) /\ Created(p)
  /\ UNCHANGED <<row, next, head, total, fileVars, asm>>

\* A chunk that would exceed the declared length is refused.
PutRefuse(p) ==
  /\ pc[p] = "commit"
  /\ \/ name[p] = next /\ ~Fits
     \/ name[p] > next /\ total # 0 /\ NamedHeldBytes(name[p]) >= total
  /\ Answer(p)
  /\ UNCHANGED <<rowVars, fileVars, asm, clientVars>>

-----------------------------------------------------------------------------
(* drainSpool, after every append.                                         *)

DrainEnds(p) ==
  /\ pc[p] = "drain" /\ next \notin spooled /\ Answer(p) /\ Created(p)
  /\ UNCHANGED <<rowVars, fileVars, asm>>

\* Mutants: the merged chunk lands one cell further; it is unlinked uncopied.
MutMergesPastHead(p) ==
  /\ pc[p] = "drain" /\ next \in spooled \cap files /\ Fits
  /\ part' = Append(part, next) /\ files' = files \ {next} /\ Goto(p, "merged")
  /\ UNCHANGED <<rowVars, dest, lock, name, asm, clientVars>>

MutUnlinksFirst(p) ==
  /\ pc[p] = "drain" /\ next \in spooled \cap files /\ Fits
  /\ files' = files \ {next} /\ Goto(p, "merged")
  /\ UNCHANGED <<rowVars, part, dest, lock, name, asm, clientVars>>

\* mergeChunk: copied to the write head, synced, and the spool file removed,
\* if it can be, before the row is saved.
DrainMerge(p) ==
  /\ pc[p] = "drain" /\ next \in spooled \cap files /\ Fits
  /\ Put(next) /\ Goto(p, "merged")
  /\ \/ files' = files \ {next} /\ UNCHANGED faults
     \/ UNCHANGED files /\ Fault
  /\ UNCHANGED <<rowVars, dest, lock, name, asm, acked, stated>>

DrainAdvance(p) ==
  /\ pc[p] = "merged"
  /\ head' = head + 1 /\ next' = next + 1 /\ spooled' = spooled \ {next}
  /\ Goto(p, "drain")
  /\ UNCHANGED <<row, total, fileVars, lock, name, asm, clientVars>>

\* Merging refuses: the spool file has gone, or the length is exceeded.
DrainStops(p) ==
  /\ pc[p] = "drain" /\ next \in spooled /\ (next \notin files \/ ~Fits)
  /\ Answer(p)
  /\ UNCHANGED <<rowVars, fileVars, asm, clientVars>>

\* Storage or the database fails, or the client has hung up and its context
\* with it: the handler returns with what has been done so far.
PutFails(p) ==
  /\ pc[p] \in {"commit", "appended", "renamed", "drain", "merged"} /\ Fault
  /\ Answer(p)
  /\ UNCHANGED <<rowVars, fileVars, asm, acked, stated>>

-----------------------------------------------------------------------------
(* Assemble.                                                               *)

\* Mutant: the length stated is not compared with what has been assembled.
MutAssemblesAny(hdr) ==
  /\ asm = "idle" /\ row = "receiving" /\ \A p \in Putters : pc[p] = "idle"
  /\ head > 0
  /\ total' = (IF hdr # 0 THEN hdr ELSE head) /\ asm' = "saved"
  /\ stated' = (IF hdr # 0 THEN hdr ELSE stated)
  /\ UNCHANGED <<row, next, head, spooled, fileVars, putVars, acked, faults>>

\* Every body has left.  The lengths have to agree with each other and with the
\* write head; without any length, the write head is taken for it.  The length
\* is saved before finalize runs.
AssembleSave(hdr) ==
  LET bound == IF hdr # 0 THEN hdr ELSE total
  IN /\ asm = "idle" /\ row = "receiving" /\ \A p \in Putters : pc[p] = "idle"
     /\ hdr # 0 /\ total # 0 => hdr = total
     /\ bound > 0 => NamedHeldBytes(0) <= bound /\ head = bound
     /\ bound = 0 => head > 0
     /\ total' = (IF bound = 0 THEN head ELSE bound)
     /\ stated' = (IF hdr # 0 THEN hdr ELSE stated)
     /\ asm' = "saved"
     /\ UNCHANGED <<row, next, head, spooled, fileVars, putVars, acked, faults>>

\* finalize marks the row and renames the part file, as long as it is.
AssemblePublish ==
  /\ asm = "saved"
  /\ dest' = part /\ row' = "done" /\ asm' = "idle"
  /\ UNCHANGED <<next, head, spooled, total, part, files, putVars, clientVars>>

AssembleFails ==
  /\ asm = "saved" /\ Fault /\ asm' = "idle"
  /\ UNCHANGED <<rowVars, fileVars, putVars, acked, stated>>

-----------------------------------------------------------------------------
Crash ==
  /\ Fault /\ row = "receiving"
  /\ lock' = None /\ pc' = [p \in Putters |-> "idle"]
  /\ name' = [p \in Putters |-> 0] /\ asm' = "idle"
  /\ UNCHANGED <<rowVars, fileVars, acked, stated>>

\* The session is over; its files are the sweep's.
Over == row = "done" /\ UNCHANGED vars

PutNamed(p) == \/ \E n \in Names : PutStart(p, n)
               \/ PutStaged(p) \/ PutBroken(p) \/ PutRetry(p) \/ PutAppend(p)
               \/ PutAdvance(p) \/ PutSpool(p) \/ PutSpooled(p) \/ PutRefuse(p)
               \/ DrainEnds(p) \/ DrainMerge(p) \/ DrainAdvance(p)
               \/ DrainStops(p) \/ PutFails(p)

Assemble == (\E hdr \in Headers : AssembleSave(hdr))
              \/ AssemblePublish \/ AssembleFails

Next == (\E p \in Putters : PutNamed(p)) \/ Assemble \/ Crash \/ Over

Spec == Init /\ [][Next]_vars

\* Handlers run, and a client whose chunk is not acknowledged as assembled sends
\* every name again and again.
Fairness ==
  /\ \A n \in Names : SF_vars(\E p \in Putters : PutStart(p, n))
  /\ \A p \in Putters : SF_vars(PutStaged(p))
  /\ \A p \in Putters :
       WF_vars(\/ PutRetry(p) \/ PutAppend(p) \/ PutAdvance(p) \/ PutSpool(p)
               \/ PutSpooled(p) \/ PutRefuse(p) \/ DrainEnds(p)
               \/ DrainMerge(p) \/ DrainAdvance(p) \/ DrainStops(p))
  /\ WF_vars(AssemblePublish)

FairSpec == Spec /\ Fairness

-----------------------------------------------------------------------------
(* What has to hold.                                                       *)

Committing == {"commit", "appended", "renamed", "drain", "merged"}

TypeOK ==
  /\ row \in {"receiving", "done"}
  /\ next \in 1 .. N + 1 /\ head \in 0 .. N /\ spooled \subseteq Names
  /\ total \in 0 .. N /\ part \in Seq(0 .. N) /\ Len(part) <= N
  /\ files \subseteq Names /\ dest \in Seq(0 .. N)
  /\ lock \in Putters \cup {None}
  /\ pc \in [Putters -> Committing \cup {"idle", "body"}]
  /\ name \in [Putters -> 0 .. N]
  /\ asm \in {"idle", "saved"}
  /\ acked \subseteq Names /\ stated \in 0 .. N /\ faults \in 0 .. MaxFaults

\* What the cursor covers is in the part file, every name once and in order,
\* wherever an earlier handler was interrupted.
AssembledInOrder ==
  /\ head = next - 1 /\ head <= Len(part)
  /\ \A i \in 1 .. head : part[i] = i

\* An acknowledged chunk is behind the cursor or in its spool file, or it is the
\* one at the cursor, whose copy lies at the write head already.
AckedKept ==
  \A n \in acked : \/ n < next \/ n \in files \cap spooled
                   \/ n = next /\ head < Len(part) /\ part[next] = n

\* A published file starts with the file's chunks in order, and holds them all
\* when the client has stated a length.
PublishedInOrder ==
  row = "done" => /\ \A i \in 1 .. Len(dest) : dest[i] = i
                  /\ stated # 0 => Len(dest) = stated

\* A client that sends every name again gets past every interruption, even
\* though the row may name spool files that are no longer there: the write head
\* reaches the last name, or the session's length if it has one.
CursorAdvances == <>(head = N \/ row = "done" \/ (total # 0 /\ head = total))

\* "Assemble finalizes the name-ordered path by merging whatever chunks remain
\* spooled in ascending name order": what was acknowledged is in the file.
PublishedHoldsAcked ==
  row = "done" => \A n \in acked : \E i \in 1 .. Len(dest) : dest[i] = n

\* "namedHeldBytes is the durable byte count that a name-ordered session would
\* assemble": a name that has been assembled is not held a second time.
HeldBytesAssemble ==
  lock = None => NamedHeldBytes(0) =
                   head + Cardinality({n \in spooled \cap files : n >= next})
===============================================================================
