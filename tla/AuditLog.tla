------------------------------- MODULE AuditLog -------------------------------
(***************************************************************************)
(* The audit log: rows appended by many requests at once, the retention    *)
(* that trims it every so many appends, the pages an administrator reads,  *)
(* and the counts the graph above them draws.                              *)
(*                                                                         *)
(* A row is stamped before its write transaction, so rows need not land in *)
(* the order of their stamps.  Outcomes and the text of a row are left     *)
(* out; account deletion clears a row's actor.                             *)
(***************************************************************************)
EXTENDS Integers, FiniteSets, Sequences

CONSTANTS AuWriters,    \* requests that record an action
          AuActors, AuEvents,
          AuEvery,      \* appends between two prunes (1000)
          AuMaxRows,    \* rows a prune keeps
          AuLimit,      \* rows of a page
          AuSpan,       \* rows the counting walk reads at a time
          AuCeiling,    \* rows the counting walk reads at most
          AuFilters,    \* what a reader may ask for
          AuFrames,     \* windows the graph is asked for
          AuWrites, AuMaxClock, AuRestarts  \* bounds

\* A cleared or absent actor, and a field that does not filter.
NoActor == "none"

VARIABLES auRows,    \* the table: a set of rows with their rowids
          auNext,    \* the rowid the next insert gets
          auOps,     \* appends this process counted
          auClock,
          auWriter,  \* each request: idle, stamped with its entry, or pruning
          auPage,    \* an administrator reading page after page
          auGraph,   \* a count under way
          auWritten, auRestarts
auVars == <<auRows, auNext, auOps, auClock, auWriter, auPage, auGraph,
            auWritten, auRestarts>>

AuIdle == [at |-> "idle", ts |-> 0, actor |-> NoActor, event |-> ""]
NoFilter == [actor |-> NoActor, event |-> "", since |-> 0, until |-> 0]
NoPage == [at |-> "idle", f |-> NoFilter, before |-> 0, begun |-> {}, seen |-> <<>>]
NoGraph == [at |-> "idle", f |-> NoFilter, frame |-> [start |-> 0, width |-> 1, count |-> 0],
            before |-> 0, begun |-> {}, read |-> 0, buckets |-> <<>>]

Newest(rows, n) == {r \in rows : Cardinality({q \in rows : q.id > r.id}) < n}

(***************************************************************************)
(* Writing                                                                 *)
(***************************************************************************)
\* The entry is stamped with the clock as the request reads it.
Audit(w) ==
  /\ auWriter[w].at = "idle" /\ auWritten < AuWrites
  /\ \E a \in AuActors \cup {NoActor}, e \in AuEvents :
       auWriter' = [auWriter EXCEPT ![w] =
                      [at |-> "stamped", ts |-> auClock, actor |-> a, event |-> e]]
  /\ auWritten' = auWritten + 1
  /\ UNCHANGED <<auRows, auNext, auOps, auClock, auPage, auGraph, auRestarts>>

\* The insert; every AuEvery-th append of the process prunes.
AppendAudit(w) ==
  /\ auWriter[w].at = "stamped"
  /\ auRows' = auRows \cup {[id |-> auNext, ts |-> auWriter[w].ts,
                             actor |-> auWriter[w].actor, event |-> auWriter[w].event]}
  /\ auNext' = auNext + 1
  /\ auOps' = (auOps + 1) % AuEvery
  /\ auWriter' = [auWriter EXCEPT ![w] =
                    IF (auOps + 1) % AuEvery = 0 THEN [AuIdle EXCEPT !.at = "pruning"] ELSE AuIdle]
  /\ UNCHANGED <<auClock, auPage, auGraph, auWritten, auRestarts>>

\* A refused append, the size guard's or the database's: the log has a hole
\* and nothing is counted.
Record(w) ==
  /\ auWriter[w].at = "stamped"
  /\ auWriter' = [auWriter EXCEPT ![w] = AuIdle]
  /\ UNCHANGED <<auRows, auNext, auOps, auClock, auPage, auGraph, auWritten, auRestarts>>

\* The rows a prune keeps.
MutKept == {r \in auRows : Cardinality({q \in auRows : q.id < r.id}) < AuMaxRows}
Kept == Newest(auRows, AuMaxRows)

PruneAudit(w) ==
  /\ auWriter[w].at = "pruning"
  /\ auRows' = Kept
  /\ auWriter' = [auWriter EXCEPT ![w] = AuIdle]
  /\ UNCHANGED <<auNext, auOps, auClock, auPage, auGraph, auWritten, auRestarts>>

\* The cascade clears the actor and leaves the row.
DeleteAccount(a) ==
  /\ \E r \in auRows : r.actor = a
  /\ auRows' = {[r EXCEPT !.actor = IF @ = a THEN NoActor ELSE @] : r \in auRows}
  /\ UNCHANGED <<auNext, auOps, auClock, auWriter, auPage, auGraph, auWritten, auRestarts>>

\* The count of appends lives in the process.
AuRestart ==
  /\ auRestarts < AuRestarts /\ auRestarts' = auRestarts + 1
  /\ auOps' = 0
  /\ auWriter' = [w \in AuWriters |-> AuIdle]
  /\ auPage' = NoPage /\ auGraph' = NoGraph
  /\ UNCHANGED <<auRows, auNext, auClock, auWritten>>

AuTick ==
  /\ auClock < AuMaxClock /\ auClock' = auClock + 1
  /\ UNCHANGED <<auRows, auNext, auOps, auWriter, auPage, auGraph, auWritten, auRestarts>>

(***************************************************************************)
(* Reading pages                                                           *)
(***************************************************************************)
auditMatches(r, f) ==
  /\ f.actor # NoActor => r.actor = f.actor
  /\ f.event # "" => r.event = f.event
  /\ f.since # 0 => r.ts >= f.since
  /\ f.until # 0 => r.ts <= f.until

\* Rows strictly before the cursor; zero starts at the newest.
MutBefore(c) == {r \in auRows : c > 0 => r.id <= c}
Before(c) == {r \in auRows : c > 0 => r.id < c}

\* The statement filters by event or by actor, and by neither when both are
\* asked for.
AuditPageFiltered(c, f) ==
  LET rows == Before(c) IN
  Newest(IF f.event # "" /\ f.actor = NoActor THEN {r \in rows : r.event = f.event}
         ELSE IF f.actor # NoActor /\ f.event = "" THEN {r \in rows : r.actor = f.actor}
         ELSE rows,
         AuLimit)

Oldest(rows) == CHOOSE r \in rows : \A q \in rows : q.id >= r.id

\* The ids of a set of rows, newest first.
Ids(rows) ==
  [i \in 1..Cardinality(rows) |->
     (CHOOSE r \in rows : Cardinality({q \in rows : q.id >= r.id}) = i).id]

\* A reader changes nothing, so one per behaviour is explored.
Unread == auPage.at = "idle" /\ auGraph.at = "idle"

OpenLog(f) ==
  /\ Unread
  /\ auPage' = [at |-> "walk", f |-> f, before |-> 0, seen |-> <<>>,
                begun |-> {r.id : r \in auRows}]
  /\ UNCHANGED <<auRows, auNext, auOps, auClock, auWriter, auGraph, auWritten, auRestarts>>

\* One page: what matches of the rows read, and the last row read as the
\* cursor when the page was full.
AuditPage ==
  /\ auPage.at = "walk"
  /\ LET records == AuditPageFiltered(auPage.before, auPage.f)
         shown   == {r \in records : auditMatches(r, auPage.f)}
     IN auPage' = [auPage EXCEPT
          !.seen = @ \o Ids(shown),
          !.at = IF Cardinality(records) = AuLimit THEN "walk" ELSE "done",
          !.before = IF records = {} THEN @ ELSE Oldest(records).id]
  /\ UNCHANGED <<auRows, auNext, auOps, auClock, auWriter, auGraph, auWritten, auRestarts>>

(***************************************************************************)
(* Counting                                                                *)
(***************************************************************************)
\* The bar a stamp falls in.
Bar(frame, ts) == (ts - frame.start) \div frame.width

Tally(frame, rows) ==
  [i \in 1..frame.count |->
     Cardinality({r \in rows : r.ts >= frame.start /\ Bar(frame, r.ts) = i - 1})]

Plus(a, b) == [i \in DOMAIN a |-> a[i] + b[i]]

\* Without a filter on actor or window the store aggregates; when that fails,
\* and for every other filter, the rows are walked newest first.
AuditCounts(f, frame) ==
  /\ Unread
  /\ auGraph' = [at |-> "walk", f |-> f, frame |-> frame, before |-> 0, read |-> 0,
                 begun |-> {r.id : r \in auRows}, buckets |-> Tally(frame, {})]
  /\ UNCHANGED <<auRows, auNext, auOps, auClock, auWriter, auPage, auWritten, auRestarts>>

AuditCountsAgg(f, frame) ==
  /\ Unread
  /\ f.actor = NoActor /\ f.since = 0 /\ f.until = 0
  /\ auGraph' = [at |-> "done", f |-> f, frame |-> frame, before |-> 0, read |-> 0,
                 begun |-> {r.id : r \in auRows},
                 buckets |-> Tally(frame, {r \in auRows : auditMatches(r, f)})]
  /\ UNCHANGED <<auRows, auNext, auOps, auClock, auWriter, auPage, auWritten, auRestarts>>

\* The walk ends at the first row older than the window, or at the ceiling.
MutPast(r, g) == r.ts <= g.frame.start
Past(r, g) == r.ts < g.frame.start

CountPage ==
  /\ auGraph.at = "walk"
  /\ LET records == Newest(Before(auGraph.before), AuSpan)
         upto    == {r \in records : ~\E q \in records : q.id >= r.id /\ Past(q, auGraph)}
         counted == {r \in upto : auditMatches(r, auGraph.f)}
         read    == auGraph.read + Cardinality(records)
     IN auGraph' = [auGraph EXCEPT
          !.buckets = Plus(@, Tally(auGraph.frame, counted)),
          !.read = read,
          !.before = IF records = {} THEN @ ELSE Oldest(records).id,
          !.at = IF records = {} \/ upto # records THEN "done"
                 ELSE IF read >= AuCeiling THEN "truncated" ELSE "walk"]
  /\ UNCHANGED <<auRows, auNext, auOps, auClock, auWriter, auPage, auWritten, auRestarts>>

-------------------------------------------------------------------------------
AuInit ==
  /\ auRows = {} /\ auNext = 1 /\ auOps = 0 /\ auClock = 1
  /\ auWriter = [w \in AuWriters |-> AuIdle]
  /\ auPage = NoPage /\ auGraph = NoGraph
  /\ auWritten = 0 /\ auRestarts = 0

AuNext ==
  \/ \E w \in AuWriters : Audit(w) \/ AppendAudit(w) \/ Record(w) \/ PruneAudit(w)
  \/ \E a \in AuActors : DeleteAccount(a)
  \/ AuRestart \/ AuTick
  \/ \E f \in AuFilters : OpenLog(f)
  \/ AuditPage
  \/ \E f \in AuFilters, frame \in AuFrames : AuditCounts(f, frame) \/ AuditCountsAgg(f, frame)
  \/ CountPage

-------------------------------------------------------------------------------
AuTypeOK ==
  /\ \A r \in auRows : /\ r.id \in 1..(auNext - 1) /\ r.ts \in 1..AuMaxClock
                       /\ r.actor \in AuActors \cup {NoActor} /\ r.event \in AuEvents
  /\ auNext \in 1..(AuWrites + 1) /\ auOps \in 0..(AuEvery - 1)
  /\ auClock \in 1..AuMaxClock
  /\ \A w \in AuWriters : auWriter[w].at \in {"idle", "stamped", "pruning"}
  /\ auPage.at \in {"idle", "walk", "done"}
  /\ auGraph.at \in {"idle", "walk", "done", "truncated"}
  /\ auWritten \in 0..AuWrites /\ auRestarts \in 0..AuRestarts

\* The log only ever loses its oldest rows, and no more than one round of
\* appends per process life, and one per request still to prune, stands above
\* the retention limit.
RetentionKeepsNewest ==
  /\ {r.id : r \in auRows} = (auNext - Cardinality(auRows))..(auNext - 1)
  /\ Cardinality(auRows) <= AuMaxRows + AuEvery * (1 + auRestarts)
                              + Cardinality(AuWriters)

\* Reading page after page shows every matching row that was there at the
\* start and is there at the end, each once, newest first, while rows land and
\* are pruned in between.
PagesComplete ==
  /\ \A i, j \in DOMAIN auPage.seen : i < j => auPage.seen[i] > auPage.seen[j]
  /\ auPage.at = "done" =>
       \A r \in auRows : r.id \in auPage.begun /\ auditMatches(r, auPage.f)
         => \E i \in DOMAIN auPage.seen : auPage.seen[i] = r.id

\* Stamps in the order of rowids.
Ordered == \A r, q \in auRows : r.id < q.id => r.ts <= q.ts

Covered == {r \in auRows : r.id \in auGraph.begun /\ auditMatches(r, auGraph.f)}

\* A finished graph counts every matching row of its window that was there from
\* the start, and nothing twice, as long as rows landed in the order of their
\* stamps.
GraphCountsWindow ==
  auGraph.at = "done" /\ Ordered =>
    \A i \in 1..auGraph.frame.count :
      /\ auGraph.buckets[i] >= Tally(auGraph.frame, Covered)[i]
      /\ auGraph.buckets[i] <= auNext - 1

\* The same whatever order the stamps landed in: "the walk is ordered, so
\* nothing older can land in a bucket either".
WalkIsOrdered ==
  auGraph.at = "done" =>
    \A i \in 1..auGraph.frame.count :
      auGraph.buckets[i] >= Tally(auGraph.frame, Covered)[i]
===============================================================================
