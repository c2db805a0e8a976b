------------------------------ MODULE Logbook ------------------------------
(***************************************************************************)
(* The server's own log (internal/admin/logbook): compressed segments      *)
(* named for the nanosecond they began in, the retention budget applied at *)
(* every rotation, the pager that walks them newest first one file at a    *)
(* time while lines still land, and the graph that counts them per         *)
(* interval. A line has size one; a segment's name is its number.          *)
(***************************************************************************)
EXTENDS Integers, SequencesExt

CONSTANTS SegMax, TotalMax,      \* rotation size and retention budget, in lines
          LevelOf,               \* the level of each line, by its number
          LineKinds,             \* "line", and "big" for one past the scanner's buffer
          Limits, Filters,       \* page sizes, and levels or "any", a reader may ask for
          MaxBuckets, Ladder, Day, CountCeiling, Windows, Asked,   \* the graph
          LbWrites, LbFaults, LbMaxFaults, LbCrashes, BackSteps    \* bounds

VARIABLES lbNow,      \* the store's clock
          lbSegs,     \* segment name -> the lines that can be read from it
          lbActive,   \* the segment being appended to: [name, written, broken]
          lbGone,     \* lines retention dropped
          lbRead,     \* the one reader paging through the log
          lbGraph,    \* the graph just answered, until the next step
          lbLeft

lbVars == <<lbNow, lbSegs, lbActive, lbGone, lbRead, lbGraph, lbLeft>>

NoSegment == [name |-> 0, written |-> 0, broken |-> FALSE]
NoReader == [pc |-> "idle", names |-> <<>>, from |-> 0, line |-> 0, limit |-> 0, level |-> "any",
             page |-> <<>>, seen |-> <<>>, start |-> {}]
NoGraph == [placed |-> <<>>, matched |-> {}, start |-> 0, width |-> 1, asked |-> 0, truncated |-> FALSE]

LinesOf(s) == UNION {Range(s[n]) : n \in DOMAIN s}
sizeOf(s, n) == Len(s[n])
totalOf(s) == FoldFunction(LAMBDA lines, sum : Len(lines) + sum, 0, s)

\* listLocked: the names in the order the sort gives them, oldest first.
listLocked(s) == SetToSortSeq(DOMAIN s, <)

\* One segment fewer is given up than the budget asks for.
MutEnforceBudget(s, fails) ==
    LET names == listLocked(s)
        over(i) == totalOf(Restrict(s, {names[j] : j \in i..Len(names)})) > TotalMax + SegMax
        drop == {names[i] : i \in {k \in 1..Len(names) - 1 : over(k)}}
    IN IF fails THEN s ELSE Restrict(s, DOMAIN s \ drop)

\* enforceBudget: oldest names go until the rest fits; the last name is kept; the first failed remove ends it.
enforceBudget(s, fails) ==
    LET names == listLocked(s)
        over(i) == totalOf(Restrict(s, {names[j] : j \in i..Len(names)})) > TotalMax
        drop == {names[i] : i \in {k \in 1..Len(names) - 1 : over(k)}}
    IN IF fails THEN s ELSE Restrict(s, DOMAIN s \ drop)

\* segmentName: the instant, and the first attempt whose name is free.
segmentName(s) == CHOOSE n \in {lbNow * 100 + a : a \in 0..64} :
                      n \notin DOMAIN s /\ \A m \in {lbNow * 100 + a : a \in 0..64} : m < n => m \in DOMAIN s

\* rotate: a new file, then the budget.
rotate(removeFails) ==
    LET n == segmentName(lbSegs)
        opened == [m \in DOMAIN lbSegs \cup {n} |-> IF m = n THEN <<>> ELSE lbSegs[m]]
    IN [name |-> n, segs |-> enforceBudget(opened, removeFails)]

LbInit ==
    /\ lbNow = 4 /\ lbSegs = (400 :> <<>>)
    /\ lbActive = [NoSegment EXCEPT !.name = 400] /\ lbGone = {}
    /\ lbRead = NoReader /\ lbGraph = NoGraph
    /\ lbLeft = [writes |-> LbWrites, faults |-> LbMaxFaults, crashes |-> LbCrashes, back |-> BackSteps]

LbFaultHits(f) == f \in LbFaults /\ lbLeft.faults > 0

\* The graph's clock and a record's stamp are the store's own clock; time passes with every line.
Elapse == lbNow' = lbNow + 1

Spend(field, n) == lbLeft' = [lbLeft EXCEPT ![field] = @ - 1, !.faults = @ - n]

Appended(segs, name, rec) == [segs EXCEPT ![name] = Append(@, rec)]

\* closeActive lets go of the segment whether or not its stream could be finished; when it could not,
\* rotate gives up, the line is dropped, and the next one opens a segment.
closeActive == lbActive' = NoSegment

\* A record is stamped, and appended to the active segment, which is rotated first when it is full
\* or gone. A line that cannot be stored is dropped; one failed write leaves the stream broken.
write(kind) ==
    LET rec == [id |-> lbLeft.writes, ts |-> lbNow, level |-> LevelOf[lbLeft.writes], kind |-> kind]
        turn == lbActive = NoSegment \/ lbActive.written >= SegMax
    IN \/ \* no rotation, or rotation onto a fresh segment
          \E fault \in {"none"} \cup {f \in {"write", "remove"} : LbFaultHits(f)} :
              /\ fault = "remove" => turn
              /\ LET r == IF turn THEN rotate(fault = "remove") ELSE [name |-> lbActive.name, segs |-> lbSegs]
                     bad == fault = "write" \/ (~turn /\ lbActive.broken)
                     \* a segment removed under its own writer takes the line with it
                     kept == r.name \in DOMAIN r.segs
                     after == IF bad \/ ~kept THEN r.segs ELSE Appended(r.segs, r.name, rec)
                 IN /\ lbSegs' = after
                    /\ lbActive' = [name |-> r.name, broken |-> bad,
                                    written |-> (IF turn THEN 0 ELSE lbActive.written) + IF bad THEN 0 ELSE 1]
                    /\ lbGone' = lbGone \cup (LinesOf(lbSegs) \ LinesOf(after))
              /\ Spend("writes", IF fault = "none" THEN 0 ELSE 1)
       \/ /\ lbActive.written >= SegMax /\ LbFaultHits("close") /\ closeActive
          /\ Spend("writes", 1) /\ UNCHANGED <<lbSegs, lbGone>>

\* sinkHandler.Handle.
LbHandle ==
    /\ lbLeft.writes > 0 /\ Elapse
    /\ \E kind \in LineKinds : write(kind)
    /\ lbGraph' = NoGraph /\ UNCHANGED <<lbRead>>

\* Close ends the active segment; a later line opens another.
LbClose ==
    /\ lbActive /= NoSegment /\ lbLeft.crashes > 0 /\ closeActive
    /\ lbLeft' = [lbLeft EXCEPT !.crashes = @ - 1]
    /\ lbGraph' = NoGraph /\ UNCHANGED <<lbNow, lbSegs, lbGone, lbRead>>

\* The process dies and starts again: every flushed line is still there, and Open rotates eagerly.
\* A reader's cursor is the client's and survives; its half read page does not.
LbRestart ==
    /\ lbLeft.crashes > 0 /\ lbLeft' = [lbLeft EXCEPT !.crashes = @ - 1] /\ Elapse
    /\ LET r == rotate(FALSE)
       IN /\ lbSegs' = r.segs /\ lbActive' = [NoSegment EXCEPT !.name = r.name]
          /\ lbGone' = lbGone \cup (LinesOf(lbSegs) \ LinesOf(r.segs))
    /\ lbRead' = [lbRead EXCEPT !.pc = IF @ = "scan" THEN "page" ELSE @, !.page = <<>>]
    /\ lbGraph' = NoGraph

\* The system clock is set back.
LbStepBack ==
    /\ lbLeft.back > 0 /\ lbNow > 4 /\ lbLeft' = [lbLeft EXCEPT !.back = @ - 1]
    /\ \E t \in 4..lbNow - 1 : lbNow' = t
    /\ lbGraph' = NoGraph /\ UNCHANGED <<lbSegs, lbActive, lbGone, lbRead>>

---------------------------------------------------------------------------
matches(rec, level, since, until) ==
    (level = "any" \/ rec.level = level) /\ (since = 0 \/ rec.ts >= since) /\ (until = 0 \/ rec.ts <= until)

\* What the line scanner yields: the lines up to one that outgrows its buffer.
Scanned(lines) ==
    LET big == {i \in DOMAIN lines : lines[i].kind = "big"}
    IN IF big = {} THEN lines ELSE SubSeq(lines, 1, (CHOOSE i \in big : \A j \in big : i <= j) - 1)

\* The line the last page ended on is read again.
MutScan(lines, level, before, limit) ==
    LET at == SetToSortSeq({i \in DOMAIN Scanned(lines) :
                                (before < 0 \/ i <= before) /\ matches(lines[i], level, 0, 0)}, >)
    IN SubSeq(at, 1, IF Len(at) < limit THEN Len(at) ELSE limit)

\* scan: the newest matching lines before a bound, newest first; line numbers count from one.
scan(lines, level, before, limit) ==
    LET at == SetToSortSeq({i \in DOMAIN Scanned(lines) :
                                (before < 0 \/ i < before) /\ matches(lines[i], level, 0, 0)}, >)
    IN SubSeq(at, 1, IF Len(at) < limit THEN Len(at) ELSE limit)

\* Query begins: the active stream is flushed (a broken one refuses), the names are listed under the lock,
\* and those newer than the cursor's are passed over.
Query ==
    /\ lbRead.pc \in {"idle", "page"} /\ ~lbActive.broken
    /\ LET from(r) == [r EXCEPT !.pc = "scan", !.page = <<>>,
                          !.names = SelectSeq(Reverse(listLocked(lbSegs)), LAMBDA n : r.from = 0 \/ n <= r.from)]
       IN IF lbRead.pc = "page" THEN lbRead' = from(lbRead)
          ELSE \E limit \in Limits, level \in Filters :
                   lbRead' = from([NoReader EXCEPT !.limit = limit, !.level = level,
                                      !.start = {rec \in LinesOf(lbSegs) : matches(rec, level, 0, 0)}])
    /\ lbGraph' = NoGraph /\ UNCHANGED <<lbNow, lbSegs, lbActive, lbGone, lbLeft>>

\* One file is read, outside the lock; a segment retired meanwhile reads as absent.
QueryScan ==
    /\ lbRead.pc = "scan" /\ lbRead.names /= <<>> /\ Len(lbRead.page) < lbRead.limit
    /\ LET n == Head(lbRead.names)
           lines == IF n \in DOMAIN lbSegs THEN lbSegs[n] ELSE <<>>
           at == scan(lines, lbRead.level, IF n = lbRead.from THEN lbRead.line ELSE -1,
                      lbRead.limit - Len(lbRead.page))
       IN lbRead' = [lbRead EXCEPT !.names = Tail(@),
                         !.page = @ \o [i \in DOMAIN at |-> [seg |-> n, line |-> at[i], rec |-> lines[at[i]]]]]
    /\ lbGraph' = NoGraph /\ UNCHANGED <<lbNow, lbSegs, lbActive, lbGone, lbLeft>>

\* The page is answered with the cursor of its last line, or with none when it is short.
QueryAnswer ==
    /\ lbRead.pc = "scan" /\ (lbRead.names = <<>> \/ Len(lbRead.page) = lbRead.limit)
    /\ LET more == Len(lbRead.page) = lbRead.limit
       IN lbRead' = [lbRead EXCEPT !.pc = IF more THEN "page" ELSE "done",
                         !.from = IF more THEN Last(lbRead.page).seg ELSE @,
                         !.line = IF more THEN Last(lbRead.page).line ELSE @,
                         !.seen = @ \o lbRead.page, !.page = <<>>, !.names = <<>>]
    /\ lbGraph' = NoGraph /\ UNCHANGED <<lbNow, lbSegs, lbActive, lbGone, lbLeft>>

---------------------------------------------------------------------------
\* The window is cut into as many intervals as the chart may carry.
MutBucketWidth(since, until, asked) ==
    LET span == until - since
        target == span \div MaxBuckets
        fits == {i \in DOMAIN Ladder : Ladder[i] >= target}
    IN IF asked > 0 /\ span \div asked <= MaxBuckets THEN asked
       ELSE IF fits = {} THEN Ladder[Len(Ladder)] ELSE Ladder[CHOOSE i \in fits : \A j \in fits : i <= j]

\* bucketWidth: the asked width when it fits, or the first of the ladder that needs about half the ceiling.
bucketWidth(since, until, asked) ==
    LET span == until - since
        target == span \div (MaxBuckets \div 2)
        fits == {i \in DOMAIN Ladder : Ladder[i] >= target}
    IN IF asked > 0 /\ span \div asked <= MaxBuckets THEN asked
       ELSE IF fits = {} THEN Ladder[Len(Ladder)] ELSE Ladder[CHOOSE i \in fits : \A j \in fits : i <= j]

\* countSegment: matching lines in order up to the ceiling that is left.
countSegment(lines, since, until, remaining) ==
    LET hits == SelectSeq(Scanned(lines), LAMBDA rec : matches(rec, "any", since, until))
        n == IF Len(hits) > remaining THEN remaining ELSE Len(hits)
    IN [counted |-> SubSeq(hits, 1, n),
        hit |-> n = remaining /\ Scanned(lines) /= <<>>
                /\ (Len(hits) > n \/ n = 0 \/ hits[n] /= Last(Scanned(lines)))]

\* Counts: the frame is laid out from the window, then segments are counted newest first.
Counts ==
    /\ lbGraph = NoGraph /\ lbRead.pc = "idle" /\ ~lbActive.broken
    /\ \E w \in Windows, asked \in Asked :
           LET until == IF w.until <= 0 THEN lbNow ELSE w.until
               since == IF w.since <= 0 \/ w.since >= until THEN until - Day ELSE w.since
               width == bucketWidth(since, until, asked)
               start == (since \div width) * width
               all == ((until - start) \div width) + 1
               count == IF all > MaxBuckets THEN MaxBuckets ELSE all
               step(acc, n) == IF acc.truncated THEN acc
                               ELSE IF Len(acc.recs) >= CountCeiling THEN [acc EXCEPT !.truncated = TRUE]
                               ELSE LET c == countSegment(lbSegs[n], since, until, CountCeiling - Len(acc.recs))
                                    IN [recs |-> acc.recs \o c.counted, truncated |-> c.hit]
               walk == FoldLeft(step, [recs |-> <<>>, truncated |-> FALSE], Reverse(listLocked(lbSegs)))
               bar(rec) == (rec.ts - start) \div width
           IN lbGraph' = [placed |-> SelectSeq([i \in DOMAIN walk.recs |-> [rec |-> walk.recs[i], bar |-> bar(walk.recs[i])]],
                                               LAMBDA p : p.bar \in 0..count - 1),
                          matched |-> {rec \in LinesOf(lbSegs) : matches(rec, "any", since, until)},
                          start |-> start, width |-> width, asked |-> asked, truncated |-> walk.truncated]
    /\ UNCHANGED <<lbNow, lbSegs, lbActive, lbGone, lbRead, lbLeft>>

LbNext ==
    \/ LbHandle \/ LbClose \/ LbRestart \/ LbStepBack
    \/ Query \/ QueryScan \/ QueryAnswer \/ Counts

LbSpec == LbInit /\ [][LbNext]_lbVars

LbTypeOK ==
    /\ DOMAIN lbSegs \subseteq Nat /\ lbActive.written \in 0..SegMax
    /\ lbRead.pc \in {"idle", "scan", "page", "done"} /\ Len(lbRead.page) <= lbRead.limit

\* A reader that pages to the end has seen every matching line that was stored when it began and is still
\* stored, each once, and newest first, whatever was written, rotated or retired between two files and
\* between two pages (Query, scan, the cursor).
PagesHonest ==
    lbRead.pc = "done" =>
        LET seen == lbRead.seen
        IN /\ \A i, j \in DOMAIN seen : i < j =>
                  seen[i].seg > seen[j].seg \/ (seen[i].seg = seen[j].seg /\ seen[i].line > seen[j].line)
           /\ lbRead.start \ lbGone \subseteq {seen[i].rec : i \in DOMAIN seen}

\* Retention never takes the segment being written, never keeps an older line than one it dropped, and
\* leaves at most the budget and one segment more (rotate, enforceBudget), unless a file could not be removed.
RetentionExact ==
    /\ lbActive /= NoSegment => lbActive.name \in DOMAIN lbSegs
    /\ \A gone \in lbGone, rec \in LinesOf(lbSegs) : gone.id > rec.id
    /\ "remove" \notin LbFaults => totalOf(lbSegs) <= TotalMax + SegMax

\* A graph whose width the store picked, and whose walk was not cut short, has every line of its window in
\* the one bar that covers the line's instant (bucketWidth, Counts, countSegment).
GraphCovers ==
    lbGraph.asked = 0 /\ ~lbGraph.truncated =>
        /\ lbGraph.matched = {lbGraph.placed[i].rec : i \in DOMAIN lbGraph.placed}
        /\ Len(lbGraph.placed) = Cardinality(lbGraph.matched)

\* The same of a width the caller asked for, as logs.go says of every graph: "covers the window with no holes".
AskedGraphCovers ==
    ~lbGraph.truncated => lbGraph.matched = {lbGraph.placed[i].rec : i \in DOMAIN lbGraph.placed}

=============================================================================
