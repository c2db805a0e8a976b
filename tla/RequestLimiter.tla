--------------------------- MODULE RequestLimiter ---------------------------
(***************************************************************************)
(* The request limiter (internal/server/middleware/limiter.go): a bounded  *)
(* map of token buckets. Allow reads the clock before it takes the lock,   *)
(* so calls enter the lock with times out of order; the operator's rate    *)
(* and burst change between them. Tokens and time are whole units.         *)
(***************************************************************************)
EXTENDS Integers, FiniteSets, Functions

CONSTANTS LmClients,    \* resolved clients, the key of a bucket
          LmCallers,    \* requests that may be inside Allow at once
          LimiterCap,   \* buckets held at once
          LimitChoices, \* limits an operator may set: [rate, burst], as the settings hold them
          LmCalls, LmChanges, LmMaxClock   \* bounds: calls, settings changes, clock

VARIABLES lmNow, lmLimits,
          lmBuckets,    \* key -> [tokens, last]; born and spent are kept to state the bound
          lmCall,       \* what each caller read before the lock
          lmLeft

lmVars == <<lmNow, lmLimits, lmBuckets, lmCall, lmLeft>>

LmIdle == [pc |-> "idle", key |-> "none", now |-> 0]
AtLeastOne(n) == IF n < 1 THEN 1 ELSE n

\* SetLimits clamps to one, and leaves the buckets alone.
SetLimits(l) == [rate |-> AtLeastOne(l.rate), burst |-> AtLeastOne(l.burst)]

LmInit ==
    /\ lmNow = 0 /\ lmLimits \in {SetLimits(l) : l \in LimitChoices}
    /\ lmBuckets = <<>> /\ lmCall = [c \in LmCallers |-> LmIdle]
    /\ lmLeft = [calls |-> LmCalls, changes |-> LmChanges]

\* A full map takes the new key without giving one up.
MutEvictOne(full) == {{}}

\* evictOne: any one bucket.
evictOne(full) == IF full THEN {{k} : k \in DOMAIN lmBuckets} ELSE {{}}

\* The time of the last call is kept even when it is the older one.
MutRefill(b, now) ==
    LET gained == b.tokens + (IF now > b.last THEN (now - b.last) * lmLimits.rate ELSE 0)
    IN [b EXCEPT !.tokens = IF now > b.last /\ gained > lmLimits.burst THEN lmLimits.burst ELSE gained,
                 !.last = now]

\* Refilled up to the burst for the time since the bucket's last refill; an older reading adds nothing and moves nothing.
Refill(b, now) ==
    LET gained == b.tokens + (now - b.last) * lmLimits.rate
    IN IF now <= b.last THEN b
       ELSE [b EXCEPT !.tokens = IF gained > lmLimits.burst THEN lmLimits.burst ELSE gained, !.last = now]

MutCharge(b) == [b EXCEPT !.tokens = @ - 1, !.spent = @ + 1]

\* An empty bucket refuses and is left as it is.
Charge(b) == IF b.tokens < 1 THEN b ELSE [b EXCEPT !.tokens = @ - 1, !.spent = @ + 1]

\* The clock is read outside the lock.
ReadClock(c) ==
    /\ lmCall[c].pc = "idle" /\ lmLeft.calls > 0
    /\ \E k \in LmClients : lmCall' = [lmCall EXCEPT ![c] = [pc |-> "lock", key |-> k, now |-> lmNow]]
    /\ lmLeft' = [lmLeft EXCEPT !.calls = @ - 1]
    /\ UNCHANGED <<lmNow, lmLimits, lmBuckets>>

\* Under the lock: the bucket is found or made, refilled and charged.
Allow(c) ==
    /\ lmCall[c].pc = "lock"
    /\ LET k == lmCall[c].key
           now == lmCall[c].now
           isNew == k \notin DOMAIN lmBuckets
           fresh == [tokens |-> lmLimits.burst, last |-> now, born |-> now, spent |-> 0]
       IN \E gone \in evictOne(isNew /\ Cardinality(DOMAIN lmBuckets) >= LimiterCap) :
              LET b == Refill(IF isNew THEN fresh ELSE lmBuckets[k], now)
                  kept == Restrict(lmBuckets, DOMAIN lmBuckets \ gone)
              IN lmBuckets' = [x \in DOMAIN kept \cup {k} |-> IF x = k THEN Charge(b) ELSE kept[x]]
    /\ lmCall' = [lmCall EXCEPT ![c] = LmIdle]
    /\ UNCHANGED <<lmNow, lmLimits, lmLeft>>

ApplyLimits ==
    /\ lmLeft.changes > 0 /\ lmLeft' = [lmLeft EXCEPT !.changes = @ - 1]
    /\ \E l \in LimitChoices : lmLimits' = SetLimits(l)
    /\ UNCHANGED <<lmNow, lmBuckets, lmCall>>

LmTick ==
    /\ lmNow < LmMaxClock /\ lmNow' = lmNow + 1
    /\ UNCHANGED <<lmLimits, lmBuckets, lmCall, lmLeft>>

LmNext ==
    \/ \E c \in LmCallers : ReadClock(c) \/ Allow(c)
    \/ ApplyLimits \/ LmTick

LmSpec == LmInit /\ [][LmNext]_lmVars

LmTypeOK ==
    /\ lmNow \in 0..LmMaxClock /\ DOMAIN lmBuckets \subseteq LmClients
    /\ \A k \in DOMAIN lmBuckets : lmBuckets[k].tokens \in Nat /\ lmBuckets[k].last <= lmNow

\* The highest limits an operator may set.
TopRate == CHOOSE n \in {SetLimits(l).rate : l \in LimitChoices} :
               \A l \in LimitChoices : SetLimits(l).rate <= n
TopBurst == CHOOSE n \in {SetLimits(l).burst : l \in LimitChoices} :
                \A l \in LimitChoices : SetLimits(l).burst <= n

\* A bucket never lets through more than a full burst and what the highest rate adds in the time since
\* it was made, in whatever order calls that read the clock earlier enter the lock and however often the
\* limits are changed meanwhile (Allow, SetLimits).
LimiterBound ==
    \A k \in DOMAIN lmBuckets :
        lmBuckets[k].spent <= TopBurst + TopRate * (lmNow - lmBuckets[k].born)

\* The map never outgrows its cap (evictOne).
LimiterBounded == Cardinality(DOMAIN lmBuckets) <= LimiterCap

=============================================================================
