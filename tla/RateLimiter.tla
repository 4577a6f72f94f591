----------------------------- MODULE RateLimiter -----------------------------
(***************************************************************************)
(* The in-memory rate limiter: an interceptor that applies the limits bound *)
(* to a method one after the other, a keyed limiter that keeps a token      *)
(* bucket per key and creates it on first use, and the sweep that removes   *)
(* buckets that have been idle.  Policies and keys are folded into Buckets, *)
(* a bucket being one key of one policy.  A token is worth Refill ticks, so *)
(* a bucket's level rises by one per tick up to Burst tokens.               *)
(***************************************************************************)
EXTENDS Integers, Sequences

CONSTANTS
  Buckets,  \* keys, each under its policy
  Bindings, \* what limits a request meets: sequences of buckets
  Requests, \* slots for requests in flight
  Burst, Refill, \* tokens a bucket holds; ticks to earn one (1 / RPS)
  Minute,   \* the floor of the idle time, in ticks
  MaxTime   \* bound on the clock

ASSUME RateAssumption ==
  /\ Burst \in Nat /\ Refill \in Nat \ {0} /\ Minute \in Nat
  /\ MaxTime \in Nat
  /\ Bindings \subseteq Seq(Buckets)

VARIABLES
  now,      \* the clock
  live,     \* the keys of entries
  level,    \* of each entry: its bucket
  lastSeen, \* of each entry: time of the last Allow
  sweep,    \* clock reading of the sweep under way, NoSweep if none
  limits,   \* limits a request in the interceptor has still to pass
  at,       \* where a request is
  spent     \* history: ticks' worth of tokens given out

limiterVars == <<now, live, level, lastSeen, sweep, limits, at, spent>>

NoSweep  == -1
Capacity == Burst * Refill

(* Mutant: the policy is built without its idle time.                       *)
IdleUnset == 0

(* Twice the time to refill an empty bucket, at least a minute.             *)
IdleEvict == IF 2 * Capacity < Minute THEN Minute ELSE 2 * Capacity

LimiterTypeOK ==
  /\ now \in 0 .. MaxTime
  /\ live \subseteq Buckets
  /\ level \in [Buckets -> 0 .. Capacity]
  /\ lastSeen \in [Buckets -> 0 .. MaxTime]
  /\ sweep \in {NoSweep} \cup 0 .. MaxTime
  /\ limits \in [Requests -> Seq(Buckets)]
  /\ at \in [Requests -> {"idle", "limiter", "handler"}]
  /\ spent \in [Buckets -> Nat]

LimiterInit ==
  /\ now = 0
  /\ live = {}
  /\ level = [b \in Buckets |-> 0]
  /\ lastSeen = [b \in Buckets |-> 0]
  /\ sweep = NoSweep
  /\ limits = [r \in Requests |-> <<>>]
  /\ at = [r \in Requests |-> "idle"]
  /\ spent = [b \in Buckets |-> 0]

(* Mutant: the bucket has no upper limit.                                   *)
TickUncapped ==
  /\ now < MaxTime /\ now' = now + 1
  /\ level' = [b \in Buckets |-> level[b] + 1]
  /\ UNCHANGED <<live, lastSeen, sweep, limits, at, spent>>

(* rate.Limiter accrues tokens with time, up to the burst.                  *)
Tick ==
  /\ now < MaxTime /\ now' = now + 1
  /\ level' = [b \in Buckets |-> IF level[b] < Capacity THEN level[b] + 1
                                 ELSE level[b]]
  /\ UNCHANGED <<live, lastSeen, sweep, limits, at, spent>>

-----------------------------------------------------------------------------
(* KeyedLimiter.Allow, in one piece under the mutex: a key without an entry *)
(* gets a full bucket.                                                      *)

Full(b) == IF b \in live THEN level[b] ELSE Capacity

Touch(b, lvl) ==
  /\ live' = live \cup {b}
  /\ level' = [level EXCEPT ![b] = lvl]
  /\ lastSeen' = [lastSeen EXCEPT ![b] = now]

(* Mutant: the bucket is asked for a token before it holds one.             *)
AllowsEarly(b) == /\ Full(b) > 0
                  /\ Touch(b, IF Full(b) < Refill THEN 0 ELSE Full(b) - Refill)
                  /\ spent' = [spent EXCEPT ![b] = spent[b] + Refill]

Allows(b) == /\ Full(b) >= Refill
             /\ Touch(b, Full(b) - Refill)
             /\ spent' = [spent EXCEPT ![b] = spent[b] + Refill]

(* Reserve and Cancel leave the bucket as it was.                           *)
Denies(b) == Full(b) < Refill /\ Touch(b, Full(b)) /\ UNCHANGED spent

(* A request reaches the interceptor: those of its method's limits whose    *)
(* extractor finds a key.                                                   *)
Bind(r) ==
  /\ at[r] = "idle"
  /\ \E ls \in Bindings : limits' = [limits EXCEPT ![r] = ls]
  /\ at' = [at EXCEPT ![r] = "limiter"]
  /\ UNCHANGED <<now, live, level, lastSeen, sweep, spent>>

(* Unary evaluates the next limit; the first denial aborts the request, the *)
(* limits before it have counted it.                                        *)
Unary(r) ==
  /\ at[r] = "limiter"
  /\ UNCHANGED <<now, sweep>>
  /\ \/ /\ limits[r] = <<>>
        /\ at' = [at EXCEPT ![r] = "handler"]
        /\ UNCHANGED <<live, level, lastSeen, spent, limits>>
     \/ /\ limits[r] # <<>>
        /\ LET b == Head(limits[r])
           IN  \/ /\ Allows(b)
                  /\ limits' = [limits EXCEPT ![r] = Tail(limits[r])]
                  /\ UNCHANGED at
               \/ /\ Denies(b)
                  /\ limits' = [limits EXCEPT ![r] = <<>>]
                  /\ at' = [at EXCEPT ![r] = "idle"]

HandlerReturns(r) ==
  /\ at[r] = "handler"
  /\ at' = [at EXCEPT ![r] = "idle"]
  /\ UNCHANGED <<now, live, level, lastSeen, sweep, spent, limits>>

(* The ticker fires; the sweep reads the clock before it takes the mutex.   *)
SweepBegins ==
  /\ sweep = NoSweep
  /\ sweep' = now
  /\ UNCHANGED <<now, live, level, lastSeen, limits, at, spent>>

evictIdle ==
  /\ sweep # NoSweep
  /\ live' = {b \in live : ~ (lastSeen[b] < sweep - IdleEvict)}
  /\ sweep' = NoSweep
  /\ UNCHANGED <<now, level, lastSeen, limits, at, spent>>

LimiterNext == \/ Tick \/ SweepBegins \/ evictIdle
               \/ \E r \in Requests : Bind(r) \/ Unary(r) \/ HandlerReturns(r)

LimiterSpec == LimiterInit /\ [][LimiterNext]_limiterVars

-----------------------------------------------------------------------------
(* Properties.                                                              *)

(* Over any run a key is given at most its burst plus what time earned it,  *)
(* also across evictions of its bucket.                                     *)
SpendIsBounded == \A b \in Buckets : spent[b] <= Capacity + now

(* Creating buckets on demand and sweeping idle ones cannot be told from    *)
(* buckets that are always there.                                           *)
Promise == INSTANCE TokenBuckets
             WITH Cost <- Refill, fill <- [b \in Buckets |-> Full(b)]
EvictionIsInvisible == Promise!Spec

(* The inductive invariant: a live bucket has refilled since it was used;   *)
(* what was spent and what is left never exceed what was earned; the sweep  *)
(* works with a clock reading that is not ahead.                            *)
Refilled == \A b \in live : \/ level[b] = Capacity
                            \/ level[b] >= now - lastSeen[b]
SpentPlusLeft == \A b \in Buckets : spent[b] + Full(b) <= Capacity + now
ClockOrder == sweep <= now /\ \A b \in Buckets : lastSeen[b] <= now
LimiterInv == LimiterTypeOK /\ Refilled /\ SpentPlusLeft /\ ClockOrder
=============================================================================
