-------------------------- MODULE RateLimiterProofs --------------------------
(***************************************************************************)
(* Proofs for RateLimiter, for every burst, rate and set of keys: the      *)
(* inductive invariant LimiterInv, the bound on what a key is given, and    *)
(* the refinement of TokenBuckets.                                         *)
(***************************************************************************)
EXTENDS RateLimiter, TLAPS

(* A bucket holds a whole number of ticks.                                  *)
LEMMA CapacityNat == Capacity \in Nat
BY RateAssumption DEF Capacity

(* A bucket that sat idle for IdleEvict ticks has had time to fill.         *)
LEMMA IdleCoversRefill == IdleEvict \in Nat /\ IdleEvict >= Capacity
BY CapacityNat, RateAssumption DEF IdleEvict

(* Allow looks at a level within the bucket.                                *)
LEMMA FullType ==
  ASSUME LimiterTypeOK, NEW b \in Buckets
  PROVE  Full(b) \in 0 .. Capacity
BY CapacityNat DEF LimiterTypeOK, Full

(* The limiter starts in the invariant.                                     *)
LEMMA InitInv == LimiterInit => LimiterInv
<1> SUFFICES ASSUME LimiterInit PROVE LimiterInv OBVIOUS
<1> USE CapacityNat, RateAssumption
<1>1. LimiterTypeOK
  BY DEF LimiterInit, LimiterTypeOK
<1>2. Refilled
  BY DEF LimiterInit, Refilled
<1>3. SpentPlusLeft
  <2> SUFFICES ASSUME NEW b \in Buckets
               PROVE  spent[b] + Full(b) <= Capacity + now
    BY DEF SpentPlusLeft
  <2>1. spent[b] = 0 /\ Full(b) = Capacity /\ now = 0
    BY DEF LimiterInit, Full
  <2> QED BY <2>1
<1>4. ClockOrder
  BY DEF LimiterInit, ClockOrder, NoSweep
<1> QED BY <1>1, <1>2, <1>3, <1>4 DEF LimiterInv

(* Allow keeps its part of the invariant, granted or not.                   *)
LEMMA AllowInv ==
  ASSUME LimiterInv, NEW b \in Buckets, Allows(b) \/ Denies(b),
         UNCHANGED <<now, sweep>>
  PROVE  /\ live' \subseteq Buckets
         /\ level' \in [Buckets -> 0 .. Capacity]
         /\ lastSeen' \in [Buckets -> 0 .. MaxTime]
         /\ spent' \in [Buckets -> Nat]
         /\ Refilled' /\ SpentPlusLeft' /\ ClockOrder'
<1> USE CapacityNat, RateAssumption DEF LimiterInv, LimiterTypeOK
<1> DEFINE lvl == IF Full(b) >= Refill THEN Full(b) - Refill ELSE Full(b)
<1>1. Full(b) \in 0 .. Capacity
  BY FullType
<1>2. lvl \in 0 .. Capacity
  BY <1>1
<1>3. /\ live' = live \cup {b}
      /\ level' = [level EXCEPT ![b] = lvl]
      /\ lastSeen' = [lastSeen EXCEPT ![b] = now]
      /\ spent' = IF Full(b) >= Refill
                  THEN [spent EXCEPT ![b] = spent[b] + Refill] ELSE spent
  BY <1>1 DEF Allows, Denies, Touch
<1> HIDE DEF lvl
<1>4. spent' \in [Buckets -> Nat]
  BY <1>3
<1>5. Refilled'
  <2> SUFFICES ASSUME NEW c \in live'
               PROVE  level'[c] = Capacity \/ level'[c] >= now' - lastSeen'[c]
    BY DEF Refilled
  <2>1. CASE c = b
    BY <2>1, <1>2, <1>3
  <2>2. CASE c # b
    BY <2>2, <1>3 DEF Refilled
  <2> QED BY <2>1, <2>2
<1>6. SpentPlusLeft'
  <2> SUFFICES ASSUME NEW c \in Buckets
               PROVE  spent'[c] + Full(c)' <= Capacity + now'
    BY DEF SpentPlusLeft
  <2>1. CASE c = b
    <3>1. Full(b)' = lvl
      BY <1>3 DEF Full
    <3>2. spent[b] + Full(b) <= Capacity + now
      BY DEF SpentPlusLeft
    <3> QED BY <2>1, <3>1, <3>2, <1>1, <1>3 DEF lvl
  <2>2. CASE c # b
    BY <2>2, <1>3 DEF SpentPlusLeft, Full
  <2> QED BY <2>1, <2>2
<1>7. ClockOrder'
  BY <1>3 DEF ClockOrder
<1> QED BY <1>2, <1>3, <1>4, <1>5, <1>6, <1>7

(* Every step keeps the invariant.                                          *)
LEMMA NextInv == LimiterInv /\ [LimiterNext]_limiterVars => LimiterInv'
<1> SUFFICES ASSUME LimiterInv, [LimiterNext]_limiterVars PROVE LimiterInv'
  OBVIOUS
<1> USE CapacityNat, RateAssumption DEF LimiterInv
<1>1. CASE Tick
  <2> USE <1>1 DEF Tick, LimiterTypeOK
  <2>1. LimiterTypeOK'
    OBVIOUS
  <2>2. Refilled'
    BY DEF Refilled, ClockOrder
  <2>3. SpentPlusLeft'
    BY DEF SpentPlusLeft, Full
  <2>4. ClockOrder'
    BY DEF ClockOrder, NoSweep
  <2> QED BY <2>1, <2>2, <2>3, <2>4
<1>2. CASE SweepBegins
  BY <1>2 DEF SweepBegins, LimiterTypeOK, Refilled, SpentPlusLeft, Full,
              ClockOrder, NoSweep
<1>3. CASE evictIdle
  <2> USE <1>3 DEF evictIdle, LimiterTypeOK
  <2>1. LimiterTypeOK' /\ Refilled' /\ ClockOrder'
    BY DEF Refilled, ClockOrder, NoSweep
  <2>2. ASSUME NEW b \in live, lastSeen[b] < sweep - IdleEvict
        PROVE  level[b] = Capacity
    BY <2>2, IdleCoversRefill DEF Refilled, ClockOrder, NoSweep
  <2>3. ASSUME NEW b \in Buckets PROVE Full(b)' = Full(b)
    BY <2>2, <2>3 DEF Full
  <2>4. SpentPlusLeft'
    BY <2>3 DEF SpentPlusLeft
  <2> QED BY <2>1, <2>4
<1>4. ASSUME NEW r \in Requests, Bind(r) PROVE LimiterInv'
  <2>1. LimiterTypeOK'
    BY <1>4 DEF Bind, LimiterTypeOK
  <2> QED BY <1>4, <2>1 DEF Bind, Refilled, SpentPlusLeft, Full, ClockOrder
<1>5. ASSUME NEW r \in Requests, Unary(r) PROVE LimiterInv'
  <2>1. CASE limits[r] = <<>>
    <3>1. LimiterTypeOK'
      BY <1>5, <2>1 DEF Unary, LimiterTypeOK
    <3> QED BY <1>5, <2>1, <3>1
            DEF Unary, Refilled, SpentPlusLeft, Full, ClockOrder
  <2>2. CASE limits[r] # <<>>
    <3> DEFINE b == Head(limits[r])
    <3>1. limits[r] \in Seq(Buckets)
      BY DEF LimiterTypeOK
    <3>2. b \in Buckets /\ Tail(limits[r]) \in Seq(Buckets)
      BY <2>2, <3>1
    <3>3. Allows(b) \/ Denies(b)
      BY <1>5, <2>2 DEF Unary
    <3>4. UNCHANGED <<now, sweep>>
      BY <1>5 DEF Unary
    <3>5. limits' \in [Requests -> Seq(Buckets)]
      <4>0. \/ limits' = [limits EXCEPT ![r] = Tail(limits[r])]
            \/ limits' = [limits EXCEPT ![r] = <<>>]
        BY <1>5, <2>2 DEF Unary
      <4>a. <<>> \in Seq(Buckets)
        OBVIOUS
      <4>1. \E s \in Seq(Buckets) : limits' = [limits EXCEPT ![r] = s]
        BY <3>2, <4>0, <4>a, Zenon
      <4>2. limits \in [Requests -> Seq(Buckets)]
        BY DEF LimiterTypeOK
      <4> QED BY <4>1, <4>2
    <3>6. at' \in [Requests -> {"idle", "limiter", "handler"}]
      BY <1>5, <2>2 DEF Unary, LimiterTypeOK
    <3> HIDE DEF b
    <3>7. /\ live' \subseteq Buckets
          /\ level' \in [Buckets -> 0 .. Capacity]
          /\ lastSeen' \in [Buckets -> 0 .. MaxTime]
          /\ spent' \in [Buckets -> Nat]
          /\ Refilled' /\ SpentPlusLeft' /\ ClockOrder'
      BY <3>2, <3>3, <3>4, AllowInv
    <3> QED BY <3>4, <3>5, <3>6, <3>7 DEF LimiterTypeOK
  <2> QED BY <2>1, <2>2
<1>6. ASSUME NEW r \in Requests, HandlerReturns(r) PROVE LimiterInv'
  <2>1. LimiterTypeOK'
    BY <1>6 DEF HandlerReturns, LimiterTypeOK
  <2> QED BY <1>6, <2>1
          DEF HandlerReturns, Refilled, SpentPlusLeft, Full, ClockOrder
<1>7. CASE UNCHANGED limiterVars
  BY <1>7 DEF limiterVars, LimiterTypeOK, Refilled, SpentPlusLeft, Full,
              ClockOrder
<1> QED BY <1>1, <1>2, <1>3, <1>4, <1>5, <1>6, <1>7 DEF LimiterNext

(* LimiterInv is an invariant of the limiter.                               *)
THEOREM LimiterInvariant == LimiterSpec => []LimiterInv
BY InitInv, NextInv, PTL DEF LimiterSpec

(* Allow and the sweep give no key more than its burst plus what the time   *)
(* since the start earned it, for every burst and rate.                     *)
THEOREM SpendBounded == LimiterSpec => []SpendIsBounded
<1>1. LimiterInv => SpendIsBounded
  <2> SUFFICES ASSUME LimiterInv, NEW b \in Buckets
               PROVE  spent[b] <= Capacity + now
    BY DEF SpendIsBounded
  <2>1. Full(b) \in 0 .. Capacity
    BY FullType DEF LimiterInv
  <2>2. spent[b] + Full(b) <= Capacity + now
    BY DEF LimiterInv, SpentPlusLeft
  <2> QED BY <2>1, <2>2, CapacityNat DEF LimiterInv, LimiterTypeOK
<1> QED BY <1>1, LimiterInvariant, PTL

(* The fill of the abstract buckets.                                        *)
Filled == [b \in Buckets |-> Full(b)]

(* The limiter starts with every bucket full.                               *)
LEMMA InitRefines == LimiterInit => Promise!Init
BY DEF LimiterInit, Promise!Init, Full

(* Allow moves only the bucket it is asked about.                           *)
LEMMA AllowRefines ==
  ASSUME LimiterInv, NEW b \in Buckets, Allows(b) \/ Denies(b)
  PROVE  Promise!Next \/ Filled' = Filled
<1> USE DEF LimiterInv, LimiterTypeOK
<1>1. \A c \in Buckets : c # b => Full(c)' = Full(c)
  BY DEF Allows, Denies, Touch, Full
<1>2. CASE Allows(b)
  <2>1. Full(b)' = Full(b) - Refill /\ Full(b) >= Refill
    BY <1>2 DEF Allows, Touch, Full
  <2>2. Filled' = [Filled EXCEPT ![b] = Filled[b] - Refill]
    BY <1>1, <2>1 DEF Filled
  <2>3. Promise!Admit(b)
    BY <2>1, <2>2 DEF Promise!Admit, Filled
  <2> QED BY <2>3 DEF Promise!Next
<1>3. CASE Denies(b)
  <2>1. Full(b)' = Full(b)
    BY <1>3 DEF Denies, Touch, Full
  <2> QED BY <1>1, <2>1 DEF Filled
<1> QED BY <1>2, <1>3

(* Every step of the limiter is a step of the buckets or leaves them alone. *)
LEMMA NextRefines ==
  LimiterInv /\ [LimiterNext]_limiterVars => [Promise!Next]_Filled
<1> SUFFICES ASSUME LimiterInv, [LimiterNext]_limiterVars
             PROVE  Promise!Next \/ Filled' = Filled
  OBVIOUS
<1> USE CapacityNat, RateAssumption DEF LimiterInv
<1>1. CASE Tick
  <2>1. Filled' = [b \in Buckets |-> IF Filled[b] < Capacity
                                     THEN Filled[b] + 1 ELSE Filled[b]]
    BY <1>1 DEF Tick, Filled, Full, LimiterTypeOK
  <2> QED BY <2>1 DEF Promise!Next, Promise!Elapse, Filled
<1>2. CASE SweepBegins
  BY <1>2 DEF SweepBegins, Filled, Full
<1>3. CASE evictIdle
  <2>1. ASSUME NEW b \in live, lastSeen[b] < sweep - IdleEvict
        PROVE  level[b] = Capacity
    BY <1>3, <2>1, IdleCoversRefill
       DEF evictIdle, LimiterTypeOK, Refilled, ClockOrder, NoSweep
  <2>2. ASSUME NEW b \in Buckets PROVE Full(b)' = Full(b)
    BY <1>3, <2>1, <2>2 DEF evictIdle, Full
  <2> QED BY <2>2 DEF Filled
<1>4. ASSUME NEW r \in Requests, Bind(r) \/ HandlerReturns(r)
      PROVE  Filled' = Filled
  BY <1>4 DEF Bind, HandlerReturns, Filled, Full
<1>5. ASSUME NEW r \in Requests, Unary(r)
      PROVE  Promise!Next \/ Filled' = Filled
  <2>1. CASE limits[r] = <<>>
    BY <1>5, <2>1 DEF Unary, Filled, Full
  <2>2. CASE limits[r] # <<>>
    <3> DEFINE b == Head(limits[r])
    <3>1. limits[r] \in Seq(Buckets)
      BY DEF LimiterTypeOK
    <3>2. b \in Buckets
      BY <2>2, <3>1
    <3>3. Allows(b) \/ Denies(b)
      BY <1>5, <2>2 DEF Unary
    <3> HIDE DEF b
    <3> QED BY <3>2, <3>3, AllowRefines
  <2> QED BY <2>1, <2>2
<1>6. CASE UNCHANGED limiterVars
  BY <1>6 DEF limiterVars, Filled, Full
<1> QED BY <1>1, <1>2, <1>3, <1>4, <1>5, <1>6 DEF LimiterNext

(* Buckets made on demand and swept when idle behave like buckets that are  *)
(* always there: an eviction never hands a key a fresh burst.               *)
THEOREM LimiterRefinesBuckets == LimiterSpec => EvictionIsInvisible
<1>1. LimiterInit => Promise!Init
  BY InitRefines
<1>2. LimiterInv /\ [LimiterNext]_limiterVars => [Promise!Next]_Filled
  BY NextRefines
<1>3. Filled = [b \in Buckets |-> Full(b)]
  BY DEF Filled
<1> QED BY <1>1, <1>2, <1>3, LimiterInvariant, PTL
        DEF LimiterSpec, EvictionIsInvisible, Promise!Spec, Filled
=============================================================================
