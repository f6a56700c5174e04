---------------------------- MODULE TokenBucket ----------------------------
(***************************************************************************)
(* TokenBucket of src/token_bucket.cpp.  Time and tokens are doubles in    *)
(* the code and integers here, in units small enough for every quantity of *)
(* a behaviour: what rounding does is left out.  NowFloat is the wall      *)
(* clock, which can be set back.                                           *)
(***************************************************************************)
EXTENDS Integers

CONSTANTS
  Speed,      \* the arguments of Reset: numbers, and NaN
  Capacity,
  NaN,
  MinSpeed, MaxSpeed, DefaultSpeed, MaxCapacity,   \* the limits of Reset
  Cost,       \* the arguments of TryCost
  MaxCost,
  MaxClock    \* bound: the times of the clock are 0..MaxClock

ASSUME TokenBucketAssumption ==
  /\ Speed \subseteq Int \cup {NaN} /\ Capacity \subseteq Int \cup {NaN}
  /\ MinSpeed \in Nat /\ MaxSpeed \in Nat /\ MinSpeed <= MaxSpeed
  /\ DefaultSpeed \in MinSpeed..MaxSpeed /\ MaxCapacity \in Nat
  /\ Cost \subseteq Int /\ MaxCost \in Nat /\ \A c \in Cost : c <= MaxCost
  /\ MaxClock \in Nat

VARIABLES
  clock,        \* what NowFloat returns
  speed, max_value, curr_value, last_time,
  shown,        \* history: the latest time a call has read
  since,        \* history: shown when the window began,
  granted       \* and what was granted from then on

bucketVars == <<clock, speed, max_value, curr_value, last_time, shown, since, granted>>

Clamp(v, lo, hi) == IF v < lo THEN lo ELSE IF v > hi THEN hi ELSE v
SpeedFor(s) == IF s = NaN THEN DefaultSpeed ELSE Clamp(s, MinSpeed, MaxSpeed)
CapacityFor(m) == IF m = NaN THEN 0 ELSE Clamp(m, 0, MaxCapacity)

\* TokenBucket(): other arguments are those of a Reset that follows.
BucketInit ==
  /\ clock = 0
  /\ speed = DefaultSpeed /\ max_value = 0 /\ curr_value = 0
  /\ last_time = 0 /\ shown = 0 /\ since = 0 /\ granted = 0

ResetBucket(s, m) ==
  /\ speed' = SpeedFor(s)
  /\ max_value' = CapacityFor(m)
  /\ curr_value' = max_value'
  /\ last_time' = clock
  /\ shown' = clock /\ since' = clock /\ granted' = 0
  /\ UNCHANGED clock

\* The tokens that a call finds at a time, and the time it leaves.
BadFilled(now) ==
  LET sum == IF now > last_time THEN curr_value + speed * (now - last_time) ELSE curr_value
  IN  [value |-> IF sum > max_value THEN max_value ELSE sum, time |-> now]

Filled(now) ==
  LET sum == IF now > last_time THEN curr_value + speed * (now - last_time) ELSE curr_value
  IN  [value |-> IF sum > max_value THEN max_value ELSE sum,
       time |-> IF now > last_time THEN now ELSE last_time]

\* A bucket in debt refuses; any other grants whatever is asked for.
Grants(value) == value >= 0

TryCost(cost) ==
  LET found == Filled(clock) IN
  /\ cost > 0
  /\ curr_value' = IF Grants(found.value) THEN found.value - cost ELSE found.value
  /\ last_time' = found.time
  /\ shown' = IF clock > shown THEN clock ELSE shown
     \* a window may begin with any call
  /\ \/ since' = since /\ granted' = granted + (IF Grants(found.value) THEN cost ELSE 0)
     \/ since' = shown' /\ granted' = IF Grants(found.value) THEN cost ELSE 0
  /\ UNCHANGED <<clock, speed, max_value>>

\* A cost that is not positive is granted and changes nothing.
TryNothing(cost) == cost <= 0 /\ UNCHANGED bucketVars

\* Time passes, or the clock is set.
SetClock ==
  /\ clock' \in 0..MaxClock
  /\ UNCHANGED <<speed, max_value, curr_value, last_time, shown, since, granted>>

BucketNext ==
  \/ \E s \in Speed, m \in Capacity : ResetBucket(s, m)
  \/ \E c \in Cost : TryCost(c) \/ TryNothing(c)
  \/ SetClock

BucketSpec == BucketInit /\ [][BucketNext]_bucketVars

-----------------------------------------------------------------------------
BucketTypeOK ==
  /\ clock \in 0..MaxClock
  /\ speed \in MinSpeed..MaxSpeed
  /\ max_value \in 0..MaxCapacity
  /\ curr_value \in Int
  /\ last_time \in 0..MaxClock /\ shown \in 0..MaxClock /\ since \in 0..MaxClock
  /\ granted \in Nat

(* From any call on, a bucket grants no more than it can hold, what comes  *)
(* in while the clock moves past every time it has shown, and the one cost *)
(* that runs into debt: a clock that is set back and runs again gives      *)
(* nothing twice.                                                          *)
RateBounded ==
  granted <= max_value + speed * (shown - since) + MaxCost

=============================================================================
