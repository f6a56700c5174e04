------------------------------ MODULE AbsSem ------------------------------
(***************************************************************************)
(* What fiber::Sem promises (include/lom/fiber/_sem.h): a counting         *)
(* semaphore whose Acquire takes all it asks for in one step or nothing,   *)
(* gives up only at its time out, and fails once the semaphore is          *)
(* destroyed.  Nothing is said of partial acquisitions.                    *)
(***************************************************************************)
EXTENDS Integers

CONSTANTS Fiber, SemId, UInt64Max, MaxTime

VARIABLES
  free,      \* the value of every semaphore that exists
  request,   \* the Acquire that each fiber is in
  now

absVars == <<free, request, now>>

NoRequest == [sem |-> 0, need |-> 0, expire |-> -1]

AbsInit ==
  /\ free = [s \in {} |-> 0]
  /\ request = [f \in Fiber |-> NoRequest]
  /\ now = 0

New(s, v) ==
  /\ s \notin DOMAIN free
  /\ free' = [x \in DOMAIN free \cup {s} |-> IF x = s THEN v ELSE free[x]]
  /\ UNCHANGED <<request, now>>

Destroy(s) ==
  /\ s \in DOMAIN free
  /\ free' = [x \in DOMAIN free \ {s} |-> free[x]]
  /\ UNCHANGED <<request, now>>

\* A release that would exceed the largest value is refused as a whole.
Release(s, n) ==
  /\ s \in DOMAIN free
  /\ free[s] + n <= UInt64Max
  /\ free' = [free EXCEPT ![s] = @ + n]
  /\ UNCHANGED <<request, now>>

Ask(f, s, n, t) ==
  /\ request[f] = NoRequest
  /\ s \in DOMAIN free
  /\ n > 0
  /\ t = -1 \/ t >= now
  /\ request' = [request EXCEPT ![f] = [sem |-> s, need |-> n, expire |-> t]]
  /\ UNCHANGED <<free, now>>

Answered(f) == request' = [request EXCEPT ![f] = NoRequest]

Grant(f) ==
  /\ request[f] /= NoRequest
  /\ request[f].sem \in DOMAIN free
  /\ free[request[f].sem] >= request[f].need
  /\ free' = [free EXCEPT ![request[f].sem] = @ - request[f].need]
  /\ Answered(f)
  /\ UNCHANGED now

GiveUp(f) ==
  /\ request[f].expire \in 0..now
  /\ Answered(f)
  /\ UNCHANGED <<free, now>>

Closed(f) ==
  /\ request[f] /= NoRequest
  /\ request[f].sem \notin DOMAIN free
  /\ Answered(f)
  /\ UNCHANGED <<free, now>>

Pass == now' = now + 1 /\ UNCHANGED <<free, request>>

AbsNext ==
  \/ \E s \in SemId : Destroy(s) \/ \E n \in 0..UInt64Max : New(s, n) \/ Release(s, n)
  \/ \E f \in Fiber :
       \/ Grant(f) \/ GiveUp(f) \/ Closed(f)
       \/ \E s \in SemId, n \in 1..UInt64Max, t \in -1..MaxTime : Ask(f, s, n, t)
  \/ Pass

AbsSpec == AbsInit /\ [][AbsNext]_absVars

=============================================================================
