------------------------------- MODULE MCNet -------------------------------
(* Net on small instances.                                                 *)
EXTENDS Net, TLC

AnyTimeout == {-1, 1}
NoTimeout  == {-1}

Fds == Permutations(Fd)

\* Net as it starts, or as it is when all has come to rest at time t: left
\* says how often each fd is still given out.
Rest(left, t) ==
  /\ live = {} /\ nextSeq = 1 /\ ready = {} /\ batch = {} /\ curr = None
  /\ evs = [f \in Fiber |-> NoEvents]
  /\ expireQ = <<>> /\ ioQ = <<>> /\ sems = <<>> /\ nextSem = 1
  /\ phase = "main" /\ waitUntil = 0 /\ now = t
  /\ interest = {} /\ pending = {}
  /\ sock = [d \in Fd |-> [kind |-> "none", gen |-> MaxOpen - left[d], in |-> 0,
                           room |-> 0, hup |-> FALSE]]
  /\ fdSeq = [d \in Fd |-> MaxSeq - left[d]]
  /\ held = {} /\ handles = {} /\ unset = {}
  /\ frame = [f \in Fiber |-> NoFrame]

\* One fd, again and again, with time outs; or each fd once, so late that
\* only calls without a time out fit in the bound of the clock.
MCNetInit ==
  \/ \E d \in Fd : Rest([e \in Fd |-> IF e = d THEN MaxOpen ELSE 0], 0)
  \/ Rest([e \in Fd |-> 1], MaxTime)

MCNetSpec == MCNetInit /\ [][NetNext]_netVars

=============================================================================
