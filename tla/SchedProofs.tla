---------------------------- MODULE SchedProofs ----------------------------
(* Proofs of the invariants of Sched, for every value of its constants.    *)
EXTENDS Sched, WellFoundedInduction, TLAPS

(* A set of times that is not empty has a first one. *)
LEMMA FirstExists ==
  ASSUME NEW T \in SUBSET Nat, T /= {}
  PROVE  \E t \in T : \A u \in T : t <= u
<1> DEFINE less == OpToRel(<, Nat)
<1>1. IsWellFoundedOn(less, Nat)
  BY NatLessThanWellFounded
<1>2. PICK t \in T : \A u \in T : <<u, t>> \notin less
  <2> HIDE DEF less
  <2> QED BY <1>1, WFMin
<1>3. \A u \in T : ~ (u < t)
  BY <1>2 DEF OpToRel
<1> QED BY <1>3

-----------------------------------------------------------------------------
(* Facts about WakeUpFibers.  In each lemma q is the queue as the caller   *)
(* leaves it: it may lack fibers of F, which are being woken, and in the   *)
(* expire queue entries of only such fibers, but nothing else.             *)

(* WakeUpFibers keeps the expire queue exact (sched.cpp:45-53). *)
LEMMA ExpireWake ==
  ASSUME SchedTypeOK, ExpireConsistent(evs, expireQ),
         NEW F \in SUBSET Fiber, NEW q,
         DOMAIN q \subseteq DOMAIN expireQ,
         \A t \in DOMAIN q : q[t] \subseteq expireQ[t] /\ expireQ[t] \subseteq q[t] \cup F,
         \A f \in Fiber \ F : evs[f].expire >= 0 => evs[f].expire \in DOMAIN q
  PROVE  /\ DOMAIN ExpireAfterWake(q, F) \subseteq Time
         /\ ExpireAfterWake(q, F) \in [DOMAIN ExpireAfterWake(q, F) -> SUBSET Fiber]
         /\ ExpireConsistent(EvsAfterWake(F), ExpireAfterWake(q, F))
<1> DEFINE e2 == EvsAfterWake(F)
           q2 == ExpireAfterWake(q, F)
<1>1. /\ DOMAIN q2 = DOMAIN q
      /\ \A t \in DOMAIN q : q2[t] = q[t] \ {f \in F : evs[f].expire = t}
  BY DEF ExpireAfterWake
<1>2. \A f \in Fiber : e2[f] = IF f \in F THEN NoEvents ELSE evs[f]
  BY DEF EvsAfterWake
<1>3. DOMAIN q \subseteq Time /\ \A t \in DOMAIN q : q[t] \subseteq Fiber
  BY DEF SchedTypeOK
<1>4. \A t \in DOMAIN q : q2[t] = {f \in Fiber : e2[f].expire = t}
  BY <1>1, <1>2, <1>3 DEF ExpireConsistent, NoEvents, Time
<1>5. \A f \in Fiber : e2[f].expire >= 0 => e2[f].expire \in DOMAIN q
  BY <1>2 DEF NoEvents
<1>6. q2 \in [DOMAIN q -> SUBSET Fiber]
  BY <1>1, <1>3 DEF ExpireAfterWake
<1> QED BY <1>1, <1>3, <1>4, <1>5, <1>6 DEF ExpireConsistent

(* WakeUpFibers keeps io_waiting_fibers exact, and inserts nothing into it *)
(* (sched.cpp:55-63).                                                      *)
LEMMA IoWake ==
  ASSUME SchedTypeOK, IoConsistent(evs, ioQ),
         NEW F \in SUBSET Fiber, NEW q \in [DOMAIN ioQ -> FdWaitingFibers],
         \A d \in DOMAIN ioQ :
           /\ q[d].r \subseteq ioQ[d].r /\ ioQ[d].r \subseteq q[d].r \cup F
           /\ q[d].w \subseteq ioQ[d].w /\ ioQ[d].w \subseteq q[d].w \cup F
  PROVE  /\ IoAfterWake(q, F) \in [DOMAIN ioQ -> FdWaitingFibers]
         /\ IoConsistent(EvsAfterWake(F), IoAfterWake(q, F))
<1> DEFINE e2 == EvsAfterWake(F)
           q2 == IoAfterWake(q, F)
<1>1. \A f \in Fiber : e2[f] = IF f \in F THEN NoEvents ELSE evs[f]
  BY DEF EvsAfterWake
<1>2. UNION {evs[f].r \cup evs[f].w : f \in F} \subseteq DOMAIN ioQ
  BY DEF IoConsistent
<1>3. DOMAIN q2 = DOMAIN ioQ
  BY <1>2 DEF IoAfterWake
<1>4. \A d \in DOMAIN ioQ :
        q2[d] = [r |-> q[d].r \ Reading(F, d), w |-> q[d].w \ Writing(F, d)]
  BY <1>3 DEF IoAfterWake
<1>5. \A d \in DOMAIN ioQ : q[d].r \subseteq Fiber /\ q[d].w \subseteq Fiber
  BY DEF FdWaitingFibers
<1>a. ASSUME NEW d \in DOMAIN ioQ
      PROVE  /\ q2[d] \in FdWaitingFibers
             /\ q2[d].r = q[d].r \ Reading(F, d)
             /\ q2[d].w = q[d].w \ Writing(F, d)
  <2>1. q[d].r \in SUBSET Fiber /\ q[d].w \in SUBSET Fiber
    BY <1>5
  <2>2. q2[d] = [r |-> q[d].r \ Reading(F, d), w |-> q[d].w \ Writing(F, d)]
    BY <1>4
  <2> HIDE DEF q2
  <2> QED BY <2>1, <2>2 DEF FdWaitingFibers
<1>6. q2 \in [DOMAIN ioQ -> FdWaitingFibers]
  <2>1. q2 = [d \in DOMAIN q2 |-> q2[d]]
    BY DEF IoAfterWake
  <2> HIDE DEF q2
  <2> QED BY <2>1, <1>3, <1>a
<1>7. \A d \in DOMAIN ioQ : q2[d].r = {f \in Fiber : d \in e2[f].r}
  <2> SUFFICES ASSUME NEW d \in DOMAIN ioQ, NEW f \in Fiber
               PROVE  f \in q2[d].r <=> d \in e2[f].r
    BY <1>a, <1>5
  <2>1. CASE f \in F
    BY <2>1, <1>1, <1>a DEF IoConsistent, Reading, Writing, NoEvents
  <2>2. CASE f \notin F
    BY <2>2, <1>1, <1>a DEF IoConsistent, Reading, Writing
  <2> QED BY <2>1, <2>2
<1>9. \A d \in DOMAIN ioQ : q2[d].w = {f \in Fiber : d \in e2[f].w}
  <2> SUFFICES ASSUME NEW d \in DOMAIN ioQ, NEW f \in Fiber
               PROVE  f \in q2[d].w <=> d \in e2[f].w
    BY <1>a, <1>5
  <2>1. CASE f \in F
    BY <2>1, <1>1, <1>a DEF IoConsistent, Reading, Writing, NoEvents
  <2>2. CASE f \notin F
    BY <2>2, <1>1, <1>a DEF IoConsistent, Reading, Writing
  <2> QED BY <2>1, <2>2
<1>8. \A f \in Fiber : e2[f].r \cup e2[f].w \subseteq DOMAIN ioQ
  BY <1>1 DEF IoConsistent, NoEvents
<1> QED BY <1>3, <1>6, <1>7, <1>8, <1>9 DEF IoConsistent

(* WakeUpFibers keeps the waiters of the semaphores exact, and touches     *)
(* nothing else of them (sched.cpp:67-75).                                 *)
LEMMA SemWake ==
  ASSUME SchedTypeOK, SemConsistent(evs, sems),
         NEW F \in SUBSET Fiber, NEW q \in [DOMAIN sems -> SemInfo],
         \A s \in DOMAIN sems : /\ q[s].waiters \subseteq sems[s].waiters
                                /\ sems[s].waiters \subseteq q[s].waiters \cup F
  PROVE  /\ SemsAfterWake(q, F) \in [DOMAIN sems -> SemInfo]
         /\ SemConsistent(EvsAfterWake(F), SemsAfterWake(q, F))
         /\ \A s \in DOMAIN sems :
              /\ SemsAfterWake(q, F)[s].value = q[s].value
              /\ SemsAfterWake(q, F)[s].acquirer = q[s].acquirer
              /\ SemsAfterWake(q, F)[s].acqValue = q[s].acqValue
<1> DEFINE e2 == EvsAfterWake(F)
           q2 == SemsAfterWake(q, F)
<1>1. \A f \in Fiber : e2[f] = IF f \in F THEN NoEvents ELSE evs[f]
  BY DEF EvsAfterWake
<1>2. DOMAIN q2 = DOMAIN sems
  BY DEF SemsAfterWake
<1>3. \A s \in DOMAIN sems :
        q2[s] = [q[s] EXCEPT !.waiters = @ \ WaitingOn(F, s)]
  BY DEF SemsAfterWake
<1>4. ASSUME NEW s \in DOMAIN sems
      PROVE  /\ q2[s] \in SemInfo
             /\ q2[s].waiters = q[s].waiters \ WaitingOn(F, s)
             /\ q2[s].value = q[s].value
             /\ q2[s].acquirer = q[s].acquirer
             /\ q2[s].acqValue = q[s].acqValue
  <2>1. q[s] \in SemInfo
    OBVIOUS
  <2>2. q2[s] = [q[s] EXCEPT !.waiters = q[s].waiters \ WaitingOn(F, s)]
    BY <1>3
  <2> HIDE DEF q2
  <2> QED BY <2>1, <2>2 DEF SemInfo
<1>5. q2 \in [DOMAIN sems -> SemInfo]
  BY <1>4 DEF SemsAfterWake
<1>6. \A s \in DOMAIN sems : q[s].waiters \subseteq Fiber
  BY DEF SemInfo
<1>7. \A s \in DOMAIN sems : q2[s].waiters = {f \in Fiber : s \in e2[f].sems}
  <2> SUFFICES ASSUME NEW s \in DOMAIN sems, NEW f \in Fiber
               PROVE  f \in q2[s].waiters <=> s \in e2[f].sems
    BY <1>4, <1>6
  <2>1. CASE f \in F
    BY <2>1, <1>1, <1>4 DEF SemConsistent, NoEvents, WaitingOn
  <2>2. CASE f \notin F
    BY <2>2, <1>1, <1>4 DEF SemConsistent, WaitingOn
  <2> QED BY <2>1, <2>2
<1>8. \A f \in Fiber : e2[f].sems \subseteq DOMAIN sems
  BY <1>1 DEF SemConsistent, NoEvents
<1> QED BY <1>2, <1>4, <1>5, <1>7, <1>8 DEF SemConsistent

(* Woken fibers, parked before, are ready and only ready.                  *)
LEMMA PlacementWake ==
  ASSUME SchedTypeOK, Placement, NEW F \in SUBSET Fiber,
         \A f \in F : Parked(f),
         ready' = ready \cup F, evs' = EvsAfterWake(F),
         live' = live, batch' = batch, curr' = curr,
         phase = "batch" => phase' = "batch" \/ (batch = {} /\ curr = None)
  PROVE  Placement' /\ ready' \subseteq Fiber /\ evs' \in [Fiber -> Events]
<1>1. \A f \in Fiber : evs'[f] = IF f \in F THEN NoEvents ELSE evs[f]
  BY DEF EvsAfterWake
<1>2. NoEvents \in Events
  BY DEF NoEvents, Events
<1>3. evs' \in [Fiber -> Events]
  BY <1>1, <1>2 DEF EvsAfterWake, SchedTypeOK
<1>4. \A f \in Fiber : Parked(f)' <=> Parked(f) /\ f \notin F
  BY <1>1 DEF Parked
<1>5. \A f \in F : f \notin batch /\ f \notin ready /\ f /= curr
  BY DEF Placement
<1>6. ready' \subseteq Fiber
  BY DEF SchedTypeOK
<1>7. Placement'
  BY <1>4, <1>5 DEF Placement
<1> QED BY <1>3, <1>6, <1>7

(* A step that wakes up F, whose effect on ioQ and sems is known to be     *)
(* good, keeps the invariant.                                              *)
LEMMA WakeStep ==
  ASSUME SchedInv,
         NEW F \in SUBSET Fiber, \A f \in F : Parked(f),
         NEW q,
         DOMAIN q \subseteq DOMAIN expireQ,
         \A t \in DOMAIN q : q[t] \subseteq expireQ[t] /\ expireQ[t] \subseteq q[t] \cup F,
         \A f \in Fiber \ F : evs[f].expire >= 0 => evs[f].expire \in DOMAIN q,
         ready' = ready \cup F, evs' = EvsAfterWake(F),
         expireQ' = ExpireAfterWake(q, F),
         DOMAIN ioQ' \subseteq Fd, ioQ' \in [DOMAIN ioQ' -> FdWaitingFibers],
         IoConsistent(evs, ioQ)',
         DOMAIN sems' \subseteq DOMAIN sems, sems' \in [DOMAIN sems' -> SemInfo],
         SemConsistent(evs, sems)', SemBounded',
         UNCHANGED <<ids, curr, batch, now>>,
         phase = "batch" => phase' = "batch" \/ (batch = {} /\ curr = None),
         phase' \in Phases, waitUntil' \in Int,
         interest' \subseteq Fd, pending' \subseteq interest'
  PROVE  SchedInv'
<1> USE DEF SchedInv
<1>1. Placement' /\ ready' \subseteq Fiber /\ evs' \in [Fiber -> Events]
  BY PlacementWake DEF ids
<1>2. /\ DOMAIN expireQ' \subseteq Time
      /\ expireQ' \in [DOMAIN expireQ' -> SUBSET Fiber]
      /\ ExpireConsistent(evs', expireQ')
  BY ExpireWake DEF QueuesConsistent
<1>3. QueuesConsistent'
  BY <1>2 DEF QueuesConsistent
<1>4. DOMAIN sems' \subseteq SemId
  BY DEF SchedTypeOK
<1>5. SchedTypeOK'
  BY <1>1, <1>2, <1>4 DEF SchedTypeOK, ids
<1>6. Numbering'
  BY DEF Numbering, ids
<1> QED BY <1>1, <1>3, <1>5, <1>6

(* A fiber in a queue is parked. *)
LEMMA QueuedAreParked ==
  ASSUME SchedInv
  PROVE  /\ \A t \in DOMAIN expireQ : /\ expireQ[t] \subseteq Fiber
                                      /\ \A f \in expireQ[t] : Parked(f)
         /\ \A d \in DOMAIN ioQ : /\ ioQ[d].r \cup ioQ[d].w \subseteq Fiber
                                  /\ \A f \in ioQ[d].r \cup ioQ[d].w : Parked(f)
         /\ \A s \in DOMAIN sems : /\ sems[s].waiters \subseteq Fiber
                                   /\ \A f \in sems[s].waiters : Parked(f)
<1>1. ASSUME NEW t \in DOMAIN expireQ, NEW f \in expireQ[t] PROVE f \in Fiber /\ Parked(f)
  <2>1. f \in Fiber /\ evs[f].expire = t /\ t \in Time
    BY DEF SchedInv, QueuesConsistent, ExpireConsistent, SchedTypeOK
  <2> QED BY <2>1 DEF Parked, NoEvents, Time
<1>2. ASSUME NEW d \in DOMAIN ioQ, NEW f \in ioQ[d].r \cup ioQ[d].w
      PROVE  f \in Fiber /\ Parked(f)
  <2>1. f \in Fiber /\ d \in evs[f].r \cup evs[f].w
    BY DEF SchedInv, QueuesConsistent, IoConsistent
  <2> QED BY <2>1 DEF Parked, NoEvents
<1>3. ASSUME NEW s \in DOMAIN sems, NEW f \in sems[s].waiters PROVE f \in Fiber /\ Parked(f)
  <2>1. f \in Fiber /\ s \in evs[f].sems
    BY DEF SchedInv, QueuesConsistent, SemConsistent
  <2> QED BY <2>1 DEF Parked, NoEvents
<1> QED BY <1>1, <1>2, <1>3

(* Waking up fibers out of queues that are otherwise left alone: what the  *)
(* other queues become.                                                    *)
LEMMA OtherQueues ==
  ASSUME SchedInv, NEW F \in SUBSET Fiber
  PROVE  /\ IoAfterWake(ioQ, F) \in [DOMAIN ioQ -> FdWaitingFibers]
         /\ IoConsistent(EvsAfterWake(F), IoAfterWake(ioQ, F))
         /\ SemsAfterWake(sems, F) \in [DOMAIN sems -> SemInfo]
         /\ SemConsistent(EvsAfterWake(F), SemsAfterWake(sems, F))
         /\ \A s \in DOMAIN sems :
              /\ SemsAfterWake(sems, F)[s].value = sems[s].value
              /\ SemsAfterWake(sems, F)[s].acquirer = sems[s].acquirer
              /\ SemsAfterWake(sems, F)[s].acqValue = sems[s].acqValue
<1>1. SchedTypeOK /\ IoConsistent(evs, ioQ) /\ SemConsistent(evs, sems)
  BY DEF SchedInv, QueuesConsistent
<1>2. ioQ \in [DOMAIN ioQ -> FdWaitingFibers] /\ sems \in [DOMAIN sems -> SemInfo]
  BY <1>1 DEF SchedTypeOK
<1> QED BY <1>1, <1>2, IoWake, SemWake

-----------------------------------------------------------------------------
(* One lemma per action. *)

LEMMA InitInv == SchedInit => SchedInv
<1> SUFFICES ASSUME SchedInit PROVE SchedInv
  OBVIOUS
<1> USE SchedAssumption DEF SchedInit
<1>1. NoEvents \in Events
  BY DEF NoEvents, Events
<1>2. \A f \in Fiber : evs[f] = NoEvents
  OBVIOUS
<1>3. SchedTypeOK
  BY <1>1 DEF SchedTypeOK, Time, Phases, None
<1>4. Placement
  BY <1>2 DEF Placement, Parked, Fiber, None
<1>5. QueuesConsistent
  BY <1>2 DEF QueuesConsistent, ExpireConsistent, IoConsistent, SemConsistent, NoEvents
<1>6. SemBounded /\ Numbering
  BY DEF SemBounded, Numbering
<1> QED BY <1>3, <1>4, <1>5, <1>6 DEF SchedInv

LEMMA CreateInv == SchedInv /\ Create => SchedInv'
<1> SUFFICES ASSUME SchedInv, Create PROVE SchedInv'
  OBVIOUS
<1> USE DEF Create, SchedInv, queues, loop, kernel
<1>1. nextSeq \in Fiber /\ nextSeq + 1 \in 1..(MaxFiber + 1) /\ nextSeq \notin live
  BY SchedAssumption DEF SchedTypeOK, Numbering, Fiber
<1>2. SchedTypeOK'
  BY <1>1 DEF SchedTypeOK
<1>3. Placement'
  BY <1>1 DEF Placement, Parked
<1>4. QueuesConsistent' /\ SemBounded'
  BY DEF QueuesConsistent, SemBounded
<1>5. Numbering'
  BY DEF Numbering, SchedTypeOK, Fiber
<1> QED BY <1>2, <1>3, <1>4, <1>5

(* Every step of Run and its surroundings that wakes no one. *)
LEMMA QuietInv ==
  SchedInv /\ (Run \/ EnterWait \/ WaitTimedOut \/ WaitInterrupted \/ WaitFailed \/ Tick
               \/ \E d \in Fd : Edge(d) \/ EdgeOver(d) \/ KernelClose(d))
    => SchedInv'
<1> USE DEF SchedInv, queues, loop, kernel, ids
<1> SUFFICES ASSUME SchedInv,
                    Run \/ EnterWait \/ WaitTimedOut \/ WaitInterrupted \/ WaitFailed \/ Tick
                      \/ \E d \in Fd : Edge(d) \/ EdgeOver(d) \/ KernelClose(d)
             PROVE  SchedInv'
  OBVIOUS
<1>1. UNCHANGED <<live, nextSeq, nextSem, ready, batch, curr, evs, expireQ, ioQ, sems>>
  BY DEF Run, EnterWait, WaitTimedOut, WaitInterrupted, WaitFailed, Tick, Edge, EdgeOver, KernelClose
<1>2. PollTimeout \in Int
  <2>1. \A n \in Int : ToInt(n) \in Int
    BY SchedAssumption DEF ToInt
  <2>2. CASE DOMAIN expireQ = {}
    BY <2>2, SchedAssumption DEF PollTimeout
  <2>3. CASE DOMAIN expireQ /= {}
    <3> DEFINE first == CHOOSE t \in DOMAIN expireQ : \A u \in DOMAIN expireQ : t <= u
               cap == IF ready = {} THEN PollMax ELSE 0
    <3>1. PollTimeout = IF first > now THEN Lesser(cap, ToInt(first - now)) ELSE 0
      BY <2>3 DEF PollTimeout
    <3>2. cap \in Int
      BY SchedAssumption
    <3>3. CASE first \in Int
      <4>1. ToInt(first - now) \in Int
        BY <2>1, <3>3 DEF SchedTypeOK, Time
      <4> HIDE DEF first, cap
      <4> QED BY <3>1, <3>2, <4>1 DEF Lesser
    <3>4. \E t \in DOMAIN expireQ : \A u \in DOMAIN expireQ : t <= u
      BY <2>3, FirstExists DEF SchedTypeOK, Time
    <3> QED BY <3>3, <3>4 DEF SchedTypeOK, Time
  <2> QED BY <2>2, <2>3
<1>3. phase' \in Phases /\ waitUntil' \in Int /\ now' \in Time
      /\ interest' \subseteq Fd /\ pending' \subseteq interest'
  BY <1>2, SchedAssumption
  DEF SchedTypeOK, Run, EnterWait, WaitTimedOut, WaitInterrupted, WaitFailed, Tick, Edge, EdgeOver,
      KernelClose, Phases, Forever, Time
<1>4. phase' = "batch" <=> phase = "batch"
  BY DEF Run, EnterWait, WaitTimedOut, WaitInterrupted, WaitFailed, Tick, Edge, EdgeOver, KernelClose
<1>5. SchedTypeOK'
  BY <1>1, <1>3 DEF SchedTypeOK
<1>6. Placement' /\ QueuesConsistent' /\ SemBounded' /\ Numbering'
  BY <1>1, <1>4 DEF Placement, Parked, QueuesConsistent, SemBounded, Numbering
<1> QED BY <1>5, <1>6

LEMMA TakeReadyInv == SchedInv /\ TakeReady => SchedInv'
<1> SUFFICES ASSUME SchedInv, TakeReady PROVE SchedInv'
  OBVIOUS
<1> USE DEF TakeReady, SchedInv, queues, kernel, ids
<1>1. SchedTypeOK'
  BY DEF SchedTypeOK, Phases
<1>2. Placement'
  BY DEF Placement, Parked
<1>3. QueuesConsistent' /\ SemBounded' /\ Numbering'
  BY DEF QueuesConsistent, SemBounded, Numbering
<1> QED BY <1>1, <1>2, <1>3

LEMMA ResumeInv == SchedInv /\ Resume => SchedInv'
<1> SUFFICES ASSUME SchedInv, NEW f \in batch, phase = "batch", curr = None,
                    curr' = f, batch' = batch \ {f},
                    UNCHANGED <<ids, ready, queues, phase, waitUntil, now, kernel>>
             PROVE  SchedInv'
  BY DEF Resume
<1> USE DEF SchedInv, queues, kernel, ids
<1>1. SchedTypeOK' /\ f \in Fiber
  BY DEF SchedTypeOK
<1>2. None \notin Fiber
  BY SchedAssumption DEF None, Fiber
<1>3. Placement'
  BY <1>1, <1>2 DEF Placement, Parked
<1>4. QueuesConsistent' /\ SemBounded' /\ Numbering'
  BY DEF QueuesConsistent, SemBounded, Numbering
<1> QED BY <1>1, <1>3, <1>4

LEMMA FinishInv == SchedInv /\ Finish => SchedInv'
<1> SUFFICES ASSUME SchedInv, Finish PROVE SchedInv'
  OBVIOUS
<1> USE DEF Finish, SchedInv, loop, kernel
<1>0. curr \in Fiber /\ None \notin Fiber
  BY SchedAssumption DEF SchedTypeOK, None, Fiber
<1>1. evs[curr] = NoEvents /\ evs' = evs
  BY <1>0 DEF Placement, Parked, SchedTypeOK
<1>2. SchedTypeOK'
  BY <1>1 DEF SchedTypeOK
<1>3. Placement'
  BY <1>0, <1>1 DEF Placement, Parked, SchedTypeOK
<1>4. QueuesConsistent' /\ SemBounded' /\ Numbering'
  BY <1>1 DEF QueuesConsistent, SemBounded, Numbering
<1> QED BY <1>2, <1>3, <1>4

(* Parking keeps the queues exact, as long as the fiber waits only for fds *)
(* and semaphores that are registered (RegCurrFiberWaitingEvs asserts it). *)
LEMMA SwitchInv ==
  ASSUME SchedInv, NEW e \in Events,
         e.r \cup e.w \subseteq DOMAIN ioQ, e.sems \subseteq DOMAIN sems,
         e.expire \in -1..MaxTime,
         SwitchToSchedFiber(e)
  PROVE  SchedInv'
<1> USE DEF SchedInv
<1>0. curr \in Fiber /\ None \notin Fiber
  BY SchedAssumption DEF SchedTypeOK, None, Fiber, SwitchToSchedFiber
<1>1. evs[curr] = NoEvents
  BY <1>0 DEF Placement, Parked
<1>2. \A f \in Fiber : evs'[f] = IF f = curr THEN e ELSE evs[f]
  BY <1>0 DEF SwitchToSchedFiber, SchedTypeOK
<1>3. evs' \in [Fiber -> Events]
  BY <1>0 DEF SwitchToSchedFiber, SchedTypeOK
<1>4. /\ DOMAIN expireQ' \subseteq Time
      /\ expireQ' \in [DOMAIN expireQ' -> SUBSET Fiber]
      /\ ExpireConsistent(evs', expireQ')
  <2>0. e.expire \in Time \cup {-1}
    BY DEF Events
  <2>1. CASE e.expire >= 0
    <3>1. e.expire \in Time
      BY <2>0, <2>1
    <3>2. DOMAIN expireQ' = DOMAIN expireQ \cup {e.expire}
      BY <2>1 DEF SwitchToSchedFiber
    <3>3. \A t \in DOMAIN expireQ' :
            expireQ'[t] = (IF t \in DOMAIN expireQ THEN expireQ[t] ELSE {})
                          \cup (IF t = e.expire THEN {curr} ELSE {})
      BY <2>1 DEF SwitchToSchedFiber
    <3>4. \A t \in DOMAIN expireQ' : expireQ'[t] \in SUBSET Fiber
      BY <1>0, <3>3 DEF SchedTypeOK
    <3>5. expireQ' = [t \in DOMAIN expireQ' |-> expireQ'[t]]
      BY <2>1 DEF SwitchToSchedFiber
    <3>6. ASSUME NEW t \in DOMAIN expireQ'
          PROVE  expireQ'[t] = {f \in Fiber : evs'[f].expire = t}
      <4> SUFFICES ASSUME NEW f \in Fiber
                   PROVE  f \in expireQ'[t] <=> evs'[f].expire = t
        BY <3>4
      <4>1. t \in Time
        BY <3>1, <3>2 DEF SchedTypeOK
      <4>2. CASE f = curr
        <5>1. t \in DOMAIN expireQ => curr \notin expireQ[t]
          BY <1>0, <1>1, <4>1 DEF QueuesConsistent, ExpireConsistent, NoEvents, Time
        <5> QED BY <5>1, <4>2, <3>3, <1>2
      <4>3. CASE f /= curr
        BY <4>1, <4>3, <3>2, <3>3, <1>2 DEF QueuesConsistent, ExpireConsistent, Time
      <4> QED BY <4>2, <4>3
    <3>7. \A f \in Fiber : evs'[f].expire >= 0 => evs'[f].expire \in DOMAIN expireQ'
      BY <1>2, <3>2 DEF QueuesConsistent, ExpireConsistent
    <3> QED BY <3>1, <3>2, <3>4, <3>5, <3>6, <3>7 DEF ExpireConsistent, SchedTypeOK
  <2>2. CASE e.expire = -1
    <3>1. expireQ' = expireQ
      BY <2>2 DEF SwitchToSchedFiber
    <3>2. \A f \in Fiber : evs'[f].expire = evs[f].expire
      BY <1>1, <1>2, <2>2 DEF NoEvents
    <3> QED BY <3>1, <3>2 DEF QueuesConsistent, ExpireConsistent, SchedTypeOK
  <2> QED BY <2>0, <2>1, <2>2 DEF Time
<1>5. /\ DOMAIN ioQ' = DOMAIN ioQ
      /\ ioQ' \in [DOMAIN ioQ' -> FdWaitingFibers]
      /\ IoConsistent(evs', ioQ')
  <2>1. DOMAIN ioQ' = DOMAIN ioQ /\ ioQ' = [d \in DOMAIN ioQ' |-> ioQ'[d]]
    BY DEF SwitchToSchedFiber
  <2>2. ASSUME NEW d \in DOMAIN ioQ
        PROVE  /\ ioQ'[d].r = ioQ[d].r \cup (IF d \in e.r THEN {curr} ELSE {})
               /\ ioQ'[d].w = ioQ[d].w \cup (IF d \in e.w THEN {curr} ELSE {})
               /\ ioQ'[d] \in FdWaitingFibers
    <3>1. ioQ[d] \in FdWaitingFibers
      BY DEF SchedTypeOK
    <3>2. ioQ'[d] = [r |-> ioQ[d].r \cup (IF d \in e.r THEN {curr} ELSE {}),
                     w |-> ioQ[d].w \cup (IF d \in e.w THEN {curr} ELSE {})]
      BY DEF SwitchToSchedFiber
    <3> QED BY <3>1, <3>2, <1>0 DEF FdWaitingFibers
  <2>3. ASSUME NEW d \in DOMAIN ioQ, NEW f \in Fiber
        PROVE  /\ f \in ioQ'[d].r <=> d \in evs'[f].r
               /\ f \in ioQ'[d].w <=> d \in evs'[f].w
    <3>1. CASE f = curr
      <4>1. curr \notin ioQ[d].r /\ curr \notin ioQ[d].w
        BY <1>1 DEF QueuesConsistent, IoConsistent, NoEvents
      <4> QED BY <3>1, <4>1, <2>2, <1>2
    <3>2. CASE f /= curr
      BY <3>2, <2>2, <1>2 DEF QueuesConsistent, IoConsistent
    <3> QED BY <3>1, <3>2
  <2>4. \A d \in DOMAIN ioQ : ioQ'[d].r \subseteq Fiber /\ ioQ'[d].w \subseteq Fiber
    BY <2>2 DEF FdWaitingFibers
  <2>5. \A f \in Fiber : evs'[f].r \cup evs'[f].w \subseteq DOMAIN ioQ
    BY <1>2 DEF QueuesConsistent, IoConsistent
  <2>6. \A d \in DOMAIN ioQ : /\ ioQ'[d].r = {f \in Fiber : d \in evs'[f].r}
                              /\ ioQ'[d].w = {f \in Fiber : d \in evs'[f].w}
    BY <2>3, <2>4
  <2> QED BY <2>1, <2>2, <2>5, <2>6 DEF IoConsistent
<1>6. /\ DOMAIN sems' = DOMAIN sems
      /\ sems' \in [DOMAIN sems' -> SemInfo]
      /\ SemConsistent(evs', sems')
      /\ \A s \in DOMAIN sems : /\ sems'[s].value = sems[s].value
                                /\ sems'[s].acquirer = sems[s].acquirer
                                /\ sems'[s].acqValue = sems[s].acqValue
  <2>1. DOMAIN sems' = DOMAIN sems /\ sems' = [s \in DOMAIN sems' |-> sems'[s]]
    BY DEF SwitchToSchedFiber
  <2>2. ASSUME NEW s \in DOMAIN sems
        PROVE  /\ sems'[s].waiters = sems[s].waiters \cup (IF s \in e.sems THEN {curr} ELSE {})
               /\ sems'[s] \in SemInfo
               /\ sems'[s].value = sems[s].value
               /\ sems'[s].acquirer = sems[s].acquirer
               /\ sems'[s].acqValue = sems[s].acqValue
    <3>1. sems[s] \in SemInfo
      BY DEF SchedTypeOK
    <3>2. sems'[s] = [sems[s] EXCEPT !.waiters =
                        sems[s].waiters \cup (IF s \in e.sems THEN {curr} ELSE {})]
      BY DEF SwitchToSchedFiber
    <3> QED BY <3>1, <3>2, <1>0 DEF SemInfo
  <2>3. ASSUME NEW s \in DOMAIN sems, NEW f \in Fiber
        PROVE  f \in sems'[s].waiters <=> s \in evs'[f].sems
    <3>1. CASE f = curr
      <4>1. curr \notin sems[s].waiters
        BY <1>1 DEF QueuesConsistent, SemConsistent, NoEvents
      <4> QED BY <3>1, <4>1, <2>2, <1>2
    <3>2. CASE f /= curr
      BY <3>2, <2>2, <1>2 DEF QueuesConsistent, SemConsistent
    <3> QED BY <3>1, <3>2
  <2>4. \A s \in DOMAIN sems : sems'[s].waiters \subseteq Fiber
    BY <2>2 DEF SemInfo
  <2>5. \A f \in Fiber : evs'[f].sems \subseteq DOMAIN sems
    BY <1>2 DEF QueuesConsistent, SemConsistent
  <2>6. \A s \in DOMAIN sems : sems'[s].waiters = {f \in Fiber : s \in evs'[f].sems}
    BY <2>3, <2>4
  <2> QED BY <2>1, <2>2, <2>5, <2>6 DEF SemConsistent
<1>7. SchedTypeOK'
  BY <1>0, <1>3, <1>4, <1>5, <1>6 DEF SchedTypeOK, SwitchToSchedFiber, ids, loop, kernel
<1>8. Placement'
  <2>1. \A f \in Fiber : Parked(f)' <=> IF f = curr THEN e /= NoEvents ELSE Parked(f)
    BY <1>2 DEF Parked
  <2> QED BY <1>0, <2>1 DEF Placement, SwitchToSchedFiber, SchedTypeOK, ids, loop
<1>9. SemBounded' /\ Numbering'
  BY <1>6 DEF SemBounded, Numbering, SwitchToSchedFiber, ids
<1> QED BY <1>4, <1>5, <1>6, <1>7, <1>8, <1>9 DEF QueuesConsistent

LEMMA LeaveInv == SchedInv /\ Leave => SchedInv'
<1> SUFFICES ASSUME SchedInv, Leave PROVE SchedInv'
  OBVIOUS
<1>0. NoEvents \in Events /\ Expiries \subseteq -1..MaxTime
  BY SchedAssumption DEF NoEvents, Events, Expiries, Time
<1>1. CASE Yield
  BY <1>0, <1>1, SwitchInv, SchedAssumption DEF Yield, NoEvents
<1>2. CASE SleepMS
  <2>1. PICK t \in Expiries \ {-1} : SwitchToSchedFiber(Await(t, {}, {}, {}))
    BY <1>2 DEF SleepMS
  <2>2. Await(t, {}, {}, {}) \in Events
    BY DEF Events, Expiries, Await
  <2> QED BY <1>0, <2>1, <2>2, SwitchInv DEF Await
<1>3. CASE WaitFd
  <2>1. PICK t \in Time \cup {-1}, d \in DOMAIN ioQ :
          \/ SwitchToSchedFiber(Await(t, {d}, {}, {}))
          \/ SwitchToSchedFiber(Await(t, {}, {d}, {}))
    BY <1>3 DEF WaitFd, WaitReading, WaitWriting
  <2>2. Await(t, {d}, {}, {}) \in Events /\ Await(t, {}, {d}, {}) \in Events
    BY DEF Events, Expiries, SchedInv, SchedTypeOK, Await
  <2>3. t \in -1..MaxTime
    BY <2>1, SchedAssumption DEF Time
  <2> QED BY <2>1, <2>2, <2>3, SwitchInv DEF Await
<1>4. CASE Finish
  BY <1>4, FinishInv
<1> QED BY <1>1, <1>2, <1>3, <1>4 DEF Leave

LEMMA WaitSemInv ==
  ASSUME SchedInv, NEW t \in Expiries, NEW s \in SemId, WaitSem(t, s)
  PROVE  SchedInv'
<1>1. Await(t, {}, {}, {s}) \in Events /\ Expiries \subseteq -1..MaxTime
  BY SchedAssumption DEF Events, Expiries, Time, Await
<1> QED BY <1>1, SwitchInv DEF WaitSem, Await

LEMMA CheckExpiringInv == SchedInv /\ CheckExpiring => SchedInv'
<1> SUFFICES ASSUME SchedInv, CheckExpiring PROVE SchedInv'
  OBVIOUS
<1> DEFINE F     == UNION {expireQ[t] : t \in Due}
           later == [t \in DOMAIN expireQ \ Due |-> expireQ[t]]
<1>1. /\ ready' = ready \cup F /\ evs' = EvsAfterWake(F)
      /\ expireQ' = ExpireAfterWake(later, F)
      /\ ioQ' = IoAfterWake(ioQ, F) /\ sems' = SemsAfterWake(sems, F)
      /\ UNCHANGED <<ids, curr, batch, now, waitUntil, kernel>>
      /\ phase' = "poll" /\ batch = {} /\ curr = None
  BY DEF CheckExpiring
<1>2. F \in SUBSET Fiber /\ \A f \in F : Parked(f)
  BY QueuedAreParked DEF Due
<1>3. ASSUME NEW f \in Fiber \ F, evs[f].expire >= 0 PROVE evs[f].expire \in DOMAIN later
  BY <1>3 DEF SchedInv, QueuesConsistent, ExpireConsistent, Due
<1>4. SemBounded'
  BY <1>1, <1>2, OtherQueues DEF SchedInv, SemBounded
<1> HIDE DEF F
<1>5. DOMAIN later \subseteq DOMAIN expireQ /\ \A t \in DOMAIN later : later[t] = expireQ[t]
  OBVIOUS
<1> HIDE DEF later
<1>6. waitUntil' \in Int /\ interest' \subseteq Fd /\ pending' \subseteq interest'
      /\ DOMAIN ioQ \subseteq Fd
  BY <1>1 DEF SchedInv, SchedTypeOK, kernel
<1> QED BY <1>1, <1>2, <1>3, <1>4, <1>5, <1>6, OtherQueues, WakeStep DEF Phases

LEMMA WaitReturnsInv ==
  ASSUME SchedInv, NEW in \in SUBSET Fd, NEW out \in SUBSET Fd, WaitReturns(in, out)
  PROVE  SchedInv'
<1> DEFINE F == IoWoken(in, out)
           cleared == [d \in DOMAIN ioQ |->
                         [r |-> IF d \in in THEN {} ELSE ioQ[d].r,
                          w |-> IF d \in out THEN {} ELSE ioQ[d].w]]
<1>1. /\ ready' = ready \cup F /\ evs' = EvsAfterWake(F)
      /\ expireQ' = ExpireAfterWake(expireQ, F)
      /\ ioQ' = IoAfterWake(cleared, F) /\ sems' = SemsAfterWake(sems, F)
      /\ UNCHANGED <<ids, curr, batch, now, interest>>
      /\ phase' = "loop" /\ phase = "wait" /\ waitUntil' = 0 /\ pending' \subseteq pending
  BY DEF WaitReturns
<1>0. \A f : f \in F <=> \/ \E d \in in \cap DOMAIN ioQ : f \in ioQ[d].r
                         \/ \E d \in out \cap DOMAIN ioQ : f \in ioQ[d].w
  <2> DEFINE R == UNION {ioQ[d].r : d \in in \cap DOMAIN ioQ}
             W == UNION {ioQ[d].w : d \in out \cap DOMAIN ioQ}
  <2>1. \A f : f \in R <=> \E d \in in \cap DOMAIN ioQ : f \in ioQ[d].r
    OBVIOUS
  <2>2. \A f : f \in W <=> \E d \in out \cap DOMAIN ioQ : f \in ioQ[d].w
    OBVIOUS
  <2>3. F = R \cup W
    BY DEF IoWoken
  <2> HIDE DEF R, W, F
  <2> QED BY <2>1, <2>2, <2>3
<1> HIDE DEF F
<1>2. F \in SUBSET Fiber /\ \A f \in F : Parked(f)
  BY <1>0, QueuedAreParked
<1>3. ASSUME NEW d \in DOMAIN ioQ
      PROVE  /\ cleared[d] \in FdWaitingFibers
             /\ cleared[d].r \subseteq ioQ[d].r /\ ioQ[d].r \subseteq cleared[d].r \cup F
             /\ cleared[d].w \subseteq ioQ[d].w /\ ioQ[d].w \subseteq cleared[d].w \cup F
  <2>1. ioQ[d] \in FdWaitingFibers
    BY DEF SchedInv, SchedTypeOK
  <2>2. /\ cleared[d].r = IF d \in in THEN {} ELSE ioQ[d].r
        /\ cleared[d].w = IF d \in out THEN {} ELSE ioQ[d].w
    OBVIOUS
  <2>3. cleared[d] \in FdWaitingFibers
    BY <2>1 DEF FdWaitingFibers
  <2>4. (d \in in => ioQ[d].r \subseteq F) /\ (d \in out => ioQ[d].w \subseteq F)
    BY <1>0
  <2> HIDE DEF cleared
  <2> QED BY <2>2, <2>3, <2>4
<1>4. cleared \in [DOMAIN ioQ -> FdWaitingFibers]
  BY <1>3
<1>5. SemBounded'
  BY <1>1, <1>2, OtherQueues DEF SchedInv, SemBounded
<1> HIDE DEF cleared
<1>6. /\ IoAfterWake(cleared, F) \in [DOMAIN ioQ -> FdWaitingFibers]
      /\ IoConsistent(EvsAfterWake(F), IoAfterWake(cleared, F))
  BY <1>2, <1>3, <1>4, IoWake DEF SchedInv, QueuesConsistent
<1>7. /\ waitUntil' \in Int /\ interest' \subseteq Fd /\ pending' \subseteq interest'
      /\ DOMAIN ioQ \subseteq Fd
      /\ \A f \in Fiber : evs[f].expire >= 0 => evs[f].expire \in DOMAIN expireQ
  BY <1>1 DEF SchedInv, SchedTypeOK, QueuesConsistent, ExpireConsistent
<1> QED BY <1>1, <1>2, <1>5, <1>6, <1>7, OtherQueues, WakeStep DEF Phases

LEMMA RegRawFdInv ==
  ASSUME SchedInv, NEW d \in Fd, RegRawFd(d)
  PROVE  SchedInv'
<1> USE DEF RegRawFd, SchedInv, ids, loop
<1>1. /\ DOMAIN ioQ' = DOMAIN ioQ \cup {d}
      /\ ioQ' \in [DOMAIN ioQ' -> FdWaitingFibers]
      /\ ioQ'[d] = [r |-> {}, w |-> {}]
      /\ \A x \in DOMAIN ioQ : ioQ'[x] = ioQ[x]
  <2>1. [r |-> {}, w |-> {}] \in FdWaitingFibers
    BY DEF FdWaitingFibers
  <2> QED BY <2>1 DEF SchedTypeOK
<1>2. IoConsistent(evs, ioQ)'
  BY <1>1 DEF QueuesConsistent, IoConsistent
<1>3. SchedTypeOK'
  BY <1>1 DEF SchedTypeOK
<1>4. Placement' /\ SemBounded' /\ Numbering'
  BY DEF Placement, Parked, SemBounded, Numbering
<1> QED BY <1>2, <1>3, <1>4 DEF QueuesConsistent

LEMMA UnregRawFdInv ==
  ASSUME SchedInv, NEW d \in Fd, UnregRawFd(d)
  PROVE  SchedInv'
<1> DEFINE F == ioQ[d].r \cup ioQ[d].w
           cleared == [ioQ EXCEPT ![d] = [r |-> {}, w |-> {}]]
           woken == IoAfterWake(cleared, F)
<1>1. /\ d \in DOMAIN ioQ
      /\ ready' = ready \cup F /\ evs' = EvsAfterWake(F)
      /\ expireQ' = ExpireAfterWake(expireQ, F)
      /\ ioQ' = Without(woken, d) /\ sems' = SemsAfterWake(sems, F)
      /\ UNCHANGED <<ids, curr, loop, now>>
  BY DEF UnregRawFd
<1>2. F \in SUBSET Fiber /\ \A f \in F : Parked(f)
  BY <1>1, QueuedAreParked
<1>3. /\ cleared \in [DOMAIN ioQ -> FdWaitingFibers]
      /\ \A x \in DOMAIN ioQ :
           /\ cleared[x].r \subseteq ioQ[x].r /\ ioQ[x].r \subseteq cleared[x].r \cup F
           /\ cleared[x].w \subseteq ioQ[x].w /\ ioQ[x].w \subseteq cleared[x].w \cup F
  <2>1. [r |-> {}, w |-> {}] \in FdWaitingFibers /\ ioQ \in [DOMAIN ioQ -> FdWaitingFibers]
    BY DEF FdWaitingFibers, SchedInv, SchedTypeOK
  <2>2. \A x \in DOMAIN ioQ : cleared[x] = IF x = d THEN [r |-> {}, w |-> {}] ELSE ioQ[x]
    OBVIOUS
  <2> QED BY <2>1, <2>2
<1>4. SemBounded'
  BY <1>1, <1>2, OtherQueues DEF SchedInv, SemBounded
<1>5. \A f \in Fiber \ F : d \notin evs[f].r \cup evs[f].w
  BY <1>1 DEF SchedInv, QueuesConsistent, IoConsistent
<1> HIDE DEF F, cleared
<1>6. woken \in [DOMAIN ioQ -> FdWaitingFibers] /\ IoConsistent(EvsAfterWake(F), woken)
  BY <1>2, <1>3, IoWake DEF SchedInv, QueuesConsistent
<1> HIDE DEF woken
<1>7. /\ DOMAIN ioQ' = DOMAIN ioQ \ {d}
      /\ ioQ' \in [DOMAIN ioQ' -> FdWaitingFibers]
      /\ \A x \in DOMAIN ioQ' : ioQ'[x] = woken[x]
  BY <1>1, <1>6 DEF Without
<1>8. \A f \in Fiber : d \notin evs'[f].r \cup evs'[f].w
  BY <1>1, <1>5 DEF EvsAfterWake, NoEvents
<1>9. IoConsistent(evs, ioQ)'
  BY <1>1, <1>6, <1>7, <1>8 DEF IoConsistent
<1>10. /\ waitUntil' \in Int /\ interest' \subseteq Fd /\ pending' \subseteq interest'
       /\ DOMAIN ioQ' \subseteq Fd /\ phase' \in Phases /\ batch' = batch
       /\ phase' = phase
       /\ \A f \in Fiber : evs[f].expire >= 0 => evs[f].expire \in DOMAIN expireQ
  BY <1>1, <1>7 DEF SchedInv, SchedTypeOK, QueuesConsistent, ExpireConsistent, UnregRawFd,
                    loop, kernel
<1> QED BY <1>1, <1>2, <1>4, <1>7, <1>9, <1>10, OtherQueues, WakeStep

LEMMA RegSemInv ==
  ASSUME SchedInv, NEW v \in Value, RegSem(v)
  PROVE  SchedInv'
<1> USE DEF RegSem, SchedInv, loop, kernel
<1>0. nextSem \in SemId /\ nextSem \notin DOMAIN sems /\ nextSem + 1 \in 1..(MaxSem + 1)
  BY SchedAssumption DEF SchedTypeOK, SemId, Numbering
<1> DEFINE new == [value |-> v, acquirer |-> NoSeq, acqValue |-> 0, waiters |-> {}]
<1>1. /\ DOMAIN sems' = DOMAIN sems \cup {nextSem}
      /\ sems' \in [DOMAIN sems' -> SemInfo]
      /\ sems'[nextSem] = new
      /\ \A x \in DOMAIN sems : sems'[x] = sems[x]
  <2>1. new \in SemInfo
    BY SchedAssumption DEF SemInfo, Value
  <2> HIDE DEF new
  <2>2. sems' = [s \in DOMAIN sems \cup {nextSem} |-> IF s = nextSem THEN new ELSE sems[s]]
    BY DEF new
  <2> QED BY <2>1, <2>2, <1>0 DEF SchedTypeOK
<1>2. SemConsistent(evs, sems)'
  <2>1. \A f \in Fiber : nextSem \notin evs[f].sems
    BY <1>0 DEF QueuesConsistent, SemConsistent
  <2> QED BY <1>1, <2>1 DEF QueuesConsistent, SemConsistent
<1>3. SchedTypeOK'
  BY <1>0, <1>1 DEF SchedTypeOK
<1>4. Placement'
  BY DEF Placement, Parked
<1>5. SemBounded'
  BY <1>1, SchedAssumption DEF SemBounded, Value
<1>6. Numbering'
  BY <1>1 DEF Numbering, SchedTypeOK, SemId
<1>7. ExpireConsistent(evs, expireQ)' /\ IoConsistent(evs, ioQ)'
  BY DEF QueuesConsistent, ExpireConsistent, IoConsistent
<1> QED BY <1>2, <1>3, <1>4, <1>5, <1>6, <1>7 DEF QueuesConsistent

LEMMA UnregSemInv ==
  ASSUME SchedInv, NEW s \in SemId, UnregSem(s)
  PROVE  SchedInv'
<1> DEFINE F == sems[s].waiters
           woken == SemsAfterWake(sems, F)
<1>1. /\ s \in DOMAIN sems
      /\ ready' = ready \cup F /\ evs' = EvsAfterWake(F)
      /\ expireQ' = ExpireAfterWake(expireQ, F)
      /\ ioQ' = IoAfterWake(ioQ, F) /\ sems' = Without(woken, s)
      /\ UNCHANGED <<ids, curr, loop, now, kernel>>
  BY DEF UnregSem
<1>2. F \in SUBSET Fiber /\ \A f \in F : Parked(f)
  BY <1>1, QueuedAreParked
<1>3. \A f \in Fiber \ F : s \notin evs[f].sems
  BY <1>1 DEF SchedInv, QueuesConsistent, SemConsistent
<1> HIDE DEF F
<1>4. /\ woken \in [DOMAIN sems -> SemInfo]
      /\ SemConsistent(EvsAfterWake(F), woken)
      /\ \A x \in DOMAIN sems : /\ woken[x].value = sems[x].value
                                /\ woken[x].acquirer = sems[x].acquirer
                                /\ woken[x].acqValue = sems[x].acqValue
  BY <1>2, OtherQueues
<1> HIDE DEF woken
<1>5. /\ DOMAIN sems' = DOMAIN sems \ {s}
      /\ sems' \in [DOMAIN sems' -> SemInfo]
      /\ \A x \in DOMAIN sems' : sems'[x] = woken[x]
  BY <1>1, <1>4 DEF Without
<1>6. \A f \in Fiber : s \notin evs'[f].sems
  BY <1>1, <1>3 DEF EvsAfterWake, NoEvents
<1>7. SemConsistent(evs, sems)'
  BY <1>1, <1>4, <1>5, <1>6 DEF SemConsistent
<1>8. SemBounded'
  BY <1>4, <1>5 DEF SchedInv, SemBounded
<1>9. /\ waitUntil' \in Int /\ interest' \subseteq Fd /\ pending' \subseteq interest'
      /\ DOMAIN ioQ \subseteq Fd /\ phase' \in Phases /\ batch' = batch /\ phase' = phase
      /\ \A f \in Fiber : evs[f].expire >= 0 => evs[f].expire \in DOMAIN expireQ
  BY <1>1 DEF SchedInv, SchedTypeOK, QueuesConsistent, ExpireConsistent, loop, kernel
<1> QED BY <1>1, <1>2, <1>5, <1>7, <1>8, <1>9, OtherQueues, WakeStep

(* RestoreAcquiringSem and ReleaseSem: the new entry e of sem_infos must   *)
(* respect the bound.                                                      *)
LEMMA WakeSemWaitersInv ==
  ASSUME SchedInv, NEW s \in DOMAIN sems, NEW e \in SemInfo,
         e.waiters = sems[s].waiters,
         e.value + e.acqValue <= UInt64Max, e.acquirer = NoSeq => e.acqValue = 0,
         WakeSemWaiters(s, e)
  PROVE  SchedInv'
<1> DEFINE F == sems[s].waiters
           e0 == [e EXCEPT !.waiters = {}]
           q == [sems EXCEPT ![s] = e0]
<1>1. /\ ready' = ready \cup F /\ evs' = EvsAfterWake(F)
      /\ expireQ' = ExpireAfterWake(expireQ, F)
      /\ ioQ' = IoAfterWake(ioQ, F) /\ sems' = SemsAfterWake(q, F)
      /\ UNCHANGED <<ids, curr, loop, now, kernel>>
  BY DEF WakeSemWaiters
<1>2. F \in SUBSET Fiber /\ \A f \in F : Parked(f)
  BY QueuedAreParked
<1>3. /\ e0 \in SemInfo /\ e0.waiters = {} /\ e0.value = e.value
      /\ e0.acquirer = e.acquirer /\ e0.acqValue = e.acqValue
  BY DEF SemInfo
<1>4. sems \in [DOMAIN sems -> SemInfo]
  BY DEF SchedInv, SchedTypeOK
<1> HIDE DEF e0
<1>5. /\ q \in [DOMAIN sems -> SemInfo]
      /\ q[s] = e0 /\ \A x \in DOMAIN sems : x /= s => q[x] = sems[x]
  BY <1>3, <1>4
<1> HIDE DEF q
<1>6. \A x \in DOMAIN sems : /\ q[x].waiters \subseteq sems[x].waiters
                             /\ sems[x].waiters \subseteq q[x].waiters \cup F
  BY <1>3, <1>5
<1> HIDE DEF F
<1>7. /\ SemsAfterWake(q, F) \in [DOMAIN sems -> SemInfo]
      /\ SemConsistent(EvsAfterWake(F), SemsAfterWake(q, F))
      /\ \A x \in DOMAIN sems :
           /\ SemsAfterWake(q, F)[x].value = q[x].value
           /\ SemsAfterWake(q, F)[x].acquirer = q[x].acquirer
           /\ SemsAfterWake(q, F)[x].acqValue = q[x].acqValue
  BY <1>2, <1>5, <1>6, SemWake DEF SchedInv, QueuesConsistent
<1>8. SemBounded'
  <2> SUFFICES ASSUME NEW x \in DOMAIN sems
               PROVE  /\ q[x].value + q[x].acqValue <= UInt64Max
                      /\ q[x].acquirer = NoSeq => q[x].acqValue = 0
    BY <1>1, <1>7 DEF SemBounded
  <2> QED BY <1>3, <1>5 DEF SchedInv, SemBounded
<1>9. /\ waitUntil' \in Int /\ interest' \subseteq Fd /\ pending' \subseteq interest'
      /\ DOMAIN ioQ \subseteq Fd /\ phase' \in Phases /\ batch' = batch /\ phase' = phase
      /\ \A f \in Fiber : evs[f].expire >= 0 => evs[f].expire \in DOMAIN expireQ
  BY <1>1 DEF SchedInv, SchedTypeOK, QueuesConsistent, ExpireConsistent, loop, kernel
<1> QED BY <1>1, <1>2, <1>7, <1>8, <1>9, OtherQueues, WakeStep

(* The entries that ReleaseSem and RestoreAcquiringSem write fit in a      *)
(* uint64_t, thanks to the overflow test and to the assertion.             *)
LEMMA ReleaseEntry ==
  ASSUME SchedInv, NEW s \in SemId, NEW n \in Value, ReleaseSem(s, n),
         NEW e, e = [sems[s] EXCEPT !.value = @ + n]
  PROVE  /\ s \in DOMAIN sems /\ WakeSemWaiters(s, e) /\ e \in SemInfo
         /\ e.waiters = sems[s].waiters
         /\ e.value + e.acqValue <= UInt64Max
         /\ e.acquirer = NoSeq => e.acqValue = 0
<1>1. s \in DOMAIN sems /\ ~ Overflows(s, n) /\ WakeSemWaiters(s, e)
  BY DEF ReleaseSem
<1>2. sems[s] \in SemInfo
  BY <1>1 DEF SchedInv, SchedTypeOK
<1>3. /\ e.value = sems[s].value + n /\ e.acqValue = sems[s].acqValue
      /\ e.acquirer = sems[s].acquirer /\ e.waiters = sems[s].waiters
  BY <1>2 DEF SemInfo
<1>4. sems[s].value + n + sems[s].acqValue <= UInt64Max
  BY <1>1, <1>2, SchedAssumption DEF Overflows, SemInfo, Value
<1>5. e \in SemInfo
  BY <1>2, <1>4, SchedAssumption DEF SemInfo, Value
<1>6. e.value + e.acqValue <= UInt64Max /\ (e.acquirer = NoSeq => e.acqValue = 0)
  BY <1>1, <1>2, <1>3, <1>4, SchedAssumption DEF SchedInv, SemBounded, SemInfo, Value
<1> QED BY <1>1, <1>3, <1>5, <1>6

LEMMA ReleaseInv ==
  ASSUME SchedInv, NEW s \in SemId, NEW n \in Value, ReleaseSem(s, n)
  PROVE  SchedInv'
BY ReleaseEntry, WakeSemWaitersInv

LEMMA RestoreEntry ==
  ASSUME SchedInv, NEW s \in SemId, NEW n \in Value, RestoreAcquiringSem(s, n),
         NEW e, e = [sems[s] EXCEPT !.value = @ + n, !.acquirer = NoSeq, !.acqValue = 0]
  PROVE  /\ s \in DOMAIN sems /\ WakeSemWaiters(s, e) /\ e \in SemInfo
         /\ e.waiters = sems[s].waiters
         /\ e.value + e.acqValue <= UInt64Max
         /\ e.acquirer = NoSeq => e.acqValue = 0
<1>1. /\ s \in DOMAIN sems /\ WakeSemWaiters(s, e)
      /\ UInt64Max - sems[s].value >= n
  BY DEF RestoreAcquiringSem
<1>2. sems[s] \in SemInfo
  BY <1>1 DEF SchedInv, SchedTypeOK
<1>3. /\ e.value = sems[s].value + n /\ e.acqValue = 0
      /\ e.acquirer = NoSeq /\ e.waiters = sems[s].waiters
  BY <1>2 DEF SemInfo
<1>4. sems[s].value + n \in Value
  BY <1>1, <1>2, SchedAssumption DEF SemInfo, Value
<1>5. e \in SemInfo
  <2>1. 0 \in Value
    BY SchedAssumption DEF Value
  <2> QED BY <1>2, <1>4, <2>1 DEF SemInfo
<1>6. e.value + e.acqValue <= UInt64Max /\ (e.acquirer = NoSeq => e.acqValue = 0)
  BY <1>3, <1>4, SchedAssumption DEF Value
<1> QED BY <1>1, <1>3, <1>5, <1>6

LEMMA RestoreInv ==
  ASSUME SchedInv, NEW s \in SemId, NEW n \in Value, RestoreAcquiringSem(s, n)
  PROVE  SchedInv'
BY RestoreEntry, WakeSemWaitersInv

LEMMA TryAcquireInv ==
  ASSUME SchedInv, NEW s \in SemId, NEW n \in Value, TryAcquireSem(s, n)
  PROVE  SchedInv'
<1> USE DEF TryAcquireSem, SchedInv, ids, loop, kernel
<1> DEFINE e == sems[s]
           g == Granted(s, n)
           e2 == AfterTryAcquire(s, n)
<1>0. s \in DOMAIN sems /\ n > 0 /\ e \in SemInfo /\ curr \in Fiber
  BY DEF SchedTypeOK
<1>1. /\ e.value \in Value /\ e.acqValue \in Value /\ e.value + e.acqValue <= UInt64Max
      /\ e.acquirer = NoSeq => e.acqValue = 0
  BY <1>0 DEF SemInfo, SemBounded
<1>2. g \in 0..e.value
  BY <1>1, SchedAssumption DEF Granted, Value
<1>3. CASE e.acquirer \notin {NoSeq, curr}
  <2>1. e2 = e
    BY <1>3 DEF AfterTryAcquire
  <2>2. sems' = sems
    BY <2>1, <1>0 DEF SchedTypeOK
  <2> QED BY <2>2 DEF SchedTypeOK, Placement, Parked, QueuesConsistent, SemBounded, Numbering
<1>4. CASE e.acquirer \in {NoSeq, curr}
  <2>1. /\ e2 \in SemInfo /\ e2.waiters = e.waiters
        /\ e2.value + e2.acqValue <= UInt64Max
        /\ e2.acquirer = NoSeq => e2.acqValue = 0
    <3>1. CASE g = n
      <4>1. e2 = [e EXCEPT !.value = e.value - g, !.acquirer = NoSeq, !.acqValue = 0]
        BY <1>4, <3>1 DEF AfterTryAcquire
      <4>2. e.value - g \in Value /\ 0 \in Value
        BY <1>1, <1>2, SchedAssumption DEF Value
      <4> HIDE DEF g, e2, e
      <4>3. /\ e2 \in SemInfo /\ e2.waiters = e.waiters
            /\ e2.value = e.value - g /\ e2.acqValue = 0
        BY <4>1, <4>2, <1>0 DEF SemInfo
      <4> QED BY <4>2, <4>3, SchedAssumption DEF Value
    <3>2. CASE g /= n
      <4>1. e2 = [e EXCEPT !.value = 0, !.acquirer = curr, !.acqValue = e.acqValue + g]
        BY <1>4, <3>2 DEF AfterTryAcquire
      <4>2. e.acqValue + g \in Value /\ 0 \in Value
        BY <1>1, <1>2, SchedAssumption DEF Value
      <4>3. curr /= NoSeq
        BY <1>0 DEF NoSeq, Fiber
      <4> HIDE DEF g, e2, e
      <4>4. /\ e2 \in SemInfo /\ e2.waiters = e.waiters
            /\ e2.value = 0 /\ e2.acqValue = e.acqValue + g /\ e2.acquirer = curr
        BY <4>1, <4>2, <1>0 DEF SemInfo
      <4> QED BY <4>2, <4>3, <4>4, SchedAssumption DEF Value
    <3> QED BY <3>1, <3>2
  <2>2. sems' = [sems EXCEPT ![s] = e2] /\ sems \in [DOMAIN sems -> SemInfo]
    BY DEF SchedTypeOK
  <2> HIDE DEF g, e2
  <2>3. /\ DOMAIN sems' = DOMAIN sems /\ sems' \in [DOMAIN sems -> SemInfo]
        /\ sems'[s] = e2 /\ \A x \in DOMAIN sems : x /= s => sems'[x] = sems[x]
    BY <1>0, <2>1, <2>2
  <2>4. SchedTypeOK'
    BY <2>3 DEF SchedTypeOK
  <2>5. SemConsistent(evs, sems)' /\ SemBounded' /\ Numbering'
    BY <1>0, <2>1, <2>3 DEF QueuesConsistent, SemConsistent, SemBounded, Numbering
  <2>6. Placement' /\ ExpireConsistent(evs, expireQ)' /\ IoConsistent(evs, ioQ)'
    BY DEF Placement, Parked, QueuesConsistent, ExpireConsistent, IoConsistent
  <2> QED BY <2>4, <2>5, <2>6 DEF QueuesConsistent
<1> QED BY <1>3, <1>4

-----------------------------------------------------------------------------
(* The theorems. *)

LEMMA NextInv == SchedInv /\ [SchedNext]_schedVars => SchedInv'
<1> SUFFICES ASSUME SchedInv, [SchedNext]_schedVars PROVE SchedInv'
  OBVIOUS
<1>1. CASE Create
  BY <1>1, CreateInv
<1>2. CASE Leave
  BY <1>2, LeaveInv
<1>3. CASE FdCall
  BY <1>3, RegRawFdInv, UnregRawFdInv DEF FdCall
<1>4. CASE SemCall
  BY <1>4, RegSemInv, UnregSemInv, ReleaseInv DEF SemCall
<1>5. CASE AcquireCall
  BY <1>5, TryAcquireInv, RestoreInv, WaitSemInv DEF AcquireCall
<1>6. CASE LoopStep
  BY <1>6, TakeReadyInv, ResumeInv, CheckExpiringInv, QuietInv, WaitReturnsInv DEF LoopStep
<1>7. CASE Run \/ WaitInterrupted \/ WaitFailed
  BY <1>7, QuietInv
<1>8. CASE Environment
  BY <1>8, QuietInv DEF Environment
<1>9. CASE UNCHANGED schedVars
  BY <1>9 DEF schedVars, SchedInv, SchedTypeOK, Placement, Parked, QueuesConsistent,
              ExpireConsistent, IoConsistent, SemConsistent, SemBounded, Numbering
<1> QED BY <1>1, <1>2, <1>3, <1>4, <1>5, <1>6, <1>7, <1>8, <1>9 DEF SchedNext

(* The inductive invariant of the scheduler. *)
THEOREM SchedInvariant == SchedSpec => []SchedInv
<1>1. SchedInit => SchedInv
  BY InitInv
<1>2. SchedInv /\ [SchedNext]_schedVars => SchedInv'
  BY NextInv
<1> QED BY <1>1, <1>2, PTL DEF SchedSpec

(* Type correctness. *)
THEOREM SchedTypeCorrect == SchedSpec => []SchedTypeOK
BY SchedInvariant, PTL DEF SchedInv

(* No fiber is ever lost, run twice, or run while parked or destroyed.     *)
THEOREM PlacementHolds == SchedSpec => []Placement
BY SchedInvariant, PTL DEF SchedInv

(* The waiting queues and the fibers' waiting events always agree.         *)
THEOREM QueuesConsistentHolds == SchedSpec => []QueuesConsistent
BY SchedInvariant, PTL DEF SchedInv

(* The value of a semaphore never overflows, counting what its acquirer    *)
(* holds.                                                                  *)
THEOREM SemBoundedHolds == SchedSpec => []SemBounded
BY SchedInvariant, PTL DEF SchedInv

\* The value of a semaphore whose waiters wake up is that of its entry.
LEMMA WakeWritesValue ==
  ASSUME SchedInv, NEW s \in DOMAIN sems, NEW e \in SemInfo, WakeSemWaiters(s, e)
  PROVE  sems'[s].value = e.value
<1> DEFINE F  == sems[s].waiters
           e0 == [e EXCEPT !.waiters = {}]
<1>1. e0 \in SemInfo /\ e0.value = e.value
  BY DEF SemInfo
<1>2. sems'[s] = [e0 EXCEPT !.waiters = @ \ WaitingOn(F, s)]
  BY DEF WakeSemWaiters, SemsAfterWake
<1> HIDE DEF e0
<1> QED BY <1>1, <1>2 DEF SemInfo

(* A release signals the semaphore.                                        *)
LEMMA ReleaseSignals ==
  ASSUME SchedInv, NEW s \in SemId, NEW n \in Value, ReleaseSem(s, n)
  PROVE  Signalled(s)
<1> DEFINE e == [sems[s] EXCEPT !.value = @ + n]
<1>1. s \in DOMAIN sems /\ WakeSemWaiters(s, e) /\ e \in SemInfo
  BY ReleaseEntry
<1>2. sems[s] \in SemInfo
  BY <1>1 DEF SchedInv, SchedTypeOK
<1>3. e.value = sems[s].value + n
  BY <1>2 DEF SemInfo
<1> HIDE DEF e
<1>4. sems'[s].value = sems[s].value + n
  BY <1>1, <1>3, WakeWritesValue
<1>5. sems[s].value \in Int /\ n \in Nat
  BY <1>2, SchedAssumption DEF SemInfo, Value
<1>6. CASE n = 0
  BY <1>6 DEF Signalled
<1>7. CASE n > 0
  BY <1>4, <1>5, <1>7 DEF Signalled
<1> QED BY <1>5, <1>6, <1>7

(* So does an acquirer that gives back what it has got.                    *)
LEMMA RestoreSignals ==
  ASSUME SchedInv, NEW s \in SemId, NEW n \in Value \ {0}, RestoreAcquiringSem(s, n)
  PROVE  Signalled(s)
<1> DEFINE e == [sems[s] EXCEPT !.value = @ + n, !.acquirer = NoSeq, !.acqValue = 0]
<1>1. s \in DOMAIN sems /\ WakeSemWaiters(s, e) /\ e \in SemInfo
  BY RestoreEntry
<1>2. sems[s] \in SemInfo
  BY <1>1 DEF SchedInv, SchedTypeOK
<1>3. e.value = sems[s].value + n
  BY <1>2 DEF SemInfo
<1> HIDE DEF e
<1>4. sems'[s].value = sems[s].value + n
  BY <1>1, <1>3, WakeWritesValue
<1>5. sems[s].value \in Int /\ n \in Nat /\ n > 0
  BY <1>2, SchedAssumption DEF SemInfo, Value
<1> QED BY <1>4, <1>5 DEF Signalled

(* A step wakes a fiber only for something that it waits for: a time that  *)
(* is over, an event of its fd, or value for its semaphore.                *)
THEOREM WakeUpsJustified == SchedSpec => NoSpuriousWakeUp
<1> DEFINE Good == \A f \in Fiber : Parked(f) /\ ~ Parked(f)' => WokenFor(f)
<1>1. SchedInv /\ [SchedNext]_schedVars => [Good]_schedVars
  <2> SUFFICES ASSUME SchedInv, SchedNext, NEW f \in Fiber, Parked(f), ~ Parked(f)'
               PROVE  WokenFor(f)
    BY DEF Good
  <2>0. evs'[f] /= evs[f]
    BY DEF Parked
  <2>1. \A F \in SUBSET Fiber : evs' = EvsAfterWake(F) => f \in F
    BY <2>0 DEF EvsAfterWake
  <2>2. f /= curr
    BY DEF SchedInv, Placement
  <2>3. ASSUME NEW e, SwitchToSchedFiber(e) PROVE FALSE
    BY <2>0, <2>2, <2>3 DEF SwitchToSchedFiber, SchedInv, SchedTypeOK
  <2>4. CASE Leave
    <3>1. ~ Finish
      BY <2>0, <2>2 DEF Finish, SchedInv, SchedTypeOK
    <3> QED BY <2>3, <2>4, <3>1 DEF Leave, Yield, SleepMS, WaitFd, WaitReading, WaitWriting
  <2>5. ASSUME NEW s \in DOMAIN sems, NEW e \in SemInfo, WakeSemWaiters(s, e)
        PROVE  s \in evs[f].sems
    <3>1. f \in sems[s].waiters
      BY <2>1, <2>5, QueuedAreParked DEF WakeSemWaiters
    <3> QED BY <3>1 DEF SchedInv, QueuesConsistent, SemConsistent
  <2>6. CASE FdCall
    <3>1. PICK d \in Fd : UnregRawFd(d)
      BY <2>0, <2>6 DEF FdCall, RegRawFd
    <3>2. f \in ioQ[d].r \cup ioQ[d].w /\ d \in DOMAIN ioQ
      BY <2>1, <3>1, QueuedAreParked DEF UnregRawFd
    <3>3. d \in evs[f].r \cup evs[f].w
      BY <3>2 DEF SchedInv, QueuesConsistent, IoConsistent
    <3>4. d \notin DOMAIN ioQ'
      BY <3>1 DEF UnregRawFd, Without
    <3> QED BY <3>3, <3>4 DEF WokenFor
  <2>7. CASE SemCall
    <3>1. CASE \E s \in SemId : UnregSem(s)
      <4>1. PICK s \in SemId : UnregSem(s)
        BY <3>1
      <4>2. s \in DOMAIN sems /\ f \in sems[s].waiters
        BY <2>1, <4>1, QueuedAreParked DEF UnregSem
      <4>3. s \in evs[f].sems
        BY <4>2 DEF SchedInv, QueuesConsistent, SemConsistent
      <4>4. s \notin DOMAIN sems'
        BY <4>1 DEF UnregSem, Without
      <4> QED BY <4>3, <4>4 DEF WokenFor
    <3>2. CASE \E s \in SemId, n \in Value : ReleaseSem(s, n)
      BY <3>2, <2>5, ReleaseEntry, ReleaseSignals DEF WokenFor
    <3>3. CASE \E v \in Value : RegSem(v)
      BY <3>3, <2>0 DEF RegSem
    <3> QED BY <2>7, <3>1, <3>2, <3>3 DEF SemCall
  <2>8. CASE AcquireCall
    <3>1. \A s \in SemId, n \in Value : ~ TryAcquireSem(s, n)
      BY <2>0 DEF TryAcquireSem
    <3>2. CASE \E s \in SemId, n \in Value \ {0} : RestoreAcquiringSem(s, n)
      BY <3>2, <2>5, RestoreEntry, RestoreSignals DEF WokenFor
    <3> QED BY <2>8, <2>3, <3>1, <3>2 DEF AcquireCall, WaitSem
  <2>9. CASE CheckExpiring
    <3>1. PICK t \in Due : f \in expireQ[t]
      <4> DEFINE F == UNION {expireQ[t] : t \in Due}
      <4>1. F \in SUBSET Fiber
        BY QueuedAreParked DEF Due
      <4>2. evs' = EvsAfterWake(F)
        BY <2>9 DEF CheckExpiring
      <4>3. f \in F
        BY <2>1, <4>1, <4>2
      <4> QED BY <4>3
    <3>2. t \in DOMAIN expireQ /\ t <= now
      BY DEF Due
    <3>3. evs[f].expire = t /\ t \in Time
      BY <3>1, <3>2 DEF SchedInv, SchedTypeOK, QueuesConsistent, ExpireConsistent
    <3>4. evs[f].expire \in 0..now
      BY <3>2, <3>3 DEF SchedInv, SchedTypeOK, Time
    <3> QED BY <3>4 DEF WokenFor
  <2>10. CASE \E in, out \in SUBSET Fd : WaitReturns(in, out)
    <3>1. PICK in \in SUBSET Fd, out \in SUBSET Fd : WaitReturns(in, out)
      BY <2>10
    <3>2. /\ evs' = EvsAfterWake(IoWoken(in, out))
          /\ in \cup out \subseteq pending /\ pending' = pending \ (in \cup out)
      BY <3>1 DEF WaitReturns
    <3>3. IoWoken(in, out) \in SUBSET Fiber
      BY QueuedAreParked DEF IoWoken
    <3>4. PICK d \in (in \cup out) \cap DOMAIN ioQ : f \in ioQ[d].r \cup ioQ[d].w
      BY <2>1, <3>2, <3>3 DEF IoWoken
    <3>5. d \in evs[f].r \cup evs[f].w
      BY <3>4 DEF SchedInv, QueuesConsistent, IoConsistent
    <3> QED BY <3>2, <3>4, <3>5 DEF WokenFor
  <2>11. CASE LoopStep
    BY <2>0, <2>9, <2>10, <2>11
       DEF LoopStep, TakeReady, Resume, EnterWait, WaitTimedOut, queues
  <2>12. CASE Create \/ Run \/ WaitInterrupted \/ WaitFailed \/ Environment
    BY <2>0, <2>12 DEF Create, Run, WaitInterrupted, WaitFailed, Environment, Tick, Edge, EdgeOver,
                       KernelClose, queues
  <2> QED BY <2>4, <2>6, <2>7, <2>8, <2>11, <2>12 DEF SchedNext
<1> QED BY <1>1, SchedInvariant, PTL DEF SchedSpec, NoSpuriousWakeUp

-----------------------------------------------------------------------------
(* epoll_wait's timeout, as long as the timers are less than 2^31 ms away. *)

LEMMA ModSmall ==
  ASSUME NEW n \in Nat, NEW k \in Nat, n < k
  PROVE  n % k = n
<1>1. n = k * (n \div k) + (n % k)
  OBVIOUS
<1>2. n \div k = 0
  OBVIOUS
<1> QED BY <1>1, <1>2

(* The conversion to int keeps a number that fits. *)
LEMMA ToIntSmall ==
  ASSUME NEW n \in Nat, n < IntHalf
  PROVE  ToInt(n) = n
<1>1. (n + IntHalf) % (2 * IntHalf) = n + IntHalf
  BY ModSmall, SchedAssumption
<1> QED BY <1>1, SchedAssumption DEF ToInt

LEMMA PollTimeoutBound ==
  ASSUME SchedInv, MaxTime < IntHalf
  PROVE  /\ PollTimeout \in Nat
         /\ ready /= {} => PollTimeout = 0
         /\ \A t \in DOMAIN expireQ : PollTimeout = 0 \/ now + PollTimeout <= t
<1> DEFINE cap == IF ready = {} THEN PollMax ELSE 0
<1>1. cap \in Nat /\ (ready /= {} => cap = 0)
  BY SchedAssumption
<1>2. CASE DOMAIN expireQ = {}
  BY <1>1, <1>2 DEF PollTimeout
<1>3. CASE DOMAIN expireQ /= {}
  <2> DEFINE first == CHOOSE t \in DOMAIN expireQ : \A u \in DOMAIN expireQ : t <= u
  <2>1. \E t \in DOMAIN expireQ : \A u \in DOMAIN expireQ : t <= u
    BY <1>3, FirstExists DEF SchedInv, SchedTypeOK, Time
  <2>2. first \in Time /\ \A u \in DOMAIN expireQ : first <= u
    BY <2>1 DEF SchedInv, SchedTypeOK
  <2>3. PollTimeout = IF first > now THEN Lesser(cap, ToInt(first - now)) ELSE 0
    BY <1>3 DEF PollTimeout
  <2>4. now \in Time /\ DOMAIN expireQ \subseteq Time
    BY DEF SchedInv, SchedTypeOK
  <2> HIDE DEF first, cap
  <2>5. CASE first > now
    <3>1. first - now \in Nat /\ first - now < IntHalf
      BY <2>2, <2>4, <2>5, SchedAssumption DEF Time
    <3>2. PollTimeout = Lesser(cap, first - now)
      BY <2>3, <2>5, <3>1, ToIntSmall
    <3> QED BY <1>1, <2>2, <2>4, <3>1, <3>2 DEF Lesser, Time
  <2>6. CASE ~ (first > now)
    BY <2>3, <2>6
  <2> QED BY <2>5, <2>6
<1> QED BY <1>2, <1>3

(* Run does not sleep past a ready fiber or a timer, if no timer is 2^31   *)
(* ms or more away; run sched_far shows that the condition is needed.      *)
THEOREM NoOversleepHolds ==
  ASSUME MaxTime < IntHalf
  PROVE  SchedSpec => []NoOversleep
<1>1. SchedInit => NoOversleep
  BY DEF SchedInit, NoOversleep
<1>2. SchedInv /\ NoOversleep /\ [SchedNext]_schedVars => NoOversleep'
  <2> SUFFICES ASSUME SchedInv, NoOversleep, [SchedNext]_schedVars, phase' = "wait"
               PROVE  NoOversleep'
    BY DEF NoOversleep
  <2>1. now \in Time /\ now' \in Time /\ DOMAIN expireQ \subseteq Time
    BY NextInv DEF SchedInv, SchedTypeOK
  <2>2. CASE EnterWait
    <3>1. UNCHANGED <<ready, now, expireQ>>
      BY <2>2 DEF EnterWait, queues
    <3>2. waitUntil' = now + PollTimeout
      BY <2>2, PollTimeoutBound DEF EnterWait
    <3> QED BY <2>1, <3>1, <3>2, PollTimeoutBound DEF NoOversleep, Time
  <2>3. CASE phase = "wait"
    <3>1. curr = None /\ batch = {}
      BY <2>3 DEF SchedInv, SchedTypeOK, Placement, None
    <3>2. ~ CanCall
      BY <2>3, <3>1 DEF CanCall
    <3>3. UNCHANGED <<ready, expireQ, waitUntil>> /\ now <= now'
      <4>1. CASE Environment
        BY <2>1, <4>1 DEF Environment, Tick, Edge, EdgeOver, KernelClose, queues, loop, Time
      <4>2. CASE UNCHANGED schedVars
        BY <2>1, <4>2 DEF schedVars, Time
      <4>3. ~ Leave
        BY <3>1 DEF Leave, Yield, SleepMS, WaitFd, WaitReading, WaitWriting, Finish, SwitchToSchedFiber
      <4>4. ~ AcquireCall
        <5>1. ASSUME NEW s \in DOMAIN sems PROVE sems[s].acquirer /= curr
          <6>1. sems[s] \in SemInfo
            BY <5>1 DEF SchedInv, SchedTypeOK
          <6>2. None \notin Fiber \cup {NoSeq}
            BY SchedAssumption DEF None, Fiber, NoSeq
          <6> QED BY <3>1, <6>1, <6>2 DEF SemInfo
        <5>2. ASSUME NEW s \in SemId, NEW n \in Value, RestoreAcquiringSem(s, n) PROVE FALSE
          BY <5>1, <5>2 DEF RestoreAcquiringSem
        <5>3. ASSUME NEW s \in SemId, NEW n \in Value, TryAcquireSem(s, n) PROVE FALSE
          BY <3>1, <5>3 DEF TryAcquireSem
        <5>4. ASSUME NEW s \in SemId, NEW t \in Expiries, WaitSem(t, s) PROVE FALSE
          BY <3>1, <5>4 DEF WaitSem, SwitchToSchedFiber
        <5> QED BY <5>2, <5>3, <5>4 DEF AcquireCall
      <4>5. ~ (Create \/ FdCall \/ SemCall)
        BY <3>2 DEF Create, FdCall, SemCall, RegRawFd, UnregRawFd, RegSem, UnregSem, ReleaseSem
      <4>6. ~ (Run \/ LoopStep \/ WaitInterrupted \/ WaitFailed)
        BY <2>3 DEF Run, LoopStep, TakeReady, Resume, CheckExpiring, EnterWait, WaitTimedOut,
                    WaitReturns, WaitInterrupted, WaitFailed
      <4> QED BY <4>1, <4>2, <4>3, <4>4, <4>5, <4>6 DEF SchedNext
    <3> QED BY <2>1, <2>3, <3>3 DEF NoOversleep, Time
  <2>4. CASE phase /= "wait" /\ ~ EnterWait
    <3>1. phase' = phase \/ Run \/ LoopStep \/ WaitInterrupted \/ WaitFailed
      BY DEF SchedNext, schedVars, loop, Create, Leave, Yield, SleepMS, WaitFd, WaitReading, WaitWriting, Finish,
             SwitchToSchedFiber, FdCall, RegRawFd, UnregRawFd, SemCall, RegSem, UnregSem,
             ReleaseSem, WakeSemWaiters, AcquireCall, TryAcquireSem, RestoreAcquiringSem,
             WaitSem, Environment, Tick, Edge, EdgeOver, KernelClose
    <3> QED BY <2>4, <3>1 DEF Run, LoopStep, TakeReady, Resume, CheckExpiring, WaitTimedOut,
                          WaitReturns, WaitInterrupted, WaitFailed
  <2> QED BY <2>2, <2>3, <2>4
<1> QED BY <1>1, <1>2, SchedInvariant, PTL DEF SchedSpec

=============================================================================
