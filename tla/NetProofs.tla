----------------------------- MODULE NetProofs -----------------------------
(* Proofs about Net: its fds and connections are a program of Sched, a     *)
(* handle that is valid stands for the socket it was made for, no fd leaks *)
(* and no wake-up is lost.                                                 *)
EXTENDS Net, SchedProofs

USE SchedAssumption, NetAssumption

Knows(h) == h \in handles \/ \E f \in Fiber : InIo(f) /\ frame[f].on = h

\* No handle is ahead of its fd, so that an old one does not come back to life.
SeqsBehind == \A h \in Handle : Knows(h) => h.seq <= fdSeq[h.fd]

\* The plain fds of the user's code and the registered ones.
FdsApart ==
  /\ held \cap DOMAIN ioQ = {}
  /\ \A d \in held \cup DOMAIN ioQ : IsOpen(d)
  /\ \A d \in DOMAIN ioQ : fdSeq[d] < MaxSeq

\* A blocking operation holds a copy of a handle of its caller, or the one
\* that its connect is to return; it is valid whenever the operation runs.
FramesHold ==
  \A f \in Fiber : InIo(f) =>
    /\ IF frame[f].op = "connect" THEN Valid(frame[f].on) ELSE frame[f].on \in handles
    /\ frame[f].pc \in {"try", "check"} => f = curr /\ Valid(frame[f].on)

\* Nobody else has a valid handle of the fd of a connect.
ConnectsAlone ==
  \A f \in Fiber : frame[f].op = "connect" =>
    /\ \A h \in handles : h.fd = frame[f].on.fd => ~ Valid(h)
    /\ \A g \in Fiber : g /= f /\ frame[g].op = "connect"
                          => frame[g].on.fd /= frame[f].on.fd

HandleInv ==
  SeqsBehind /\ FdsApart /\ FramesHold /\ ConnectsAlone /\ ValidMeansCurrent /\ NoFdLeak

NetInv == SchedInv /\ NetTypeOK /\ HandleInv

-----------------------------------------------------------------------------
(* Every step is a step of Sched.                                          *)

LEMMA FrameOf ==
  ASSUME NetTypeOK, NEW f \in Fiber
  PROVE  /\ InIo(f) => /\ frame[f] \in Frame /\ frame[f].on \in Handle
                       /\ frame[f].on.fd \in Fd /\ frame[f].op \in Ops
                       /\ frame[f].expire \in Time \cup {-1}
         /\ ~ InIo(f) => frame[f] = NoFrame /\ frame[f].pc = "none"
<1>1. frame[f] \in Frame \cup {NoFrame}
  BY DEF NetTypeOK
<1>2. frame[f] \in Frame => frame[f].op \in Ops /\ frame[f].on \in Handle
                            /\ frame[f].expire \in Time \cup {-1}
  BY DEF Frame
<1>3. NoFrame.op = "none" /\ NoFrame.pc = "none" /\ "none" \notin Ops
  BY DEF NoFrame, Ops
<1>4. \A h \in Handle : h.fd \in Fd
  BY DEF Handle
<1> QED BY <1>1, <1>2, <1>3, <1>4 DEF InIo

LEMMA AtFrame ==
  ASSUME NetTypeOK, NEW ops \in SUBSET Ops, NEW pc, At(ops, pc)
  PROVE  /\ curr \in Fiber /\ InIo(curr) /\ frame[curr].op \in ops /\ frame[curr].pc = pc
         /\ frame[curr] \in Frame /\ frame[curr].on \in Handle /\ frame[curr].on.fd \in Fd
         /\ frame[curr].expire \in Time \cup {-1}
<1>1. curr \in Fiber /\ frame[curr].op \in ops /\ frame[curr].pc = pc
  BY DEF At, NetTypeOK, SchedTypeOK
<1>2. InIo(curr)
  BY <1>1 DEF InIo, Ops
<1> QED BY <1>1, <1>2, FrameOf

LEMMA SignalIsSchedStep ==
  ASSUME NEW d \in Fd, Signal(d)
  PROVE  [SchedNext]_schedVars
BY DEF Signal, SchedNext, Environment

LEMMA UnregIsSchedStep ==
  ASSUME NEW d \in Fd, UnregRawFd(d)
  PROVE  SchedNext
BY DEF SchedNext, FdCall

LEMMA RegIsSchedStep ==
  ASSUME NEW d \in Fd, Reg(d)
  PROVE  SchedNext
BY DEF SchedNext, FdCall, Reg

LEMMA NetStepIsSchedStep == NetTypeOK /\ [NetNext]_netVars => [SchedNext]_schedVars
<1> SUFFICES ASSUME NetTypeOK, [NetNext]_netVars PROVE [SchedNext]_schedVars
  OBVIOUS
<1>1. CASE UserLeave
  BY <1>1 DEF UserLeave, SchedNext, Leave
<1>2. CASE UserCall
  <2>1. CASE Create
    BY <2>1 DEF SchedNext
  <2>2. CASE \E d \in Fd : CloseRaw(d) \/ FromRawFd(d) \/ ListenStream(d)
    <3>1. PICK d \in Fd : CloseRaw(d) \/ FromRawFd(d) \/ ListenStream(d)
      BY <2>2
    <3>2. CASE CloseRaw(d)
      BY <3>2 DEF CloseRaw, SchedNext, Environment
    <3>3. CASE FromRawFd(d) \/ ListenStream(d)
      BY <3>3, RegIsSchedStep DEF FromRawFd, ListenStream
    <3> QED BY <3>1, <3>2, <3>3
  <2>4. CASE \E d \in Fd, k \in {"conn", "listen"} : OpenRaw(d, k)
    BY <2>4 DEF OpenRaw
  <2>3. CASE \E h \in handles : Unreg(h) \/ Close(h)
    <3>1. \A h \in handles : h.fd \in Fd
      BY DEF NetTypeOK, Handle
    <3> QED BY <2>3, <3>1, UnregIsSchedStep DEF Unreg, Close
  <2> QED BY <1>2, <2>1, <2>2, <2>3, <2>4 DEF UserCall
<1>3. CASE UserIo
  <2>1. ASSUME NEW d \in Fd, NEW ms \in TimeoutMs, ConnectStart(d, ms)
        PROVE  [SchedNext]_schedVars
    BY <2>1, RegIsSchedStep DEF ConnectStart, ConnectedAtOnce, ConnectPending, ConnectGivesUp
  <2> QED BY <1>3, <2>1 DEF UserIo, IoStart, ConnectNoSocket
<1>4. CASE IoStep
  <2>1. CASE ReadTry \/ WriteTry \/ TryBlocked \/ TryFails \/ IoTimeout \/ IoResumed
               \/ ConnectSucceeds
    BY <2>1 DEF ReadTry, WriteTry, TryBlocked, TryFails, IoTimeout, IoResumed, ConnectSucceeds
  <2>2. CASE \E c \in Fd : AcceptTry(c)
    BY <2>2, RegIsSchedStep DEF AcceptTry
  <2>3. CASE IoPark
    <3>1. At(Streams \cup {"accept"}, "check") /\ Streams \cup {"accept"} \subseteq Ops
      BY <2>3 DEF IoPark, Streams, Ops
    <3>2. frame[curr].expire \in Time \cup {-1} /\ frame[curr].on.fd \in Fd
      BY <3>1, AtFrame
    <3> QED BY <2>3, <3>2 DEF IoPark, SchedNext, Leave, WaitFd
  <2>4. CASE ConnectPark
    <3>1. At({"connect"}, "check") /\ {"connect"} \subseteq Ops
      BY <2>4 DEF ConnectPark, Ops
    <3>2. frame[curr].expire \in Time \cup {-1} /\ frame[curr].on.fd \in Fd
      BY <3>1, AtFrame
    <3> QED BY <2>4, <3>2 DEF ConnectPark, SchedNext, Leave, WaitFd
  <2>5. CASE ConnectFails
    <3>1. At({"connect"}, "woken") /\ {"connect"} \subseteq Ops
      BY <2>5 DEF ConnectFails, Ops
    <3>2. frame[curr].on.fd \in Fd
      BY <3>1, AtFrame
    <3> QED BY <2>5, <3>2, UnregIsSchedStep DEF ConnectFails, Close
  <2> QED BY <1>4, <2>1, <2>2, <2>3, <2>4, <2>5 DEF IoStep
<1>5. CASE NetLoop
  BY <1>5 DEF NetLoop, Report, DropEdge, SchedNext, LoopStep, Environment
<1>6. CASE NetTick
  BY <1>6 DEF NetTick, SchedNext, Environment
<1>7. CASE Kernel
  <2>1. PICK d \in Fd : Arrive(d) \/ PeerTakes(d) \/ PeerCloses(d) \/ Established(d)
    BY <1>7 DEF Kernel
  <2> QED BY <2>1, SignalIsSchedStep DEF Arrive, PeerTakes, PeerCloses, Established
<1>8. CASE Run \/ WaitInterrupted \/ WaitFailed
  BY <1>8 DEF SchedNext
<1>9. CASE UNCHANGED netVars
  BY <1>9 DEF netVars
<1> QED BY <1>1, <1>2, <1>3, <1>4, <1>5, <1>6, <1>7, <1>8, <1>9 DEF NetNext

-----------------------------------------------------------------------------
(* What the scheduler does to the set of registered fds.                   *)

LEMMA WakeKeepsFds ==
  ASSUME SchedInv, NEW F \in SUBSET Fiber, NEW q, DOMAIN q = DOMAIN ioQ
  PROVE  DOMAIN IoAfterWake(q, F) = DOMAIN ioQ
<1>1. \A f \in F : evs[f].r \cup evs[f].w \subseteq DOMAIN ioQ
  BY DEF SchedInv, QueuesConsistent, IoConsistent
<1>2. UNION {evs[f].r \cup evs[f].w : f \in F} \subseteq DOMAIN ioQ
  BY <1>1
<1> QED BY <1>2 DEF IoAfterWake

LEMMA UnregRemoves ==
  ASSUME SchedInv, NEW d \in Fd, UnregRawFd(d)
  PROVE  /\ d \in DOMAIN ioQ /\ DOMAIN ioQ' = DOMAIN ioQ \ {d}
         /\ UNCHANGED <<curr, now>>
<1> DEFINE F == ioQ[d].r \cup ioQ[d].w
           cleared == [ioQ EXCEPT ![d] = [r |-> {}, w |-> {}]]
<1>1. /\ d \in DOMAIN ioQ /\ ioQ' = Without(IoAfterWake(cleared, F), d)
      /\ UNCHANGED <<curr, now>>
  BY DEF UnregRawFd
<1>2. F \in SUBSET Fiber
  BY <1>1, QueuedAreParked
<1>3. DOMAIN cleared = DOMAIN ioQ
  OBVIOUS
<1> HIDE DEF F, cleared
<1>4. DOMAIN IoAfterWake(cleared, F) = DOMAIN ioQ
  BY <1>2, <1>3, WakeKeepsFds
<1> QED BY <1>1, <1>4 DEF Without

LEMMA SignalKeepsFds ==
  ASSUME NEW d \in Fd, Signal(d)
  PROVE  UNCHANGED <<ioQ, curr, evs, interest, now>>
BY DEF Signal, Edge, schedVars, queues

LEMMA LoopKeepsFds ==
  ASSUME SchedInv, UserLeave \/ NetLoop \/ NetTick \/ Run \/ WaitInterrupted \/ WaitFailed
  PROVE  /\ DOMAIN ioQ' = DOMAIN ioQ
         /\ ~ UserLeave => curr = None \/ curr' = curr
<1>1. CASE UserLeave
  BY <1>1 DEF UserLeave, Yield, SleepMS, SwitchToSchedFiber, Finish
<1>2. CASE NetLoop
  <2>1. CASE TakeReady \/ Resume \/ EnterWait \/ WaitTimedOut
    BY <2>1 DEF TakeReady, Resume, EnterWait, WaitTimedOut, queues
  <2>2. CASE CheckExpiring
    <3> DEFINE F == UNION {expireQ[t] : t \in Due}
    <3>1. F \in SUBSET Fiber
      BY QueuedAreParked DEF Due
    <3>2. ioQ' = IoAfterWake(ioQ, F) /\ curr' = curr
      BY <2>2 DEF CheckExpiring
    <3> HIDE DEF F
    <3> QED BY <3>1, <3>2, WakeKeepsFds
  <2>3. CASE \E in, out \in SUBSET Fd : Report(in, out)
    <3>1. PICK in \in SUBSET Fd, out \in SUBSET Fd : WaitReturns(in, out)
      BY <2>3 DEF Report
    <3> DEFINE F == IoWoken(in, out)
               cleared == [d \in DOMAIN ioQ |->
                             [r |-> IF d \in in THEN {} ELSE ioQ[d].r,
                              w |-> IF d \in out THEN {} ELSE ioQ[d].w]]
    <3>2. F \in SUBSET Fiber
      BY QueuedAreParked DEF IoWoken
    <3>3. ioQ' = IoAfterWake(cleared, F) /\ curr' = curr
      BY <3>1 DEF WaitReturns, ids
    <3>4. DOMAIN cleared = DOMAIN ioQ
      OBVIOUS
    <3> HIDE DEF F, cleared
    <3> QED BY <3>2, <3>3, <3>4, WakeKeepsFds
  <2>4. CASE \E d \in Fd : DropEdge(d)
    BY <2>4 DEF DropEdge, EdgeOver, queues
  <2>5. curr = None \/ curr' = curr
    BY <1>2 DEF NetLoop, TakeReady, Resume, CheckExpiring, EnterWait, WaitTimedOut, Report,
                WaitReturns, DropEdge, EdgeOver, ids
  <2> QED BY <1>2, <2>1, <2>2, <2>3, <2>4, <2>5 DEF NetLoop
<1>3. CASE NetTick \/ Run \/ WaitInterrupted \/ WaitFailed
  BY <1>3 DEF NetTick, Tick, Run, WaitInterrupted, WaitFailed, queues
<1> QED BY <1>1, <1>2, <1>3

-----------------------------------------------------------------------------
(* Sockets.                                                                *)

LEMMA SocketParts ==
  ASSUME NEW s \in Socket
  PROVE  /\ s.kind \in Kinds /\ s.gen \in 0..MaxOpen /\ s.in \in 0..Cap
         /\ s.room \in 0..Cap /\ s.hup \in BOOLEAN
BY DEF Socket

\* One socket written, as a whole.
LEMMA SockSet ==
  ASSUME NetTypeOK, NEW d \in Fd, NEW x \in Socket, sock' = [sock EXCEPT ![d] = x]
  PROVE  /\ sock' \in [Fd -> Socket] /\ sock'[d] = x
         /\ \A e \in Fd \ {d} : sock'[e] = sock[e]
BY DEF NetTypeOK

LEMMA OpenedSock ==
  ASSUME NetTypeOK, NEW d \in Fd, CanOpen(d), NEW k \in Kinds \ {"none"}
  PROVE  /\ Opened(d, k) \in Socket /\ Opened(d, k).kind = k
         /\ Opened(d, k).gen = sock[d].gen + 1
<1>1. sock[d].gen + 1 \in 0..MaxOpen
  BY SocketParts DEF NetTypeOK, CanOpen
<1>2. (IF k = "conn" THEN Cap ELSE 0) \in 0..Cap /\ 0 \in 0..Cap
  OBVIOUS
<1> QED BY <1>1, <1>2 DEF Opened, Socket

LEMMA ShutSock ==
  ASSUME NetTypeOK, NEW d \in Fd
  PROVE  /\ Shut(d) \in Socket /\ Shut(d).kind = "none" /\ Shut(d).gen = sock[d].gen
<1>1. sock[d].gen \in 0..MaxOpen /\ 0 \in 0..Cap
  BY SocketParts DEF NetTypeOK
<1> QED BY <1>1 DEF Shut, Socket, Kinds

\* What reads, writes and the peers do to a socket.
SameSockets ==
  /\ sock' \in [Fd -> Socket]
  /\ \A d \in Fd : IsOpen(d)' <=> IsOpen(d)
  /\ \A d \in Fd : IsOpen(d) => sock'[d].gen = sock[d].gen

LEMMA TrafficKeepsSocket ==
  ASSUME NetTypeOK, NEW d \in Fd, NEW x \in Socket, IsOpen(d), x.kind /= "none",
         x.gen = sock[d].gen, sock' = [sock EXCEPT ![d] = x]
  PROVE  SameSockets
BY SockSet DEF SameSockets, IsOpen

LEMMA SockIn ==
  ASSUME NEW s \in Socket, NEW n \in 0..Cap
  PROVE  LET x == [s EXCEPT !.in = n]
         IN  x \in Socket /\ x.kind = s.kind /\ x.gen = s.gen
BY DEF Socket

LEMMA SockRoom ==
  ASSUME NEW s \in Socket, NEW n \in 0..Cap
  PROVE  LET x == [s EXCEPT !.room = n]
         IN  x \in Socket /\ x.kind = s.kind /\ x.gen = s.gen
BY DEF Socket

LEMMA SockHup ==
  ASSUME NEW s \in Socket
  PROVE  LET x == [s EXCEPT !.hup = TRUE]
         IN  x \in Socket /\ x.kind = s.kind /\ x.gen = s.gen
BY DEF Socket

LEMMA KernelSockets ==
  ASSUME NetTypeOK, NEW d \in Fd, Arrive(d) \/ PeerTakes(d) \/ PeerCloses(d) \/ Established(d)
  PROVE  SameSockets
<1>1. sock[d] \in Socket
  BY DEF NetTypeOK
<1>2. CASE Arrive(d)
  <2>1. IsOpen(d) /\ sock[d].in + 1 \in 0..Cap
    BY <1>1, <1>2, SocketParts DEF Arrive, IsOpen
  <2>2. sock' = [sock EXCEPT ![d] = [sock[d] EXCEPT !.in = sock[d].in + 1]]
    BY <1>2 DEF Arrive
  <2> QED BY <1>1, <2>1, <2>2, SockIn, TrafficKeepsSocket DEF IsOpen
<1>3. CASE PeerTakes(d)
  <2>1. IsOpen(d) /\ sock[d].room + 1 \in 0..Cap
    BY <1>1, <1>3, SocketParts DEF PeerTakes, IsOpen
  <2>2. sock' = [sock EXCEPT ![d] = [sock[d] EXCEPT !.room = sock[d].room + 1]]
    BY <1>3 DEF PeerTakes
  <2> QED BY <1>1, <2>1, <2>2, SockRoom, TrafficKeepsSocket DEF IsOpen
<1>4. CASE PeerCloses(d)
  <2>1. IsOpen(d)
    BY <1>4 DEF PeerCloses, IsOpen
  <2>2. sock' = [sock EXCEPT ![d] = [sock[d] EXCEPT !.hup = TRUE]]
    BY <1>4 DEF PeerCloses
  <2> QED BY <1>1, <2>1, <2>2, SockHup, TrafficKeepsSocket DEF IsOpen
<1>5. CASE Established(d)
  <2>1. IsOpen(d) /\ {"conn", "refused"} \subseteq Kinds /\ Cap \in 0..Cap
    BY <1>5 DEF Established, IsOpen, Kinds
  <2>2. \/ sock' = [sock EXCEPT ![d] = [sock[d] EXCEPT !.kind = "conn", !.room = Cap]]
        \/ sock' = [sock EXCEPT ![d] = [sock[d] EXCEPT !.kind = "refused"]]
    BY <1>5 DEF Established
  <2>3. CASE sock' = [sock EXCEPT ![d] = [sock[d] EXCEPT !.kind = "conn", !.room = Cap]]
    <3> DEFINE x == [sock[d] EXCEPT !.kind = "conn", !.room = Cap]
    <3>1. x \in Socket /\ x.kind = "conn" /\ x.gen = sock[d].gen
      BY <1>1, <2>1 DEF Socket
    <3>2. sock' = [sock EXCEPT ![d] = x]
      BY <2>3
    <3> HIDE DEF x
    <3> QED BY <2>1, <3>1, <3>2, TrafficKeepsSocket
  <2>4. CASE sock' = [sock EXCEPT ![d] = [sock[d] EXCEPT !.kind = "refused"]]
    <3> DEFINE x == [sock[d] EXCEPT !.kind = "refused"]
    <3>1. x \in Socket /\ x.kind = "refused" /\ x.gen = sock[d].gen
      BY <1>1, <2>1 DEF Socket
    <3>2. sock' = [sock EXCEPT ![d] = x]
      BY <2>4
    <3> HIDE DEF x
    <3> QED BY <2>1, <3>1, <3>2, TrafficKeepsSocket
  <2> QED BY <2>2, <2>3, <2>4
<1> QED BY <1>2, <1>3, <1>4, <1>5

LEMMA ReadSockets ==
  ASSUME NetTypeOK, ReadTry, IsOpen(frame[curr].on.fd)
  PROVE  SameSockets
<1> DEFINE d == frame[curr].on.fd
<1>1. d \in Fd
  BY AtFrame DEF ReadTry, Ops
<1>2. sock[d] \in Socket
  BY <1>1 DEF NetTypeOK
<1>3. PICK k \in 0..sock[d].in : sock' = [sock EXCEPT ![d].in = @ - k]
  BY DEF ReadTry
<1> HIDE DEF d
<1>4. sock[d].in - k \in 0..Cap
  BY <1>2, SocketParts
<1>5. sock' = [sock EXCEPT ![d] = [sock[d] EXCEPT !.in = sock[d].in - k]]
  BY <1>3
<1>6. sock[d].kind /= "none"
  BY DEF IsOpen, d
<1> QED BY <1>1, <1>2, <1>4, <1>5, <1>6, SockIn, TrafficKeepsSocket DEF IsOpen

LEMMA WriteSockets ==
  ASSUME NetTypeOK, WriteTry, IsOpen(frame[curr].on.fd)
  PROVE  SameSockets
<1> DEFINE d == frame[curr].on.fd
<1>1. d \in Fd /\ frame[curr] \in Frame
  BY AtFrame DEF WriteTry, Ops
<1>2. sock[d] \in Socket /\ frame[curr].left \in Nat
  BY <1>1 DEF NetTypeOK, Frame
<1>3. PICK k \in 1..frame[curr].left :
        k <= sock[d].room /\ sock' = [sock EXCEPT ![d].room = @ - k]
  BY DEF WriteTry
<1> HIDE DEF d
<1>4. sock[d].room - k \in 0..Cap
  BY <1>2, <1>3, SocketParts
<1>5. sock' = [sock EXCEPT ![d] = [sock[d] EXCEPT !.room = sock[d].room - k]]
  BY <1>3
<1>6. sock[d].kind /= "none"
  BY DEF IsOpen, d
<1> QED BY <1>1, <1>2, <1>4, <1>5, <1>6, SockRoom, TrafficKeepsSocket DEF IsOpen

-----------------------------------------------------------------------------
(* Frames.                                                                 *)

\* What becomes of the frames in a step that keeps fds and handles.
FrameSteps ==
  \A f \in Fiber :
    \/ frame'[f] = frame[f] /\ (frame[f].pc \in {"try", "check"} => curr' = curr)
    \/ f = curr /\ frame[f].op /= "connect" /\ frame'[f] = NoFrame
    \/ /\ f = curr /\ InIo(f) /\ InIo(f)'
       /\ frame'[f].op = frame[f].op /\ frame'[f].on = frame[f].on
       /\ frame'[f].pc \in {"try", "check"} => curr' = curr /\ Valid(frame[f].on)
    \/ /\ f = curr /\ curr' = curr /\ ~ InIo(f) /\ InIo(f)'
       /\ frame'[f].op /= "connect"
       /\ frame'[f].on \in handles /\ Valid(frame'[f].on)

LEMMA KnownIs ==
  /\ \A h : h \in KnownHandles <=> Knows(h)
  /\ \A h : h \in KnownHandles' <=> Knows(h)'
BY DEF KnownHandles, Knows

LEMMA KnownTyped ==
  /\ NetTypeOK => \A h : Knows(h) => h \in Handle
  /\ NetTypeOK' => \A h : Knows(h)' => h \in Handle
<1>1. NetTypeOK => \A h : Knows(h) => h \in Handle
  BY FrameOf DEF Knows, NetTypeOK
<1>2. ASSUME NetTypeOK', NEW f \in Fiber, InIo(f)' PROVE frame'[f].on \in Handle
  BY <1>2 DEF NetTypeOK, InIo, NoFrame, Frame
<1> QED BY <1>1, <1>2 DEF Knows, NetTypeOK

LEMMA NoFrameIdle == NoFrame.op = "none" /\ NoFrame.pc = "none"
BY DEF NoFrame

LEMMA KeepFdsInv ==
  ASSUME NetInv, NetTypeOK', DOMAIN ioQ' = DOMAIN ioQ, UNCHANGED <<held, fdSeq, handles>>,
         SameSockets, FrameSteps
  PROVE  HandleInv'
<1>1. \A h : Valid(h)' <=> Valid(h)
  BY DEF Valid
<1>2. ASSUME NEW f \in Fiber, InIo(f)'
      PROVE  /\ \/ frame'[f].on \in handles /\ frame'[f].op /= "connect"
                \/ /\ InIo(f) /\ frame'[f].on = frame[f].on
                   /\ frame'[f].op = "connect" /\ frame[f].op = "connect"
             /\ frame'[f].pc \in {"try", "check"} => f = curr' /\ Valid(frame'[f].on)
  BY <1>2, NoFrameIdle DEF FrameSteps, NetInv, HandleInv, FramesHold, InIo
<1>3. \A h : Knows(h)' => Knows(h)
  BY <1>2 DEF Knows
<1>4. \A h : Knows(h) => Knows(h)'
  <2> SUFFICES ASSUME NEW f \in Fiber, InIo(f), frame[f].on \notin handles
               PROVE  InIo(f)' /\ frame'[f].on = frame[f].on
    BY DEF Knows
  <2>1. frame[f].op = "connect"
    BY DEF NetInv, HandleInv, FramesHold
  <2> QED BY <2>1 DEF FrameSteps, InIo
<1>5. SeqsBehind'
  BY <1>3 DEF NetInv, HandleInv, SeqsBehind
<1>6. FdsApart'
  BY DEF NetInv, HandleInv, FdsApart, SameSockets, NetTypeOK, SchedInv, SchedTypeOK
<1>7. FramesHold'
  BY <1>1, <1>2 DEF NetInv, HandleInv, FramesHold
<1>8. \A f \in Fiber : frame'[f].op = "connect" => frame[f].op = "connect"
                                                 /\ frame'[f].on = frame[f].on
  BY <1>2 DEF InIo
<1>9. ConnectsAlone'
  BY <1>1, <1>8 DEF NetInv, HandleInv, ConnectsAlone
<1>10. \A h \in Handle : h.fd \in Fd
  BY DEF Handle
<1>11. ValidMeansCurrent'
  BY <1>1, <1>3, <1>10, KnownIs, KnownTyped
     DEF NetInv, HandleInv, ValidMeansCurrent, SameSockets
<1>12. NoFdLeak'
  BY <1>1, <1>4, KnownIs DEF NetInv, HandleInv, NoFdLeak, SameSockets
<1> QED BY <1>5, <1>6, <1>7, <1>9, <1>11, <1>12 DEF HandleInv

-----------------------------------------------------------------------------
(* The steps that keep the fds.                                            *)

LEMMA SameSock ==
  ASSUME NetTypeOK, sock' = sock
  PROVE  SameSockets
BY DEF NetTypeOK, SameSockets, IsOpen

\* With the types of the rest, which most steps leave alone.
LEMMA QuietNet ==
  ASSUME NetInv, SchedInv', DOMAIN ioQ' = DOMAIN ioQ, UNCHANGED <<held, fdSeq, handles>>,
         unset' \subseteq Fiber, SameSockets, FrameSteps,
         frame' \in [Fiber -> Frame \cup {NoFrame}]
  PROVE  NetInv'
<1>1. NetTypeOK'
  BY DEF NetInv, NetTypeOK, SchedInv, SameSockets
<1> QED BY <1>1, KeepFdsInv DEF NetInv

\* Nobody is in the middle of an operation while the loop, or other code, runs.
LEMMA IdleFrames ==
  ASSUME NetInv, curr = None \/ ~ InIo(curr)
  PROVE  \A f \in Fiber : frame[f].pc \notin {"try", "check"}
<1>1. \A f \in Fiber : ~ InIo(f) => frame[f].pc = "none"
  BY FrameOf DEF NetInv
<1>2. \A f \in Fiber : InIo(f) /\ frame[f].pc \in {"try", "check"} => f = curr
  BY DEF NetInv, HandleInv, FramesHold
<1> QED BY <1>1, <1>2 DEF None, Fiber

LEMMA LoopNet ==
  ASSUME NetInv, SchedInv', UNCHANGED <<objects, frame, unset>>,
         UserLeave \/ NetLoop \/ NetTick \/ Run \/ WaitInterrupted \/ WaitFailed
  PROVE  NetInv'
<1>1. FrameSteps
  <2>1. \A f \in Fiber : frame[f].pc \in {"try", "check"} => curr' = curr
    <3>1. CASE UserLeave
      BY <3>1, IdleFrames DEF UserLeave
    <3>2. CASE ~ UserLeave
      BY <3>2, LoopKeepsFds, IdleFrames DEF NetInv
    <3> QED BY <3>1, <3>2
  <2> QED BY <2>1 DEF FrameSteps
<1>2. DOMAIN ioQ' = DOMAIN ioQ
  BY LoopKeepsFds DEF NetInv
<1> QED BY <1>1, <1>2, SameSock, QuietNet DEF objects, NetInv, NetTypeOK

LEMMA CreateNet ==
  ASSUME NetInv, SchedInv', Create, UNCHANGED <<objects, frame, unset>>
  PROVE  NetInv'
<1>1. UNCHANGED <<curr, ioQ>>
  BY DEF Create, queues
<1> QED BY <1>1, SameSock, QuietNet DEF FrameSteps, objects, NetInv, NetTypeOK

LEMMA KernelNet ==
  ASSUME NetInv, SchedInv', Kernel
  PROVE  NetInv'
<1>1. PICK d \in Fd : Arrive(d) \/ PeerTakes(d) \/ PeerCloses(d) \/ Established(d)
  BY DEF Kernel
<1>2. UNCHANGED <<curr, ioQ>>
  BY <1>1, SignalKeepsFds
     DEF Arrive, PeerTakes, PeerCloses, Established, Signal, schedVars
<1>3. UNCHANGED <<held, fdSeq, handles, frame, unset>>
  BY DEF Kernel
<1> QED BY <1>1, <1>2, <1>3, KernelSockets, QuietNet DEF FrameSteps, NetInv, NetTypeOK

\* The running fiber's frame: set as a whole, given back, or moved on.
LEMMA FrameSet ==
  ASSUME NetTypeOK, curr \in Fiber, NEW fr \in Frame \cup {NoFrame},
         frame' = [frame EXCEPT ![curr] = fr]
  PROVE  /\ frame' \in [Fiber -> Frame \cup {NoFrame}] /\ frame'[curr] = fr
         /\ \A f \in Fiber \ {curr} : frame'[f] = frame[f]
BY DEF NetTypeOK

LEMMA ReturnSteps ==
  ASSUME NetInv, curr \in Fiber, frame[curr].op /= "connect", Return
  PROVE  FrameSteps /\ frame' \in [Fiber -> Frame \cup {NoFrame}]
<1>1. \A f \in Fiber : f /= curr => frame[f].pc \notin {"try", "check"}
  <2>1. \A f \in Fiber : ~ InIo(f) => frame[f].pc = "none"
    BY FrameOf DEF NetInv
  <2> QED BY <2>1 DEF NetInv, HandleInv, FramesHold
<1> QED BY <1>1, FrameSet DEF NetInv, Return, FrameSteps

LEMMA MoveSteps ==
  ASSUME NetInv, curr \in Fiber, InIo(curr), NEW fr \in Frame,
         frame' = [frame EXCEPT ![curr] = fr],
         fr.op = frame[curr].op, fr.on = frame[curr].on,
         fr.pc \in {"try", "check"} => curr' = curr /\ Valid(frame[curr].on)
  PROVE  FrameSteps /\ frame' \in [Fiber -> Frame \cup {NoFrame}]
<1>1. \A f \in Fiber : f /= curr => frame[f].pc \notin {"try", "check"}
  <2>1. \A f \in Fiber : ~ InIo(f) => frame[f].pc = "none"
    BY FrameOf DEF NetInv
  <2> QED BY <2>1 DEF NetInv, HandleInv, FramesHold
<1>2. /\ frame' \in [Fiber -> Frame \cup {NoFrame}] /\ frame'[curr] = fr
      /\ \A f \in Fiber \ {curr} : frame'[f] = frame[f]
  BY FrameSet DEF NetInv
<1> QED BY <1>1, <1>2 DEF FrameSteps, InIo

LEMMA FramePc ==
  ASSUME NEW fr \in Frame, NEW pc \in {"try", "check", "woken"}
  PROVE  LET x == [fr EXCEPT !.pc = pc]
         IN  x \in Frame /\ x.op = fr.op /\ x.on = fr.on /\ x.pc = pc
BY DEF Frame

LEMMA GotoSteps ==
  ASSUME NetInv, curr \in Fiber, InIo(curr), NEW pc \in {"try", "check", "woken"}, Goto(pc),
         pc \in {"try", "check"} => curr' = curr /\ Valid(frame[curr].on)
  PROVE  FrameSteps /\ frame' \in [Fiber -> Frame \cup {NoFrame}]
<1> DEFINE fr == [frame[curr] EXCEPT !.pc = pc]
<1>1. frame[curr] \in Frame
  BY FrameOf DEF NetInv
<1>2. fr \in Frame /\ fr.op = frame[curr].op /\ fr.on = frame[curr].on /\ fr.pc = pc
  BY <1>1, FramePc, ZenonT(40)
<1>3. frame' = [frame EXCEPT ![curr] = fr]
  BY DEF Goto
<1> HIDE DEF fr
<1> QED BY <1>2, <1>3, MoveSteps

LEMMA IoStartNet ==
  ASSUME NetInv, SchedInv', NEW h \in handles, NEW op \in Ops \ {"connect"},
         NEW n \in 0..MaxWrite, NEW ms \in TimeoutMs, IoStart(h, op, n, ms), UNCHANGED unset
  PROVE  NetInv'
<1> DEFINE t  == IF ms < 0 THEN -1 ELSE now + ms
           fr == [op |-> op, pc |-> "try", on |-> h, left |-> n, expire |-> t]
<1>1. /\ curr /= None /\ ~ InIo(curr) /\ Valid(h) /\ now + ms <= MaxTime
      /\ frame' = [frame EXCEPT ![curr] = fr]
      /\ UNCHANGED <<schedVars, objects>>
  BY DEF IoStart
<1>2. /\ curr \in Fiber /\ now \in 0..MaxTime /\ h \in Handle
      /\ UNCHANGED <<curr, ioQ, sock, held, fdSeq, handles>>
  BY <1>1 DEF NetInv, NetTypeOK, SchedTypeOK, Time, schedVars, objects
<1>3. t \in Time \cup {-1}
  <2>1. ms \in Nat \cup {-1}
    OBVIOUS
  <2>2. CASE ms = -1
    BY <2>2
  <2>3. CASE ms \in Nat
    BY <1>1, <1>2, <2>3 DEF Time
  <2> QED BY <2>1, <2>2, <2>3
<1> HIDE DEF t
<1>4. fr \in Frame /\ fr.op = op /\ fr.on = h
  BY <1>2, <1>3 DEF Frame
<1> HIDE DEF fr
<1>5. /\ frame' \in [Fiber -> Frame \cup {NoFrame}] /\ frame'[curr] = fr
      /\ \A f \in Fiber \ {curr} : frame'[f] = frame[f]
  BY <1>1, <1>2, <1>4, FrameSet DEF NetInv
<1>6. FrameSteps
  BY <1>1, <1>2, <1>4, <1>5 DEF FrameSteps, InIo, Ops
<1> QED BY <1>2, <1>5, <1>6, SameSock, QuietNet DEF NetInv, NetTypeOK

\* The operations of a frame that runs are on a socket that is open.
LEMMA RunsOnOpen ==
  ASSUME NetInv, NEW ops \in SUBSET Ops, NEW pc \in {"try", "check"}, At(ops, pc)
  PROVE  /\ curr \in Fiber /\ InIo(curr) /\ frame[curr].op \in ops
         /\ frame[curr] \in Frame /\ frame[curr].on \in Handle /\ frame[curr].on.fd \in Fd
         /\ Valid(frame[curr].on) /\ IsOpen(frame[curr].on.fd)
<1>1. /\ curr \in Fiber /\ InIo(curr) /\ frame[curr].op \in ops /\ frame[curr].pc = pc
      /\ frame[curr] \in Frame /\ frame[curr].on \in Handle /\ frame[curr].on.fd \in Fd
  BY AtFrame DEF NetInv
<1>2. Valid(frame[curr].on)
  BY <1>1 DEF NetInv, HandleInv, FramesHold
<1>3. frame[curr].on \in KnownHandles
  BY <1>1 DEF KnownHandles
<1> QED BY <1>1, <1>2, <1>3 DEF NetInv, HandleInv, ValidMeansCurrent

LEMMA ReadNet ==
  ASSUME NetInv, SchedInv', ReadTry, UNCHANGED unset
  PROVE  NetInv'
<1>1. At({"read"}, "try") /\ Return /\ UNCHANGED <<schedVars, held, fdSeq, handles>>
  BY DEF ReadTry
<1>2. /\ curr \in Fiber /\ frame[curr].op \in {"read"} /\ IsOpen(frame[curr].on.fd)
  BY <1>1, RunsOnOpen DEF Ops
<1>3. SameSockets
  BY <1>2, ReadSockets DEF NetInv
<1> QED BY <1>1, <1>2, <1>3, ReturnSteps, QuietNet DEF schedVars, NetInv, NetTypeOK

LEMMA WriteNet ==
  ASSUME NetInv, SchedInv', WriteTry, UNCHANGED unset
  PROVE  NetInv'
<1>1. At({"write", "writeall"}, "try") /\ UNCHANGED <<schedVars, held, fdSeq, handles>>
  BY DEF WriteTry
<1>2. /\ curr \in Fiber /\ InIo(curr) /\ frame[curr].op \in {"write", "writeall"}
      /\ IsOpen(frame[curr].on.fd) /\ Valid(frame[curr].on) /\ frame[curr] \in Frame
  BY <1>1, RunsOnOpen DEF Ops
<1>3. SameSockets
  BY <1>2, WriteSockets DEF NetInv
<1>4. UNCHANGED <<curr, ioQ>>
  BY <1>1 DEF schedVars
<1>5. FrameSteps /\ frame' \in [Fiber -> Frame \cup {NoFrame}]
  <2>1. CASE Return
    BY <1>2, <2>1, ReturnSteps
  <2>2. CASE \E k \in 1..frame[curr].left :
               k < frame[curr].left /\ frame' = [frame EXCEPT ![curr].left = @ - k]
    <3>1. PICK k \in 1..frame[curr].left :
                 k < frame[curr].left /\ frame' = [frame EXCEPT ![curr].left = @ - k]
      BY <2>2
    <3> DEFINE fr == [frame[curr] EXCEPT !.left = frame[curr].left - k]
    <3>2. frame[curr].left \in 0..MaxWrite
      BY <1>2 DEF Frame
    <3>3. frame[curr].left - k \in 0..MaxWrite
      BY <3>1, <3>2
    <3>4. fr \in Frame /\ fr.op = frame[curr].op /\ fr.on = frame[curr].on
      BY <1>2, <3>3 DEF Frame
    <3>5. frame' = [frame EXCEPT ![curr] = fr]
      BY <3>1
    <3> HIDE DEF fr
    <3> QED BY <1>2, <1>4, <3>4, <3>5, MoveSteps
  <2> QED BY <2>1, <2>2 DEF WriteTry
<1> QED BY <1>1, <1>3, <1>4, <1>5, QuietNet DEF NetInv, NetTypeOK

LEMMA StayNet ==
  ASSUME NetInv, SchedInv', TryBlocked \/ TryFails \/ IoTimeout \/ IoResumed, UNCHANGED unset
  PROVE  NetInv'
<1> DEFINE ops == Streams \cup {"accept"}
<1>1. ops \in SUBSET Ops /\ "connect" \notin ops
  BY DEF Streams, Ops
<1>2. \/ At(ops, "try") /\ (Return \/ Goto("check"))
      \/ At(ops, "check") /\ Return
      \/ At(ops, "woken") /\ (Return \/ (Valid(frame[curr].on) /\ Goto("try")))
  BY DEF TryBlocked, TryFails, IoTimeout, IoResumed
<1>3. UNCHANGED <<curr, ioQ, sock, held, fdSeq, handles>>
  BY DEF TryBlocked, TryFails, IoTimeout, IoResumed, schedVars, objects
<1> HIDE DEF ops
<1>4. curr \in Fiber /\ InIo(curr) /\ frame[curr].op /= "connect"
  BY <1>1, <1>2, AtFrame DEF NetInv
<1>5. FrameSteps /\ frame' \in [Fiber -> Frame \cup {NoFrame}]
  <2>1. CASE Return
    BY <1>4, <2>1, ReturnSteps
  <2>2. CASE At(ops, "try") /\ Goto("check")
    <3>1. Valid(frame[curr].on)
      BY <1>1, <2>2, RunsOnOpen
    <3> QED BY <1>3, <1>4, <2>2, <3>1, GotoSteps
  <2>3. CASE Valid(frame[curr].on) /\ Goto("try")
    BY <1>3, <1>4, <2>3, GotoSteps
  <2> QED BY <1>2, <2>1, <2>2, <2>3
<1> QED BY <1>3, <1>5, SameSock, QuietNet DEF NetInv, NetTypeOK

LEMMA ParkNet ==
  ASSUME NetInv, SchedInv', IoPark \/ ConnectPark, UNCHANGED unset
  PROVE  NetInv'
<1>1. /\ At(Streams \cup {"accept"}, "check") \/ At({"connect"}, "check")
      /\ Goto("woken") /\ UNCHANGED objects
      /\ \E e : SwitchToSchedFiber(e)
  BY DEF IoPark, ConnectPark, WaitReading, WaitWriting
<1>2. curr \in Fiber /\ InIo(curr)
  BY <1>1, AtFrame DEF NetInv, Streams, Ops
<1>3. DOMAIN ioQ' = DOMAIN ioQ
  BY <1>1 DEF SwitchToSchedFiber
<1>4. FrameSteps /\ frame' \in [Fiber -> Frame \cup {NoFrame}]
  BY <1>1, <1>2, GotoSteps
<1> QED BY <1>1, <1>3, <1>4, SameSock, QuietNet DEF objects, NetInv, NetTypeOK

-----------------------------------------------------------------------------
(* The steps that register an fd.                                          *)

\* Everything that a successful Reg of d means, for the handle h made of it.
Registered(d, h) ==
  /\ d \notin DOMAIN ioQ /\ DOMAIN ioQ' = DOMAIN ioQ \cup {d}
  /\ fdSeq[d] < MaxSeq
  /\ UNCHANGED <<curr, fdSeq>>
  /\ held' = held \ {d}
  /\ sock' \in [Fd -> Socket]
  /\ IsOpen(d)'
  /\ \A e \in Fd \ {d} : (IsOpen(e)' <=> IsOpen(e)) /\ sock'[e].gen = sock[e].gen
  /\ h \in Handle /\ h.fd = d /\ h.seq = fdSeq[d] /\ h.gen = sock'[d].gen

LEMMA RegMeans ==
  ASSUME NEW d \in Fd, Reg(d)
  PROVE  /\ d \notin DOMAIN ioQ /\ DOMAIN ioQ' = DOMAIN ioQ \cup {d}
         /\ fdSeq[d] < MaxSeq /\ UNCHANGED curr
BY DEF Reg, RegRawFd

LEMMA NewHandleTyped ==
  ASSUME NetTypeOK, NEW d \in Fd, sock' \in [Fd -> Socket], NEW k \in {"conn", "listen"}
  PROVE  LET h == NewHandle(d, k)
         IN  h \in Handle /\ h.fd = d /\ h.seq = fdSeq[d] /\ h.gen = sock'[d].gen
<1>1. fdSeq[d] \in 0..MaxSeq /\ sock'[d].gen \in 0..MaxOpen
  BY SocketParts DEF NetTypeOK
<1> QED BY <1>1 DEF NewHandle, Handle

\* No handle of a socket that is not registered is valid, or ever will be.
LEMMA UnregisteredHandles ==
  ASSUME NetInv, NEW d \in Fd, d \notin DOMAIN ioQ, NEW h, Knows(h), h.fd = d
  PROVE  ~ Valid(h)
BY KnownIs DEF NetInv, HandleInv, ValidMeansCurrent

(* The frames are left alone but for that of an operation that returns, or *)
(* that of a connect which is to return the new handle.                    *)
LEMMA RegisterInv ==
  ASSUME NetInv, NetTypeOK', NEW d \in Fd, NEW h, Registered(d, h),
         \/ /\ handles' = handles \cup {h}
            /\ \A f \in Fiber :
                 \/ frame'[f] = frame[f]
                 \/ f = curr /\ frame[f].op /= "connect" /\ frame'[f] = NoFrame
         \/ /\ handles' = handles
            /\ curr \in Fiber /\ ~ InIo(curr)
            /\ frame'[curr].op = "connect" /\ frame'[curr].on = h
            /\ \A f \in Fiber \ {curr} : frame'[f] = frame[f]
  PROVE  HandleInv'
<1>1. /\ d \notin DOMAIN ioQ /\ DOMAIN ioQ' = DOMAIN ioQ \cup {d}
      /\ fdSeq[d] < MaxSeq /\ curr' = curr /\ fdSeq' = fdSeq
      /\ held' = held \ {d} /\ sock' \in [Fd -> Socket] /\ IsOpen(d)'
      /\ \A e \in Fd \ {d} : (IsOpen(e)' <=> IsOpen(e)) /\ sock'[e].gen = sock[e].gen
      /\ h \in Handle /\ h.fd = d /\ h.seq = fdSeq[d] /\ h.gen = sock'[d].gen
  BY DEF Registered
<1>2. \A x : Valid(x)' <=> Valid(x)
  BY <1>1 DEF Valid
<1>3. Valid(h) /\ fdSeq[d] \in Int
  BY <1>1 DEF Valid, NetInv, NetTypeOK
<1>4. \A x : Knows(x)' <=> Knows(x) \/ x = h
  <2>1. CASE handles' = handles \cup {h} /\ \A f \in Fiber :
                 \/ frame'[f] = frame[f]
                 \/ f = curr /\ frame[f].op /= "connect" /\ frame'[f] = NoFrame
    BY <2>1, NoFrameIdle DEF Knows, InIo, NetInv, HandleInv, FramesHold
  <2>2. CASE handles' = handles /\ curr \in Fiber /\ ~ InIo(curr)
            /\ frame'[curr].op = "connect" /\ frame'[curr].on = h
            /\ \A f \in Fiber \ {curr} : frame'[f] = frame[f]
    BY <2>2 DEF Knows, InIo
  <2> QED BY <2>1, <2>2
<1>5. \A x : Knows(x) /\ x.fd = d => ~ Valid(x)
  BY <1>1, UnregisteredHandles
<1>6. SeqsBehind'
  BY <1>1, <1>3, <1>4 DEF NetInv, HandleInv, SeqsBehind
<1>7. FdsApart'
  BY <1>1 DEF NetInv, HandleInv, FdsApart, NetTypeOK, SchedInv, SchedTypeOK
<1>8. FramesHold'
  <2>1. ASSUME NEW f \in Fiber, InIo(f)', frame'[f] = frame[f]
        PROVE  /\ IF frame'[f].op = "connect" THEN Valid(frame'[f].on)
                                              ELSE frame'[f].on \in handles'
               /\ frame'[f].pc \in {"try", "check"} => f = curr' /\ Valid(frame'[f].on)
    BY <1>1, <1>2, <2>1 DEF NetInv, HandleInv, FramesHold, InIo
  <2>2. ASSUME NEW f \in Fiber, InIo(f)', frame'[f] /= frame[f]
        PROVE  f = curr' /\ frame'[f].op = "connect" /\ frame'[f].on = h
    BY <1>1, <2>2, NoFrameIdle DEF InIo
  <2>3. ASSUME NEW f \in Fiber, InIo(f)'
        PROVE  /\ IF frame'[f].op = "connect" THEN Valid(frame'[f].on)
                                              ELSE frame'[f].on \in handles'
               /\ frame'[f].pc \in {"try", "check"} => f = curr' /\ Valid(frame'[f].on)
    BY <1>3, <2>1, <2>2, <2>3
  <2> QED BY <1>2, <2>3 DEF FramesHold
<1>9. ConnectsAlone'
  <2>1. \A f \in Fiber : frame[f].op = "connect" =>
          Knows(frame[f].on) /\ Valid(frame[f].on) /\ frame[f].on.fd /= d
    BY <1>5 DEF Knows, InIo, NetInv, HandleInv, FramesHold
  <2>2. \A f \in Fiber : frame'[f].op = "connect" =>
          \/ frame'[f] = frame[f]
          \/ /\ f = curr /\ frame'[f].on = h /\ handles' = handles
             /\ \A g \in Fiber \ {curr} : frame'[g] = frame[g]
    BY NoFrameIdle
  <2>3. \A x \in handles : Knows(x)
    BY DEF Knows
  <2>4. ASSUME NEW f \in Fiber, frame'[f].op = "connect", frame'[f] = frame[f]
        PROVE  /\ \A x \in handles' : x.fd = frame'[f].on.fd => ~ Valid(x)'
               /\ \A g \in Fiber : g /= f /\ frame'[g].op = "connect"
                                     => frame'[g].on.fd /= frame'[f].on.fd
    BY <1>1, <1>2, <2>1, <2>2, <2>4 DEF NetInv, HandleInv, ConnectsAlone
  <2>5. ASSUME NEW f \in Fiber, frame'[f].op = "connect", f = curr, frame'[f].on = h,
               handles' = handles, \A g \in Fiber \ {curr} : frame'[g] = frame[g]
        PROVE  /\ \A x \in handles' : x.fd = frame'[f].on.fd => ~ Valid(x)'
               /\ \A g \in Fiber : g /= f /\ frame'[g].op = "connect"
                                     => frame'[g].on.fd /= frame'[f].on.fd
    BY <1>1, <1>2, <1>5, <2>1, <2>3, <2>5
  <2> QED BY <2>2, <2>4, <2>5 DEF ConnectsAlone
<1>10. \A x \in Handle : x.fd \in Fd
  BY DEF Handle
<1>11. ValidMeansCurrent'
  <2>1. ASSUME NEW x, Knows(x), Valid(x)
        PROVE  x.fd \in DOMAIN ioQ' /\ IsOpen(x.fd)' /\ x.gen = sock'[x.fd].gen
    <3>1. x.fd \in DOMAIN ioQ /\ IsOpen(x.fd) /\ x.gen = sock[x.fd].gen /\ x.fd /= d
          /\ x.fd \in Fd
      BY <1>1, <1>10, <2>1, KnownIs, KnownTyped DEF NetInv, HandleInv, ValidMeansCurrent
    <3> QED BY <1>1, <3>1
  <2> QED BY <1>1, <1>2, <1>4, <2>1, KnownIs DEF ValidMeansCurrent
<1>12. NoFdLeak'
  BY <1>1, <1>2, <1>3, <1>4, KnownIs DEF NetInv, HandleInv, NoFdLeak
<1> QED BY <1>6, <1>7, <1>8, <1>9, <1>11, <1>12 DEF HandleInv

LEMMA FromRawFdNet ==
  ASSUME NetInv, SchedInv', NEW d \in Fd, FromRawFd(d), UNCHANGED <<frame, unset>>
  PROVE  NetInv'
<1> DEFINE k == IF sock[d].kind = "listen" THEN "listen" ELSE "conn"
           h == NewHandle(d, k)
<1>1. /\ d \in held /\ UNCHANGED <<sock, fdSeq, frame, unset>> /\ Reg(d)
      /\ held' = held \ {d} /\ handles' = handles \cup {h}
  BY DEF FromRawFd
<1>k. k \in {"conn", "listen"}
  OBVIOUS
<1> HIDE DEF k
<1>2. sock' \in [Fd -> Socket]
  BY <1>1 DEF NetInv, NetTypeOK
<1>3. h \in Handle /\ h.fd = d /\ h.seq = fdSeq[d] /\ h.gen = sock'[d].gen
  BY <1>2, <1>k, NewHandleTyped DEF NetInv
<1> HIDE DEF h
<1>4. IsOpen(d)' /\ \A e \in Fd : IsOpen(e)' <=> IsOpen(e)
  BY <1>1 DEF IsOpen, NetInv, HandleInv, FdsApart
<1>5. Registered(d, h)
  BY <1>1, <1>2, <1>3, <1>4, RegMeans DEF Registered
<1>6. NetTypeOK'
  BY <1>1, <1>2, <1>3 DEF NetInv, NetTypeOK, SchedInv
<1> QED BY <1>1, <1>3, <1>5, <1>6, RegisterInv DEF NetInv

\* A socket that was given out and closed again in the same call.
LEMMA SilentCloseIs ==
  ASSUME NetTypeOK, NEW d \in Fd, CanOpen(d), NEW x, x = [sock[d] EXCEPT !.gen = @ + 1]
  PROVE  /\ x \in Socket /\ x.kind = "none" /\ x.gen = sock[d].gen + 1
         /\ x.room = sock[d].room /\ x.in = sock[d].in /\ x.hup = sock[d].hup
<1>1. sock[d] \in Socket
  BY DEF NetTypeOK
<1>2. sock[d].gen + 1 \in 0..MaxOpen /\ sock[d].kind = "none"
  BY <1>1, SocketParts DEF CanOpen, IsOpen
<1> QED BY <1>1, <1>2 DEF Socket

LEMMA SilentCloseSets ==
  ASSUME NetTypeOK, NEW d \in Fd, CanOpen(d), sock' = SilentClose(sock, d)
  PROVE  /\ sock' \in [Fd -> Socket] /\ sock'[d] = [sock[d] EXCEPT !.gen = @ + 1]
         /\ \A e \in Fd \ {d} : sock'[e] = sock[e]
<1> DEFINE x == [sock[d] EXCEPT !.gen = @ + 1]
<1>1. x \in Socket
  BY SilentCloseIs
<1>2. sock' = [sock EXCEPT ![d] = x]
  BY DEF SilentClose
<1> HIDE DEF x
<1>3. sock' \in [Fd -> Socket] /\ sock'[d] = x /\ \A e \in Fd \ {d} : sock'[e] = sock[e]
  BY <1>1, <1>2, SockSet
<1> QED BY <1>3 DEF x

\* A call that fails leaves the fds and their handles as they were.
LEMMA GivesUpNet ==
  ASSUME NetInv, SchedInv', NEW d \in Fd, CanOpen(d), sock' = SilentClose(sock, d),
         UNCHANGED <<schedVars, held, fdSeq, handles, frame>>, unset' \subseteq Fiber
  PROVE  NetInv'
<1>1. /\ sock' \in [Fd -> Socket] /\ sock'[d].kind = "none"
      /\ \A e \in Fd \ {d} : sock'[e] = sock[e]
  BY SilentCloseSets, SilentCloseIs DEF NetInv
<1>2. ~ IsOpen(d)
  BY DEF CanOpen
<1>3. SameSockets
  BY <1>1, <1>2 DEF SameSockets, IsOpen
<1>4. UNCHANGED <<curr, ioQ>>
  BY DEF schedVars
<1>5. FrameSteps /\ frame' \in [Fiber -> Frame \cup {NoFrame}]
  BY <1>4 DEF FrameSteps, NetInv, NetTypeOK
<1> QED BY <1>3, <1>4, <1>5, QuietNet

LEMMA ListenedNet ==
  ASSUME NetInv, SchedInv', NEW d \in Fd, CanOpen(d), Reg(d),
         sock' = [sock EXCEPT ![d] = Opened(d, "listen")],
         handles' = handles \cup {NewHandle(d, "listen")},
         UNCHANGED <<held, fdSeq, frame, unset>>
  PROVE  NetInv'
<1> DEFINE h == NewHandle(d, "listen")
<1>1. /\ CanOpen(d) /\ UNCHANGED <<held, fdSeq, frame, unset>> /\ Reg(d)
      /\ sock' = [sock EXCEPT ![d] = Opened(d, "listen")]
      /\ handles' = handles \cup {h}
  OBVIOUS
<1>2. Opened(d, "listen") \in Socket /\ Opened(d, "listen").kind = "listen"
  BY <1>1, OpenedSock DEF NetInv, Kinds
<1>3. /\ sock' \in [Fd -> Socket] /\ sock'[d].kind = "listen"
      /\ \A e \in Fd \ {d} : sock'[e] = sock[e]
  BY <1>1, <1>2, SockSet DEF NetInv
<1>4. h \in Handle /\ h.fd = d /\ h.seq = fdSeq[d] /\ h.gen = sock'[d].gen
  BY <1>3, NewHandleTyped DEF NetInv
<1> HIDE DEF h
<1>5. IsOpen(d)' /\ d \notin held /\ \A e \in Fd \ {d} : IsOpen(e)' <=> IsOpen(e)
  BY <1>1, <1>3 DEF IsOpen, CanOpen, NetInv, HandleInv, FdsApart
<1>6. Registered(d, h)
  BY <1>1, <1>3, <1>4, <1>5, RegMeans DEF Registered
<1>7. NetTypeOK'
  BY <1>1, <1>3, <1>4 DEF NetInv, NetTypeOK, SchedInv
<1> QED BY <1>1, <1>4, <1>6, <1>7, RegisterInv DEF NetInv

LEMMA ListenNet ==
  ASSUME NetInv, SchedInv', NEW d \in Fd, ListenStream(d), UNCHANGED <<frame, unset>>
  PROVE  NetInv'
<1>1. CanOpen(d) /\ UNCHANGED <<held, fdSeq>>
  BY DEF ListenStream
<1>2. unset' \subseteq Fiber
  BY DEF NetInv, NetTypeOK
<1>3. CASE sock' = SilentClose(sock, d) /\ UNCHANGED <<schedVars, handles>>
  BY <1>1, <1>2, <1>3, GivesUpNet
<1>4. CASE /\ sock' = [sock EXCEPT ![d] = Opened(d, "listen")] /\ Reg(d)
           /\ handles' = handles \cup {NewHandle(d, "listen")}
  BY <1>1, <1>4, ListenedNet
<1> QED BY <1>3, <1>4 DEF ListenStream

LEMMA AcceptNet ==
  ASSUME NetInv, SchedInv', NEW c \in Fd, AcceptTry(c), UNCHANGED unset
  PROVE  NetInv'
<1> DEFINE d == frame[curr].on.fd
           h == NewHandle(c, "conn")
           s1 == [sock[d] EXCEPT !.in = sock[d].in - 1]
           s2 == [sock[c] EXCEPT !.gen = sock[c].gen + 1]
<1>1. /\ At({"accept"}, "try") /\ sock[d].in > 0 /\ CanOpen(c)
      /\ Return /\ UNCHANGED <<held, fdSeq>>
      /\ \/ /\ sock' = [sock EXCEPT ![d].in = @ - 1, ![c] = Opened(c, "conn")]
            /\ Reg(c)
            /\ handles' = handles \cup {h}
         \/ /\ sock' = SilentClose([sock EXCEPT ![d].in = @ - 1], c)
            /\ UNCHANGED <<schedVars, handles>>
  BY DEF AcceptTry
<1>2. /\ curr \in Fiber /\ frame[curr].op \in {"accept"} /\ d \in Fd /\ IsOpen(d)
  BY <1>1, RunsOnOpen DEF Ops
<1>3. c /= d /\ ~ IsOpen(c) /\ sock[c] \in Socket /\ sock[d] \in Socket
  BY <1>1, <1>2 DEF CanOpen, NetInv, NetTypeOK
<1>4. s1 \in Socket /\ s1.kind = sock[d].kind /\ s1.gen = sock[d].gen
  <2>1. sock[d].in - 1 \in 0..Cap
    BY <1>1, <1>3, SocketParts
  <2> QED BY <1>3, <2>1, SockIn
<1>5. FrameSteps /\ frame' \in [Fiber -> Frame \cup {NoFrame}]
  BY <1>1, <1>2, ReturnSteps
<1>6. CASE /\ sock' = [sock EXCEPT ![d].in = @ - 1, ![c] = Opened(c, "conn")]
           /\ Reg(c) /\ handles' = handles \cup {h}
  <2>1. Opened(c, "conn") \in Socket /\ Opened(c, "conn").kind = "conn"
    BY <1>1, OpenedSock DEF NetInv, Kinds
  <2>2. /\ sock' \in [Fd -> Socket] /\ sock'[c].kind = "conn" /\ sock'[d] = s1
        /\ \A e \in Fd \ {c, d} : sock'[e] = sock[e]
    <3>1. sock' = [sock EXCEPT ![d] = s1, ![c] = Opened(c, "conn")]
      BY <1>3, <1>6
    <3> HIDE DEF s1, d
    <3> QED BY <1>2, <1>3, <1>4, <2>1, <3>1 DEF NetInv, NetTypeOK
  <2>3. h \in Handle /\ h.fd = c /\ h.seq = fdSeq[c] /\ h.gen = sock'[c].gen
    BY <2>2, NewHandleTyped DEF NetInv
  <2> HIDE DEF h, s1, d
  <2>4. /\ IsOpen(c)' /\ c \notin held
        /\ \A e \in Fd \ {c} : (IsOpen(e)' <=> IsOpen(e)) /\ sock'[e].gen = sock[e].gen
    BY <1>3, <1>4, <2>2 DEF IsOpen, NetInv, HandleInv, FdsApart
  <2>5. Registered(c, h)
    <3>1. held' = held \ {c} /\ UNCHANGED fdSeq /\ sock' \in [Fd -> Socket]
      BY <1>1, <2>2, <2>4
    <3>2. /\ c \notin DOMAIN ioQ /\ DOMAIN ioQ' = DOMAIN ioQ \cup {c}
          /\ fdSeq[c] < MaxSeq /\ UNCHANGED curr
      BY <1>6, RegMeans
    <3> QED BY <2>3, <2>4, <3>1, <3>2 DEF Registered
  <2>6. NetTypeOK'
    BY <1>1, <1>5, <1>6, <2>2, <2>3 DEF NetInv, NetTypeOK, SchedInv
  <2>7. \A f \in Fiber : \/ frame'[f] = frame[f]
                         \/ f = curr /\ frame[f].op /= "connect" /\ frame'[f] = NoFrame
    BY <1>1, <1>2, FrameSet DEF Return, NetInv
  <2> QED BY <1>6, <2>3, <2>5, <2>6, <2>7, RegisterInv DEF NetInv
<1>7. CASE /\ sock' = SilentClose([sock EXCEPT ![d].in = @ - 1], c)
           /\ UNCHANGED <<schedVars, handles>>
  <2>1. s2 \in Socket /\ s2.kind = "none" /\ s2.gen = sock[c].gen + 1
    <3>1. sock[c].gen + 1 \in 0..MaxOpen /\ sock[c].kind = "none"
      BY <1>1, <1>3, SocketParts DEF CanOpen, IsOpen
    <3> QED BY <1>3, <3>1 DEF Socket
  <2>2. /\ sock' \in [Fd -> Socket] /\ sock'[c].kind = "none" /\ sock'[d] = s1
        /\ \A e \in Fd \ {c, d} : sock'[e] = sock[e]
    <3>1. sock' = [sock EXCEPT ![d] = s1, ![c] = s2]
      BY <1>3, <1>7 DEF SilentClose
    <3> HIDE DEF s1, s2, d
    <3> QED BY <1>2, <1>3, <1>4, <2>1, <3>1 DEF NetInv, NetTypeOK
  <2>3. NetTypeOK'
    BY <1>1, <1>5, <1>7, <2>2 DEF NetInv, NetTypeOK, SchedInv
  <2> HIDE DEF s1, s2, d
  <2>4. \A e \in Fd : IsOpen(e)' <=> IsOpen(e)
    BY <1>3, <1>4, <2>2 DEF IsOpen
  <2>5. \A e \in Fd : IsOpen(e) => sock'[e].gen = sock[e].gen
    BY <1>3, <1>4, <2>2
  <2>6. UNCHANGED <<curr, ioQ>>
    BY <1>7 DEF schedVars
  <2> QED BY <1>1, <1>5, <1>7, <2>3, <2>4, <2>2, <2>5, <2>6, KeepFdsInv DEF NetInv, SameSockets
<1> QED BY <1>1, <1>6, <1>7

LEMMA ConnectBeginsNet ==
  ASSUME NetInv, SchedInv', NEW d \in Fd, NEW ms \in TimeoutMs, ConnectStart(d, ms),
         ConnectedAtOnce(d) \/ ConnectPending(d, ms)
  PROVE  NetInv'
<1> DEFINE h  == NewHandle(d, "conn")
           t  == IF ms < 0 THEN -1 ELSE now + ms
           fr == [op |-> "connect", pc |-> "check", on |-> h, left |-> 0, expire |-> t]
<1>1. /\ curr /= None /\ ~ InIo(curr) /\ CanOpen(d) /\ now + ms <= MaxTime
      /\ UNCHANGED <<held, fdSeq>> /\ Reg(d)
      /\ \/ /\ sock' = [sock EXCEPT ![d] = Opened(d, "conn")]
            /\ handles' = handles \cup {h} /\ unset' = unset \ {curr} /\ UNCHANGED frame
         \/ /\ sock' = [sock EXCEPT ![d] = Opened(d, "connecting")]
            /\ frame' = [frame EXCEPT ![curr] = fr]
            /\ unset' = unset \cup {curr} /\ UNCHANGED handles
  BY DEF ConnectStart, ConnectedAtOnce, ConnectPending
<1>2. curr \in Fiber /\ now \in 0..MaxTime /\ d \notin held
  BY <1>1 DEF NetInv, NetTypeOK, SchedTypeOK, Time, CanOpen, HandleInv, FdsApart
<1>3. t \in Time \cup {-1}
  <2>1. ms \in Nat \cup {-1}
    OBVIOUS
  <2>2. CASE ms = -1
    BY <2>2
  <2>3. CASE ms \in Nat
    BY <1>1, <1>2, <2>3 DEF Time
  <2> QED BY <2>1, <2>2, <2>3
<1> HIDE DEF t
<1>4. PICK k \in {"conn", "connecting"} : sock' = [sock EXCEPT ![d] = Opened(d, k)]
  BY <1>1
<1>5. k \in Kinds \ {"none"}
  BY DEF Kinds
<1>6. /\ sock' \in [Fd -> Socket] /\ sock'[d].kind = k
      /\ \A e \in Fd \ {d} : sock'[e] = sock[e]
  <2>1. Opened(d, k) \in Socket /\ Opened(d, k).kind = k
    BY <1>1, <1>5, OpenedSock DEF NetInv
  <2> QED BY <1>4, <2>1, SockSet DEF NetInv
<1>7. h \in Handle /\ h.fd = d /\ h.seq = fdSeq[d] /\ h.gen = sock'[d].gen
  BY <1>6, NewHandleTyped DEF NetInv
<1> HIDE DEF h
<1>8. /\ IsOpen(d)'
      /\ \A e \in Fd \ {d} : (IsOpen(e)' <=> IsOpen(e)) /\ sock'[e].gen = sock[e].gen
  BY <1>5, <1>6 DEF IsOpen
<1>9. Registered(d, h)
  <2>1. held' = held \ {d} /\ UNCHANGED fdSeq
    BY <1>1, <1>2
  <2>2. /\ d \notin DOMAIN ioQ /\ DOMAIN ioQ' = DOMAIN ioQ \cup {d}
        /\ fdSeq[d] < MaxSeq /\ UNCHANGED curr
    BY <1>1, RegMeans
  <2> QED BY <1>6, <1>7, <1>8, <2>1, <2>2 DEF Registered
<1>10. fr \in Frame /\ fr.op = "connect" /\ fr.on = h
  BY <1>3, <1>7 DEF Frame, Ops
<1> HIDE DEF fr
<1>11. CASE handles' = handles \cup {h} /\ unset' = unset \ {curr} /\ UNCHANGED frame
  <2>1. NetTypeOK'
    BY <1>1, <1>6, <1>7, <1>11 DEF NetInv, NetTypeOK, SchedInv
  <2> QED BY <1>7, <1>9, <1>11, <2>1, RegisterInv DEF NetInv
<1>12. CASE /\ frame' = [frame EXCEPT ![curr] = fr]
            /\ unset' = unset \cup {curr} /\ UNCHANGED handles
  <2>1. /\ frame' \in [Fiber -> Frame \cup {NoFrame}] /\ frame'[curr] = fr
        /\ \A f \in Fiber \ {curr} : frame'[f] = frame[f]
    BY <1>2, <1>10, <1>12, FrameSet DEF NetInv
  <2>2. NetTypeOK'
    BY <1>1, <1>2, <1>6, <1>12, <2>1 DEF NetInv, NetTypeOK, SchedInv
  <2> QED BY <1>1, <1>2, <1>9, <1>10, <1>12, <2>1, <2>2, RegisterInv DEF NetInv
<1> QED BY <1>1, <1>11, <1>12

LEMMA ConnectStartNet ==
  ASSUME NetInv, SchedInv', NEW d \in Fd, NEW ms \in TimeoutMs, ConnectStart(d, ms)
  PROVE  NetInv'
<1>1. CanOpen(d) /\ UNCHANGED <<held, fdSeq>>
  BY DEF ConnectStart
<1>2. CASE ConnectGivesUp(d)
  <2>1. unset' \subseteq Fiber
    BY <1>2 DEF ConnectGivesUp, NetInv, NetTypeOK
  <2> QED BY <1>1, <1>2, <2>1, GivesUpNet DEF ConnectGivesUp
<1>3. CASE ConnectedAtOnce(d) \/ ConnectPending(d, ms)
  BY <1>3, ConnectBeginsNet
<1> QED BY <1>2, <1>3 DEF ConnectStart

LEMMA ConnectNoSocketNet ==
  ASSUME NetInv, SchedInv', ConnectNoSocket
  PROVE  NetInv'
<1>1. UNCHANGED <<curr, ioQ, sock, held, fdSeq, handles, frame>> /\ unset' \subseteq Fiber
  BY DEF ConnectNoSocket, objects, schedVars, NetInv, NetTypeOK
<1> QED BY <1>1, SameSock, QuietNet DEF FrameSteps, NetInv, NetTypeOK

-----------------------------------------------------------------------------
(* The user's own fds.                                                     *)

LEMMA OpenRawNet ==
  ASSUME NetInv, SchedInv', NEW d \in Fd, NEW k \in {"conn", "listen"}, OpenRaw(d, k),
         UNCHANGED <<frame, unset>>
  PROVE  NetInv'
<1>1. /\ CanOpen(d) /\ sock' = [sock EXCEPT ![d] = Opened(d, k)]
      /\ held' = held \cup {d} /\ UNCHANGED <<curr, ioQ, fdSeq, handles, frame, unset>>
  BY DEF OpenRaw, schedVars
<1>2. Opened(d, k) \in Socket /\ Opened(d, k).kind = k
  BY <1>1, OpenedSock DEF NetInv, Kinds
<1>3. /\ sock' \in [Fd -> Socket] /\ sock'[d].kind = k
      /\ \A e \in Fd \ {d} : sock'[e] = sock[e]
  BY <1>1, <1>2, SockSet DEF NetInv
<1>4. IsOpen(d)' /\ ~ IsOpen(d) /\ \A e \in Fd \ {d} : IsOpen(e)' <=> IsOpen(e)
  BY <1>1, <1>3 DEF IsOpen, CanOpen
<1>5. NetTypeOK'
  BY <1>1, <1>3 DEF NetInv, NetTypeOK, SchedInv
<1>6. SeqsBehind' /\ FramesHold' /\ ConnectsAlone'
  BY <1>1 DEF NetInv, HandleInv, SeqsBehind, Knows, InIo, FramesHold, ConnectsAlone, Valid
<1>7. DOMAIN ioQ \subseteq Fd /\ held \subseteq Fd
  BY DEF NetInv, NetTypeOK, SchedTypeOK
<1>8. FdsApart'
  BY <1>1, <1>4, <1>7 DEF NetInv, HandleInv, FdsApart
<1>9. \A h : h \in KnownHandles' <=> h \in KnownHandles
  BY <1>1 DEF KnownHandles, InIo
<1>10. \A h \in KnownHandles : Valid(h) => h.fd \in Fd \ {d}
  BY <1>4, <1>7 DEF NetInv, HandleInv, ValidMeansCurrent
<1>11. ValidMeansCurrent'
  BY <1>1, <1>3, <1>4, <1>9, <1>10 DEF NetInv, HandleInv, ValidMeansCurrent, Valid
<1>12. NoFdLeak'
  BY <1>1, <1>4, <1>9 DEF NetInv, HandleInv, NoFdLeak, Valid
<1> QED BY <1>5, <1>6, <1>8, <1>11, <1>12 DEF NetInv, HandleInv

LEMMA CloseRawNet ==
  ASSUME NetInv, SchedInv', NEW d \in Fd, CloseRaw(d), UNCHANGED <<frame, unset>>
  PROVE  NetInv'
<1>1. /\ d \in held /\ sock' = [sock EXCEPT ![d] = Shut(d)]
      /\ held' = held \ {d} /\ UNCHANGED <<fdSeq, handles, frame, unset>>
      /\ UNCHANGED <<curr, ioQ>>
  BY DEF CloseRaw, schedVars, KernelClose, queues
<1>2. Shut(d) \in Socket /\ Shut(d).kind = "none"
  BY ShutSock DEF NetInv
<1>3. /\ sock' \in [Fd -> Socket] /\ sock'[d].kind = "none"
      /\ \A e \in Fd \ {d} : sock'[e] = sock[e]
  BY <1>1, <1>2, SockSet DEF NetInv
<1>4. ~ IsOpen(d)' /\ \A e \in Fd \ {d} : IsOpen(e)' <=> IsOpen(e)
  BY <1>3 DEF IsOpen
<1>5. NetTypeOK'
  BY <1>1, <1>3 DEF NetInv, NetTypeOK, SchedInv
<1>6. SeqsBehind' /\ FramesHold' /\ ConnectsAlone'
  BY <1>1 DEF NetInv, HandleInv, SeqsBehind, Knows, InIo, FramesHold, ConnectsAlone, Valid
<1>7. DOMAIN ioQ \subseteq Fd /\ held \subseteq Fd /\ d \notin DOMAIN ioQ
  BY <1>1 DEF NetInv, NetTypeOK, SchedTypeOK, HandleInv, FdsApart
<1>8. FdsApart'
  BY <1>1, <1>4, <1>7 DEF NetInv, HandleInv, FdsApart
<1>9. \A h : h \in KnownHandles' <=> h \in KnownHandles
  BY <1>1 DEF KnownHandles, InIo
<1>10. \A h \in KnownHandles : Valid(h) => h.fd \in Fd \ {d}
  BY <1>7 DEF NetInv, HandleInv, ValidMeansCurrent
<1>11. ValidMeansCurrent'
  BY <1>1, <1>3, <1>4, <1>9, <1>10 DEF NetInv, HandleInv, ValidMeansCurrent, Valid
<1>12. NoFdLeak'
  BY <1>1, <1>4, <1>9 DEF NetInv, HandleInv, NoFdLeak, Valid
<1> QED BY <1>5, <1>6, <1>8, <1>11, <1>12 DEF NetInv, HandleInv

-----------------------------------------------------------------------------
(* The steps that unregister an fd.                                        *)

(* The fd of h goes out of use, or back to the user's code as a plain one, *)
(* and the running fiber has been in no operation or in the connect to h.  *)
LEMMA UnregisterInv ==
  ASSUME NetInv, NetTypeOK', NEW h \in Handle, Knows(h), Valid(h),
         DOMAIN ioQ' = DOMAIN ioQ \ {h.fd}, UNCHANGED <<curr, handles>>,
         fdSeq' = [fdSeq EXCEPT ![h.fd] = @ + 1],
         \/ UNCHANGED sock /\ held' = held \cup {h.fd}
         \/ /\ ~ IsOpen(h.fd)' /\ held' = held
            /\ \A e \in Fd \ {h.fd} : sock'[e] = sock[e],
         \/ UNCHANGED frame /\ h \in handles
         \/ /\ curr \in Fiber /\ frame[curr].op = "connect" /\ frame[curr].on = h
            /\ frame'[curr] = NoFrame /\ \A f \in Fiber \ {curr} : frame'[f] = frame[f],
         \A f \in Fiber : frame[f].pc \notin {"try", "check"}
  PROVE  HandleInv'
<1> DEFINE d == h.fd
<1>1. d \in Fd /\ d \in DOMAIN ioQ /\ IsOpen(d) /\ d \notin held /\ h.gen = sock[d].gen
  BY KnownIs DEF Handle, NetInv, HandleInv, ValidMeansCurrent, FdsApart
<1>2. /\ fdSeq[d] \in 0..MaxSeq /\ fdSeq'[d] = fdSeq[d] + 1
      /\ \A e \in Fd \ {d} : fdSeq'[e] = fdSeq[e]
  BY <1>1 DEF NetInv, NetTypeOK
<1>3. \A x : Knows(x) => x \in Handle /\ x.fd \in Fd /\ x.seq \in Int /\ x.seq <= fdSeq[x.fd]
  <2>1. \A x : Knows(x) => x \in Handle
    BY KnownTyped DEF NetInv
  <2> QED BY <2>1 DEF Handle, NetInv, HandleInv, SeqsBehind
<1>4. \A x : Knows(x) => (Valid(x)' <=> Valid(x) /\ x.fd /= d)
  BY <1>2, <1>3 DEF Valid
<1> HIDE DEF d
<1>5. \A x : Knows(x)' => Knows(x)
  BY NoFrameIdle DEF Knows, InIo
<1>6. \A x : Knows(x) /\ x /= h => Knows(x)'
  BY NoFrameIdle DEF Knows, InIo
<1>7. SeqsBehind'
  BY <1>2, <1>3, <1>5 DEF SeqsBehind
<1>8. FdsApart'
  BY <1>1, <1>2 DEF NetInv, HandleInv, FdsApart, NetTypeOK, SchedInv, SchedTypeOK, IsOpen, d
<1>9. \A f \in Fiber : InIo(f)' => frame'[f] = frame[f] /\ InIo(f) /\ Knows(frame[f].on)
                                  /\ frame'[f].pc \notin {"try", "check"}
  BY NoFrameIdle DEF InIo, Knows
<1>10. \A f \in Fiber : frame'[f].op = "connect" =>
         frame'[f] = frame[f] /\ InIo(f) /\ Valid(frame[f].on) /\ frame[f].on.fd /= d
  <2>1. ASSUME NEW f \in Fiber, frame'[f].op = "connect"
        PROVE  frame'[f] = frame[f] /\ InIo(f) /\ Valid(frame[f].on)
    BY <1>9, <2>1 DEF InIo, NetInv, HandleInv, FramesHold
  <2>2. ASSUME NEW f \in Fiber, frame'[f].op = "connect", frame[f].on.fd = d PROVE FALSE
    <3>1. frame[f].op = "connect"
      BY <2>1, <2>2
    <3>2. CASE h \in handles
      BY <3>1, <3>2, <2>2 DEF NetInv, HandleInv, ConnectsAlone, d
    <3>3. CASE /\ curr \in Fiber /\ frame[curr].op = "connect" /\ frame[curr].on = h
               /\ frame'[curr] = NoFrame
      BY <3>1, <3>3, <2>2, NoFrameIdle DEF NetInv, HandleInv, ConnectsAlone, d
    <3> QED BY <3>2, <3>3
  <2> QED BY <2>1, <2>2
<1>11. \A x \in handles : Knows(x)
  BY DEF Knows
<1>12. FramesHold'
  <2>1. ASSUME NEW f \in Fiber, InIo(f)', frame'[f].op = "connect"
        PROVE  frame'[f].on.seq = fdSeq'[frame'[f].on.fd]
    BY <1>4, <1>9, <1>10, <2>1 DEF Valid
  <2>2. ASSUME NEW f \in Fiber, InIo(f)', frame'[f].op /= "connect"
        PROVE  frame'[f].on \in handles'
    BY <1>9, <2>2 DEF NetInv, HandleInv, FramesHold
  <2> QED BY <1>9, <2>1, <2>2 DEF FramesHold, Valid
<1>13. ConnectsAlone'
  <2>1. ASSUME NEW f \in Fiber, frame'[f].op = "connect",
               NEW x \in handles, x.fd = frame'[f].on.fd
        PROVE  ~ Valid(x)'
    BY <1>4, <1>10, <1>11, <2>1 DEF NetInv, HandleInv, ConnectsAlone
  <2>2. ASSUME NEW f \in Fiber, frame'[f].op = "connect",
               NEW g \in Fiber, g /= f, frame'[g].op = "connect"
        PROVE  frame'[g].on.fd /= frame'[f].on.fd
    BY <1>10, <2>2 DEF NetInv, HandleInv, ConnectsAlone
  <2> QED BY <2>1, <2>2 DEF ConnectsAlone
<1>14. ValidMeansCurrent'
  <2>1. ASSUME NEW x, Knows(x), Valid(x), x.fd /= d
        PROVE  x.fd \in DOMAIN ioQ' /\ IsOpen(x.fd)' /\ x.gen = sock'[x.fd].gen
    BY <1>3, <2>1, KnownIs DEF NetInv, HandleInv, ValidMeansCurrent, IsOpen, d
  <2> QED BY <1>4, <1>5, <2>1, KnownIs DEF ValidMeansCurrent
<1>15. NoFdLeak'
  <2>1. ASSUME NEW e \in Fd \ {d}, IsOpen(e)'
        PROVE  e \in held' \/ \E x \in KnownHandles' : x.fd = e /\ Valid(x)'
    <3>1. IsOpen(e) /\ (e \in held => e \in held')
      BY <2>1 DEF IsOpen, d
    <3>2. CASE e \in held
      BY <3>1, <3>2
    <3>3. CASE e \notin held
      <4>1. PICK x : Knows(x) /\ x.fd = e /\ Valid(x)
        BY <3>1, <3>3, KnownIs DEF NetInv, HandleInv, NoFdLeak
      <4> QED BY <1>4, <1>6, <2>1, <4>1, KnownIs DEF d
    <3> QED BY <3>2, <3>3
  <2>2. IsOpen(d)' => d \in held'
    BY DEF d
  <2> QED BY <2>1, <2>2 DEF NoFdLeak
<1> QED BY <1>7, <1>8, <1>12, <1>13, <1>14, <1>15 DEF HandleInv

LEMMA FdSeqTyped ==
  ASSUME NetInv, NEW d \in DOMAIN ioQ, fdSeq' = [fdSeq EXCEPT ![d] = @ + 1]
  PROVE  fdSeq' \in [Fd -> 0..MaxSeq]
<1>1. d \in Fd /\ fdSeq[d] < MaxSeq /\ fdSeq \in [Fd -> 0..MaxSeq]
  BY DEF NetInv, NetTypeOK, SchedTypeOK, HandleInv, FdsApart
<1>2. fdSeq[d] + 1 \in 0..MaxSeq
  BY <1>1
<1> QED BY <1>1, <1>2

LEMMA UnregNet ==
  ASSUME NetInv, SchedInv', NEW h \in handles, Unreg(h) \/ Close(h),
         curr = None \/ ~ InIo(curr), UNCHANGED <<frame, unset>>
  PROVE  NetInv'
<1>1. /\ Valid(h) /\ UnregRawFd(h.fd) /\ fdSeq' = [fdSeq EXCEPT ![h.fd] = @ + 1]
      /\ handles' = handles
      /\ \/ UNCHANGED sock /\ held' = held \cup {h.fd}
         \/ sock' = [sock EXCEPT ![h.fd] = Shut(h.fd)] /\ held' = held
  BY DEF Unreg, Close
<1>2. h \in Handle /\ h.fd \in Fd /\ Knows(h)
  BY DEF NetInv, NetTypeOK, Handle, Knows
<1>3. h.fd \in DOMAIN ioQ /\ DOMAIN ioQ' = DOMAIN ioQ \ {h.fd} /\ curr' = curr
  BY <1>1, <1>2, UnregRemoves DEF NetInv
<1>4. /\ sock' \in [Fd -> Socket]
      /\ \/ UNCHANGED sock /\ held' = held \cup {h.fd}
         \/ /\ ~ IsOpen(h.fd)' /\ held' = held
            /\ \A e \in Fd \ {h.fd} : sock'[e] = sock[e]
  BY <1>1, <1>2, ShutSock, SockSet DEF NetInv, NetTypeOK, IsOpen
<1>5. NetTypeOK'
  BY <1>1, <1>2, <1>3, <1>4, FdSeqTyped DEF NetInv, NetTypeOK, SchedInv
<1> QED BY <1>1, <1>2, <1>3, <1>4, <1>5, IdleFrames, UnregisterInv DEF NetInv

LEMMA ConnectFailsNet ==
  ASSUME NetInv, SchedInv', ConnectFails
  PROVE  NetInv'
<1>1. At({"connect"}, "woken")
  BY DEF ConnectFails
<1>2. /\ curr \in Fiber /\ InIo(curr) /\ frame[curr].op = "connect" /\ frame[curr].pc = "woken"
      /\ frame[curr].on \in Handle
  BY <1>1, AtFrame DEF NetInv, Ops
<1>3. PICK h \in Handle : h = frame[curr].on
  BY <1>2
<1>4. /\ Return /\ unset' = unset \ {curr}
      /\ Valid(h) /\ UnregRawFd(h.fd) /\ fdSeq' = [fdSeq EXCEPT ![h.fd] = @ + 1]
      /\ sock' = [sock EXCEPT ![h.fd] = Shut(h.fd)] /\ UNCHANGED <<held, handles>>
  BY <1>3 DEF ConnectFails, Close
<1>5. h.fd \in Fd /\ Knows(h)
  BY <1>2, <1>3 DEF Knows, Handle
<1>6. h.fd \in DOMAIN ioQ /\ DOMAIN ioQ' = DOMAIN ioQ \ {h.fd} /\ curr' = curr
  BY <1>4, <1>5, UnregRemoves DEF NetInv
<1>7. /\ sock' \in [Fd -> Socket] /\ ~ IsOpen(h.fd)'
      /\ \A e \in Fd \ {h.fd} : sock'[e] = sock[e]
  BY <1>4, <1>5, ShutSock, SockSet DEF NetInv, IsOpen
<1>8. /\ frame' \in [Fiber -> Frame \cup {NoFrame}] /\ frame'[curr] = NoFrame
      /\ \A f \in Fiber \ {curr} : frame'[f] = frame[f]
  BY <1>2, <1>4, FrameSet DEF Return, NetInv
<1>9. NetTypeOK'
  BY <1>4, <1>6, <1>7, <1>8, FdSeqTyped DEF NetInv, NetTypeOK, SchedInv
<1>10. \A f \in Fiber : frame[f].pc \notin {"try", "check"}
  <2>1. \A f \in Fiber : ~ InIo(f) => frame[f].pc = "none"
    BY FrameOf DEF NetInv
  <2> QED BY <1>2, <2>1 DEF NetInv, HandleInv, FramesHold
<1>11. HandleInv'
  BY <1>2, <1>3, <1>4, <1>5, <1>6, <1>7, <1>8, <1>9, <1>10, UnregisterInv
<1> QED BY <1>9, <1>11 DEF NetInv

\* The handle changes hands, and nothing else.
LEMMA ConnectSucceedsNet ==
  ASSUME NetInv, SchedInv', ConnectSucceeds, UNCHANGED unset
  PROVE  NetInv'
<1> DEFINE h == frame[curr].on
<1>1. /\ At({"connect"}, "woken") /\ Return /\ handles' = handles \cup {h}
      /\ UNCHANGED <<curr, ioQ, sock, held, fdSeq>>
  BY DEF ConnectSucceeds, schedVars
<1>2. /\ curr \in Fiber /\ InIo(curr) /\ frame[curr].op = "connect" /\ frame[curr].pc = "woken"
      /\ h \in Handle /\ h.fd \in Fd
  BY <1>1, AtFrame DEF NetInv, Ops
<1>3. /\ frame' \in [Fiber -> Frame \cup {NoFrame}] /\ frame'[curr] = NoFrame
      /\ \A f \in Fiber \ {curr} : frame'[f] = frame[f]
  BY <1>1, <1>2, FrameSet DEF Return, NetInv
<1>4. NetTypeOK'
  BY <1>1, <1>2, <1>3 DEF NetInv, NetTypeOK, SchedInv
<1>5. Valid(h) /\ \A x : Valid(x)' <=> Valid(x)
  BY <1>1, <1>2 DEF NetInv, HandleInv, FramesHold, Valid
<1>6. \A x : Knows(x)' <=> Knows(x)
  BY <1>1, <1>2, <1>3, NoFrameIdle DEF Knows, InIo
<1>7. SeqsBehind' /\ FdsApart' /\ ValidMeansCurrent' /\ NoFdLeak'
  BY <1>1, <1>5, <1>6, KnownIs
     DEF NetInv, HandleInv, SeqsBehind, FdsApart, ValidMeansCurrent, NoFdLeak, IsOpen
<1>8. \A f \in Fiber : InIo(f)' => f /= curr /\ frame'[f] = frame[f] /\ InIo(f)
  BY <1>3, NoFrameIdle DEF InIo
<1>9. FramesHold'
  BY <1>1, <1>5, <1>8 DEF NetInv, HandleInv, FramesHold, Valid
<1>10. ConnectsAlone'
  <2>1. \A f \in Fiber : frame'[f].op = "connect" =>
          f /= curr /\ frame'[f] = frame[f] /\ frame[f].on.fd /= h.fd
    BY <1>2, <1>8 DEF InIo, NetInv, HandleInv, ConnectsAlone
  <2> QED BY <1>1, <1>5, <2>1 DEF NetInv, HandleInv, ConnectsAlone
<1> QED BY <1>4, <1>7, <1>9, <1>10 DEF NetInv, HandleInv

-----------------------------------------------------------------------------
(* The invariant.                                                          *)

LEMMA NetInitInv == NetInit => NetInv
<1> SUFFICES ASSUME NetInit PROVE NetInv
  OBVIOUS
<1>1. SchedInv
  BY InitInv DEF NetInit
<1>2. [kind |-> "none", gen |-> 0, in |-> 0, room |-> 0, hup |-> FALSE] \in Socket
  BY DEF Socket, Kinds
<1>3. NetTypeOK
  BY <1>1, <1>2 DEF NetInit, NetTypeOK, SchedInv
<1>4. /\ \A f \in Fiber : frame[f].op = "none" /\ ~ InIo(f)
      /\ \A d \in Fd : ~ IsOpen(d)
      /\ DOMAIN ioQ = {} /\ held = {} /\ handles = {}
  BY DEF NetInit, SchedInit, NoFrame, InIo, IsOpen
<1>5. SeqsBehind /\ FdsApart /\ FramesHold /\ ConnectsAlone
  BY <1>4 DEF SeqsBehind, Knows, FdsApart, FramesHold, ConnectsAlone
<1>6. ValidMeansCurrent /\ NoFdLeak
  BY <1>4 DEF ValidMeansCurrent, KnownHandles, NoFdLeak
<1> QED BY <1>1, <1>3, <1>5, <1>6 DEF NetInv, HandleInv

LEMMA NetNextInv == NetInv /\ [NetNext]_netVars => NetInv'
<1> SUFFICES ASSUME NetInv, [NetNext]_netVars PROVE NetInv'
  OBVIOUS
<1>1. SchedInv'
  BY NetStepIsSchedStep, NextInv DEF NetInv
<1>2. CASE UserLeave
  BY <1>1, <1>2, LoopNet DEF UserLeave
<1>3. CASE UserCall
  <2>1. (curr = None \/ ~ InIo(curr)) /\ UNCHANGED <<frame, unset>>
    BY <1>3 DEF UserCall
  <2>2. CASE Create /\ UNCHANGED objects
    BY <1>1, <2>1, <2>2, CreateNet
  <2>3. CASE \E d \in Fd : CloseRaw(d) \/ FromRawFd(d) \/ ListenStream(d)
    BY <1>1, <2>1, <2>3, CloseRawNet, FromRawFdNet, ListenNet
  <2>5. CASE \E d \in Fd, k \in {"conn", "listen"} : OpenRaw(d, k)
    BY <1>1, <2>1, <2>5, OpenRawNet
  <2>4. CASE \E h \in handles : Unreg(h) \/ Close(h)
    BY <1>1, <2>1, <2>4, UnregNet
  <2> QED BY <1>3, <2>2, <2>3, <2>4, <2>5 DEF UserCall
<1>4. CASE UserIo
  BY <1>1, <1>4, IoStartNet, ConnectStartNet, ConnectNoSocketNet DEF UserIo
<1>5. CASE IoStep
  BY <1>1, <1>5, ReadNet, WriteNet, AcceptNet, StayNet, ParkNet, ConnectSucceedsNet,
     ConnectFailsNet DEF IoStep
<1>6. CASE NetLoop \/ NetTick
  BY <1>1, <1>6, LoopNet DEF NetLoop, NetTick
<1>7. CASE Kernel
  BY <1>1, <1>7, KernelNet
<1>8. CASE (Run \/ WaitInterrupted \/ WaitFailed) /\ UNCHANGED <<objects, frame, unset>>
  BY <1>1, <1>8, LoopNet
<1>9. CASE UNCHANGED netVars
  <2>1. UNCHANGED <<curr, ioQ, sock, held, fdSeq, handles, frame, unset>>
    BY <1>9 DEF netVars, schedVars
  <2> QED BY <1>1, <2>1, SameSock, QuietNet DEF FrameSteps, NetInv, NetTypeOK
<1> QED BY <1>2, <1>3, <1>4, <1>5, <1>6, <1>7, <1>8, <1>9 DEF NetNext

-----------------------------------------------------------------------------
(* The theorems.                                                           *)

(* The inductive invariant of Net. *)
THEOREM NetInvariant == NetSpec => []NetInv
BY NetInitInv, NetNextInv, PTL DEF NetSpec

(* Connections, listeners and fds use the scheduler as Sched allows its    *)
(* callers to, so that every invariant of Sched holds under them.          *)
THEOREM NetRefinesSched == NetSpec => SchedSpec
<1>1. NetInit => SchedInit
  BY DEF NetInit
<1>2. NetInv /\ [NetNext]_netVars => [SchedNext]_schedVars
  BY NetStepIsSchedStep DEF NetInv
<1> QED BY <1>1, <1>2, NetInvariant, PTL DEF NetSpec, SchedSpec

(* Type correctness. *)
THEOREM NetTypeCorrect == NetSpec => []NetTypeOK
BY NetInvariant, PTL DEF NetInv

(* A handle that is valid is registered and stands for the socket that it  *)
(* was made for.                                                           *)
THEOREM ValidHandlesAreCurrent == NetSpec => []ValidMeansCurrent
BY NetInvariant, PTL DEF NetInv, HandleInv

(* An operation that goes on after its park is on the socket it began on.  *)
THEOREM OperationsStayOnSocket == NetSpec => []ActsOnItsSocket
<1>1. NetInv => ActsOnItsSocket
  <2> SUFFICES ASSUME NetInv, NEW f \in Fiber, frame[f].pc \in {"try", "check"}
               PROVE  sock[frame[f].on.fd].gen = frame[f].on.gen /\ frame[f].on.fd \in DOMAIN ioQ
    BY DEF ActsOnItsSocket
  <2>1. InIo(f)
    BY FrameOf DEF NetInv
  <2>2. Valid(frame[f].on) /\ frame[f].on \in KnownHandles
    BY <2>1 DEF NetInv, HandleInv, FramesHold, KnownHandles
  <2> QED BY <2>2 DEF NetInv, HandleInv, ValidMeansCurrent
<1> QED BY <1>1, NetInvariant, PTL

(* Every open fd has an owner who can close it.                            *)
THEOREM NoFdLeaks == NetSpec => []NoFdLeak
BY NetInvariant, PTL DEF NetInv, HandleInv

-----------------------------------------------------------------------------
(* No wake-up is lost, and connects end established: the parked fibers and *)
(* those between a call that would block and their park, against the edges *)
(* that epoll still has to report.                                         *)

\* What f waits for, or is about to park for after a call that would block.
Reads(f, d) ==
  \/ d \in evs[f].r
  \/ frame[f].pc = "check" /\ frame[f].op \in {"read", "accept"} /\ frame[f].on.fd = d

Writes(f, d) ==
  \/ d \in evs[f].w
  \/ frame[f].pc = "check" /\ frame[f].op \in {"write", "writeall", "connect"}
     /\ frame[f].on.fd = d

Lost(f, d) ==
  /\ d \notin pending
  /\ \/ Reads(f, d) /\ Readable(d)
     \/ Writes(f, d) /\ Writable(d)

NoneLost == \A f \in Fiber, d \in Fd : ~ Lost(f, d)

\* Only a connect has a socket that is connecting, or was refused.
KindsFit ==
  /\ \A h \in handles : Valid(h) => sock[h.fd].kind \in {"conn", "listen"}
  /\ \A d \in held : sock[d].kind \in {"conn", "listen"}
  /\ \A d \in Fd : sock[d].kind = "connecting" => sock[d].room = 0 /\ ~ sock[d].hup
  /\ \A f \in Fiber : frame[f].op = "connect" =>
       sock[frame[f].on.fd].kind \in {"connecting", "conn", "refused"}

\* A connect is parked until its socket is decided or its time is over.
ConnectsWait ==
  \A f \in Fiber : frame[f].op = "connect" /\ frame[f].pc = "woken" =>
    \/ evs[f] = Await(frame[f].expire, {}, {frame[f].on.fd}, {})
    \/ TimedOut(f)
    \/ sock[frame[f].on.fd].kind \in {"conn", "refused"}

WakeInv ==
  NetInv /\ DOMAIN ioQ \subseteq interest /\ KindsFit /\ ConnectsWait /\ NoneLost

-----------------------------------------------------------------------------

\* A socket that carries on as it is, or whose handshake ends.
SameKind(d) ==
  \/ /\ sock'[d].kind = sock[d].kind
     /\ (sock[d].kind = "connecting" => sock'[d].room = sock[d].room /\ sock'[d].hup = sock[d].hup)
  \/ sock[d].kind = "connecting" /\ sock'[d].kind \in {"conn", "refused"}

LEMMA OnOpenFd ==
  ASSUME NetInv
  PROVE  /\ \A x \in handles : Valid(x) => x.fd \in Fd /\ x.fd \in DOMAIN ioQ /\ IsOpen(x.fd)
         /\ \A f \in Fiber : frame[f].op = "connect" \/ frame[f].pc \in {"try", "check"} =>
              /\ InIo(f) /\ Valid(frame[f].on) /\ frame[f].on.fd \in Fd
              /\ frame[f].on.fd \in DOMAIN ioQ /\ IsOpen(frame[f].on.fd)
         /\ \A d \in held : d \in Fd /\ d \notin DOMAIN ioQ /\ IsOpen(d)
<1>1. \A x : Knows(x) => x.fd \in Fd
  BY KnownTyped DEF NetInv, Handle
<1>2. \A x : Knows(x) /\ Valid(x) => x.fd \in DOMAIN ioQ /\ IsOpen(x.fd)
  BY KnownIs DEF NetInv, HandleInv, ValidMeansCurrent
<1>3. ASSUME NEW f \in Fiber, frame[f].op = "connect" \/ frame[f].pc \in {"try", "check"}
      PROVE  InIo(f) /\ Valid(frame[f].on) /\ Knows(frame[f].on)
  <2>1. InIo(f)
    BY <1>3, FrameOf DEF NetInv, InIo
  <2> QED BY <1>3, <2>1 DEF Knows, NetInv, HandleInv, FramesHold
<1>4. \A d \in held : d \in Fd /\ d \notin DOMAIN ioQ /\ IsOpen(d)
  BY DEF NetInv, NetTypeOK, HandleInv, FdsApart
<1> QED BY <1>1, <1>2, <1>3, <1>4 DEF Knows

\* Everything happens to the socket of d; the others carry on.
LEMMA KindsStep ==
  ASSUME NetInv, NetInv', KindsFit, NEW d \in Fd,
         \A e \in Fd \ {d} : SameKind(e),
         \A x \in handles' : x.fd /= d /\ Valid(x)' => x \in handles /\ Valid(x),
         held' \ {d} \subseteq held,
         \A f \in Fiber : frame'[f].op = "connect" /\ frame'[f].on.fd /= d =>
           frame[f].op = "connect" /\ frame'[f].on = frame[f].on,
         \/ sock'[d].kind = "conn"
         \/ sock'[d].kind = "none"
         \/ /\ sock'[d].kind = "listen"
            /\ \A f \in Fiber : frame'[f].op = "connect" => frame'[f].on.fd /= d
         \/ /\ sock'[d].kind = "connecting" /\ sock'[d].room = 0 /\ sock'[d].hup = FALSE
            /\ d \notin held'
            /\ \A x \in handles' : Valid(x)' => x.fd /= d
  PROVE  KindsFit'
<1>1. /\ \A x \in handles' : Valid(x)' => x.fd \in Fd /\ sock'[x.fd].kind /= "none"
      /\ \A f \in Fiber : frame'[f].op = "connect" =>
           frame'[f].on.fd \in Fd /\ sock'[frame'[f].on.fd].kind /= "none"
      /\ \A e \in held' : e \in Fd /\ sock'[e].kind /= "none"
  <2>1. \A x : x \in KnownHandles' /\ Valid(x)' => sock'[x.fd].kind /= "none"
    BY DEF NetInv, HandleInv, ValidMeansCurrent, IsOpen
  <2>2. \A x : Knows(x)' => x.fd \in Fd
    BY KnownTyped DEF NetInv, Handle
  <2>3. ASSUME NEW f \in Fiber, frame'[f].op = "connect", NEW x, x = frame'[f].on
        PROVE  Knows(x)' /\ Valid(x)'
    <3>1. InIo(f)'
      BY <2>3 DEF InIo
    <3>2. x.seq = fdSeq'[x.fd]
      BY <2>3, <3>1 DEF NetInv, HandleInv, FramesHold, Valid
    <3> QED BY <2>3, <3>1, <3>2 DEF Knows, Valid, InIo
  <2>4. \A e \in held' : e \in Fd /\ sock'[e].kind /= "none"
    BY DEF NetInv, NetTypeOK, HandleInv, FdsApart, IsOpen
  <2> QED BY <2>1, <2>2, <2>3, <2>4, KnownIs DEF Knows
<1>2. \A x \in handles' : Valid(x)' => sock'[x.fd].kind \in {"conn", "listen"}
  BY <1>1 DEF KindsFit, SameKind
<1>3. \A e \in held' : sock'[e].kind \in {"conn", "listen"}
  BY <1>1 DEF KindsFit, SameKind
<1>4. \A e \in Fd : sock'[e].kind = "connecting" => sock'[e].room = 0 /\ sock'[e].hup = FALSE
  BY DEF KindsFit, SameKind, NetInv, NetTypeOK, Socket
<1>5. \A f \in Fiber : frame'[f].op = "connect" =>
        sock'[frame'[f].on.fd].kind \in {"connecting", "conn", "refused"}
  BY <1>1 DEF KindsFit, SameKind
<1> QED BY <1>2, <1>3, <1>4, <1>5 DEF KindsFit

-----------------------------------------------------------------------------
(* What the steps of the scheduler do to those who wait.                   *)

EvsShrink ==
  \A f \in Fiber : evs'[f].r \subseteq evs[f].r /\ evs'[f].w \subseteq evs[f].w

\* No connect is woken but by its time or its socket.
ConnectsStay ==
  \A f \in Fiber : frame[f].op = "connect" /\ frame[f].pc = "woken" =>
    \/ evs'[f] = evs[f]
    \/ TimedOut(f)
    \/ sock[frame[f].on.fd].kind \in {"conn", "refused"}

LEMMA WakeShrinks ==
  ASSUME SchedInv, NEW F \in SUBSET Fiber, evs' = EvsAfterWake(F)
  PROVE  /\ EvsShrink
         /\ \A f \in Fiber : evs'[f] = IF f \in F THEN NoEvents ELSE evs[f]
<1>1. \A f \in Fiber : evs'[f] = IF f \in F THEN NoEvents ELSE evs[f]
  BY DEF EvsAfterWake
<1>2. NoEvents.r = {} /\ NoEvents.w = {}
  BY DEF NoEvents
<1> QED BY <1>1, <1>2 DEF EvsShrink

\* A fiber that gives up the thread for other reasons than an fd.
LEMMA LeaveEvs ==
  ASSUME NetInv, UserLeave
  PROVE  /\ EvsShrink /\ ConnectsStay
         /\ UNCHANGED <<now, interest, pending>>
<1>1. curr \in Fiber /\ ~ InIo(curr) /\ evs \in [Fiber -> Events]
  BY DEF UserLeave, NetInv, SchedInv, SchedTypeOK
<1>2. \E e : e.r = {} /\ e.w = {} /\ evs' = [evs EXCEPT ![curr] = e]
  <2>1. NoEvents.r = {} /\ NoEvents.w = {}
    BY DEF NoEvents
  <2>2. \A t : Await(t, {}, {}, {}).r = {} /\ Await(t, {}, {}, {}).w = {}
    BY DEF Await
  <2>3. CASE Yield \/ Finish
    BY <2>1, <2>3 DEF Yield, Finish, SwitchToSchedFiber
  <2>4. CASE SleepMS
    BY <2>2, <2>4 DEF SleepMS, SwitchToSchedFiber
  <2> QED BY <2>3, <2>4 DEF UserLeave
<1>3. PICK e : e.r = {} /\ e.w = {} /\ evs' = [evs EXCEPT ![curr] = e]
  BY <1>2
<1>4. evs'[curr] = e /\ \A f \in Fiber \ {curr} : evs'[f] = evs[f]
  BY <1>1, <1>3
<1>5. UNCHANGED <<now, interest, pending>>
  BY DEF UserLeave, Yield, SleepMS, Finish, SwitchToSchedFiber, kernel
<1>6. EvsShrink
  BY <1>3, <1>4 DEF EvsShrink
<1>7. ConnectsStay
  BY <1>1, <1>4 DEF ConnectsStay, InIo
<1> QED BY <1>5, <1>6, <1>7

\* The fibers that "check expiring" wakes.
LEMMA DueIsOver ==
  ASSUME NetInv, CheckExpiring, NEW f \in Fiber, evs'[f] /= evs[f]
  PROVE  evs[f].expire \in 0..now
<1> DEFINE F == UNION {expireQ[t] : t \in Due}
<1>1. evs' = EvsAfterWake(F)
  BY DEF CheckExpiring
<1>2. f \in F
  BY <1>1 DEF EvsAfterWake
<1>3. PICK t \in DOMAIN expireQ : t <= now /\ f \in expireQ[t]
  BY <1>2 DEF Due
<1>4. t \in Time /\ now \in Time /\ evs[f].expire = t
  BY <1>3 DEF NetInv, SchedInv, SchedTypeOK, QueuesConsistent, ExpireConsistent
<1> QED BY <1>3, <1>4 DEF Time

LEMMA ExpireEvs ==
  ASSUME NetInv, ConnectsWait, CheckExpiring
  PROVE  /\ EvsShrink /\ ConnectsStay
         /\ UNCHANGED <<now, interest, pending>>
<1> DEFINE F == UNION {expireQ[t] : t \in Due}
<1>1. F \in SUBSET Fiber
  BY QueuedAreParked DEF Due, NetInv
<1>2. evs' = EvsAfterWake(F) /\ UNCHANGED <<now, interest, pending>>
  BY DEF CheckExpiring, kernel
<1> HIDE DEF F
<1>4. EvsShrink /\ \A f \in Fiber : evs'[f] = IF f \in F THEN NoEvents ELSE evs[f]
  BY <1>1, <1>2, WakeShrinks DEF NetInv
<1>5. ConnectsStay
  <2> SUFFICES ASSUME NEW f \in Fiber, frame[f].op = "connect", frame[f].pc = "woken", f \in F,
                      evs[f] = Await(frame[f].expire, {}, {frame[f].on.fd}, {}),
                      evs'[f] /= evs[f]
               PROVE  TimedOut(f)
    BY <1>4 DEF ConnectsStay, ConnectsWait
  <2>1. evs[f].expire = frame[f].expire
    BY DEF Await
  <2> QED BY <2>1, DueIsOver DEF TimedOut
<1> QED BY <1>2, <1>4, <1>5

LEMMA WritableDecided ==
  ASSUME KindsFit, NEW d \in Fd, Writable(d)
  PROVE  sock[d].kind /= "connecting"
BY DEF KindsFit, Writable

\* The fibers that the events of an epoll_wait wake.
LEMMA ReportWoken ==
  ASSUME NetInv, NEW in \in SUBSET Fd, NEW out \in SUBSET Fd, NEW f \in Fiber
  PROVE  f \in IoWoken(in, out) <=> \/ \E d \in in : d \in evs[f].r
                                    \/ \E d \in out : d \in evs[f].w
<1>1. \A d \in DOMAIN ioQ : /\ ioQ[d].r = {g \in Fiber : d \in evs[g].r}
                            /\ ioQ[d].w = {g \in Fiber : d \in evs[g].w}
  BY DEF NetInv, SchedInv, QueuesConsistent, IoConsistent
<1>2. evs[f].r \cup evs[f].w \subseteq DOMAIN ioQ
  BY DEF NetInv, SchedInv, QueuesConsistent, IoConsistent
<1> DEFINE R == UNION {ioQ[d].r : d \in in \cap DOMAIN ioQ}
           W == UNION {ioQ[d].w : d \in out \cap DOMAIN ioQ}
<1>3. f \in R <=> \E d \in in : d \in evs[f].r
  BY <1>1, <1>2
<1>4. f \in W <=> \E d \in out : d \in evs[f].w
  BY <1>1, <1>2
<1>5. IoWoken(in, out) = R \cup W
  BY DEF IoWoken
<1> HIDE DEF R, W
<1> QED BY <1>3, <1>4, <1>5

LEMMA ReportWakes ==
  ASSUME NetInv, NEW in \in SUBSET Fd, NEW out \in SUBSET Fd, Report(in, out),
         NEW f \in Fiber, evs'[f] /= evs[f]
  PROVE  WokenForIo(f)
<1>1. /\ in = {d \in in \cup out : Readable(d)} /\ out = {d \in in \cup out : Writable(d)}
      /\ in \cup out \subseteq pending /\ evs' = EvsAfterWake(IoWoken(in, out))
      /\ pending' = pending \ (in \cup out)
  BY DEF Report, WaitReturns
<1>2. f \in IoWoken(in, out)
  BY <1>1 DEF EvsAfterWake
<1>3. \A d \in in : WokenToRead(d)
  BY <1>1 DEF WokenToRead
<1>4. \A d \in out : WokenToWrite(d)
  BY <1>1 DEF WokenToWrite
<1> QED BY <1>2, <1>3, <1>4, ReportWoken DEF WokenForIo

LEMMA ReportEvs ==
  ASSUME NetInv, KindsFit, ConnectsWait, NoneLost,
         NEW in \in SUBSET Fd, NEW out \in SUBSET Fd, Report(in, out), UNCHANGED <<sock, frame>>
  PROVE  /\ EvsShrink /\ ConnectsStay /\ NoneLost'
         /\ UNCHANGED <<now, interest>>
<1> DEFINE F == IoWoken(in, out)
<1>1. /\ in = {d \in in \cup out : Readable(d)} /\ out = {d \in in \cup out : Writable(d)}
      /\ phase = "wait" /\ evs' = EvsAfterWake(F) /\ pending' = pending \ (in \cup out)
      /\ UNCHANGED <<now, interest>>
  BY DEF Report, WaitReturns
<1>2. F \in SUBSET Fiber
  BY QueuedAreParked DEF IoWoken, NetInv
<1>5. \A f \in Fiber : f \in F <=> \/ \E d \in in : d \in evs[f].r
                                   \/ \E d \in out : d \in evs[f].w
  BY ReportWoken
<1> HIDE DEF F
<1>6. EvsShrink /\ \A f \in Fiber : evs'[f] = IF f \in F THEN NoEvents ELSE evs[f]
  BY <1>1, <1>2, WakeShrinks DEF NetInv
<1>7. ConnectsStay
  <2> SUFFICES ASSUME NEW f \in Fiber, frame[f].op = "connect", frame[f].pc = "woken", f \in F,
                      evs[f] = Await(frame[f].expire, {}, {frame[f].on.fd}, {})
               PROVE  sock[frame[f].on.fd].kind \in {"conn", "refused"}
    BY <1>6 DEF ConnectsStay, ConnectsWait
  <2>1. evs[f].r = {} /\ evs[f].w = {frame[f].on.fd}
    BY DEF Await
  <2>2. frame[f].on.fd \in out
    BY <1>5, <2>1
  <2> QED BY <1>1, <2>2, WritableDecided DEF KindsFit
<1>8. curr = None
  BY <1>1 DEF NetInv, SchedInv, Placement
<1>9. \A f \in Fiber : frame[f].pc /= "check"
  BY <1>8, IdleFrames
<1>10. NoneLost'
  <2> SUFFICES ASSUME NEW f \in Fiber, NEW d \in Fd, Lost(f, d)'
               PROVE  FALSE
    BY DEF NoneLost
  <2>1. /\ d \notin pending \/ d \in in \cup out
        /\ (Readable(d)' <=> Readable(d)) /\ (Writable(d)' <=> Writable(d))
    BY <1>1 DEF Lost, Readable, Writable
  <2>2. \/ d \in evs'[f].r /\ Readable(d)
        \/ d \in evs'[f].w /\ Writable(d)
    BY <1>9, <2>1 DEF Lost, Reads, Writes
  <2>3. f \notin F
    BY <1>6, <2>2 DEF NoEvents
  <2>4. \/ d \in evs[f].r /\ Readable(d)
        \/ d \in evs[f].w /\ Writable(d)
    BY <1>6, <2>2, <2>3
  <2>5. d \in pending
    BY <2>4 DEF NoneLost, Lost, Reads, Writes
  <2> QED BY <1>1, <1>5, <2>1, <2>3, <2>4, <2>5
<1> QED BY <1>1, <1>6, <1>7, <1>10

LEMMA ShrinkKeeps ==
  ASSUME NoneLost, EvsShrink, UNCHANGED <<sock, frame, pending>>
  PROVE  NoneLost'
<1>1. \A d \in Fd : (Readable(d)' <=> Readable(d)) /\ (Writable(d)' <=> Writable(d))
  BY DEF Readable, Writable
<1>2. \A f \in Fiber, d \in Fd : (Reads(f, d)' => Reads(f, d)) /\ (Writes(f, d)' => Writes(f, d))
  BY DEF EvsShrink, Reads, Writes
<1> QED BY <1>1, <1>2 DEF NoneLost, Lost

LEMMA SameEvs ==
  ASSUME evs' = evs
  PROVE  EvsShrink /\ ConnectsStay
BY DEF EvsShrink, ConnectsStay

LEMMA StillEvs ==
  ASSUME WakeInv, UNCHANGED <<sock, frame>>,
         \/ UserLeave \/ Create \/ NetLoop \/ NetTick \/ Run \/ WaitInterrupted \/ WaitFailed
         \/ UNCHANGED schedVars
  PROVE  /\ ConnectsStay /\ NoneLost' /\ interest' = interest
         /\ now' \in {now, now + 1}
<1> USE DEF WakeInv
<1>1. CASE UserLeave
  BY <1>1, LeaveEvs, ShrinkKeeps
<1>2. CASE \/ Create \/ TakeReady \/ Resume \/ EnterWait \/ WaitTimedOut \/ Tick \/ Run
           \/ WaitInterrupted \/ WaitFailed
  <2>1. UNCHANGED <<evs, interest, pending>> /\ now' \in {now, now + 1}
    BY <1>2 DEF Create, TakeReady, Resume, EnterWait, WaitTimedOut, Tick, Run, WaitInterrupted,
                WaitFailed, queues, kernel
  <2> QED BY <2>1, SameEvs, ShrinkKeeps
<1>3. CASE CheckExpiring
  BY <1>3, ExpireEvs, ShrinkKeeps
<1>4. CASE \E in, out \in SUBSET Fd : Report(in, out)
  BY <1>4, ReportEvs
<1>5. CASE \E d \in Fd : DropEdge(d)
  <2>1. PICK d \in Fd : DropEdge(d)
    BY <1>5
  <2>2. /\ UNCHANGED <<evs, interest, now>> /\ pending' = pending \ {d}
        /\ ~ Readable(d) /\ ~ Writable(d)
    BY <2>1 DEF DropEdge, EdgeOver, queues
  <2>3. NoneLost'
    BY <2>2 DEF NoneLost, Lost, Reads, Writes, Readable, Writable
  <2> QED BY <2>2, <2>3, SameEvs
<1>6. CASE UNCHANGED schedVars
  <2>1. UNCHANGED <<evs, interest, pending, now>>
    BY <1>6 DEF schedVars
  <2> QED BY <2>1, SameEvs, ShrinkKeeps
<1> QED BY <1>1, <1>2, <1>3, <1>4, <1>5, <1>6 DEF NetLoop, NetTick

-----------------------------------------------------------------------------
(* The steps.                                                              *)

\* The connects go on waiting: none moves but the one that runs.
LEMMA WaitOn ==
  ASSUME NetInv, KindsFit, ConnectsWait, ConnectsStay, now' \in {now, now + 1},
         \A d \in Fd : IsOpen(d) => SameKind(d) \/ sock'[d].kind = "none",
         \A f \in Fiber : frame'[f].op = "connect" /\ frame'[f].pc = "woken" =>
           frame'[f] = frame[f] /\ sock'[frame[f].on.fd].kind /= "none"
  PROVE  ConnectsWait'
<1> SUFFICES ASSUME NEW f \in Fiber, frame'[f].op = "connect", frame'[f].pc = "woken"
             PROVE  \/ evs'[f] = Await(frame'[f].expire, {}, {frame'[f].on.fd}, {})
                    \/ TimedOut(f)'
                    \/ sock'[frame'[f].on.fd].kind \in {"conn", "refused"}
  BY DEF ConnectsWait, Await
<1>1. frame'[f] = frame[f] /\ frame[f].op = "connect" /\ frame[f].pc = "woken"
  OBVIOUS
<1>2. now \in Nat /\ frame[f].on.fd \in Fd /\ IsOpen(frame[f].on.fd)
  BY <1>1, OnOpenFd DEF NetInv, NetTypeOK, SchedTypeOK, Time
<1>3. TimedOut(f) => TimedOut(f)'
  BY <1>1, <1>2 DEF TimedOut
<1>4. sock[frame[f].on.fd].kind \in {"conn", "refused"} =>
        sock'[frame[f].on.fd].kind \in {"conn", "refused"}
  BY <1>1, <1>2 DEF SameKind
<1> QED BY <1>1, <1>3, <1>4 DEF ConnectsWait, ConnectsStay

LEMMA StillWake ==
  ASSUME WakeInv, NetInv', UNCHANGED <<objects, frame>>,
         \/ UserLeave \/ Create \/ NetLoop \/ NetTick \/ Run \/ WaitInterrupted \/ WaitFailed
         \/ UNCHANGED schedVars
  PROVE  WakeInv'
<1>1. ConnectsStay /\ NoneLost' /\ interest' = interest /\ now' \in {now, now + 1}
  BY StillEvs DEF objects
<1>2. DOMAIN ioQ' = DOMAIN ioQ
  BY LoopKeepsFds DEF WakeInv, NetInv, Create, queues, schedVars
<1>3. KindsFit'
  BY DEF WakeInv, KindsFit, objects, Valid
<1>4. \A d \in Fd : SameKind(d)
  BY DEF SameKind, objects
<1>5. \A f \in Fiber : frame'[f].op = "connect" => frame'[f] = frame[f]
                         /\ sock'[frame[f].on.fd].kind /= "none"
  BY OnOpenFd DEF WakeInv, objects, IsOpen
<1>6. ConnectsWait'
  BY <1>1, <1>4, <1>5, WaitOn DEF WakeInv
<1> QED BY <1>1, <1>2, <1>3, <1>6 DEF WakeInv

\* Traffic, and the end of a handshake.
LEMMA KindsSame ==
  ASSUME NetInv, NetTypeOK', KindsFit, UNCHANGED <<held, fdSeq, handles>>,
         \A e \in Fd : SameKind(e),
         \A f \in Fiber : frame'[f].op = "connect" =>
           frame[f].op = "connect" /\ frame'[f].on = frame[f].on
  PROVE  KindsFit'
<1>1. \A x \in handles' : Valid(x)' => sock'[x.fd].kind \in {"conn", "listen"}
  BY OnOpenFd DEF KindsFit, SameKind, Valid
<1>2. \A e \in held' : sock'[e].kind \in {"conn", "listen"}
  BY OnOpenFd DEF KindsFit, SameKind
<1>3. \A e \in Fd : sock'[e].kind = "connecting" => sock'[e].room = 0 /\ sock'[e].hup = FALSE
  <2>1. \A e \in Fd : sock[e].kind = "connecting" => sock[e].room = 0 /\ sock[e].hup = FALSE
    BY DEF KindsFit, NetInv, NetTypeOK, Socket
  <2> QED BY <2>1 DEF SameKind
<1>4. \A f \in Fiber : frame'[f].op = "connect" =>
        sock'[frame'[f].on.fd].kind \in {"connecting", "conn", "refused"}
  BY OnOpenFd DEF KindsFit, SameKind
<1> QED BY <1>1, <1>2, <1>3, <1>4 DEF KindsFit

LEMMA AwaitRegistered ==
  ASSUME NetInv, NEW f \in Fiber, NEW d, Reads(f, d) \/ Writes(f, d)
  PROVE  d \in DOMAIN ioQ
BY OnOpenFd DEF Reads, Writes, NetInv, SchedInv, QueuesConsistent, IoConsistent

LEMMA SignalPends ==
  ASSUME NEW d \in Fd, Signal(d)
  PROVE  /\ UNCHANGED <<ioQ, curr, evs, interest, now>>
         /\ d \in interest => d \in pending'
         /\ \A e : e \in pending => e \in pending'
BY DEF Signal, Edge, schedVars, queues

LEMMA KernelWake ==
  ASSUME WakeInv, NetInv', Kernel
  PROVE  WakeInv'
<1> USE DEF WakeInv
<1>1. PICK d \in Fd : Arrive(d) \/ PeerTakes(d) \/ PeerCloses(d) \/ Established(d)
  BY DEF Kernel
<1>2. UNCHANGED <<ioQ, evs, interest, now, held, fdSeq, handles, frame>>
  BY <1>1, SignalPends
     DEF Arrive, PeerTakes, PeerCloses, Established, Signal, schedVars, Kernel
<1>3. sock \in [Fd -> Socket]
  BY DEF NetInv, NetTypeOK
<1>4. SameKind(d) /\ \A e \in Fd \ {d} : sock'[e] = sock[e]
  <2>1. CASE Arrive(d)
    BY <1>3, <2>1 DEF Arrive, SameKind
  <2>2. CASE PeerTakes(d)
    BY <1>3, <2>2 DEF PeerTakes, SameKind
  <2>3. CASE PeerCloses(d)
    <3> DEFINE x == [sock[d] EXCEPT !.hup = TRUE]
    <3>1. x.kind = sock[d].kind
      BY <1>3, SockHup
    <3>2. sock' = [sock EXCEPT ![d] = x] /\ sock[d].kind = "conn"
      BY <2>3 DEF PeerCloses
    <3> HIDE DEF x
    <3> QED BY <1>3, <3>1, <3>2 DEF SameKind
  <2>4. CASE Established(d)
    <3> DEFINE x == [sock[d] EXCEPT !.kind = "conn", !.room = Cap]
               y == [sock[d] EXCEPT !.kind = "refused"]
    <3>1. x.kind = "conn" /\ y.kind = "refused"
      BY <1>3 DEF Socket
    <3>2. sock[d].kind = "connecting" /\ (sock' = [sock EXCEPT ![d] = x] \/ sock' = [sock EXCEPT ![d] = y])
      BY <2>4 DEF Established
    <3> HIDE DEF x, y
    <3> QED BY <1>3, <3>1, <3>2 DEF SameKind
  <2> QED BY <1>1, <2>1, <2>2, <2>3, <2>4
<1>5. \A e \in Fd : SameKind(e)
  BY <1>4 DEF SameKind
<1>6. \A f \in Fiber : frame'[f].op = "connect" => frame'[f] = frame[f]
                         /\ sock'[frame[f].on.fd].kind /= "none"
  BY <1>2, <1>5, OnOpenFd DEF SameKind, IsOpen
<1>7. KindsFit'
  BY <1>2, <1>5, KindsSame DEF NetInv
<1>8. ConnectsWait'
  BY <1>2, <1>5, <1>6, SameEvs, WaitOn
<1>9. NoneLost'
  <2> SUFFICES ASSUME NEW f \in Fiber, NEW e \in Fd, Lost(f, e)'
               PROVE  Lost(f, e)
    BY DEF NoneLost
  <2>1. /\ Reads(f, e)' <=> Reads(f, e)
        /\ Writes(f, e)' <=> Writes(f, e)
    BY <1>2 DEF Reads, Writes
  <2>2. e \in interest
    BY <2>1, AwaitRegistered DEF Lost
  <2>3. CASE e /= d
    <3>1. (Readable(e)' <=> Readable(e)) /\ (Writable(e)' <=> Writable(e))
      BY <1>4, <2>3 DEF Readable, Writable
    <3>2. \A x : x \in pending => x \in pending'
      BY <1>1, SignalPends DEF Arrive, PeerTakes, PeerCloses, Established, schedVars
    <3> QED BY <2>1, <3>1, <3>2 DEF Lost
  <2>4. CASE e = d /\ Signal(d)
    BY <2>2, <2>4, SignalPends DEF Lost
  <2>5. CASE e = d /\ ~ Signal(d)
    <3>1. PeerTakes(d) /\ sock[d].room /= 0 /\ UNCHANGED schedVars
      BY <1>1, <2>5 DEF Arrive, PeerTakes, PeerCloses, Established
    <3>2. /\ sock'[d].in = sock[d].in /\ sock'[d].hup = sock[d].hup
          /\ sock'[d].kind = sock[d].kind /\ sock[d].room > 0 /\ pending' = pending
      BY <1>3, <3>1, SocketParts DEF PeerTakes, schedVars
    <3> QED BY <2>1, <2>5, <3>2 DEF Lost, Readable, Writable
  <2> QED BY <2>3, <2>4, <2>5
<1> QED BY <1>2, <1>7, <1>8, <1>9

\* A system call of the running fiber, and the tests around it.
Calms(e) ==
  /\ sock'[e].kind = sock[e].kind
  /\ sock[e].kind = "connecting" => sock'[e] = sock[e]
  /\ Readable(e)' => Readable(e)
  /\ Writable(e)' => Writable(e)

LEMMA SameCalms ==
  ASSUME sock' = sock
  PROVE  \A e \in Fd : Calms(e)
BY DEF Calms, Readable, Writable

LEMMA FrameWake ==
  ASSUME WakeInv, NetInv', UNCHANGED <<schedVars, held, fdSeq, handles>>,
         \A e \in Fd : Calms(e),
         \A f \in Fiber :
           \/ frame'[f] = frame[f]
           \/ /\ frame'[f].op /= "connect"
              /\ \A e : frame'[f].pc = "check" /\ frame'[f].on.fd = e =>
                   IF frame'[f].op \in {"read", "accept"} THEN ~ Readable(e)'
                                                          ELSE ~ Writable(e)'
  PROVE  WakeInv'
<1> USE DEF WakeInv
<1>1. UNCHANGED <<ioQ, evs, interest, pending, now>>
  BY DEF schedVars
<1>2. \A e \in Fd : SameKind(e)
  BY DEF Calms, SameKind
<1>3. \A f \in Fiber : frame'[f].op = "connect" => frame'[f] = frame[f]
                         /\ sock'[frame[f].on.fd].kind /= "none"
  BY OnOpenFd DEF Calms, IsOpen
<1>4. KindsFit'
  BY <1>2, <1>3, KindsSame DEF NetInv
<1>5. ConnectsWait'
  BY <1>1, <1>2, <1>3, SameEvs, WaitOn
<1>6. NoneLost'
  <2> SUFFICES ASSUME NEW f \in Fiber, NEW e \in Fd, Lost(f, e)'
               PROVE  Lost(f, e)
    BY DEF NoneLost
  <2>1. (Readable(e)' => Readable(e)) /\ (Writable(e)' => Writable(e))
    BY DEF Calms
  <2>2. CASE frame'[f] = frame[f]
    BY <1>1, <2>1, <2>2 DEF Lost, Reads, Writes
  <2>3. CASE frame'[f] /= frame[f]
    <3>1. \/ e \in evs[f].r /\ Readable(e)'
          \/ e \in evs[f].w /\ Writable(e)'
      BY <1>1, <2>3 DEF Lost, Reads, Writes
    <3> QED BY <1>1, <2>1, <3>1 DEF Lost, Reads, Writes
  <2> QED BY <2>2, <2>3
<1> QED BY <1>1, <1>4, <1>5, <1>6

\* What an operation other than a connect runs on.
LEMMA RunsOnOwn ==
  ASSUME NetInv, KindsFit, NEW ops \in SUBSET (Ops \ {"connect"}), NEW pc \in {"try", "check"},
         At(ops, pc)
  PROVE  /\ curr \in Fiber /\ frame[curr].on.fd \in Fd /\ frame[curr] \in Frame
         /\ sock[frame[curr].on.fd] \in Socket
         /\ sock[frame[curr].on.fd].kind \in {"conn", "listen"}
<1>1. /\ curr \in Fiber /\ InIo(curr) /\ frame[curr].op \in ops /\ frame[curr].on.fd \in Fd
      /\ Valid(frame[curr].on) /\ frame[curr] \in Frame
  BY RunsOnOpen
<1>2. frame[curr].on \in handles
  BY <1>1 DEF NetInv, HandleInv, FramesHold
<1> QED BY <1>1, <1>2 DEF KindsFit, NetInv, NetTypeOK

LEMMA LessIn ==
  ASSUME NEW s \in Socket, NEW n \in 0..Cap
  PROVE  LET x == [s EXCEPT !.in = n]
         IN  x.kind = s.kind /\ x.room = s.room /\ x.hup = s.hup /\ x.in = n
BY DEF Socket

LEMMA LessRoom ==
  ASSUME NEW s \in Socket, NEW n \in 0..Cap
  PROVE  LET x == [s EXCEPT !.room = n]
         IN  x.kind = s.kind /\ x.in = s.in /\ x.hup = s.hup /\ x.room = n
BY DEF Socket

\* A system call takes bytes, or room, of a socket.
LEMMA InCalms ==
  ASSUME NetTypeOK, NEW d \in Fd, sock[d].kind /= "connecting",
         NEW n \in 0..Cap, n <= sock[d].in, sock' = [sock EXCEPT ![d] = [sock[d] EXCEPT !.in = n]]
  PROVE  \A e \in Fd : Calms(e)
<1> DEFINE x == [sock[d] EXCEPT !.in = n]
<1>1. /\ x.kind = sock[d].kind /\ x.room = sock[d].room /\ x.hup = sock[d].hup /\ x.in = n
  BY LessIn DEF NetTypeOK
<1> HIDE DEF x
<1>2. sock'[d] = x /\ \A e \in Fd \ {d} : sock'[e] = sock[e]
  BY DEF NetTypeOK, x
<1>3. sock[d].in \in 0..Cap
  BY SocketParts DEF NetTypeOK
<1>4. Calms(d)
  BY <1>1, <1>2, <1>3 DEF Calms, Readable, Writable
<1> QED BY <1>2, <1>4 DEF Calms, Readable, Writable

LEMMA RoomCalms ==
  ASSUME NetTypeOK, NEW d \in Fd, sock[d].kind /= "connecting",
         NEW n \in 0..Cap, n <= sock[d].room, sock' = [sock EXCEPT ![d] = [sock[d] EXCEPT !.room = n]]
  PROVE  \A e \in Fd : Calms(e)
<1> DEFINE x == [sock[d] EXCEPT !.room = n]
<1>1. /\ x.kind = sock[d].kind /\ x.in = sock[d].in /\ x.hup = sock[d].hup /\ x.room = n
  BY LessRoom DEF NetTypeOK
<1> HIDE DEF x
<1>2. sock'[d] = x /\ \A e \in Fd \ {d} : sock'[e] = sock[e]
  BY DEF NetTypeOK, x
<1>3. sock[d].room \in 0..Cap
  BY SocketParts DEF NetTypeOK
<1>4. Calms(d)
  BY <1>1, <1>2, <1>3 DEF Calms, Readable, Writable
<1> QED BY <1>2, <1>4 DEF Calms, Readable, Writable

LEMMA LessFits ==
  ASSUME NEW m \in 0..Cap, NEW k \in 0..m
  PROVE  m - k \in 0..Cap /\ m - k <= m
<1>1. Cap \in Nat
  OBVIOUS
<1> QED BY <1>1

LEMMA ReadWake ==
  ASSUME WakeInv, NetInv', ReadTry
  PROVE  WakeInv'
<1> DEFINE d == frame[curr].on.fd
<1>1. At({"read"}, "try") /\ Return /\ UNCHANGED <<schedVars, held, fdSeq, handles>>
  BY DEF ReadTry
<1>2. /\ curr \in Fiber /\ d \in Fd /\ sock[d] \in Socket
      /\ sock[d].kind \in {"conn", "listen"}
  BY <1>1, RunsOnOwn DEF WakeInv, Ops
<1>3. PICK k \in 0..sock[d].in : sock' = [sock EXCEPT ![d].in = @ - k]
  BY DEF ReadTry
<1> HIDE DEF d
<1>4. sock[d].in - k \in 0..Cap /\ sock[d].in - k <= sock[d].in
  <2>1. sock[d].in \in 0..Cap
    BY <1>2, SocketParts
  <2> QED BY <1>3, <2>1, LessFits
<1>5. sock' = [sock EXCEPT ![d] = [sock[d] EXCEPT !.in = sock[d].in - k]]
  BY <1>3
<1>6. \A e \in Fd : Calms(e)
  BY <1>2, <1>4, <1>5, InCalms DEF WakeInv, NetInv
<1>7. \A f \in Fiber : frame'[f] = frame[f] \/ frame'[f] = NoFrame
  BY <1>1, <1>2, FrameSet DEF Return, WakeInv, NetInv
<1> QED BY <1>1, <1>6, <1>7, NoFrameIdle, FrameWake

LEMMA WriteWake ==
  ASSUME WakeInv, NetInv', WriteTry
  PROVE  WakeInv'
<1> DEFINE d == frame[curr].on.fd
           fr(k) == [frame[curr] EXCEPT !.left = frame[curr].left - k]
<1>1. At({"write", "writeall"}, "try") /\ UNCHANGED <<schedVars, held, fdSeq, handles>>
  BY DEF WriteTry
<1>2. /\ curr \in Fiber /\ d \in Fd /\ sock[d] \in Socket /\ frame[curr] \in Frame
      /\ sock[d].kind \in {"conn", "listen"}
  BY <1>1, RunsOnOwn DEF WakeInv, Ops
<1>3. PICK k \in 1..frame[curr].left :
        /\ k <= sock[d].room /\ sock' = [sock EXCEPT ![d].room = @ - k]
        /\ \/ frame' = [frame EXCEPT ![curr].left = @ - k]
           \/ Return
  BY DEF WriteTry
<1>4. fr(k).op = frame[curr].op /\ fr(k).pc = frame[curr].pc
  BY <1>2 DEF Frame
<1>5. frame' = [frame EXCEPT ![curr] = fr(k)] \/ frame' = [frame EXCEPT ![curr] = NoFrame]
  BY <1>3 DEF Return
<1>6. frame[curr].left \in Nat
  BY <1>2 DEF Frame
<1> HIDE DEF d, fr
<1>7. sock[d].room - k \in 0..Cap /\ sock[d].room - k <= sock[d].room
  <2>1. sock[d].room \in 0..Cap
    BY <1>2, SocketParts
  <2>2. k \in 0..sock[d].room
    BY <1>3, <1>6, <2>1
  <2> QED BY <2>1, <2>2, LessFits
<1>8. sock' = [sock EXCEPT ![d] = [sock[d] EXCEPT !.room = sock[d].room - k]]
  BY <1>3
<1>9. \A e \in Fd : Calms(e)
  BY <1>2, <1>7, <1>8, RoomCalms DEF WakeInv, NetInv
<1>10. \A f \in Fiber : \/ frame'[f] = frame[f]
                        \/ frame'[f].op /= "connect" /\ frame'[f].pc /= "check"
  <2>1. frame[curr].op /= "connect" /\ frame[curr].pc = "try"
    BY <1>1 DEF At
  <2>2. \A f \in Fiber : frame'[f] = frame[f] \/ frame'[f] = fr(k) \/ frame'[f] = NoFrame
    BY <1>2, <1>5 DEF WakeInv, NetInv, NetTypeOK
  <2> QED BY <1>4, <2>1, <2>2, NoFrameIdle
<1> QED BY <1>1, <1>9, <1>10, FrameWake

LEMMA GotoFrame ==
  ASSUME NetInv, curr \in Fiber, InIo(curr), NEW pc \in {"try", "check", "woken"}, Goto(pc)
  PROVE  /\ frame'[curr].op = frame[curr].op /\ frame'[curr].on = frame[curr].on
         /\ frame'[curr].pc = pc /\ frame'[curr].expire = frame[curr].expire
         /\ \A f \in Fiber \ {curr} : frame'[f] = frame[f]
<1> DEFINE fr == [frame[curr] EXCEPT !.pc = pc]
<1>1. frame[curr] \in Frame
  BY FrameOf DEF NetInv
<1>2. /\ fr.op = frame[curr].op /\ fr.on = frame[curr].on /\ fr.pc = pc
      /\ fr.expire = frame[curr].expire
  BY <1>1 DEF Frame
<1>3. frame' = [frame EXCEPT ![curr] = fr]
  BY DEF Goto
<1> HIDE DEF fr
<1> QED BY <1>2, <1>3 DEF NetInv, NetTypeOK

LEMMA StayWake ==
  ASSUME WakeInv, NetInv', TryBlocked \/ TryFails \/ IoTimeout \/ IoResumed
  PROVE  WakeInv'
<1> DEFINE ops == Streams \cup {"accept"}
<1>1. ops \in SUBSET (Ops \ {"connect"}) /\ ops \in SUBSET Ops
  BY DEF Streams, Ops
<1>2. \/ At(ops, "try") /\ Return
      \/ At(ops, "try") /\ Goto("check") /\ WouldBlock(frame[curr].op, frame[curr].on.fd)
      \/ At(ops, "check") /\ Return
      \/ At(ops, "woken") /\ (Return \/ Goto("try"))
  BY DEF TryBlocked, TryFails, IoTimeout, IoResumed
<1>3. UNCHANGED <<schedVars, sock, held, fdSeq, handles>>
  BY DEF TryBlocked, TryFails, IoTimeout, IoResumed, objects
<1> HIDE DEF ops
<1>4. curr \in Fiber /\ InIo(curr) /\ frame[curr].op \in ops
  BY <1>1, <1>2, AtFrame DEF WakeInv, NetInv
<1>5. ASSUME NEW f \in Fiber
      PROVE  \/ frame'[f] = frame[f]
             \/ /\ frame'[f].op /= "connect"
                /\ \A e : frame'[f].pc = "check" /\ frame'[f].on.fd = e =>
                     IF frame'[f].op \in {"read", "accept"} THEN ~ Readable(e)'
                                                            ELSE ~ Writable(e)'
  <2>1. CASE Return
    BY <1>4, <2>1, FrameSet, NoFrameIdle DEF Return, WakeInv, NetInv
  <2>2. CASE Goto("try")
    BY <1>1, <1>4, <2>2, GotoFrame DEF WakeInv
  <2>3. CASE At(ops, "try") /\ Goto("check") /\ WouldBlock(frame[curr].op, frame[curr].on.fd)
    <3> DEFINE d == frame[curr].on.fd
    <3>1. sock[d] \in Socket /\ sock[d].kind \in {"conn", "listen"}
      BY <1>1, <2>3, RunsOnOwn DEF WakeInv
    <3>2. IF frame[curr].op \in {"read", "accept"} THEN ~ Readable(d) ELSE ~ Writable(d)
      BY <1>4, <2>3, <3>1 DEF WouldBlock, Readable, Writable, ops, Streams
    <3> HIDE DEF d
    <3>3. /\ frame'[curr].op = frame[curr].op /\ frame'[curr].on.fd = d
          /\ \A g \in Fiber \ {curr} : frame'[g] = frame[g]
      BY <1>4, <2>3, GotoFrame DEF WakeInv, d
    <3>4. \A e : e = d => (Readable(e)' <=> Readable(d)) /\ (Writable(e)' <=> Writable(d))
      BY <1>3 DEF Readable, Writable
    <3> QED BY <1>1, <1>4, <3>2, <3>3, <3>4
  <2> QED BY <1>2, <2>1, <2>2, <2>3
<1> QED BY <1>3, <1>5, SameCalms, FrameWake

LEMMA IoStartWake ==
  ASSUME WakeInv, NetInv', NEW h \in handles, NEW op \in Ops \ {"connect"},
         NEW n, NEW ms, IoStart(h, op, n, ms)
  PROVE  WakeInv'
<1>1. UNCHANGED <<schedVars, sock, held, fdSeq, handles>> /\ curr \in Fiber
  BY DEF IoStart, objects, WakeInv, NetInv, NetTypeOK, SchedTypeOK
<1>2. PICK t : frame' = [frame EXCEPT ![curr] =
                  [op |-> op, pc |-> "try", on |-> h, left |-> n, expire |-> t]]
  BY DEF IoStart
<1>3. \A f \in Fiber : \/ frame'[f] = frame[f]
                       \/ frame'[f].op /= "connect" /\ frame'[f].pc = "try"
  BY <1>1, <1>2 DEF WakeInv, NetInv, NetTypeOK
<1> QED BY <1>1, <1>3, SameCalms, FrameWake

-----------------------------------------------------------------------------
(* Parking.                                                                *)

\* What has been looked at before the park is what is waited for.
LEMMA ParkWake ==
  ASSUME WakeInv, NetInv', IoPark \/ ConnectPark
  PROVE  WakeInv'
<1> USE DEF WakeInv
<1> DEFINE reads == frame[curr].op \in {"read", "accept"}
           d == frame[curr].on.fd
           e == IF reads THEN Await(frame[curr].expire, {d}, {}, {})
                         ELSE Await(frame[curr].expire, {}, {d}, {})
<1>1. /\ At(Streams \cup {"accept"}, "check") \/ At({"connect"}, "check")
      /\ Goto("woken") /\ UNCHANGED objects /\ SwitchToSchedFiber(e)
  BY DEF IoPark, ConnectPark, WaitReading, WaitWriting, At, Streams
<1>2. /\ curr \in Fiber /\ InIo(curr) /\ frame[curr].pc = "check" /\ frame[curr].op \in Ops
  BY <1>1, AtFrame DEF NetInv, Streams, Ops
<1>3. e.r = (IF reads THEN {d} ELSE {}) /\ e.w = (IF reads THEN {} ELSE {d})
  BY DEF Await
<1>4. /\ evs' = [evs EXCEPT ![curr] = e] /\ DOMAIN ioQ' = DOMAIN ioQ
      /\ UNCHANGED <<interest, pending, now, sock, held, fdSeq, handles>>
  BY <1>1 DEF SwitchToSchedFiber, kernel, objects
<1>5. e = Await(frame[curr].expire, {}, {d}, {}) \/ frame[curr].op /= "connect"
  OBVIOUS
<1> HIDE DEF e
<1>6. evs'[curr] = e /\ \A f \in Fiber \ {curr} : evs'[f] = evs[f]
  BY <1>2, <1>4 DEF NetInv, SchedInv, SchedTypeOK
<1>7. /\ frame'[curr].op = frame[curr].op /\ frame'[curr].on = frame[curr].on
      /\ frame'[curr].pc = "woken" /\ frame'[curr].expire = frame[curr].expire
      /\ \A f \in Fiber \ {curr} : frame'[f] = frame[f]
  BY <1>1, <1>2, GotoFrame
<1>8. \A x \in Fd : SameKind(x)
  BY <1>4 DEF SameKind
<1>9. \A f \in Fiber : frame'[f].op = "connect" => frame[f].op = "connect" /\ frame'[f].on = frame[f].on
  BY <1>7
<1>10. KindsFit'
  BY <1>4, <1>8, <1>9, KindsSame DEF NetInv
<1>11. ConnectsWait'
  <2> SUFFICES ASSUME NEW f \in Fiber, frame'[f].op = "connect", frame'[f].pc = "woken"
               PROVE  \/ evs'[f] = Await(frame'[f].expire, {}, {frame'[f].on.fd}, {})
                      \/ TimedOut(f)'
                      \/ sock'[frame'[f].on.fd].kind \in {"conn", "refused"}
    BY DEF ConnectsWait, Await
  <2>1. CASE f = curr
    BY <1>5, <1>6, <1>7, <2>1
  <2>2. CASE f /= curr
    BY <1>4, <1>6, <1>7, <2>2 DEF ConnectsWait, TimedOut
  <2> QED BY <2>1, <2>2
<1>12. NoneLost'
  <2> SUFFICES ASSUME NEW f \in Fiber, NEW x \in Fd, Lost(f, x)'
               PROVE  Lost(f, x)
    BY DEF NoneLost
  <2>1. (Readable(x)' <=> Readable(x)) /\ (Writable(x)' <=> Writable(x))
    BY <1>4 DEF Readable, Writable
  <2>2. CASE f /= curr
    BY <1>4, <1>6, <1>7, <2>1, <2>2 DEF Lost, Reads, Writes
  <2>3. CASE f = curr
    <3>1. (x \in e.r /\ Readable(x)) \/ (x \in e.w /\ Writable(x))
      BY <1>6, <1>7, <2>1, <2>3 DEF Lost, Reads, Writes
    <3>2. x = d /\ (IF reads THEN Readable(x) ELSE Writable(x))
      BY <1>3, <3>1
    <3>3. frame[curr].pc = "check" /\ (reads \/ frame[curr].op \in {"write", "writeall", "connect"})
      BY <1>2 DEF Ops
    <3>4. (reads => Reads(curr, d)) /\ (~ reads => Writes(curr, d))
      BY <3>3 DEF Reads, Writes
    <3>5. x \notin pending
      BY <1>4 DEF Lost
    <3> QED BY <2>3, <3>2, <3>4, <3>5 DEF Lost
  <2> QED BY <2>2, <2>3
<1> QED BY <1>4, <1>10, <1>11, <1>12

-----------------------------------------------------------------------------
(* Registering.                                                            *)

LEMMA RegKernel ==
  ASSUME NEW d \in Fd, Reg(d)
  PROVE  /\ d \notin DOMAIN ioQ /\ DOMAIN ioQ' = DOMAIN ioQ \cup {d}
         /\ interest' = interest \cup {d} /\ UNCHANGED <<curr, evs, now>>
         /\ \A e : e \in pending => e \in pending'
         /\ Readable(d)' \/ Writable(d)' => d \in pending'
<1>1. /\ d \notin DOMAIN ioQ /\ DOMAIN ioQ' = DOMAIN ioQ \cup {d}
      /\ interest' = interest \cup {d} /\ UNCHANGED <<curr, evs, now>>
  BY DEF Reg, RegRawFd
<1>2. pending' = IF Readable(d)' \/ Writable(d)' THEN pending \cup {d} ELSE pending
  BY DEF Reg
<1> QED BY <1>1, <1>2

\* The kernel reports at once what d is ready for, so no edge is missed.
LEMMA RegWake ==
  ASSUME WakeInv, NetInv', KindsFit', NEW d \in Fd, Reg(d),
         \A e \in Fd \ {d} : Calms(e),
         IsOpen(d) => sock' = sock,
         \A f \in Fiber :
           \/ frame'[f] = frame[f]
           \/ frame'[f].op /= "connect" /\ frame'[f].pc /= "check"
           \/ frame'[f].op = "connect" /\ frame'[f].pc = "check" /\ frame'[f].on.fd = d
  PROVE  WakeInv'
<1> USE DEF WakeInv
<1>1. /\ d \notin DOMAIN ioQ /\ DOMAIN ioQ' = DOMAIN ioQ \cup {d}
      /\ interest' = interest \cup {d} /\ UNCHANGED <<curr, evs, now>>
      /\ \A e : e \in pending => e \in pending'
      /\ Readable(d)' \/ Writable(d)' => d \in pending'
  BY RegKernel
<1>2. \A e \in Fd : IsOpen(e) => SameKind(e)
  BY DEF Calms, SameKind
<1>3. ASSUME NEW f \in Fiber, frame'[f].op = "connect", frame'[f].pc = "woken"
      PROVE  frame'[f] = frame[f] /\ sock'[frame[f].on.fd].kind /= "none"
  BY <1>1, <1>3, OnOpenFd DEF Calms, IsOpen
<1>4. ConnectsWait'
  BY <1>1, <1>2, <1>3, SameEvs, WaitOn
<1>5. NoneLost'
  <2> SUFFICES ASSUME NEW f \in Fiber, NEW e \in Fd, Lost(f, e)'
               PROVE  Lost(f, e)
    BY DEF NoneLost
  <2>1. e /= d
    BY <1>1 DEF Lost
  <2>2. (Readable(e)' => Readable(e)) /\ (Writable(e)' => Writable(e))
    BY <2>1 DEF Calms
  <2>3. (Reads(f, e)' => Reads(f, e)) /\ (Writes(f, e)' => Writes(f, e))
    BY <1>1, <2>1 DEF Reads, Writes
  <2> QED BY <1>1, <2>2, <2>3 DEF Lost
<1> QED BY <1>1, <1>4, <1>5

LEMMA FromRawFdWake ==
  ASSUME WakeInv, NetInv', NEW d \in Fd, FromRawFd(d), UNCHANGED frame
  PROVE  WakeInv'
<1> DEFINE h == NewHandle(d, IF sock[d].kind = "listen" THEN "listen" ELSE "conn")
<1>1. /\ d \in held /\ UNCHANGED <<sock, fdSeq>> /\ Reg(d)
      /\ held' = held \ {d} /\ handles' = handles \cup {h}
  BY DEF FromRawFd
<1>2. h.fd = d
  BY DEF NewHandle
<1> HIDE DEF h
<1>3. d \notin DOMAIN ioQ
  BY <1>1, RegKernel
<1>4. sock'[d].kind \in {"conn", "listen"}
  BY <1>1 DEF WakeInv, KindsFit
<1>5. \A f \in Fiber : frame'[f].op = "connect" => frame'[f].on.fd /= d
  BY <1>3, OnOpenFd DEF WakeInv
<1>6. \A e \in Fd : SameKind(e)
  BY <1>1 DEF SameKind
<1>7. \A x \in handles' : x.fd /= d /\ Valid(x)' => x \in handles /\ Valid(x)
  BY <1>1, <1>2 DEF Valid
<1>8. KindsFit'
  BY <1>1, <1>4, <1>5, <1>6, <1>7, KindsStep DEF WakeInv
<1> QED BY <1>1, <1>8, SameCalms, RegWake

\* A socket that has just been opened.
LEMMA OpenedIs ==
  ASSUME NetTypeOK, NEW d \in Fd, NEW k, sock' = [sock EXCEPT ![d] = Opened(d, k)]
  PROVE  /\ sock'[d].kind = k /\ (k = "conn" \/ sock'[d].room = 0) /\ sock'[d].hup = FALSE
         /\ \A e \in Fd \ {d} : sock'[e] = sock[e] /\ Calms(e) /\ SameKind(e)
<1>1. /\ Opened(d, k).kind = k /\ (k = "conn" \/ Opened(d, k).room = 0)
      /\ Opened(d, k).hup = FALSE
  BY DEF Opened
<1>2. sock'[d] = Opened(d, k) /\ \A e \in Fd \ {d} : sock'[e] = sock[e]
  BY DEF NetTypeOK
<1>3. \A e \in Fd \ {d} : Calms(e) /\ SameKind(e)
  BY <1>2 DEF Calms, SameKind, Readable, Writable
<1> QED BY <1>1, <1>2, <1>3

LEMMA ConnectingIs ==
  ASSUME NetTypeOK, NEW d \in Fd, sock' = [sock EXCEPT ![d] = Opened(d, "connecting")]
  PROVE  sock'[d].room = 0
<1> DEFINE x == Opened(d, "connecting")
<1>1. x.room = 0
  BY DEF Opened
<1>2. sock' = [sock EXCEPT ![d] = x]
  OBVIOUS
<1> HIDE DEF x
<1> QED BY <1>1, <1>2 DEF NetTypeOK

\* Nobody waits for a socket that no call has given out.
LEMMA GivesUpWake ==
  ASSUME WakeInv, NetInv', NEW d \in Fd, CanOpen(d), sock' = SilentClose(sock, d),
         UNCHANGED <<schedVars, held, fdSeq, handles, frame>>
  PROVE  WakeInv'
<1>1. /\ sock'[d].kind = "none" /\ sock'[d].room = sock[d].room /\ sock'[d].in = sock[d].in
      /\ sock'[d].hup = sock[d].hup /\ sock[d].kind = "none"
      /\ \A e \in Fd \ {d} : sock'[e] = sock[e]
  BY SilentCloseSets, SilentCloseIs DEF WakeInv, NetInv, CanOpen, IsOpen
<1>2. Calms(d)
  BY <1>1 DEF Calms, Readable, Writable
<1>3. \A e \in Fd \ {d} : Calms(e)
  BY <1>1 DEF Calms, Readable, Writable
<1>4. \A e \in Fd : Calms(e)
  BY <1>2, <1>3
<1> QED BY <1>4, FrameWake

LEMMA ListenedWake ==
  ASSUME WakeInv, NetInv', NEW d \in Fd, CanOpen(d), Reg(d),
         sock' = [sock EXCEPT ![d] = Opened(d, "listen")],
         handles' = handles \cup {NewHandle(d, "listen")},
         UNCHANGED <<held, fdSeq, frame>>
  PROVE  WakeInv'
<1> DEFINE h == NewHandle(d, "listen")
<1>1. /\ CanOpen(d) /\ UNCHANGED <<held, fdSeq>> /\ Reg(d)
      /\ sock' = [sock EXCEPT ![d] = Opened(d, "listen")]
      /\ handles' = handles \cup {h}
  OBVIOUS
<1>2. h.fd = d
  BY DEF NewHandle
<1> HIDE DEF h
<1>3. ~ IsOpen(d)
  BY <1>1 DEF CanOpen
<1>4. sock'[d].kind = "listen" /\ \A e \in Fd \ {d} : Calms(e) /\ SameKind(e)
  BY <1>1, OpenedIs DEF WakeInv, NetInv
<1>5. \A f \in Fiber : frame'[f].op = "connect" => frame'[f].on.fd /= d
  BY <1>3, OnOpenFd DEF WakeInv
<1>6. \A x \in handles' : x.fd /= d /\ Valid(x)' => x \in handles /\ Valid(x)
  BY <1>1, <1>2 DEF Valid
<1>7. KindsFit'
  BY <1>1, <1>4, <1>5, <1>6, KindsStep DEF WakeInv
<1> QED BY <1>1, <1>3, <1>4, <1>7, RegWake

LEMMA ListenWake ==
  ASSUME WakeInv, NetInv', NEW d \in Fd, ListenStream(d), UNCHANGED frame
  PROVE  WakeInv'
<1>1. CanOpen(d) /\ UNCHANGED <<held, fdSeq>>
  BY DEF ListenStream
<1>2. CASE sock' = SilentClose(sock, d) /\ UNCHANGED <<schedVars, handles>>
  BY <1>1, <1>2, GivesUpWake
<1>3. CASE /\ sock' = [sock EXCEPT ![d] = Opened(d, "listen")] /\ Reg(d)
           /\ handles' = handles \cup {NewHandle(d, "listen")}
  BY <1>1, <1>3, ListenedWake
<1> QED BY <1>2, <1>3 DEF ListenStream

LEMMA ConnectBeginsWake ==
  ASSUME WakeInv, NetInv', NEW d \in Fd, NEW ms, ConnectStart(d, ms),
         ConnectedAtOnce(d) \/ ConnectPending(d, ms)
  PROVE  WakeInv'
<1> DEFINE h == NewHandle(d, "conn")
<1>1. /\ curr \in Fiber /\ CanOpen(d) /\ UNCHANGED <<held, fdSeq>> /\ Reg(d)
  BY DEF ConnectStart, ConnectedAtOnce, ConnectPending, WakeInv, NetInv, NetTypeOK, SchedTypeOK
<1>2. h.fd = d
  BY DEF NewHandle
<1>3. ~ IsOpen(d) /\ d \notin held
  BY <1>1, OnOpenFd DEF CanOpen, WakeInv
<1>4. \A f \in Fiber : frame[f].op = "connect" => frame[f].on.fd /= d
  BY <1>3, OnOpenFd DEF WakeInv
<1>5. \A x \in handles : x.fd = d => ~ Valid(x)
  BY <1>3, OnOpenFd DEF WakeInv
<1>6. CASE /\ sock' = [sock EXCEPT ![d] = Opened(d, "conn")]
           /\ handles' = handles \cup {h} /\ UNCHANGED frame
  <2> HIDE DEF h
  <2>1. sock'[d].kind = "conn" /\ \A e \in Fd \ {d} : Calms(e) /\ SameKind(e)
    BY <1>6, OpenedIs DEF WakeInv, NetInv
  <2>2. \A x \in handles' : x.fd /= d /\ Valid(x)' => x \in handles /\ Valid(x)
    BY <1>1, <1>2, <1>6 DEF Valid
  <2>3. held' \ {d} \subseteq held /\ frame' = frame
    BY <1>1, <1>6
  <2>4. KindsFit'
    <3>1. \A f \in Fiber : frame'[f].op = "connect" /\ frame'[f].on.fd /= d =>
            frame[f].op = "connect" /\ frame'[f].on = frame[f].on
      BY <2>3
    <3>2. \A e \in Fd \ {d} : SameKind(e)
      BY <2>1
    <3> QED BY <2>1, <2>2, <2>3, <3>1, <3>2, KindsStep DEF WakeInv
  <2> QED BY <1>1, <1>3, <2>1, <2>3, <2>4, RegWake
<1>7. CASE /\ sock' = [sock EXCEPT ![d] = Opened(d, "connecting")]
           /\ \E t : frame' = [frame EXCEPT ![curr] =
                [op |-> "connect", pc |-> "check", on |-> h, left |-> 0, expire |-> t]]
           /\ UNCHANGED handles
  <2> HIDE DEF h
  <2>1. /\ sock'[d].kind = "connecting" /\ sock'[d].room = 0 /\ sock'[d].hup = FALSE
        /\ \A e \in Fd \ {d} : Calms(e) /\ SameKind(e)
    <3>1. NetTypeOK /\ sock' = [sock EXCEPT ![d] = Opened(d, "connecting")]
      BY <1>7 DEF WakeInv, NetInv
    <3>2. sock'[d].kind = "connecting"
      BY <3>1, OpenedIs
    <3>3. sock'[d].room = 0
      BY <3>1, ConnectingIs
    <3>4. sock'[d].hup = FALSE
      BY <3>1, OpenedIs
    <3>5. \A e \in Fd \ {d} : Calms(e) /\ SameKind(e)
      BY <3>1, OpenedIs
    <3> QED BY <3>2, <3>3, <3>4, <3>5
  <2>2. PICK t : frame' = [frame EXCEPT ![curr] =
                [op |-> "connect", pc |-> "check", on |-> h, left |-> 0, expire |-> t]]
    BY <1>7
  <2>3. /\ frame'[curr].op = "connect" /\ frame'[curr].pc = "check" /\ frame'[curr].on.fd = d
        /\ \A f \in Fiber \ {curr} : frame'[f] = frame[f]
    BY <1>1, <1>2, <2>2 DEF WakeInv, NetInv, NetTypeOK
  <2>4. \A x \in handles' : Valid(x)' => x \in handles /\ Valid(x) /\ x.fd /= d
    BY <1>1, <1>5, <1>7 DEF Valid
  <2>5. /\ held' \ {d} \subseteq held /\ d \notin held'
        /\ \A f \in Fiber : frame'[f].op = "connect" /\ frame'[f].on.fd /= d =>
             frame[f].op = "connect" /\ frame'[f].on = frame[f].on
    BY <1>1, <1>3, <2>3
  <2>6. KindsFit'
    BY <2>1, <2>4, <2>5, KindsStep DEF WakeInv
  <2> QED BY <1>1, <1>3, <2>1, <2>3, <2>6, RegWake
<1> QED BY <1>6, <1>7 DEF ConnectedAtOnce, ConnectPending

LEMMA ConnectStartWake ==
  ASSUME WakeInv, NetInv', NEW d \in Fd, NEW ms, ConnectStart(d, ms)
  PROVE  WakeInv'
<1>1. CanOpen(d) /\ UNCHANGED <<held, fdSeq>>
  BY DEF ConnectStart
<1>2. CASE ConnectGivesUp(d)
  BY <1>1, <1>2, GivesUpWake DEF ConnectGivesUp
<1>3. CASE ConnectedAtOnce(d) \/ ConnectPending(d, ms)
  BY <1>3, ConnectBeginsWake
<1> QED BY <1>2, <1>3 DEF ConnectStart

LEMMA AcceptWake ==
  ASSUME WakeInv, NetInv', NEW c \in Fd, AcceptTry(c)
  PROVE  WakeInv'
<1>0. frame[curr].on.fd \in Fd /\ curr \in Fiber
  <2>1. At({"accept"}, "try")
    BY DEF AcceptTry
  <2> QED BY <2>1, RunsOnOwn DEF WakeInv, Ops
<1>. PICK d \in Fd : d = frame[curr].on.fd
  BY <1>0
<1> DEFINE h == NewHandle(c, "conn")
           s1 == [sock[d] EXCEPT !.in = sock[d].in - 1]
           s2 == [sock[c] EXCEPT !.gen = sock[c].gen + 1]
           o == Opened(c, "conn")
<1>1. /\ At({"accept"}, "try") /\ sock[d].in > 0 /\ CanOpen(c)
      /\ Return /\ UNCHANGED <<held, fdSeq>>
      /\ \/ /\ sock' = [sock EXCEPT ![d].in = @ - 1, ![c] = o]
            /\ Reg(c)
            /\ handles' = handles \cup {h}
         \/ /\ sock' = SilentClose([sock EXCEPT ![d].in = @ - 1], c)
            /\ UNCHANGED <<schedVars, handles>>
  BY DEF AcceptTry
<1>2. /\ curr \in Fiber /\ d \in Fd /\ sock[d] \in Socket
      /\ sock[d].kind \in {"conn", "listen"} /\ sock[c] \in Socket
  BY <1>1, RunsOnOwn DEF WakeInv, Ops, NetInv, NetTypeOK
<1>3. c /= d /\ ~ IsOpen(c)
  BY <1>1, <1>2 DEF CanOpen, IsOpen
<1>4. sock[d].in - 1 \in 0..Cap /\ sock[d].in - 1 <= sock[d].in
  <2>1. sock[d].in \in 0..Cap
    BY <1>2, SocketParts
  <2> QED BY <1>1, <2>1
<1>5. /\ s1.kind = sock[d].kind /\ s1.room = sock[d].room /\ s1.hup = sock[d].hup
      /\ s1.in = sock[d].in - 1
  BY <1>2, <1>4, LessIn
<1>6. /\ s2.kind = sock[c].kind /\ s2.room = sock[c].room /\ s2.hup = sock[c].hup
      /\ s2.in = sock[c].in
  BY <1>2 DEF Socket
<1>7. o.kind = "conn"
  BY DEF Opened
<1>8. h.fd = c
  BY DEF NewHandle
<1>9. \/ sock' = [sock EXCEPT ![d] = s1, ![c] = o]
      \/ sock' = [sock EXCEPT ![d] = s1, ![c] = s2]
  BY <1>1, <1>3 DEF SilentClose
<1>10. \A f \in Fiber : frame'[f] = frame[f] \/ frame'[f] = NoFrame
  BY <1>1, <1>2, FrameSet DEF Return, WakeInv, NetInv
<1> HIDE DEF h, s1, s2, o
<1>11. /\ sock'[d] = s1 /\ \A e \in Fd \ {c, d} : sock'[e] = sock[e]
       /\ sock'[c] \in {o, s2}
  BY <1>2, <1>3, <1>9 DEF WakeInv, NetInv, NetTypeOK
<1>12. Calms(d)
  <2>1. sock[d].in > 0 /\ sock[d].kind /= "connecting"
    BY <1>1, <1>2
  <2>2. Readable(d)
    BY <2>1 DEF Readable
  <2>3. Writable(d)' => Writable(d)
    BY <1>5, <1>11 DEF Writable
  <2> QED BY <1>5, <1>11, <2>1, <2>2, <2>3 DEF Calms
<1>13. \A e \in Fd \ {c} : Calms(e)
  BY <1>11, <1>12 DEF Calms, Readable, Writable
<1>14. CASE /\ sock' = [sock EXCEPT ![d].in = @ - 1, ![c] = o]
            /\ Reg(c)
            /\ handles' = handles \cup {h}
  <2>1. sock' = [sock EXCEPT ![d] = s1, ![c] = o]
    BY <1>3, <1>14 DEF s1
  <2>2. sock'[c].kind = "conn"
    BY <1>7, <2>1 DEF WakeInv, NetInv, NetTypeOK
  <2>3. \A e \in Fd \ {c} : SameKind(e)
    BY <1>13 DEF Calms, SameKind
  <2>4. \A x \in handles' : x.fd /= c /\ Valid(x)' => x \in handles /\ Valid(x)
    BY <1>1, <1>8, <1>14 DEF Valid
  <2>5. \A f \in Fiber : frame'[f].op = "connect" /\ frame'[f].on.fd /= c =>
          frame[f].op = "connect" /\ frame'[f].on = frame[f].on
    BY <1>10, NoFrameIdle
  <2>6. held' \ {c} \subseteq held
    BY <1>1
  <2>7. KindsFit'
    BY <2>2, <2>3, <2>4, <2>5, <2>6, KindsStep DEF WakeInv
  <2> QED BY <1>3, <1>10, <1>13, <1>14, <2>7, NoFrameIdle, RegWake
<1>15. CASE /\ sock' = SilentClose([sock EXCEPT ![d].in = @ - 1], c)
            /\ UNCHANGED <<schedVars, handles>>
  <2>1. sock' = [sock EXCEPT ![d] = s1, ![c] = s2]
    BY <1>3, <1>15 DEF s1, s2, SilentClose
  <2>2. sock'[c] = s2
    BY <2>1 DEF WakeInv, NetInv, NetTypeOK
  <2>3. Calms(c)
    BY <1>3, <1>6, <2>2 DEF Calms, Readable, Writable, IsOpen
  <2> QED BY <1>1, <1>10, <1>13, <1>15, <2>3, NoFrameIdle, FrameWake
<1> QED BY <1>1, <1>14, <1>15

\* A socket that nobody waits for is opened or closed.
LEMMA RawWake ==
  ASSUME WakeInv, NetInv', KindsFit', NEW d \in Fd, d \notin DOMAIN ioQ,
         UNCHANGED <<ioQ, curr, evs, now, frame>>,
         interest \ {d} \subseteq interest', pending \ {d} \subseteq pending',
         \A e \in Fd \ {d} : sock'[e] = sock[e]
  PROVE  WakeInv'
<1> USE DEF WakeInv
<1>1. \A f \in Fiber : frame[f].op = "connect" => frame[f].on.fd /= d
                         /\ sock'[frame[f].on.fd] = sock[frame[f].on.fd]
  BY OnOpenFd
<1>2. ConnectsWait'
  <2> SUFFICES ASSUME NEW f \in Fiber, frame'[f].op = "connect", frame'[f].pc = "woken"
               PROVE  \/ evs'[f] = Await(frame'[f].expire, {}, {frame'[f].on.fd}, {})
                      \/ TimedOut(f)'
                      \/ sock'[frame'[f].on.fd].kind \in {"conn", "refused"}
    BY DEF ConnectsWait, Await
  <2> QED BY <1>1 DEF ConnectsWait, TimedOut
<1>3. NoneLost'
  <2> SUFFICES ASSUME NEW f \in Fiber, NEW e \in Fd, Lost(f, e)'
               PROVE  Lost(f, e)
    BY DEF NoneLost
  <2>1. (Reads(f, e)' <=> Reads(f, e)) /\ (Writes(f, e)' <=> Writes(f, e))
    BY DEF Reads, Writes
  <2>2. e \in DOMAIN ioQ
    BY <2>1, AwaitRegistered DEF Lost
  <2>3. e /= d /\ sock'[e] = sock[e]
    BY <2>2
  <2>4. (Readable(e)' <=> Readable(e)) /\ (Writable(e)' <=> Writable(e))
    BY <2>3 DEF Readable, Writable
  <2>5. e \notin pending
    BY <2>3 DEF Lost
  <2> QED BY <2>1, <2>4, <2>5 DEF Lost
<1>4. DOMAIN ioQ' \subseteq interest'
  OBVIOUS
<1> QED BY <1>2, <1>3, <1>4

LEMMA OpenRawWake ==
  ASSUME WakeInv, NetInv', NEW d \in Fd, NEW k \in {"conn", "listen"}, OpenRaw(d, k) \/ CloseRaw(d),
         UNCHANGED frame
  PROVE  WakeInv'
<1>1. /\ UNCHANGED <<ioQ, curr, evs, now, fdSeq, handles, frame>>
      /\ interest \ {d} \subseteq interest' /\ pending \ {d} \subseteq pending'
      /\ held' \ {d} \subseteq held
      /\ \/ sock' = [sock EXCEPT ![d] = Opened(d, k)] /\ ~ IsOpen(d)
         \/ sock' = [sock EXCEPT ![d] = Shut(d)] /\ d \in held
  BY DEF OpenRaw, CloseRaw, schedVars, KernelClose, queues, CanOpen
<1>2. d \notin DOMAIN ioQ
  BY <1>1, OnOpenFd DEF WakeInv, NetInv, HandleInv, FdsApart
<1>3. Opened(d, k).kind = k /\ Shut(d).kind = "none"
  BY DEF Opened, Shut
<1>4. sock'[d].kind \in {k, "none"} /\ \A e \in Fd \ {d} : sock'[e] = sock[e]
  <2> DEFINE o == Opened(d, k)
             s == Shut(d)
  <2>1. o.kind = k /\ s.kind = "none"
    BY <1>3
  <2>2. sock' = [sock EXCEPT ![d] = o] \/ sock' = [sock EXCEPT ![d] = s]
    BY <1>1
  <2> HIDE DEF o, s
  <2> QED BY <2>1, <2>2 DEF WakeInv, NetInv, NetTypeOK
<1>5. \A e \in Fd \ {d} : SameKind(e)
  BY <1>4 DEF SameKind
<1>6. \A f \in Fiber : frame'[f].op = "connect" => frame'[f].on.fd /= d
  BY <1>1, <1>2, OnOpenFd DEF WakeInv
<1>7. KindsFit'
  BY <1>1, <1>4, <1>5, <1>6, KindsStep DEF WakeInv, Valid
<1> QED BY <1>1, <1>2, <1>4, <1>7, RawWake


-----------------------------------------------------------------------------
(* Unregistering.                                                          *)

\* Who waits for d is woken, and the others are left alone.
LEMMA UnregEvs ==
  ASSUME NetInv, NEW d \in Fd, UnregRawFd(d)
  PROVE  /\ \A f \in Fiber : d \notin evs'[f].r \cup evs'[f].w
         /\ \A f \in Fiber : \/ evs'[f] = evs[f]
                             \/ evs'[f] = NoEvents /\ d \in evs[f].r \cup evs[f].w
         /\ EvsShrink
<1> DEFINE F == ioQ[d].r \cup ioQ[d].w
<1>1. d \in DOMAIN ioQ /\ evs' = EvsAfterWake(F)
  BY DEF UnregRawFd
<1>2. F \in SUBSET Fiber
  BY <1>1, QueuedAreParked DEF NetInv
<1>3. \A f \in Fiber : f \in F <=> d \in evs[f].r \cup evs[f].w
  BY <1>1 DEF NetInv, SchedInv, QueuesConsistent, IoConsistent
<1> HIDE DEF F
<1>4. EvsShrink /\ \A f \in Fiber : evs'[f] = IF f \in F THEN NoEvents ELSE evs[f]
  BY <1>1, <1>2, WakeShrinks DEF NetInv
<1>5. NoEvents.r = {} /\ NoEvents.w = {}
  BY DEF NoEvents
<1> QED BY <1>3, <1>4, <1>5

LEMMA GoneWake ==
  ASSUME WakeInv, NetInv', NEW d \in Fd, UnregRawFd(d),
         \A f \in Fiber : frame[f].pc \notin {"try", "check"},
         \A f \in Fiber : frame'[f] = frame[f] \/ frame'[f] = NoFrame,
         \A f \in Fiber : frame'[f].op = "connect" => frame'[f].on.fd /= d,
         fdSeq' = [fdSeq EXCEPT ![d] = @ + 1], UNCHANGED handles,
         interest \ {d} \subseteq interest', pending \ {d} \subseteq pending',
         \A e \in Fd \ {d} : sock'[e] = sock[e],
         held' \ {d} \subseteq held, sock'[d].kind \in {"conn", "listen", "none"}
  PROVE  WakeInv'
<1> USE DEF WakeInv
<1>1. DOMAIN ioQ' = DOMAIN ioQ \ {d} /\ now' = now
  BY UnregRemoves DEF NetInv
<1>2. /\ fdSeq[d] \in 0..MaxSeq /\ fdSeq'[d] = fdSeq[d] + 1
      /\ \A e \in Fd \ {d} : fdSeq'[e] = fdSeq[e]
  BY DEF NetInv, NetTypeOK
<1>3. \A x \in handles' : Valid(x)' => x \in handles /\ Valid(x) /\ x.fd /= d
  <2>1. \A x \in handles : x.fd \in Fd /\ x.seq \in Int /\ x.seq <= fdSeq[x.fd]
    BY DEF NetInv, NetTypeOK, HandleInv, SeqsBehind, Knows, Handle
  <2> QED BY <1>2, <2>1 DEF Valid
<1>4. \A f \in Fiber : frame'[f].op = "connect" => frame'[f] = frame[f]
  BY NoFrameIdle
<1>5. KindsFit'
  <2>1. \A e \in Fd \ {d} : SameKind(e)
    BY DEF SameKind
  <2>2. \A f \in Fiber : frame'[f].op = "connect" /\ frame'[f].on.fd /= d =>
           frame[f].op = "connect" /\ frame'[f].on = frame[f].on
    BY <1>4
  <2> QED BY <1>3, <2>1, <2>2, KindsStep
<1>6. ConnectsWait'
  <2> SUFFICES ASSUME NEW f \in Fiber, frame'[f].op = "connect", frame'[f].pc = "woken"
               PROVE  \/ evs'[f] = Await(frame'[f].expire, {}, {frame'[f].on.fd}, {})
                      \/ TimedOut(f)'
                      \/ sock'[frame'[f].on.fd].kind \in {"conn", "refused"}
    BY DEF ConnectsWait, Await
  <2>1. frame'[f] = frame[f] /\ frame[f].on.fd /= d
    BY <1>4
  <2>2. frame[f].on.fd \in Fd
    BY <2>1, OnOpenFd
  <2>3. CASE evs[f] = Await(frame[f].expire, {}, {frame[f].on.fd}, {})
    <3>1. evs[f].r = {} /\ evs[f].w = {frame[f].on.fd}
      BY <2>3 DEF Await
    <3>2. evs'[f] = evs[f]
      BY <2>1, <3>1, UnregEvs
    <3> QED BY <2>1, <2>3, <3>2
  <2>4. CASE TimedOut(f)
    BY <1>1, <2>1, <2>4 DEF TimedOut
  <2>5. CASE sock[frame[f].on.fd].kind \in {"conn", "refused"}
    BY <2>1, <2>2, <2>5
  <2> QED BY <2>1, <2>3, <2>4, <2>5 DEF ConnectsWait
<1>7. NoneLost'
  <2> SUFFICES ASSUME NEW f \in Fiber, NEW e \in Fd, Lost(f, e)'
               PROVE  Lost(f, e)
    BY DEF NoneLost
  <2>1. frame'[f].pc /= "check"
    BY NoFrameIdle
  <2>2. \/ e \in evs'[f].r /\ Readable(e)'
        \/ e \in evs'[f].w /\ Writable(e)'
    BY <2>1 DEF Lost, Reads, Writes
  <2>3. e /= d /\ evs'[f].r \subseteq evs[f].r /\ evs'[f].w \subseteq evs[f].w
    BY <2>2, UnregEvs DEF EvsShrink
  <2>4. sock'[e] = sock[e]
    BY <2>3
  <2>5. (Readable(e)' <=> Readable(e)) /\ (Writable(e)' <=> Writable(e))
    BY <2>4 DEF Readable, Writable
  <2>6. e \notin pending
    BY <2>3 DEF Lost
  <2> QED BY <2>2, <2>3, <2>5, <2>6 DEF Lost, Reads, Writes
<1> QED BY <1>1, <1>5, <1>6, <1>7

LEMMA UnregWake ==
  ASSUME WakeInv, NetInv', NEW h \in handles, Unreg(h) \/ Close(h),
         curr = None \/ ~ InIo(curr), UNCHANGED frame
  PROVE  WakeInv'
<1>1. h \in Handle /\ h.fd \in Fd
  BY DEF WakeInv, NetInv, NetTypeOK, Handle
<1>. PICK d \in Fd : d = h.fd
  BY <1>1
<1>2. /\ Valid(h) /\ UnregRawFd(d) /\ fdSeq' = [fdSeq EXCEPT ![d] = @ + 1]
      /\ handles' = handles /\ held' \ {d} \subseteq held
      /\ UNCHANGED sock \/ sock' = [sock EXCEPT ![d] = Shut(d)]
  BY DEF Unreg, Close
<1>3. interest \ {d} \subseteq interest' /\ pending \ {d} \subseteq pending'
  BY DEF Unreg, Close, UnregRawFd, kernel
<1>4. /\ sock'[d].kind \in {"conn", "listen", "none"}
      /\ \A e \in Fd \ {d} : sock'[e] = sock[e]
  <2>1. sock[d].kind \in {"conn", "listen"}
    BY <1>2 DEF WakeInv, KindsFit
  <2>2. CASE UNCHANGED sock
    BY <2>1, <2>2
  <2>3. CASE sock' = [sock EXCEPT ![d] = Shut(d)]
    <3>1. Shut(d) \in Socket /\ Shut(d).kind = "none"
      BY ShutSock DEF WakeInv, NetInv
    <3> QED BY <2>3, <3>1, SockSet DEF WakeInv, NetInv
  <2> QED BY <1>2, <2>2, <2>3
<1>5. \A f \in Fiber : frame[f].op = "connect" => frame[f].on.fd /= d
  BY <1>2 DEF WakeInv, NetInv, HandleInv, ConnectsAlone
<1>6. \A f \in Fiber : frame[f].pc \notin {"try", "check"}
  BY IdleFrames DEF WakeInv
<1> QED BY <1>2, <1>3, <1>4, <1>5, <1>6, GoneWake

LEMMA ConnectFailsWake ==
  ASSUME WakeInv, NetInv', ConnectFails
  PROVE  WakeInv'
<1>1. At({"connect"}, "woken")
  BY DEF ConnectFails
<1>2. /\ curr \in Fiber /\ InIo(curr) /\ frame[curr].op = "connect" /\ frame[curr].pc = "woken"
      /\ frame[curr].on \in Handle
  BY <1>1, AtFrame DEF WakeInv, NetInv, Ops
<1>3. frame[curr].on.fd \in Fd
  BY <1>2 DEF Handle
<1>. PICK d \in Fd : d = frame[curr].on.fd
  BY <1>3
<1>4. /\ Return /\ UnregRawFd(d) /\ fdSeq' = [fdSeq EXCEPT ![d] = @ + 1]
      /\ sock' = [sock EXCEPT ![d] = Shut(d)] /\ UNCHANGED <<held, handles>>
      /\ interest \ {d} \subseteq interest' /\ pending \ {d} \subseteq pending'
  BY DEF ConnectFails, Close, UnregRawFd, kernel
<1>5. sock'[d].kind = "none" /\ \A e \in Fd \ {d} : sock'[e] = sock[e]
  <2>1. Shut(d) \in Socket /\ Shut(d).kind = "none"
    BY ShutSock DEF WakeInv, NetInv
  <2> QED BY <1>4, <2>1, SockSet DEF WakeInv, NetInv
<1>6. frame'[curr] = NoFrame /\ \A f \in Fiber \ {curr} : frame'[f] = frame[f]
  BY <1>2, <1>4, FrameSet DEF Return, WakeInv, NetInv
<1>7. \A f \in Fiber : frame'[f].op = "connect" => frame'[f].on.fd /= d
  BY <1>2, <1>6, NoFrameIdle DEF WakeInv, NetInv, HandleInv, ConnectsAlone
<1>8. \A f \in Fiber : frame[f].pc \notin {"try", "check"}
  <2>1. \A f \in Fiber : ~ InIo(f) => frame[f].pc = "none"
    BY FrameOf DEF WakeInv, NetInv
  <2> QED BY <1>2, <2>1 DEF WakeInv, NetInv, HandleInv, FramesHold
<1> QED BY <1>4, <1>5, <1>6, <1>7, <1>8, GoneWake

-----------------------------------------------------------------------------
(* The end of a connect.                                                   *)

\* A connect that is to succeed runs since its socket was decided.
LEMMA SucceedsDecided ==
  ASSUME WakeInv, ConnectSucceeds
  PROVE  /\ curr \in Fiber /\ frame[curr].op = "connect" /\ frame[curr].on.fd \in Fd
         /\ sock[frame[curr].on.fd].kind = "conn" /\ ~ TimedOut(curr)
<1>1. /\ At({"connect"}, "woken") /\ ~ TimedOut(curr)
      /\ sock[frame[curr].on.fd].kind /= "refused"
  BY DEF ConnectSucceeds
<1>2. /\ curr \in Fiber /\ frame[curr].op = "connect" /\ frame[curr].pc = "woken"
      /\ frame[curr].on \in Handle
  BY <1>1, AtFrame DEF WakeInv, NetInv, Ops
<1>3. evs[curr] = NoEvents
  <2>1. ~ Parked(curr)
    BY <1>2 DEF WakeInv, NetInv, SchedInv, Placement
  <2> QED BY <1>2, <2>1 DEF Parked
<1>4. evs[curr] /= Await(frame[curr].expire, {}, {frame[curr].on.fd}, {})
  <2>1. NoEvents.w = {}
    BY DEF NoEvents
  <2>2. Await(frame[curr].expire, {}, {frame[curr].on.fd}, {}).w = {frame[curr].on.fd}
    BY DEF Await
  <2> QED BY <1>3, <2>1, <2>2
<1>5. frame[curr].on.fd \in Fd
  BY <1>2 DEF Handle
<1> QED BY <1>1, <1>2, <1>4, <1>5 DEF WakeInv, ConnectsWait

LEMMA ConnectSucceedsWake ==
  ASSUME WakeInv, NetInv', ConnectSucceeds
  PROVE  WakeInv'
<1> USE DEF WakeInv
<1>1. /\ curr \in Fiber /\ frame[curr].op = "connect" /\ frame[curr].on.fd \in Fd
      /\ sock[frame[curr].on.fd].kind = "conn"
  BY SucceedsDecided
<1>. PICK d \in Fd : d = frame[curr].on.fd
  BY <1>1
<1>2. /\ Return /\ handles' = handles \cup {frame[curr].on}
      /\ UNCHANGED <<ioQ, evs, interest, pending, now, sock, held, fdSeq>>
  BY DEF ConnectSucceeds, schedVars
<1>3. frame'[curr] = NoFrame /\ \A f \in Fiber \ {curr} : frame'[f] = frame[f]
  BY <1>1, <1>2, FrameSet DEF Return, NetInv
<1>4. \A f \in Fiber : frame'[f].op = "connect" => frame'[f] = frame[f] /\ frame[f].op = "connect"
  BY <1>3, NoFrameIdle
<1>5. \A e \in Fd : SameKind(e)
  BY <1>2 DEF SameKind
<1>6. KindsFit'
  <2>1. \A x \in handles' : x.fd /= d /\ Valid(x)' => x \in handles /\ Valid(x)
    BY <1>2 DEF Valid
  <2>2. sock'[d].kind = "conn" /\ held' \ {d} \subseteq held
    BY <1>1, <1>2
  <2>3. \A f \in Fiber : frame'[f].op = "connect" /\ frame'[f].on.fd /= d =>
           frame[f].op = "connect" /\ frame'[f].on = frame[f].on
    BY <1>4
  <2> QED BY <1>5, <2>1, <2>2, <2>3, KindsStep
<1>7. \A f \in Fiber : frame'[f].op = "connect" => frame'[f] = frame[f]
                         /\ sock'[frame[f].on.fd].kind /= "none"
  BY <1>2, <1>4, OnOpenFd DEF IsOpen
<1>8. ConnectsWait'
  BY <1>2, <1>5, <1>7, SameEvs, WaitOn
<1>9. NoneLost'
  <2> SUFFICES ASSUME NEW f \in Fiber, NEW e \in Fd, Lost(f, e)'
               PROVE  Lost(f, e)
    BY DEF NoneLost
  <2>1. (Readable(e)' <=> Readable(e)) /\ (Writable(e)' <=> Writable(e))
    BY <1>2 DEF Readable, Writable
  <2>2. (Reads(f, e)' => Reads(f, e)) /\ (Writes(f, e)' => Writes(f, e))
    BY <1>2, <1>3, NoFrameIdle DEF Reads, Writes
  <2> QED BY <1>2, <2>1, <2>2 DEF Lost
<1> QED BY <1>2, <1>6, <1>8, <1>9

LEMMA NetInitWake == NetInit => WakeInv
<1> SUFFICES ASSUME NetInit PROVE WakeInv
  OBVIOUS
<1>1. /\ \A f \in Fiber : frame[f].op = "none" /\ frame[f].pc = "none" /\ evs[f] = NoEvents
      /\ \A d \in Fd : sock[d].kind = "none"
      /\ DOMAIN ioQ = {} /\ held = {} /\ handles = {}
  BY DEF NetInit, SchedInit, NoFrame
<1>2. NoEvents.r = {} /\ NoEvents.w = {}
  BY DEF NoEvents
<1>3. KindsFit /\ ConnectsWait
  BY <1>1 DEF KindsFit, ConnectsWait
<1>4. NoneLost
  BY <1>1, <1>2 DEF NoneLost, Lost, Reads, Writes
<1> QED BY <1>1, <1>3, <1>4, NetInitInv DEF WakeInv

LEMMA NetNextWake == WakeInv /\ [NetNext]_netVars => WakeInv'
<1> SUFFICES ASSUME WakeInv, [NetNext]_netVars PROVE WakeInv'
  OBVIOUS
<1>1. NetInv'
  BY NetNextInv DEF WakeInv
<1>2. CASE UserLeave
  BY <1>1, <1>2, StillWake DEF UserLeave
<1>3. CASE UserCall
  <2>1. (curr = None \/ ~ InIo(curr)) /\ UNCHANGED frame
    BY <1>3 DEF UserCall
  <2>2. CASE Create /\ UNCHANGED objects
    BY <1>1, <2>1, <2>2, StillWake
  <2>3. CASE \E d \in Fd : CloseRaw(d) \/ FromRawFd(d) \/ ListenStream(d)
    BY <1>1, <2>1, <2>3, OpenRawWake, FromRawFdWake, ListenWake
  <2>4. CASE \E h \in handles : Unreg(h) \/ Close(h)
    BY <1>1, <2>1, <2>4, UnregWake
  <2>5. CASE \E d \in Fd, k \in {"conn", "listen"} : OpenRaw(d, k)
    BY <1>1, <2>1, <2>5, OpenRawWake
  <2> QED BY <1>3, <2>2, <2>3, <2>4, <2>5 DEF UserCall
<1>4. CASE UserIo
  <2>1. CASE ConnectNoSocket
    BY <1>1, <2>1, StillWake DEF ConnectNoSocket
  <2> QED BY <1>1, <1>4, <2>1, IoStartWake, ConnectStartWake DEF UserIo
<1>5. CASE IoStep
  BY <1>1, <1>5, ReadWake, WriteWake, AcceptWake, StayWake, ParkWake, ConnectSucceedsWake,
     ConnectFailsWake DEF IoStep
<1>6. CASE NetLoop \/ NetTick
  BY <1>1, <1>6, StillWake DEF NetLoop, NetTick
<1>7. CASE Kernel
  BY <1>1, <1>7, KernelWake
<1>8. CASE (Run \/ WaitInterrupted \/ WaitFailed) /\ UNCHANGED <<objects, frame, unset>>
  BY <1>1, <1>8, StillWake
<1>9. CASE UNCHANGED netVars
  BY <1>1, <1>9, StillWake DEF netVars, objects
<1> QED BY <1>2, <1>3, <1>4, <1>5, <1>6, <1>7, <1>8, <1>9 DEF NetNext

\* Only its own last step ends a connect.
LEMMA ConnectEnds ==
  ASSUME NetInv, [NetNext]_netVars, NEW f \in Fiber, frame[f].op = "connect", ~ InIo(f)'
  PROVE  f = curr /\ (ConnectFails \/ ConnectSucceeds)
<1>1. frame'[f] /= frame[f]
  BY DEF InIo
<1>2. CASE UserIo
  <2>1. curr \in Fiber /\ ~ InIo(curr) /\ \E x : frame' = [frame EXCEPT ![curr] = x] \/ frame' = frame
    BY <1>2 DEF UserIo, IoStart, ConnectStart, ConnectedAtOnce, ConnectPending, ConnectGivesUp,
                ConnectNoSocket, NetInv, NetTypeOK, SchedTypeOK
  <2>2. f /= curr
    BY <2>1 DEF InIo
  <2> QED BY <1>1, <2>1, <2>2 DEF NetInv, NetTypeOK
<1>3. CASE IoStep
  <2>1. CASE ConnectFails \/ ConnectSucceeds
    <3>1. \E x : frame' = [frame EXCEPT ![curr] = x]
      BY <2>1 DEF ConnectFails, ConnectSucceeds, Return
    <3> QED BY <1>1, <2>1, <3>1 DEF NetInv, NetTypeOK
  <2>2. CASE ConnectPark
    <3>1. /\ At({"connect"}, "check") /\ Goto("woken") /\ curr \in Fiber /\ InIo(curr)
      BY <2>2, AtFrame DEF ConnectPark, NetInv, Ops
    <3>2. frame'[curr].op = frame[curr].op /\ \A g \in Fiber \ {curr} : frame'[g] = frame[g]
      BY <3>1, GotoFrame
    <3> QED BY <1>1, <3>2 DEF InIo
  <2>3. CASE ReadTry \/ WriteTry \/ (\E c \in Fd : AcceptTry(c)) \/ TryBlocked \/ TryFails
               \/ IoTimeout \/ IoPark \/ IoResumed
    <3>1. curr /= None /\ frame[curr].op \in Streams \cup {"accept"}
      BY <2>3 DEF ReadTry, WriteTry, AcceptTry, TryBlocked, TryFails, IoTimeout, IoPark,
                  IoResumed, At, Streams
    <3>2. f /= curr
      BY <3>1 DEF Streams
    <3>3. \E x : frame' = [frame EXCEPT ![curr] = x]
      BY <2>3 DEF ReadTry, WriteTry, AcceptTry, TryBlocked, TryFails, IoTimeout, IoPark,
                  IoResumed, Goto, Return
    <3> QED BY <1>1, <3>2, <3>3 DEF NetInv, NetTypeOK
  <2> QED BY <1>3, <2>1, <2>2, <2>3 DEF IoStep
<1>4. CASE UNCHANGED frame
  BY <1>1, <1>4
<1> QED BY <1>2, <1>3, <1>4
        DEF NetNext, UserLeave, UserCall, NetLoop, NetTick, Kernel, netVars

-----------------------------------------------------------------------------

(* The inductive invariant behind the two theorems that follow. *)
THEOREM WakeInvariant == NetSpec => []WakeInv
BY NetInitWake, NetNextWake, PTL DEF NetSpec

(* A fiber that waits for an fd which is ready has an event on its way,    *)
(* though epoll reports an edge once.                                      *)
THEOREM NoIoWakeUpIsLost == NetSpec => []NoLostIoWakeUp
<1>1. WakeInv => NoLostIoWakeUp
  <2> SUFFICES ASSUME WakeInv, NEW f \in Fiber
               PROVE  /\ \A d \in evs[f].r : Readable(d) => d \in pending
                      /\ \A d \in evs[f].w : Writable(d) => d \in pending
    BY DEF NoLostIoWakeUp
  <2>1. evs[f].r \subseteq Fd /\ evs[f].w \subseteq Fd
    BY DEF WakeInv, NetInv, NetTypeOK, SchedTypeOK, Events
  <2> QED BY <2>1 DEF WakeInv, NoneLost, Lost, Reads, Writes
<1> QED BY <1>1, WakeInvariant, PTL

(* A connect ends with its socket closed, or established in time.          *)
THEOREM ConnectsAreEstablished == NetSpec => ConnectsEstablished
<1>1. WakeInv /\ [NetNext]_netVars =>
        [\A f \in Fiber :
           frame[f].op = "connect" /\ ~ InIo(f)' =>
             \/ sock'[frame[f].on.fd].kind = "none"
             \/ sock[frame[f].on.fd].kind = "conn" /\ ~ TimedOut(f)]_netVars
  <2> SUFFICES ASSUME WakeInv, [NetNext]_netVars,
                      NEW f \in Fiber, frame[f].op = "connect", ~ InIo(f)'
               PROVE  \/ sock'[frame[f].on.fd].kind = "none"
                      \/ sock[frame[f].on.fd].kind = "conn" /\ ~ TimedOut(f)
    OBVIOUS
  <2>1. f = curr /\ (ConnectFails \/ ConnectSucceeds)
    BY ConnectEnds DEF WakeInv
  <2>2. CASE ConnectSucceeds
    BY <2>1, <2>2, SucceedsDecided
  <2>3. CASE ConnectFails
    <3>1. frame[f].on.fd \in Fd
      BY OnOpenFd DEF WakeInv
    <3>2. PICK d \in Fd : d = frame[f].on.fd
      BY <3>1
    <3>3. sock' = [sock EXCEPT ![d] = Shut(d)]
      BY <2>1, <2>3, <3>2 DEF ConnectFails, Close
    <3>4. Shut(d) \in Socket /\ Shut(d).kind = "none"
      BY ShutSock DEF WakeInv, NetInv
    <3> QED BY <3>2, <3>3, <3>4, SockSet DEF WakeInv, NetInv
  <2> QED BY <2>1, <2>2, <2>3
<1> QED BY <1>1, WakeInvariant, PTL DEF NetSpec, ConnectsEstablished

-----------------------------------------------------------------------------
(* Who wakes a fiber that is parked on an fd.                              *)

\* Only its own fiber moves; no one else is woken.
OnlyCurr == \A f \in Fiber : f /= curr => evs'[f] = evs[f]

LEMMA ParksOnlyCurr ==
  ASSUME NetInv, NEW e, SwitchToSchedFiber(e) \/ Finish
  PROVE  OnlyCurr
BY DEF SwitchToSchedFiber, Finish, OnlyCurr, NetInv, SchedInv, SchedTypeOK

LEMMA RestKeepsEvs ==
  ASSUME UNCHANGED evs
  PROVE  OnlyCurr
BY DEF OnlyCurr

LEMMA SignalKeepsEvs ==
  ASSUME NEW d, Signal(d)
  PROVE  UNCHANGED evs
BY DEF Signal, Edge, schedVars, queues

LEMMA RegKeepsEvs ==
  ASSUME NEW d, Reg(d)
  PROVE  UNCHANGED evs
BY DEF Reg, RegRawFd

LEMMA IoStepWakes ==
  ASSUME NetInv, IoStep
  PROVE  OnlyCurr \/ \E d \in Fd : UnregRawFd(d)
<1>1. CASE ConnectFails
  <2>1. At({"connect"}, "woken") /\ {"connect"} \subseteq Ops /\ UnregRawFd(frame[curr].on.fd)
    BY <1>1 DEF ConnectFails, Close, Ops
  <2> QED BY <2>1, AtFrame DEF NetInv
<1>2. CASE ReadTry \/ WriteTry \/ TryBlocked \/ TryFails \/ IoTimeout \/ IoResumed
             \/ ConnectSucceeds
  <2>1. UNCHANGED evs
    BY <1>2 DEF ReadTry, WriteTry, TryBlocked, TryFails, IoTimeout, IoResumed,
                ConnectSucceeds, schedVars, queues
  <2> QED BY <2>1, RestKeepsEvs
<1>3. CASE \E c \in Fd : AcceptTry(c)
  <2>1. UNCHANGED evs
    BY <1>3, RegKeepsEvs DEF AcceptTry, schedVars, queues
  <2> QED BY <2>1, RestKeepsEvs
<1>4. CASE IoPark \/ ConnectPark
  <2>1. \E e : SwitchToSchedFiber(e)
    BY <1>4 DEF IoPark, ConnectPark, WaitReading, WaitWriting
  <2> QED BY <2>1, ParksOnlyCurr
<1> QED BY <1>1, <1>2, <1>3, <1>4 DEF IoStep

LEMMA UserStepWakes ==
  ASSUME NetInv, UserLeave \/ UserCall \/ UserIo
  PROVE  OnlyCurr \/ \E d \in Fd : UnregRawFd(d)
<1>1. CASE UserLeave
  <2>1. Finish \/ \E e : SwitchToSchedFiber(e)
    BY <1>1 DEF UserLeave, Yield, SleepMS
  <2> QED BY <2>1, ParksOnlyCurr
<1>2. CASE UserCall
  <2>1. CASE Create \/ \E d \in Fd, k \in {"conn", "listen"} : OpenRaw(d, k)
    <3>1. UNCHANGED evs
      BY <2>1 DEF Create, OpenRaw, schedVars, queues
    <3> QED BY <3>1, RestKeepsEvs
  <2>2. CASE \E d \in Fd : CloseRaw(d) \/ FromRawFd(d) \/ ListenStream(d)
    <3>1. UNCHANGED evs
      BY <2>2, RegKeepsEvs DEF CloseRaw, KernelClose, FromRawFd, ListenStream, schedVars, queues
    <3> QED BY <3>1, RestKeepsEvs
  <2>3. CASE \E h \in handles : Unreg(h) \/ Close(h)
    <3>1. \A h \in handles : h.fd \in Fd
      BY DEF NetInv, NetTypeOK, Handle
    <3> QED BY <2>3, <3>1 DEF Unreg, Close
  <2> QED BY <1>2, <2>1, <2>2, <2>3 DEF UserCall
<1>3. CASE UserIo
  <2>1. UNCHANGED evs
    BY <1>3, RegKeepsEvs
       DEF UserIo, IoStart, ConnectStart, ConnectedAtOnce, ConnectPending, ConnectGivesUp,
           ConnectNoSocket, schedVars, queues
  <2> QED BY <2>1, RestKeepsEvs
<1> QED BY <1>1, <1>2, <1>3

LEMMA WhoWakes ==
  ASSUME NetInv, [NetNext]_netVars
  PROVE  \/ OnlyCurr
         \/ \E d \in Fd : UnregRawFd(d)
         \/ CheckExpiring
         \/ \E in, out \in SUBSET Fd : Report(in, out)
<1>1. CASE NetLoop
  <2>1. UNCHANGED evs \/ CheckExpiring \/ \E in, out \in SUBSET Fd : Report(in, out)
    BY <1>1 DEF NetLoop, TakeReady, Resume, EnterWait, WaitTimedOut, DropEdge, EdgeOver, queues
  <2> QED BY <2>1, RestKeepsEvs
<1>2. CASE Kernel
  <2>1. UNCHANGED evs
    BY <1>2, SignalKeepsEvs
       DEF Kernel, Arrive, PeerTakes, PeerCloses, Established, schedVars, queues
  <2> QED BY <2>1, RestKeepsEvs
<1>3. CASE NetTick \/ Run \/ WaitInterrupted \/ WaitFailed \/ UNCHANGED netVars
  <2>1. UNCHANGED evs
    BY <1>3 DEF NetTick, Tick, Run, WaitInterrupted, WaitFailed, netVars, schedVars, queues
  <2> QED BY <2>1, RestKeepsEvs
<1> QED BY <1>1, <1>2, <1>3, IoStepWakes, UserStepWakes DEF NetNext

LEMMA UnregWakes ==
  ASSUME NetInv, NEW d \in Fd, UnregRawFd(d), NEW f \in Fiber, evs'[f] /= evs[f]
  PROVE  WokenForIo(f)
<1>1. d \in evs[f].r \cup evs[f].w
  BY UnregEvs
<1>2. d \notin DOMAIN ioQ'
  BY UnregRemoves DEF NetInv
<1> QED BY <1>1, <1>2 DEF WokenForIo, WokenToRead, WokenToWrite

(* A step wakes a fiber parked on an fd only as its time is over, as the   *)
(* fd is unregistered, or for the way of input or output it waits for.     *)
THEOREM IoWakeUpsJustified == NetSpec => NoSpuriousIoWakeUp
<1> DEFINE Good == \A f \in Fiber :
                     evs[f].r \cup evs[f].w /= {} /\ ~ Parked(f)' => WokenForIo(f)
<1>1. NetInv /\ [NetNext]_netVars => [Good]_netVars
  <2> SUFFICES ASSUME NetInv, [NetNext]_netVars,
                      NEW f \in Fiber, evs[f].r \cup evs[f].w /= {}, ~ Parked(f)'
               PROVE  WokenForIo(f)
    BY DEF Good
  <2>1. evs[f] /= NoEvents /\ evs'[f] = NoEvents
    BY DEF Parked, NoEvents
  <2>2. ~ OnlyCurr
    BY <2>1 DEF OnlyCurr, NetInv, SchedInv, Placement, Parked
  <2>3. CASE \E d \in Fd : UnregRawFd(d)
    BY <2>1, <2>3, UnregWakes
  <2>4. CASE CheckExpiring
    BY <2>1, <2>4, DueIsOver DEF WokenForIo
  <2>5. CASE \E in, out \in SUBSET Fd : Report(in, out)
    BY <2>1, <2>5, ReportWakes
  <2> QED BY <2>2, <2>3, <2>4, <2>5, WhoWakes
<1> QED BY <1>1, NetInvariant, PTL DEF NetSpec, NoSpuriousIoWakeUp

=============================================================================
