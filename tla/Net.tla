-------------------------------- MODULE Net --------------------------------
(***************************************************************************)
(* The file descriptors, connections and listeners of src/fiber/fd.cpp,    *)
(* conn.cpp and listener.cpp on top of the scheduler.  Each blocking       *)
(* operation is cut where it reads the clock and where it jumps to the     *)
(* scheduler, and is run by fibers that between two operations may close,  *)
(* unregister and register fds or leave the thread to others.              *)
(*                                                                         *)
(* The kernel's sockets are external: how many bytes, or connections to    *)
(* accept, one holds, what room it has, and the edges epoll sees.          *)
(***************************************************************************)
EXTENDS Sched

CONSTANTS
  TimeoutMs,   \* the values of timeout_ms that callers use; -1 is none
  Cap,         \* the capacity of a socket's two buffers and of a backlog
  MaxWrite,    \* bound: the size of the buffer to write
  MaxSeq,      \* bound: how often one fd is registered (seq_ wraps at 2^32)
  MaxOpen      \* bound: how often the kernel gives out one fd

ASSUME NetAssumption ==
  /\ TimeoutMs \subseteq Nat \cup {-1}
  /\ {Cap, MaxWrite, MaxSeq, MaxOpen} \subseteq Nat \ {0}

VARIABLES
  sock,     \* kernel: what is behind every fd
  held,     \* the open fds that the user's code holds as plain ints
  fdSeq,    \* FdSeq of every fd
  handles,  \* the Conn and Listener objects handed out; copies are equal
  frame,    \* the locals of the blocking operation of each fiber
  unset     \* the fibers whose last connect has not written *err_code

netVars == <<schedVars, sock, held, fdSeq, handles, frame, unset>>
objects == <<sock, held, fdSeq, handles>>

Kinds == {"none", "conn", "listen", "connecting", "refused"}

\* gen tells the sockets that had the same fd apart.
Socket == [kind : Kinds, gen : 0..MaxOpen, in : 0..Cap, room : 0..Cap,
           hup : BOOLEAN]

Handle == [fd : Fd, seq : 0..MaxSeq, gen : 0..MaxOpen, kind : {"conn", "listen"}]

Ops == {"read", "write", "writeall", "accept", "connect"}

\* pc: "try" at the system call, "check" at the test of the time after it,
\* "woken" when SwitchToSchedFiber returns.
Frame == [op : Ops, pc : {"try", "check", "woken"},
          on : Handle, left : 0..MaxWrite, expire : Time \cup {-1}]

NoFrame == [op |-> "none", pc |-> "none", left |-> 0, expire |-> -1]

NetTypeOK ==
  /\ SchedTypeOK
  /\ sock \in [Fd -> Socket]
  /\ held \subseteq Fd
  /\ fdSeq \in [Fd -> 0..MaxSeq]
  /\ handles \subseteq Handle
  /\ frame \in [Fiber -> Frame \cup {NoFrame}]
  /\ unset \subseteq Fiber

NetInit ==
  /\ SchedInit
  /\ sock = [d \in Fd |-> [kind |-> "none", gen |-> 0, in |-> 0, room |-> 0,
                           hup |-> FALSE]]
  /\ held = {}
  /\ fdSeq = [d \in Fd |-> 0]
  /\ handles = {}
  /\ frame = [f \in Fiber |-> NoFrame]
  /\ unset = {}

-----------------------------------------------------------------------------
(* The kernel.                                                             *)

IsOpen(d) == sock[d].kind /= "none"

Readable(d) == sock[d].in > 0 \/ sock[d].hup \/ sock[d].kind = "refused"

Writable(d) == sock[d].room > 0 \/ sock[d].hup \/ sock[d].kind = "refused"

\* The socket after an open of d as kind k.
Opened(d, k) == [kind |-> k, gen |-> sock[d].gen + 1, in |-> 0,
                 room |-> IF k = "conn" THEN Cap ELSE 0, hup |-> FALSE]

Shut(d) == [kind |-> "none", gen |-> sock[d].gen, in |-> 0, room |-> 0,
              hup |-> FALSE]

CanOpen(d) == ~ IsOpen(d) /\ sock[d].gen < MaxOpen

\* An edge on d, which epoll keeps if d is in its set.
Signal(d) == IF d \in interest \ pending THEN Edge(d) ELSE UNCHANGED schedVars

Arrive(d) ==
  /\ sock[d].kind \in {"conn", "listen"} /\ ~ sock[d].hup
  /\ sock[d].in < Cap
  /\ sock' = [sock EXCEPT ![d].in = @ + 1]
  /\ Signal(d)

\* A writer that found no room is told of room; one that did not is not.
PeerTakes(d) ==
  /\ sock[d].kind = "conn" /\ ~ sock[d].hup
  /\ sock[d].room < Cap
  /\ sock' = [sock EXCEPT ![d].room = @ + 1]
  /\ IF sock[d].room = 0 THEN Signal(d) ELSE UNCHANGED schedVars

PeerCloses(d) ==
  /\ sock[d].kind = "conn" /\ ~ sock[d].hup
  /\ sock' = [sock EXCEPT ![d].hup = TRUE]
  /\ Signal(d)

\* The handshake that a connect began ends.
Established(d) ==
  /\ sock[d].kind = "connecting"
  /\ \/ sock' = [sock EXCEPT ![d].kind = "conn", ![d].room = Cap]
     \/ sock' = [sock EXCEPT ![d].kind = "refused"]
  /\ Signal(d)

\* epoll_wait reports what its fds are ready for as it returns, and drops an
\* edge whose fd is not ready any more.
Report(in, out) ==
  /\ in = {d \in in \cup out : Readable(d)}
  /\ out = {d \in in \cup out : Writable(d)}
  /\ WaitReturns(in, out)

DropEdge(d) == phase = "wait" /\ ~ Readable(d) /\ ~ Writable(d) /\ EdgeOver(d)

\* The user's code opens and closes fds on its own: k is "conn" or "listen".
OpenRaw(d, k) ==
  /\ CanCall /\ CanOpen(d)
  /\ sock' = [sock EXCEPT ![d] = Opened(d, k)]
  /\ held' = held \cup {d}
  /\ UNCHANGED <<schedVars, fdSeq, handles>>

CloseRaw(d) ==
  /\ CanCall
  /\ d \in held
  /\ sock' = [sock EXCEPT ![d] = Shut(d)]
  /\ held' = held \ {d}
  /\ IF d \in interest THEN KernelClose(d) ELSE UNCHANGED schedVars
  /\ UNCHANGED <<fdSeq, handles>>

-----------------------------------------------------------------------------
(* Fd: a handle is valid while its seq_ is that of its fd.                 *)

Valid(h) == h.seq = fdSeq[h.fd]

\* The handle of d made now.
NewHandle(d, k) == [fd |-> d, seq |-> fdSeq[d], gen |-> sock'[d].gen, kind |-> k]

\* Fd::Reg, when it succeeds.
Reg(d) ==
  /\ fdSeq[d] < MaxSeq
  /\ RegRawFd(d)
  /\ pending' = IF Readable(d)' \/ Writable(d)' THEN pending \cup {d} ELSE pending

\* SilentClose, from a table of sockets ss, of the fd d that the same call
\* has opened: it leaves no trace but that the kernel gave d out.
SilentClose(ss, d) == [ss EXCEPT ![d].gen = @ + 1]

\* FromRawFd of Conn and of Listener, for an fd of the user's own; the fd
\* stays the user's when Reg fails.
FromRawFd(d) ==
  /\ d \in held
  /\ UNCHANGED <<sock, fdSeq>>
  /\ Reg(d)
  /\ held' = held \ {d}
  /\ handles' = handles \cup
       {NewHandle(d, IF sock[d].kind = "listen" THEN "listen" ELSE "conn")}

BadListenStream(d) ==
  /\ CanCall /\ CanOpen(d)
  /\ sock' = [sock EXCEPT ![d] = Opened(d, "listen")]
  /\ \/ Reg(d) /\ handles' = handles \cup {NewHandle(d, "listen")}
     \/ UNCHANGED <<schedVars, handles>>
  /\ UNCHANGED <<held, fdSeq>>

\* ListenStream on a new socket, of which setsockopt(), bind(), listen() or
\* Reg may fail: the socket is closed again.
ListenStream(d) ==
  /\ CanCall /\ CanOpen(d)
  /\ \/ /\ sock' = [sock EXCEPT ![d] = Opened(d, "listen")]
        /\ Reg(d)
        /\ handles' = handles \cup {NewHandle(d, "listen")}
     \/ /\ sock' = SilentClose(sock, d)
        /\ UNCHANGED <<schedVars, handles>>
  /\ UNCHANGED <<held, fdSeq>>

BadUnreg(h) ==
  /\ Valid(h)
  /\ UnregRawFd(h.fd)
  /\ held' = held \cup {h.fd}
  /\ UNCHANGED <<sock, fdSeq, handles>>

Unreg(h) ==
  /\ Valid(h)
  /\ UnregRawFd(h.fd)
  /\ fdSeq' = [fdSeq EXCEPT ![h.fd] = @ + 1]
  /\ held' = held \cup {h.fd}
  /\ UNCHANGED <<sock, handles>>

\* Close: Unreg, and close() takes the fd out of the epoll set if
\* EPOLL_CTL_DEL did not.
Close(h) ==
  /\ Valid(h)
  /\ UnregRawFd(h.fd)
  /\ interest' = interest \ {h.fd}
  /\ fdSeq' = [fdSeq EXCEPT ![h.fd] = @ + 1]
  /\ sock' = [sock EXCEPT ![h.fd] = Shut(h.fd)]
  /\ UNCHANGED <<held, handles>>

-----------------------------------------------------------------------------
(* The blocking operations.                                                *)

InIo(f) == frame[f].op /= "none"

Goto(pc) == frame' = [frame EXCEPT ![curr].pc = pc]

BadReturn == frame' = [frame EXCEPT ![curr].op = "none"]

Return == frame' = [frame EXCEPT ![curr] = NoFrame]

TimedOut(f) == frame[f].expire \in 0..now

At(ops, pc) == curr /= None /\ frame[curr].op \in ops /\ frame[curr].pc = pc

Streams == {"read", "write", "writeall"}

\* Entry of Read, Write, WriteAll and Accept.  An invalid handle, and a size
\* of 0, return at once.
IoStart(h, op, n, ms) ==
  /\ curr /= None /\ ~ InIo(curr)
  /\ Valid(h)
  /\ op \in (IF h.kind = "listen" THEN {"accept"} ELSE Streams)
  /\ n = 0 <=> op \in {"read", "accept"}
  /\ now + ms <= MaxTime
  /\ frame' = [frame EXCEPT ![curr] =
       [op |-> op, pc |-> "try", on |-> h, left |-> n,
        expire |-> IF ms < 0 THEN -1 ELSE now + ms]]
  /\ UNCHANGED <<schedVars, objects>>

\* read() has bytes, or is at the end of the stream.
ReadTry ==
  /\ At({"read"}, "try")
  /\ LET d == frame[curr].on.fd IN
       /\ sock[d].in > 0 \/ sock[d].hup
       /\ \E k \in 0..sock[d].in :
            /\ k = 0 => sock[d].in = 0
            /\ sock' = [sock EXCEPT ![d].in = @ - k]
  /\ Return
  /\ UNCHANGED <<schedVars, held, fdSeq, handles>>

\* write() takes some of the bytes: Write returns, WriteAll goes on.
WriteTry ==
  /\ At({"write", "writeall"}, "try")
  /\ \E k \in 1..frame[curr].left :
       LET d == frame[curr].on.fd IN
       /\ ~ sock[d].hup
       /\ k <= sock[d].room
       /\ sock' = [sock EXCEPT ![d].room = @ - k]
       /\ IF frame[curr].op = "writeall" /\ k < frame[curr].left
            THEN frame' = [frame EXCEPT ![curr].left = @ - k]
            ELSE Return
  /\ UNCHANGED <<schedVars, held, fdSeq, handles>>

BadAcceptTry(c) ==
  /\ At({"accept"}, "try")
  /\ LET d == frame[curr].on.fd IN
       /\ sock[d].in > 0
       /\ CanOpen(c)
       /\ sock' = [sock EXCEPT ![d].in = @ - 1, ![c] = Opened(c, "conn")]
       /\ \/ Reg(c) /\ handles' = handles \cup {NewHandle(c, "conn")}
          \/ UNCHANGED <<schedVars, handles>>
  /\ Return
  /\ UNCHANGED <<held, fdSeq>>

\* accept() gives a connection as fd c; it is closed again if Reg fails.
AcceptTry(c) ==
  /\ At({"accept"}, "try")
  /\ LET d == frame[curr].on.fd IN
       /\ sock[d].in > 0
       /\ CanOpen(c)
       /\ \/ /\ sock' = [sock EXCEPT ![d].in = @ - 1, ![c] = Opened(c, "conn")]
             /\ Reg(c)
             /\ handles' = handles \cup {NewHandle(c, "conn")}
          \/ /\ sock' = SilentClose([sock EXCEPT ![d].in = @ - 1], c)
             /\ UNCHANGED <<schedVars, handles>>
  /\ Return
  /\ UNCHANGED <<held, fdSeq>>

\* EAGAIN.
WouldBlock(op, d) ==
  /\ ~ sock[d].hup
  /\ IF op \in {"write", "writeall"} THEN sock[d].room = 0 ELSE sock[d].in = 0

TryBlocked ==
  /\ At(Streams \cup {"accept"}, "try")
  /\ WouldBlock(frame[curr].op, frame[curr].on.fd)
  /\ Goto("check")
  /\ UNCHANGED <<schedVars, objects>>

\* Any other error; and EINTR, or a write() of nothing, with the time over.
TryFails ==
  /\ At(Streams \cup {"accept"}, "try")
  /\ Return
  /\ UNCHANGED <<schedVars, objects>>

IoTimeout ==
  /\ At(Streams \cup {"accept"}, "check")
  /\ TimedOut(curr)
  /\ Return
  /\ UNCHANGED <<schedVars, objects>>

BadIoPark ==
  /\ At(Streams \cup {"accept"}, "check")
  /\ ~ TimedOut(curr)
  /\ LET fr == frame[curr] IN
       IF fr.op \in {"write", "writeall"}
         THEN WaitWriting(-1, fr.on.fd)
         ELSE WaitReading(-1, fr.on.fd)
  /\ Goto("woken")
  /\ UNCHANGED objects

IoPark ==
  /\ At(Streams \cup {"accept"}, "check")
  /\ ~ TimedOut(curr)
  /\ LET fr == frame[curr] IN
       IF fr.op \in {"write", "writeall"}
         THEN WaitWriting(fr.expire, fr.on.fd)
         ELSE WaitReading(fr.expire, fr.on.fd)
  /\ Goto("woken")
  /\ UNCHANGED objects

BadIoResumed ==
  /\ At(Streams \cup {"accept"}, "woken")
  /\ Goto("try")
  /\ UNCHANGED <<schedVars, objects>>

BadIoResumedNoTry ==
  /\ At(Streams \cup {"accept"}, "woken")
  /\ IF Valid(frame[curr].on) THEN Goto("check") ELSE Return
  /\ UNCHANGED <<schedVars, objects>>

\* After the switch: return kClosed, or go round the loop.
IoResumed ==
  /\ At(Streams \cup {"accept"}, "woken")
  /\ IF Valid(frame[curr].on) THEN Goto("try") ELSE Return
  /\ UNCHANGED <<schedVars, objects>>

-----------------------------------------------------------------------------
(* ConnectStreamSock.                                                      *)

\* No fd yet: the address is no good, or socket() fails.
ConnectNoSocket ==
  /\ curr /= None /\ ~ InIo(curr)
  /\ unset' = unset \ {curr}
  /\ UNCHANGED <<schedVars, objects, frame>>

\* connect() is done at once: return the Conn.
ConnectedAtOnce(d) ==
  /\ sock' = [sock EXCEPT ![d] = Opened(d, "conn")]
  /\ Reg(d)
  /\ handles' = handles \cup {NewHandle(d, "conn")}
  /\ unset' = unset \ {curr}
  /\ UNCHANGED frame

\* EINPROGRESS: wait for the handshake.
ConnectPending(d, ms) ==
  /\ sock' = [sock EXCEPT ![d] = Opened(d, "connecting")]
  /\ Reg(d)
  /\ frame' = [frame EXCEPT ![curr] =
       [op |-> "connect", pc |-> "check", on |-> NewHandle(d, "conn"),
        left |-> 0, expire |-> IF ms < 0 THEN -1 ELSE now + ms]]
  /\ unset' = unset \cup {curr}
  /\ UNCHANGED handles

BadConnectGivesUp(d) ==
  /\ sock' = [sock EXCEPT ![d] = Opened(d, "connecting")]
  /\ unset' = unset \ {curr}
  /\ UNCHANGED <<schedVars, handles, frame>>

\* ioctl(), connect() or FromRawFd fails: close the socket.
ConnectGivesUp(d) ==
  /\ sock' = SilentClose(sock, d)
  /\ unset' = unset \ {curr}
  /\ UNCHANGED <<schedVars, handles, frame>>

ConnectStart(d, ms) ==
  /\ curr /= None /\ ~ InIo(curr)
  /\ CanOpen(d)
  /\ now + ms <= MaxTime
  /\ ConnectedAtOnce(d) \/ ConnectPending(d, ms) \/ ConnectGivesUp(d)
  /\ UNCHANGED <<held, fdSeq>>

\* It parks without a look at the time.
ConnectPark ==
  /\ At({"connect"}, "check")
  /\ WaitWriting(frame[curr].expire, frame[curr].on.fd)
  /\ Goto("woken")
  /\ UNCHANGED objects

BadConnectFails ==
  /\ At({"connect"}, "woken")
  /\ UnregRawFd(frame[curr].on.fd)
  /\ fdSeq' = [fdSeq EXCEPT ![frame[curr].on.fd] = @ + 1]
  /\ unset' = unset \ {curr}
  /\ Return
  /\ UNCHANGED <<sock, held, handles>>

\* The time is over, the socket has an error, or getsockopt() fails: close it.
ConnectFails ==
  /\ At({"connect"}, "woken")
  /\ Close(frame[curr].on)
  /\ unset' = unset \ {curr}
  /\ Return

BadConnectSucceeds ==
  /\ At({"connect"}, "woken")
  /\ sock[frame[curr].on.fd].kind /= "refused"
  /\ handles' = handles \cup {frame[curr].on}
  /\ Return
  /\ UNCHANGED <<schedVars, sock, held, fdSeq>>

ConnectSucceeds ==
  /\ At({"connect"}, "woken")
  /\ ~ TimedOut(curr)
  /\ sock[frame[curr].on.fd].kind /= "refused"
  /\ handles' = handles \cup {frame[curr].on}
  /\ Return
  /\ UNCHANGED <<schedVars, sock, held, fdSeq>>

IoStep ==
  \/ /\ \/ ReadTry \/ WriteTry \/ \E c \in Fd : AcceptTry(c)
        \/ TryBlocked \/ TryFails \/ IoTimeout \/ IoPark \/ IoResumed
        \/ ConnectPark \/ ConnectSucceeds
     /\ UNCHANGED unset
  \/ ConnectFails

-----------------------------------------------------------------------------
\* What a fiber outside of a blocking operation, or main, may call.
UserLeave ==
  /\ curr /= None /\ ~ InIo(curr)
  /\ Yield \/ SleepMS \/ Finish
  /\ UNCHANGED <<objects, frame, unset>>

UserCall ==
  /\ IF curr = None THEN TRUE ELSE ~ InIo(curr)
  /\ \/ Create /\ UNCHANGED objects
     \/ \E d \in Fd, k \in {"conn", "listen"} : OpenRaw(d, k)
     \/ \E d \in Fd : CloseRaw(d) \/ FromRawFd(d) \/ ListenStream(d)
     \/ \E h \in handles : Unreg(h) \/ Close(h)
  /\ UNCHANGED <<frame, unset>>

UserIo ==
  \/ /\ \E h \in handles, op \in Ops \ {"connect"}, n \in 0..MaxWrite, ms \in TimeoutMs :
          IoStart(h, op, n, ms)
     /\ UNCHANGED unset
  \/ \E d \in Fd, ms \in TimeoutMs : ConnectStart(d, ms)
  \/ ConnectNoSocket

NetLoop ==
  /\ \/ TakeReady \/ Resume \/ CheckExpiring \/ EnterWait \/ WaitTimedOut
     \/ \E in, out \in SUBSET Fd : Report(in, out)
     \/ \E d \in Fd : DropEdge(d)
  /\ UNCHANGED <<objects, frame, unset>>

NetTick == Tick /\ UNCHANGED <<objects, frame, unset>>

Kernel ==
  /\ \E d \in Fd : Arrive(d) \/ PeerTakes(d) \/ PeerCloses(d) \/ Established(d)
  /\ UNCHANGED <<held, fdSeq, handles, frame, unset>>

NetNext ==
  \/ UserLeave \/ UserCall \/ UserIo
  \/ IoStep
  \/ NetLoop \/ NetTick \/ Kernel
  \/ (Run \/ WaitInterrupted \/ WaitFailed) /\ UNCHANGED <<objects, frame, unset>>

NetSpec == NetInit /\ [][NetNext]_netVars

-----------------------------------------------------------------------------
(* What the connections and listeners promise.                             *)

(* No edge is lost: a fiber that waits for an fd which is ready has an     *)
(* event on its way.  epoll reports an edge once, so one that is taken     *)
(* between a read() that would block and the park, or before the fd is     *)
(* registered, would leave the fiber asleep on data that is there.         *)
NoLostIoWakeUp ==
  \A f \in Fiber :
    /\ \A d \in evs[f].r : Readable(d) => d \in pending
    /\ \A d \in evs[f].w : Writable(d) => d \in pending

\* The handles of the user's code, and those that blocking operations hold.
KnownHandles == handles \cup {frame[f].on : f \in {g \in Fiber : InIo(g)}}

(* A valid handle is registered and stands for the socket it was made for, *)
(* though the kernel gives a closed fd out again: seq_ tells them apart.   *)
ValidMeansCurrent ==
  \A h \in KnownHandles :
    Valid(h) => h.fd \in DOMAIN ioQ /\ IsOpen(h.fd) /\ h.gen = sock[h.fd].gen

(* An operation only makes system calls on the socket it was called on,    *)
(* whatever other fibers close and open while it is parked.                *)
ActsOnItsSocket ==
  \A f \in Fiber :
    frame[f].pc \in {"try", "check"}
      => sock[frame[f].on.fd].gen = frame[f].on.gen /\ frame[f].on.fd \in DOMAIN ioQ

(* No fd leaks: one that is open has a valid handle that the user's code,  *)
(* or a connect on its behalf, still has, or it is the user's own.  An     *)
(* accept, a listen or a connect that fails half way, before or after it   *)
(* has parked, closes what it has opened.                                  *)
NoFdLeak ==
  \A d \in Fd :
    IsOpen(d) => d \in held \/ \E h \in KnownHandles : h.fd = d /\ Valid(h)

(* A fiber parked on an fd is woken for the way it waits: when its time is *)
(* over, when the fd is unregistered, or when epoll_wait reports an event  *)
(* as the fd is readable for a reader, writable for a writer.  A connect   *)
(* woken for anything else would take a handshake under way for a          *)
(* connection.                                                             *)
WokenToRead(d)  == d \notin DOMAIN ioQ' \/ (d \in pending \ pending' /\ Readable(d))
WokenToWrite(d) == d \notin DOMAIN ioQ' \/ (d \in pending \ pending' /\ Writable(d))

WokenForIo(f) ==
  \/ evs[f].expire \in 0..now
  \/ \E d \in evs[f].r : WokenToRead(d)
  \/ \E d \in evs[f].w : WokenToWrite(d)

NoSpuriousIoWakeUp ==
  [][\A f \in Fiber :
       evs[f].r \cup evs[f].w /= {} /\ ~ Parked(f)' => WokenForIo(f)]_netVars

(* A connect hands out established connections only, and never after its   *)
(* time.                                                                   *)
ConnectsEstablished ==
  [][\A f \in Fiber :
       frame[f].op = "connect" /\ ~ InIo(f)' =>
         \/ sock'[frame[f].on.fd].kind = "none"
         \/ sock[frame[f].on.fd].kind = "conn" /\ ~ TimedOut(f)]_netVars

(* Fairness: as in Sem.  The peers and the kernel may be silent for ever.  *)
NetFairness ==
  /\ WF_netVars(NetLoop)
  /\ WF_netVars(NetTick)
  /\ WF_netVars(IoStep)
  /\ SF_netVars(UserLeave)

NetFairSpec == NetSpec /\ NetFairness

(* An operation with a time out returns, and so does one whose fd another  *)
(* fiber closes or unregisters.                                            *)
MustReturn(f) == InIo(f) /\ (frame[f].expire >= 0 \/ ~ Valid(frame[f].on))

IoReturns == \A f \in Fiber : MustReturn(f) ~> ~ InIo(f) \/ phase = "main"

(* A fiber parked on an fd that stays ready is resumed.                    *)
WaitsOnReady(f) ==
  (\E d \in evs[f].r : Readable(d)) \/ (\E d \in evs[f].w : Writable(d))

ReadyIoServed ==
  \A f \in Fiber : WaitsOnReady(f) ~> ~ WaitsOnReady(f) \/ phase = "main"

-----------------------------------------------------------------------------
(* What a comment of the code says, and what does not hold.                *)

(* _conn.h: *err_code, if there is one, gets the error code.  A connect    *)
(* that had to wait and then succeeds does not write it.                   *)
ErrCodeStored == \A f \in unset : frame[f].op = "connect"

=============================================================================
