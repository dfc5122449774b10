------------------------- MODULE ClientSocketProofs -------------------------
(***************************************************************************)
(* Proofs about ClientSocket and the SocketIoThread it extends, for a      *)
(* dialogue of any length, any sizes of requests, results and buffers, any *)
(* room in the kernel, and whatever befalls the connection.  The inductive *)
(* invariant comes in parts, each of which rests on those before it.       *)
(***************************************************************************)
EXTENDS ClientSocket, PacketReceiverProofs

-----------------------------------------------------------------------------
(* Where the threads are. *)
Starting    == {"construct", "create", "register"}
Locked      == {"sending", "sent", "test"}
SendLabels  == {"push", "lock"} \cup Locked
CloseLabels == {"close", "clear", "check", "closesocket", "invalidate"}
OpenLabels  == Starting \cup {"connect", "pause"} \cup SendLabels

MainLabels ==
  OpenLabels \cup CloseLabels \cup {"return", "stop", "wake", "join", "exit", "exited"}

IoLabels ==
  {"run", "wait", "reset", "request", "register", "unregister", "scan", "event", "enum",
   "release", "dispatch", "read", "cut", "packet", "clear packet", "ended"}
    \cup SendLabels \cup CloseLabels

KernelType ==
  [open : BOOLEAN, state : States, selected : BOOLEAN,
   armed : SUBSET NetworkEvents, recorded : SUBSET NetworkEvents]

-----------------------------------------------------------------------------
(* The inductive invariant. *)

(* The lock of the send list is held by the thread in the loop of          *)
(* TrySendPacket.                                                          *)
Control ==
  /\ pc \in [Threads -> MainLabels \cup IoLabels]
  /\ pc["main"] \in MainLabels
  /\ pc["io"] \in IoLabels
  /\ send_lock_ \in Threads \cup {"none"}
  /\ \A t \in Threads : pc[t] \in Locked <=> send_lock_ = t

Members ==
  /\ running_ \in BOOLEAN
  /\ requests_ \in Seq({"register", "unregister"})
  /\ signalled \subseteq Events
  /\ handle_ \in {Socket, InvalidSocket}
  /\ wevents \subseteq NetworkEvents
  /\ refs \subseteq Threads
  /\ kernel \in KernelType
  /\ server \in [taken : Nat, answered : Nat]

(* The I/O thread has nothing to do before main has asked for something,   *)
(* and handle_ leads to the socket for as long as there is one.            *)
Lifetime ==
  /\ pc["main"] \in Starting =>
       /\ pc["io"] \in {"run", "wait", "ended"}
       /\ signalled = {} /\ requests_ = <<>>
       /\ ~kernel.selected
  /\ pc["main"] \in {"construct", "create"} => handle_ = InvalidSocket
  /\ kernel.open => handle_ = Socket
  /\ \A t \in Threads : pc[t] = "invalidate" => ~kernel.open

(* The socket is registered at most once. *)
Registered ==
  /\ events_ \in {<<>>, <<Notify>>, <<Notify, SocketEvent>>}
  /\ events_ = <<>> <=> pc["main"] = "construct"
  /\ pc["main"] \in Starting => events_ # <<Notify, SocketEvent>>
  /\ socket_map_ \subseteq {SocketEvent}
  /\ \A h \in DOMAIN event_map_ : event_map_[h] = SocketEvent
  /\ \A i \in 1 .. Len(requests_) :
       requests_[i] = "register" => i = 1 /\ events_ = <<Notify>> /\ pc["io"] # "register"
  /\ pc["io"] = "register" => events_ = <<Notify>>

(* Nobody is between clearing sending_size_ and closing the socket. *)
Undisturbed == kernel.open /\ \A t \in Threads : pc[t] \notin {"check", "closesocket"}

(* The requests in send_buffers_ are the latest ones.  What send has just  *)
(* taken counts from where sending_size_ was; only Close clears it         *)
(* meanwhile.                                                              *)
Queued ==
  /\ requested \in Nat
  /\ send_buffers_ \in Seq(Nat)
  /\ Len(send_buffers_) <= requested
  /\ \A i \in 1 .. Len(send_buffers_) :
       send_buffers_[i] = requested - Len(send_buffers_) + i
  /\ sending_size_ \in 0 .. RequestSize
  /\ sent \in [len : 0 .. RequestSize, base : 0 .. RequestSize]
  /\ sent.base + sent.len <= RequestSize
  /\ pc["main"] \in Starting => requested = 0 /\ sending_size_ = 0
  /\ \A t \in Threads :
       /\ pc[t] \in {"sent", "test"} => send_buffers_ # <<>>
       /\ pc[t] = "sent" => sending_size_ \in {sent.base, 0}
  /\ (\A t \in Threads : pc[t] # "sent") => sent.len = 0
  /\ wire \in Seq(Nat)

WireAccounts ==
  /\ \A i \in 1 .. Len(wire) : wire[i] \in 1 .. requested * RequestSize
  /\ Undisturbed =>
       /\ \A i \in 1 .. Len(wire) : wire[i] = i
       /\ Len(wire) = (requested - Len(send_buffers_)) * RequestSize + sending_size_ + sent.len
       /\ \A t \in Threads : pc[t] = "sent" => sending_size_ = sent.base

(* The result packet_receiver_ holds, or has the beginning of. *)
Receiving ==
  IF IsComplete(packet_receiver_) /\ pc["io"] # "packet" THEN Len(handled) ELSE Len(handled) + 1

DataSize == ResultSize - kPacketLengthSize

Before == (Receiving - 1) * ResultSize

HoldsResult ==
  /\ packet_receiver_ \in ReceiverState
  /\ packet_receiver_.offset_ <= Len(packet_receiver_.buffer_)
  /\ packet_receiver_.offset_ <= ResultSize
  /\ packet_receiver_.length_ =
       IF packet_receiver_.offset_ >= kPacketLengthSize THEN DataSize ELSE 0
  /\ Receiving >= 1
  /\ \A k \in 1 .. packet_receiver_.offset_ :
       packet_receiver_.buffer_[k] = ResultByte(Before + k)

(* recv_buffer_ goes on where packet_receiver_ stops, and is at its end    *)
(* where recv has got.                                                     *)
HoldsRest ==
  /\ buffer \in Seq(Byte)
  /\ remain_length = Len(buffer)
  /\ pc["io"] # "cut" => buffer = <<>>
  /\ packet_receiver_.offset_ + Len(buffer) <= ResultSize
  /\ \A k \in 1 .. Len(buffer) :
       buffer[k] = ResultByte(Before + packet_receiver_.offset_ + k)
  /\ read = Before + packet_receiver_.offset_ + Len(buffer)

Complete ==
  /\ IsComplete(packet_receiver_) => pc["io"] \in {"packet", "clear packet"} \cup SendLabels
  /\ pc["io"] \in {"packet", "push", "clear packet"} => IsComplete(packet_receiver_)

(* A request is sent for each result that is not the last, and a result is *)
(* sent for each request that is whole on the wire.                        *)
Exchanged ==
  /\ handled \in Seq(SUBSET Nat)
  /\ \A i \in 1 .. Len(handled) : handled[i] = {i}
  /\ server.taken <= Len(wire)
  /\ server.answered <= requested
  /\ arrived \in Nat /\ arrived <= server.answered * ResultSize
  /\ read \in Nat /\ read <= arrived
  /\ requested \in Nat /\ requested <= Dialogue
  /\ requested <= Len(handled) + 1
  /\ pc["io"] = "push" => requested <= Len(handled) /\ Len(handled) < Dialogue
  /\ pc["main"] \in Starting \cup {"connect", "push"} => requested = 0

Received == HoldsResult /\ HoldsRest /\ Complete /\ Exchanged

(* What keeps the process alive: nothing closes the socket or takes it off *)
(* the I/O thread's list before the connection ends or main closes.        *)
Connecting == kernel.state \in {"none", "connecting", "up"}
Alive == Connecting /\ Open

Connected ==
  /\ Connecting => "FD_CLOSE" \notin kernel.recorded \cup wevents /\ pc["io"] \notin CloseLabels
  /\ pc["main"] \in Starting \cup {"connect"} => kernel.state = "none"
  /\ Alive /\ pc["main"] \notin {"construct", "create"} => kernel.open

MainHolds == Open => "main" \in refs

(* The events the I/O thread looks at are those behind the first. *)
Scanning ==
  /\ cursor \in [i : Nat, cEvents : Nat, last : Events]
  /\ pc["io"] \notin {"run", "wait", "reset", "ended"} => cursor.i >= 2
  /\ pc["io"] = "event" => cursor.i <= cursor.cEvents

Listed ==
  Alive =>
    /\ \A i \in 1 .. Len(requests_) : requests_[i] # "unregister"
    /\ pc["io"] # "unregister"
    /\ cursor.cEvents <= Len(events_)
    /\ events_ = <<Notify, SocketEvent>> => socket_map_ = {SocketEvent}

Living == kernel.state = "up" /\ Open => fault = "none"

Kept == Connected /\ MainHolds /\ Scanning /\ Listed /\ Living

IInv ==
  /\ Control
  /\ Members
  /\ Lifetime
  /\ Registered
  /\ Queued
  /\ WireAccounts
  /\ Received
  /\ Kept

-----------------------------------------------------------------------------
(* The steps there are.  Those of main, and those of the I/O thread that   *)
(* neither send nor close.                                                 *)
StepsOfMain ==
  Construct \/ Create \/ RequestRegisterSocket \/ Connect \/ Pause \/ Return \/ Destroy \/ Exit

StepsOfRun ==
  Loop \/ TakeRequest \/ TakeEvent \/ Registration \/ Unregistration \/ EnumNetworkEvents
  \/ Dispatch \/ Release

StepsOfRead == Recv \/ Cut \/ OnPacket \/ ClearPacket

LEMMA Steps ==
  ASSUME [Next]_vars
  PROVE  \/ UNCHANGED vars
         \/ fault = "none" /\ StepsOfMain
         \/ fault = "none" /\ \E t \in Threads : SendPacket(t)
         \/ fault = "none" /\ \E t \in Threads : CloseSession(t)
         \/ fault = "none" /\ StepsOfRun
         \/ fault = "none" /\ StepsOfRead
         \/ fault = "none" /\ (Kernel \/ Breaks)
BY DEF Next, Running, MainStep, IoStep, StepsOfMain, StepsOfRun, StepsOfRead, Threads

(* A thread that goes on with a label of its own, neither into nor out of  *)
(* the loop of TrySendPacket. *)
LEMMA Moves ==
  ASSUME Control, NEW t \in Threads, NEW l, Goto(t, l),
         t = "main" => l \in MainLabels, t = "io" => l \in IoLabels,
         l \in Locked <=> pc[t] \in Locked, UNCHANGED send_lock_
  PROVE  Control'
<1>1. pc' = [pc EXCEPT ![t] = l] /\ pc \in [Threads -> MainLabels \cup IoLabels]
  BY DEF Goto, Control
<1>2. pc'[t] = l /\ \A u \in Threads : u # t => pc'[u] = pc[u]
  BY <1>1
<1>3. l \in MainLabels \cup IoLabels
  BY DEF Threads
<1>4. pc' \in [Threads -> MainLabels \cup IoLabels]
  BY <1>1, <1>3
<1>5. pc'["main"] \in MainLabels /\ pc'["io"] \in IoLabels
  BY <1>2 DEF Control, Threads
<1>6. \A u \in Threads : pc'[u] \in Locked <=> send_lock_' = u
  BY <1>2 DEF Control
<1> QED BY <1>4, <1>5, <1>6 DEF Control

LEMMA ControlMain ==
  ASSUME Control, StepsOfMain
  PROVE  Control'
<1> DEFINE Plain == {"create", "register", "connect", "push", "close", "return", "stop", "wake", "join", "exit", "exited"}
<1>0. /\ Plain \cap Locked = {} /\ Plain \subseteq MainLabels 
      /\ {"construct", "pause"} \cap Locked = {}
      /\ "main" \in Threads /\ "main" # "io"
  BY DEF MainLabels, OpenLabels, Starting, SendLabels, Locked, CloseLabels, Threads
<1>1. ASSUME NEW l \in Plain, Goto("main", l), pc["main"] \in Plain \cup {"construct", "pause"}, UNCHANGED send_lock_
      PROVE  Control'
  BY <1>0, <1>1, Moves
<1>2. CASE Construct
  BY <1>1, <1>2 DEF Construct, sending
<1>3. CASE Create
  BY <1>1, <1>3 DEF Create, sending
<1>4. CASE RequestRegisterSocket
  BY <1>1, <1>4 DEF RequestRegisterSocket, sending
<1>5. CASE Connect
  BY <1>1, <1>5 DEF Connect, sending
<1>6. CASE Pause
  BY <1>1, <1>6 DEF Pause, sending
<1>7. CASE Return
  BY <1>1, <1>7 DEF Return, sending
<1>8. CASE Destroy
  BY <1>1, <1>8 DEF Destroy, Close, sending
<1>9. CASE Exit
  BY <1>1, <1>9 DEF Exit, sending
<1> QED BY <1>2, <1>3, <1>4, <1>5, <1>6, <1>7, <1>8, <1>9 DEF StepsOfMain

(* One that takes the lock or gives it back. *)
LEMMA Locks ==
  ASSUME Control, NEW t \in Threads, NEW l, Goto(t, l),
         t = "main" => l \in MainLabels, t = "io" => l \in IoLabels,
         \/ send_lock_ = "none" /\ send_lock_' = t /\ l \in Locked
         \/ send_lock_ = t /\ send_lock_' = "none" /\ l \notin Locked
  PROVE  Control'
<1>1. pc' = [pc EXCEPT ![t] = l] /\ pc \in [Threads -> MainLabels \cup IoLabels]
  BY DEF Goto, Control
<1>2. pc'[t] = l /\ \A u \in Threads : u # t => pc'[u] = pc[u]
  BY <1>1
<1>3. l \in MainLabels \cup IoLabels
  BY DEF Threads
<1>4. pc' \in [Threads -> MainLabels \cup IoLabels]
  BY <1>1, <1>3
<1>5. pc'["main"] \in MainLabels /\ pc'["io"] \in IoLabels
  BY <1>2 DEF Control, Threads
<1>6. "none" \notin Threads
  BY DEF Threads
<1>7. ASSUME NEW u \in Threads PROVE pc'[u] \in Locked <=> send_lock_' = u
  BY <1>2, <1>6 DEF Control
<1>8. send_lock_' \in Threads \cup {"none"}
  OBVIOUS
<1> QED BY <1>4, <1>5, <1>7, <1>8 DEF Control

(* Where a thread goes on after sending and after closing. *)
LEMMA After ==
  ASSUME NEW t \in Threads
  PROVE  /\ t = "main" => AfterSend(t) = "pause" /\ AfterClose(t) = "return"
         /\ t = "io" => AfterSend(t) \in {"clear packet", "dispatch"} /\ AfterClose(t) = "dispatch"
BY DEF AfterSend, AfterClose, Threads

LEMMA ControlSend ==
  ASSUME Control, NEW t \in Threads, SendPacket(t)
  PROVE  Control'
<1>0. /\ SendLabels \subseteq MainLabels /\ SendLabels \subseteq IoLabels
      /\ Locked \subseteq SendLabels /\ Locked = {"sending", "sent", "test"}
      /\ "push" \in SendLabels \ Locked /\ "lock" \in SendLabels \ Locked
      /\ "pause" \in MainLabels \ Locked
      /\ {"clear packet", "dispatch"} \subseteq IoLabels \ Locked
      /\ t = "main" \/ t = "io"
  BY DEF MainLabels, IoLabels, OpenLabels, SendLabels, Locked, Threads
<1>1. CASE Push(t)
  BY <1>0, <1>1, Moves DEF Push
<1>2. CASE Lock(t)
  BY <1>0, <1>2, Locks DEF Lock
<1>3. CASE TrySendPacket(t)
  <2>1. send_lock_ = t
    BY <1>0, <1>3 DEF TrySendPacket, Control
  <2>2. ASSUME send_lock_' = "none", Goto(t, AfterSend(t)) PROVE Control'
    <3>1. AfterSend(t) \notin Locked
      BY <1>0, After
    <3>2. (t = "main" => AfterSend(t) \in MainLabels) /\ (t = "io" => AfterSend(t) \in IoLabels)
      BY <1>0, After
    <3> QED BY <2>1, <2>2, <3>1, <3>2, Locks
  <2>3. ASSUME UNCHANGED <<pc, send_lock_>> PROVE Control'
    BY <2>3 DEF Control
  <2>4. ASSUME UNCHANGED send_lock_, Goto(t, "sent") PROVE Control'
    BY <1>0, <1>3, <2>4, Moves DEF TrySendPacket
  <2> QED BY <1>3, <2>2, <2>3, <2>4 DEF TrySendPacket, Dies
<1>4. CASE Sent(t)
  BY <1>0, <1>4, Moves DEF Sent
<1>5. CASE Pop(t)
  BY <1>0, <1>5, Moves DEF Pop
<1> QED BY <1>1, <1>2, <1>3, <1>4, <1>5 DEF SendPacket

LEMMA ControlClose ==
  ASSUME Control, NEW t \in Threads, CloseSession(t)
  PROVE  Control'
<1>0. /\ CloseLabels \subseteq MainLabels /\ CloseLabels \subseteq IoLabels
      /\ CloseLabels \cap Locked = {}
      /\ "return" \in MainLabels \ Locked /\ "dispatch" \in IoLabels \ Locked
      /\ t = "main" \/ t = "io"
      /\ CloseLabels = {"close", "clear", "check", "closesocket", "invalidate"}
  BY DEF MainLabels, IoLabels, OpenLabels, CloseLabels, Starting, SendLabels, Locked, Threads
<1>1. ASSUME NEW l \in CloseLabels \cup {AfterClose(t)}, Goto(t, l), pc[t] \in CloseLabels,
             UNCHANGED send_lock_
      PROVE  Control'
  <2>1. l \notin Locked /\ (t = "main" => l \in MainLabels) /\ (t = "io" => l \in IoLabels)
    BY <1>0, After
  <2> QED BY <1>0, <1>1, <2>1, Moves
<1>2. CASE RequestUnregisterSocket(t)
  BY <1>0, <1>1, <1>2 DEF RequestUnregisterSocket, sending
<1>3. CASE ClearSize(t)
  BY <1>0, <1>1, <1>3 DEF ClearSize
<1>4. CASE CheckHandle(t)
  BY <1>0, <1>1, <1>4 DEF CheckHandle, sending
<1>5. CASE CloseSocket(t)
  <2>1. CASE UNCHANGED pc
    BY <1>5, <2>1 DEF CloseSocket, sending, Control
  <2>2. CASE Goto(t, "invalidate")
    BY <1>0, <1>1, <1>5, <2>2 DEF CloseSocket, sending
  <2> QED BY <1>5, <2>1, <2>2 DEF CloseSocket, Dies
<1>6. CASE Invalidate(t)
  BY <1>0, <1>1, <1>6 DEF Invalidate, sending
<1> QED BY <1>2, <1>3, <1>4, <1>5, <1>6 DEF CloseSession

LEMMA ControlIo ==
  ASSUME Control, requests_ \in Seq({"register", "unregister"}), StepsOfRun \/ StepsOfRead
  PROVE  Control'
<1> DEFINE Plain == {"run", "wait", "reset", "request", "register", "unregister", "scan", "event",
                     "enum", "release", "dispatch", "read", "cut", "packet", "clear packet",
                     "ended", "push", "lock", "close"}
<1>0. /\ Plain \subseteq IoLabels /\ Plain \cap Locked = {}
      /\ "io" \in Threads /\ "main" # "io"
  BY DEF IoLabels, SendLabels, Locked, CloseLabels, Threads
<1>1. ASSUME NEW l \in Plain, Goto("io", l), pc["io"] \in Plain, UNCHANGED send_lock_
      PROVE  Control'
  BY <1>0, <1>1, Moves
<1>2. ASSUME UNCHANGED pc, UNCHANGED send_lock_
      PROVE  Control'
  BY <1>2 DEF Control
<1>3. CASE Loop
  <2>1. UNCHANGED send_lock_
    BY <1>3 DEF Loop, Untouched, sending
  <2>2. CASE RunTest
    BY <1>1, <2>1, <2>2 DEF RunTest
  <2>3. CASE Wait
    BY <1>1, <2>1, <2>3 DEF Wait
  <2>4. CASE ResetNotify
    BY <1>1, <2>1, <2>4 DEF ResetNotify
  <2>5. CASE Scan
    BY <1>1, <1>2, <2>1, <2>5 DEF Scan, Dies
  <2> QED BY <1>3, <2>2, <2>3, <2>4, <2>5 DEF Loop
<1>4. CASE TakeRequest
  <2>1. requests_ # <<>> => Head(requests_) \in {"register", "unregister"}
    BY HeadTailProperties
  <2> QED BY <1>1, <1>4, <2>1 DEF TakeRequest, OnRequest, Untouched, sending
<1>5. CASE TakeEvent
  BY <1>1, <1>2, <1>5 DEF TakeEvent, OnSocketEvent, Untouched, sending, Dies
<1>6. CASE Registration
  BY <1>1, <1>6 DEF Registration, OnRegisterSocket, sending
<1>7. CASE Unregistration
  BY <1>1, <1>7 DEF Unregistration, OnUnregisterSocket, Untouched, sending
<1>8. CASE EnumNetworkEvents
  BY <1>1, <1>8 DEF EnumNetworkEvents, sending
<1>9. CASE Dispatch
  BY <1>1, <1>9 DEF Dispatch, sending
<1>10. CASE Release
  BY <1>1, <1>2, <1>10 DEF Release, sending, Dies
<1>11. CASE Recv
  BY <1>1, <1>2, <1>11 DEF Recv, RecvData, sending, Dies
<1>12. CASE Cut
  BY <1>1, <1>12 DEF Cut, sending
<1>13. CASE OnPacket
  BY <1>1, <1>13 DEF OnPacket, sending
<1>14. CASE ClearPacket
  BY <1>1, <1>14 DEF ClearPacket, sending
<1> QED BY <1>3, <1>4, <1>5, <1>6, <1>7, <1>8, <1>9, <1>10, <1>11, <1>12, <1>13, <1>14
        DEF StepsOfRun, StepsOfRead

LEMMA ControlStep ==
  ASSUME Control, requests_ \in Seq({"register", "unregister"}), [Next]_vars
  PROVE  Control'
<1>1. CASE UNCHANGED vars
  BY <1>1 DEF vars, sending, Control
<1>2. CASE Kernel \/ Breaks
  <2>1. UNCHANGED <<pc, send_lock_>>
    BY <1>2 DEF Kernel, Breaks, ConnectCompletes, Exchange, Record, Local, sending
  <2> QED BY <2>1 DEF Control
<1> QED BY <1>1, <1>2, ControlMain, ControlSend, ControlClose, ControlIo, Steps

LEMMA ControlInit == Init => Control
<1> SUFFICES ASSUME Init PROVE Control
  OBVIOUS
<1>1. pc = [main |-> "construct", io |-> "run"] /\ send_lock_ = "none"
  BY DEF Init
<1>2. "construct" \in MainLabels \ Locked /\ "run" \in IoLabels \ Locked
  BY DEF MainLabels, OpenLabels, Starting, IoLabels, Locked
<1>3. "none" \notin Threads
  BY DEF Threads
<1>4. pc["main"] = "construct" /\ pc["io"] = "run" /\ pc \in [Threads -> {"construct", "run"}]
  BY <1>1 DEF Threads
<1>5. pc \in [Threads -> MainLabels \cup IoLabels]
  BY <1>2, <1>4
<1>6. \A t \in Threads : pc[t] \notin Locked
  BY <1>2, <1>4
<1> QED BY <1>1, <1>2, <1>3, <1>4, <1>5, <1>6 DEF Control

-----------------------------------------------------------------------------
(* The types of the members, and of what the kernel keeps of the socket. *)
LEMMA MembersInit == Init => Members
<1>1. <<>> \in Seq({"register", "unregister"})
  BY EmptySeq
<1> QED BY <1>1 DEF Init, ThreadInit, Members, KernelType, States, Threads

(* What Request leaves, and Head and Tail of the requests. *)
LEMMA RequestType ==
  ASSUME Members, NEW kind \in {"register", "unregister"}, Request(kind)
  PROVE  /\ requests_' \in Seq({"register", "unregister"})
         /\ signalled' \subseteq Events
         /\ UNCHANGED running_
<1>1. requests_' \in Seq({"register", "unregister"})
  BY AppendProperties DEF Request, Members
<1> QED BY <1>1 DEF Request, Members, Notify, Events

LEMMA MembersMain ==
  ASSUME Members, StepsOfMain
  PROVE  Members'
<1>1. CASE Construct
  BY <1>1 DEF Construct, Members, remote
<1>2. CASE Create
  BY <1>2 DEF Create, Members, KernelType, thread, remote
<1>3. CASE RequestRegisterSocket
  BY <1>3, RequestType DEF RequestRegisterSocket, Members, remote
<1>4. CASE Connect
  BY <1>4 DEF Connect, Members, KernelType, States, thread, remote
<1>5. CASE Pause
  BY <1>5 DEF Pause, Members, thread, remote
<1>6. CASE Return
  BY <1>6 DEF Return, Members, thread, remote
<1>7. CASE Destroy
  BY <1>7 DEF Destroy, Close, Members, Notify, Events, remote
<1>8. CASE Exit
  BY <1>8 DEF Exit, Members, thread, remote
<1> QED BY <1>1, <1>2, <1>3, <1>4, <1>5, <1>6, <1>7, <1>8 DEF StepsOfMain

LEMMA MembersSend ==
  ASSUME Members, NEW t \in Threads, SendPacket(t)
  PROVE  Members'
<1>1. UNCHANGED <<thread, signalled, handle_, wevents, refs, server>>
  BY DEF SendPacket, Push, Lock, TrySendPacket, Sent, Pop, remote
<1>2. UNCHANGED kernel \/ kernel' = [kernel EXCEPT !.armed = @ \cup {"FD_WRITE"}]
  BY DEF SendPacket, Push, Lock, TrySendPacket, Sent, Pop
<1>3. kernel' \in KernelType
  BY <1>2 DEF Members, KernelType, NetworkEvents
<1> QED BY <1>1, <1>3 DEF Members, thread, remote

LEMMA MembersClose ==
  ASSUME Members, NEW t \in Threads, CloseSession(t)
  PROVE  Members'
<1>1. CASE RequestUnregisterSocket(t)
  BY <1>1, RequestType DEF RequestUnregisterSocket, Members, remote
<1>2. CASE ClearSize(t)
  BY <1>2 DEF ClearSize, Members, thread, remote
<1>3. CASE CheckHandle(t)
  BY <1>3 DEF CheckHandle, Members, thread, remote
<1>4. CASE CloseSocket(t)
  BY <1>4 DEF CloseSocket, Members, KernelType, thread, remote
<1>5. CASE Invalidate(t)
  BY <1>5 DEF Invalidate, Members, thread, remote
<1> QED BY <1>1, <1>2, <1>3, <1>4, <1>5 DEF CloseSession

LEMMA MembersIo ==
  ASSUME Members, StepsOfRun \/ StepsOfRead
  PROVE  Members'
<1>1. CASE Loop
  <2>1. UNCHANGED <<running_, requests_, handle_, wevents, refs, kernel, server>> /\ signalled' \subseteq signalled
    BY <1>1 DEF Loop, Untouched, RunTest, Wait, ResetNotify, Scan, thread, remote
  <2> QED BY <2>1 DEF Members
<1>2. CASE TakeRequest
  <2>1. UNCHANGED <<running_, signalled, handle_, wevents, kernel, server>> /\ refs' \subseteq refs \cup {"io"}
    BY <1>2 DEF TakeRequest, OnRequest, Hold, Untouched, remote
  <2>2. requests_' = IF requests_ = <<>> THEN <<>> ELSE Tail(requests_)
    BY <1>2 DEF TakeRequest, OnRequest
  <2>3. requests_' \in Seq({"register", "unregister"})
    BY <2>2, HeadTailProperties, EmptySeq DEF Members
  <2> QED BY <2>1, <2>3 DEF Members, Threads
<1>3. CASE TakeEvent
  <2>1. UNCHANGED <<thread, signalled, handle_, wevents, kernel, server>> /\ refs' \subseteq refs \cup {"io"}
    BY <1>3 DEF TakeEvent, OnSocketEvent, Hold, Untouched, remote
  <2> QED BY <2>1 DEF Members, Threads, thread
<1>4. CASE Registration
  BY <1>4 DEF Registration, OnRegisterSocket, Members, KernelType, remote
<1>5. CASE Unregistration
  BY <1>5 DEF Unregistration, OnUnregisterSocket, Untouched, Members, remote
<1>6. CASE EnumNetworkEvents
  BY <1>6 DEF EnumNetworkEvents, Members, KernelType, remote
<1>7. CASE Dispatch
  BY <1>7 DEF Dispatch, Members, thread, remote
<1>8. CASE Release
  BY <1>8 DEF Release, Members, thread, remote
<1>9. CASE Recv
  BY <1>9 DEF Recv, Members, KernelType, NetworkEvents, thread, remote
<1>10. CASE Cut
  BY <1>10 DEF Cut, Members, thread, remote
<1>11. CASE OnPacket
  BY <1>11 DEF OnPacket, Members, thread, remote
<1>12. CASE ClearPacket
  BY <1>12 DEF ClearPacket, Members, thread, remote
<1> QED BY <1>1, <1>2, <1>3, <1>4, <1>5, <1>6, <1>7, <1>8, <1>9, <1>10, <1>11, <1>12
        DEF StepsOfRun, StepsOfRead

LEMMA MembersKernel ==
  ASSUME Members, Kernel \/ Breaks
  PROVE  Members'
<1>1. CASE ConnectCompletes
  BY <1>1 DEF ConnectCompletes, Local, Members, KernelType, States, thread, remote
<1>2. CASE Breaks
  BY <1>2 DEF Breaks, Local, Members, KernelType, States, thread, remote
<1>3. CASE Exchange
  BY <1>3 DEF Exchange, Local, Members, thread, remote
<1>4. ASSUME NEW e \in NetworkEvents, Record(e) PROVE Members'
  BY <1>4 DEF Record, Local, Members, KernelType, thread, remote, SocketEvent, Events
<1> QED BY <1>1, <1>2, <1>3, <1>4 DEF Kernel

LEMMA MembersStep ==
  ASSUME Members, [Next]_vars
  PROVE  Members'
<1>1. CASE UNCHANGED vars
  BY <1>1 DEF vars, thread, remote, Members
<1> QED BY <1>1, MembersMain, MembersSend, MembersClose, MembersIo, MembersKernel, Steps

-----------------------------------------------------------------------------
(* The socket and its handle. *)

(* Before main has registered the socket the I/O thread does not work. *)
LEMMA IoWorks ==
  ASSUME Lifetime, pc["io"] \notin {"run", "wait", "ended"}
  PROVE  pc["main"] \notin Starting
BY DEF Lifetime

LEMMA MovesTo ==
  ASSUME Control, NEW t \in Threads, NEW l, Goto(t, l)
  PROVE  /\ pc'[t] = l
         /\ \A u \in Threads : u # t => pc'[u] = pc[u]
BY DEF Control, Goto

(* What is done once main has registered it, except for closing it. *)
LEMMA LifetimeLater ==
  ASSUME Control, Lifetime, NEW t \in Threads, NEW l, Goto(t, l) \/ UNCHANGED pc,
         pc["main"] \notin Starting, t = "main" => l \notin Starting, l # "invalidate",
         handle_' = handle_, kernel'.open = kernel.open
  PROVE  Lifetime'
<1>1. pc'["main"] \notin Starting
  <2>1. CASE UNCHANGED pc
    BY <2>1
  <2>2. CASE Goto(t, l)
    BY <2>2, MovesTo DEF Threads
  <2> QED BY <2>1, <2>2
<1>2. \A u \in Threads : pc'[u] = "invalidate" => pc[u] = "invalidate"
  BY MovesTo
<1>3. {"construct", "create"} \subseteq Starting
  BY DEF Starting
<1> QED BY <1>1, <1>2, <1>3 DEF Lifetime

LEMMA LifetimeMain ==
  ASSUME Control, Members, Lifetime, StepsOfMain
  PROVE  Lifetime'
<1>0. "main" \in Threads /\ Starting = {"construct", "create", "register"}
  BY DEF Threads, Starting
<1>1. CASE Construct
  <2>1. pc' = [pc EXCEPT !["main"] = "create"] /\ pc["main"] = "construct"
    BY <1>1 DEF Construct, Goto
  <2>2. pc'["main"] = "create" /\ pc'["io"] = pc["io"]
    BY <1>0, <2>1 DEF Control, Threads
  <2> QED BY <1>0, <1>1, <2>1, <2>2 DEF Construct, Lifetime, Threads
<1>2. CASE Create
  <2>1. pc' = [pc EXCEPT !["main"] = "register"] /\ pc["main"] = "create"
    BY <1>2 DEF Create, Goto
  <2>2. pc'["main"] = "register" /\ pc'["io"] = pc["io"]
    BY <1>0, <2>1 DEF Control, Threads
  <2>3. ~kernel'.selected
    BY <1>0, <1>2, <2>1 DEF Create, Lifetime, Members, KernelType
  <2> QED BY <1>0, <1>2, <2>1, <2>2, <2>3 DEF Create, Lifetime, Threads, thread
<1>3. CASE RequestRegisterSocket
  <2>1. pc' = [pc EXCEPT !["main"] = "connect"] /\ pc["main"] = "register"
    BY <1>3 DEF RequestRegisterSocket, Goto
  <2>2. pc'["main"] = "connect" /\ pc'["io"] = pc["io"]
    BY <1>0, <2>1 DEF Control, Threads
  <2> QED BY <1>0, <1>3, <2>1, <2>2 DEF RequestRegisterSocket, Lifetime, Threads
<1>4. CASE Connect
  <2>1. kernel'.open = kernel.open
    BY <1>4 DEF Connect, Members, KernelType
  <2> QED BY <1>0, <1>4, <2>1, LifetimeLater DEF Connect
<1>5. CASE Pause
  BY <1>0, <1>5, LifetimeLater DEF Pause
<1>6. CASE Return
  BY <1>0, <1>6, LifetimeLater DEF Return
<1>7. CASE Destroy
  BY <1>0, <1>7, LifetimeLater DEF Destroy, Close
<1>8. CASE Exit
  BY <1>0, <1>8, LifetimeLater DEF Exit
<1> QED BY <1>1, <1>2, <1>3, <1>4, <1>5, <1>6, <1>7, <1>8 DEF StepsOfMain

(* A thread that sends or closes does so once the socket is registered. *)
LEMMA Sends ==
  ASSUME Lifetime, NEW t \in Threads, pc[t] \in SendLabels \cup CloseLabels
  PROVE  pc["main"] \notin Starting
<1>1. pc["io"] \in SendLabels \cup CloseLabels => pc["io"] \notin {"run", "wait", "ended"}
  BY DEF SendLabels, Locked, CloseLabels
<1>2. pc["main"] \in SendLabels \cup CloseLabels => pc["main"] \notin Starting
  BY DEF SendLabels, Locked, CloseLabels, Starting
<1> QED BY <1>1, <1>2, IoWorks DEF Threads

LEMMA LifetimeSend ==
  ASSUME Control, Members, Lifetime, NEW t \in Threads, SendPacket(t)
  PROVE  Lifetime'
<1>1. pc[t] \in SendLabels
  BY DEF SendPacket, Push, Lock, TrySendPacket, Sent, Pop, SendLabels, Locked
<1>2. UNCHANGED handle_
  BY DEF SendPacket, Push, Lock, TrySendPacket, Sent, Pop
<1>3. kernel'.open = kernel.open
  <2>1. UNCHANGED kernel \/ kernel' = [kernel EXCEPT !.armed = @ \cup {"FD_WRITE"}]
    BY DEF SendPacket, Push, Lock, TrySendPacket, Sent, Pop
  <2> QED BY <2>1 DEF Members, KernelType
<1>4. \E l \in {"lock", "sending", "sent", "test", "pause", "clear packet", "dispatch"} :
        Goto(t, l) \/ UNCHANGED pc
  BY After DEF SendPacket, Push, Lock, TrySendPacket, Sent, Pop, Dies, Threads
<1>5. \A l \in {"lock", "sending", "sent", "test", "pause", "clear packet", "dispatch"} :
        l \notin Starting /\ l # "invalidate"
  BY DEF Starting
<1>6. pc["main"] \notin Starting
  BY <1>1, Sends
<1> QED BY <1>2, <1>3, <1>4, <1>5, <1>6, LifetimeLater

(* closesocket has succeeded when handle_ is cleared. *)
LEMMA LifetimeClose ==
  ASSUME Control, Members, Lifetime, NEW t \in Threads, CloseSession(t)
  PROVE  Lifetime'
<1>0. pc["main"] \notin Starting
  <2>1. pc[t] \in CloseLabels
    BY DEF CloseSession, RequestUnregisterSocket, ClearSize, CheckHandle, CloseSocket, Invalidate, CloseLabels
  <2> QED BY <2>1, Sends
<1>1. \A l \in {"clear", "check", "closesocket", "invalidate", "return", "dispatch"} : l \notin Starting
  BY DEF Starting
<1>2. CASE RequestUnregisterSocket(t)
  BY <1>0, <1>1, <1>2, LifetimeLater DEF RequestUnregisterSocket
<1>3. CASE ClearSize(t)
  BY <1>0, <1>1, <1>3, LifetimeLater DEF ClearSize
<1>4. CASE CheckHandle(t)
  <2>1. AfterClose(t) \in {"return", "dispatch"}
    BY After DEF Threads
  <2> QED BY <1>0, <1>1, <1>4, <2>1, LifetimeLater DEF CheckHandle
<1>5. CASE CloseSocket(t)
  <2>1. ~kernel'.open
    BY <1>5 DEF CloseSocket, CloseFails, Lifetime, Members, KernelType, Socket, InvalidSocket
  <2>2. pc'["main"] \notin Starting
    <3>1. CASE UNCHANGED pc
      BY <1>0, <3>1
    <3>2. CASE Goto(t, "invalidate")
      BY <1>0, <1>1, <3>2, MovesTo DEF Threads
    <3> QED BY <1>5, <3>1, <3>2 DEF CloseSocket, Dies
  <2>3. {"construct", "create"} \subseteq Starting
    BY DEF Starting
  <2> QED BY <2>1, <2>2, <2>3 DEF Lifetime
<1>6. CASE Invalidate(t)
  <2>1. ~kernel'.open
    BY <1>6 DEF Invalidate, Lifetime
  <2>2. pc'["main"] \notin Starting
    <3>1. AfterClose(t) \in {"return", "dispatch"}
      BY After DEF Threads
    <3> QED BY <1>0, <1>1, <1>6, <3>1, MovesTo DEF Invalidate, Threads
  <2>3. {"construct", "create"} \subseteq Starting
    BY DEF Starting
  <2> QED BY <2>1, <2>2, <2>3 DEF Lifetime
<1> QED BY <1>2, <1>3, <1>4, <1>5, <1>6 DEF CloseSession

LEMMA LifetimeIo ==
  ASSUME Control, Members, Lifetime, StepsOfRun \/ StepsOfRead
  PROVE  Lifetime'
<1> DEFINE Plain == {"run", "scan", "request", "register", "unregister", "event", "enum", "release",
                     "dispatch", "read", "cut", "packet", "clear packet", "push", "lock", "close"}
<1>0. "io" \in Threads /\ "io" # "main" /\ \A l \in Plain : l # "invalidate"
  BY DEF Threads
<1>1. ASSUME NEW l \in Plain, Goto("io", l) \/ UNCHANGED pc, pc["io"] \notin {"run", "wait", "ended"},
             handle_' = handle_, kernel'.open = kernel.open
      PROVE  Lifetime'
  BY <1>0, <1>1, IoWorks, LifetimeLater
<1>2. CASE RunTest /\ Untouched
  <2>1. PICK l \in {"wait", "ended"} : Goto("io", l)
    BY <1>2 DEF RunTest
  <2>2. pc'["io"] = l /\ pc'["main"] = pc["main"]
    BY <1>0, <2>1, MovesTo DEF Threads
  <2>3. UNCHANGED <<signalled, requests_, kernel, handle_>>
    BY <1>2 DEF RunTest, Untouched, thread
  <2> QED BY <2>2, <2>3 DEF Lifetime, Threads
<1>3. CASE Wait /\ Untouched
  <2>1. pc["main"] \notin Starting
    BY <1>3 DEF Wait, Lifetime
  <2>2. PICK l \in {"reset", "scan"} : Goto("io", l)
    BY <1>3 DEF Wait
  <2> QED BY <1>0, <1>3, <2>1, <2>2, LifetimeLater DEF Untouched
<1>4. CASE ResetNotify /\ Untouched
  BY <1>1, <1>4 DEF ResetNotify, Untouched
<1>5. CASE Scan /\ Untouched
  BY <1>1, <1>5 DEF Scan, Untouched, Dies
<1>6. CASE TakeRequest
  <2>1. requests_ # <<>> => Head(requests_) \in {"register", "unregister"}
    BY HeadTailProperties DEF Members
  <2> QED BY <1>1, <1>6, <2>1 DEF TakeRequest, OnRequest, Untouched
<1>7. CASE TakeEvent
  BY <1>1, <1>7 DEF TakeEvent, OnSocketEvent, Untouched, Dies
<1>8. CASE Registration
  BY <1>1, <1>8 DEF Registration, OnRegisterSocket, Members, KernelType
<1>9. CASE Unregistration
  BY <1>1, <1>9 DEF Unregistration, OnUnregisterSocket, Untouched
<1>10. CASE EnumNetworkEvents
  BY <1>1, <1>10 DEF EnumNetworkEvents, Members, KernelType
<1>11. CASE Dispatch
  BY <1>1, <1>11 DEF Dispatch
<1>12. CASE Release
  BY <1>1, <1>12 DEF Release, Dies
<1>13. CASE Recv
  BY <1>1, <1>13 DEF Recv, RecvData, Dies, Members, KernelType
<1>14. CASE Cut
  BY <1>1, <1>14 DEF Cut
<1>15. CASE OnPacket
  BY <1>1, <1>15 DEF OnPacket
<1>16. CASE ClearPacket
  BY <1>1, <1>16 DEF ClearPacket
<1> QED BY <1>2, <1>3, <1>4, <1>5, <1>6, <1>7, <1>8, <1>9, <1>10, <1>11, <1>12, <1>13, <1>14,
           <1>15, <1>16 DEF StepsOfRun, StepsOfRead, Loop

LEMMA LifetimeKernel ==
  ASSUME Control, Members, Lifetime, Kernel \/ Breaks
  PROVE  Lifetime'
<1>1. kernel'.open = kernel.open /\ kernel'.selected = kernel.selected
  BY DEF Kernel, Breaks, ConnectCompletes, Exchange, Record, Members, KernelType
<1>2. UNCHANGED <<pc, handle_, requests_>>
  BY DEF Kernel, Breaks, ConnectCompletes, Exchange, Record, Local, thread
<1>3. pc["main"] \in Starting => UNCHANGED signalled
  BY DEF Kernel, Breaks, ConnectCompletes, Exchange, Record, Lifetime
<1> QED BY <1>1, <1>2, <1>3 DEF Lifetime

LEMMA LifetimeStep ==
  ASSUME Control, Members, Lifetime, [Next]_vars
  PROVE  Lifetime'
<1>1. CASE UNCHANGED vars
  BY <1>1 DEF vars, thread, Lifetime
<1> QED BY <1>1, LifetimeMain, LifetimeSend, LifetimeClose, LifetimeIo, LifetimeKernel, Steps

LEMMA LifetimeInit == Init => Lifetime
<1> SUFFICES ASSUME Init PROVE Lifetime
  OBVIOUS
<1>1. \A t \in Threads : pc[t] # "invalidate"
  BY DEF Init, Threads
<1> QED BY <1>1 DEF Init, ThreadInit, Lifetime, Starting

-----------------------------------------------------------------------------
(* The registration of the socket. *)
registration == <<events_, socket_map_, event_map_>>

LEMMA RegisteredKept ==
  ASSUME Control, Registered, NEW t \in Threads, NEW l, Goto(t, l) \/ UNCHANGED pc,
         t = "main" => /\ pc["main"] # "construct" /\ l # "construct"
                       /\ l \in Starting => pc["main"] \in Starting,
         t = "io" => l # "register",
         UNCHANGED <<registration, requests_>>
  PROVE  Registered'
<1>1. /\ pc'["main"] = "construct" <=> pc["main"] = "construct"
      /\ pc'["main"] \in Starting => pc["main"] \in Starting
      /\ pc'["io"] = "register" => pc["io"] = "register"
  BY MovesTo DEF Threads
<1> QED BY <1>1 DEF Registered, registration

(* A request to unregister goes behind whatever is there. *)
LEMMA RegisteredUnregister ==
  ASSUME Control, Members, Registered, NEW t \in Threads, RequestUnregisterSocket(t)
  PROVE  Registered'
<1>1. /\ requests_' = Append(requests_, "unregister")
      /\ UNCHANGED registration /\ Goto(t, "clear") /\ pc[t] = "close"
  BY DEF RequestUnregisterSocket, Request, registration
<1>2. /\ pc'["main"] = "construct" <=> pc["main"] = "construct"
      /\ pc'["main"] \in Starting => pc["main"] \in Starting
      /\ pc'["io"] = "register" => pc["io"] = "register"
  BY <1>1, MovesTo DEF Threads, Starting
<1>3. /\ Len(requests_) \in Nat /\ Len(requests_') = Len(requests_) + 1
      /\ \A i \in 1 .. Len(requests_) : requests_'[i] = requests_[i]
      /\ requests_'[Len(requests_) + 1] = "unregister"
  BY <1>1, AppendProperties, LenProperties DEF Members
<1>4. \A i \in 1 .. Len(requests_') : requests_'[i] = "register" =>
        i \in 1 .. Len(requests_) /\ requests_[i] = "register"
  BY <1>3
<1> QED BY <1>1, <1>2, <1>4 DEF Registered, registration

LEMMA RegisteredMain ==
  ASSUME Control, Members, Lifetime, Registered, StepsOfMain
  PROVE  Registered'
<1>0. "main" \in Threads /\ "main" # "io" /\ Starting = {"construct", "create", "register"}
  BY DEF Threads, Starting
<1>1. CASE Construct
  <2>1. pc["main"] = "construct" /\ pc'["main"] = "create" /\ pc'["io"] = pc["io"]
    BY <1>0, <1>1, MovesTo DEF Construct, Threads
  <2>2. requests_ = <<>> /\ Len(<<>>) = 0 /\ pc["io"] # "register"
    BY <1>0, <2>1, EmptySeq DEF Lifetime
  <2>3. events_' = <<Notify>> /\ UNCHANGED <<socket_map_, event_map_, requests_>>
    BY <1>1 DEF Construct
  <2>4. <<Notify>> # <<>> /\ <<Notify>> # <<Notify, SocketEvent>>
    OBVIOUS
  <2> QED BY <1>0, <2>1, <2>2, <2>3, <2>4 DEF Registered
<1>2. CASE Create
  BY <1>0, <1>2, RegisteredKept DEF Create, thread, registration
<1>3. CASE RequestRegisterSocket
  <2>1. pc["main"] = "register" /\ pc'["main"] = "connect" /\ pc'["io"] = pc["io"]
    BY <1>0, <1>3, MovesTo DEF RequestRegisterSocket, Threads
  <2>2. requests_ = <<>> /\ pc["io"] # "register"
    BY <1>0, <2>1 DEF Lifetime
  <2>3. events_ = <<Notify>>
    BY <1>0, <2>1 DEF Registered
  <2>4. requests_' = Append(<<>>, "register") /\ UNCHANGED registration
    BY <1>3, <2>2 DEF RequestRegisterSocket, Request, registration
  <2>5. Len(requests_') = 1
    BY <2>4, EmptySeq, AppendProperties
  <2>6. \A i \in 1 .. Len(requests_') : i = 1
    BY <2>5
  <2>7. events_' = <<Notify>> /\ events_' # <<>>
    BY <2>3, <2>4 DEF registration
  <2> QED BY <1>0, <2>1, <2>2, <2>4, <2>6, <2>7 DEF Registered, registration
<1>4. CASE Connect
  BY <1>0, <1>4, RegisteredKept DEF Connect, thread, registration
<1>5. CASE Pause
  BY <1>0, <1>5, RegisteredKept DEF Pause, thread, registration
<1>6. CASE Return
  BY <1>0, <1>6, RegisteredKept DEF Return, thread, registration
<1>7. CASE Destroy
  BY <1>0, <1>7, RegisteredKept DEF Destroy, Close, registration
<1>8. CASE Exit
  BY <1>0, <1>8, RegisteredKept DEF Exit, thread, registration
<1> QED BY <1>1, <1>2, <1>3, <1>4, <1>5, <1>6, <1>7, <1>8 DEF StepsOfMain

LEMMA RegisteredSend ==
  ASSUME Control, Registered, NEW t \in Threads, SendPacket(t)
  PROVE  Registered'
<1> DEFINE Plain == {"lock", "sending", "sent", "test", "pause", "clear packet", "dispatch"}
<1>1. UNCHANGED thread /\ pc[t] \in SendLabels
  BY DEF SendPacket, Push, Lock, TrySendPacket, Sent, Pop, SendLabels, Locked
<1>2. \E l \in Plain : Goto(t, l) \/ UNCHANGED pc
  BY After DEF SendPacket, Push, Lock, TrySendPacket, Sent, Pop, Dies, Threads
<1>3. /\ "construct" \notin SendLabels
      /\ \A l \in Plain : l \notin Starting /\ l # "construct" /\ l # "register"
  BY DEF SendLabels, Locked, Starting
<1> QED BY <1>1, <1>2, <1>3, RegisteredKept DEF thread, registration

LEMMA RegisteredClose ==
  ASSUME Control, Members, Registered, NEW t \in Threads, CloseSession(t)
  PROVE  Registered'
<1> DEFINE Plain == {"check", "closesocket", "invalidate", "return", "dispatch"}
<1>1. CASE RequestUnregisterSocket(t)
  BY <1>1, RegisteredUnregister
<1>2. CASE ClearSize(t) \/ CheckHandle(t) \/ CloseSocket(t) \/ Invalidate(t)
  <2>1. UNCHANGED thread /\ pc[t] # "construct"
    BY <1>2 DEF ClearSize, CheckHandle, CloseSocket, Invalidate
  <2>2. \E l \in Plain : Goto(t, l) \/ UNCHANGED pc
    BY <1>2, After DEF ClearSize, CheckHandle, CloseSocket, Invalidate, Dies, Threads
  <2>3. \A l \in Plain : l \notin Starting /\ l # "construct" /\ l # "register"
    BY DEF Starting
  <2> QED BY <2>1, <2>2, <2>3, RegisteredKept DEF thread, registration
<1> QED BY <1>1, <1>2 DEF CloseSession

(* The request taken is no longer there, and "register" was the first. *)
LEMMA RegisteredRequest ==
  ASSUME Control, Members, Registered, OnRequest(Expired)
  PROVE  Registered'
<1>0. UNCHANGED registration /\ pc'["main"] = pc["main"] /\ pc["io"] = "request"
  BY MovesTo DEF OnRequest, Threads, registration
<1>1. CASE requests_ = <<>>
  BY <1>0, <1>1, RegisteredKept DEF OnRequest, Threads
<1>2. CASE requests_ # <<>>
  <2>1. /\ requests_' = Tail(requests_) /\ pc'["io"] \in {"scan", Head(requests_)}
        /\ UNCHANGED registration
    BY <1>2, MovesTo DEF OnRequest, Threads, registration
  <2>2. /\ Len(requests_) \in Nat \ {0} /\ Len(requests_') = Len(requests_) - 1
        /\ Head(requests_) = requests_[1]
        /\ \A i \in 1 .. Len(requests_') : requests_'[i] = requests_[i + 1]
    BY <1>2, <2>1, HeadTailProperties, LenProperties, EmptySeq DEF Members
  <2>3. \A i \in 1 .. Len(requests_') : i + 1 \in 1 .. Len(requests_) /\ i + 1 # 1
    BY <2>2
  <2>4. \A i \in 1 .. Len(requests_') : requests_'[i] # "register"
    BY <2>2, <2>3 DEF Registered
  <2>5. 1 \in 1 .. Len(requests_)
    BY <2>2
  <2>6. pc'["io"] = "register" => events_ = <<Notify>>
    BY <2>1, <2>2, <2>5 DEF Registered
  <2> QED BY <1>0, <2>1, <2>4, <2>6 DEF Registered, registration
<1> QED BY <1>1, <1>2

(* Two events in a row, with one more or one less. *)
LEMMA AppendPair ==
  ASSUME NEW a \in Nat, NEW b \in Nat
  PROVE  Append(<<a>>, b) = <<a, b>>
<1>1. /\ <<a>> \in Seq(Nat) /\ Len(<<a>>) = 1 /\ <<a>>[1] = a
      /\ <<a, b>> \in Seq(Nat) /\ Len(<<a, b>>) = 2 /\ <<a, b>>[1] = a /\ <<a, b>>[2] = b
  OBVIOUS
<1>2. /\ Append(<<a>>, b) \in Seq(Nat) /\ Len(Append(<<a>>, b)) = 2
      /\ Append(<<a>>, b)[1] = a /\ Append(<<a>>, b)[2] = b
  BY <1>1, AppendProperties
<1>3. \A i \in 1 .. 2 : i = 1 \/ i = 2
  OBVIOUS
<1> QED BY <1>1, <1>2, <1>3, SeqEqual

LEMMA ErasedPair ==
  ASSUME events_ = <<Notify, SocketEvent>>
  PROVE  Erased(SocketEvent) = <<Notify>>
<1> DEFINE ev == events_
           front == SubSeq(ev, 0 + 1, 1)
           rest == SubSeq(ev, 2 + 1, 2)
<1>1. /\ ev \in Seq(Nat) /\ Len(ev) = 2 /\ ev[1] = 0 /\ ev[2] = 1
      /\ <<Notify>> \in Seq(Nat) /\ Len(<<Notify>>) = 1 /\ <<Notify>>[1] = 0
  BY DEF Notify, SocketEvent
<1>2. {k \in 1 .. Len(ev) : ev[k] = SocketEvent} = {2}
  <2>1. \A k \in 1 .. 2 : k = 1 \/ k = 2
    OBVIOUS
  <2> QED BY <1>1, <2>1 DEF SocketEvent
<1>3. (CHOOSE k \in {2} : \A j \in {2} : k <= j) = 2
  OBVIOUS
<1>4. Erased(SocketEvent) = SubSeq(ev, 1, 2 - 1) \o SubSeq(ev, 2 + 1, Len(ev))
  BY <1>2, <1>3 DEF Erased
<1>5. Erased(SocketEvent) = front \o rest
  <2>1. 2 - 1 = 1 /\ 0 + 1 = 1
    OBVIOUS
  <2> QED BY <1>1, <1>4, <2>1
<1> HIDE DEF ev
<1>6. front \in Seq(Nat) /\ Len(front) = 1 /\ front[1] = 0
  <2>1. 0 \in 0 .. Len(ev) /\ 1 \in 0 .. Len(ev) /\ 1 - 0 = 1 /\ 1 \in 1 .. 1 /\ 0 + 1 = 1
    BY <1>1
  <2> QED BY <1>1, <2>1, Piece
<1>7. rest \in Seq(Nat) /\ Len(rest) = 0
  <2>1. 2 \in 2 .. Len(ev) /\ 2 \in 0 .. Len(ev) /\ 2 - 2 = 0
    BY <1>1
  <2> QED BY <1>1, <2>1, Piece
<1> HIDE DEF front, rest
<1>8. /\ front \o rest \in Seq(Nat) /\ Len(front \o rest) = 1
      /\ (front \o rest)[1] = 0
  BY <1>6, <1>7, ConcatProperties
<1>9. \A i \in 1 .. 1 : i = 1
  OBVIOUS
<1> QED BY <1>1, <1>5, <1>8, <1>9, SeqEqual

(* The event of the one socket goes behind the first event. *)
LEMMA RegisteredRegister ==
  ASSUME Control, Lifetime, Registered, OnRegisterSocket(handle_)
  PROVE  Registered'
<1>1. pc'["io"] = "release" /\ pc'["main"] = pc["main"] /\ pc["io"] = "register"
  BY MovesTo DEF OnRegisterSocket, Threads
<1>2. events_' = <<Notify, SocketEvent>>
  <2>1. Append(<<Notify>>, SocketEvent) = <<Notify, SocketEvent>>
    BY AppendPair DEF Notify, SocketEvent
  <2>2. events_ = <<Notify>> /\ events_' = Append(events_, SocketEvent)
    BY <1>1 DEF Registered, OnRegisterSocket
  <2> QED BY <2>1, <2>2
<1>3. socket_map_' \subseteq {SocketEvent} /\ UNCHANGED requests_
  BY DEF Registered, OnRegisterSocket
<1>4. \A h \in DOMAIN event_map_' : event_map_'[h] = SocketEvent
  BY DEF Registered, OnRegisterSocket
<1>5. \A i \in 1 .. Len(requests_) : requests_[i] # "register"
  BY <1>1 DEF Registered
<1>6. events_ = <<Notify>> /\ events_ # <<>> /\ events_' # <<>>
  BY <1>1, <1>2 DEF Registered
<1>7. pc["main"] \notin Starting
  BY <1>1, IoWorks
<1> QED BY <1>1, <1>2, <1>3, <1>4, <1>5, <1>6, <1>7 DEF Registered

LEMMA RegisteredUnregistered ==
  ASSUME Control, Lifetime, Registered, OnUnregisterSocket(handle_), UNCHANGED requests_
  PROVE  Registered'
<1>1. pc'["io"] = "release" /\ pc'["main"] = pc["main"] /\ pc["io"] = "unregister"
  BY MovesTo DEF OnUnregisterSocket, Threads
<1>2. pc["main"] \notin Starting /\ "construct" \in Starting
  BY <1>1, IoWorks DEF Starting
<1>3. CASE handle_ \notin DOMAIN event_map_
  BY <1>1, <1>2, <1>3 DEF Registered, OnUnregisterSocket
<1>4. CASE handle_ \in DOMAIN event_map_
  <2>1. event_map_[handle_] = SocketEvent
    BY <1>4 DEF Registered
  <2>2. events_' \in {<<Notify>>} /\ (events_ = <<Notify>> => events_' = <<Notify>>)
    <3>1. events_' = Erased(SocketEvent)
      BY <1>4, <2>1 DEF OnUnregisterSocket
    <3>2. CASE events_ = <<Notify, SocketEvent>>
      BY <3>1, <3>2, ErasedPair
    <3>3. CASE events_ = <<Notify>>
      <4>1. Len(events_) = 1 /\ events_[1] = 0
        BY <3>3 DEF Notify
      <4>2. \A k \in 1 .. 1 : k = 1
        OBVIOUS
      <4>3. {k \in 1 .. Len(events_) : events_[k] = SocketEvent} = {}
        BY <4>1, <4>2 DEF SocketEvent
      <4> QED BY <3>1, <3>3, <4>3 DEF Erased
    <3>4. events_ # <<>>
      BY <1>2 DEF Registered
    <3> QED BY <3>2, <3>3, <3>4 DEF Registered
  <2>3. socket_map_' \subseteq {SocketEvent}
    BY <1>4 DEF Registered, OnUnregisterSocket
  <2>4. \A h \in DOMAIN event_map_' : event_map_'[h] = SocketEvent
    BY <1>4 DEF Registered, OnUnregisterSocket
  <2>5. <<Notify>> # <<>> /\ <<Notify>> # <<Notify, SocketEvent>>
    OBVIOUS
  <2> QED BY <1>1, <1>2, <2>2, <2>3, <2>4, <2>5 DEF Registered
<1> QED BY <1>3, <1>4

LEMMA RegisteredIo ==
  ASSUME Control, Members, Lifetime, Registered, StepsOfRun \/ StepsOfRead
  PROVE  Registered'
<1>0. "io" \in Threads /\ "io" # "main"
  BY DEF Threads
<1>1. ASSUME NEW l, Goto("io", l) \/ UNCHANGED pc, l # "register",
             UNCHANGED <<registration, requests_>>
      PROVE  Registered'
  BY <1>0, <1>1, RegisteredKept
<1>2. CASE Loop
  <2>1. UNCHANGED <<registration, requests_>>
    BY <1>2 DEF Loop, RunTest, Wait, ResetNotify, Scan, registration, thread
  <2>2. \E l \in {"wait", "ended", "reset", "scan", "request", "run", "event"} : Goto("io", l) \/ UNCHANGED pc
    BY <1>2 DEF Loop, RunTest, Wait, ResetNotify, Scan, Dies
  <2> QED BY <1>1, <2>1, <2>2
<1>3. CASE TakeRequest
  BY <1>3, RegisteredRequest DEF TakeRequest
<1>4. CASE TakeEvent
  BY <1>1, <1>4 DEF TakeEvent, OnSocketEvent, Dies, registration, thread
<1>5. CASE Registration
  BY <1>5, RegisteredRegister DEF Registration
<1>6. CASE Unregistration
  BY <1>6, RegisteredUnregistered DEF Unregistration, OnUnregisterSocket
<1>7. CASE EnumNetworkEvents
  BY <1>1, <1>7 DEF EnumNetworkEvents, registration
<1>8. CASE Dispatch
  BY <1>1, <1>8 DEF Dispatch, registration, thread
<1>9. CASE Release
  BY <1>1, <1>9 DEF Release, Dies, registration, thread
<1>10. CASE Recv
  BY <1>1, <1>10 DEF Recv, RecvData, Dies, registration, thread
<1>11. CASE Cut
  BY <1>1, <1>11 DEF Cut, registration, thread
<1>12. CASE OnPacket
  BY <1>1, <1>12 DEF OnPacket, registration, thread
<1>13. CASE ClearPacket
  BY <1>1, <1>13 DEF ClearPacket, registration, thread
<1> QED BY <1>2, <1>3, <1>4, <1>5, <1>6, <1>7, <1>8, <1>9, <1>10, <1>11, <1>12, <1>13
        DEF StepsOfRun, StepsOfRead

LEMMA RegisteredStep ==
  ASSUME Control, Members, Lifetime, Registered, [Next]_vars
  PROVE  Registered'
<1>1. CASE UNCHANGED vars \/ Kernel \/ Breaks
  <2>1. UNCHANGED <<pc, registration, requests_>>
    BY <1>1 DEF vars, Kernel, Breaks, ConnectCompletes, Exchange, Record, Local, thread, registration
  <2> QED BY <2>1 DEF Registered, registration
<1> QED BY <1>1, RegisteredMain, RegisteredSend, RegisteredClose, RegisteredIo, Steps

LEMMA RegisteredInit == Init => Registered
<1> SUFFICES ASSUME Init PROVE Registered
  OBVIOUS
<1>1. Len(<<>>) = 0
  BY EmptySeq
<1>2. <<>> # <<Notify, SocketEvent>>
  OBVIOUS
<1> QED BY <1>1, <1>2 DEF Init, ThreadInit, Registered

-----------------------------------------------------------------------------
(* The requests in the send list. *)
queue == <<send_buffers_, sending_size_, sent, requested, wire>>

(* A thread that neither comes to have sent something nor has. *)
LEMMA QueuedKept ==
  ASSUME Control, Queued, NEW t \in Threads, NEW l, Goto(t, l) \/ UNCHANGED pc,
         Goto(t, l) => pc[t] # "sent" /\ l \notin {"sent", "test"},
         t = "main" => (l \in Starting => pc["main"] \in Starting),
         UNCHANGED queue
  PROVE  Queued'
<1>1. pc'["main"] \in Starting => pc["main"] \in Starting
  BY MovesTo DEF Threads
<1>2. \A u \in Threads : /\ pc'[u] \in {"sent", "test"} => pc[u] \in {"sent", "test"}
                         /\ pc'[u] = "sent" <=> pc[u] = "sent"
  <2>1. CASE UNCHANGED pc
    BY <2>1
  <2>2. CASE Goto(t, l)
    BY <2>2, MovesTo
  <2> QED BY <2>1, <2>2
<1> QED BY <1>1, <1>2 DEF Queued, queue

LEMMA QueuedPush ==
  ASSUME Control, Lifetime, Queued, NEW t \in Threads, Push(t)
  PROVE  Queued'
<1> DEFINE n == Len(send_buffers_)
<1>1. /\ requested' = requested + 1 /\ send_buffers_' = Append(send_buffers_, requested + 1)
      /\ UNCHANGED <<sending_size_, sent, wire>> /\ Goto(t, "lock") /\ pc[t] = "push"
  BY DEF Push
<1>2. requested + 1 \in Nat /\ n \in Nat
  BY LenProperties DEF Queued
<1>3. /\ send_buffers_' \in Seq(Nat) /\ Len(send_buffers_') = n + 1
      /\ \A i \in 1 .. n : send_buffers_'[i] = send_buffers_[i]
      /\ send_buffers_'[n + 1] = requested + 1
  BY <1>1, <1>2, AppendProperties DEF Queued
<1>4. \A i \in 1 .. n + 1 : send_buffers_'[i] = requested' - (n + 1) + i
  <2> TAKE i \in 1 .. n + 1
  <2>1. CASE i \in 1 .. n
    BY <1>1, <1>2, <1>3, <2>1 DEF Queued
  <2>2. CASE i = n + 1
    BY <1>1, <1>2, <1>3, <2>2 DEF Queued
  <2> QED BY <1>2, <2>1, <2>2
<1>5. pc'["main"] \notin Starting
  <2>1. pc["main"] \notin Starting
    BY <1>1, Sends DEF SendLabels
  <2>2. "lock" \notin Starting
    BY DEF Starting
  <2> QED BY <1>1, <2>1, <2>2, MovesTo DEF Threads
<1>6. \A u \in Threads : /\ pc'[u] \in {"sent", "test"} => pc[u] \in {"sent", "test"}
                         /\ pc'[u] = "sent" <=> pc[u] = "sent"
  BY <1>1, MovesTo
<1>7. send_buffers_' # <<>>
  BY <1>2, <1>3, EmptySeq
<1>8. Len(send_buffers_') <= requested'
  BY <1>1, <1>2, <1>3 DEF Queued
<1> QED BY <1>1, <1>2, <1>3, <1>4, <1>5, <1>6, <1>7, <1>8 DEF Queued

(* What send may take. *)
LEMMA Takes ==
  ASSUME Members, Queued, NEW n \in 1 .. Least(Room, RequestSize - sending_size_)
  PROVE  n \in 1 .. RequestSize /\ sending_size_ + n <= RequestSize
<1>1. Len(wire) \in Nat /\ server.taken \in Nat
  BY LenProperties DEF Members, Queued
<1>2. Room \in Int /\ RequestSize \in Nat \ {0} /\ sending_size_ \in 0 .. RequestSize
  BY <1>1, ClientAssumption DEF Room, Queued
<1> QED BY <1>2 DEF Least

(* The number of a request, and the positions of its bytes. *)
LEMMA Positions ==
  ASSUME NEW h \in Nat \ {0}, NEW q \in Nat, h <= q, NEW s \in Nat, NEW i \in Nat \ {0},
         s + i <= RequestSize
  PROVE  (h - 1) * RequestSize + s + i \in 1 .. q * RequestSize
<1>1. RequestSize \in Nat
  BY ClientAssumption
<1>2. (h - 1) * RequestSize \in Nat /\ (h - 1) * RequestSize = h * RequestSize - RequestSize
  BY <1>1
<1>3. h * RequestSize <= q * RequestSize /\ q * RequestSize \in Nat /\ h * RequestSize \in Nat
  <2>1. (q - h) * RequestSize \in Nat /\ q - h \in Nat
    BY <1>1
  <2>2. q * RequestSize = h * RequestSize + (q - h) * RequestSize
    BY <1>1
  <2> QED BY <1>1, <2>1, <2>2
<1> QED BY <1>1, <1>2, <1>3

(* What send takes is the next piece of the first request in the list. *)
LEMMA SendsPiece ==
  ASSUME Control, Members, Queued, NEW t \in Threads,
         pc[t] = "sending", send_buffers_ # <<>>,
         NEW n \in 1 .. Least(Room, RequestSize - sending_size_),
         wire' = wire \o [i \in 1 .. n |-> (Head(send_buffers_) - 1) * RequestSize + sending_size_ + i]
  PROVE  /\ wire' \in Seq(Nat)
         /\ Len(wire') = Len(wire) + n
         /\ Len(send_buffers_) >= 1
         /\ Head(send_buffers_) = requested - Len(send_buffers_) + 1
         /\ \A i \in 1 .. Len(wire) : wire'[i] = wire[i]
         /\ \A i \in 1 .. n :
              /\ wire'[Len(wire) + i] = (Head(send_buffers_) - 1) * RequestSize + sending_size_ + i
              /\ wire'[Len(wire) + i] \in 1 .. requested * RequestSize
<1> DEFINE h == Head(send_buffers_)
           piece == [i \in 1 .. n |-> (h - 1) * RequestSize + sending_size_ + i]
<1>1. n \in 1 .. RequestSize /\ sending_size_ + n <= RequestSize
  BY Takes
<1>2. /\ RequestSize \in Nat /\ sending_size_ \in Nat /\ requested \in Nat
      /\ Len(send_buffers_) \in Nat /\ Len(send_buffers_) <= requested /\ n \in Nat
  BY <1>1, ClientAssumption, LenProperties DEF Queued
<1>3. Len(send_buffers_) >= 1 /\ h = send_buffers_[1]
  BY <1>2, EmptySeq, HeadTailProperties DEF Queued
<1>4. h = requested - Len(send_buffers_) + 1
  <2>1. 1 \in 1 .. Len(send_buffers_)
    BY <1>2, <1>3
  <2> QED BY <1>3, <2>1 DEF Queued
<1>5. h \in Nat \ {0} /\ h <= requested
  BY <1>2, <1>3, <1>4
<1>6. \A i \in 1 .. n : (h - 1) * RequestSize + sending_size_ + i \in 1 .. requested * RequestSize
  <2> TAKE i \in 1 .. n
  <2>1. i \in Nat \ {0} /\ sending_size_ + i <= RequestSize
    BY <1>1, <1>2
  <2> QED BY <1>2, <1>5, <2>1, Positions
<1> HIDE DEF h
<1>7. requested * RequestSize \in Nat
  BY <1>2
<1>8. \A i \in 1 .. n : piece[i] \in Nat
  BY <1>6, <1>7
<1>9. piece \in Seq(Nat) /\ Len(piece) = n
  BY <1>2, <1>8, IsASeq
<1>10. \A i \in 1 .. n : piece[i] = (h - 1) * RequestSize + sending_size_ + i
  OBVIOUS
<1>11. wire' = wire \o piece
  BY DEF h
<1> HIDE DEF piece
<1>12. wire \in Seq(Nat) /\ Len(wire) \in Nat
  BY LenProperties DEF Queued
<1>13. /\ wire \o piece \in Seq(Nat) /\ Len(wire \o piece) = Len(wire) + n
       /\ \A i \in 1 .. Len(wire) + Len(piece) :
            (wire \o piece)[i] = IF i <= Len(wire) THEN wire[i] ELSE piece[i - Len(wire)]
  BY <1>9, <1>12, ConcatProperties
<1>14. \A i \in 1 .. Len(wire) : wire'[i] = wire[i]
  BY <1>2, <1>9, <1>11, <1>12, <1>13
<1>15. \A i \in 1 .. n : wire'[Len(wire) + i] = piece[i]
  <2> TAKE i \in 1 .. n
  <2>1. /\ Len(wire) + i \in 1 .. Len(wire) + Len(piece) /\ ~(Len(wire) + i <= Len(wire))
        /\ (Len(wire) + i) - Len(wire) = i
    BY <1>2, <1>9, <1>12
  <2> QED BY <1>11, <1>13, <2>1
<1> QED BY <1>3, <1>4, <1>6, <1>10, <1>11, <1>13, <1>14, <1>15 DEF h

LEMMA QueuedTry ==
  ASSUME Control, Members, Lifetime, Queued, NEW t \in Threads, TrySendPacket(t)
  PROVE  Queued'
<1>0. /\ pc[t] = "sending" /\ UNCHANGED <<send_buffers_, sending_size_, requested>>
      /\ pc["main"] \notin Starting
  BY Sends DEF TrySendPacket, SendLabels, Locked
<1>1. ASSUME Goto(t, AfterSend(t)) \/ UNCHANGED pc, UNCHANGED <<sent, wire>>
      PROVE  Queued'
  <2>1. AfterSend(t) \in {"pause", "clear packet", "dispatch"}
    BY After DEF Threads
  <2>2. AfterSend(t) \notin Starting
    BY <2>1 DEF Starting
  <2> QED BY <1>0, <1>1, <2>1, <2>2, QueuedKept DEF queue
<1>2. ASSUME send_buffers_ # <<>>, Goto(t, "sent"),
             NEW n \in 1 .. Least(Room, RequestSize - sending_size_),
             sent' = [len |-> n, base |-> sending_size_],
             wire' = wire \o [i \in 1 .. n |->
                       (Head(send_buffers_) - 1) * RequestSize + sending_size_ + i]
      PROVE  Queued'
  <2>1. n \in 1 .. RequestSize /\ sending_size_ + n <= RequestSize
    BY <1>2, Takes
  <2>2. RequestSize \in Nat /\ sending_size_ \in 0 .. RequestSize
    BY ClientAssumption DEF Queued
  <2>3. /\ sent' \in [len : 0 .. RequestSize, base : 0 .. RequestSize]
        /\ sent'.base + sent'.len <= RequestSize
        /\ sent'.base = sending_size_
    BY <1>2, <2>1, <2>2
  <2>4. pc'[t] = "sent" /\ \A u \in Threads : u # t => pc'[u] = pc[u]
    BY <1>2, MovesTo
  <2>5. \A u \in Threads : u # t => pc[u] \notin Locked
    BY <1>0 DEF Control, Locked
  <2>6. \A u \in Threads : pc'[u] \in {"sent", "test"} => u = t
    BY <2>4, <2>5 DEF Locked
  <2>7. pc'["main"] \notin Starting
    BY <1>0, <2>4 DEF Threads, Starting
  <2>8. wire' \in Seq(Nat)
    BY <1>0, <1>2, SendsPiece
  <2> QED BY <1>0, <1>2, <2>3, <2>4, <2>6, <2>7, <2>8 DEF Queued
<1> QED BY <1>0, <1>1, <1>2 DEF TrySendPacket, Dies

LEMMA QueuedSent ==
  ASSUME Control, Lifetime, Queued, NEW t \in Threads, Sent(t)
  PROVE  Queued'
<1>0. /\ pc[t] = "sent" /\ UNCHANGED <<send_buffers_, requested, wire>> /\ Goto(t, "test")
      /\ pc["main"] \notin Starting
  BY Sends DEF Sent, SendLabels, Locked
<1>1. PICK from \in {sent.base, sending_size_} : sending_size_' = from + sent.len
  BY DEF Sent
<1>2. RequestSize \in Nat /\ sent.base \in 0 .. RequestSize /\ sent.len \in 0 .. RequestSize
  BY ClientAssumption DEF Queued
<1>3. from \in {sent.base, 0}
  BY <1>0 DEF Queued
<1>4. sending_size_' \in 0 .. RequestSize
  BY <1>1, <1>2, <1>3 DEF Queued
<1>5. /\ sent' \in [len : 0 .. RequestSize, base : 0 .. RequestSize]
      /\ sent'.base + sent'.len <= RequestSize /\ sent'.len = 0
  BY <1>2 DEF Sent
<1>6. pc'[t] = "test" /\ \A u \in Threads : u # t => pc'[u] = pc[u]
  BY <1>0, MovesTo
<1>7. \A u \in Threads : u # t => pc[u] \notin Locked
  BY <1>0 DEF Control, Locked
<1>8. \A u \in Threads : pc'[u] \in {"sent", "test"} => u = t
  BY <1>6, <1>7 DEF Locked
<1>9. send_buffers_ # <<>>
  BY <1>0 DEF Queued
<1>10. pc'["main"] \notin Starting
  BY <1>0, <1>6 DEF Threads, Starting
<1> QED BY <1>0, <1>4, <1>5, <1>6, <1>8, <1>9, <1>10 DEF Queued

(* Without the first request. *)
LEMMA Shorter ==
  ASSUME Queued, send_buffers_ # <<>>
  PROVE  /\ Tail(send_buffers_) \in Seq(Nat)
         /\ Len(send_buffers_) \in Nat \ {0}
         /\ Len(Tail(send_buffers_)) = Len(send_buffers_) - 1
         /\ \A i \in 1 .. Len(send_buffers_) - 1 :
              Tail(send_buffers_)[i] = requested - (Len(send_buffers_) - 1) + i
<1>1. /\ Tail(send_buffers_) \in Seq(Nat)
      /\ Len(send_buffers_) \in Nat \ {0}
      /\ Len(Tail(send_buffers_)) = Len(send_buffers_) - 1
      /\ \A i \in 1 .. Len(send_buffers_) - 1 : Tail(send_buffers_)[i] = send_buffers_[i + 1]
  BY HeadTailProperties, LenProperties, EmptySeq DEF Queued
<1>2. ASSUME NEW i \in 1 .. Len(send_buffers_) - 1
      PROVE  send_buffers_[i + 1] = requested - (Len(send_buffers_) - 1) + i
  <2>1. i + 1 \in 1 .. Len(send_buffers_)
    BY <1>1
  <2>2. send_buffers_[i + 1] = requested - Len(send_buffers_) + (i + 1) /\ requested \in Nat
    BY <2>1 DEF Queued
  <2> QED BY <1>1, <2>2
<1> QED BY <1>1, <1>2

LEMMA QueuedPop ==
  ASSUME Control, Lifetime, Queued, NEW t \in Threads, Pop(t)
  PROVE  Queued'
<1>0. /\ pc[t] = "test" /\ UNCHANGED <<sent, requested, wire>> /\ Goto(t, "sending")
      /\ pc["main"] \notin Starting
  BY Sends DEF Pop, SendLabels, Locked
<1>1. CASE sending_size_ < RequestSize
  <2>1. UNCHANGED queue
    BY <1>0, <1>1 DEF Pop, queue
  <2>2. "sending" \notin Starting
    BY DEF Starting
  <2> QED BY <1>0, <2>1, <2>2, QueuedKept
<1>2. CASE ~(sending_size_ < RequestSize)
  <2>1. send_buffers_' = Tail(send_buffers_) /\ sending_size_' = 0
    BY <1>2 DEF Pop
  <2>2. send_buffers_ # <<>>
    BY <1>0 DEF Queued
  <2>3. /\ send_buffers_' \in Seq(Nat) /\ Len(send_buffers_') <= requested'
        /\ \A i \in 1 .. Len(send_buffers_') : send_buffers_'[i] = requested' - Len(send_buffers_') + i
    BY <1>0, <2>1, <2>2, Shorter DEF Queued
  <2>4. sending_size_' \in 0 .. RequestSize
    BY <2>1, ClientAssumption
  <2>5. pc'[t] = "sending" /\ \A u \in Threads : u # t => pc'[u] = pc[u]
    BY <1>0, MovesTo
  <2>6. \A u \in Threads : u # t => pc[u] \notin Locked
    BY <1>0 DEF Control, Locked
  <2>7. \A u \in Threads : pc'[u] \notin {"sent", "test"}
    BY <2>5, <2>6 DEF Locked
  <2>8. sent.len = 0
    BY <1>0, <2>6 DEF Queued, Locked
  <2>9. pc'["main"] \notin Starting
    BY <1>0, <2>5 DEF Threads, Starting
  <2> QED BY <1>0, <2>3, <2>4, <2>7, <2>8, <2>9 DEF Queued
<1> QED BY <1>1, <1>2

LEMMA QueuedSend ==
  ASSUME Control, Members, Lifetime, Queued, NEW t \in Threads, SendPacket(t)
  PROVE  Queued'
<1>1. CASE Lock(t)
  <2>1. "sending" \notin Starting
    BY DEF Starting
  <2> QED BY <1>1, <2>1, QueuedKept DEF Lock, queue
<1> QED BY <1>1, QueuedPush, QueuedTry, QueuedSent, QueuedPop DEF SendPacket

(* Close clears sending_size_, whatever the other thread is doing. *)
LEMMA QueuedClear ==
  ASSUME Control, Lifetime, Queued, NEW t \in Threads, ClearSize(t)
  PROVE  Queued'
<1>0. /\ pc[t] = "clear" /\ UNCHANGED <<send_buffers_, sent, requested, wire>> /\ Goto(t, "check")
      /\ sending_size_' = 0
  BY DEF ClearSize
<1>1. pc'[t] = "check" /\ \A u \in Threads : u # t => pc'[u] = pc[u]
  BY <1>0, MovesTo
<1>2. pc'["main"] \in Starting => pc["main"] \in Starting
  BY <1>1 DEF Threads, Starting
<1>3. \A u \in Threads : /\ pc'[u] \in {"sent", "test"} => pc[u] \in {"sent", "test"}
                         /\ pc'[u] = "sent" <=> pc[u] = "sent"
  BY <1>0, <1>1
<1>4. 0 \in 0 .. RequestSize
  BY ClientAssumption
<1> QED BY <1>0, <1>2, <1>3, <1>4 DEF Queued

LEMMA QueuedClose ==
  ASSUME Control, Lifetime, Queued, NEW t \in Threads, CloseSession(t)
  PROVE  Queued'
<1> DEFINE Plain == {"clear", "closesocket", "invalidate", "return", "dispatch"}
<1>1. CASE RequestUnregisterSocket(t) \/ CheckHandle(t) \/ CloseSocket(t) \/ Invalidate(t)
  <2>1. UNCHANGED queue /\ pc[t] # "sent"
    BY <1>1 DEF RequestUnregisterSocket, CheckHandle, CloseSocket, Invalidate, sending, queue
  <2>2. \E l \in Plain : Goto(t, l) \/ UNCHANGED pc
    BY <1>1, After DEF RequestUnregisterSocket, CheckHandle, CloseSocket, Invalidate, Dies, Threads
  <2>3. \A l \in Plain : l \notin Starting /\ l \notin {"sent", "test"}
    BY DEF Starting
  <2> QED BY <2>1, <2>2, <2>3, QueuedKept
<1> QED BY <1>1, QueuedClear DEF CloseSession

LEMMA QueuedMain ==
  ASSUME Control, Queued, StepsOfMain
  PROVE  Queued'
<1> DEFINE Plain == {"create", "register", "connect", "push", "close", "return", "stop", "exit",
                     "wake", "join", "exited"}
<1>1. UNCHANGED queue /\ pc["main"] # "sent"
  BY DEF StepsOfMain, Construct, Create, RequestRegisterSocket, Connect, Pause, Return, Destroy,
         Close, Exit, sending, queue
<1>2. \E l \in Plain : Goto("main", l) /\ (l \in Starting => pc["main"] \in Starting)
  <2>1. Starting = {"construct", "create", "register"}
    BY DEF Starting
  <2>2. CASE Construct \/ Create
    BY <2>1, <2>2 DEF Construct, Create
  <2>3. CASE RequestRegisterSocket \/ Connect \/ Pause \/ Return \/ Exit \/ Destroy
    BY <2>1, <2>3 DEF RequestRegisterSocket, Connect, Pause, Return, Destroy, Close, Exit
  <2> QED BY <2>2, <2>3 DEF StepsOfMain
<1>3. "main" \in Threads /\ \A l \in Plain : l \notin {"sent", "test"}
  BY DEF Threads
<1> QED BY <1>1, <1>2, <1>3, QueuedKept

(* Where the I/O thread goes when it neither sends nor closes. *)
IoGoes == {"run", "wait", "reset", "request", "register", "unregister", "scan", "event", "enum",
           "release", "dispatch", "read", "cut", "packet", "clear packet", "ended", "push",
           "lock", "close"}

LEMMA IoMoves ==
  ASSUME Members, StepsOfRun \/ StepsOfRead
  PROVE  /\ \E l \in IoGoes : Goto("io", l) \/ UNCHANGED pc
         /\ pc["io"] \in IoGoes \ {"push", "lock", "close"}
<1>1. CASE Loop
  BY <1>1 DEF IoGoes, Loop, RunTest, Wait, ResetNotify, Scan, Dies
<1>2. CASE TakeRequest
  <2>1. requests_ # <<>> => Head(requests_) \in {"register", "unregister"}
    BY HeadTailProperties DEF Members
  <2> QED BY <1>2, <2>1 DEF IoGoes, TakeRequest, OnRequest
<1>3. CASE TakeEvent
  BY <1>3 DEF IoGoes, TakeEvent, OnSocketEvent, Dies
<1>4. CASE Registration \/ Unregistration
  BY <1>4 DEF IoGoes, Registration, OnRegisterSocket, Unregistration, OnUnregisterSocket
<1>5. CASE EnumNetworkEvents \/ Dispatch \/ Release
  BY <1>5 DEF IoGoes, EnumNetworkEvents, Dispatch, Release, Dies
<1>6. CASE StepsOfRead
  BY <1>6 DEF IoGoes, StepsOfRead, Recv, RecvData, Cut, OnPacket, ClearPacket, Dies
<1> QED BY <1>1, <1>2, <1>3, <1>4, <1>5, <1>6 DEF StepsOfRun

(* Nor does it touch the send list then. *)
LEMMA IoLeavesList ==
  ASSUME StepsOfRun \/ StepsOfRead
  PROVE  UNCHANGED sending
BY DEF StepsOfRun, StepsOfRead, Loop, TakeRequest, TakeEvent, Registration, Unregistration,
       EnumNetworkEvents, Dispatch, Release, Recv, Cut, OnPacket, ClearPacket, Untouched

LEMMA QueuedStep ==
  ASSUME Control, Members, Lifetime, Queued, [Next]_vars
  PROVE  Queued'
<1>1. CASE UNCHANGED vars \/ Kernel \/ Breaks
  <2>1. UNCHANGED <<pc, queue>>
    BY <1>1 DEF vars, Kernel, Breaks, ConnectCompletes, Exchange, Record, Local, sending, queue
  <2> QED BY <2>1 DEF Queued, queue
<1>2. CASE StepsOfRun \/ StepsOfRead
  <2>1. UNCHANGED queue
    BY <1>2, IoLeavesList DEF sending, queue
  <2>2. "io" \in Threads /\ "io" # "main" /\ IoGoes \cap {"sent", "test"} = {}
    BY DEF Threads, IoGoes
  <2> QED BY <1>2, <2>1, <2>2, IoMoves, QueuedKept
<1> QED BY <1>1, <1>2, QueuedMain, QueuedSend, QueuedClose, Steps

LEMMA QueuedInit == Init => Queued
<1> SUFFICES ASSUME Init PROVE Queued
  OBVIOUS
<1>1. /\ Len(<<>>) = 0 /\ <<>> \in Seq(Nat)
      /\ RequestSize \in Nat
  BY EmptySeq, ClientAssumption
<1>2. \A t \in Threads : pc[t] \notin {"sent", "test"}
  BY DEF Init, Threads
<1> QED BY <1>1, <1>2 DEF Init, Queued

-----------------------------------------------------------------------------
(* The wire. *)

(* A step that leaves list and wire alone, of a thread that is not about   *)
(* to close the socket.                                                    *)
LEMMA WireKept ==
  ASSUME Control, WireAccounts, NEW t \in Threads, NEW l, Goto(t, l) \/ UNCHANGED pc,
         l # "sent", UNCHANGED queue,
         kernel'.open => kernel.open /\ pc[t] \notin {"check", "closesocket"}
  PROVE  WireAccounts'
<1>1. \A u \in Threads : u # t => pc'[u] = pc[u]
  BY MovesTo
<1>2. \A u \in Threads : pc'[u] = "sent" => pc[u] = "sent"
  BY <1>1, MovesTo
<1>3. Undisturbed' => Undisturbed
  BY <1>1 DEF Undisturbed
<1> QED BY <1>2, <1>3 DEF WireAccounts, queue

LEMMA WirePush ==
  ASSUME Control, Queued, WireAccounts, NEW t \in Threads, Push(t)
  PROVE  WireAccounts'
<1>1. /\ requested' = requested + 1 /\ send_buffers_' = Append(send_buffers_, requested + 1)
      /\ UNCHANGED <<sending_size_, sent, wire, kernel>> /\ Goto(t, "lock") /\ pc[t] = "push"
  BY DEF Push
<1>2. requested \in Nat /\ Len(send_buffers_) \in Nat /\ RequestSize \in Nat
  BY LenProperties, ClientAssumption DEF Queued
<1>3. Len(send_buffers_') = Len(send_buffers_) + 1
  BY <1>1, <1>2, AppendProperties DEF Queued
<1>4. requested' - Len(send_buffers_') = requested - Len(send_buffers_)
  BY <1>1, <1>2, <1>3
<1>5. 1 .. requested * RequestSize \subseteq 1 .. requested' * RequestSize
  <2>1. (requested + 1) * RequestSize = requested * RequestSize + RequestSize
        /\ requested * RequestSize \in Nat
    BY <1>2
  <2> QED BY <1>1, <1>2, <2>1
<1>6. \A u \in Threads : pc'[u] = "sent" => pc[u] = "sent"
  BY <1>1, MovesTo
<1>7. Undisturbed' => Undisturbed
  BY <1>1, MovesTo DEF Undisturbed
<1> QED BY <1>1, <1>4, <1>5, <1>6, <1>7 DEF WireAccounts

LEMMA WireTry ==
  ASSUME Control, Members, Queued, WireAccounts, NEW t \in Threads, TrySendPacket(t)
  PROVE  WireAccounts'
<1>0. /\ pc[t] = "sending" /\ UNCHANGED <<send_buffers_, sending_size_, requested>>
      /\ kernel'.open = kernel.open
  BY DEF TrySendPacket, Members, KernelType
<1>1. ASSUME Goto(t, AfterSend(t)) \/ UNCHANGED pc, UNCHANGED <<sent, wire>>
      PROVE  WireAccounts'
  <2>1. AfterSend(t) # "sent"
    BY After DEF Threads
  <2> QED BY <1>0, <1>1, <2>1, WireKept DEF queue
<1>2. ASSUME send_buffers_ # <<>>, Goto(t, "sent"),
             NEW n \in 1 .. Least(Room, RequestSize - sending_size_),
             sent' = [len |-> n, base |-> sending_size_],
             wire' = wire \o [i \in 1 .. n |->
                       (Head(send_buffers_) - 1) * RequestSize + sending_size_ + i]
      PROVE  WireAccounts'
  <2> DEFINE h == Head(send_buffers_)
             m == Len(wire)
  <2>1. /\ wire' \in Seq(Nat) /\ Len(wire') = m + n
        /\ h = requested - Len(send_buffers_) + 1
        /\ \A i \in 1 .. m : wire'[i] = wire[i]
        /\ \A i \in 1 .. n : /\ wire'[m + i] = (h - 1) * RequestSize + sending_size_ + i
                             /\ wire'[m + i] \in 1 .. requested * RequestSize
    BY <1>0, <1>2, SendsPiece
  <2>2. /\ m \in Nat /\ n \in Nat /\ sending_size_ \in Nat /\ RequestSize \in Nat
        /\ requested \in Nat /\ Len(send_buffers_) \in Nat
    BY <1>2, Takes, LenProperties, ClientAssumption DEF Queued
  <2> HIDE DEF h, m
  <2>3. \A i \in 1 .. m + n : i \in 1 .. m \/ (i - m \in 1 .. n /\ i = m + (i - m))
    BY <2>2
  <2>4. \A i \in 1 .. Len(wire') : wire'[i] \in 1 .. requested' * RequestSize
    <3>1. \A i \in 1 .. m : wire[i] \in 1 .. requested * RequestSize
      BY DEF WireAccounts, m
    <3> QED BY <1>0, <2>1, <2>3, <3>1
  <2>5. pc'[t] = "sent" /\ \A u \in Threads : u # t => pc'[u] = pc[u]
    BY <1>2, MovesTo
  <2>6. \A u \in Threads : u # t => pc[u] # "sent"
    BY <1>0 DEF Control, Locked
  <2>7. ASSUME Undisturbed'
        PROVE  /\ \A i \in 1 .. Len(wire') : wire'[i] = i
               /\ Len(wire') = (requested' - Len(send_buffers_')) * RequestSize
                                 + sending_size_' + sent'.len
               /\ \A u \in Threads : pc'[u] = "sent" => sending_size_' = sent'.base
    <3>1. Undisturbed
      BY <1>0, <2>5, <2>7 DEF Undisturbed
    <3>2. sent.len = 0
      BY <1>0, <2>6 DEF Queued
    <3>3. m = (h - 1) * RequestSize + sending_size_ /\ \A i \in 1 .. m : wire[i] = i
      <4>1. h - 1 = requested - Len(send_buffers_)
        BY <2>1, <2>2
      <4>2. /\ m = (requested - Len(send_buffers_)) * RequestSize + sending_size_ + sent.len
            /\ \A i \in 1 .. m : wire[i] = i
        BY <3>1 DEF WireAccounts, m
      <4>3. (h - 1) * RequestSize \in Int
        BY <2>2, <4>1
      <4> QED BY <2>2, <3>2, <4>1, <4>2, <4>3
    <3>4. \A i \in 1 .. n : wire'[m + i] = m + i
      BY <2>1, <3>3
    <3>5. \A i \in 1 .. m + n : wire'[i] = i
      <4> TAKE i \in 1 .. m + n
      <4>1. CASE i \in 1 .. m
        BY <2>1, <3>3, <4>1
      <4>2. CASE i - m \in 1 .. n /\ i = m + (i - m)
        <5>1. wire'[m + (i - m)] = m + (i - m)
          BY <3>4, <4>2
        <5> QED BY <4>2, <5>1
      <4> QED BY <2>3, <4>1, <4>2
    <3>6. sent'.len = n /\ sent'.base = sending_size_
      BY <1>2
    <3>7. m + n = (requested - Len(send_buffers_)) * RequestSize + sending_size_ + n
      <4>1. h - 1 = requested - Len(send_buffers_)
        BY <2>1, <2>2
      <4>2. m = (requested - Len(send_buffers_)) * RequestSize + sending_size_
        BY <3>3, <4>1
      <4> QED BY <4>2
    <3> QED BY <1>0, <2>1, <2>5, <2>6, <3>5, <3>6, <3>7
  <2> QED BY <2>4, <2>7 DEF WireAccounts
<1> QED BY <1>0, <1>1, <1>2 DEF TrySendPacket, Dies

LEMMA WireSent ==
  ASSUME Control, Queued, WireAccounts, NEW t \in Threads, Sent(t)
  PROVE  WireAccounts'
<1>0. /\ pc[t] = "sent" /\ UNCHANGED <<send_buffers_, requested, wire, kernel>> /\ Goto(t, "test")
      /\ sent' = [len |-> 0, base |-> 0]
  BY DEF Sent
<1>1. PICK from \in {sent.base, sending_size_} : sending_size_' = from + sent.len
  BY DEF Sent
<1>2. pc'[t] = "test" /\ \A u \in Threads : u # t => pc'[u] = pc[u]
  BY <1>0, MovesTo
<1>3. \A u \in Threads : pc'[u] # "sent"
  BY <1>0, <1>2 DEF Control, Locked
<1>4. ASSUME Undisturbed'
      PROVE  /\ \A i \in 1 .. Len(wire) : wire[i] = i
             /\ Len(wire) = (requested - Len(send_buffers_)) * RequestSize
                               + sending_size_' + sent'.len
  <2>1. Undisturbed
    BY <1>0, <1>2, <1>4 DEF Undisturbed
  <2>2. sending_size_' = sending_size_ + sent.len
    BY <1>0, <1>1, <2>1 DEF WireAccounts
  <2>3. sent'.len = 0
    BY <1>0
  <2>4. sending_size_ \in Nat /\ sent.len \in Nat /\ requested \in Nat /\ Len(send_buffers_) \in Nat
        /\ RequestSize \in Nat
    BY LenProperties, ClientAssumption DEF Queued
  <2>5. (requested - Len(send_buffers_)) * RequestSize \in Int
    BY <2>4
  <2>6. \A a \in Int, b, c \in Nat : a + b + c = a + (b + c) + 0
    OBVIOUS
  <2>7. Len(wire) = (requested - Len(send_buffers_)) * RequestSize + sending_size_ + sent.len
        /\ \A i \in 1 .. Len(wire) : wire[i] = i
    BY <2>1 DEF WireAccounts
  <2> QED BY <2>2, <2>3, <2>4, <2>5, <2>6, <2>7
<1> QED BY <1>0, <1>3, <1>4 DEF WireAccounts

LEMMA WirePop ==
  ASSUME Control, Queued, WireAccounts, NEW t \in Threads, Pop(t)
  PROVE  WireAccounts'
<1>0. /\ pc[t] = "test" /\ UNCHANGED <<sent, requested, wire, kernel>> /\ Goto(t, "sending")
  BY DEF Pop
<1>1. CASE sending_size_ < RequestSize
  BY <1>0, <1>1, WireKept DEF Pop, queue
<1>2. CASE ~(sending_size_ < RequestSize)
  <2>1. send_buffers_' = Tail(send_buffers_) /\ sending_size_' = 0
    BY <1>2 DEF Pop
  <2>2. send_buffers_ # <<>>
    BY <1>0 DEF Queued
  <2>3. /\ Len(send_buffers_') = Len(send_buffers_) - 1 /\ Len(send_buffers_) \in Nat
        /\ requested \in Nat /\ RequestSize \in Nat /\ sending_size_ = RequestSize
        /\ sent.len \in Nat
    BY <1>2, <2>1, <2>2, Shorter, ClientAssumption DEF Queued
  <2>4. (requested - (Len(send_buffers_) - 1)) * RequestSize + 0
          = (requested - Len(send_buffers_)) * RequestSize + RequestSize
    BY <2>3
  <2>5. \A u \in Threads : u # t => pc'[u] = pc[u]
    BY <1>0, MovesTo
  <2>6. pc'[t] = "sending"
    BY <1>0, MovesTo
  <2>7. \A u \in Threads : pc'[u] # "sent"
    BY <1>0, <2>5, <2>6 DEF Control, Locked
  <2>8. Undisturbed' => Undisturbed
    BY <1>0, <2>5 DEF Undisturbed
  <2> QED BY <1>0, <2>1, <2>3, <2>4, <2>7, <2>8 DEF WireAccounts
<1> QED BY <1>1, <1>2

LEMMA WireSend ==
  ASSUME Control, Members, Queued, WireAccounts, NEW t \in Threads, SendPacket(t)
  PROVE  WireAccounts'
<1>1. CASE Lock(t)
  BY <1>1, WireKept DEF Lock, queue
<1> QED BY <1>1, WirePush, WireTry, WireSent, WirePop DEF SendPacket

(* Between clearing sending_size_ and closing the socket nothing is        *)
(* claimed, and afterwards there is no socket.                             *)
LEMMA WireClose ==
  ASSUME Control, Members, Lifetime, WireAccounts, NEW t \in Threads, CloseSession(t)
  PROVE  WireAccounts'
<1>1. CASE RequestUnregisterSocket(t) \/ Invalidate(t)
  <2>1. /\ UNCHANGED <<queue, kernel>> /\ pc[t] \notin {"check", "closesocket"}
        /\ \E l \in {"clear", AfterClose(t)} : Goto(t, l)
    BY <1>1 DEF RequestUnregisterSocket, Invalidate, sending, queue
  <2>2. AfterClose(t) # "sent"
    BY After DEF Threads
  <2> QED BY <2>1, <2>2, WireKept
<1>2. CASE ClearSize(t)
  <2>1. pc'[t] = "check"
    BY <1>2, MovesTo DEF ClearSize
  <2>2. ~Undisturbed'
    BY <2>1 DEF Undisturbed
  <2> QED BY <1>2, <2>2 DEF ClearSize, WireAccounts
<1>3. CASE CheckHandle(t)
  <2>1. UNCHANGED queue
    BY <1>3 DEF CheckHandle, sending, queue
  <2>2. CASE handle_ # InvalidSocket
    <3>1. pc'[t] = "closesocket"
      BY <1>3, <2>2, MovesTo DEF CheckHandle
    <3>2. ~Undisturbed'
      BY <3>1 DEF Undisturbed
    <3> QED BY <2>1, <3>2 DEF WireAccounts, queue
  <2>3. CASE handle_ = InvalidSocket
    <3>1. ~kernel'.open
      BY <1>3, <2>3 DEF CheckHandle, Lifetime, Socket, InvalidSocket
    <3> QED BY <2>1, <3>1 DEF WireAccounts, Undisturbed, queue
  <2> QED BY <2>2, <2>3
<1>4. CASE CloseSocket(t)
  <2>1. ~kernel'.open
    BY <1>4 DEF CloseSocket, CloseFails, Lifetime, Members, KernelType, Socket, InvalidSocket
  <2>2. UNCHANGED queue
    BY <1>4 DEF CloseSocket, sending, queue
  <2> QED BY <2>1, <2>2 DEF WireAccounts, Undisturbed, queue
<1> QED BY <1>1, <1>2, <1>3, <1>4 DEF CloseSession

LEMMA WireMain ==
  ASSUME Control, Members, Lifetime, Queued, WireAccounts, StepsOfMain
  PROVE  WireAccounts'
<1>1. CASE Create
  <2>1. pc["main"] \in Starting /\ UNCHANGED queue
    BY <1>1 DEF Create, Starting, sending, queue
  <2>2. requested = 0 /\ sending_size_ = 0
    BY <2>1 DEF Queued
  <2>3. \A u \in Threads : pc[u] # "sent"
    <3>1. pc["io"] # "sent" /\ pc["main"] # "sent"
      BY <1>1, <2>1 DEF Create, Lifetime
    <3> QED BY <3>1 DEF Threads
  <2>4. sent.len = 0
    BY <2>3 DEF Queued
  <2>5. Len(wire) = 0
    <3>1. RequestSize \in Nat /\ Len(wire) \in Nat
      BY ClientAssumption, LenProperties DEF Queued
    <3>2. 1 .. requested * RequestSize = {}
      BY <2>2, <3>1
    <3>3. 1 \notin 1 .. Len(wire)
      BY <3>2 DEF WireAccounts
    <3> QED BY <3>1, <3>3
  <2>6. Len(send_buffers_) = 0
    BY <2>2, LenProperties DEF Queued
  <2>7. 0 = (0 - 0) * RequestSize + 0 + 0
    BY ClientAssumption
  <2>8. \A u \in Threads : pc'[u] # "sent"
    BY <1>1, <2>3, MovesTo DEF Create, Threads
  <2> QED BY <2>1, <2>2, <2>4, <2>5, <2>6, <2>7, <2>8 DEF WireAccounts, queue
<1>2. CASE ~Create
  <2>1. UNCHANGED queue
    BY DEF StepsOfMain, Construct, Create, RequestRegisterSocket, Connect, Pause, Return, Destroy,
           Close, Exit, sending, queue
  <2>2. kernel'.open = kernel.open
    BY <1>2 DEF StepsOfMain, Construct, RequestRegisterSocket, Connect, Pause, Return, Destroy,
           Close, Exit, Members, KernelType
  <2>3. \E l \in {"create", "connect", "push", "return", "close", "stop", "exit", "wake", "join",
                  "exited"} : Goto("main", l)
    BY <1>2 DEF StepsOfMain, Construct, RequestRegisterSocket, Connect, Pause, Return, Destroy,
           Close, Exit
  <2>4. pc["main"] \notin {"check", "closesocket"}
    BY <1>2 DEF StepsOfMain, Construct, RequestRegisterSocket, Connect, Pause, Return, Destroy,
           Close, Exit
  <2> QED BY <2>1, <2>2, <2>3, <2>4, WireKept DEF Threads
<1> QED BY <1>1, <1>2

LEMMA OpenStays ==
  ASSUME Members, StepsOfRun \/ StepsOfRead \/ Kernel \/ Breaks
  PROVE  kernel'.open = kernel.open
<1>1. CASE StepsOfRun
  BY <1>1 DEF StepsOfRun, Loop, TakeRequest, TakeEvent, Registration, Unregistration,
       EnumNetworkEvents, Dispatch, Release, Untouched, Members, KernelType
<1>2. CASE StepsOfRead
  BY <1>2 DEF StepsOfRead, Recv, Cut, OnPacket, ClearPacket, Members, KernelType
<1>3. CASE Kernel \/ Breaks
  BY <1>3 DEF Kernel, Breaks, ConnectCompletes, Exchange, Record, Members, KernelType
<1> QED BY <1>1, <1>2, <1>3

LEMMA WireStep ==
  ASSUME Control, Members, Lifetime, Queued, WireAccounts, [Next]_vars
  PROVE  WireAccounts'
<1>1. CASE UNCHANGED vars \/ Kernel \/ Breaks
  <2>1. UNCHANGED <<pc, queue>>
    BY <1>1 DEF vars, Kernel, Breaks, ConnectCompletes, Exchange, Record, Local, sending, queue
  <2>2. kernel'.open = kernel.open
    BY <1>1, OpenStays DEF vars
  <2>3. Undisturbed' => Undisturbed
    BY <2>1, <2>2 DEF Undisturbed
  <2> QED BY <2>1, <2>3 DEF WireAccounts, queue
<1>2. CASE StepsOfRun \/ StepsOfRead
  <2>1. UNCHANGED queue
    BY <1>2, IoLeavesList DEF sending, queue
  <2>2. "io" \in Threads /\ "sent" \notin IoGoes /\ IoGoes \cap {"check", "closesocket"} = {}
    BY DEF Threads, IoGoes
  <2> QED BY <1>2, <2>1, <2>2, IoMoves, OpenStays, WireKept
<1> QED BY <1>1, <1>2, WireMain, WireSend, WireClose, Steps

LEMMA WireInit == Init => WireAccounts
<1> SUFFICES ASSUME Init PROVE WireAccounts
  OBVIOUS
<1>1. Len(wire) = 0 /\ ~kernel.open
  BY EmptySeq DEF Init
<1> QED BY <1>1 DEF WireAccounts, Undisturbed

-----------------------------------------------------------------------------
(* What is received. *)
LEMMA Sizes ==
  /\ kPacketLengthSize \in Nat \ {0}
  /\ ResultSize \in Nat
  /\ DataSize \in Nat \ {0}
  /\ kPacketLengthSize + DataSize = ResultSize
  /\ ResultSize < UINT32 /\ UINT32 \in Nat \ {0, 1}
BY PacketAssumption, ClientAssumption, UINT32Type DEF DataSize

(* The i-th byte of result j. *)
LEMMA ByteOfResult ==
  ASSUME NEW j \in Nat \ {0}, NEW i \in 1 .. ResultSize
  PROVE  /\ ResultByte((j - 1) * ResultSize + i).pos = (j - 1) * ResultSize + i
         /\ i <= kPacketLengthSize =>
              ResultByte((j - 1) * ResultSize + i).value = (DataSize \div Weight[i - 1]) % Base
<1> DEFINE p == (j - 1) * ResultSize + i
<1>1. i - 1 \in 0 .. ResultSize - 1 /\ j - 1 \in Nat /\ ResultSize \in Nat \ {0}
  BY Sizes
<1>2. (j - 1) * ResultSize \in Nat
  BY <1>1
<1>3. p - 1 = (j - 1) * ResultSize + (i - 1) /\ p - 1 \in Nat
  BY <1>1, <1>2
<1>4. (p - 1) % ResultSize = i - 1
  BY <1>1, <1>3, RemainderUnique
<1> HIDE DEF p
<1>5. i <= kPacketLengthSize => i - 1 < kPacketLengthSize
  BY Sizes
<1>6. ResultByte(p).pos = p
  BY DEF ResultByte
<1>7. i <= kPacketLengthSize => ResultByte(p).value = (DataSize \div Weight[i - 1]) % Base
  BY <1>4, <1>5 DEF ResultByte, DataSize
<1> QED BY <1>6, <1>7 DEF p

LEMMA ResultByteType ==
  ASSUME NEW p \in Nat \ {0}
  PROVE  ResultByte(p) \in Byte
<1> DEFINE i == (p - 1) % ResultSize
           d == (DataSize \div Weight[i]) % Base
<1>1. Base \in Nat \ {0, 1}
  BY PacketAssumption
<1>2. p - 1 \in Nat /\ ResultSize \in Nat \ {0} /\ DataSize \in Nat
  BY Sizes
<1>3. i \in Nat
  BY <1>2, Division
<1>4. i < kPacketLengthSize => d \in 0 .. Base - 1
  <2> SUFFICES ASSUME i < kPacketLengthSize PROVE d \in 0 .. Base - 1
    OBVIOUS
  <2>1. i \in 0 .. kPacketLengthSize
    BY <1>3, Sizes
  <2> HIDE DEF i
  <2>2. Weight[i] \in Nat \ {0}
    BY <2>1, Weights
  <2>3. DataSize \div Weight[i] \in Nat
    BY <1>2, <2>2, Division
  <2> QED BY <1>1, <2>3, Division
<1>5. 1 \in 0 .. Base - 1
  BY <1>1
<1>6. ResultByte(p) = [pos |-> p, value |-> IF i < kPacketLengthSize THEN d ELSE 1]
  BY DEF ResultByte, DataSize
<1> HIDE DEF i, d
<1> QED BY <1>4, <1>5, <1>6 DEF Byte

(* IsComplete tells a whole result from less. *)
LEMMA WholeResult ==
  ASSUME NEW r \in ReceiverState, r.offset_ <= ResultSize,
         r.length_ = IF r.offset_ >= kPacketLengthSize THEN DataSize ELSE 0
  PROVE  IsComplete(r) <=> r.offset_ = ResultSize
<1>1. r.offset_ \in Nat
  BY Sizes DEF ReceiverState
<1>2. ResultSize \in 0 .. UINT32 - 1 /\ kPacketLengthSize \in 0 .. UINT32 - 1
  BY Sizes
<1>3. ResultSize % UINT32 = ResultSize /\ kPacketLengthSize % UINT32 = kPacketLengthSize
  BY <1>2, Sizes, SmallRemainder
<1>4. CASE r.offset_ >= kPacketLengthSize
  <2>1. r.length_ + kPacketLengthSize = ResultSize
    BY <1>4, Sizes
  <2> QED BY <1>3, <2>1 DEF IsComplete
<1>5. CASE ~(r.offset_ >= kPacketLengthSize)
  <2>1. r.length_ + kPacketLengthSize = kPacketLengthSize
    BY <1>5, Sizes
  <2>2. r.offset_ # kPacketLengthSize /\ r.offset_ # ResultSize
    BY <1>1, <1>5, Sizes
  <2> QED BY <1>3, <2>1, <2>2 DEF IsComplete
<1> QED BY <1>4, <1>5

LEMMA WholeIsComplete ==
  ASSUME HoldsResult
  PROVE  IsComplete(packet_receiver_) <=> packet_receiver_.offset_ = ResultSize
BY WholeResult DEF HoldsResult

(* Multiples of a positive number are in the order of their factors. *)
LEMMA Factors ==
  ASSUME NEW a \in Nat, NEW b \in Nat, NEW w \in Nat \ {0}
  PROVE  /\ a * w \in Nat
         /\ a <= b <=> a * w <= b * w
         /\ (a + 1) * w = a * w + w
<1>1. ASSUME a <= b PROVE a * w <= b * w
  <2>1. b - a \in Nat /\ (b - a) * w \in Nat /\ b * w = a * w + (b - a) * w
    BY <1>1
  <2> QED BY <2>1
<1>2. ASSUME ~(a <= b) PROVE ~(a * w <= b * w)
  <2>1. a - b - 1 \in Nat /\ (a - b - 1) * w \in Nat /\ a * w = b * w + (a - b - 1) * w + w
    BY <1>2
  <2> QED BY <2>1
<1> QED BY <1>1, <1>2

(* The results that have arrived are those of requests that were sent, and *)
(* with the one being received there is an answer to each of them.         *)
LEMMA WithinReceiving ==
  ASSUME Members, Received
  PROVE  /\ Before \in Nat /\ Receiving \in Nat \ {0}
         /\ packet_receiver_.offset_ \in Nat
         /\ arrived <= requested * ResultSize
         /\ ~IsComplete(packet_receiver_) \/ pc["io"] = "packet" =>
              /\ Receiving = Len(handled) + 1
              /\ arrived <= Before + ResultSize
         /\ IsComplete(packet_receiver_) => requested \in Nat \ {0}
<1>1. /\ Len(handled) \in Nat /\ requested \in Nat /\ server.answered \in Nat
      /\ server.answered <= requested
  BY LenProperties DEF Members, Received, Exchanged
<1>2. Receiving \in Nat \ {0}
  <2>1. Receiving \in {Len(handled), Len(handled) + 1} /\ Receiving >= 1
    BY DEF Received, HoldsResult, Receiving
  <2> QED BY <1>1, <2>1
<1>3. ResultSize \in Nat \ {0}
  BY Sizes
<1>4. Before \in Nat /\ Receiving * ResultSize = Before + ResultSize
  <2>1. Receiving - 1 \in Nat /\ (Receiving - 1) + 1 = Receiving
    BY <1>2
  <2> QED BY <1>3, <2>1, Factors DEF Before
<1>5. arrived <= requested * ResultSize /\ requested * ResultSize \in Nat /\ arrived \in Nat
  <2>1. arrived \in Nat /\ arrived <= server.answered * ResultSize
    BY DEF Received, Exchanged
  <2> QED BY <1>1, <1>3, <2>1, Factors
<1>6. packet_receiver_.offset_ \in Nat
  BY Sizes DEF Received, HoldsResult, ReceiverState
<1>7. ASSUME ~IsComplete(packet_receiver_) \/ pc["io"] = "packet"
      PROVE  Receiving = Len(handled) + 1 /\ arrived <= Before + ResultSize
  <2>1. Receiving = Len(handled) + 1
    BY <1>7 DEF Receiving
  <2>2. requested <= Receiving
    BY <2>1 DEF Received, Exchanged
  <2>3. requested * ResultSize <= Receiving * ResultSize
    BY <1>1, <1>2, <1>3, <2>2, Factors
  <2> QED BY <1>3, <1>4, <1>5, <2>1, <2>3
<1>8. ASSUME IsComplete(packet_receiver_) PROVE requested # 0
  <2>1. packet_receiver_.offset_ = ResultSize
    BY <1>8, WholeIsComplete DEF Received
  <2>2. read = Before + packet_receiver_.offset_ + Len(buffer) /\ Len(buffer) \in Nat
    BY LenProperties DEF Received, HoldsRest
  <2>3. read <= arrived
    BY DEF Received, Exchanged
  <2>4. requested = 0 => requested * ResultSize = 0
    BY <1>3
  <2> QED BY <1>3, <1>4, <1>5, <2>1, <2>2, <2>3, <2>4
<1> QED BY <1>1, <1>2, <1>4, <1>5, <1>6, <1>7, <1>8

(* A step that neither reads nor brings in anything, nor sends a request.  *)
LEMMA ReceivedKept ==
  ASSUME Received, UNCHANGED <<reading, requested, server, arrived>>,
         server.taken <= Len(wire'),
         pc'["io"] = "packet" <=> pc["io"] = "packet",
         pc["io"] = "cut" => pc'["io"] = "cut",
         IsComplete(packet_receiver_) => pc'["io"] \in {"packet", "clear packet"} \cup SendLabels,
         pc'["io"] \in {"packet", "push", "clear packet"} => IsComplete(packet_receiver_),
         pc'["io"] = "push" => pc["io"] = "push",
         pc'["main"] \in Starting \cup {"connect", "push"} =>
           pc["main"] \in Starting \cup {"connect", "push"}
  PROVE  Received'
<1>1. UNCHANGED <<packet_receiver_, buffer, remain_length, handled, read, Receiving, Before>>
  BY DEF reading, Receiving, Before
<1>2. HoldsResult'
  BY <1>1 DEF Received, HoldsResult
<1>3. HoldsRest'
  BY <1>1 DEF Received, HoldsRest
<1>4. Complete'
  BY <1>1 DEF Received, Complete
<1>6. Exchanged'
  BY <1>1 DEF Received, Exchanged
<1> QED BY <1>2, <1>3, <1>4, <1>6 DEF Received

LEMMA ReceivedMain ==
  ASSUME Control, Members, Queued, Received, StepsOfMain
  PROVE  Received'
<1>1. UNCHANGED <<reading, requested, wire, server, arrived>>
  BY DEF StepsOfMain, Construct, Create, RequestRegisterSocket, Connect, Pause, Return, Destroy,
         Exit, sending, remote
<1>2. PICK l \in MainLabels :
        /\ Goto("main", l)
        /\ l \in Starting \cup {"connect", "push"} =>
             pc["main"] \in Starting \cup {"connect", "push"}
  <2>1. Starting = {"construct", "create", "register"}
    BY DEF Starting
  <2>2. {"create", "register", "connect", "push", "return", "close", "stop", "exit", "wake", "join",
         "exited"} \subseteq MainLabels
    BY DEF MainLabels, OpenLabels, SendLabels, Starting, CloseLabels
  <2> QED BY <2>1, <2>2 DEF StepsOfMain, Construct, Create, RequestRegisterSocket, Connect, Pause,
             Return, Destroy, Close, Exit
<1>3. pc'["main"] = l /\ pc'["io"] = pc["io"]
  BY <1>2, MovesTo DEF Threads
<1>4. server.taken <= Len(wire')
  BY <1>1 DEF Received, Exchanged
<1> QED BY <1>1, <1>2, <1>3, <1>4, ReceivedKept DEF Received, Complete

(* The labels of the I/O thread outside of reading and sending. *)
RunLabels ==
  {"run", "wait", "reset", "request", "register", "unregister", "scan", "event", "enum",
   "release", "dispatch", "read", "lock", "ended"} \cup CloseLabels

LEMMA ReceivedRun ==
  ASSUME Control, Members, Queued, Received, NEW l \in RunLabels, Goto("io", l) \/ UNCHANGED pc,
         pc["io"] \in RunLabels \ {"lock"},
         UNCHANGED <<reading, requested, wire, server, arrived>>
  PROVE  Received'
<1>1. RunLabels \cap {"packet", "clear packet", "push", "cut"} = {}
      /\ (RunLabels \ {"lock"}) \cap SendLabels = {}
  BY DEF RunLabels, CloseLabels, SendLabels, Locked
<1>2. pc'["io"] \in RunLabels /\ pc'["main"] = pc["main"]
  BY MovesTo DEF Threads
<1>3. ~IsComplete(packet_receiver_)
  BY <1>1 DEF Received, Complete
<1>4. server.taken <= Len(wire')
  BY DEF Received, Exchanged
<1> QED BY <1>1, <1>2, <1>3, <1>4, ReceivedKept

LEMMA ReceivedIo ==
  ASSUME Control, Members, Queued, Received, StepsOfRun
  PROVE  Received'
<1>1. UNCHANGED <<reading, requested, wire, server, arrived>>
  BY DEF StepsOfRun, Loop, TakeRequest, TakeEvent, Registration, Unregistration, EnumNetworkEvents,
         Dispatch, Release, Untouched, sending, remote
<1>2. pc["io"] \in RunLabels \ {"lock"}
  BY DEF StepsOfRun, Loop, RunTest, Wait, ResetNotify, Scan, TakeRequest, OnRequest, TakeEvent,
         OnSocketEvent, Registration, OnRegisterSocket, Unregistration, OnUnregisterSocket,
         EnumNetworkEvents, Dispatch, Release, RunLabels
<1>3. \E l \in RunLabels : Goto("io", l) \/ UNCHANGED pc
  <2>1. requests_ # <<>> => Head(requests_) \in {"register", "unregister"}
    BY HeadTailProperties DEF Members
  <2> QED BY <2>1 DEF StepsOfRun, Loop, RunTest, Wait, ResetNotify, Scan, TakeRequest, OnRequest,
             TakeEvent, OnSocketEvent, Registration, OnRegisterSocket, Unregistration,
             OnUnregisterSocket, EnumNetworkEvents, Dispatch, Release, RunLabels, CloseLabels, Dies
<1> QED BY <1>1, <1>2, <1>3, ReceivedRun

LEMMA ReceivedClose ==
  ASSUME Control, Members, Queued, Received, NEW t \in Threads, CloseSession(t)
  PROVE  Received'
<1>1. UNCHANGED <<reading, requested, wire, server, arrived>>
  BY DEF CloseSession, RequestUnregisterSocket, ClearSize, CheckHandle, CloseSocket, Invalidate,
         sending, remote
<1>2. pc[t] \in CloseLabels
  BY DEF CloseSession, RequestUnregisterSocket, ClearSize, CheckHandle, CloseSocket, Invalidate,
         CloseLabels
<1>3. \E l \in {"clear", "check", "closesocket", "invalidate", AfterClose(t)} :
        Goto(t, l) \/ UNCHANGED pc
  BY DEF CloseSession, RequestUnregisterSocket, ClearSize, CheckHandle, CloseSocket, Invalidate,
         Dies
<1>4. CASE t = "io"
  <2>1. {"clear", "check", "closesocket", "invalidate", AfterClose(t)} \subseteq RunLabels
    BY <1>4, After DEF RunLabels, CloseLabels
  <2>2. pc["io"] \in RunLabels \ {"lock"}
    BY <1>2, <1>4 DEF RunLabels, CloseLabels
  <2> QED BY <1>1, <1>3, <1>4, <2>1, <2>2, ReceivedRun
<1>5. CASE t = "main"
  <2>1. AfterClose(t) = "return"
    BY <1>5, After
  <2>2. pc'["io"] = pc["io"]
    BY <1>3, <1>5, MovesTo DEF Threads
  <2>3. pc'["main"] \in {"clear", "check", "closesocket", "invalidate", "return"} \cup CloseLabels
    BY <1>2, <1>3, <1>5, <2>1, MovesTo
  <2>4. pc'["main"] \notin Starting \cup {"connect", "push"}
    BY <2>3 DEF Starting, CloseLabels
  <2>5. server.taken <= Len(wire')
    BY <1>1 DEF Received, Exchanged
  <2> QED BY <1>1, <2>2, <2>4, <2>5, ReceivedKept DEF Received, Complete
<1> QED BY <1>4, <1>5 DEF Threads

(* A request is sent first by main, when nothing has come, and then by the *)
(* I/O thread for a result that is not the last.                           *)
LEMMA ReceivedPush ==
  ASSUME Control, Members, Queued, Received, NEW t \in Threads, Push(t)
  PROVE  Received'
<1>1. /\ requested' = requested + 1 /\ UNCHANGED <<reading, wire, server, arrived>>
      /\ Goto(t, "lock") /\ pc[t] = "push"
  BY DEF Push, remote
<1>2. pc'[t] = "lock" /\ \A u \in Threads : u # t => pc'[u] = pc[u]
  BY <1>1, MovesTo
<1>3. requested \in Nat /\ Len(handled) \in Nat /\ Dialogue \in Nat \ {0}
  BY LenProperties, ClientAssumption DEF Received, Exchanged
<1>4. "lock" \in SendLabels /\ "lock" \notin Starting \cup {"connect", "push"}
  BY DEF SendLabels, Locked, Starting
<1>5. UNCHANGED <<packet_receiver_, buffer, remain_length, handled, read>>
  BY <1>1 DEF reading
<1>6. /\ requested' <= Dialogue /\ requested' <= Len(handled) + 1
      /\ pc'["io"] # "push"
      /\ pc'["main"] \notin Starting \cup {"connect", "push"}
  <2>1. CASE t = "main"
    <3>1. requested = 0
      BY <1>1, <2>1 DEF Received, Exchanged
    <3>2. pc["io"] # "push"
      BY <3>1, WithinReceiving DEF Received, Complete
    <3> QED BY <1>1, <1>2, <1>3, <1>4, <2>1, <3>1, <3>2 DEF Threads
  <2>2. CASE t = "io"
    <3>1. requested <= Len(handled) /\ Len(handled) < Dialogue
      BY <1>1, <2>2 DEF Received, Exchanged
    <3>2. requested # 0
      BY <1>1, <2>2, WithinReceiving DEF Received, Complete
    <3>3. pc["main"] \notin Starting \cup {"connect", "push"}
      BY <3>2 DEF Received, Exchanged
    <3> QED BY <1>1, <1>2, <1>3, <2>2, <3>1, <3>3 DEF Threads
  <2> QED BY <2>1, <2>2 DEF Threads
<1>7. Exchanged'
  <2>1. server.answered <= requested + 1
    BY <1>3 DEF Received, Exchanged, Members
  <2> QED BY <1>1, <1>3, <1>5, <1>6, <2>1 DEF Received, Exchanged
<1>8. pc'["io"] = "packet" <=> pc["io"] = "packet"
  BY <1>1, <1>2 DEF Threads
<1>9. UNCHANGED <<Receiving, Before>>
  BY <1>5, <1>8 DEF Receiving, Before
<1>10. HoldsResult'
  BY <1>5, <1>9 DEF Received, HoldsResult
<1>11. HoldsRest'
  <2>1. pc'["io"] # "cut" => pc["io"] # "cut"
    BY <1>1, <1>2 DEF Threads
  <2> QED BY <1>5, <1>9, <2>1 DEF Received, HoldsRest
<1>12. Complete'
  <2>1. CASE t = "io"
    BY <1>1, <1>2, <1>4, <1>5, <2>1 DEF Received, Complete
  <2>2. CASE t = "main"
    <3>1. pc'["io"] = pc["io"]
      BY <1>2, <2>2 DEF Threads
    <3> QED BY <1>5, <3>1 DEF Received, Complete
  <2> QED BY <2>1, <2>2 DEF Threads
<1> QED BY <1>7, <1>10, <1>11, <1>12 DEF Received

LEMMA ReceivedSend ==
  ASSUME Control, Members, Queued, Received, NEW t \in Threads, SendPacket(t)
  PROVE  Received'
<1>1. CASE Push(t)
  BY <1>1, ReceivedPush
<1>2. CASE Lock(t) \/ TrySendPacket(t) \/ Sent(t) \/ Pop(t)
  <2>1. UNCHANGED <<reading, requested, server, arrived>>
    BY <1>2 DEF Lock, TrySendPacket, Sent, Pop, remote
  <2>2. pc[t] \in SendLabels \ {"push"}
    BY <1>2 DEF Lock, TrySendPacket, Sent, Pop, SendLabels, Locked
  <2>3. \E l \in {"sending", "sent", "test", AfterSend(t)} : Goto(t, l) \/ UNCHANGED pc
    BY <1>2 DEF Lock, TrySendPacket, Sent, Pop, Dies
  <2>4. server.taken <= Len(wire')
    <3>1. CASE UNCHANGED wire
      BY <3>1 DEF Received, Exchanged
    <3>2. ASSUME NEW n \in 1 .. Least(Room, RequestSize - sending_size_),
                 pc[t] = "sending", send_buffers_ # <<>>,
                 wire' = wire \o [i \in 1 .. n |->
                           (Head(send_buffers_) - 1) * RequestSize + sending_size_ + i]
          PROVE  server.taken <= Len(wire')
      <4>1. Len(wire') = Len(wire) + n
        BY <3>2, SendsPiece
      <4>2. n \in Nat
        BY Takes, ClientAssumption
      <4>3. Len(wire) \in Nat /\ server.taken \in Nat /\ server.taken <= Len(wire)
        BY LenProperties DEF Members, Queued, Received, Exchanged
      <4> QED BY <4>1, <4>2, <4>3
    <3> QED BY <1>2, <3>1, <3>2 DEF Lock, TrySendPacket, Sent, Pop
  <2>5. CASE t = "io"
    <3>1. AfterSend(t) = IF IsComplete(packet_receiver_) THEN "clear packet" ELSE "dispatch"
      BY <2>5 DEF AfterSend
    <3>2. pc'["main"] = pc["main"]
      BY <2>3, <2>5, MovesTo DEF Threads
    <3>3. pc'["io"] \in {"sending", "sent", "test", AfterSend(t)} \cup (SendLabels \ {"push"})
      BY <2>2, <2>3, <2>5, MovesTo
    <3>4. pc["io"] \notin {"packet", "cut"}
      BY <2>2, <2>5 DEF SendLabels, Locked
    <3>5. CASE IsComplete(packet_receiver_)
      <4>1. pc'["io"] \in {"clear packet"} \cup (SendLabels \ {"push"})
        BY <3>1, <3>3, <3>5 DEF SendLabels, Locked
      <4>2. pc'["io"] \notin {"packet", "push"}
        BY <4>1 DEF SendLabels, Locked
      <4> QED BY <2>1, <2>4, <3>2, <3>4, <3>5, <4>1, <4>2, ReceivedKept
    <3>6. CASE ~IsComplete(packet_receiver_)
      <4>1. pc'["io"] \in {"dispatch"} \cup (SendLabels \ {"push"})
        BY <3>1, <3>3, <3>6 DEF SendLabels, Locked
      <4>2. pc'["io"] \notin {"packet", "push", "clear packet"}
        BY <4>1 DEF SendLabels, Locked
      <4> QED BY <2>1, <2>4, <3>2, <3>4, <3>6, <4>2, ReceivedKept
    <3> QED BY <3>5, <3>6
  <2>6. CASE t = "main"
    <3>1. AfterSend(t) = "pause"
      BY <2>6, After
    <3>2. pc'["io"] = pc["io"]
      BY <2>3, <2>6, MovesTo DEF Threads
    <3>3. pc'["main"] \in {"sending", "sent", "test", "pause"} \cup (SendLabels \ {"push"})
      BY <2>2, <2>3, <2>6, <3>1, MovesTo
    <3>4. pc'["main"] \notin Starting \cup {"connect", "push"}
      BY <3>3 DEF SendLabels, Locked, Starting
    <3> QED BY <2>1, <2>4, <3>2, <3>4, ReceivedKept DEF Received, Complete
  <2> QED BY <2>5, <2>6 DEF Threads
<1> QED BY <1>1, <1>2 DEF SendPacket

(* What the connection and the server bring about. *)
LEMMA ReceivedKernel ==
  ASSUME Control, Members, Queued, WireAccounts, Received, Kernel \/ Breaks
  PROVE  Received'
<1>1. UNCHANGED <<pc, packet_receiver_, buffer, remain_length, handled, read, requested, wire>>
  BY DEF Kernel, Breaks, ConnectCompletes, Exchange, Record, Local, sending, reading
<1>2. UNCHANGED <<Receiving, Before>>
  BY <1>1 DEF Receiving, Before
<1>3. HoldsResult' /\ HoldsRest' /\ Complete'
  BY <1>1, <1>2 DEF Received, HoldsResult, HoldsRest, Complete
<1>4. ASSUME server'.taken <= Len(wire), server'.answered <= requested,
             arrived' \in Nat, arrived' <= server'.answered * ResultSize, read <= arrived'
      PROVE  Exchanged'
  BY <1>1, <1>4 DEF Received, Exchanged
<1>5. /\ server.taken \in Nat /\ server.answered \in Nat /\ Len(wire) \in Nat
      /\ requested \in Nat /\ arrived \in Nat /\ read \in Nat
      /\ ResultSize \in Nat \ {0} /\ RequestSize \in Nat \ {0}
  BY LenProperties, Sizes, ClientAssumption DEF Members, Queued, Received, Exchanged
<1>6. /\ server.taken <= Len(wire) /\ server.answered <= requested
      /\ arrived <= server.answered * ResultSize /\ read <= arrived
  BY DEF Received, Exchanged
<1>7. ASSUME UNCHANGED <<server, arrived>> PROVE Exchanged'
  BY <1>1, <1>7 DEF Received, Exchanged
<1>8. ASSUME server.taken < Len(wire), server' = [server EXCEPT !.taken = @ + 1], UNCHANGED arrived
      PROVE  Exchanged'
  <2>1. server'.taken = server.taken + 1 /\ server'.answered = server.answered
    BY <1>8 DEF Members
  <2> QED BY <1>4, <1>5, <1>6, <1>8, <2>1
<1>9. ASSUME server.taken >= (server.answered + 1) * RequestSize,
             \A i \in 1 .. (server.answered + 1) * RequestSize : wire[i] = i,
             server' = [server EXCEPT !.answered = @ + 1], UNCHANGED arrived
      PROVE  Exchanged'
  <2> DEFINE p == (server.answered + 1) * RequestSize
  <2>1. server'.taken = server.taken /\ server'.answered = server.answered + 1
    BY <1>9 DEF Members
  <2>2. p \in Nat \ {0}
    <3>1. server.answered + 1 \in Nat /\ server.answered * RequestSize \in Nat
          /\ p = server.answered * RequestSize + RequestSize
      BY <1>5, Factors
    <3> QED BY <1>5, <3>1
  <2>3. p <= Len(wire)
    <3>1. p <= server.taken
      BY <1>5, <1>9, <2>2
    <3> HIDE DEF p
    <3> QED BY <1>5, <1>6, <2>2, <3>1
  <2>4. wire[p] = p
    BY <1>9, <2>2
  <2>5. wire[p] \in 1 .. requested * RequestSize
    <3> HIDE DEF p
    <3>1. p \in 1 .. Len(wire)
      BY <1>5, <2>2, <2>3
    <3> QED BY <3>1 DEF WireAccounts
  <2>6. p <= requested * RequestSize
    <3> HIDE DEF p
    <3> QED BY <2>4, <2>5
  <2>7. server.answered + 1 <= requested
    BY <1>5, <2>6, Factors
  <2>8. arrived <= (server.answered + 1) * ResultSize
    <3>1. /\ (server.answered + 1) * ResultSize = server.answered * ResultSize + ResultSize
          /\ server.answered * ResultSize \in Nat
      BY <1>5, Factors
    <3> QED BY <1>5, <1>6, <3>1
  <2> QED BY <1>4, <1>5, <1>6, <1>9, <2>1, <2>7, <2>8
<1>10. ASSUME arrived' \in arrived + 1 .. server.answered * ResultSize, UNCHANGED server
       PROVE  Exchanged'
  <2>1. server.answered * ResultSize \in Nat
    BY <1>5
  <2>2. arrived' \in Nat /\ arrived' <= server.answered * ResultSize /\ read <= arrived'
    BY <1>5, <1>6, <1>10, <2>1
  <2> QED BY <1>4, <1>6, <1>10, <2>2
<1>11. Exchanged'
  <2>1. CASE Breaks \/ ConnectCompletes \/ \E e \in NetworkEvents : Record(e)
    BY <1>7, <2>1 DEF Breaks, ConnectCompletes, Record, remote
  <2>2. CASE Exchange
    <3>1. CASE server.taken < Len(wire) /\ server' = [server EXCEPT !.taken = @ + 1] /\ UNCHANGED arrived
      BY <1>8, <3>1
    <3>2. CASE UNCHANGED server /\ arrived' \in arrived + 1 .. server.answered * ResultSize
      BY <1>10, <3>2
    <3> QED BY <1>9, <2>2, <3>1, <3>2 DEF Exchange
  <2> QED BY <2>1, <2>2 DEF Kernel
<1> QED BY <1>3, <1>11 DEF Received

(* recv goes on where read is, and takes no more than the result at hand.  *)
LEMMA ReceivedRecv ==
  ASSUME Control, Members, Queued, Received, Recv
  PROVE  Received'
<1>1. /\ pc["io"] = "read"
      /\ UNCHANGED <<packet_receiver_, handled, requested, wire, server, arrived>>
  BY DEF Recv, sending, remote
<1>2. ~IsComplete(packet_receiver_)
  BY <1>1 DEF Received, Complete, SendLabels, Locked
<1>3. ASSUME UNCHANGED <<buffer, remain_length, read>>, Goto("io", "dispatch") \/ UNCHANGED pc
      PROVE  Received'
  <2>1. "dispatch" \in RunLabels /\ "read" \in RunLabels \ {"lock"}
    BY DEF RunLabels, CloseLabels
  <2>2. UNCHANGED reading
    BY <1>1, <1>3 DEF reading
  <2> QED BY <1>1, <1>3, <2>1, <2>2, ReceivedRun
<1>4. ASSUME RecvData PROVE Received'
  <2>0. PICK n \in 1 .. Least(arrived - read, kSocketBufferSize) :
          /\ buffer' = [i \in 1 .. n |-> ResultByte(read + i)]
          /\ remain_length' = n
          /\ read' = read + n
    BY <1>4 DEF RecvData
  <2>1. /\ pc'["io"] = "cut" /\ pc'["main"] = pc["main"]
    BY <1>4, MovesTo DEF RecvData, Threads
  <2>2. UNCHANGED <<Receiving, Before>>
    BY <1>1, <1>2, <2>1 DEF Receiving, Before
  <2>3. /\ read \in Nat /\ arrived \in Nat /\ read <= arrived /\ arrived <= Before + ResultSize
        /\ Before \in Nat /\ packet_receiver_.offset_ \in Nat /\ ResultSize \in Nat
    BY <1>2, WithinReceiving, Sizes DEF Received, Exchanged
  <2>4. n \in Nat \ {0} /\ read + n <= arrived
    BY <2>3, ClientAssumption DEF Least
  <2>5. read = Before + packet_receiver_.offset_
    <3>1. buffer = <<>>
      BY <1>1 DEF Received, HoldsRest
    <3>2. Len(buffer) = 0
      BY <3>1, EmptySeq
    <3> QED BY <2>3, <3>2 DEF Received, HoldsRest
  <2>6. buffer' \in Seq(Byte) /\ Len(buffer') = n
    <3>1. \A i \in 1 .. n : ResultByte(read + i) \in Byte
      BY <2>3, <2>4, ResultByteType
    <3> QED BY <2>0, <2>4, <3>1, IsASeq
  <2>7. HoldsResult'
    BY <1>1, <2>2 DEF Received, HoldsResult
  <2>8. HoldsRest'
    <3>1. packet_receiver_.offset_ + n <= ResultSize
      BY <2>3, <2>4, <2>5
    <3>2. \A k \in 1 .. n : buffer'[k] = ResultByte(Before + packet_receiver_.offset_ + k)
      BY <2>0, <2>5
    <3>3. read' = Before + packet_receiver_.offset_ + n
      BY <2>0, <2>5
    <3> QED BY <1>1, <2>0, <2>1, <2>2, <2>6, <3>1, <3>2, <3>3 DEF HoldsRest
  <2>9. Complete'
    BY <1>1, <1>2, <2>1 DEF Complete
  <2>10. Exchanged'
    <3>1. read' \in Nat /\ read' <= arrived
      BY <2>0, <2>3, <2>4
    <3> QED BY <1>1, <2>1, <3>1 DEF Received, Exchanged
  <2> QED BY <2>7, <2>8, <2>9, <2>10 DEF Received
<1> QED BY <1>3, <1>4 DEF Recv, Dies

(* OnReceive takes all there is of the result at hand. *)
LEMMA ReceivedCut ==
  ASSUME Control, Members, Queued, Received, Cut
  PROVE  Received'
<1> DEFINE r == packet_receiver_
           o == packet_receiver_.offset_
           m == Len(buffer)
           K == kPacketLengthSize
           got == OnReceive(packet_receiver_, buffer, Len(buffer))
           after == got.receiver
<1>1. /\ pc["io"] = "cut"
      /\ UNCHANGED <<handled, requested, wire, server, arrived, read>>
      /\ packet_receiver_' = after /\ Continue(got.remain)
      /\ Goto("io", IF IsComplete(after) THEN "packet" ELSE IF got.remain > 0 THEN "cut" ELSE "read")
  BY DEF Cut, sending, remote
<1>2. ~IsComplete(packet_receiver_)
  BY <1>1 DEF Received, Complete, SendLabels, Locked
<1>3. /\ r \in ReceiverState /\ o <= Len(r.buffer_) /\ o <= ResultSize /\ o \in Nat
      /\ r.length_ = IF o >= K THEN DataSize ELSE 0
      /\ \A k \in 1 .. o : r.buffer_[k] = ResultByte(Before + k)
  BY WithinReceiving DEF Received, HoldsResult
<1>4. /\ buffer \in Seq(Byte) /\ m \in 0 .. m /\ m \in Nat /\ o + m <= ResultSize
      /\ \A k \in 1 .. m : buffer[k] = ResultByte(Before + o + k)
      /\ read = Before + o + m
  BY LenProperties DEF Received, HoldsRest
<1>5. Before \in Nat /\ Receiving \in Nat \ {0} /\ Receiving = Len(handled) + 1
  BY <1>2, WithinReceiving
<1>6. \A i \in 1 .. K : i \in 1 .. ResultSize /\ ResultByte(Before + i).value = (DataSize \div Weight[i - 1]) % Base
  <2> TAKE i \in 1 .. K
  <2>1. i \in 1 .. ResultSize /\ i <= K
    BY Sizes
  <2> QED BY <1>5, <2>1, ByteOfResult DEF Before
<1>7. /\ after \in ReceiverState /\ after.offset_ <= Len(after.buffer_)
  BY <1>3, <1>4, OnReceiveType
<1>8. /\ got.remain = 0
      /\ after.offset_ = o + m
      /\ after.length_ = IF after.offset_ >= K THEN DataSize ELSE r.length_
      /\ \A i \in 1 .. o : after.buffer_[i] = r.buffer_[i]
      /\ \A i \in 1 .. m : after.buffer_[o + i] = buffer[i]
  <2>1. DataSize \in Nat /\ DataSize + K < UINT32 /\ o + m <= K + DataSize
    BY <1>3, <1>4, Sizes
  <2>2. o >= K => r.length_ = DataSize
    BY <1>3
  <2>3. \A i \in 1 .. K : i <= o => r.buffer_[i].value = (DataSize \div Weight[i - 1]) % Base
    <3> TAKE i \in 1 .. K
    <3>1. i <= o => i \in 1 .. o
      BY <1>3, Sizes
    <3> QED BY <1>3, <1>6, <3>1
  <2>4. \A i \in 1 .. K : o < i /\ i <= o + m => buffer[i - o].value = (DataSize \div Weight[i - 1]) % Base
    <3> SUFFICES ASSUME NEW i \in 1 .. K, o < i, i <= o + m
                 PROVE  buffer[i - o].value = (DataSize \div Weight[i - 1]) % Base
      OBVIOUS
    <3>1. i - o \in 1 .. m /\ Before + o + (i - o) = Before + i
      BY <1>3, <1>4, <1>5, Sizes
    <3>2. buffer[i - o] = ResultByte(Before + i)
      BY <1>4, <3>1
    <3> QED BY <1>6, <3>2
  <2> QED BY <1>3, <1>4, <2>1, <2>2, <2>3, <2>4, OnReceiveFills
<1> HIDE DEF got, after
<1>9. buffer' = <<>> /\ remain_length' = 0 /\ Len(buffer') = 0
  BY <1>1, <1>8, EmptySeq DEF Continue
<1>10. pc'["io"] = (IF IsComplete(after) THEN "packet" ELSE "read") /\ pc'["main"] = pc["main"]
  BY <1>1, <1>8, MovesTo DEF Threads
<1>11. Receiving' = Receiving /\ Before' = Before
  <2>1. Receiving' = Len(handled) + 1
    BY <1>1, <1>10 DEF Receiving
  <2> QED BY <1>5, <2>1 DEF Before
<1>12. \A k \in 1 .. o + m : after.buffer_[k] = ResultByte(Before + k)
  <2> TAKE k \in 1 .. o + m
  <2>1. CASE k \in 1 .. o
    BY <1>3, <1>8, <2>1
  <2>2. CASE k \notin 1 .. o
    <3>1. k - o \in 1 .. m /\ k = o + (k - o) /\ Before + o + (k - o) = Before + k
      BY <1>3, <1>4, <1>5, <2>2
    <3>2. after.buffer_[o + (k - o)] = buffer[k - o] /\ buffer[k - o] = ResultByte(Before + o + (k - o))
      BY <1>4, <1>8, <3>1
    <3> QED BY <3>1, <3>2
  <2> QED BY <2>1, <2>2
<1>13. HoldsResult'
  <2>1. after.length_ = IF after.offset_ >= K THEN DataSize ELSE 0
    <3>1. ~(after.offset_ >= K) => ~(o >= K)
      BY <1>3, <1>4, <1>8, Sizes
    <3> QED BY <1>3, <1>8, <3>1
  <2>2. after.offset_ <= ResultSize /\ Receiving >= 1
    BY <1>4, <1>5, <1>8
  <2> QED BY <1>1, <1>7, <1>8, <1>11, <1>12, <2>1, <2>2 DEF HoldsResult
<1>14. HoldsRest'
  <2>1. <<>> \in Seq(Byte) /\ o + m \in Nat
    BY <1>3, <1>4, EmptySeq
  <2>2. \A k \in 1 .. 0 : FALSE
    OBVIOUS
  <2>3. /\ after.offset_ + 0 <= ResultSize
        /\ read = Before + after.offset_ + 0
    BY <1>3, <1>4, <1>5, <1>8
  <2> QED BY <1>1, <1>9, <1>11, <2>1, <2>2, <2>3 DEF HoldsRest
<1>15. Complete'
  BY <1>1, <1>10 DEF Complete
<1>16. Exchanged'
  BY <1>1, <1>10 DEF Received, Exchanged
<1> QED BY <1>13, <1>14, <1>15, <1>16 DEF Received

(* What OnPacket gets is the result at hand and no other. *)
LEMMA IsTheResult ==
  ASSUME Members, Received, pc["io"] = "packet"
  PROVE  /\ ResultOf(Data(packet_receiver_)) = {Receiving}
         /\ Receiving = Len(handled) + 1
         /\ Receiving \in 1 .. Dialogue
<1> DEFINE r == packet_receiver_
           data == Data(packet_receiver_)
           K == kPacketLengthSize
           Bytes(k) == [i \in 1 .. DataSize |-> ResultByte((k - 1) * ResultSize + K + i)]
<1>1. /\ IsComplete(r) /\ r.offset_ = ResultSize /\ r.length_ = DataSize
      /\ r \in ReceiverState /\ r.offset_ <= Len(r.buffer_)
      /\ \A k \in 1 .. ResultSize : r.buffer_[k] = ResultByte(Before + k)
  <2>1. IsComplete(r) /\ r.offset_ = ResultSize
    BY WholeIsComplete DEF Received, Complete
  <2>2. ResultSize >= K
    BY Sizes
  <2> QED BY <2>1, <2>2 DEF Received, HoldsResult
<1>2. /\ Before \in Nat /\ Receiving \in Nat \ {0} /\ Receiving = Len(handled) + 1
      /\ arrived <= requested * ResultSize
  BY WithinReceiving
<1>3. Receiving \in 1 .. Dialogue
  <2>1. read = Before + ResultSize + Len(buffer) /\ Len(buffer) \in Nat /\ read <= arrived
        /\ read \in Nat /\ arrived \in Nat /\ requested \in Nat /\ requested <= Dialogue
    BY <1>1, LenProperties DEF Received, HoldsRest, Exchanged
  <2>2. Before + ResultSize = Receiving * ResultSize /\ ResultSize \in Nat \ {0}
        /\ Receiving * ResultSize \in Nat /\ requested * ResultSize \in Nat
    <3>1. Receiving - 1 \in Nat /\ (Receiving - 1) + 1 = Receiving /\ ResultSize \in Nat \ {0}
      BY <1>2, Sizes
    <3> QED BY <2>1, <3>1, Factors DEF Before
  <2>3. Receiving * ResultSize <= requested * ResultSize
    BY <1>2, <2>1, <2>2, Sizes
  <2>4. Receiving <= requested
    BY <1>2, <2>1, <2>2, <2>3, Factors
  <2> QED BY <1>2, <2>1, <2>4, ClientAssumption
<1>4. data \in Seq(Byte) /\ Len(data) = DataSize /\ \A i \in 1 .. DataSize : data[i] = r.buffer_[K + i]
  <2>1. r.buffer_ \in Seq(Byte) /\ Len(r.buffer_) \in Nat
    BY <1>1, LenProperties DEF ReceiverState
  <2>2. K \in 0 .. Len(r.buffer_) /\ ResultSize \in K .. Len(r.buffer_) /\ ResultSize - K = DataSize
        /\ K + r.length_ = ResultSize
    BY <1>1, <2>1, Sizes
  <2> QED BY <2>1, <2>2, Piece DEF Data
<1>5. \A i \in 1 .. DataSize : data[i] = ResultByte((Receiving - 1) * ResultSize + K + i)
  <2> TAKE i \in 1 .. DataSize
  <2>1. K + i \in 1 .. ResultSize /\ Before + (K + i) = Before + K + i
    BY <1>2, Sizes
  <2>2. data[i] = ResultByte(Before + (K + i))
    BY <1>1, <1>4, <2>1
  <2> QED BY <2>1, <2>2 DEF Before
<1> HIDE DEF data
<1>6. data = Bytes(Receiving)
  <2>1. /\ Bytes(Receiving) \in Seq(Byte) /\ Len(Bytes(Receiving)) = DataSize
    <3>1. \A i \in 1 .. DataSize : (Receiving - 1) * ResultSize + K + i \in Nat \ {0}
      BY <1>2, Sizes DEF Before
    <3>2. \A i \in 1 .. DataSize : ResultByte((Receiving - 1) * ResultSize + K + i) \in Byte
      BY <3>1, ResultByteType
    <3> QED BY <3>2, Sizes, IsASeq
  <2>2. \A i \in 1 .. DataSize : data[i] = Bytes(Receiving)[i]
    BY <1>5
  <2> HIDE DEF Bytes
  <2> QED BY <1>4, <2>1, <2>2, SeqEqual
<1>7. ASSUME NEW k \in 1 .. Dialogue, data = Bytes(k) PROVE k = Receiving
  <2>1. 1 \in 1 .. DataSize /\ K + 1 \in 1 .. ResultSize /\ k \in Nat \ {0}
    BY Sizes, ClientAssumption
  <2>2. Bytes(k)[1] = Bytes(Receiving)[1]
    BY <1>6, <1>7
  <2>3. ResultByte((k - 1) * ResultSize + K + 1) = ResultByte((Receiving - 1) * ResultSize + K + 1)
    BY <2>1, <2>2
  <2>4. (k - 1) * ResultSize + K + 1 = (Receiving - 1) * ResultSize + K + 1
    BY <2>3 DEF ResultByte
  <2>5. k - 1 \in Nat /\ Receiving - 1 \in Nat /\ ResultSize \in Nat \ {0} /\ K \in Nat
    BY <1>2, <2>1, Sizes
  <2>6. (k - 1) * ResultSize \in Nat /\ (Receiving - 1) * ResultSize \in Nat
    BY <2>5
  <2>7. (k - 1) * ResultSize = (Receiving - 1) * ResultSize
    BY <2>4, <2>5, <2>6
  <2>8. k - 1 = Receiving - 1
    BY <2>5, <2>6, <2>7, Factors
  <2> QED BY <1>2, <2>1, <2>8
<1>8. ResultOf(data) = {k \in 1 .. Dialogue : data = Bytes(k)}
  BY DEF ResultOf, DataSize
<1> HIDE DEF Bytes
<1> QED BY <1>2, <1>3, <1>6, <1>7, <1>8 DEF data

LEMMA ReceivedPacket ==
  ASSUME Control, Members, Queued, Received, OnPacket
  PROVE  Received'
<1> DEFINE n == Len(handled)
           results == ResultOf(Data(packet_receiver_))
<1>1. /\ pc["io"] = "packet"
      /\ UNCHANGED <<packet_receiver_, buffer, remain_length, read, requested, wire, server, arrived>>
      /\ handled' = handled \o [i \in 1 .. 1 |-> results]
      /\ Goto("io", IF \E k \in results : k < Dialogue THEN "push" ELSE "clear packet")
  BY DEF OnPacket, sending, remote
<1>2. results = {n + 1} /\ Receiving = n + 1 /\ n + 1 \in 1 .. Dialogue
  BY <1>1, IsTheResult
<1>3. handled \in Seq(SUBSET Nat) /\ n \in Nat /\ \A i \in 1 .. n : handled[i] = {i}
  BY LenProperties DEF Received, Exchanged
<1>4. /\ handled' \in Seq(SUBSET Nat) /\ Len(handled') = n + 1
      /\ \A i \in 1 .. n + 1 : handled'[i] = {i}
  <2> DEFINE one == [i \in 1 .. 1 |-> results]
  <2>1. results \in SUBSET Nat
    BY <1>2, <1>3
  <2>2. one \in Seq(SUBSET Nat) /\ Len(one) = 1 /\ one[1] = results
    BY <2>1, IsASeq
  <2>3. handled' = handled \o one
    BY <1>1
  <2> HIDE DEF one, results
  <2>4. /\ handled' \in Seq(SUBSET Nat) /\ Len(handled') = n + 1
        /\ \A i \in 1 .. n + 1 : handled'[i] = IF i <= n THEN handled[i] ELSE one[i - n]
    <3>1. /\ handled \o one \in Seq(SUBSET Nat)
          /\ Len(handled \o one) = Len(handled) + Len(one)
          /\ \A i \in 1 .. Len(handled) + Len(one) :
               (handled \o one)[i] = IF i <= Len(handled) THEN handled[i] ELSE one[i - Len(handled)]
      <4>1. handled \in Seq(SUBSET Nat) /\ one \in Seq(SUBSET Nat)
        BY <1>3, <2>2
      <4> QED BY <4>1, ConcatProperties, Zenon
    <3>2. Len(handled) + Len(one) = n + 1
      BY <2>2
    <3> QED BY <2>3, <3>1, <3>2
  <2>5. ASSUME NEW i \in 1 .. n + 1 PROVE handled'[i] = {i}
    <3>1. CASE i <= n
      <4>1. i \in 1 .. n
        BY <1>3, <3>1
      <4> QED BY <1>3, <2>4, <3>1, <4>1
    <3>2. CASE ~(i <= n)
      <4>1. i = n + 1 /\ i - n = 1
        BY <1>3, <3>2
      <4> QED BY <1>2, <2>2, <2>4, <3>2, <4>1
    <3> QED BY <3>1, <3>2
  <2> QED BY <2>4, <2>5
<1>5. /\ pc'["io"] = (IF n + 1 < Dialogue THEN "push" ELSE "clear packet")
      /\ pc'["main"] = pc["main"]
  BY <1>1, <1>2, MovesTo DEF Threads
<1>6. IsComplete(packet_receiver_)
  BY <1>1 DEF Received, Complete
<1>7. Receiving' = n + 1 /\ Before' = Before
  <2>1. Receiving' = n + 1
    BY <1>1, <1>4, <1>5, <1>6 DEF Receiving
  <2> QED BY <1>2, <2>1 DEF Before
<1>8. HoldsResult'
  BY <1>1, <1>2, <1>7 DEF Received, HoldsResult
<1>9. HoldsRest'
  BY <1>1, <1>7 DEF Received, HoldsRest
<1>10. Complete'
  BY <1>1, <1>5, <1>6 DEF Complete, SendLabels
<1>11. Exchanged'
  <2>1. requested <= n + 1 /\ requested \in Nat
    BY DEF Received, Exchanged
  <2>2. requested <= (n + 1) + 1
    BY <1>3, <2>1
  <2>3. pc'["io"] = "push" => n + 1 < Dialogue
    BY <1>5
  <2> QED BY <1>1, <1>4, <1>5, <2>1, <2>2, <2>3 DEF Received, Exchanged
<1> QED BY <1>8, <1>9, <1>10, <1>11 DEF Received

(* With Clear the next result is the one being received. *)
LEMMA ReceivedClear ==
  ASSUME Control, Members, Queued, Received, ClearPacket
  PROVE  Received'
<1> DEFINE n == Len(handled)
<1>1. /\ pc["io"] = "clear packet"
      /\ UNCHANGED <<buffer, remain_length, handled, read, requested, wire, server, arrived>>
      /\ packet_receiver_' = Clear(packet_receiver_)
      /\ Goto("io", IF remain_length > 0 THEN "cut" ELSE "read")
  BY DEF ClearPacket, sending, remote
<1>2. IsComplete(packet_receiver_) /\ packet_receiver_.offset_ = ResultSize
  BY <1>1, WholeIsComplete DEF Received, Complete
<1>3. Receiving = n /\ n \in Nat \ {0} /\ Before \in Nat
  BY <1>1, <1>2, WithinReceiving DEF Receiving
<1>4. buffer = <<>> /\ remain_length = 0 /\ Len(buffer) = 0
  BY <1>1, EmptySeq DEF Received, HoldsRest
<1>5. pc'["io"] = "read" /\ pc'["main"] = pc["main"]
  <2>1. (IF remain_length > 0 THEN "cut" ELSE "read") = "read"
    BY <1>4
  <2>2. Goto("io", "read")
    BY <1>1, <2>1, Zenon
  <2> QED BY <2>2, MovesTo DEF Threads
<1>6. /\ packet_receiver_' \in ReceiverState
      /\ packet_receiver_'.length_ = 0 /\ packet_receiver_'.offset_ = 0
      /\ packet_receiver_'.buffer_ = packet_receiver_.buffer_
  BY <1>1, ClearType DEF Received, HoldsResult
<1>7. ~IsComplete(packet_receiver_')
  <2>1. 0 <= ResultSize /\ ~(0 >= kPacketLengthSize) /\ 0 # ResultSize
    BY Sizes
  <2> QED BY <1>6, <2>1, WholeResult
<1>8. Receiving' = n + 1 /\ Before' = Before + ResultSize
  <2>1. Receiving' = n + 1
    BY <1>1, <1>5, <1>7 DEF Receiving
  <2>2. n - 1 \in Nat /\ ResultSize \in Nat \ {0} /\ (n - 1) + 1 = (n + 1) - 1
    BY <1>3, Sizes
  <2>3. ((n - 1) + 1) * ResultSize = (n - 1) * ResultSize + ResultSize
    BY <2>2, Factors
  <2> QED BY <1>3, <2>1, <2>2, <2>3 DEF Before
<1>9. HoldsResult'
  <2>1. /\ 0 <= Len(packet_receiver_.buffer_) /\ 0 <= ResultSize /\ ~(0 >= kPacketLengthSize)
        /\ n + 1 >= 1
    BY <1>3, Sizes, LenProperties DEF Received, HoldsResult, ReceiverState
  <2>2. \A k \in 1 .. 0 : FALSE
    OBVIOUS
  <2> QED BY <1>6, <1>8, <2>1, <2>2 DEF HoldsResult
<1>10. HoldsRest'
  <2>1. read = Before + ResultSize
    BY <1>2, <1>3, <1>4, Sizes DEF Received, HoldsRest
  <2>2. (Before + ResultSize) + 0 + 0 = Before + ResultSize /\ 0 + 0 <= ResultSize
    BY <1>3, Sizes
  <2>3. \A k \in 1 .. 0 : FALSE
    OBVIOUS
  <2> QED BY <1>1, <1>4, <1>6, <1>8, <2>1, <2>2, <2>3 DEF Received, HoldsRest
<1>11. Complete'
  BY <1>5, <1>7 DEF Complete
<1>12. Exchanged'
  BY <1>1, <1>5 DEF Received, Exchanged
<1> QED BY <1>9, <1>10, <1>11, <1>12 DEF Received

LEMMA ReceivedStep ==
  ASSUME Control, Members, Queued, WireAccounts, Received, [Next]_vars
  PROVE  Received'
<1>1. CASE UNCHANGED vars
  <2>1. UNCHANGED <<pc, packet_receiver_, buffer, remain_length, handled, read, requested, wire,
                    server, arrived>>
    BY <1>1 DEF vars, sending, reading, remote
  <2>2. UNCHANGED <<Receiving, Before>>
    BY <2>1 DEF Receiving, Before
  <2> QED BY <2>1, <2>2 DEF Received, HoldsResult, HoldsRest, Complete, Exchanged
<1> QED BY <1>1, ReceivedMain, ReceivedSend, ReceivedClose, ReceivedIo, ReceivedRecv, ReceivedCut,
           ReceivedPacket, ReceivedClear, ReceivedKernel, Steps DEF StepsOfRead

LEMMA ReceivedInit == Init => Received
<1> SUFFICES ASSUME Init PROVE Received
  OBVIOUS
<1>1. /\ pc["main"] = "construct" /\ pc["io"] = "run"
      /\ packet_receiver_ = NewReceiver /\ buffer = <<>> /\ remain_length = 0
      /\ requested = 0 /\ handled = <<>> /\ wire = <<>> /\ server = [taken |-> 0, answered |-> 0]
      /\ arrived = 0 /\ read = 0
  BY DEF Init
<1>2. /\ packet_receiver_ \in ReceiverState
      /\ packet_receiver_.length_ = 0 /\ packet_receiver_.offset_ = 0
  BY <1>1, NewReceiverType
<1>3. Len(packet_receiver_.buffer_) \in Nat
  BY <1>2, LenProperties DEF ReceiverState
<1>4. /\ 0 <= ResultSize /\ ~(0 >= kPacketLengthSize) /\ 0 # ResultSize
      /\ ResultSize \in Nat
  BY Sizes
<1>5. ~IsComplete(packet_receiver_)
  BY <1>2, <1>4, WholeResult
<1>6. <<>> \in Seq(Byte) /\ <<>> \in Seq(SUBSET Nat) /\ Len(<<>>) = 0 /\ \A k \in 1 .. 0 : FALSE
  BY EmptySeq
<1>7. Receiving = 1 /\ Before = 0
  <2>1. Receiving = 1
    BY <1>1, <1>5, <1>6 DEF Receiving
  <2> QED BY <1>4, <2>1 DEF Before
<1>8. HoldsResult
  BY <1>2, <1>3, <1>4, <1>6, <1>7 DEF HoldsResult
<1>9. HoldsRest
  BY <1>1, <1>2, <1>4, <1>6, <1>7 DEF HoldsRest
<1>10. Complete
  BY <1>1, <1>5 DEF Complete
<1>11. Exchanged
  BY <1>1, <1>4, <1>6, ClientAssumption DEF Exchanged
<1> QED BY <1>8, <1>9, <1>10, <1>11 DEF Received

-----------------------------------------------------------------------------
(* What keeps the process alive. *)
LEMMA OpenMeans == Open <=> pc["main"] \in OpenLabels
BY DEF Open, OpenLabels, Starting, SendLabels, Locked

(* main does not go back: once it has begun to close it never opens again. *)
LEMMA MainMoves ==
  ASSUME Control, Members, [Next]_vars
  PROVE  /\ pc'["main"] \in OpenLabels => pc["main"] \in OpenLabels
         /\ pc'["main"] \in Starting \cup {"connect"} => pc["main"] \in Starting \cup {"connect"}
         /\ pc["main"] \in {"construct", "create"} => pc'["main"] \in {"construct", "create"} \/ Create
<1>0. /\ Starting = {"construct", "create", "register"} /\ Starting \subseteq OpenLabels
      /\ {"connect", "pause"} \cup SendLabels \subseteq OpenLabels
      /\ OpenLabels \cap ({"return", "stop", "wake", "join", "exit", "exited"} \cup CloseLabels) = {}
      /\ SendLabels = {"push", "lock", "sending", "sent", "test"}
      /\ CloseLabels = {"close", "clear", "check", "closesocket", "invalidate"}
  BY DEF OpenLabels, Starting, SendLabels, Locked, CloseLabels
<1>1. CASE pc'["main"] = pc["main"]
  BY <1>1
<1>2. CASE StepsOfMain
  <2>1. \/ pc["main"] = "construct" /\ Goto("main", "create")
        \/ Create /\ pc["main"] = "create" /\ Goto("main", "register")
        \/ pc["main"] = "register" /\ Goto("main", "connect")
        \/ pc["main"] = "connect" /\ \E l \in {"push", "return"} : Goto("main", l)
        \/ pc["main"] \notin Starting \cup {"connect"} /\
             \E l \in {"close", "stop", "exit", "wake", "join", "exited"} : Goto("main", l)
    BY <1>0, <1>2 DEF StepsOfMain, Construct, Create, RequestRegisterSocket, Connect, Pause, Return,
                 Destroy, Close, Exit
  <2> QED BY <1>0, <2>1, MovesTo DEF Threads
<1>3. ASSUME NEW t \in Threads, SendPacket(t) PROVE pc'["main"] = pc["main"] \/
        (pc["main"] \in SendLabels /\ pc'["main"] \in {"lock", "sending", "sent", "test", "pause"})
  <2>1. \E l \in {"lock", "sending", "sent", "test", AfterSend(t)} : Goto(t, l) \/ UNCHANGED pc
    BY <1>3 DEF SendPacket, Push, Lock, TrySendPacket, Sent, Pop, Dies
  <2>2. pc[t] \in SendLabels
    BY <1>3 DEF SendPacket, Push, Lock, TrySendPacket, Sent, Pop, SendLabels, Locked
  <2> QED BY <2>1, <2>2, MovesTo, After DEF Threads
<1>4. ASSUME NEW t \in Threads, CloseSession(t) PROVE pc'["main"] = pc["main"] \/
        (pc["main"] \in CloseLabels /\ pc'["main"] \in CloseLabels \cup {"return"})
  <2>1. \E l \in {"clear", "check", "closesocket", "invalidate", AfterClose(t)} :
          Goto(t, l) \/ UNCHANGED pc
    BY <1>4 DEF CloseSession, RequestUnregisterSocket, ClearSize, CheckHandle, CloseSocket,
                Invalidate, Dies
  <2>2. pc[t] \in CloseLabels
    BY <1>4 DEF CloseSession, RequestUnregisterSocket, ClearSize, CheckHandle, CloseSocket,
                Invalidate, CloseLabels
  <2> QED BY <1>0, <2>1, <2>2, MovesTo, After DEF Threads
<1>5. CASE StepsOfRun \/ StepsOfRead
  BY <1>1, <1>5, IoMoves, MovesTo DEF Threads
<1>6. CASE Kernel \/ Breaks \/ UNCHANGED vars
  BY <1>1, <1>6 DEF Kernel, Breaks, ConnectCompletes, Exchange, Record, Local, vars
<1> QED BY <1>0, <1>1, <1>2, <1>3, <1>4, <1>5, <1>6, Steps

(* What changes the state of the connection, and what opens and closes.    *)
LEMMA KernelMoves ==
  ASSUME Members, [Next]_vars
  PROVE  /\ kernel'.state = kernel.state \/ Connect \/ ConnectCompletes \/ Breaks
         /\ kernel'.open = kernel.open \/ Create \/ \E t \in Threads : CloseSocket(t)
<1>0. kernel \in KernelType
  BY DEF Members
<1>1. CASE StepsOfMain
  BY <1>0, <1>1 DEF StepsOfMain, Construct, Create, RequestRegisterSocket, Connect, Pause, Return,
                    Destroy, Exit, KernelType
<1>2. ASSUME NEW t \in Threads, SendPacket(t)
      PROVE  kernel'.state = kernel.state /\ kernel'.open = kernel.open
  <2>1. UNCHANGED kernel \/ kernel' = [kernel EXCEPT !.armed = @ \cup {"FD_WRITE"}]
    BY <1>2 DEF SendPacket, Push, Lock, TrySendPacket, Sent, Pop
  <2> QED BY <1>0, <2>1 DEF KernelType
<1>3. ASSUME NEW t \in Threads, CloseSession(t)
      PROVE  kernel'.state = kernel.state /\ (kernel'.open = kernel.open \/ CloseSocket(t))
  BY <1>0, <1>3 DEF CloseSession, RequestUnregisterSocket, ClearSize, CheckHandle, CloseSocket,
                    Invalidate, KernelType
<1>4. CASE StepsOfRun
  <2>1. \/ UNCHANGED kernel
        \/ Registration \/ EnumNetworkEvents
    BY <1>4 DEF StepsOfRun, Loop, TakeRequest, TakeEvent, Unregistration, Dispatch, Release, Untouched
  <2> QED BY <1>0, <2>1 DEF Registration, EnumNetworkEvents, KernelType
<1>5. CASE StepsOfRead
  BY <1>0, <1>5 DEF StepsOfRead, Recv, Cut, OnPacket, ClearPacket, KernelType
<1>6. CASE Kernel \/ Breaks
  BY <1>0, <1>6 DEF Kernel, ConnectCompletes, Breaks, Exchange, Record, KernelType
<1>7. CASE UNCHANGED vars
  BY <1>7 DEF vars
<1> QED BY <1>1, <1>2, <1>3, <1>4, <1>5, <1>6, <1>7, Steps

(* Once the connection has ended it does not come back, and main does not  *)
(* begin again. *)
LEMMA AliveBefore ==
  ASSUME Control, Members, Connected, [Next]_vars
  PROVE  /\ Connecting' => Connecting
         /\ Open' => Open
         /\ Alive' => Alive
<1>1. Open' => Open
  BY MainMoves, OpenMeans DEF Open, OpenLabels, Starting, SendLabels, Locked
<1>2. Connecting' => Connecting
  <2>1. CASE kernel'.state = kernel.state
    BY <2>1 DEF Connecting
  <2>2. CASE Connect
    BY <2>2 DEF Connect, Connected, Connecting
  <2>3. CASE ConnectCompletes
    BY <2>3 DEF ConnectCompletes, Connecting
  <2>4. CASE Breaks
    BY <2>4 DEF Breaks, Connecting
  <2> QED BY <2>1, <2>2, <2>3, <2>4, KernelMoves
<1> QED BY <1>1, <1>2 DEF Alive

(* While the connection has not ended no FD_CLOSE is recorded, so that the *)
(* I/O thread does not close the socket.                                   *)
LEMMA NoCloseEvent ==
  ASSUME Control, Members, Connected, Connecting, [Next]_vars
  PROVE  "FD_CLOSE" \notin kernel'.recorded \cup wevents'
<1>0. kernel \in KernelType /\ "FD_CLOSE" \notin kernel.recorded /\ "FD_CLOSE" \notin wevents
  BY DEF Members, Connected
<1>1. CASE UNCHANGED wevents /\ kernel'.recorded \in {{}, kernel.recorded}
  BY <1>0, <1>1
<1>2. CASE StepsOfMain
  <2>1. UNCHANGED wevents /\ kernel'.recorded = kernel.recorded
    BY <1>0, <1>2 DEF StepsOfMain, Construct, Create, RequestRegisterSocket, Connect, Pause, Return,
                      Destroy, Exit, KernelType
  <2> QED BY <1>1, <2>1
<1>3. ASSUME NEW t \in Threads, SendPacket(t)
      PROVE  UNCHANGED wevents /\ kernel'.recorded = kernel.recorded
  <2>1. UNCHANGED wevents
    BY <1>3 DEF SendPacket, Push, Lock, TrySendPacket, Sent, Pop
  <2>2. UNCHANGED kernel \/ kernel' = [kernel EXCEPT !.armed = @ \cup {"FD_WRITE"}]
    BY <1>3 DEF SendPacket, Push, Lock, TrySendPacket, Sent, Pop
  <2> QED BY <1>0, <2>1, <2>2 DEF KernelType
<1>4. ASSUME NEW t \in Threads, CloseSession(t)
      PROVE  UNCHANGED wevents /\ kernel'.recorded \in {{}, kernel.recorded}
  BY <1>0, <1>4 DEF CloseSession, RequestUnregisterSocket, ClearSize, CheckHandle, CloseSocket,
                    Invalidate, KernelType
<1>5. CASE StepsOfRun
  <2>1. CASE EnumNetworkEvents
    BY <1>0, <2>1 DEF EnumNetworkEvents, KernelType
  <2>2. CASE Dispatch
    BY <1>0, <2>2 DEF Dispatch
  <2>3. CASE Registration
    BY <1>0, <1>1, <2>3 DEF Registration, KernelType
  <2>4. CASE Loop \/ TakeRequest \/ TakeEvent \/ Unregistration \/ Release
    BY <1>1, <2>4 DEF Loop, TakeRequest, TakeEvent, Unregistration, Release, Untouched
  <2> QED BY <1>5, <2>1, <2>2, <2>3, <2>4 DEF StepsOfRun
<1>6. CASE StepsOfRead
  <2>1. UNCHANGED wevents /\ kernel'.recorded = kernel.recorded
    BY <1>0, <1>6 DEF StepsOfRead, Recv, Cut, OnPacket, ClearPacket, KernelType
  <2> QED BY <1>1, <2>1
<1>7. CASE ConnectCompletes \/ Exchange \/ Breaks
  <2>1. UNCHANGED wevents /\ kernel'.recorded = kernel.recorded
    BY <1>0, <1>7 DEF ConnectCompletes, Exchange, Breaks, Local, KernelType
  <2> QED BY <1>1, <2>1
<1>8. ASSUME NEW e \in NetworkEvents, Record(e)
      PROVE  "FD_CLOSE" \notin kernel'.recorded \cup wevents'
  <2>1. e # "FD_CLOSE"
    BY <1>8 DEF Record, Holds, Connecting
  <2>2. kernel'.recorded = kernel.recorded \cup {e} /\ UNCHANGED wevents
    BY <1>0, <1>8 DEF Record, Local, KernelType
  <2> QED BY <1>0, <2>1, <2>2
<1>9. CASE UNCHANGED vars
  BY <1>1, <1>9 DEF vars
<1> QED BY <1>1, <1>2, <1>3, <1>4, <1>5, <1>6, <1>7, <1>8, <1>9, Steps DEF Kernel

LEMMA NoCloseByIo ==
  ASSUME Control, Members, Connected, Connecting, [Next]_vars
  PROVE  pc'["io"] \notin CloseLabels
<1>0. /\ pc["io"] \notin CloseLabels
      /\ CloseLabels = {"close", "clear", "check", "closesocket", "invalidate"}
      /\ "main" # "io" /\ "io" \in Threads /\ "main" \in Threads
  BY DEF Connected, CloseLabels, Threads
<1>1. CASE pc'["io"] = pc["io"]
  BY <1>0, <1>1
<1>2. CASE StepsOfMain
  <2>1. \E l \in MainLabels : Goto("main", l)
    <3>1. {"create", "register", "connect", "push", "return", "close", "stop", "exit", "wake", "join",
           "exited"} \subseteq MainLabels
      BY DEF MainLabels, OpenLabels, SendLabels, Starting, CloseLabels
    <3> QED BY <1>2, <3>1 DEF StepsOfMain, Construct, Create, RequestRegisterSocket, Connect, Pause,
               Return, Destroy, Close, Exit
  <2> QED BY <1>0, <1>1, <2>1, MovesTo
<1>3. ASSUME NEW t \in Threads, SendPacket(t) PROVE pc'["io"] \notin CloseLabels
  <2>1. \E l \in {"lock", "sending", "sent", "test", AfterSend(t)} : Goto(t, l) \/ UNCHANGED pc
    BY <1>3 DEF SendPacket, Push, Lock, TrySendPacket, Sent, Pop, Dies
  <2> QED BY <1>0, <2>1, MovesTo, After DEF Threads
<1>4. ASSUME NEW t \in Threads, CloseSession(t) PROVE pc'["io"] \notin CloseLabels
  <2>1. \E l \in {"clear", "check", "closesocket", "invalidate", AfterClose(t)} :
          Goto(t, l) \/ UNCHANGED pc
    BY <1>4 DEF CloseSession, RequestUnregisterSocket, ClearSize, CheckHandle, CloseSocket,
                Invalidate, Dies
  <2>2. pc[t] \in CloseLabels
    BY <1>4 DEF CloseSession, RequestUnregisterSocket, ClearSize, CheckHandle, CloseSocket,
                Invalidate, CloseLabels
  <2> QED BY <1>0, <2>1, <2>2, MovesTo DEF Threads
<1>5. CASE StepsOfRun \/ StepsOfRead
  <2>1. CASE Dispatch
    <3>1. wevents # {"FD_CLOSE"}
      BY DEF Connected
    <3>2. \E l \in {"read", "lock", "release"} : Goto("io", l)
      BY <2>1, <3>1 DEF Dispatch
    <3> QED BY <1>0, <3>2, MovesTo
  <2>2. CASE ~Dispatch
    <3>1. \E l \in IoGoes \ {"close"} : Goto("io", l) \/ UNCHANGED pc
      <4>1. CASE Loop
        BY <4>1 DEF IoGoes, Loop, RunTest, Wait, ResetNotify, Scan, Dies
      <4>2. CASE TakeRequest
        <5>1. requests_ # <<>> => Head(requests_) \in {"register", "unregister"}
          BY HeadTailProperties DEF Members
        <5> QED BY <4>2, <5>1 DEF IoGoes, TakeRequest, OnRequest
      <4>3. CASE TakeEvent
        BY <4>3 DEF IoGoes, TakeEvent, OnSocketEvent, Dies
      <4>4. CASE Registration \/ Unregistration \/ EnumNetworkEvents \/ Release
        BY <4>4 DEF IoGoes, Registration, OnRegisterSocket, Unregistration, OnUnregisterSocket,
                    EnumNetworkEvents, Release, Dies
      <4>5. CASE StepsOfRead
        BY <4>5 DEF IoGoes, StepsOfRead, Recv, RecvData, Cut, OnPacket, ClearPacket, Dies
      <4> QED BY <1>5, <2>2, <4>1, <4>2, <4>3, <4>4, <4>5 DEF StepsOfRun
    <3>2. \A l \in IoGoes \ {"close"} : l \notin CloseLabels
      BY <1>0 DEF IoGoes
    <3> QED BY <1>0, <3>1, <3>2, MovesTo
  <2> QED BY <2>1, <2>2
<1>6. CASE Kernel \/ Breaks \/ UNCHANGED vars
  BY <1>1, <1>6 DEF Kernel, Breaks, ConnectCompletes, Exchange, Record, Local, vars
<1> QED BY <1>2, <1>3, <1>4, <1>5, <1>6, Steps

LEMMA ConnectedStep ==
  ASSUME Control, Members, Connected, [Next]_vars
  PROVE  Connected'
<1>1. Connecting' => "FD_CLOSE" \notin kernel'.recorded \cup wevents' /\ pc'["io"] \notin CloseLabels
  BY AliveBefore, NoCloseEvent, NoCloseByIo
<1>2. ASSUME pc'["main"] \in Starting \cup {"connect"} PROVE kernel'.state = "none"
  <2>1. pc["main"] \in Starting \cup {"connect"} /\ kernel.state = "none"
    BY <1>2, MainMoves DEF Connected
  <2>2. ~Connect
    <3>1. {"push", "return"} \cap (Starting \cup {"connect"}) = {}
      BY DEF Starting
    <3> QED BY <1>2, <3>1, MovesTo DEF Connect, Threads
  <2> QED BY <2>1, <2>2, KernelMoves DEF ConnectCompletes, Breaks
<1>3. ASSUME Alive', pc'["main"] \notin {"construct", "create"} PROVE kernel'.open
  <2>1. Alive
    BY <1>3, AliveBefore
  <2>2. CASE Create
    BY <2>2 DEF Create, Members, KernelType
  <2>3. CASE ~Create
    <3>1. kernel.open
      BY <1>3, <2>1, <2>3, MainMoves DEF Connected
    <3>2. ASSUME NEW t \in Threads, CloseSocket(t) PROVE FALSE
      <4>1. pc[t] = "closesocket" /\ pc[t] \in CloseLabels
        BY <3>2 DEF CloseSocket, CloseLabels
      <4>2. CASE t = "io"
        BY <2>1, <4>1, <4>2 DEF Connected, Alive
      <4>3. CASE t = "main"
        BY <2>1, <4>1, <4>3 DEF Alive, Open
      <4> QED BY <4>2, <4>3 DEF Threads
    <3> QED BY <2>3, <3>1, <3>2, KernelMoves
  <2> QED BY <2>2, <2>3
<1> QED BY <1>1, <1>2, <1>3 DEF Connected

LEMMA MainHoldsStep ==
  ASSUME Control, Members, Connected, MainHolds, [Next]_vars
  PROVE  MainHolds'
<1> SUFFICES ASSUME Open' PROVE "main" \in refs'
  BY DEF MainHolds
<1>1. Open /\ "main" \in refs
  BY AliveBefore DEF MainHolds
<1>2. CASE StepsOfMain
  <2>1. ~Return
    BY <1>1 DEF Return, Open
  <2> QED BY <1>1, <1>2, <2>1 DEF StepsOfMain, Construct, Create, RequestRegisterSocket, Connect, Pause,
             Destroy, Exit
<1>3. ASSUME NEW t \in Threads, SendPacket(t) \/ CloseSession(t) PROVE UNCHANGED refs
  BY <1>3 DEF SendPacket, Push, Lock, TrySendPacket, Sent, Pop, CloseSession,
       RequestUnregisterSocket, ClearSize, CheckHandle, CloseSocket, Invalidate
<1>4. CASE StepsOfRun
  BY <1>1, <1>4 DEF StepsOfRun, Loop, TakeRequest, TakeEvent, Hold, Registration, Unregistration,
       EnumNetworkEvents, Dispatch, Release
<1>5. CASE StepsOfRead
  BY <1>1, <1>5 DEF StepsOfRead, Recv, Cut, OnPacket, ClearPacket
<1>6. CASE Kernel \/ Breaks \/ UNCHANGED vars
  BY <1>1, <1>6 DEF Kernel, Breaks, ConnectCompletes, Exchange, Record, Local, vars
<1> QED BY <1>1, <1>2, <1>3, <1>4, <1>5, <1>6, Steps

(* The cursor belongs to the I/O thread. *)
LEMMA ScanningKept ==
  ASSUME Control, Scanning, NEW t \in Threads, NEW l, Goto(t, l) \/ UNCHANGED pc, UNCHANGED cursor,
         t = "io" => /\ pc["io"] \notin {"run", "wait", "reset", "ended"} \/ l \in {"wait", "ended"}
                     /\ l # "event"
  PROVE  Scanning'
<1>1. CASE UNCHANGED pc
  BY <1>1 DEF Scanning
<1>2. CASE Goto(t, l) /\ t = "main"
  <2>1. pc'["io"] = pc["io"]
    BY <1>2, MovesTo DEF Threads
  <2> QED BY <2>1 DEF Scanning
<1>3. CASE Goto(t, l) /\ t = "io"
  <2>1. pc'["io"] = l
    BY <1>3, MovesTo
  <2> QED BY <1>3, <2>1 DEF Scanning
<1> QED BY <1>1, <1>2, <1>3 DEF Threads

LEMMA ScanningIo ==
  ASSUME Control, Members, Registered, Scanning, StepsOfRun \/ StepsOfRead
  PROVE  Scanning'
<1>0. "io" \in Threads /\ Events = {Notify, SocketEvent} /\ cursor \in [i : Nat, cEvents : Nat, last : Events]
  BY DEF Threads, Events, Scanning
<1>1. CASE RunTest
  <2>1. \E l \in {"wait", "ended"} : Goto("io", l)
    BY <1>1 DEF RunTest
  <2> QED BY <1>0, <1>1, <2>1, ScanningKept DEF RunTest, thread
<1>2. CASE Wait
  <2>1. PICK k \in 1 .. Len(events_) :
          /\ cursor' = [i |-> k, cEvents |-> Len(events_), last |-> events_[Len(events_)]]
          /\ Goto("io", IF k = 1 THEN "reset" ELSE "scan")
    BY <1>2 DEF Wait
  <2>2. events_ \in {<<>>, <<Notify>>, <<Notify, SocketEvent>>}
    BY DEF Registered
  <2>3. Len(events_) \in Nat /\ k \in Nat /\ k >= 1 /\ events_[Len(events_)] \in Events
    <3>1. CASE events_ = <<>>
      BY <2>1, <3>1
    <3>2. CASE events_ = <<Notify>>
      BY <1>0, <2>1, <3>2
    <3>3. CASE events_ = <<Notify, SocketEvent>>
      BY <1>0, <2>1, <3>3
    <3> QED BY <2>2, <3>1, <3>2, <3>3
  <2>4. pc'["io"] = (IF k = 1 THEN "reset" ELSE "scan")
    BY <1>0, <2>1, MovesTo
  <2> QED BY <2>1, <2>3, <2>4 DEF Scanning
<1>3. CASE ResetNotify
  <2>1. pc'["io"] = "request" /\ cursor' = [cursor EXCEPT !.i = 2]
    BY <1>0, <1>3, MovesTo DEF ResetNotify
  <2> QED BY <1>0, <2>1 DEF Scanning
<1>4. CASE Scan
  <2>1. cursor.i >= 2 /\ pc["io"] = "scan"
    BY <1>4 DEF Scan, Scanning
  <2>2. CASE Goto("io", "run") /\ cursor' = NoCursor
    <3>1. pc'["io"] = "run"
      BY <1>0, <2>2, MovesTo
    <3> QED BY <1>0, <2>2, <3>1 DEF Scanning, NoCursor
  <2>3. CASE UNCHANGED <<pc, cursor>>
    BY <2>3 DEF Scanning
  <2>4. CASE ~(cursor.i > cursor.cEvents) /\ Goto("io", "event") /\ UNCHANGED cursor
    <3>1. pc'["io"] = "event"
      BY <1>0, <2>4, MovesTo
    <3> QED BY <1>0, <2>1, <2>4, <3>1 DEF Scanning
  <2>5. CASE cursor' = [cursor EXCEPT !.i = @ + 1] /\ UNCHANGED pc
    BY <1>0, <2>1, <2>5 DEF Scanning
  <2> QED BY <1>4, <2>2, <2>3, <2>4, <2>5 DEF Scan, Dies
<1>5. CASE EnumNetworkEvents
  <2>1. cursor.i >= 2 /\ cursor' = [cursor EXCEPT !.i = @ + 1]
    BY <1>5 DEF EnumNetworkEvents, Scanning
  <2>2. pc'["io"] \in {"release", "dispatch"}
    BY <1>0, <1>5, MovesTo DEF EnumNetworkEvents
  <2> QED BY <1>0, <2>1, <2>2 DEF Scanning
<1>6. ASSUME NEW l \in IoGoes \ {"event"}, Goto("io", l) \/ UNCHANGED pc, UNCHANGED cursor,
             pc["io"] \notin {"run", "wait", "reset", "ended"}
      PROVE  Scanning'
  BY <1>0, <1>6, ScanningKept
<1>7. CASE TakeRequest
  <2>1. requests_ # <<>> => Head(requests_) \in {"register", "unregister"}
    BY HeadTailProperties DEF Members
  <2> QED BY <1>6, <1>7, <2>1 DEF IoGoes, TakeRequest, OnRequest
<1>8. CASE TakeEvent
  <2>1. UNCHANGED cursor /\ pc["io"] = "event"
    BY <1>8 DEF TakeEvent, OnSocketEvent, thread
  <2>2. Goto("io", "enum") \/ UNCHANGED pc
    BY <1>8 DEF TakeEvent, OnSocketEvent, Dies
  <2>3. "enum" \in IoGoes \ {"event"}
    BY DEF IoGoes
  <2> QED BY <1>6, <2>1, <2>2, <2>3
<1>9. CASE Registration \/ Unregistration
  BY <1>6, <1>9 DEF IoGoes, Registration, OnRegisterSocket, Unregistration, OnUnregisterSocket
<1>10. CASE Dispatch \/ Release
  BY <1>6, <1>10 DEF IoGoes, Dispatch, Release, Dies, thread
<1>11. CASE StepsOfRead
  <2>1. UNCHANGED cursor /\ pc["io"] \notin {"run", "wait", "reset", "ended"}
    BY <1>11 DEF StepsOfRead, Recv, Cut, OnPacket, ClearPacket, thread
  <2>2. \E l \in IoGoes \ {"event"} : Goto("io", l) \/ UNCHANGED pc
    BY <1>11 DEF IoGoes, StepsOfRead, Recv, RecvData, Cut, OnPacket, ClearPacket, Dies
  <2> QED BY <1>6, <2>1, <2>2
<1> QED BY <1>1, <1>2, <1>3, <1>4, <1>5, <1>7, <1>8, <1>9, <1>10, <1>11 DEF StepsOfRun, Loop

LEMMA ScanningStep ==
  ASSUME Control, Members, Registered, Scanning, [Next]_vars
  PROVE  Scanning'
<1>1. CASE StepsOfMain
  <2>1. UNCHANGED cursor
    BY <1>1 DEF StepsOfMain, Construct, Create, RequestRegisterSocket, Request, Connect, Pause, Return,
                Destroy, Close, Exit, thread
  <2>2. \E l : Goto("main", l)
    BY <1>1 DEF StepsOfMain, Construct, Create, RequestRegisterSocket, Connect, Pause, Return,
                Destroy, Close, Exit
  <2> QED BY <2>1, <2>2, ScanningKept DEF Threads
<1>2. ASSUME NEW t \in Threads, SendPacket(t) PROVE Scanning'
  <2>1. UNCHANGED cursor /\ pc[t] \in SendLabels
    BY <1>2 DEF SendPacket, Push, Lock, TrySendPacket, Sent, Pop, SendLabels, Locked, thread
  <2>2. \E l \in {"lock", "sending", "sent", "test", AfterSend(t)} : Goto(t, l) \/ UNCHANGED pc
    BY <1>2 DEF SendPacket, Push, Lock, TrySendPacket, Sent, Pop, Dies
  <2>3. AfterSend(t) # "event" /\ SendLabels \cap {"run", "wait", "reset", "ended"} = {}
    BY After DEF Threads, SendLabels, Locked
  <2> QED BY <2>1, <2>2, <2>3, ScanningKept
<1>3. ASSUME NEW t \in Threads, CloseSession(t) PROVE Scanning'
  <2>1. UNCHANGED cursor /\ pc[t] \in CloseLabels
    BY <1>3 DEF CloseSession, RequestUnregisterSocket, Request, ClearSize, CheckHandle, CloseSocket,
                Invalidate, CloseLabels, thread
  <2>2. \E l \in {"clear", "check", "closesocket", "invalidate", AfterClose(t)} :
          Goto(t, l) \/ UNCHANGED pc
    BY <1>3 DEF CloseSession, RequestUnregisterSocket, ClearSize, CheckHandle, CloseSocket,
                Invalidate, Dies
  <2>3. AfterClose(t) # "event" /\ CloseLabels \cap {"run", "wait", "reset", "ended"} = {}
    BY After DEF Threads, CloseLabels
  <2> QED BY <2>1, <2>2, <2>3, ScanningKept
<1>4. CASE Kernel \/ Breaks \/ UNCHANGED vars
  <2>1. UNCHANGED <<pc, cursor>>
    BY <1>4 DEF Kernel, Breaks, ConnectCompletes, Exchange, Record, Local, vars, thread
  <2> QED BY <2>1 DEF Scanning
<1> QED BY <1>1, <1>2, <1>3, <1>4, ScanningIo, Steps

(* The socket stays in the lists of the I/O thread. *)
LEMMA ListedKept ==
  ASSUME Listed, Alive' => Alive,
         UNCHANGED <<requests_, events_, socket_map_>>,
         cursor'.cEvents = cursor.cEvents, pc'["io"] = "unregister" => pc["io"] = "unregister"
  PROVE  Listed'
BY DEF Listed

LEMMA ListedMain ==
  ASSUME Control, Members, Registered, Scanning, Listed, Alive' => Alive, StepsOfMain
  PROVE  Listed'
<1>0. \E l : Goto("main", l)
  BY DEF StepsOfMain, Construct, Create, RequestRegisterSocket, Connect, Pause, Return, Destroy,
         Close, Exit
<1>1. pc'["io"] = pc["io"]
  BY <1>0, MovesTo DEF Threads
<1>2. CASE Construct
  <2>1. events_ = <<>> /\ events_' = <<Notify>> /\ UNCHANGED <<requests_, cursor, socket_map_>>
    BY <1>2 DEF Construct, Registered
  <2>2. Len(<<>>) = 0 /\ Len(<<Notify>>) = 1 /\ <<Notify>> # <<Notify, SocketEvent>>
    OBVIOUS
  <2>3. Alive => cursor.cEvents <= 1
    BY <2>1, <2>2 DEF Listed, Scanning
  <2> QED BY <1>1, <2>1, <2>2, <2>3 DEF Listed
<1>3. CASE RequestRegisterSocket
  <2>1. requests_' = Append(requests_, "register") /\ UNCHANGED <<events_, cursor, socket_map_>>
    BY <1>3 DEF RequestRegisterSocket, Request
  <2>2. /\ Len(requests_) \in Nat /\ Len(requests_') = Len(requests_) + 1
        /\ \A i \in 1 .. Len(requests_) : requests_'[i] = requests_[i]
        /\ requests_'[Len(requests_) + 1] = "register"
    BY <2>1, AppendProperties, LenProperties DEF Members
  <2>3. \A i \in 1 .. Len(requests_') : i \in 1 .. Len(requests_) \/ i = Len(requests_) + 1
    BY <2>2
  <2>4. Alive => \A i \in 1 .. Len(requests_') : requests_'[i] # "unregister"
    BY <2>2, <2>3 DEF Listed
  <2> QED BY <1>1, <2>1, <2>4 DEF Listed
<1>4. CASE ~Construct /\ ~RequestRegisterSocket
  <2>1. UNCHANGED <<requests_, events_, socket_map_, cursor>>
    BY <1>4 DEF StepsOfMain, Create, Connect, Pause, Return, Destroy, Close, Exit, thread
  <2> QED BY <1>1, <2>1, ListedKept
<1> QED BY <1>2, <1>3, <1>4

LEMMA ListedClose ==
  ASSUME Control, Members, Connected, Listed, Alive' => Alive, NEW t \in Threads, CloseSession(t)
  PROVE  Listed'
<1>1. pc[t] \in CloseLabels
  BY DEF CloseSession, RequestUnregisterSocket, ClearSize, CheckHandle, CloseSocket, Invalidate,
         CloseLabels
<1>2. CASE t = "io"
  BY <1>1, <1>2 DEF Connected, Alive, Listed
<1>3. CASE t = "main"
  BY <1>1, <1>3 DEF CloseLabels, Alive, Open, Listed
<1> QED BY <1>2, <1>3 DEF Threads

LEMMA ListedIo ==
  ASSUME Control, Members, Lifetime, Registered, Scanning, Listed, Alive' => Alive,
         StepsOfRun \/ StepsOfRead
  PROVE  Listed'
<1>0. "io" \in Threads
  BY DEF Threads
<1>1. SUFFICES ASSUME Alive, Alive' PROVE Listed'
  BY DEF Listed
<1>2. /\ \A i \in 1 .. Len(requests_) : requests_[i] # "unregister"
      /\ pc["io"] # "unregister"
      /\ cursor.cEvents <= Len(events_)
      /\ events_ = <<Notify, SocketEvent>> => socket_map_ = {SocketEvent}
  BY <1>1 DEF Listed
<1>3. ASSUME NEW l \in IoGoes \ {"unregister"}, Goto("io", l) \/ UNCHANGED pc,
             UNCHANGED <<requests_, events_, socket_map_>>, cursor'.cEvents = cursor.cEvents
      PROVE  Listed'
  BY <1>0, <1>1, <1>3, MovesTo, ListedKept
<1>4. CASE RunTest \/ ResetNotify
  <2>1. UNCHANGED <<requests_, events_, socket_map_>> /\ cursor'.cEvents = cursor.cEvents
    BY <1>4 DEF RunTest, ResetNotify, thread, Scanning
  <2>2. \E l \in IoGoes \ {"unregister"} : Goto("io", l)
    BY <1>4 DEF RunTest, ResetNotify, IoGoes
  <2> QED BY <1>3, <2>1, <2>2
<1>5. CASE Wait
  <2>1. UNCHANGED <<requests_, events_, socket_map_>> /\ cursor'.cEvents = Len(events_)
    BY <1>5 DEF Wait
  <2>2. pc'["io"] \in {"reset", "scan"}
    BY <1>0, <1>5, MovesTo DEF Wait
  <2>3. Len(events_) <= Len(events_)
    <3>1. Len(events_) \in Nat
      BY DEF Registered
    <3> QED BY <3>1
  <2> QED BY <1>2, <2>1, <2>2, <2>3 DEF Listed
<1>6. CASE Scan
  <2>1. UNCHANGED <<requests_, events_, socket_map_>>
    BY <1>6 DEF Scan
  <2>2. cursor'.cEvents \in {cursor.cEvents, 0}
    BY <1>6 DEF Scan, NoCursor, Scanning
  <2>3. pc'["io"] # "unregister"
    BY <1>0, <1>2, <1>6, MovesTo DEF Scan, Dies
  <2>4. 0 <= Len(events_)
    BY DEF Registered
  <2> QED BY <1>2, <2>1, <2>2, <2>3, <2>4 DEF Listed
<1>7. CASE TakeRequest
  <2>1. UNCHANGED <<events_, socket_map_, cursor>> /\ pc["io"] = "request"
    BY <1>7 DEF TakeRequest, OnRequest
  <2>2. CASE requests_ = <<>>
    <3>1. requests_' = requests_ /\ pc'["io"] = "scan"
      BY <1>0, <1>7, <2>2, MovesTo DEF TakeRequest, OnRequest
    <3> QED BY <1>2, <2>1, <3>1 DEF Listed
  <2>3. CASE requests_ # <<>>
    <3>1. requests_' = Tail(requests_) /\ pc'["io"] \in {"scan", Head(requests_)}
      BY <1>0, <1>7, <2>3, MovesTo DEF TakeRequest, OnRequest
    <3>2. /\ Len(requests_) \in Nat \ {0} /\ Len(requests_') = Len(requests_) - 1
          /\ Head(requests_) = requests_[1]
          /\ \A i \in 1 .. Len(requests_') : requests_'[i] = requests_[i + 1]
      BY <2>3, <3>1, HeadTailProperties, LenProperties, EmptySeq DEF Members
    <3>3. 1 \in 1 .. Len(requests_) /\ \A i \in 1 .. Len(requests_') : i + 1 \in 1 .. Len(requests_)
      BY <3>2
    <3> QED BY <1>2, <2>1, <3>1, <3>2, <3>3 DEF Listed
  <2> QED BY <2>2, <2>3
<1>8. CASE Registration
  <2>1. events_' = <<Notify, SocketEvent>> /\ events_ = <<Notify>>
    <3>1. Append(<<Notify>>, SocketEvent) = <<Notify, SocketEvent>>
      BY AppendPair DEF Notify, SocketEvent
    <3> QED BY <1>8, <3>1 DEF Registration, OnRegisterSocket, Registered
  <2>2. socket_map_' = {SocketEvent} /\ UNCHANGED <<requests_, cursor>>
    BY <1>8 DEF Registration, OnRegisterSocket, Registered
  <2>3. pc'["io"] = "release"
    BY <1>0, <1>8, MovesTo DEF Registration, OnRegisterSocket
  <2>4. Len(<<Notify>>) = 1 /\ Len(<<Notify, SocketEvent>>) = 2
    OBVIOUS
  <2>5. cursor.cEvents <= 2
    BY <1>2, <2>1, <2>4 DEF Scanning
  <2> QED BY <1>2, <2>1, <2>2, <2>3, <2>4, <2>5 DEF Listed
<1>9. CASE Unregistration
  BY <1>2, <1>9 DEF Unregistration, OnUnregisterSocket
<1>10. CASE TakeEvent
  <2>1. UNCHANGED <<requests_, events_, socket_map_, cursor>>
    BY <1>10 DEF TakeEvent, OnSocketEvent, thread
  <2>2. Goto("io", "enum") \/ UNCHANGED pc
    BY <1>10 DEF TakeEvent, OnSocketEvent, Dies
  <2>3. "enum" \in IoGoes \ {"unregister"}
    BY DEF IoGoes
  <2> QED BY <1>3, <2>1, <2>2, <2>3
<1>11. CASE EnumNetworkEvents
  <2>1. UNCHANGED <<requests_, events_, socket_map_>> /\ cursor'.cEvents = cursor.cEvents
    BY <1>11 DEF EnumNetworkEvents, Scanning
  <2>2. \E l \in IoGoes \ {"unregister"} : Goto("io", l)
    BY <1>11 DEF EnumNetworkEvents, IoGoes
  <2> QED BY <1>3, <2>1, <2>2
<1>12. CASE Dispatch \/ Release \/ StepsOfRead
  <2>1. UNCHANGED <<requests_, events_, socket_map_, cursor>>
    BY <1>12 DEF Dispatch, Release, StepsOfRead, Recv, Cut, OnPacket, ClearPacket, thread
  <2>2. \E l \in IoGoes \ {"unregister"} : Goto("io", l) \/ UNCHANGED pc
    BY <1>12 DEF Dispatch, Release, StepsOfRead, Recv, RecvData, Cut, OnPacket, ClearPacket, Dies, IoGoes
  <2> QED BY <1>3, <2>1, <2>2
<1> QED BY <1>4, <1>5, <1>6, <1>7, <1>8, <1>9, <1>10, <1>11, <1>12 DEF StepsOfRun, Loop

LEMMA ListedStep ==
  ASSUME Control, Members, Lifetime, Registered, Connected, Scanning, Listed, [Next]_vars
  PROVE  Listed'
<1>0. Alive' => Alive
  BY AliveBefore
<1>1. ASSUME NEW t \in Threads, SendPacket(t) PROVE Listed'
  <2>1. UNCHANGED <<requests_, events_, socket_map_, cursor>>
    BY <1>1 DEF SendPacket, Push, Lock, TrySendPacket, Sent, Pop, thread
  <2>2. \E l \in {"lock", "sending", "sent", "test", AfterSend(t)} : Goto(t, l) \/ UNCHANGED pc
    BY <1>1 DEF SendPacket, Push, Lock, TrySendPacket, Sent, Pop, Dies
  <2>3. pc'["io"] = "unregister" => pc["io"] = "unregister"
    BY <2>2, MovesTo, After DEF Threads
  <2> QED BY <1>0, <2>1, <2>3, ListedKept
<1>2. CASE Kernel \/ Breaks \/ UNCHANGED vars
  <2>1. UNCHANGED <<pc, requests_, events_, socket_map_, cursor>>
    BY <1>2 DEF Kernel, Breaks, ConnectCompletes, Exchange, Record, Local, vars, thread
  <2> QED BY <1>0, <2>1, ListedKept
<1> QED BY <1>0, <1>1, <1>2, ListedMain, ListedClose, ListedIo, Steps

(* Nothing ends the process. *)
LEMMA LivingStep ==
  ASSUME Control, Members, Lifetime, Registered, Connected, MainHolds, Scanning, Listed, Living,
         [Next]_vars
  PROVE  Living'
<1> SUFFICES ASSUME kernel'.state = "up", Open' PROVE fault' = "none"
  BY DEF Living
<1>1. Open /\ Connecting /\ Alive /\ "main" \in refs
  <2>1. Connecting'
    BY DEF Connecting
  <2> QED BY <2>1, AliveBefore DEF Alive, MainHolds
<1>2. kernel.state = "up" \/ ConnectCompletes
  BY KernelMoves, Members DEF Connect, Breaks, Members, KernelType
<1>3. CASE UNCHANGED vars
  BY <1>1, <1>3 DEF vars, Living
<1>4. CASE fault = "none" /\ UNCHANGED fault
  BY <1>4
<1>5. ASSUME pc["main"] \notin Starting, kernel.state = "up"
      PROVE  kernel.open /\ handle_ = Socket /\ SendError = "none" /\ RecvError = "none"
  <2>1. kernel.open
    BY <1>1, <1>5 DEF Connected, Starting
  <2>2. handle_ = Socket
    BY <2>1 DEF Lifetime
  <2> QED BY <1>5, <2>1, <2>2 DEF SendError, RecvError, Socket, InvalidSocket
<1>6. ASSUME NEW t \in Threads, SendPacket(t), fault = "none" PROVE fault' = "none"
  <2>1. CASE TrySendPacket(t)
    <3>1. pc["main"] \notin Starting
      BY <2>1, Sends DEF TrySendPacket, SendLabels, Locked
    <3>2. kernel.state = "up"
      <4>1. UNCHANGED kernel \/ kernel' = [kernel EXCEPT !.armed = @ \cup {"FD_WRITE"}]
        BY <2>1 DEF TrySendPacket
      <4> QED BY <4>1 DEF Members, KernelType
    <3>3. SendError = "none"
      BY <1>5, <3>1, <3>2
    <3> QED BY <1>6, <2>1, <3>3 DEF TrySendPacket
  <2> QED BY <1>6, <2>1 DEF SendPacket, Push, Lock, Sent, Pop
<1>7. ASSUME NEW t \in Threads, CloseSession(t) PROVE FALSE
  <2>1. pc[t] \in CloseLabels
    BY <1>7 DEF CloseSession, RequestUnregisterSocket, ClearSize, CheckHandle, CloseSocket,
                Invalidate, CloseLabels
  <2>2. CASE t = "io"
    BY <1>1, <2>1, <2>2 DEF Connected
  <2>3. CASE t = "main"
    BY <1>1, <2>1, <2>3 DEF CloseLabels, Open
  <2> QED BY <2>2, <2>3 DEF Threads
<1>8. ASSUME StepsOfRun, fault = "none" PROVE fault' = "none"
  <2>1. CASE Scan
    <3>1. ~(cursor.i > cursor.cEvents) => ~(cursor.i > Len(events_))
      <4>1. Len(events_) \in Nat
        BY DEF Registered
      <4> QED BY <1>1, <4>1 DEF Listed, Scanning
    <3> QED BY <1>8, <2>1, <3>1 DEF Scan
  <2>2. CASE TakeEvent
    <3>1. pc["io"] = "event" /\ cursor.i >= 2 /\ cursor.i <= cursor.cEvents /\ cursor.cEvents <= Len(events_)
          /\ cursor.i \in Nat /\ cursor.cEvents \in Nat
      BY <1>1, <2>2 DEF TakeEvent, OnSocketEvent, Scanning, Listed
    <3>2. events_ = <<Notify, SocketEvent>> /\ cursor.i = 2
      <4>1. Len(<<>>) = 0 /\ Len(<<Notify>>) = 1 /\ Len(<<Notify, SocketEvent>>) = 2
        BY EmptySeq
      <4>2. events_ = <<>> \/ events_ = <<Notify>> \/ events_ = <<Notify, SocketEvent>>
        BY DEF Registered
      <4>3. Len(events_) >= 2
        BY <3>1, <4>1, <4>2
      <4>4. events_ = <<Notify, SocketEvent>> /\ Len(events_) = 2
        <5>1. events_ # <<>>
          BY <4>1, <4>3
        <5>2. ASSUME events_ = <<Notify>> PROVE FALSE
          <6>1. Len(events_) = 1
            BY <5>2
          <6> QED BY <4>3, <6>1
        <5>3. events_ = <<Notify, SocketEvent>>
          BY <4>2, <5>1, <5>2, Zenon
        <5> QED BY <4>1, <5>3
      <4> QED BY <3>1, <4>4
    <3>3. EventAt(cursor.i) = SocketEvent
      BY <3>2 DEF EventAt
    <3>4. SocketEvent \in socket_map_
      BY <1>1, <3>2 DEF Listed
    <3>5. ~Expired
      BY <1>1 DEF Expired
    <3> QED BY <1>8, <2>2, <3>3, <3>4, <3>5 DEF TakeEvent, OnSocketEvent
  <2>3. CASE Release
    <3>1. refs # {"io"}
      BY <1>1
    <3> QED BY <1>8, <2>3, <3>1 DEF Release
  <2>4. CASE RunTest \/ Wait \/ ResetNotify \/ TakeRequest \/ Registration \/ Unregistration
             \/ EnumNetworkEvents \/ Dispatch
    BY <1>8, <2>4 DEF RunTest, Wait, ResetNotify, TakeRequest, OnRequest, Registration,
         OnRegisterSocket, Unregistration, OnUnregisterSocket, EnumNetworkEvents, Dispatch
  <2> QED BY <1>8, <2>1, <2>2, <2>3, <2>4 DEF StepsOfRun, Loop
<1>9. ASSUME StepsOfRead, fault = "none" PROVE fault' = "none"
  <2>1. CASE Recv
    <3>1. pc["main"] \notin Starting
      BY <2>1, IoWorks DEF Recv
    <3>2. kernel.state = "up"
      BY <1>2, <2>1 DEF Recv, ConnectCompletes, Members, KernelType
    <3>3. RecvError = "none"
      BY <1>5, <3>1, <3>2
    <3> QED BY <1>9, <2>1, <3>3 DEF Recv, RecvData
  <2> QED BY <1>9, <2>1 DEF StepsOfRead, Cut, OnPacket, ClearPacket
<1>10. ASSUME StepsOfMain, fault = "none" PROVE fault' = "none"
  BY <1>10 DEF StepsOfMain, Construct, Create, RequestRegisterSocket, Connect, Pause, Return, Destroy,
       Close, Exit
<1>11. ASSUME Kernel \/ Breaks, fault = "none" PROVE fault' = "none"
  BY <1>11 DEF Kernel, Breaks, ConnectCompletes, Exchange, Record, Local
<1> QED BY <1>3, <1>6, <1>7, <1>8, <1>9, <1>10, <1>11, Steps

LEMMA KeptStep ==
  ASSUME Control, Members, Lifetime, Registered, Kept, [Next]_vars
  PROVE  Kept'
BY ConnectedStep, MainHoldsStep, ScanningStep, ListedStep, LivingStep DEF Kept

LEMMA KeptInit == Init => Kept
<1> SUFFICES ASSUME Init PROVE Kept
  OBVIOUS
<1>1. /\ pc["main"] = "construct" /\ pc["io"] = "run" /\ fault = "none" /\ refs = {"main"}
      /\ kernel.recorded = {} /\ kernel.state = "none" /\ wevents = {}
      /\ requests_ = <<>> /\ events_ = <<>> /\ cursor = NoCursor
  BY DEF Init, ThreadInit
<1>2. Connected
  BY <1>1 DEF Connected, CloseLabels
<1>3. MainHolds /\ Living
  BY <1>1 DEF MainHolds, Living
<1>4. Scanning
  BY <1>1 DEF Scanning, NoCursor, Events
<1>5. Listed
  <2>1. Len(<<>>) = 0 /\ <<>> # <<Notify, SocketEvent>>
    BY EmptySeq
  <2> QED BY <1>1, <2>1 DEF Listed, NoCursor
<1> QED BY <1>2, <1>3, <1>4, <1>5 DEF Kept

-----------------------------------------------------------------------------
(* The theorems. *)
LEMMA InitIInv == Init => IInv
BY ControlInit, MembersInit, LifetimeInit, RegisteredInit, QueuedInit, WireInit, ReceivedInit,
   KeptInit DEF IInv

LEMMA StepIInv ==
  ASSUME IInv, [Next]_vars
  PROVE  IInv'
<1>1. Control /\ Members /\ Lifetime /\ Registered /\ Queued /\ WireAccounts /\ Received /\ Kept
  BY DEF IInv
<1>2. requests_ \in Seq({"register", "unregister"})
  BY <1>1 DEF Members
<1>3. Control' /\ Members' /\ Lifetime' /\ Registered'
  BY <1>1, <1>2, ControlStep, MembersStep, LifetimeStep, RegisteredStep
<1>4. Queued' /\ WireAccounts' /\ Received' /\ Kept'
  BY <1>1, QueuedStep, WireStep, ReceivedStep, KeptStep
<1> QED BY <1>3, <1>4 DEF IInv

(* The parts of the inductive invariant hold of everything the client and  *)
(* its I/O thread do: who has the lock of the send list, where the socket, *)
(* the list and the receiver stand to what went over the connection, and   *)
(* what keeps the process alive.                                           *)
THEOREM InductiveInvariant == Spec => []IInv
<1>1. Init => IInv
  BY InitIInv
<1>2. IInv /\ [Next]_vars => IInv'
  BY StepIInv
<1> QED BY <1>1, <1>2, PTL DEF Spec

LEMMA IInvType == IInv => TypeOK
<1> SUFFICES ASSUME IInv PROVE TypeOK
  OBVIOUS
<1>0. Control /\ Members /\ Registered /\ Queued /\ Received
  BY DEF IInv
<1>1. ThreadTypeOK
  BY <1>0 DEF ThreadTypeOK, Members, Registered
<1>2. send_buffers_ \in Seq(1 .. requested)
  <2>1. /\ Len(send_buffers_) \in Nat /\ requested \in Nat /\ Len(send_buffers_) <= requested
        /\ send_buffers_ \in Seq(Nat)
        /\ \A i \in 1 .. Len(send_buffers_) : send_buffers_[i] = requested - Len(send_buffers_) + i
    BY <1>0, LenProperties DEF Queued
  <2>2. \A i \in 1 .. Len(send_buffers_) : send_buffers_[i] \in 1 .. requested
    BY <2>1
  <2>3. send_buffers_ = [i \in 1 .. Len(send_buffers_) |-> send_buffers_[i]]
    BY <2>1, LenProperties
  <2> QED BY <2>1, <2>2, <2>3, IsASeq
<1>3. /\ packet_receiver_ \in ReceiverState /\ buffer \in Seq(Byte)
      /\ remain_length \in 0 .. Len(buffer)
  BY <1>0, LenProperties DEF Received, HoldsResult, HoldsRest
<1>4. /\ requested \in 0 .. Dialogue
      /\ server.answered \in 0 .. requested
      /\ arrived \in 0 .. server.answered * ResultSize
      /\ read \in 0 .. arrived
  <2>1. /\ requested \in Nat /\ requested <= Dialogue /\ Dialogue \in Nat
        /\ server.answered \in Nat /\ server.answered <= requested
        /\ arrived \in Nat /\ arrived <= server.answered * ResultSize
        /\ read \in Nat /\ read <= arrived
    BY <1>0, ClientAssumption DEF Received, Exchanged, Members
  <2>2. server.answered * ResultSize \in Nat
    BY <2>1, Sizes
  <2> QED BY <2>1, <2>2
<1> QED BY <1>0, <1>1, <1>2, <1>3, <1>4 DEF TypeOK, Members, Control, Queued, KernelType

(* Every variable stays within its type: in particular sending_size_ never *)
(* passes the size of a request, and recv never takes more than arrived.   *)
THEOREM TypeCorrect == Spec => []TypeOK
BY InductiveInvariant, IInvType, PTL

(* While nobody closes the socket, the requests go out whole and in order, *)
(* whichever of the two threads send them, in however many pieces the      *)
(* kernel takes them, and whenever TrySendPacket stops because there is no *)
(* room.                                                                   *)
THEOREM RequestsOut == Spec => []RequestsInOrder
<1>1. IInv => RequestsInOrder
  <2> SUFFICES ASSUME IInv, Undisturbed
               PROVE  /\ wire = [i \in 1 .. Len(wire) |-> i]
                      /\ send_lock_ = "none" =>
                           Len(wire) = (requested - Len(send_buffers_)) * RequestSize + sending_size_
    BY DEF RequestsInOrder, Undisturbed
  <2>0. Control /\ Queued /\ WireAccounts
    BY DEF IInv
  <2>1. wire \in Seq(Nat) /\ \A i \in 1 .. Len(wire) : wire[i] = i
    BY <2>0 DEF Queued, WireAccounts
  <2>2. wire = [i \in 1 .. Len(wire) |-> i]
    BY <2>1, LenProperties
  <2>3. ASSUME send_lock_ = "none"
        PROVE  Len(wire) = (requested - Len(send_buffers_)) * RequestSize + sending_size_
    <3>1. \A t \in Threads : pc[t] # "sent"
      BY <2>0, <2>3 DEF Control, Locked, Threads
    <3>2. sent.len = 0
      BY <2>0, <3>1 DEF Queued
    <3>3. Len(wire) = (requested - Len(send_buffers_)) * RequestSize + sending_size_ + sent.len
      BY <2>0 DEF WireAccounts
    <3>4. (requested - Len(send_buffers_)) * RequestSize + sending_size_ \in Int
      <4>1. requested \in Nat /\ Len(send_buffers_) \in Nat /\ RequestSize \in Nat /\ sending_size_ \in Nat
        BY <2>0, LenProperties, ClientAssumption DEF Queued
      <4> QED BY <4>1
    <3> QED BY <3>2, <3>3, <3>4
  <2> QED BY <2>2, <2>3
<1> QED BY <1>1, InductiveInvariant, PTL

(* OnPacket gets each result once and in order, however recv cuts them up  *)
(* and however long the dialogue is, and no request is sent before the     *)
(* result of the one before it.                                            *)
THEOREM ResultsHandled == Spec => []ResultsInOrder
<1>1. IInv => ResultsInOrder
  <2> SUFFICES ASSUME Exchanged PROVE ResultsInOrder
    BY DEF IInv, Received
  <2>1. handled = [i \in 1 .. Len(handled) |-> {i}]
    BY LenProperties DEF Exchanged
  <2> QED BY <2>1 DEF Exchanged, ResultsInOrder
<1> QED BY <1>1, InductiveInvariant, PTL

(* No exception, assertion or stray subscript ends the process as long as  *)
(* the connection is up and main has not begun to close the session.  What *)
(* does end it takes the end of the connection or of the session.          *)
THEOREM Survival == Spec => []SurvivesWhileConnected
<1>1. IInv => SurvivesWhileConnected
  BY DEF IInv, Kept, Living, SurvivesWhileConnected
<1> QED BY <1>1, InductiveInvariant, PTL
=============================================================================
