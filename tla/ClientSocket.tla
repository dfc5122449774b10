---------------------------- MODULE ClientSocket ----------------------------
(***************************************************************************)
(* winsocklib::ClientSocket (lib/winsocklib/client_socket.h) over          *)
(* SocketIoThread, WinSock and PacketReceiver, in the hands of the example *)
(* client (examples/client): main connects, sends a login request, waits   *)
(* for a key, closes the socket and returns; each result that arrives has  *)
(* the I/O thread send the next request.  The connection and the server at *)
(* its other end are what ByteStream and ServerSession promise: bytes      *)
(* arrive in order, and whole requests are answered in order.              *)
(*                                                                         *)
(* All requests have one size and all results have one, so that a packet   *)
(* is its number, and a byte its position in the stream it belongs to.     *)
(***************************************************************************)
EXTENDS SocketIoThread, PacketReceiver

CONSTANTS
  Dialogue,           \* how many requests the dialogue has, 3 in the example
  RequestSize,        \* the bytes of a request, header and data
  ResultSize,         \* the bytes of a result, header and data
  kSocketBufferSize,  \* the size of recv_buffer_, 1460 in the code
  SendRoom,           \* how many bytes the kernel keeps that the server has not read
  Faults              \* what may befall the connection, a subset of FaultKinds

(* connect fails at once ("connect") or later ("refused"), the server      *)
(* closes its side ("close"), the connection breaks ("reset").             *)
FaultKinds == {"connect", "refused", "close", "reset"}

ASSUME ClientAssumption ==
  /\ Dialogue \in Nat \ {0}
  /\ RequestSize \in Nat \ {0}
  /\ ResultSize \in Nat /\ ResultSize > kPacketLengthSize
  /\ ResultSize < UINT32
  /\ kSocketBufferSize \in Nat \ {0}
  /\ SendRoom \in Nat \ {0}
  /\ Faults \subseteq FaultKinds

VARIABLES
  handle_,       \* the member of WinSock, Socket or InvalidSocket
  send_buffers_, \* the requests in the list of that name, by number
  sending_size_,
  send_lock_,    \* the thread that has it, or "none"
  sent,          \* what send returned, and sending_size_ when it was called
  packet_receiver_,
  buffer,        \* the bytes in recv_buffer_ that OnReceive is given
  remain_length,
  wevents,       \* the network events still to be handled
  refs,          \* who has a shared_ptr to the session
  requested,     \* how many requests the application has sent
  handled,       \* the numbers of the results OnPacket has got
  kernel,        \* the socket: open, the connection, what WSAEventSelect keeps
  wire,          \* the positions of the bytes send has taken
  server,        \* how many bytes the server has read, and requests answered
  arrived,       \* how many bytes of results have arrived
  read           \* how many of them recv has taken

sending == <<send_buffers_, sending_size_, send_lock_, sent, requested, wire>>
reading == <<packet_receiver_, buffer, remain_length, handled, read>>
remote  == <<server, arrived>>
vars == <<thread, signalled, pc, fault, handle_, sending, reading, wevents, refs,
          kernel, remote>>

Socket        == "socket"
InvalidSocket == "INVALID_SOCKET"
NetworkEvents == {"FD_READ", "FD_WRITE", "FD_CLOSE"}
States        == {"none", "connecting", "up", "failed", "closed", "reset"}

TypeOK ==
  /\ ThreadTypeOK
  /\ handle_ \in {Socket, InvalidSocket}
  /\ send_buffers_ \in Seq(1 .. requested)
  /\ sending_size_ \in 0 .. RequestSize
  /\ send_lock_ \in Threads \cup {"none"}
  /\ packet_receiver_ \in ReceiverState
  /\ buffer \in Seq(Byte) /\ remain_length \in 0 .. Len(buffer)
  /\ wevents \subseteq NetworkEvents
  /\ refs \subseteq Threads
  /\ requested \in 0 .. Dialogue
  /\ kernel \in [open : BOOLEAN, state : States, selected : BOOLEAN,
                 armed : SUBSET NetworkEvents, recorded : SUBSET NetworkEvents]
  /\ server.answered \in 0 .. requested
  /\ arrived \in 0 .. server.answered * ResultSize
  /\ read \in 0 .. arrived

Init ==
  /\ ThreadInit
  /\ pc = [main |-> "construct", io |-> "run"]
  /\ fault = "none"
  /\ handle_ = InvalidSocket
  /\ send_buffers_ = <<>> /\ sending_size_ = 0 /\ send_lock_ = "none"
  /\ sent = [len |-> 0, base |-> 0]
  /\ packet_receiver_ = NewReceiver /\ buffer = <<>> /\ remain_length = 0
  /\ wevents = {}
  /\ refs = {"main"}
  /\ requested = 0 /\ handled = <<>>
  /\ kernel = [open |-> FALSE, state |-> "none", selected |-> FALSE,
               armed |-> NetworkEvents, recorded |-> {}]
  /\ wire = <<>> /\ server = [taken |-> 0, answered |-> 0]
  /\ arrived = 0 /\ read = 0

Running == fault = "none" /\ pc["main"] # "exited"

(* Where a thread goes on after SendPacket, called by main or, with a whole *)
(* packet at hand, by OnPacket, or after TrySendPacket in OnSocketWrite;   *)
(* and after Close, called by main or by OnSocketClose.                    *)
AfterSend(t) ==
  IF t = "main" THEN "pause"
  ELSE IF IsComplete(packet_receiver_) THEN "clear packet" ELSE "dispatch"

AfterClose(t) == IF t = "main" THEN "return" ELSE "dispatch"

-----------------------------------------------------------------------------
(* Connect on the main thread: a non-blocking socket, the request to the   *)
(* I/O thread, and ::connect, for which WSAEWOULDBLOCK counts as success.  *)
Construct ==
  /\ pc["main"] = "construct"
  /\ events_' = <<Notify>>
  /\ Goto("main", "create")
  /\ UNCHANGED <<running_, requests_, socket_map_, event_map_, cursor, signalled, fault,
                 handle_, sending, reading, wevents, refs, kernel, remote>>

Create ==
  /\ pc["main"] = "create"
  /\ handle_' = Socket
  /\ kernel' = [kernel EXCEPT !.open = TRUE]
  /\ Goto("main", "register")
  /\ UNCHANGED <<thread, signalled, fault, sending, reading, wevents, refs, remote>>

RequestRegisterSocket ==
  /\ pc["main"] = "register"
  /\ Request("register")
  /\ Goto("main", "connect")
  /\ UNCHANGED <<fault, handle_, sending, reading, wevents, refs, kernel, remote>>

Connect ==
  /\ pc["main"] = "connect"
  /\ \/ /\ kernel' = [kernel EXCEPT !.state = "connecting"]
        /\ Goto("main", "push")
     \/ /\ "connect" \in Faults
        /\ kernel' = [kernel EXCEPT !.state = "failed"]
        /\ Goto("main", "return")
       
  /\ UNCHANGED <<thread, signalled, fault, handle_, sending, reading, wevents, refs, remote>>

-----------------------------------------------------------------------------
(* SendPacket, then TrySendPacket, which holds send_lock_ over its loop.   *)
Push(t) ==
  /\ pc[t] = "push"
  /\ send_lock_ = "none"
  /\ requested' = requested + 1
  /\ send_buffers_' = Append(send_buffers_, requested + 1)
  /\ Goto(t, "lock")
  /\ UNCHANGED <<thread, signalled, fault, handle_, sending_size_, send_lock_, sent, wire,
                 reading, wevents, refs, kernel, remote>>

Lock(t) ==
  /\ pc[t] = "lock"
  /\ send_lock_ = "none"
  /\ send_lock_' = t
  /\ Goto(t, "sending")
  /\ UNCHANGED <<thread, signalled, fault, handle_, send_buffers_, sending_size_, sent,
                 requested, wire, reading, wevents, refs, kernel, remote>>

Room == SendRoom - (Len(wire) - server.taken)

(* WinSock::Send throws for every error but WSAEWOULDBLOCK. *)
SendError ==
  IF handle_ = InvalidSocket \/ ~kernel.open THEN "WSAENOTSOCK"
  ELSE IF kernel.state \in {"connecting", "failed"} THEN "WSAENOTCONN"
  ELSE IF kernel.state = "reset" THEN "WSAECONNRESET"
  ELSE "none"

TrySendPacket(t) ==
  /\ pc[t] = "sending"
  /\ \/ /\ send_buffers_ = <<>>
        /\ send_lock_' = "none"
        /\ Goto(t, AfterSend(t))
        /\ UNCHANGED <<fault, sent, wire, kernel>>
     \/ /\ send_buffers_ # <<>>
        /\ SendError # "none"
        /\ Dies(SendError)
        /\ UNCHANGED <<send_lock_, sent, wire, kernel>>
     \/ /\ send_buffers_ # <<>>
        /\ SendError = "none"
        /\ Room = 0
        /\ send_lock_' = "none"
        /\ kernel' = [kernel EXCEPT !.armed = @ \cup {"FD_WRITE"}]
        /\ Goto(t, AfterSend(t))
        /\ UNCHANGED <<fault, sent, wire>>
     \/ /\ send_buffers_ # <<>>
        /\ SendError = "none"
        /\ \E n \in 1 .. Least(Room, RequestSize - sending_size_) :
             /\ sent' = [len |-> n, base |-> sending_size_]
             /\ wire' = wire \o [i \in 1 .. n |->
                          (Head(send_buffers_) - 1) * RequestSize + sending_size_ + i]
        /\ Goto(t, "sent")
        /\ UNCHANGED <<fault, send_lock_, kernel>>
  /\ UNCHANGED <<thread, signalled, handle_, send_buffers_, sending_size_, requested,
                 reading, wevents, refs, remote>>

(* sending_size_ += len, while the other thread may have cleared it, and   *)
(* the test that follows.  Mutated form: what was sent only in part is     *)
(* taken for sent.                                                         *)
Sent(t) ==
  /\ pc[t] = "sent"
  /\ \E from \in {sent.base, sending_size_} : sending_size_' = from + sent.len
  /\ sent' = [len |-> 0, base |-> 0]
  /\ Goto(t, "test")
  /\ UNCHANGED <<thread, signalled, fault, handle_, send_buffers_, send_lock_, requested, wire,
                 reading, wevents, refs, kernel, remote>>

PopAfterAny(t) ==
  /\ pc[t] = "test"
  /\ send_buffers_' = Tail(send_buffers_)
  /\ sending_size_' = 0
  /\ Goto(t, "sending")
  /\ UNCHANGED <<thread, signalled, fault, handle_, send_lock_, sent, requested, wire,
                 reading, wevents, refs, kernel, remote>>

Pop(t) ==
  /\ pc[t] = "test"
  /\ IF sending_size_ < RequestSize
     THEN UNCHANGED <<send_buffers_, sending_size_>>
     ELSE send_buffers_' = Tail(send_buffers_) /\ sending_size_' = 0
  /\ Goto(t, "sending")
  /\ UNCHANGED <<thread, signalled, fault, handle_, send_lock_, sent, requested, wire,
                 reading, wevents, refs, kernel, remote>>

-----------------------------------------------------------------------------
(* Close, on either thread: the unregistration is requested, sending_size_ *)
(* cleared without the lock, and WinSock::Close called: it tests handle_,  *)
(* closes the socket, asserts that this went well, and clears handle_.     *)
RequestUnregisterSocket(t) ==
  /\ pc[t] = "close"
  /\ Request("unregister")
  /\ Goto(t, "clear")
  /\ UNCHANGED <<fault, handle_, sending, reading, wevents, refs, kernel, remote>>

ClearSize(t) ==
  /\ pc[t] = "clear"
  /\ sending_size_' = 0
  /\ Goto(t, "check")
  /\ UNCHANGED <<thread, signalled, fault, handle_, send_buffers_, send_lock_, sent, requested,
                 wire, reading, wevents, refs, kernel, remote>>

CheckHandle(t) ==
  /\ pc[t] = "check"
  /\ Goto(t, IF handle_ # InvalidSocket THEN "closesocket" ELSE AfterClose(t))
  /\ UNCHANGED <<thread, signalled, fault, handle_, sending, reading, wevents, refs,
                 kernel, remote>>

CloseFails == handle_ = InvalidSocket \/ ~kernel.open

CloseSocket(t) ==
  /\ pc[t] = "closesocket"
  /\ IF CloseFails /\ Debug
     THEN Dies("assert")
     ELSE Goto(t, "invalidate") /\ UNCHANGED fault
  /\ kernel' = IF CloseFails
               THEN kernel
               ELSE [kernel EXCEPT !.open = FALSE, !.selected = FALSE,
                                   !.armed = {}, !.recorded = {}]
  /\ UNCHANGED <<thread, signalled, handle_, sending, reading, wevents, refs, remote>>

Invalidate(t) ==
  /\ pc[t] = "invalidate"
  /\ handle_' = InvalidSocket
  /\ Goto(t, AfterClose(t))
  /\ UNCHANGED <<thread, signalled, fault, sending, reading, wevents, refs, kernel, remote>>

(* main waits for a key and closes; then it returns, and unless the I/O    *)
(* thread has the last reference the session is destroyed on this thread,  *)
(* with its SocketIoThread (Close of that module).                         *)
Pause ==
  /\ pc["main"] = "pause"
  /\ Goto("main", "close")
  /\ UNCHANGED <<thread, signalled, fault, handle_, sending, reading, wevents, refs, kernel, remote>>

Return ==
  /\ pc["main"] = "return"
  /\ refs' = refs \ {"main"}
  /\ Goto("main", IF refs = {"main"} THEN "stop" ELSE "exit")
  /\ UNCHANGED <<thread, signalled, fault, handle_, sending, reading, wevents, kernel, remote>>

Destroy ==
  /\ Close
  /\ UNCHANGED <<handle_, sending, reading, wevents, refs, kernel, remote>>

Exit ==
  /\ pc["main"] = "exit"
  /\ Goto("main", "exited")
  /\ UNCHANGED <<thread, signalled, fault, handle_, sending, reading, wevents, refs,
                 kernel, remote>>

-----------------------------------------------------------------------------
(* The I/O thread: each step of Run keeps the socket alive while it works  *)
(* for it, so long as somebody else does when it begins.                   *)
Expired == refs = {}

Untouched == UNCHANGED <<handle_, sending, reading, kernel, remote>>

Loop == (RunTest \/ Wait \/ ResetNotify \/ Scan) /\ Untouched /\ UNCHANGED <<wevents, refs>>

Hold == refs' = IF pc'["io"] \in {"register", "unregister", "enum"} THEN refs \cup {"io"} ELSE refs

TakeRequest == OnRequest(Expired) /\ Hold /\ Untouched /\ UNCHANGED wevents

TakeEvent == OnSocketEvent(Expired) /\ Hold /\ Untouched /\ UNCHANGED wevents

(* WSAEventSelect fails on a socket that is closed, and nobody notices.    *)
Registration ==
  /\ OnRegisterSocket(handle_)
  /\ kernel' = [kernel EXCEPT !.selected = kernel.open /\ handle_ = Socket]
  /\ UNCHANGED <<handle_, sending, reading, wevents, refs, remote>>

Unregistration ==
  /\ OnUnregisterSocket(handle_)
  /\ Untouched /\ UNCHANGED <<wevents, refs>>

(* WSAEnumNetworkEvents takes what is recorded and resets the event; if it *)
(* fails the event stays signalled.                                        *)
EnumNetworkEvents ==
  /\ pc["io"] = "enum"
  /\ cursor' = [cursor EXCEPT !.i = @ + 1]
  /\ IF handle_ = InvalidSocket \/ ~kernel.open
     THEN Goto("io", "release") /\ UNCHANGED <<signalled, kernel, wevents>>
     ELSE /\ Goto("io", "dispatch")
          /\ wevents' = kernel.recorded
          /\ kernel' = [kernel EXCEPT !.recorded = {}]
          /\ signalled' = signalled \ {SocketEvent}
  /\ UNCHANGED <<running_, requests_, events_, socket_map_, event_map_, fault, handle_, sending,
                 reading, refs, remote>>

(* OnSocketRead, OnSocketWrite and OnSocketClose, in this order.  Mutated  *)
(* form: FD_WRITE is not acted on.                                         *)
DispatchWithoutWrite ==
  /\ pc["io"] = "dispatch"
  /\ \/ /\ "FD_READ" \in wevents
        /\ wevents' = wevents \ {"FD_READ"}
        /\ Goto("io", "read")
     \/ /\ "FD_READ" \notin wevents /\ "FD_CLOSE" \in wevents
        /\ wevents' = {}
        /\ Goto("io", "close")
     \/ /\ wevents \subseteq {"FD_WRITE"}
        /\ wevents' = {}
        /\ Goto("io", "release")
  /\ UNCHANGED <<thread, signalled, fault, handle_, sending, reading, refs, kernel, remote>>

Dispatch ==
  /\ pc["io"] = "dispatch"
  /\ \/ /\ "FD_READ" \in wevents
        /\ wevents' = wevents \ {"FD_READ"}
        /\ Goto("io", "read")
     \/ /\ "FD_READ" \notin wevents /\ "FD_WRITE" \in wevents
        /\ wevents' = wevents \ {"FD_WRITE"}
        /\ Goto("io", "lock")
     \/ /\ wevents = {"FD_CLOSE"}
        /\ wevents' = {}
        /\ Goto("io", "close")
     \/ /\ wevents = {}
        /\ Goto("io", "release") /\ UNCHANGED wevents
  /\ UNCHANGED <<thread, signalled, fault, handle_, sending, reading, refs, kernel, remote>>

-----------------------------------------------------------------------------
(* The byte at position p of the stream of results. *)
ResultByte(p) ==
  LET i == (p - 1) % ResultSize
  IN [pos   |-> p,
      value |-> IF i < kPacketLengthSize
                THEN ((ResultSize - kPacketLengthSize) \div Weight[i]) % Base
                ELSE 1]

(* WinSock::Recv returns -1 for WSAEWOULDBLOCK and throws for every other  *)
(* error.                                                                  *)
RecvError ==
  IF handle_ = InvalidSocket \/ ~kernel.open THEN "WSAENOTSOCK"
  ELSE IF kernel.state = "reset" THEN "WSAECONNRESET"
  ELSE "none"

(* A turn of the outer loop of OnSocketRead: recv. Mutated form: it throws *)
(* when it would block.                                                    *)
RecvData ==
  /\ read < arrived
  /\ \E n \in 1 .. Least(arrived - read, kSocketBufferSize) :
       /\ buffer' = [i \in 1 .. n |-> ResultByte(read + i)]
       /\ remain_length' = n
       /\ read' = read + n
  /\ Goto("io", "cut")
  /\ UNCHANGED fault

RecvThrows ==
  /\ pc["io"] = "read"
  /\ kernel' = [kernel EXCEPT !.armed = @ \cup {"FD_READ"}]
  /\ \/ /\ RecvError = "none"
        /\ RecvData
     \/ /\ RecvError # "none" \/ read = arrived
        /\ Dies(IF RecvError = "none" THEN "WSAEWOULDBLOCK" ELSE RecvError)
        /\ UNCHANGED <<buffer, remain_length, read>>
  /\ UNCHANGED <<thread, signalled, handle_, sending, packet_receiver_, handled, wevents,
                 refs, remote>>

Recv ==
  /\ pc["io"] = "read"
  /\ kernel' = [kernel EXCEPT !.armed = @ \cup {"FD_READ"}]
  /\ \/ /\ RecvError = "none"
        /\ RecvData
     \/ /\ RecvError = "none" /\ read = arrived
        /\ Goto("io", "dispatch")
        /\ UNCHANGED <<fault, buffer, remain_length, read>>
     \/ /\ RecvError # "none"
        /\ Dies(RecvError)
        /\ UNCHANGED <<buffer, remain_length, read>>
  /\ UNCHANGED <<thread, signalled, handle_, sending, packet_receiver_, handled, wevents,
                 refs, remote>>

(* The inner loop: OnReceive gets all that was received, whatever remains  *)
(* of it.  A whole packet goes to OnPacket, and Clear follows.             *)
Continue(remain) ==
  /\ remain_length' = remain
  /\ buffer' = IF remain = 0 THEN <<>> ELSE buffer

Cut ==
  /\ pc["io"] = "cut"
  /\ LET got == OnReceive(packet_receiver_, buffer, Len(buffer))
     IN /\ packet_receiver_' = got.receiver
        /\ Continue(got.remain)
        /\ Goto("io", IF IsComplete(got.receiver) THEN "packet"
                      ELSE IF got.remain > 0 THEN "cut" ELSE "read")
  /\ UNCHANGED <<thread, signalled, fault, handle_, sending, handled, read, wevents, refs,
                 kernel, remote>>

(* OnPacket of the example: the result of a login or a connect is followed *)
(* by the next request.  Bytes that are no result do not verify.           *)
ResultOf(data) ==
  {k \in 1 .. Dialogue :
     data = [i \in 1 .. ResultSize - kPacketLengthSize |->
               ResultByte((k - 1) * ResultSize + kPacketLengthSize + i)]}

OnPacket ==
  /\ pc["io"] = "packet"
  /\ LET results == ResultOf(Data(packet_receiver_))
     IN IF \E k \in results : k < Dialogue
        THEN Goto("io", "push")
        ELSE Goto("io", "clear packet")
  /\ handled' = handled \o [i \in 1 .. 1 |-> ResultOf(Data(packet_receiver_))]
  /\ UNCHANGED <<thread, signalled, fault, handle_, sending, packet_receiver_, buffer,
                 remain_length, read, wevents, refs, kernel, remote>>

ClearPacketForgotten ==
  /\ pc["io"] = "clear packet"
  /\ Goto("io", IF remain_length > 0 THEN "cut" ELSE "read")
  /\ UNCHANGED <<thread, signalled, fault, handle_, sending, reading, wevents, refs, kernel, remote>>

(* Mutated form, above: the packet is not cleared. *)
ClearPacket ==
  /\ pc["io"] = "clear packet"
  /\ packet_receiver_' = Clear(packet_receiver_)
  /\ Goto("io", IF remain_length > 0 THEN "cut" ELSE "read")
  /\ UNCHANGED <<thread, signalled, fault, handle_, sending, buffer, remain_length, handled, read,
                 wevents, refs, kernel, remote>>

(* The end of OnSocketEvent, OnRegisterSocket or OnUnregisterSocket lets   *)
(* go of the session.  If nobody else has it, it is destroyed here, and    *)
(* ~SocketIoThread has the thread join itself, which throws.               *)
Release ==
  /\ pc["io"] = "release"
  /\ refs' = refs \ {"io"}
  /\ IF refs = {"io"}
     THEN Dies("join")
     ELSE Goto("io", "scan") /\ UNCHANGED fault
  /\ UNCHANGED <<thread, signalled, handle_, sending, reading, wevents, kernel, remote>>

-----------------------------------------------------------------------------
(* The connection, and the server at its other end. *)
Local == UNCHANGED <<thread, pc, fault, handle_, sending, reading, wevents, refs>>

ConnectCompletes ==
  /\ kernel.open /\ kernel.state = "connecting"
  /\ \/ kernel' = [kernel EXCEPT !.state = "up"]
     \/ "refused" \in Faults /\ kernel' = [kernel EXCEPT !.state = "failed"]
  /\ Local /\ UNCHANGED <<signalled, remote>>

Breaks ==
  /\ kernel.open /\ kernel.state = "up"
  /\ \/ "close" \in Faults /\ kernel' = [kernel EXCEPT !.state = "closed"]
     \/ "reset" \in Faults /\ kernel' = [kernel EXCEPT !.state = "reset"]
  /\ Local /\ UNCHANGED <<signalled, remote>>

(* A network event is recorded once, until the call that enables it again. *)
Holds(e) ==
  \/ e = "FD_READ" /\ kernel.state \in {"up", "closed"} /\ read < arrived
  \/ e = "FD_WRITE" /\ kernel.state = "up" /\ Room > 0
  \/ e = "FD_CLOSE" /\ kernel.state \in {"closed", "reset"}

Record(e) ==
  /\ kernel.selected /\ e \in kernel.armed /\ Holds(e)
  /\ kernel' = [kernel EXCEPT !.armed = @ \ {e}, !.recorded = @ \cup {e}]
  /\ signalled' = signalled \cup {SocketEvent}
  /\ Local /\ UNCHANGED remote

Exchange ==
  /\ kernel.open /\ kernel.state = "up"
  /\ \/ /\ server.taken < Len(wire)
        /\ server' = [server EXCEPT !.taken = @ + 1]
        /\ UNCHANGED arrived
     \/ /\ server.taken >= (server.answered + 1) * RequestSize
        /\ \A i \in 1 .. (server.answered + 1) * RequestSize : wire[i] = i
        /\ server' = [server EXCEPT !.answered = @ + 1]
        /\ UNCHANGED arrived
     \/ /\ arrived < server.answered * ResultSize
        /\ arrived' \in arrived + 1 .. server.answered * ResultSize
        /\ UNCHANGED server
  /\ Local /\ UNCHANGED <<signalled, kernel>>

-----------------------------------------------------------------------------
SendPacket(t) == Push(t) \/ Lock(t) \/ TrySendPacket(t) \/ Sent(t) \/ Pop(t)

CloseSession(t) ==
  RequestUnregisterSocket(t) \/ ClearSize(t) \/ CheckHandle(t) \/ CloseSocket(t) \/ Invalidate(t)

MainStep ==
  \/ Construct \/ Create \/ RequestRegisterSocket \/ Connect \/ SendPacket("main")
  \/ CloseSession("main") \/ Return \/ Destroy \/ Exit

IoStep ==
  \/ Loop \/ TakeRequest \/ TakeEvent \/ Registration \/ Unregistration \/ EnumNetworkEvents
  \/ Dispatch \/ Recv \/ Cut \/ OnPacket \/ ClearPacket \/ Release
  \/ SendPacket("io") \/ CloseSession("io")

Kernel == ConnectCompletes \/ Exchange \/ \E e \in NetworkEvents : Record(e)

Next == Running /\ (MainStep \/ Pause \/ IoStep \/ Kernel \/ Breaks)

Spec == Init /\ [][Next]_vars

(* Both threads run, and the kernel and the server go on.  Nobody has to   *)
(* press the key.                                                          *)
Fairness ==
  /\ WF_vars(Running /\ MainStep)
  /\ WF_vars(Running /\ IoStep)
  /\ WF_vars(Running /\ Kernel)

FairSpec == Spec /\ Fairness

-----------------------------------------------------------------------------
(* main has not begun to close the session. *)
Open == pc["main"] \in
  {"construct", "create", "register", "connect", "push", "lock", "sending", "sent", "test", "pause"}

(* While nobody closes the socket, the requests go out whole and in order, *)
(* whichever threads send them in however many pieces: the next send goes  *)
(* on exactly where the wire ends.                                         *)
RequestsInOrder ==
  kernel.open /\ (\A t \in Threads : pc[t] \notin {"check", "closesocket"})
    => /\ wire = [i \in 1 .. Len(wire) |-> i]
       /\ send_lock_ = "none" =>
            Len(wire) = (requested - Len(send_buffers_)) * RequestSize + sending_size_

(* OnPacket gets each result once and in order, and no request is sent     *)
(* before the result of the one before it.                                 *)
ResultsInOrder ==
  /\ handled = [i \in 1 .. Len(handled) |-> {i}]
  /\ requested <= Len(handled) + 1

(* The process dies of no exception and no stray access as long as the     *)
(* connection is up and main has not begun to close the session.           *)
SurvivesWhileConnected == kernel.state = "up" /\ Open => fault = "none"

(* The assertion of WinSock::Close: closesocket does not fail. *)
CloseAssertion == fault # "assert"

(* The dialogue goes on to its end, unless the connection does not come up *)
(* or is lost, main closes it, or the process dies.                        *)
DialogueCompletes ==
  <>(\/ Len(handled) = Dialogue
     \/ fault # "none"
     \/ ~Open
     \/ kernel.state \notin {"none", "connecting", "up"})

(* Once main destroys the session the I/O thread ends and main returns, or *)
(* the process dies.                                                       *)
ShutdownCompletes == pc["main"] = "stop" ~> pc["main"] = "exited" \/ fault # "none"
=============================================================================
