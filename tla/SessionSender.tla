--------------------------- MODULE SessionSender ---------------------------
(***************************************************************************)
(* iocplib::SessionSender (lib/iocplib/src/socket_session.cpp): the send   *)
(* half of one session.  Any thread may call SendAsync; the socket is      *)
(* written only from OnSend, which a completion-port worker calls with     *)
(* the completions of the sender's one overlapped_context_.  Both hold     *)
(* lock_ from their first line to their last, so each is one action here;  *)
(* what interleaves with them is the kernel, which puts bytes on the wire  *)
(* and queues completions, and the time that passes between a worker's     *)
(* taking a completion off the port and its getting the lock.              *)
(*                                                                         *)
(* Bytes are named by their position in the stream of everything ever      *)
(* handed to SendAsync: 1, 2, 3, ...  A SocketBuffer is the interval of    *)
(* the positions it holds, so that a byte lost, repeated or out of order   *)
(* shows.  The constant Faults says which failures may happen.             *)
(***************************************************************************)
EXTENDS Integers, Sequences

CONSTANTS
  Workers,    \* the IoCompletionPortWorker threads
  Payloads,   \* the sizes of the data callers pass to SendAsync
  HeaderLen,  \* header_len of SocketBuffer, 4 in the code
  MaxBytes,   \* bound: no call of SendAsync takes the stream beyond it
  Faults      \* the failures that may happen, a subset of FaultKinds

(* "partial":   a WSASend completes having sent only some of its bytes;    *)
(* "transient": WSASend, or its completion, fails with one of the codes    *)
(*              OnSend and OnError list as worth another attempt;          *)
(* "post":      PostQueuedCompletionStatus fails;                          *)
(* "reset":     the connection breaks.                                     *)
FaultKinds == {"partial", "transient", "post", "reset"}

ASSUME ConstantsAssumption ==
  /\ Payloads \subseteq Nat
  /\ HeaderLen \in Nat \ {0}
  /\ MaxBytes \in Nat
  /\ Faults \subseteq FaultKinds

VARIABLES
  session_,     \* whether OnAccept has set session_
  sender,       \* the members of SessionSender that lock_ protects
  send_error_,  \* the member of that name
  calls,        \* history: what each ::WSASend of the last OnSend returned
  submitted,    \* how many bytes SendAsync has taken
  pending,      \* the overlapped WSASends the kernel has not finished
  port,         \* the sender's completions waiting in the completion port
  worker,       \* what each worker has dequeued and not handled: <<>> or <<c>>
  connected,    \* whether the connection is up
  wire          \* the bytes the kernel has put on the connection

vars == <<session_, sender, send_error_, calls, submitted, pending, port,
          worker, connected, wire>>

-----------------------------------------------------------------------------
(* The three codes of the switch in OnSend (ERROR_OPERATION_ABORTED,       *)
(* ERROR_NO_SYSTEM_RESOURCES, WSAENOBUFS) are treated alike: one stands    *)
(* for them.  WSAECONNRESET stands for the codes that reach its default.   *)
Success   == "ERROR_SUCCESS"
Transient == "WSAENOBUFS"
Fatal     == "WSAECONNRESET"
Errors    == {Success, Transient, Fatal}

(* A SocketBuffer, or a WSABUF into one: the positions from .. to-1. *)
Buffer == {b \in [from : Nat, to : Nat] : b.from < b.to}

(* A completion as GetQueuedCompletionStatus returns it. *)
Completion == [err : Errors, bytes : Nat]

(* A WSASend in progress: the buffers it has still to send, and how many   *)
(* bytes of it are on the wire.                                            *)
SendOp == [bufs : Seq(Buffer), done : Nat]

SenderState ==
  [post_send_signal : BOOLEAN,
   send_queue       : Seq(Buffer),
   sending_packets  : Seq(Buffer),
   sending_offset   : Nat]

TypeOK ==
  /\ session_ \in BOOLEAN
  /\ sender \in SenderState
  /\ send_error_ \in Errors
  /\ calls \in Seq(Errors)
  /\ submitted \in Nat
  /\ pending \in Seq(SendOp)
  /\ port \in Seq(Completion)
  /\ worker \in [Workers -> Seq(Completion)]
  /\ connected \in BOOLEAN
  /\ wire \in Seq(Nat)

Init ==
  /\ session_ = FALSE
  /\ sender = [post_send_signal |-> FALSE, send_queue |-> <<>>,
               sending_packets |-> <<>>, sending_offset |-> 0]
  /\ send_error_ = Success
  /\ calls = <<>>
  /\ submitted = 0
  /\ pending = <<>>
  /\ port = <<>>
  /\ worker = [w \in Workers |-> <<>>]
  /\ connected = TRUE
  /\ wire = <<>>

-----------------------------------------------------------------------------
(* SessionSender::OnAccept, called once by SocketSession::OnAccept. *)
OnAccept ==
  /\ ~session_
  /\ session_' = TRUE
  /\ UNCHANGED <<sender, send_error_, calls, submitted, pending, port, worker,
                 connected, wire>>

(* SocketBuffer::Allocate: the header and n bytes of data, the next bytes  *)
(* of the stream.                                                          *)
Allocate(n) == [from |-> submitted + 1, to |-> submitted + 1 + HeaderLen + n]

(* Mutated form of PostCompletionPortSignal: posts whether or not a signal *)
(* or a send is already on its way.                                        *)
AlwaysPost(s) ==
  /\ sender' = [s EXCEPT !.post_send_signal = TRUE]
  /\ port' = Append(port, [err |-> Success, bytes |-> 0])

(* PostCompletionPortSignal: wake a worker unless one is on its way.  When *)
(* the post fails the exception leaves the packet in the queue and the     *)
(* flag as it was.                                                         *)
PostCompletionPortSignal(s) ==
  \/ /\ s.post_send_signal
     /\ sender' = s
     /\ UNCHANGED port
  \/ /\ ~s.post_send_signal
     /\ sender' = [s EXCEPT !.post_send_signal = TRUE]
     /\ port' = Append(port, [err |-> Success, bytes |-> 0])
  \/ /\ ~s.post_send_signal
     /\ "post" \in Faults
     /\ sender' = s
     /\ UNCHANGED port

(* SendAsync: queue the packet, then signal the port.  Before OnAccept it  *)
(* returns at once and the packet is dropped.                              *)
SendAsync(n) ==
  /\ session_
  /\ submitted + HeaderLen + n <= MaxBytes
  /\ submitted' = submitted + HeaderLen + n
  /\ PostCompletionPortSignal(
       [sender EXCEPT !.send_queue = Append(@, Allocate(n))])
  /\ UNCHANGED <<session_, send_error_, calls, pending, worker, connected, wire>>

-----------------------------------------------------------------------------
(* The WSABUFs of BeginSend: every buffer of sending_packets_, the first   *)
(* from sending_offset_ on.  Mutated form: sending_offset_ is not added.   *)
WsaBufsFromStart(s) == s.sending_packets

WsaBufs(s) ==
  [i \in 1 .. Len(s.sending_packets) |->
     [from |-> s.sending_packets[i].from
                 + (IF i = 1 THEN s.sending_offset ELSE 0),
      to   |-> s.sending_packets[i].to]]

(* What ::WSASend may return, WSA_IO_PENDING counted as success. *)
SendResults ==
  IF connected
  THEN {Success} \cup (IF "transient" \in Faults THEN {Transient} ELSE {})
  ELSE {Fatal}

(* The loop that empties send_queue_ into sending_packets_.  Mutated form: *)
(* the packets go in front of the unsent ones.                             *)
MoveQueueInFront(s) ==
  [s EXCEPT !.sending_packets = s.send_queue \o @, !.send_queue = <<>>]

MoveQueue(s) ==
  [s EXCEPT !.sending_packets = @ \o s.send_queue, !.send_queue = <<>>]

(* The early return of BeginSend. *)
NothingToSend(s) ==
  [sender |-> [s EXCEPT !.post_send_signal = FALSE],
   ret |-> Success, calls |-> <<>>, ops |-> <<>>]

(* The call of ::WSASend, when it returns r. *)
CallWSASend(s, r) ==
  [sender |-> s, ret |-> r, calls |-> <<r>>,
   ops |-> IF r = Success THEN <<[bufs |-> WsaBufs(s), done |-> 0]>> ELSE <<>>]

(* SessionSender::BeginSend, as the set of its outcomes: the members it    *)
(* leaves, the code it returns, what ::WSASend returned if it was called,  *)
(* and the operation that started if one did.  Mutated form: the early     *)
(* return looks at the wrong list.                                         *)
BeginSendTestsSending(s) ==
  IF s.sending_packets = <<>>
  THEN {NothingToSend(s)}
  ELSE {CallWSASend(MoveQueue(s), r) : r \in SendResults}

BeginSend(s) ==
  IF s.send_queue = <<>>
  THEN {NothingToSend(s)}
  ELSE {CallWSASend(MoveQueue(s), r) : r \in SendResults}

(* The outcomes of the first BeginSend of OnSend and, when it fails with a *)
(* transient code, of the second.                                          *)
SendAttempts(s) ==
  UNION {IF b.ret = Transient
         THEN {[b2 EXCEPT !.calls = b.calls \o @] : b2 \in BeginSend(b.sender)}
         ELSE {b} : b \in BeginSend(s)}

-----------------------------------------------------------------------------
(* The bytes in the first k buffers of a list whose buffers follow one     *)
(* another in the stream, as those of sending_packets do (Tiled).          *)
SizeOfFirst(bufs, k) == IF k = 0 THEN 0 ELSE bufs[k].to - bufs[1].from

(* How many buffers the loop of OnSend pops when n bytes are to be         *)
(* accounted for: those the n bytes cover entirely.                        *)
PopCount(bufs, n) ==
  {k \in 0 .. Len(bufs) :
     /\ SizeOfFirst(bufs, k) <= n
     /\ k < Len(bufs) => n < SizeOfFirst(bufs, k + 1)}

(* The part of OnSend that takes the sent bytes out of sending_packets_.   *)
(* Mutated forms: what earlier completions had sent of the first buffer is *)
(* forgotten; the bytes of the popped buffers are not deducted.            *)
AcknowledgeForgetsOffset(s, bytes) ==
  {[s EXCEPT !.sending_packets = SubSeq(@, k + 1, Len(@)),
             !.sending_offset = IF k < Len(s.sending_packets)
                                THEN bytes - SizeOfFirst(s.sending_packets, k)
                                ELSE 0] :
     k \in PopCount(s.sending_packets, bytes)}

AcknowledgeKeepsCount(s, bytes) ==
  LET n == bytes + s.sending_offset
  IN {[s EXCEPT !.sending_packets = SubSeq(@, k + 1, Len(@)),
                !.sending_offset = IF k < Len(s.sending_packets) THEN n ELSE 0] :
        k \in PopCount(s.sending_packets, n)}

Acknowledge(s, bytes) ==
  LET n == bytes + s.sending_offset
  IN {[s EXCEPT !.sending_packets = SubSeq(@, k + 1, Len(@)),
                !.sending_offset = IF k < Len(s.sending_packets)
                                   THEN n - SizeOfFirst(s.sending_packets, k)
                                   ELSE 0] :
        k \in PopCount(s.sending_packets, n)}

(* IoCompletionPortWorker::Run takes the next completion off the port and  *)
(* finds the session alive (Acceptor::sockets_ keeps it).                  *)
Dequeue(w) ==
  /\ worker[w] = <<>>
  /\ port # <<>>
  /\ worker' = [worker EXCEPT ![w] = <<Head(port)>>]
  /\ port' = Tail(port)
  /\ UNCHANGED <<session_, sender, send_error_, calls, submitted, pending,
                 connected, wire>>

(* What OnSend leaves behind once its last BeginSend returned b. *)
Conclude(b) ==
  /\ sender' = IF b.ret = Success
               THEN b.sender
               ELSE [b.sender EXCEPT !.post_send_signal = FALSE]
  /\ send_error_' = IF b.ret = Success THEN send_error_ ELSE b.ret
  /\ calls' = b.calls
  /\ pending' = pending \o b.ops

(* SessionSender::OnSend, called by worker w with the completion it holds. *)
(* Mutated form: a failed completion returns before BeginSend.             *)
OnSendReturnsOnError(w) ==
  /\ worker[w] # <<>>
  /\ worker' = [worker EXCEPT ![w] = <<>>]
  /\ LET c == Head(worker[w])
     IN IF c.err = Success
        THEN \E s \in Acknowledge(sender, c.bytes) :
               \E b \in SendAttempts(s) : Conclude(b)
        ELSE UNCHANGED <<sender, send_error_, calls, pending>>
  /\ UNCHANGED <<session_, submitted, port, connected, wire>>

OnSend(w) ==
  /\ worker[w] # <<>>
  /\ worker' = [worker EXCEPT ![w] = <<>>]
  /\ LET c == Head(worker[w])
     IN \E s \in IF c.err = Success THEN Acknowledge(sender, c.bytes) ELSE {sender} :
          \E b \in SendAttempts(s) : Conclude(b)
  /\ UNCHANGED <<session_, submitted, port, connected, wire>>

-----------------------------------------------------------------------------
(* What a WSASend has still to send when the first byte of bufs is sent. *)
TakeFirst(bufs) ==
  IF bufs[1].from + 1 = bufs[1].to
  THEN Tail(bufs)
  ELSE [bufs EXCEPT ![1] = [bufs[1] EXCEPT !.from = @ + 1]]

(* The kernel puts the next byte of the oldest WSASend on the wire. *)
PutOnWire ==
  /\ connected
  /\ pending # <<>>
  /\ Head(pending).bufs # <<>>
  /\ wire' = Append(wire, Head(pending).bufs[1].from)
  /\ pending' = [pending EXCEPT ![1] =
                   [bufs |-> TakeFirst(@.bufs), done |-> @.done + 1]]
  /\ UNCHANGED <<session_, sender, send_error_, calls, submitted, port, worker,
                 connected>>

(* The oldest WSASend ends and its completion c is queued. *)
Complete(c) ==
  /\ pending' = Tail(pending)
  /\ port' = Append(port, c)
  /\ UNCHANGED <<session_, sender, send_error_, calls, submitted, worker,
                 connected, wire>>

(* It ends with all its bytes sent, or with some. *)
SendCompletes ==
  /\ pending # <<>>
  /\ \/ Head(pending).bufs = <<>>
     \/ "partial" \in Faults /\ Head(pending).done > 0
  /\ Complete([err |-> Success, bytes |-> Head(pending).done])

(* It fails for lack of resources before any byte is sent. *)
SendFails ==
  /\ "transient" \in Faults
  /\ pending # <<>>
  /\ Head(pending).done = 0
  /\ Complete([err |-> Transient, bytes |-> 0])

(* It fails because the connection broke. *)
SendAborts ==
  /\ ~connected
  /\ pending # <<>>
  /\ Complete([err |-> Fatal, bytes |-> 0])

(* The connection breaks. *)
Reset ==
  /\ "reset" \in Faults
  /\ connected
  /\ connected' = FALSE
  /\ UNCHANGED <<session_, sender, send_error_, calls, submitted, pending, port,
                 worker, wire>>

Kernel == PutOnWire \/ SendCompletes \/ SendFails \/ SendAborts

Next ==
  \/ OnAccept
  \/ \E n \in Payloads : SendAsync(n)
  \/ \E w \in Workers : Dequeue(w) \/ OnSend(w)
  \/ Kernel
  \/ Reset

Spec == Init /\ [][Next]_vars

(* Workers loop on the port for as long as it lives and lock_ is held only *)
(* for the length of a handler; the kernel finishes what it was given as   *)
(* long as the peer reads.  Callers need not call.                         *)
Fairness ==
  /\ WF_vars(\E w \in Workers : Dequeue(w))
  /\ \A w \in Workers : WF_vars(OnSend(w))
  /\ WF_vars(PutOnWire)
  /\ WF_vars(SendCompletes \/ SendFails \/ SendAborts)

FairSpec == Spec /\ Fairness

-----------------------------------------------------------------------------
(* The one OVERLAPPED of the sender is never in two places at once: a      *)
(* signal in the port, a WSASend in the kernel, a completion in the port   *)
(* or one in a worker's hands; and post_send_signal_ says exactly whether  *)
(* it is in one.  A second one would send sending_packets_ twice and free  *)
(* buffers the kernel is still reading.                                    *)
SingleOutstanding ==
  /\ Len(pending) + Len(port) <= 1
  /\ \A v, w \in Workers : worker[v] # <<>> /\ worker[w] # <<>> => v = w
  /\ \A w \in Workers : worker[w] # <<>> =>
       Len(worker[w]) = 1 /\ pending = <<>> /\ port = <<>>
  /\ sender.post_send_signal
       <=> pending # <<>> \/ port # <<>> \/ \E w \in Workers : worker[w] # <<>>

(* The bytes leave in the order of the calls of SendAsync, none lost and   *)
(* none repeated, whatever partial or failed sends come between.           *)
InOrder ==
  /\ Len(wire) <= submitted
  /\ \A i \in 1 .. Len(wire) : wire[i] = i

(* Every buffer a WSASend in progress still reads is kept alive by         *)
(* sending_packets_: OnSend frees none of them early.                      *)
BuffersAlive ==
  \A i \in 1 .. Len(pending) : \A j \in 1 .. Len(pending[i].bufs) :
    \E k \in 1 .. Len(sender.sending_packets) :
      /\ sender.sending_packets[k].from <= pending[i].bufs[j].from
      /\ pending[i].bufs[j].to <= sender.sending_packets[k].to

(* Where the buffers of send_queue begin, where those of sending_packets   *)
(* begin, and the position at which the sender would resume: the first     *)
(* byte it keeps that no completion has acknowledged.                      *)
QueueStart(s) ==
  IF s.send_queue = <<>> THEN submitted + 1 ELSE s.send_queue[1].from

SendingStart(s) ==
  IF s.sending_packets = <<>> THEN QueueStart(s) ELSE s.sending_packets[1].from

ResumesAt(s) == SendingStart(s) + s.sending_offset

(* Nothing is freed before it is on the wire, and when nothing is          *)
(* outstanding on a live connection the next WSASend would go on exactly   *)
(* where the wire ends: a short or failed send leaves the sender able to   *)
(* continue without a gap or a repetition.                                 *)
ResumesWhereWireEnds ==
  /\ ResumesAt(sender) <= Len(wire) + 1
  /\ connected /\ ~sender.post_send_signal => ResumesAt(sender) = Len(wire) + 1

(* No wake-up is lost: a packet is left in send_queue_ with no completion  *)
(* on its way that will find it only by the SendAsync whose post failed.   *)
Unsignalled == sender.send_queue # <<>> /\ ~sender.post_send_signal
PostFailed == submitted' # submitted /\ UNCHANGED port
QueueIsSignalled == [][Unsignalled' => Unsignalled \/ PostFailed]_vars

(* The sender implements the stream of ByteStream. *)
Stream == INSTANCE ByteStream
StreamSpec == Stream!Spec

(* Every byte handed over leaves in the end. *)
AllSent == \A p \in 1 .. MaxBytes : submitted >= p ~> Len(wire) >= p

(* Every byte handed over leaves, but for two reasons: the connection      *)
(* breaks, or no completion is on its way any more and the byte is in      *)
(* sending_packets_, left there by a send that failed or stopped short, or *)
(* in send_queue_, where QueueIsSignalled says only a failed post leaves   *)
(* it.                                                                     *)
SentUnlessStranded ==
  \A p \in 1 .. MaxBytes :
    submitted >= p ~> Len(wire) >= p \/ ~connected \/ ~sender.post_send_signal

(* "Try once more": a first WSASend that fails with one of the transient   *)
(* codes is followed by a second in the same OnSend.                       *)
RetriedOnce == calls # <<>> /\ calls[1] = Transient => Len(calls) = 2

-----------------------------------------------------------------------------
(* The inductive invariant behind SingleOutstanding, InOrder, BuffersAlive *)
(* and ResumesWhereWireEnds.                                               *)

(* The buffers of bufs hold the positions a .. z-1, each once, in order. *)
Tiles(bufs, a, z) ==
  /\ a <= z
  /\ bufs = <<>> => a = z
  /\ bufs # <<>> => bufs[1].from = a /\ bufs[Len(bufs)].to = z
  /\ \A i \in 1 .. Len(bufs) : a <= bufs[i].from /\ bufs[i].to <= z
  /\ \A i, j \in 1 .. Len(bufs) : i < j => bufs[i].to <= bufs[j].from
  /\ \A i \in 1 .. Len(bufs) - 1 : bufs[i].to = bufs[i + 1].from

(* sending_packets and then send_queue hold the end of the stream, and     *)
(* sending_offset lies within the first unsent buffer.                     *)
Tiled(s) ==
  /\ Tiles(s.send_queue, QueueStart(s), submitted + 1)
  /\ Tiles(s.sending_packets, SendingStart(s), QueueStart(s))
  /\ IF s.sending_packets = <<>>
     THEN s.sending_offset = 0
     ELSE s.sending_offset < s.sending_packets[1].to - s.sending_packets[1].from

(* The wire has reached some position of sending_packets. *)
WireWithin(s) ==
  /\ ResumesAt(s) <= Len(wire) + 1
  /\ Len(wire) + 1 <= QueueStart(s)

(* What a completion tells of the sender: how far beyond the acknowledged  *)
(* bytes the wire has got; no further than that once the connection broke. *)
Accounts(c) ==
  /\ ResumesAt(sender) + c.bytes <= Len(wire) + 1
  /\ connected => ResumesAt(sender) + c.bytes = Len(wire) + 1
  /\ c.err # Success => c.bytes = 0

(* A WSASend in progress has still to send all that is between the end of  *)
(* the wire and the end of sending_packets.                                *)
SendAccounts(op) ==
  /\ ResumesAt(sender) + op.done = Len(wire) + 1
  /\ Tiles(op.bufs, Len(wire) + 1, QueueStart(sender))

PortAccounts == \A i \in 1 .. Len(port) : Accounts(port[i])
WorkerAccounts == \A w \in Workers : \A i \in 1 .. Len(worker[w]) : Accounts(worker[w][i])
PendingAccounts == \A i \in 1 .. Len(pending) : SendAccounts(pending[i])

(* With nothing outstanding all that was sent is acknowledged. *)
IdleAccounts ==
  connected /\ ~sender.post_send_signal => ResumesAt(sender) = Len(wire) + 1

Prefix == \A i \in 1 .. Len(wire) : wire[i] = i

IInv ==
  /\ TypeOK
  /\ SingleOutstanding
  /\ Tiled(sender)
  /\ WireWithin(sender)
  /\ Prefix
  /\ BuffersAlive
  /\ PendingAccounts
  /\ PortAccounts
  /\ WorkerAccounts
  /\ IdleAccounts
=============================================================================
