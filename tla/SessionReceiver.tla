-------------------------- MODULE SessionReceiver --------------------------
(***************************************************************************)
(* iocplib::SessionReceiver (lib/iocplib/src/socket_session.cpp): the      *)
(* receive half of one session.  It keeps one zero-byte WSARecv pending,   *)
(* which completes when there is something to read; the worker that takes  *)
(* the completion reads the non-blocking socket until it would block,      *)
(* passing what it read to OnReceivePacket, and posts the next WSARecv.    *)
(* lock_ is held over the whole of that loop, so that the loop is several  *)
(* actions here: bytes, the end of the stream and a reset arrive between   *)
(* any two of them, and other workers run.  A completion that failed is    *)
(* handled without the lock, but for the BeginReceive in it.               *)
(*                                                                         *)
(* Bytes are named by their position in what the peer sends: 1, 2, 3, ...  *)
(***************************************************************************)
EXTENDS Integers, Sequences

CONSTANTS
  Workers,            \* the IoCompletionPortWorker threads
  NoWorker,           \* the owner of lock_ when it is free
  kSocketBufferSize,  \* the size of buffer_, 1460 in the code
  MaxBytes,           \* bound: the peer sends no more bytes than that
  Faults,             \* the failures that may happen, a subset of FaultKinds
  MaxShortages        \* bound: how many calls fail for lack of resources

(* "completion", "recv" and "arm": the pending WSARecv, recv and the call  *)
(* of WSARecv in OnReceive fail for lack of resources; "accept": so does   *)
(* the first call of WSARecv, the one in OnAccept; "close": the peer       *)
(* closes its side; "reset": the connection breaks.                        *)
FaultKinds == {"completion", "recv", "arm", "accept", "close", "reset"}

ASSUME ConstantsAssumption ==
  /\ NoWorker \notin Workers
  /\ kSocketBufferSize \in Nat \ {0}
  /\ MaxBytes \in Nat
  /\ Faults \subseteq FaultKinds
  /\ MaxShortages \in Nat

VARIABLES
  session_,    \* whether OnAccept has set session_
  receiver,    \* the members zero_byet_recv_ and recv_error_
  buffer_,     \* the bytes in the member of that name, 0 where there is none
  lock_,       \* the worker that holds lock_, or NoWorker
  posted,      \* how many WSARecvs the kernel has not finished
  port,        \* the receiver's completions waiting in the completion port
  worker,      \* what each worker is doing
  connection,  \* "open", "closed" by the peer, or "reset"
  arrived,     \* how many bytes have arrived from the peer
  taken,       \* how many of them recv has taken
  delivered,   \* the bytes passed to OnReceivePacket so far
  shortages    \* how many calls have failed for lack of resources

vars == <<session_, receiver, buffer_, lock_, posted, port, worker, connection,
          arrived, taken, delivered, shortages>>

members == <<session_, receiver, buffer_, lock_>>
kernel == <<posted, port, shortages>>
stream == <<connection, arrived, taken>>

-----------------------------------------------------------------------------
(* WSAENOBUFS stands for the three codes OnError tries again after,        *)
(* WSAECONNRESET for the others.                                           *)
Success   == "ERROR_SUCCESS"
Transient == "WSAENOBUFS"
Fatal     == "WSAECONNRESET"
Errors    == {Success, Transient, Fatal}

(* A worker waits on the port, has taken a completion, is in the loop of   *)
(* OnReceive about to call recv, has received bytes in buffer_, or has     *)
(* left the loop with dwError in err.                                      *)
WorkerStates ==
  [pc : {"waiting", "completed", "reading", "received", "leaving"},
   err : Errors, received : 0 .. kSocketBufferSize]

At(pc, err, received) == [pc |-> pc, err |-> err, received |-> received]
Waiting == At("waiting", Success, 0)

TypeOK ==
  /\ session_ \in BOOLEAN
  /\ receiver \in [zero_byet_recv : BOOLEAN, recv_error : Errors]
  /\ buffer_ \in [1 .. kSocketBufferSize -> Nat]
  /\ lock_ \in Workers \cup {NoWorker}
  /\ posted \in Nat
  /\ port \in Seq(Errors)
  /\ worker \in [Workers -> WorkerStates]
  /\ connection \in {"open", "closed", "reset"}
  /\ arrived \in Nat /\ taken \in 0 .. arrived
  /\ delivered \in Seq(Nat)
  /\ shortages \in Nat

Init ==
  /\ session_ = FALSE
  /\ receiver = [zero_byet_recv |-> FALSE, recv_error |-> Success]
  /\ buffer_ = [i \in 1 .. kSocketBufferSize |-> 0]
  /\ lock_ = NoWorker
  /\ posted = 0
  /\ port = <<>>
  /\ worker = [w \in Workers |-> Waiting]
  /\ connection = "open"
  /\ arrived = 0 /\ taken = 0
  /\ delivered = <<>>
  /\ shortages = 0

-----------------------------------------------------------------------------
(* Whether a call that may fail for lack of resources does, here and now.  *)
ShortageIn(call, n) == call \in Faults /\ n < MaxShortages

(* What a call of ::WSARecv may return, WSA_IO_PENDING counted as success, *)
(* when n calls have already failed for lack of resources.                 *)
WSARecvResults(call, n) ==
  IF connection = "reset"
  THEN {Fatal}
  ELSE {Success} \cup (IF ShortageIn(call, n) THEN {Transient} ELSE {})

(* SessionReceiver::BeginReceive, as the set of its outcomes for the       *)
(* members r when n calls have failed: the members it leaves, what it      *)
(* returns, how many WSARecvs it started and how many calls have failed.   *)
BeginReceive(call, r, n) ==
  {[members |-> [r EXCEPT !.zero_byet_recv = TRUE], ret |-> e,
    started |-> IF e = Success THEN 1 ELSE 0,
    failed  |-> IF e = Transient THEN n + 1 ELSE n] : e \in WSARecvResults(call, n)}

(* SessionReceiver::OnError for an error e: one more BeginReceive after a  *)
(* shortage, anything else is recorded.  Mutated form: no error is         *)
(* followed by another BeginReceive.                                       *)
Recorded(e, r, n) ==
  {[members |-> [r EXCEPT !.recv_error = e], ret |-> e, started |-> 0, failed |-> n]}

OnErrorNeverRetries(e, r, n) == Recorded(e, r, n)

OnError(e, r, n) ==
  IF e = Transient THEN BeginReceive("arm", r, n) ELSE Recorded(e, r, n)

(* What OnReceive does with its dwError once it has read: post the next    *)
(* WSARecv if reading went well, and OnError if either failed.  Mutated    *)
(* forms: the next WSARecv is posted whether or not reading went well;     *)
(* none is posted after reading went well.                                 *)
ReArmAnyway(e, r, n) ==
  UNION {IF e = Success
         THEN {b}
         ELSE {[b2 EXCEPT !.started = @ + b.started] : b2 \in OnError(e, b.members, b.failed)} :
         b \in BeginReceive("arm", r, n)}

ReArmForgotten(e, r, n) ==
  IF e = Success
  THEN {[members |-> r, ret |-> e, started |-> 0, failed |-> n]}
  ELSE OnError(e, r, n)

ReArm(e, r, n) ==
  UNION {IF b.ret = Success THEN {b} ELSE OnError(b.ret, b.members, b.failed) :
         b \in IF e = Success
               THEN BeginReceive("arm", r, n)
               ELSE {[members |-> r, ret |-> e, started |-> 0, failed |-> n]}}

(* The outcome b of one of these calls takes place. *)
Conclude(b) ==
  /\ receiver' = b.members
  /\ posted' = posted + b.started
  /\ shortages' = b.failed

-----------------------------------------------------------------------------
(* SocketSession::OnAccept, on the worker that accepted the connection:    *)
(* session_ is set and the first WSARecv posted.  Its error is dropped.    *)
OnAccept ==
  /\ ~session_
  /\ session_' = TRUE
  /\ \E b \in BeginReceive("accept", receiver, shortages) : Conclude(b)
  /\ UNCHANGED <<buffer_, lock_, port, worker, stream, delivered>>

(* IoCompletionPortWorker::Run takes the receiver's next completion. *)
Dequeue(w) ==
  /\ worker[w].pc = "waiting"
  /\ port # <<>>
  /\ worker' = [worker EXCEPT ![w] = At("completed", Head(port), 0)]
  /\ port' = Tail(port)
  /\ UNCHANGED <<members, posted, shortages, stream, delivered>>

(* OnReceive with a failed completion: OnError, without the lock but for   *)
(* its BeginReceive.                                                       *)
OnReceiveFailed(w) ==
  /\ worker[w].pc = "completed"
  /\ worker[w].err # Success
  /\ worker[w].err = Transient => lock_ = NoWorker
  /\ \E b \in OnError(worker[w].err, receiver, shortages) : Conclude(b)
  /\ worker' = [worker EXCEPT ![w] = Waiting]
  /\ UNCHANGED <<session_, buffer_, lock_, port, stream, delivered>>

(* OnReceive with a good one takes the lock and, when the flag says that   *)
(* this is the zero-byte WSARecv, clears the flag and starts to read.      *)
(* Mutated form: the flag is left set.                                     *)
OnReceiveKeepsFlag(w) ==
  /\ worker[w].pc = "completed"
  /\ worker[w].err = Success
  /\ lock_ = NoWorker
  /\ lock_' = w
  /\ worker' = [worker EXCEPT ![w] = At("reading", Success, 0)]
  /\ UNCHANGED <<session_, receiver, buffer_, kernel, stream, delivered>>

OnReceive(w) ==
  /\ worker[w].pc = "completed"
  /\ worker[w].err = Success
  /\ lock_ = NoWorker
  /\ IF receiver.zero_byet_recv
     THEN /\ receiver' = [receiver EXCEPT !.zero_byet_recv = FALSE]
          /\ lock_' = w
          /\ worker' = [worker EXCEPT ![w] = At("reading", Success, 0)]
     ELSE /\ worker' = [worker EXCEPT ![w] = Waiting]
          /\ UNCHANGED <<receiver, lock_>>
  /\ UNCHANGED <<session_, buffer_, kernel, stream, delivered>>

(* TryRecv returns n of the bytes that have arrived.  Mutated form: it is  *)
(* told that buffer_ is longer than it is.                                 *)
RecvDataOverruns(w) ==
  /\ worker[w].pc = "reading"
  /\ connection # "reset"
  /\ \E n \in 1 .. kSocketBufferSize + 1 :
       /\ taken + n <= arrived
       /\ buffer_' = [i \in 1 .. kSocketBufferSize + 1 |->
                        IF i <= n THEN taken + i
                        ELSE IF i \in DOMAIN buffer_ THEN buffer_[i] ELSE 0]
       /\ taken' = taken + n
       /\ worker' = [worker EXCEPT ![w] = At("received", Success, n)]
  /\ UNCHANGED <<session_, receiver, lock_, kernel, connection, arrived, delivered>>

RecvData(w) ==
  /\ worker[w].pc = "reading"
  /\ connection # "reset"
  /\ \E n \in 1 .. kSocketBufferSize :
       /\ taken + n <= arrived
       /\ buffer_' = [i \in 1 .. kSocketBufferSize |->
                        IF i <= n THEN taken + i ELSE buffer_[i]]
       /\ taken' = taken + n
       /\ worker' = [worker EXCEPT ![w] = At("received", Success, n)]
  /\ UNCHANGED <<session_, receiver, lock_, kernel, connection, arrived, delivered>>

(* TryRecv returns nothing: it would block, the peer has closed its side   *)
(* (the error is recorded, dwError stays ERROR_SUCCESS), the connection    *)
(* broke, or there is a shortage.                                          *)
RecvEnds(w) ==
  /\ worker[w].pc = "reading"
  /\ \E e \in Errors :
       /\ worker' = [worker EXCEPT ![w] = At("leaving", e, 0)]
       /\ \/ /\ e = Success /\ taken = arrived /\ connection = "open"
             /\ UNCHANGED <<receiver, shortages>>
          \/ /\ e = Success /\ taken = arrived /\ connection = "closed"
             /\ receiver' = [receiver EXCEPT !.recv_error = Fatal]
             /\ UNCHANGED shortages
          \/ /\ e = Fatal /\ connection = "reset"
             /\ UNCHANGED <<receiver, shortages>>
          \/ /\ e = Transient /\ ShortageIn("recv", shortages)
             /\ shortages' = shortages + 1
             /\ UNCHANGED receiver
  /\ UNCHANGED <<session_, buffer_, lock_, posted, port, stream, delivered>>

(* The session's OnReceivePacket gets the first received bytes of buffer_. *)
(* Mutated form: it gets all of buffer_.                                   *)
OnReceivePacketWholeBuffer(w) ==
  /\ worker[w].pc = "received"
  /\ delivered' = delivered \o buffer_
  /\ worker' = [worker EXCEPT ![w] = At("reading", Success, 0)]
  /\ UNCHANGED <<members, kernel, stream>>

OnReceivePacket(w) ==
  /\ worker[w].pc = "received"
  /\ delivered' = delivered \o [i \in 1 .. worker[w].received |-> buffer_[i]]
  /\ worker' = [worker EXCEPT ![w] = At("reading", Success, 0)]
  /\ UNCHANGED <<members, kernel, stream>>

(* The rest of OnReceive, up to the release of the lock. *)
Leave(w) ==
  /\ worker[w].pc = "leaving"
  /\ \E b \in ReArm(worker[w].err, receiver, shortages) : Conclude(b)
  /\ lock_' = NoWorker
  /\ worker' = [worker EXCEPT ![w] = Waiting]
  /\ UNCHANGED <<session_, buffer_, port, stream, delivered>>

-----------------------------------------------------------------------------
(* The peer's next byte arrives. *)
Arrives ==
  /\ connection = "open"
  /\ arrived < MaxBytes
  /\ arrived' = arrived + 1
  /\ UNCHANGED <<members, kernel, worker, connection, taken, delivered>>

(* The peer closes its side, or the connection breaks. *)
Ends ==
  /\ \/ "close" \in Faults /\ connection = "open" /\ connection' = "closed"
     \/ "reset" \in Faults /\ connection # "reset" /\ connection' = "reset"
  /\ UNCHANGED <<members, kernel, worker, arrived, taken, delivered>>

(* A pending WSARecv ends with e: well when there is something to read or  *)
(* the peer has closed, badly when there is a shortage or a broken         *)
(* connection.                                                             *)
RecvCompletes(e) ==
  /\ posted > 0
  /\ posted' = posted - 1
  /\ port' = Append(port, e)
  /\ \/ /\ e = Success /\ connection # "reset"
        /\ taken < arrived \/ connection = "closed"
        /\ UNCHANGED shortages
     \/ /\ e = Transient /\ ShortageIn("completion", shortages)
        /\ shortages' = shortages + 1
     \/ /\ e = Fatal /\ connection = "reset"
        /\ UNCHANGED shortages
  /\ UNCHANGED <<members, worker, stream, delivered>>

Step(w) ==
  \/ OnReceiveFailed(w)
  \/ OnReceive(w)
  \/ RecvData(w)
  \/ RecvEnds(w)
  \/ OnReceivePacket(w)
  \/ Leave(w)

Next ==
  \/ OnAccept
  \/ \E w \in Workers : Dequeue(w) \/ Step(w)
  \/ Arrives
  \/ Ends
  \/ \E e \in Errors : RecvCompletes(e)

Spec == Init /\ [][Next]_vars

(* A worker in OnReceive goes on, some worker takes what is in the port,   *)
(* and the kernel finishes a WSARecv it can finish.  Nothing makes the     *)
(* peer send, close or break the connection, or the server accept it.      *)
Fairness ==
  /\ WF_vars(\E w \in Workers : Dequeue(w))
  /\ \A w \in Workers : WF_vars(Step(w))
  /\ WF_vars(\E e \in Errors : RecvCompletes(e))

FairSpec == Spec /\ Fairness

-----------------------------------------------------------------------------
Busy == {w \in Workers : worker[w].pc # "waiting"}
InLoop == {w \in Workers : worker[w].pc \in {"reading", "received", "leaving"}}

(* The receiver's one OVERLAPPED and its one buffer_ are used by one at a  *)
(* time: there is a WSARecv in the kernel, or a completion in the port, or *)
(* a worker at work on one, and never two of these, so that no two workers *)
(* ever read the socket, and no zero-byte WSARecv is pending while one     *)
(* does.                                                                   *)
SingleReceive ==
  /\ posted + Len(port) <= 1
  /\ Busy # {} => posted = 0 /\ port = <<>>
  /\ \A v, w \in Busy : v = w

(* The flag tells the two kinds of completion apart as it should: set from *)
(* BeginReceive to OnReceive, so that no completion is ignored, and clear  *)
(* while a worker reads.                                                   *)
FlagMatches ==
  /\ posted > 0 \/ port # <<>> \/ Busy \ InLoop # {} => receiver.zero_byet_recv
  /\ InLoop # {} => ~receiver.zero_byet_recv
  /\ lock_ # NoWorker <=> InLoop # {}

(* The receiver implements the stream of ByteStream: OnReceivePacket gets  *)
(* the bytes in the order they were sent, none lost, none repeated and     *)
(* none left from an earlier use of buffer_.                               *)
Stream == INSTANCE ByteStream WITH submitted <- arrived, wire <- delivered
StreamSpec == Stream!Spec

(* Once its first WSARecv has been posted, every byte that arrives then or *)
(* later reaches OnReceivePacket, whatever moment between the recv that    *)
(* would block and the next WSARecv it arrives at, whether or not a        *)
(* WSARecv is pending by then, and although one call on the way fails for  *)
(* lack of resources; unless the connection breaks, or a second call       *)
(* fails.                                                                  *)
AllRead ==
  \A p \in 1 .. MaxBytes :
    [](posted > 0 =>
         (arrived >= p ~> Len(delivered) >= p \/ connection = "reset" \/ shortages > 1))

(* Once recv_error_ says that the connection is gone nothing more is       *)
(* received on it.                                                         *)
SilentAfterDisconnect ==
  receiver.recv_error = Fatal => posted = 0 /\ port = <<>>
=============================================================================
