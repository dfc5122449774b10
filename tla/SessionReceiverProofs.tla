----------------------- MODULE SessionReceiverProofs -----------------------
(***************************************************************************)
(* Proofs about SessionReceiver, for any set of workers, any size of       *)
(* buffer_, any bound on the stream and any set of failures.  IInv is      *)
(* inductive; the safety properties of the module and its refinement of    *)
(* ByteStream follow from it.                                              *)
(***************************************************************************)
EXTENDS SessionReceiver, SequenceTheorems, TLAPS

Members == [zero_byet_recv : BOOLEAN, recv_error : Errors]

(* What BeginReceive and the calls built from it may come to. *)
Outcome == [members : Members, ret : Errors, started : 0 .. 1, failed : Nat]

-----------------------------------------------------------------------------
(* The inductive invariant. *)

(* Nothing happens before OnAccept has posted the first WSARecv. *)
SilentBeforeAccept == ~session_ => posted = 0 /\ port = <<>> /\ Busy = {}

(* lock_ is held by the worker in the loop of OnReceive. *)
LockHeld ==
  /\ \A w \in InLoop : lock_ = w
  /\ InLoop = {} => lock_ = NoWorker

(* What OnReceivePacket was given is the beginning of the stream. *)
Prefix == \A i \in 1 .. Len(delivered) : delivered[i] = i

(* What recv has taken is what OnReceivePacket was given and, between the  *)
(* two calls, the beginning of buffer_.                                    *)
Receiving == {w \in Workers : worker[w].pc = "received"}

BufferAccounts ==
  /\ Receiving = {} => taken = Len(delivered)
  /\ \A w \in Receiving :
       /\ worker[w].received >= 1
       /\ taken = Len(delivered) + worker[w].received
       /\ \A i \in 1 .. worker[w].received : buffer_[i] = Len(delivered) + i

IInv ==
  /\ TypeOK
  /\ SingleReceive
  /\ FlagMatches
  /\ SilentBeforeAccept
  /\ LockHeld
  /\ Prefix
  /\ BufferAccounts

-----------------------------------------------------------------------------
(* What the calls may come to. *)

(* BeginReceive starts at most one WSARecv, and sets the flag. *)
LEMMA BeginReceiveOutcome ==
  ASSUME NEW call, NEW r \in Members, NEW n \in Nat, NEW b \in BeginReceive(call, r, n)
  PROVE  b \in Outcome /\ b.members.zero_byet_recv
<1>1. PICK e \in WSARecvResults(call, n) :
        b = [members |-> [r EXCEPT !.zero_byet_recv = TRUE], ret |-> e,
             started |-> IF e = Success THEN 1 ELSE 0,
             failed  |-> IF e = Transient THEN n + 1 ELSE n]
  BY DEF BeginReceive
<1>2. e \in Errors
  BY DEF WSARecvResults, Errors
<1>3. [r EXCEPT !.zero_byet_recv = TRUE] \in Members /\ [r EXCEPT !.zero_byet_recv = TRUE].zero_byet_recv
  BY DEF Members
<1>4. (IF e = Success THEN 1 ELSE 0) \in 0 .. 1 /\ (IF e = Transient THEN n + 1 ELSE n) \in Nat
  OBVIOUS
<1> QED BY <1>1, <1>2, <1>3, <1>4 DEF Outcome

(* So does OnError, when it starts one at all. *)
LEMMA OnErrorOutcome ==
  ASSUME NEW e \in Errors, NEW r \in Members, NEW n \in Nat, NEW b \in OnError(e, r, n)
  PROVE  b \in Outcome /\ (b.started = 1 => b.members.zero_byet_recv)
<1>1. CASE e = Transient
  BY <1>1, BeginReceiveOutcome DEF OnError
<1>2. CASE e # Transient
  <2>1. b = [members |-> [r EXCEPT !.recv_error = e], ret |-> e, started |-> 0, failed |-> n]
    BY <1>2 DEF OnError, Recorded
  <2>2. [r EXCEPT !.recv_error = e] \in Members
    BY DEF Members
  <2> QED BY <2>1, <2>2 DEF Outcome
<1> QED BY <1>1, <1>2

(* So does the end of OnReceive: not one WSARecv for the good end of the   *)
(* loop and another for an error.                                          *)
LEMMA ReArmOutcome ==
  ASSUME NEW e \in Errors, NEW r \in Members, NEW n \in Nat, NEW b \in ReArm(e, r, n)
  PROVE  b \in Outcome /\ (b.started = 1 => b.members.zero_byet_recv)
<1> DEFINE B == IF e = Success
                THEN BeginReceive("arm", r, n)
                ELSE {[members |-> r, ret |-> e, started |-> 0, failed |-> n]}
<1>1. PICK a \in B : b \in IF a.ret = Success THEN {a} ELSE OnError(a.ret, a.members, a.failed)
  BY DEF ReArm
<1>2. a \in Outcome /\ (a.started = 1 => a.members.zero_byet_recv)
  <2>1. CASE e = Success
    BY <2>1, BeginReceiveOutcome
  <2>2. CASE e # Success
    BY <2>2 DEF Outcome
  <2> QED BY <2>1, <2>2
<1>3. a.ret \in Errors /\ a.members \in Members /\ a.failed \in Nat
  BY <1>2 DEF Outcome
<1> QED BY <1>1, <1>2, <1>3, OnErrorOutcome

-----------------------------------------------------------------------------
(* Sequences of no or one element. *)
LEMMA ShortSeqs ==
  ASSUME NEW S, NEW s \in Seq(S)
  PROVE  /\ Len(s) \in Nat
         /\ s = <<>> <=> Len(s) = 0
         /\ s # <<>> => /\ Head(s) \in S /\ Tail(s) \in Seq(S)
                        /\ Len(Tail(s)) = Len(s) - 1
         /\ \A e \in S : Append(s, e) \in Seq(S) /\ Len(Append(s, e)) = Len(s) + 1
BY EmptySeq, LenProperties, HeadTailProperties, AppendProperties

(* While a worker is at work on a completion nothing else is on its way.   *)
LEMMA Alone ==
  ASSUME IInv, NEW w \in Workers, worker[w].pc # "waiting"
  PROVE  /\ posted = 0 /\ port = <<>> /\ session_
         /\ \A v \in Workers : v # w => worker[v].pc = "waiting"
<1>1. w \in Busy
  BY DEF Busy
<1>2. \A v \in Workers : v # w => v \notin Busy
  BY <1>1 DEF IInv, SingleReceive
<1>3. session_
  BY <1>1 DEF IInv, SilentBeforeAccept
<1> QED BY <1>1, <1>2, <1>3 DEF IInv, SingleReceive, Busy

(* When the others wait, what one worker does next is all that is done. *)
LEMMA OneWorker ==
  ASSUME worker \in [Workers -> WorkerStates],
         NEW w \in Workers, NEW s \in WorkerStates,
         \A v \in Workers : v # w => worker[v].pc = "waiting",
         worker' = [worker EXCEPT ![w] = s]
  PROVE  /\ worker' \in [Workers -> WorkerStates]
         /\ worker'[w] = s
         /\ Busy' = IF s.pc = "waiting" THEN {} ELSE {w}
         /\ InLoop' = IF s.pc \in {"reading", "received", "leaving"} THEN {w} ELSE {}
         /\ Receiving' = IF s.pc = "received" THEN {w} ELSE {}
<1>1. worker' \in [Workers -> WorkerStates] /\ worker'[w] = s
  OBVIOUS
<1>2. \A v \in Workers : v # w => worker'[v].pc = "waiting"
  OBVIOUS
<1>3. Busy' = IF s.pc = "waiting" THEN {} ELSE {w}
  BY <1>1, <1>2 DEF Busy
<1>4. InLoop' = IF s.pc \in {"reading", "received", "leaving"} THEN {w} ELSE {}
  BY <1>1, <1>2 DEF InLoop
<1>5. Receiving' = IF s.pc = "received" THEN {w} ELSE {}
  BY <1>1, <1>2 DEF Receiving
<1> QED BY <1>1, <1>3, <1>4, <1>5

(* The states the actions put a worker in are states of a worker. *)
LEMMA WorkerStateTypes ==
  /\ \A e \in Errors, pc \in {"waiting", "completed", "reading", "received", "leaving"},
        n \in 0 .. kSocketBufferSize : At(pc, e, n) \in WorkerStates
  /\ \A pc, e, n : At(pc, e, n).pc = pc /\ At(pc, e, n).err = e /\ At(pc, e, n).received = n
  /\ Waiting \in WorkerStates /\ Waiting.pc = "waiting"
  /\ 0 \in 0 .. kSocketBufferSize
  /\ Success \in Errors /\ Transient \in Errors /\ Fatal \in Errors
<1>1. 0 \in 0 .. kSocketBufferSize
  BY ConstantsAssumption
<1>2. Success \in Errors /\ Transient \in Errors /\ Fatal \in Errors
  BY DEF Errors
<1>3. \A e \in Errors, pc \in {"waiting", "completed", "reading", "received", "leaving"},
         n \in 0 .. kSocketBufferSize : At(pc, e, n) \in WorkerStates
  BY DEF At, WorkerStates
<1>4. \A pc, e, n : At(pc, e, n).pc = pc /\ At(pc, e, n).err = e /\ At(pc, e, n).received = n
  BY DEF At
<1> QED BY <1>1, <1>2, <1>3, <1>4 DEF Waiting

-----------------------------------------------------------------------------
(* Before OnAccept there is nothing. *)
LEMMA InitIInv == Init => IInv
<1> SUFFICES ASSUME Init PROVE IInv
  OBVIOUS
<1>1. \A w \in Workers : worker[w].pc = "waiting"
  BY WorkerStateTypes DEF Init
<1>2. Busy = {} /\ InLoop = {} /\ Receiving = {}
  BY <1>1 DEF Busy, InLoop, Receiving
<1>3. Len(<<>>) = 0 /\ <<>> \in Seq(Errors) /\ <<>> \in Seq(Nat)
  BY EmptySeq
<1>4. TypeOK
  <2>1. receiver \in [zero_byet_recv : BOOLEAN, recv_error : Errors]
    BY WorkerStateTypes DEF Init
  <2>2. worker \in [Workers -> WorkerStates]
    BY WorkerStateTypes DEF Init
  <2>3. buffer_ \in [1 .. kSocketBufferSize -> Nat]
    BY DEF Init
  <2>4. 0 \in Nat /\ 0 \in 0 .. 0
    OBVIOUS
  <2> QED BY <2>1, <2>2, <2>3, <2>4, <1>3 DEF Init, TypeOK
<1>5. SingleReceive /\ FlagMatches
  BY <1>2, <1>3 DEF Init, SingleReceive, FlagMatches
<1>6. SilentBeforeAccept /\ LockHeld /\ Prefix /\ BufferAccounts
  BY <1>2, <1>3 DEF Init, SilentBeforeAccept, LockHeld, Prefix, BufferAccounts
<1> QED BY <1>4, <1>5, <1>6 DEF IInv

(* The first WSARecv is posted when there is nothing else. *)
LEMMA OnAcceptIInv == IInv /\ OnAccept => IInv'
<1> SUFFICES ASSUME IInv, OnAccept PROVE IInv'
  OBVIOUS
<1>1. TypeOK /\ posted = 0 /\ port = <<>> /\ Busy = {} /\ InLoop = {} /\ Receiving = {}
  BY DEF IInv, OnAccept, SilentBeforeAccept, Busy, InLoop, Receiving
<1>2. PICK b \in BeginReceive("accept", receiver, shortages) : Conclude(b)
  BY DEF OnAccept
<1>3. b \in Outcome /\ b.members.zero_byet_recv
  BY <1>1, BeginReceiveOutcome DEF TypeOK, Members
<1>4. /\ receiver' \in Members /\ receiver'.zero_byet_recv
      /\ posted' \in 0 .. 1 /\ shortages' \in Nat
  BY <1>1, <1>2, <1>3 DEF Conclude, Outcome
<1>5. /\ session_' = TRUE
      /\ UNCHANGED <<buffer_, lock_, port, worker, connection, arrived, taken, delivered>>
  BY DEF OnAccept, stream
<1>6. Busy' = {} /\ InLoop' = {} /\ Receiving' = {} /\ Len(port') = 0
  BY <1>1, <1>5, EmptySeq DEF Busy, InLoop, Receiving
<1>7. TypeOK'
  BY <1>1, <1>4, <1>5 DEF TypeOK, Members
<1>8. SingleReceive'
  <2>1. posted' + Len(port') <= 1
    <3>1. \A n \in 0 .. 1 : n + 0 <= 1
      OBVIOUS
    <3> QED BY <3>1, <1>4, <1>6, Zenon
  <2> QED BY <2>1, <1>6 DEF SingleReceive
<1>9. FlagMatches'
  BY <1>1, <1>4, <1>5, <1>6 DEF IInv, FlagMatches
<1>10. SilentBeforeAccept' /\ LockHeld'
  BY <1>1, <1>5, <1>6 DEF IInv, SilentBeforeAccept, LockHeld
<1>11. Prefix' /\ BufferAccounts'
  BY <1>1, <1>5, <1>6 DEF IInv, Prefix, BufferAccounts
<1> QED BY <1>7, <1>8, <1>9, <1>10, <1>11 DEF IInv

(* The worker that takes the completion is then the only one at work. *)
LEMMA DequeueIInv == ASSUME IInv, NEW w \in Workers, Dequeue(w) PROVE IInv'
<1>1. TypeOK /\ port \in Seq(Errors) /\ port # <<>> /\ Len(port) \in Nat
  BY ShortSeqs DEF IInv, TypeOK, Dequeue
<1>2. Len(port) = 1 /\ posted = 0 /\ Busy = {} /\ session_ /\ receiver.zero_byet_recv
  <2>1. posted + Len(port) <= 1 /\ posted \in Nat
    BY <1>1 DEF IInv, SingleReceive, TypeOK
  <2>2. Len(port) # 0
    BY <1>1, ShortSeqs
  <2>3. Len(port) = 1 /\ posted = 0
    <3>1. \A m, n \in Nat : n # 0 /\ m + n <= 1 => n = 1 /\ m = 0
      OBVIOUS
    <3> QED BY <3>1, <2>1, <2>2, <1>1, Zenon
  <2>4. Busy = {}
    BY <1>1 DEF IInv, SingleReceive
  <2>5. session_
    BY <1>1 DEF IInv, SilentBeforeAccept
  <2>6. receiver.zero_byet_recv
    BY <1>1 DEF IInv, FlagMatches
  <2> QED BY <2>3, <2>4, <2>5, <2>6
<1>3. \A v \in Workers : worker[v].pc = "waiting"
  BY <1>2 DEF Busy
<1> DEFINE s == At("completed", Head(port), 0)
<1>4. /\ s \in WorkerStates /\ s.pc = "completed"
      /\ port' \in Seq(Errors) /\ Len(port') = 0 /\ port' = <<>>
  <2>1. Head(port) \in Errors /\ Tail(port) \in Seq(Errors) /\ Len(Tail(port)) = 0
    BY <1>1, <1>2, ShortSeqs
  <2>2. Tail(port) = <<>>
    BY <2>1, ShortSeqs
  <2> QED BY <2>1, <2>2, WorkerStateTypes DEF Dequeue
<1>5. /\ worker' = [worker EXCEPT ![w] = s]
      /\ UNCHANGED <<session_, receiver, buffer_, lock_, posted, shortages, connection,
                     arrived, taken, delivered>>
  BY DEF Dequeue, members, stream
<1> HIDE DEF s
<1>6. /\ worker' \in [Workers -> WorkerStates]
      /\ Busy' = {w} /\ InLoop' = {} /\ Receiving' = {}
  <2>1. worker \in [Workers -> WorkerStates]
    BY <1>1 DEF TypeOK
  <2> QED BY <2>1, <1>3, <1>4, <1>5, OneWorker
<1>7. InLoop = {} /\ Receiving = {}
  BY <1>3 DEF InLoop, Receiving
<1>8. TypeOK'
  BY <1>1, <1>4, <1>5, <1>6 DEF TypeOK
<1>9. SingleReceive' /\ FlagMatches'
  BY <1>2, <1>4, <1>5, <1>6, <1>7 DEF IInv, SingleReceive, FlagMatches
<1>10. SilentBeforeAccept' /\ LockHeld'
  BY <1>2, <1>5, <1>6, <1>7 DEF IInv, SilentBeforeAccept, LockHeld
<1>11. Prefix' /\ BufferAccounts'
  BY <1>5, <1>6, <1>7 DEF IInv, Prefix, BufferAccounts
<1> QED BY <1>8, <1>9, <1>10, <1>11 DEF IInv

(* A worker that finishes with a completion leaves at most one WSARecv     *)
(* behind, and the flag set for it.                                        *)
LEMMA FinishIInv ==
  ASSUME IInv, NEW w \in Workers, worker[w].pc \notin {"waiting", "received"},
         NEW b \in Outcome, b.started = 1 => b.members.zero_byet_recv, Conclude(b),
         worker' = [worker EXCEPT ![w] = Waiting], lock_' = NoWorker,
         UNCHANGED <<session_, buffer_, port, connection, arrived, taken, delivered>>
  PROVE  IInv'
<1>1. /\ TypeOK /\ posted = 0 /\ port = <<>> /\ session_
      /\ \A v \in Workers : v # w => worker[v].pc = "waiting"
  BY Alone DEF IInv
<1>2. /\ worker' \in [Workers -> WorkerStates]
      /\ Busy' = {} /\ InLoop' = {} /\ Receiving' = {}
  <2>1. worker \in [Workers -> WorkerStates]
    BY <1>1 DEF TypeOK
  <2> QED BY <2>1, <1>1, OneWorker, WorkerStateTypes
<1>3. /\ receiver' \in Members /\ posted' \in 0 .. 1 /\ posted' = b.started
      /\ shortages' \in Nat /\ receiver' = b.members
  BY <1>1 DEF Conclude, Outcome
<1>4. Receiving = {}
  BY <1>1 DEF Receiving
<1>5. TypeOK'
  BY <1>1, <1>2, <1>3 DEF TypeOK, Members
<1>6. SingleReceive'
  <2>1. posted' + Len(port') <= 1
    <3>1. \A n \in 0 .. 1 : n + 0 <= 1
      OBVIOUS
    <3>2. Len(port') = 0
      BY <1>1, EmptySeq
    <3> QED BY <3>1, <3>2, <1>3, Zenon
  <2> QED BY <2>1, <1>2 DEF SingleReceive
<1>7. FlagMatches'
  <2>1. posted' > 0 => receiver'.zero_byet_recv
    <3>1. \A n \in 0 .. 1 : n > 0 => n = 1
      OBVIOUS
    <3> QED BY <3>1, <1>3, Zenon
  <2> QED BY <2>1, <1>1, <1>2 DEF FlagMatches
<1>8. SilentBeforeAccept' /\ LockHeld'
  BY <1>1, <1>2 DEF SilentBeforeAccept, LockHeld
<1>9. Prefix' /\ BufferAccounts'
  BY <1>2, <1>4 DEF IInv, Prefix, BufferAccounts
<1> QED BY <1>5, <1>6, <1>7, <1>8, <1>9 DEF IInv

(* A failed completion is not handled by the worker that holds the lock:   *)
(* nobody does.                                                            *)
LEMMA OnReceiveFailedIInv ==
  ASSUME IInv, NEW w \in Workers, OnReceiveFailed(w)
  PROVE  IInv'
<1>1. TypeOK /\ worker[w].pc = "completed" /\ worker[w].err \in Errors
  BY DEF IInv, TypeOK, WorkerStates, OnReceiveFailed
<1>2. \A v \in Workers : v # w => worker[v].pc = "waiting"
  BY <1>1, Alone
<1>3. InLoop = {} /\ lock_ = NoWorker
  BY <1>1, <1>2 DEF InLoop, IInv, LockHeld
<1>4. PICK b \in OnError(worker[w].err, receiver, shortages) : Conclude(b)
  BY DEF OnReceiveFailed
<1>5. b \in Outcome /\ (b.started = 1 => b.members.zero_byet_recv)
  BY <1>1, OnErrorOutcome DEF TypeOK, Members
<1>6. /\ worker' = [worker EXCEPT ![w] = Waiting] /\ lock_' = NoWorker
      /\ UNCHANGED <<session_, buffer_, port, connection, arrived, taken, delivered>>
  BY <1>3 DEF OnReceiveFailed, stream
<1> QED BY <1>1, <1>4, <1>5, <1>6, FinishIInv

(* The rest of OnReceive. *)
LEMMA LeaveIInv == ASSUME IInv, NEW w \in Workers, Leave(w) PROVE IInv'
<1>1. TypeOK /\ worker[w].pc = "leaving" /\ worker[w].err \in Errors
  BY DEF IInv, TypeOK, WorkerStates, Leave
<1>2. PICK b \in ReArm(worker[w].err, receiver, shortages) : Conclude(b)
  BY DEF Leave
<1>3. b \in Outcome /\ (b.started = 1 => b.members.zero_byet_recv)
  BY <1>1, ReArmOutcome DEF TypeOK, Members
<1>4. /\ worker' = [worker EXCEPT ![w] = Waiting] /\ lock_' = NoWorker
      /\ UNCHANGED <<session_, buffer_, port, connection, arrived, taken, delivered>>
  BY DEF Leave, stream
<1> QED BY <1>1, <1>2, <1>3, <1>4, FinishIInv

(* A worker that goes on in the loop keeps the lock, and the flag clear.   *)
LEMMA LoopIInv ==
  ASSUME IInv, NEW w \in Workers, worker[w].pc # "waiting",
         NEW s \in WorkerStates, s.pc \in {"reading", "received", "leaving"},
         worker' = [worker EXCEPT ![w] = s],
         lock_' = w, receiver' \in Members, ~receiver'.zero_byet_recv,
         UNCHANGED <<session_, posted, port>>
  PROVE  /\ worker' \in [Workers -> WorkerStates]
         /\ Receiving' = IF s.pc = "received" THEN {w} ELSE {}
         /\ \A v \in Workers : v # w => worker[v].pc = "waiting"
         /\ SingleReceive' /\ FlagMatches' /\ SilentBeforeAccept' /\ LockHeld'
<1>1. /\ TypeOK /\ posted = 0 /\ port = <<>> /\ session_
      /\ \A v \in Workers : v # w => worker[v].pc = "waiting"
  BY Alone DEF IInv
<1>2. /\ worker' \in [Workers -> WorkerStates]
      /\ Busy' = {w} /\ InLoop' = {w}
      /\ Receiving' = IF s.pc = "received" THEN {w} ELSE {}
  <2>1. worker \in [Workers -> WorkerStates]
    BY <1>1 DEF TypeOK
  <2> QED BY <2>1, <1>1, OneWorker
<1>3. SingleReceive'
  <2>1. posted' = 0 /\ port' = <<>> /\ Len(port') = 0 /\ 0 + 0 <= 1
    BY <1>1, EmptySeq
  <2> QED BY <2>1, <1>2, Zenon DEF SingleReceive
<1>4. FlagMatches'
  <2>1. lock_' # NoWorker
    BY ConstantsAssumption
  <2>2. ~(posted' > 0) /\ port' = <<>> /\ Busy' \ InLoop' = {}
    BY <1>1, <1>2
  <2> QED BY <2>1, <2>2, <1>2 DEF FlagMatches
<1>5. SilentBeforeAccept' /\ LockHeld'
  BY <1>1, <1>2 DEF SilentBeforeAccept, LockHeld
<1> QED BY <1>1, <1>2, <1>3, <1>4, <1>5

(* A worker in the loop holds the lock, and the flag is clear. *)
LEMMA InTheLoop ==
  ASSUME IInv, NEW w \in Workers, worker[w].pc \in {"reading", "received", "leaving"}
  PROVE  lock_ = w /\ receiver \in Members /\ ~receiver.zero_byet_recv
<1>1. w \in InLoop
  BY DEF InLoop
<1> QED BY <1>1 DEF IInv, LockHeld, FlagMatches, TypeOK, Members

(* The zero-byte WSARecv starts the loop. *)
LEMMA OnReceiveIInv == ASSUME IInv, NEW w \in Workers, OnReceive(w) PROVE IInv'
<1>1. TypeOK /\ worker[w].pc = "completed" /\ receiver \in Members
  BY DEF IInv, TypeOK, OnReceive, Members
<1>2. \A v \in Workers : v # w => worker[v].pc = "waiting"
  BY <1>1, Alone
<1>3. w \in Busy \ InLoop
  BY <1>1 DEF Busy, InLoop
<1>4. receiver.zero_byet_recv
  BY <1>3 DEF IInv, FlagMatches
<1>5. /\ receiver' = [receiver EXCEPT !.zero_byet_recv = FALSE]
      /\ lock_' = w
      /\ worker' = [worker EXCEPT ![w] = At("reading", Success, 0)]
      /\ UNCHANGED <<session_, buffer_, posted, port, shortages, connection, arrived, taken,
                     delivered>>
  BY <1>4 DEF OnReceive, kernel, stream
<1>6. receiver' \in Members /\ ~receiver'.zero_byet_recv
  BY <1>1, <1>5 DEF Members
<1> DEFINE s == At("reading", Success, 0)
<1>7. s \in WorkerStates /\ s.pc = "reading"
  BY WorkerStateTypes
<1>8. worker' = [worker EXCEPT ![w] = s]
  BY <1>5
<1> HIDE DEF s
<1>9. /\ worker' \in [Workers -> WorkerStates] /\ Receiving' = {}
      /\ SingleReceive' /\ FlagMatches' /\ SilentBeforeAccept' /\ LockHeld'
  BY <1>1, <1>5, <1>6, <1>7, <1>8, LoopIInv
<1>10. TypeOK'
  BY <1>1, <1>5, <1>6, <1>9 DEF TypeOK, Members
<1>11. Receiving = {}
  BY <1>1, <1>2 DEF Receiving
<1>12. Prefix' /\ BufferAccounts'
  BY <1>5, <1>9, <1>11 DEF IInv, Prefix, BufferAccounts
<1> QED BY <1>9, <1>10, <1>12 DEF IInv

(* recv takes the next bytes into the beginning of buffer_. *)
LEMMA RecvDataIInv == ASSUME IInv, NEW w \in Workers, RecvData(w) PROVE IInv'
<1>1. TypeOK /\ worker[w].pc = "reading"
  BY DEF IInv, RecvData
<1>2. \A v \in Workers : v # w => worker[v].pc = "waiting"
  BY <1>1, Alone
<1>3. lock_ = w /\ receiver \in Members /\ ~receiver.zero_byet_recv
  BY <1>1, InTheLoop
<1>4. PICK n \in 1 .. kSocketBufferSize :
        /\ taken + n <= arrived
        /\ buffer_' = [i \in 1 .. kSocketBufferSize |->
                         IF i <= n THEN taken + i ELSE buffer_[i]]
        /\ taken' = taken + n
        /\ worker' = [worker EXCEPT ![w] = At("received", Success, n)]
  BY DEF RecvData
<1>5. UNCHANGED <<session_, receiver, lock_, posted, port, shortages, connection, arrived, delivered>>
  BY DEF RecvData, kernel
<1> DEFINE s == At("received", Success, n)
<1>6. s \in WorkerStates /\ s.pc = "received" /\ s.received = n
  BY ConstantsAssumption, WorkerStateTypes
<1>7. worker' = [worker EXCEPT ![w] = s]
  BY <1>4
<1> HIDE DEF s
<1>8. /\ worker' \in [Workers -> WorkerStates] /\ Receiving' = {w}
      /\ SingleReceive' /\ FlagMatches' /\ SilentBeforeAccept' /\ LockHeld'
  BY <1>1, <1>3, <1>5, <1>6, <1>7, LoopIInv
<1>9. worker'[w].received = n
  BY <1>1, <1>6, <1>7 DEF TypeOK
<1>10. Receiving = {} /\ taken = Len(delivered)
  BY <1>1, <1>2 DEF IInv, Receiving, BufferAccounts
<1>11. /\ taken \in Nat /\ arrived \in Nat /\ taken' \in 0 .. arrived
       /\ buffer_' \in [1 .. kSocketBufferSize -> Nat]
  BY <1>1, <1>4, ConstantsAssumption DEF TypeOK
<1>12. TypeOK'
  BY <1>1, <1>5, <1>8, <1>11 DEF TypeOK
<1>13. \A i \in 1 .. n : buffer_'[i] = taken + i
  BY <1>4, ConstantsAssumption
<1>14. BufferAccounts'
  BY <1>4, <1>5, <1>8, <1>9, <1>10, <1>13 DEF BufferAccounts
<1>15. Prefix'
  BY <1>5 DEF IInv, Prefix
<1> QED BY <1>8, <1>12, <1>14, <1>15 DEF IInv

(* However reading ends, all that recv took has been passed on. *)
LEMMA RecvEndsIInv == ASSUME IInv, NEW w \in Workers, RecvEnds(w) PROVE IInv'
<1>1. TypeOK /\ worker[w].pc = "reading"
  BY DEF IInv, RecvEnds
<1>2. \A v \in Workers : v # w => worker[v].pc = "waiting"
  BY <1>1, Alone
<1>3. lock_ = w /\ receiver \in Members /\ ~receiver.zero_byet_recv
  BY <1>1, InTheLoop
<1>4. PICK e \in Errors :
        /\ worker' = [worker EXCEPT ![w] = At("leaving", e, 0)]
        /\ receiver' \in {receiver, [receiver EXCEPT !.recv_error = Fatal]}
        /\ shortages' \in {shortages, shortages + 1}
  BY DEF RecvEnds
<1>5. UNCHANGED <<session_, buffer_, lock_, posted, port, connection, arrived, taken, delivered>>
  BY DEF RecvEnds, stream
<1>6. receiver' \in Members /\ ~receiver'.zero_byet_recv
  BY <1>3, <1>4, WorkerStateTypes DEF Members
<1> DEFINE s == At("leaving", e, 0)
<1>7. s \in WorkerStates /\ s.pc = "leaving"
  BY WorkerStateTypes
<1>8. worker' = [worker EXCEPT ![w] = s]
  BY <1>4
<1> HIDE DEF s
<1>9. /\ worker' \in [Workers -> WorkerStates] /\ Receiving' = {}
      /\ SingleReceive' /\ FlagMatches' /\ SilentBeforeAccept' /\ LockHeld'
  BY <1>1, <1>3, <1>5, <1>6, <1>7, <1>8, LoopIInv
<1>10. TypeOK'
  BY <1>1, <1>4, <1>5, <1>6, <1>9 DEF TypeOK, Members
<1>11. Receiving = {}
  BY <1>1, <1>2 DEF Receiving
<1>12. Prefix' /\ BufferAccounts'
  BY <1>5, <1>9, <1>11 DEF IInv, Prefix, BufferAccounts
<1> QED BY <1>9, <1>10, <1>12 DEF IInv

(* The bytes passed on are the next ones, and all that recv took. *)
LEMMA Delivers ==
  ASSUME IInv, NEW w \in Workers, OnReceivePacket(w)
  PROVE  LET n == worker[w].received
         IN /\ n \in Nat /\ n >= 1 /\ Len(delivered) \in Nat
            /\ Len(delivered) + n = taken
            /\ delivered' = delivered \o [i \in 1 .. n |-> Len(delivered) + i]
            /\ delivered' \in Seq(Nat)
            /\ Len(delivered') = Len(delivered) + n
            /\ \A i \in 1 .. Len(delivered') :
                 delivered'[i] = IF i <= Len(delivered) THEN delivered[i] ELSE i
<1> DEFINE n == worker[w].received
           more == [i \in 1 .. n |-> Len(delivered) + i]
<1>1. TypeOK /\ w \in Receiving /\ delivered \in Seq(Nat) /\ Len(delivered) \in Nat
  BY LenProperties DEF IInv, TypeOK, OnReceivePacket, Receiving
<1>2. n \in 0 .. kSocketBufferSize
  BY <1>1 DEF TypeOK, WorkerStates
<1>3. /\ n >= 1 /\ taken = Len(delivered) + n
      /\ \A i \in 1 .. n : buffer_[i] = Len(delivered) + i
  BY <1>1 DEF IInv, BufferAccounts
<1>4. n \in Nat
  BY <1>2, ConstantsAssumption
<1>5. [i \in 1 .. n |-> buffer_[i]] = more
  BY <1>3
<1>6. delivered' = delivered \o more
  BY <1>5 DEF OnReceivePacket
<1>7. more \in Seq(Nat) /\ Len(more) = n
  <2>1. \A i \in 1 .. n : Len(delivered) + i \in Nat
    BY <1>1, <1>4
  <2> QED BY <2>1, <1>4, IsASeq, LenProperties
<1>8. \A i \in 1 .. n : more[i] = Len(delivered) + i
  OBVIOUS
<1> HIDE DEF n, more
<1>9. /\ delivered' \in Seq(Nat) /\ Len(delivered') = Len(delivered) + n
      /\ \A i \in 1 .. Len(delivered) + n :
           delivered'[i] = IF i <= Len(delivered) THEN delivered[i] ELSE more[i - Len(delivered)]
  BY <1>1, <1>6, <1>7, ConcatProperties
<1>10. ASSUME NEW i \in 1 .. Len(delivered')
       PROVE  delivered'[i] = IF i <= Len(delivered) THEN delivered[i] ELSE i
  <2>1. CASE i <= Len(delivered)
    BY <2>1, <1>1, <1>4, <1>9
  <2>2. CASE i > Len(delivered)
    <3>1. i - Len(delivered) \in 1 .. n /\ Len(delivered) + (i - Len(delivered)) = i
      BY <2>2, <1>1, <1>4, <1>9
    <3>2. delivered'[i] = more[i - Len(delivered)]
      BY <2>2, <1>1, <1>4, <1>9
    <3> QED BY <2>2, <3>1, <3>2, <1>1, <1>8
  <2> QED BY <2>1, <2>2, <1>1, <1>4, <1>9
<1> QED BY <1>1, <1>3, <1>4, <1>6, <1>9, <1>10 DEF n, more

(* OnReceivePacket keeps what was passed on the beginning of the stream. *)
LEMMA OnReceivePacketIInv ==
  ASSUME IInv, NEW w \in Workers, OnReceivePacket(w)
  PROVE  IInv'
<1>1. TypeOK /\ worker[w].pc = "received"
  BY DEF IInv, OnReceivePacket
<1>2. lock_ = w /\ receiver \in Members /\ ~receiver.zero_byet_recv
  BY <1>1, InTheLoop
<1>3. /\ UNCHANGED <<session_, receiver, buffer_, lock_, posted, port, shortages, connection,
                     arrived, taken>>
      /\ worker' = [worker EXCEPT ![w] = At("reading", Success, 0)]
  BY DEF OnReceivePacket, members, kernel, stream
<1> DEFINE s == At("reading", Success, 0)
<1>4. s \in WorkerStates /\ s.pc = "reading"
  BY WorkerStateTypes
<1>5. worker' = [worker EXCEPT ![w] = s]
  BY <1>3
<1> HIDE DEF s
<1>6. /\ worker' \in [Workers -> WorkerStates] /\ Receiving' = {}
      /\ SingleReceive' /\ FlagMatches' /\ SilentBeforeAccept' /\ LockHeld'
  BY <1>1, <1>2, <1>3, <1>4, <1>5, LoopIInv
<1>7. delivered' \in Seq(Nat) /\ Len(delivered') = taken
  BY Delivers
<1>8. TypeOK'
  BY <1>1, <1>3, <1>6, <1>7 DEF TypeOK
<1>9. BufferAccounts'
  BY <1>3, <1>6, <1>7 DEF BufferAccounts
<1>10. Prefix'
  <2> SUFFICES ASSUME NEW i \in 1 .. Len(delivered') PROVE delivered'[i] = i
    BY DEF Prefix
  <2>1. CASE i <= Len(delivered)
    <3>1. Len(delivered) \in Nat /\ Len(delivered') \in Nat
      BY <1>1, <1>7, LenProperties DEF TypeOK
    <3>2. i \in 1 .. Len(delivered)
      BY <2>1, <3>1
    <3> QED BY <2>1, <3>2, Delivers DEF IInv, Prefix
  <2>2. CASE ~(i <= Len(delivered))
    BY <2>2, Delivers
  <2> QED BY <2>1, <2>2
<1> QED BY <1>6, <1>8, <1>9, <1>10 DEF IInv

(* What the peer and the network do concerns none of the members. *)
LEMMA PeerIInv == IInv /\ (Arrives \/ Ends) => IInv'
<1> SUFFICES ASSUME IInv, Arrives \/ Ends PROVE IInv'
  OBVIOUS
<1>1. /\ UNCHANGED <<session_, receiver, buffer_, lock_, posted, port, shortages, worker, taken,
                     delivered>>
      /\ connection' \in {"open", "closed", "reset"}
      /\ arrived' \in Nat /\ arrived <= arrived'
  BY DEF Arrives, Ends, members, kernel, IInv, TypeOK
<1>2. Busy' = Busy /\ InLoop' = InLoop /\ Receiving' = Receiving
  BY <1>1 DEF Busy, InLoop, Receiving
<1>3. TypeOK'
  BY <1>1 DEF IInv, TypeOK
<1>4. SingleReceive' /\ FlagMatches' /\ SilentBeforeAccept' /\ LockHeld'
  BY <1>1, <1>2 DEF IInv, SingleReceive, FlagMatches, SilentBeforeAccept, LockHeld
<1>5. Prefix' /\ BufferAccounts'
  BY <1>1, <1>2 DEF IInv, Prefix, BufferAccounts
<1> QED BY <1>3, <1>4, <1>5 DEF IInv

(* The WSARecv in the kernel becomes the completion in the port. *)
LEMMA RecvCompletesIInv ==
  ASSUME IInv, NEW e \in Errors, RecvCompletes(e)
  PROVE  IInv'
<1>1. TypeOK /\ posted \in Nat /\ posted > 0 /\ port \in Seq(Errors) /\ Len(port) \in Nat
  BY ShortSeqs DEF IInv, TypeOK, RecvCompletes
<1>2. posted = 1 /\ Len(port) = 0
  <2>1. posted + Len(port) <= 1
    BY DEF IInv, SingleReceive
  <2>2. \A m, n \in Nat : m > 0 /\ m + n <= 1 => m = 1 /\ n = 0
    OBVIOUS
  <2> QED BY <2>1, <2>2, <1>1, Zenon
<1>3. Busy = {} /\ session_ /\ receiver.zero_byet_recv
  <2>1. posted # 0
    BY <1>2
  <2> QED BY <2>1, <1>1 DEF IInv, SingleReceive, SilentBeforeAccept, FlagMatches
<1>4. InLoop = {} /\ Receiving = {}
  BY <1>3 DEF Busy, InLoop, Receiving
<1>5. /\ posted' = 0 /\ port' \in Seq(Errors) /\ Len(port') = 1
      /\ shortages' \in Nat
  <2>1. posted' = posted - 1 /\ port' = Append(port, e) /\ shortages' \in {shortages, shortages + 1}
    BY DEF RecvCompletes
  <2>2. Append(port, e) \in Seq(Errors) /\ Len(Append(port, e)) = 0 + 1
    BY <1>1, <1>2, ShortSeqs
  <2>3. 0 + 1 = 1 /\ posted - 1 = 0
    BY <1>2
  <2>4. shortages' \in Nat
    BY <2>1, <1>1 DEF TypeOK
  <2> QED BY <2>1, <2>2, <2>3, <2>4
<1>6. UNCHANGED <<session_, receiver, buffer_, lock_, worker, connection, arrived, taken, delivered>>
  BY DEF RecvCompletes, members, stream
<1>7. Busy' = {} /\ InLoop' = {} /\ Receiving' = {}
  BY <1>3, <1>4, <1>6 DEF Busy, InLoop, Receiving
<1>8. TypeOK'
  BY <1>1, <1>5, <1>6 DEF TypeOK
<1>9. SingleReceive'
  <2>1. posted' + Len(port') <= 1
    BY <1>5
  <2> QED BY <2>1, <1>7 DEF SingleReceive
<1>10. FlagMatches' /\ SilentBeforeAccept' /\ LockHeld'
  BY <1>3, <1>4, <1>6, <1>7 DEF IInv, FlagMatches, SilentBeforeAccept, LockHeld
<1>11. Prefix' /\ BufferAccounts'
  BY <1>4, <1>6, <1>7 DEF IInv, Prefix, BufferAccounts
<1> QED BY <1>8, <1>9, <1>10, <1>11 DEF IInv

-----------------------------------------------------------------------------
(* Every step keeps the inductive invariant. *)
LEMMA StepIInv == IInv /\ [Next]_vars => IInv'
<1> SUFFICES ASSUME IInv, [Next]_vars PROVE IInv'
  OBVIOUS
<1>1. CASE OnAccept
  BY <1>1, OnAcceptIInv
<1>2. ASSUME NEW w \in Workers, Dequeue(w) \/ Step(w) PROVE IInv'
  BY <1>2, DequeueIInv, OnReceiveFailedIInv, OnReceiveIInv, RecvDataIInv, RecvEndsIInv,
     OnReceivePacketIInv, LeaveIInv DEF Step
<1>3. CASE Arrives \/ Ends
  BY <1>3, PeerIInv
<1>4. ASSUME NEW e \in Errors, RecvCompletes(e) PROVE IInv'
  BY <1>4, RecvCompletesIInv
<1>5. CASE UNCHANGED vars
  <2>1. UNCHANGED <<session_, receiver, buffer_, lock_, posted, port, worker, connection,
                    arrived, taken, delivered, shortages>>
    BY <1>5 DEF vars
  <2>2. Busy' = Busy /\ InLoop' = InLoop /\ Receiving' = Receiving
    BY <2>1 DEF Busy, InLoop, Receiving
  <2>3. TypeOK'
    BY <2>1 DEF IInv, TypeOK
  <2>4. SingleReceive' /\ FlagMatches' /\ SilentBeforeAccept' /\ LockHeld'
    BY <2>1, <2>2 DEF IInv, SingleReceive, FlagMatches, SilentBeforeAccept, LockHeld
  <2>5. Prefix' /\ BufferAccounts'
    BY <2>1, <2>2 DEF IInv, Prefix, BufferAccounts
  <2> QED BY <2>3, <2>4, <2>5 DEF IInv
<1> QED BY <1>1, <1>2, <1>3, <1>4, <1>5 DEF Next

(* The inductive invariant holds in every reachable state: the WSARecv,    *)
(* the completion or the worker there is, the flag, the lock and buffer_   *)
(* agree on what has been read and passed on.                              *)
THEOREM InductiveInvariant == Spec => []IInv
<1>1. Init => IInv
  BY InitIInv
<1>2. IInv /\ [Next]_vars => IInv'
  BY StepIInv
<1> QED BY <1>1, <1>2, PTL DEF Spec

(* The variables keep their types: recv in particular never writes past    *)
(* the end of buffer_.                                                     *)
THEOREM TypeCorrect == Spec => []TypeOK
<1>1. IInv => TypeOK
  BY DEF IInv
<1> QED BY <1>1, InductiveInvariant, PTL

(* Nothing is received twice at a time: a WSARecv pending, or a completion *)
(* waiting, or one worker reading.                                         *)
THEOREM OneReceiveAtATime == Spec => []SingleReceive
<1>1. IInv => SingleReceive
  BY DEF IInv
<1> QED BY <1>1, InductiveInvariant, PTL

(* OnReceive never ignores the completion of the zero-byte WSARecv for     *)
(* want of the flag, nor finds the flag of another one.                    *)
THEOREM FlagTellsTheTruth == Spec => []FlagMatches
<1>1. IInv => FlagMatches
  BY DEF IInv
<1> QED BY <1>1, InductiveInvariant, PTL

-----------------------------------------------------------------------------
(* A byte that arrives is one more of the stream. *)
LEMMA ArrivesStep == IInv /\ Arrives => Stream!Submit
<1> SUFFICES ASSUME IInv, Arrives PROVE Stream!Submit
  OBVIOUS
<1>1. arrived \in Nat /\ arrived' = arrived + 1 /\ delivered' = delivered
  BY DEF IInv, TypeOK, Arrives
<1>2. arrived' > arrived
  BY <1>1
<1> QED BY <1>1, <1>2 DEF Stream!Submit

(* OnReceivePacket is given the next bytes of the stream. *)
LEMMA DeliverStep ==
  ASSUME IInv, NEW w \in Workers, OnReceivePacket(w)
  PROVE  Stream!Transmit
<1> DEFINE n == worker[w].received
<1>1. /\ n \in Nat /\ n >= 1 /\ Len(delivered) \in Nat
      /\ Len(delivered) + n = taken
      /\ delivered' = delivered \o [i \in 1 .. n |-> Len(delivered) + i]
      /\ Len(delivered') = Len(delivered) + n
  BY Delivers
<1>2. arrived \in Nat /\ taken <= arrived /\ arrived' = arrived
  BY DEF IInv, TypeOK, OnReceivePacket, stream
<1> HIDE DEF n
<1>3. Len(delivered') - Len(delivered) = n /\ Len(delivered') \in Len(delivered) + 1 .. arrived
  BY <1>1, <1>2
<1> QED BY <1>1, <1>2, <1>3 DEF Stream!Transmit

(* SessionReceiver implements the stream of ByteStream: a byte's arrival   *)
(* is Submit, a call of OnReceivePacket is Transmit, everything else       *)
(* stutters.  So OnReceivePacket is given every byte at most once, in      *)
(* order and never before it arrived.                                      *)
THEOREM ImplementsStream == Spec => StreamSpec
<1>1. Init => Stream!Init
  BY DEF Init, Stream!Init
<1>2. IInv /\ [Next]_vars => [Stream!Next]_Stream!vars
  <2> SUFFICES ASSUME IInv, [Next]_vars PROVE [Stream!Next]_Stream!vars
    OBVIOUS
  <2>1. CASE Arrives
    BY <2>1, ArrivesStep DEF Stream!Next
  <2>2. ASSUME NEW w \in Workers, OnReceivePacket(w) PROVE Stream!Next
    BY <2>2, DeliverStep DEF Stream!Next
  <2>3. CASE UNCHANGED <<arrived, delivered>>
    BY <2>3 DEF Stream!vars
  <2>4. ASSUME NEW w \in Workers,
               \/ Dequeue(w) \/ OnReceiveFailed(w) \/ OnReceive(w) \/ RecvData(w)
               \/ RecvEnds(w) \/ Leave(w)
        PROVE  UNCHANGED <<arrived, delivered>>
    BY <2>4 DEF Dequeue, OnReceiveFailed, OnReceive, RecvData, RecvEnds, Leave, stream
  <2>5. ASSUME NEW e \in Errors, RecvCompletes(e) PROVE UNCHANGED <<arrived, delivered>>
    BY <2>5 DEF RecvCompletes, stream
  <2>6. CASE OnAccept \/ Ends \/ UNCHANGED vars
    BY <2>3, <2>6 DEF OnAccept, Ends, vars, stream
  <2> QED BY <2>1, <2>2, <2>3, <2>4, <2>5, <2>6 DEF Next, Step
<1> QED BY <1>1, <1>2, InductiveInvariant, PTL DEF Spec, StreamSpec, Stream!Spec
=============================================================================
