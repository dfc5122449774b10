--------------------------- MODULE CompletionPort ---------------------------
(***************************************************************************)
(* iocplib::IoCompletionPort and IoCompletionPortWorker                    *)
(* (lib/iocplib/io_completion_port.h): one queue of completions, the       *)
(* worker threads that take them, and a count of the sockets attached.     *)
(* This module has the state and the operations; the modules that extend   *)
(* it say who calls them and what the callbacks do.                        *)
(***************************************************************************)
EXTENDS Integers, Sequences, FiniteSets

CONSTANTS
  Workers,     \* the IoCompletionPortWorker threads Create starts
  Completions, \* what may be queued besides a null
  Null,        \* a completion without an OVERLAPPED
  UINT32       \* how many values attached_sockets_ has, 2^32 in the code

ASSUME PortAssumption ==
  /\ IsFiniteSet(Workers)
  /\ Null \notin Completions
  /\ UINT32 \in Nat \ {0, 1}

VARIABLES
  attached_sockets_, \* the member of that name
  queue,             \* the completions not yet taken, oldest first
  thread,            \* each worker: not started, waiting, in a callback, exited
  held,              \* the completion a worker in a callback is handling
  nulls              \* how many nulls Close has posted

portVars == <<attached_sockets_, queue, thread, held, nulls>>

PortTypeOK ==
  /\ attached_sockets_ \in 0 .. UINT32 - 1
  /\ queue \in Seq(Completions \cup {Null})
  /\ thread \in [Workers -> {"none", "waiting", "callback", "exited"}]
  /\ held \in [Workers -> Completions \cup {Null}]
  /\ nulls \in 0 .. Cardinality(Workers)

PortInit ==
  /\ attached_sockets_ = 0
  /\ queue = <<>>
  /\ thread = [w \in Workers |-> "none"]
  /\ held = [w \in Workers |-> Null]
  /\ nulls = 0

(* Create starts the workers, which wait for completions. *)
Create ==
  /\ thread' = [w \in Workers |-> "waiting"]
  /\ UNCHANGED <<attached_sockets_, queue, held, nulls>>

(* Attach counts a socket.  When CreateIoCompletionPort fails it returns   *)
(* without a word and without counting.                                    *)
Attach == attached_sockets_' = (attached_sockets_ + 1) % UINT32

(* Detach, with the wrap-around of the unsigned counter that its assertion *)
(* is there to catch.  Mutated form: the counter is signed.                *)
DetachSigned == attached_sockets_' = attached_sockets_ - 1

Detach == attached_sockets_' = (attached_sockets_ + UINT32 - 1) % UINT32

(* The kernel, or PostQueuedCompletionStatus, queues c. *)
Post(c) == queue' = Append(queue, c)

(* One turn of Run up to the callback: the oldest completion is taken, and *)
(* a null ends the thread.                                                 *)
Take(w) ==
  /\ thread[w] = "waiting"
  /\ queue # <<>>
  /\ queue' = Tail(queue)
  /\ IF Head(queue) = Null
     THEN /\ thread' = [thread EXCEPT ![w] = "exited"]
          /\ UNCHANGED held
     ELSE /\ thread' = [thread EXCEPT ![w] = "callback"]
          /\ held' = [held EXCEPT ![w] = Head(queue)]
  /\ UNCHANGED <<attached_sockets_, nulls>>

(* The callback returns and Run goes round. *)
Return(w) ==
  /\ thread' = [thread EXCEPT ![w] = "waiting"]
  /\ held' = [held EXCEPT ![w] = Null]

(* The threads in workers_. *)
workers_ == {w \in Workers : thread[w] # "none"}

(* The three parts of Close: the wait for the sockets, the loop that posts *)
(* a null for every worker, and the join of them all.  Mutated form: the   *)
(* threads are not joined.                                                 *)
SocketsReleased == attached_sockets_ = 0

PostNull ==
  /\ nulls < Cardinality(workers_)
  /\ nulls' = nulls + 1
  /\ Post(Null)
  /\ UNCHANGED <<attached_sockets_, thread, held>>

NoJoin == nulls = Cardinality(workers_)

Joined ==
  /\ nulls = Cardinality(workers_)
  /\ \A w \in workers_ : thread[w] = "exited"
=============================================================================
