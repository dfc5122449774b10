--------------------------- MODULE AcceptorProofs ---------------------------
(***************************************************************************)
(* Proofs about Acceptor and the CompletionPort it extends, for any finite *)
(* sets of workers, AcceptSockets and clients and any set of failures.     *)
(* IInv is inductive, and Counts is together with it; the safety           *)
(* properties of the module follow from them.                              *)
(***************************************************************************)
EXTENDS Acceptor, SequenceTheorems, FiniteSetTheorems, TLAPS

-----------------------------------------------------------------------------
(* The inductive invariant. *)

(* Nothing runs before Create. *)
NotStarted == main = "start" => \A w \in Workers : thread[w] = "none"

(* A worker is somewhere in the callback just when Run has called it, with *)
(* a completion, and hands over a session only if there is a client.       *)
CallbackMatches ==
  \A w \in Workers :
    /\ progress[w] # "idle" <=> thread[w] = "callback"
    /\ thread[w] = "callback" => held[w] \in AcceptCompletions
    /\ progress[w] = "pushing" => held[w].client # NoClient

(* Where an AcceptSocket's completion is: SingleAccept without counting.   *)
OnePlace ==
  \A s \in Slots :
    /\ slot[s] = "taken" <=> Queued(s) # {} \/ Handling(s) # {}
    /\ \A i, j \in Queued(s) : i = j
    /\ \A v, w \in Handling(s) : v = w
    /\ Queued(s) = {} \/ Handling(s) = {}

IInv ==
  /\ TypeOK
  /\ NotStarted
  /\ CallbackMatches
  /\ NoCallbackAfterReset
  /\ OnePlace
  /\ SessionsKept

-----------------------------------------------------------------------------
(* Arithmetic and sequences. *)

(* The counter of the port keeps its width. *)
LEMMA CounterRange ==
  ASSUME NEW n \in Int
  PROVE  n % UINT32 \in 0 .. UINT32 - 1
<1>1. UINT32 \in Nat /\ UINT32 > 0
  BY PortAssumption
<1> QED BY <1>1

LEMMA QueueFacts ==
  ASSUME NEW S, NEW q \in Seq(S)
  PROVE  /\ Len(q) \in Nat
         /\ q # <<>> => /\ Len(q) >= 1
                        /\ Head(q) = q[1] /\ Head(q) \in S
                        /\ Tail(q) \in Seq(S) /\ Len(Tail(q)) = Len(q) - 1
                        /\ \A i \in 1 .. Len(q) - 1 : Tail(q)[i] = q[i + 1]
         /\ \A e \in S : /\ Append(q, e) \in Seq(S) /\ Len(Append(q, e)) = Len(q) + 1
                         /\ \A i \in 1 .. Len(q) : Append(q, e)[i] = q[i]
                         /\ Append(q, e)[Len(q) + 1] = e
<1>1. Len(q) \in Nat /\ (q = <<>> <=> Len(q) = 0)
  BY LenProperties, EmptySeq
<1>2. ASSUME q # <<>>
      PROVE  /\ Len(q) >= 1 /\ Head(q) = q[1] /\ Head(q) \in S
             /\ Tail(q) \in Seq(S) /\ Len(Tail(q)) = Len(q) - 1
             /\ \A i \in 1 .. Len(q) - 1 : Tail(q)[i] = q[i + 1]
  BY <1>1, <1>2, HeadTailProperties
<1>3. ASSUME NEW e \in S
      PROVE  /\ Append(q, e) \in Seq(S) /\ Len(Append(q, e)) = Len(q) + 1
             /\ \A i \in 1 .. Len(q) : Append(q, e)[i] = q[i]
             /\ Append(q, e)[Len(q) + 1] = e
  BY AppendProperties
<1> QED BY <1>1, <1>2, <1>3

-----------------------------------------------------------------------------
(* Where the completions are. *)

(* Taking the oldest completion moves the places in the queue forward. *)
LEMMA QueuedAfterTail ==
  ASSUME queue \in Seq(Completions \cup {Null}), queue # <<>>, queue' = Tail(queue),
         NEW s \in Slots
  PROVE  /\ \A i \in Queued(s)' : i + 1 \in Queued(s)
         /\ \A i \in Queued(s) : i # 1 => i - 1 \in Queued(s)'
         /\ Queued(s) \subseteq Nat \ {0} /\ Queued(s)' \subseteq Nat \ {0}
         /\ 1 \in Queued(s) <=> Head(queue) # Null /\ Head(queue).slot = s
<1>1. /\ Len(queue) \in Nat /\ Len(queue) >= 1 /\ Head(queue) = queue[1]
      /\ Len(queue') = Len(queue) - 1
      /\ \A i \in 1 .. Len(queue) - 1 : queue'[i] = queue[i + 1]
  BY QueueFacts
<1>2. \A i \in 1 .. Len(queue') : i + 1 \in 1 .. Len(queue) /\ queue'[i] = queue[i + 1]
  BY <1>1
<1>3. ASSUME NEW i \in 1 .. Len(queue), i # 1
      PROVE  i - 1 \in 1 .. Len(queue') /\ queue'[i - 1] = queue[i]
  <2>1. i - 1 \in 1 .. Len(queue) - 1 /\ (i - 1) + 1 = i
    BY <1>1, <1>3
  <2> QED BY <2>1, <1>1
<1>4. 1 \in 1 .. Len(queue)
  BY <1>1
<1>5. Queued(s) \subseteq 1 .. Len(queue) /\ Queued(s)' \subseteq 1 .. Len(queue')
  BY DEF Queued
<1>6. Queued(s) \subseteq Nat \ {0} /\ Queued(s)' \subseteq Nat \ {0}
  BY <1>5
<1> QED BY <1>1, <1>2, <1>3, <1>4, <1>6 DEF Queued

(* Queueing a completion c adds one place, for its AcceptSocket. *)
LEMMA QueuedAfterAppend ==
  ASSUME queue \in Seq(Completions \cup {Null}),
         NEW c \in Completions \cup {Null}, queue' = Append(queue, c),
         NEW s \in Slots
  PROVE  /\ c # Null /\ c.slot = s => Queued(s)' = Queued(s) \cup {Len(queue) + 1}
         /\ ~(c # Null /\ c.slot = s) => Queued(s)' = Queued(s)
<1>1. /\ Len(queue) \in Nat /\ Len(queue') = Len(queue) + 1
      /\ \A i \in 1 .. Len(queue) : queue'[i] = queue[i]
      /\ queue'[Len(queue) + 1] = c
  BY QueueFacts
<1>2. 1 .. Len(queue') = (1 .. Len(queue)) \cup {Len(queue) + 1}
  BY <1>1
<1> QED BY <1>1, <1>2 DEF Queued

(* What does not concern the queue, the workers or whose accept is in      *)
(* progress leaves the places alone.                                       *)
LEMMA SamePlaces ==
  ASSUME UNCHANGED <<queue, thread, held>>, NEW s \in Slots
  PROVE  Queued(s)' = Queued(s) /\ Handling(s)' = Handling(s)
BY DEF Queued, Handling

LEMMA FrameOnePlace ==
  ASSUME OnePlace, UNCHANGED <<queue, thread, held>>,
         \A s \in Slots : slot'[s] = "taken" <=> slot[s] = "taken"
  PROVE  OnePlace'
<1>1. \A s \in Slots : Queued(s)' = Queued(s) /\ Handling(s)' = Handling(s)
  BY SamePlaces
<1> QED BY <1>1 DEF OnePlace

-----------------------------------------------------------------------------
(* At first there is nothing. *)
LEMMA InitIInv == Init => IInv
<1> SUFFICES ASSUME Init PROVE IInv
  OBVIOUS
<1>1. /\ queue = <<>> /\ Len(queue) = 0 /\ queue \in Seq(Completions \cup {Null})
      /\ \A w \in Workers : thread[w] = "none"
  BY EmptySeq DEF Init, PortInit
<1>2. \A s \in Slots : Queued(s) = {} /\ Handling(s) = {}
  <2>1. 1 .. 0 = {}
    OBVIOUS
  <2> QED BY <2>1, <1>1 DEF Queued, Handling
<1>3. TypeOK
  <2>1. Cardinality(Workers) \in Nat
    BY PortAssumption, FS_CardinalityType
  <2>2. 0 \in 0 .. UINT32 - 1 /\ 0 \in 0 .. Cardinality(Workers)
    BY <2>1, PortAssumption
  <2>3. PortTypeOK
    BY <1>1, <2>2 DEF Init, PortInit, PortTypeOK
  <2> QED BY <2>3 DEF Init, TypeOK, MainStates
<1>4. NotStarted /\ NoCallbackAfterReset
  BY <1>1 DEF Init, NotStarted, NoCallbackAfterReset
<1>5. CallbackMatches
  BY <1>1 DEF Init, CallbackMatches
<1>6. OnePlace
  BY <1>2 DEF Init, OnePlace
<1>7. SessionsKept
  BY DEF Init, SessionsKept
<1> QED BY <1>3, <1>4, <1>5, <1>6, <1>7 DEF IInv

(* The steps of main that move nothing but main, the listening socket and  *)
(* the counter.                                                            *)
LEMMA MainIInv ==
  ASSUME IInv, main' \in MainStates \ {"start"},
         main' \in {"closing", "closed"} => main \in {"closing", "closed"},
         attached_sockets_' \in 0 .. UINT32 - 1, opened_' \in BOOLEAN,
         listen_socket_' \in {"none", "listening", "closed"}, bound' \in BOOLEAN,
         UNCHANGED <<queue, thread, held, nulls, slot, progress, client, sockets_>>
  PROVE  IInv'
<1>1. TypeOK'
  BY DEF IInv, TypeOK, PortTypeOK
<1>2. NotStarted'
  BY DEF NotStarted
<1>3. CallbackMatches' /\ SessionsKept'
  BY DEF IInv, CallbackMatches, SessionsKept
<1>4. NoCallbackAfterReset'
  BY DEF IInv, NoCallbackAfterReset, workers_
<1>5. OnePlace'
  BY FrameOnePlace DEF IInv
<1> QED BY <1>1, <1>2, <1>3, <1>4, <1>5 DEF IInv

(* Create starts the workers, and all of them wait. *)
LEMMA OpenCreateIInv == IInv /\ OpenCreate => IInv'
<1> SUFFICES ASSUME IInv, OpenCreate PROVE IInv'
  OBVIOUS
<1>1. CASE Create /\ main' = "created"
  <2>1. /\ \A w \in Workers : thread[w] = "none" /\ thread'[w] = "waiting"
        /\ thread' \in [Workers -> {"none", "waiting", "callback", "exited"}]
        /\ UNCHANGED <<attached_sockets_, queue, held, nulls, opened_, listen_socket_, bound,
                       slot, progress, client, sockets_>>
    BY <1>1 DEF OpenCreate, Create, IInv, NotStarted
  <2>2. TypeOK'
    BY <1>1, <2>1 DEF IInv, TypeOK, PortTypeOK, MainStates
  <2>3. NotStarted' /\ NoCallbackAfterReset'
    BY <1>1 DEF NotStarted, NoCallbackAfterReset
  <2>4. CallbackMatches' /\ SessionsKept'
    BY <2>1 DEF IInv, CallbackMatches, SessionsKept
  <2>5. \A s \in Slots : Queued(s)' = Queued(s) /\ Handling(s)' = Handling(s)
    BY <2>1 DEF Queued, Handling
  <2>6. OnePlace'
    BY <2>1, <2>5 DEF IInv, OnePlace
  <2> QED BY <2>2, <2>3, <2>4, <2>6 DEF IInv
<1>2. CASE main' = "failed" /\ UNCHANGED portVars
  <2>1. UNCHANGED <<attached_sockets_, queue, thread, held, nulls, opened_, listen_socket_, bound,
                    slot, progress, client, sockets_>>
    BY <1>2 DEF OpenCreate, portVars
  <2>2. /\ attached_sockets_ \in 0 .. UINT32 - 1 /\ opened_ \in BOOLEAN /\ bound \in BOOLEAN
        /\ listen_socket_ \in {"none", "listening", "closed"}
    BY DEF IInv, TypeOK, PortTypeOK
  <2> QED BY <1>2, <2>1, <2>2, MainIInv DEF MainStates
<1> QED BY <1>1, <1>2 DEF OpenCreate

(* Whatever main does but start the workers, post AcceptEx, post a null    *)
(* and join.                                                               *)
LEMMA PlainMainIInv ==
  ASSUME IInv, OpenListen \/ OpenAttach \/ OpenEnds \/ Close \/ CloseDetach \/ CloseWait \/ CloseEnds
  PROVE  IInv'
<1>1. /\ attached_sockets_ \in 0 .. UINT32 - 1 /\ opened_ \in BOOLEAN /\ bound \in BOOLEAN
      /\ listen_socket_ \in {"none", "listening", "closed"} /\ UINT32 \in Nat
  BY PortAssumption DEF IInv, TypeOK, PortTypeOK
<1>2. /\ (attached_sockets_ + 1) % UINT32 \in 0 .. UINT32 - 1
      /\ (attached_sockets_ + UINT32 - 1) % UINT32 \in 0 .. UINT32 - 1
  <2>1. attached_sockets_ + 1 \in Int /\ attached_sockets_ + UINT32 - 1 \in Int
    BY <1>1
  <2> QED BY <2>1, CounterRange
<1>3. /\ attached_sockets_' \in 0 .. UINT32 - 1
      /\ UNCHANGED <<queue, thread, held, nulls, slot, progress, client, sockets_>>
  BY <1>1, <1>2 DEF OpenListen, OpenAttach, OpenEnds, Close, CloseDetach, CloseWait, CloseEnds,
     Attach, Detach, portVars
<1>4. /\ main' \in {"listening", "failed", "posting", "open", "detaching", "waiting", "joining", "closed"}
      /\ main' = "closed" => main = "closing"
      /\ opened_' \in BOOLEAN /\ bound' \in BOOLEAN
      /\ listen_socket_' \in {"none", "listening", "closed"}
  BY <1>1 DEF OpenListen, OpenAttach, OpenEnds, Close, CloseDetach, CloseWait, CloseEnds
<1> QED BY <1>3, <1>4, MainIInv DEF MainStates

(* One turn of the loop of Open gives an unused AcceptSocket to AcceptEx.  *)
LEMMA OpenPostAcceptIInv ==
  ASSUME IInv, NEW s \in Slots, OpenPostAccept(s)
  PROVE  IInv'
<1>1. /\ UNCHANGED <<attached_sockets_, queue, thread, held, nulls, opened_, listen_socket_, bound,
                     progress, client, sockets_>>
      /\ main = "posting" /\ main' \in {"posting", "failed"}
      /\ slot[s] = "none"
      /\ \/ slot' = slot
         \/ \E v \in {"posted", "dead"} : slot' = [slot EXCEPT ![s] = v]
  BY DEF OpenPostAccept, PostAccept, portVars
<1>2. /\ slot' \in [Slots -> {"none", "posted", "taken", "dead"}]
      /\ \A t \in Slots : slot'[t] = "taken" <=> slot[t] = "taken"
  BY <1>1 DEF IInv, TypeOK
<1>3. TypeOK'
  BY <1>1, <1>2 DEF IInv, TypeOK, PortTypeOK, MainStates
<1>4. NotStarted' /\ NoCallbackAfterReset'
  BY <1>1 DEF NotStarted, NoCallbackAfterReset
<1>5. CallbackMatches' /\ SessionsKept'
  BY <1>1 DEF IInv, CallbackMatches, SessionsKept
<1>6. OnePlace'
  BY <1>1, <1>2, FrameOnePlace DEF IInv
<1> QED BY <1>3, <1>4, <1>5, <1>6 DEF IInv

(* A null is no AcceptSocket's completion. *)
LEMMA ClosePostNullIInv == IInv /\ ClosePostNull => IInv'
<1> SUFFICES ASSUME IInv, ClosePostNull PROVE IInv'
  OBVIOUS
<1>1. /\ UNCHANGED <<attached_sockets_, thread, held, main, opened_, listen_socket_, bound, slot,
                     progress, client, sockets_>>
      /\ main = "joining" /\ queue' = Append(queue, Null)
      /\ nulls' = nulls + 1 /\ nulls < Cardinality(workers_)
  BY DEF ClosePostNull, PostNull, Post, acceptVars
<1>2. queue \in Seq(Completions \cup {Null}) /\ queue' \in Seq(Completions \cup {Null})
  BY <1>1, QueueFacts DEF IInv, TypeOK, PortTypeOK
<1>3. nulls' \in 0 .. Cardinality(Workers)
  <2>1. workers_ \subseteq Workers
    BY DEF workers_
  <2>2. /\ Cardinality(workers_) \in Nat /\ Cardinality(Workers) \in Nat
        /\ Cardinality(workers_) <= Cardinality(Workers)
    BY <2>1, PortAssumption, FS_Subset, FS_CardinalityType
  <2>3. nulls \in Nat
    BY <2>2 DEF IInv, TypeOK, PortTypeOK
  <2> QED BY <1>1, <2>2, <2>3
<1>4. TypeOK'
  BY <1>1, <1>2, <1>3 DEF IInv, TypeOK, PortTypeOK
<1>5. NotStarted' /\ NoCallbackAfterReset'
  BY <1>1 DEF NotStarted, NoCallbackAfterReset
<1>6. CallbackMatches' /\ SessionsKept'
  BY <1>1 DEF IInv, CallbackMatches, SessionsKept
<1>7. \A s \in Slots : Queued(s)' = Queued(s) /\ Handling(s)' = Handling(s)
  BY <1>1, <1>2, QueuedAfterAppend DEF Handling
<1>8. OnePlace'
  BY <1>1, <1>7 DEF IInv, OnePlace
<1> QED BY <1>4, <1>5, <1>6, <1>8 DEF IInv

(* Close goes on only once every worker has left Run. *)
LEMMA CloseJoinIInv == IInv /\ CloseJoin => IInv'
<1> SUFFICES ASSUME IInv, CloseJoin PROVE IInv'
  OBVIOUS
<1>1. /\ UNCHANGED <<attached_sockets_, queue, thread, held, nulls, opened_, listen_socket_, bound,
                     slot, progress, client, sockets_>>
      /\ main' = "closing" /\ \A w \in workers_ : thread[w] = "exited"
  BY DEF CloseJoin, Joined, portVars
<1>2. TypeOK'
  BY <1>1 DEF IInv, TypeOK, PortTypeOK, MainStates
<1>3. NotStarted'
  BY <1>1 DEF NotStarted
<1>4. NoCallbackAfterReset'
  BY <1>1 DEF NoCallbackAfterReset, workers_
<1>5. CallbackMatches' /\ SessionsKept'
  BY <1>1 DEF IInv, CallbackMatches, SessionsKept
<1>6. OnePlace'
  BY <1>1, FrameOnePlace DEF IInv
<1> QED BY <1>2, <1>3, <1>4, <1>5, <1>6 DEF IInv

(* The completion a worker takes goes from the queue into its hands.       *)
LEMMA DequeueIInv == ASSUME IInv, NEW w \in Workers, Dequeue(w) PROVE IInv'
<1> DEFINE c == Head(queue)
<1>1. /\ thread[w] = "waiting" /\ queue # <<>> /\ queue' = Tail(queue)
      /\ UNCHANGED <<attached_sockets_, nulls, main, opened_, listen_socket_, bound, slot, client,
                     sockets_>>
      /\ progress' = [progress EXCEPT ![w] =
                        IF thread'[w] = "callback" THEN "accepting" ELSE "idle"]
  BY DEF Dequeue, Take
<1>2. \/ c = Null /\ thread' = [thread EXCEPT ![w] = "exited"] /\ held' = held
      \/ /\ c # Null /\ thread' = [thread EXCEPT ![w] = "callback"]
         /\ held' = [held EXCEPT ![w] = c]
  BY DEF Dequeue, Take
<1>3. TypeOK /\ queue \in Seq(Completions \cup {Null})
      /\ thread \in [Workers -> {"none", "waiting", "callback", "exited"}]
      /\ held \in [Workers -> Completions \cup {Null}]
      /\ progress \in [Workers -> {"idle", "accepting", "pushing", "reposting"}]
  BY DEF IInv, TypeOK, PortTypeOK
<1>4. c \in Completions \cup {Null} /\ queue' \in Seq(Completions \cup {Null})
  BY <1>1, <1>3, QueueFacts
<1>5. progress[w] = "idle"
  BY <1>1, <1>3 DEF IInv, CallbackMatches
<1> HIDE DEF c
<1>6. /\ thread' \in [Workers -> {"none", "waiting", "callback", "exited"}]
      /\ held' \in [Workers -> Completions \cup {Null}]
      /\ progress' \in [Workers -> {"idle", "accepting", "pushing", "reposting"}]
      /\ \A v \in Workers : v # w => /\ thread'[v] = thread[v] /\ held'[v] = held[v]
                                     /\ progress'[v] = progress[v]
      /\ c = Null => thread'[w] = "exited" /\ progress'[w] = "idle"
      /\ c # Null => /\ thread'[w] = "callback" /\ progress'[w] = "accepting"
                     /\ held'[w] = c /\ c \in Completions
  BY <1>1, <1>2, <1>3, <1>4
<1>7. TypeOK'
  BY <1>1, <1>3, <1>4, <1>6 DEF TypeOK, PortTypeOK
<1>8. NotStarted'
  BY <1>1 DEF NotStarted, IInv
<1>9. NoCallbackAfterReset'
  <2>1. w \in workers_
    BY <1>1 DEF workers_
  <2> QED BY <1>1, <2>1 DEF IInv, NoCallbackAfterReset
<1>10. CallbackMatches'
  BY <1>6, AcceptorAssumption DEF IInv, CallbackMatches
<1>11. SessionsKept'
  <2> SUFFICES ASSUME NEW k \in Clients, client'[k] = "attached", k \notin sockets_'
               PROVE  \E v \in Workers : progress'[v] = "pushing" /\ held'[v].client = k
    BY DEF SessionsKept
  <2>1. PICK v \in Workers : progress[v] = "pushing" /\ held[v].client = k
    BY <1>1 DEF IInv, SessionsKept
  <2> QED BY <2>1, <1>5, <1>6
<1>12. OnePlace'
  <2> SUFFICES ASSUME NEW s \in Slots
               PROVE  /\ slot'[s] = "taken" <=> Queued(s)' # {} \/ Handling(s)' # {}
                      /\ \A i, j \in Queued(s)' : i = j
                      /\ \A u, v \in Handling(s)' : u = v
                      /\ Queued(s)' = {} \/ Handling(s)' = {}
    BY DEF OnePlace
  <2>1. /\ \A i \in Queued(s)' : i + 1 \in Queued(s)
        /\ \A i \in Queued(s) : i # 1 => i - 1 \in Queued(s)'
        /\ Queued(s) \subseteq Nat \ {0} /\ Queued(s)' \subseteq Nat \ {0}
        /\ 1 \in Queued(s) <=> c # Null /\ c.slot = s
    BY <1>1, <1>3, QueuedAfterTail DEF c
  <2>2. /\ slot[s] = "taken" <=> Queued(s) # {} \/ Handling(s) # {}
        /\ \A i, j \in Queued(s) : i = j
        /\ \A u, v \in Handling(s) : u = v
        /\ Queued(s) = {} \/ Handling(s) = {}
    BY DEF IInv, OnePlace
  <2>3. CASE c # Null /\ c.slot = s
    <3>1. Queued(s) = {1} /\ Handling(s) = {}
      BY <2>1, <2>2, <2>3
    <3>2. Queued(s)' = {}
      <4> SUFFICES ASSUME NEW i \in Queued(s)' PROVE FALSE
        OBVIOUS
      <4>1. i \in Nat \ {0} /\ i + 1 = 1
        BY <2>1, <3>1
      <4> QED BY <4>1
    <3>3. Handling(s)' = {w}
      BY <2>3, <3>1, <1>6 DEF Handling
    <3> QED BY <2>2, <3>1, <3>2, <3>3, <1>1
  <2>4. CASE ~(c # Null /\ c.slot = s)
    <3>1. w \notin Handling(s) /\ w \notin Handling(s)'
      BY <1>1, <1>6, <2>4 DEF Handling
    <3>2. Handling(s)' = Handling(s)
      BY <1>6, <3>1 DEF Handling
    <3>3. Queued(s)' = {} <=> Queued(s) = {}
      BY <2>1, <2>4
    <3>4. \A i, j \in Queued(s)' : i = j
      <4> SUFFICES ASSUME NEW i \in Queued(s)', NEW j \in Queued(s)' PROVE i = j
        OBVIOUS
      <4>1. i + 1 = j + 1 /\ i \in Nat /\ j \in Nat
        BY <2>1, <2>2
      <4> QED BY <4>1
    <3> QED BY <2>2, <3>2, <3>3, <3>4, <1>1
  <2> QED BY <2>3, <2>4
<1> QED BY <1>7, <1>8, <1>9, <1>10, <1>11, <1>12 DEF IInv

(* A session that is attached is at once in the hands of its worker. *)
LEMMA AcceptIInv == ASSUME IInv, NEW w \in Workers, Accept(w) PROVE IInv'
<1> DEFINE c == held[w].client
<1>1. /\ progress[w] = "accepting"
      /\ UNCHANGED <<queue, thread, held, nulls, main, opened_, listen_socket_, bound, slot, sockets_>>
  BY DEF Accept
<1>2. held[w] \in AcceptCompletions /\ thread[w] = "callback"
  BY <1>1 DEF IInv, CallbackMatches
<1>3. c \in Clients \cup {NoClient}
  BY <1>2 DEF AcceptCompletions
<1>4. \/ progress' = [progress EXCEPT ![w] = "reposting"] /\ UNCHANGED client
      \/ /\ c # NoClient /\ progress' = [progress EXCEPT ![w] = "reposting"]
         /\ client' = [client EXCEPT ![c] = "dropped"]
      \/ /\ c # NoClient /\ progress' = [progress EXCEPT ![w] = "pushing"]
         /\ client' \in {[client EXCEPT ![c] = "attached"], [client EXCEPT ![c] = "deaf"]}
  BY DEF Accept
<1>5. /\ progress' \in [Workers -> {"idle", "accepting", "pushing", "reposting"}]
      /\ client' \in [Clients -> {"away", "backlog", "matched", "attached", "deaf", "dropped"}]
  BY <1>3, <1>4 DEF IInv, TypeOK
<1>6. attached_sockets_' \in 0 .. UINT32 - 1
  <2>1. attached_sockets_ \in 0 .. UINT32 - 1 /\ UINT32 \in Nat
    BY PortAssumption DEF IInv, TypeOK, PortTypeOK
  <2>2. (attached_sockets_ + 1) % UINT32 \in 0 .. UINT32 - 1
    BY <2>1, CounterRange
  <2> QED BY <2>1, <2>2 DEF Accept, Attach
<1> HIDE DEF c
<1>7. TypeOK'
  BY <1>1, <1>5, <1>6 DEF IInv, TypeOK, PortTypeOK
<1>8. NotStarted' /\ NoCallbackAfterReset'
  BY <1>1 DEF IInv, NotStarted, NoCallbackAfterReset, workers_
<1>9. /\ \A v \in Workers : v # w => progress'[v] = progress[v]
      /\ progress'[w] \in {"pushing", "reposting"}
      /\ progress'[w] = "pushing" => c # NoClient
  BY <1>4 DEF IInv, TypeOK
<1>10. CallbackMatches'
  BY <1>1, <1>2, <1>9 DEF IInv, CallbackMatches, c
<1>11. OnePlace'
  BY <1>1, FrameOnePlace DEF IInv
<1>12. SessionsKept'
  <2> SUFFICES ASSUME NEW k \in Clients, client'[k] = "attached", k \notin sockets_'
               PROVE  \E v \in Workers : progress'[v] = "pushing" /\ held'[v].client = k
    BY DEF SessionsKept
  <2>1. CASE client[k] = "attached"
    <3>1. PICK v \in Workers : progress[v] = "pushing" /\ held[v].client = k
      BY <2>1, <1>1 DEF IInv, SessionsKept
    <3> QED BY <3>1, <1>1, <1>9
  <2>2. CASE client[k] # "attached"
    <3>1. k = c /\ progress' = [progress EXCEPT ![w] = "pushing"]
      BY <2>2, <1>3, <1>4 DEF IInv, TypeOK
    <3>2. progress'[w] = "pushing"
      BY <3>1 DEF IInv, TypeOK
    <3> QED BY <3>1, <3>2, <1>1 DEF c
  <2> QED BY <2>1, <2>2
<1> QED BY <1>7, <1>8, <1>10, <1>11, <1>12 DEF IInv

(* The session goes from the worker's hands into sockets_. *)
LEMMA PushSocketIInv == ASSUME IInv, NEW w \in Workers, PushSocket(w) PROVE IInv'
<1>1. /\ progress[w] = "pushing" /\ sockets_' = sockets_ \cup {held[w].client}
      /\ progress' = [progress EXCEPT ![w] = "reposting"]
      /\ UNCHANGED <<attached_sockets_, queue, thread, held, nulls, main, opened_, listen_socket_,
                     bound, slot, client>>
  BY DEF PushSocket, portVars
<1>2. /\ held[w] \in AcceptCompletions /\ thread[w] = "callback" /\ held[w].client # NoClient
  BY <1>1 DEF IInv, CallbackMatches
<1>3. sockets_' \subseteq Clients
  BY <1>1, <1>2 DEF AcceptCompletions, IInv, TypeOK
<1>4. /\ progress' \in [Workers -> {"idle", "accepting", "pushing", "reposting"}]
      /\ progress'[w] = "reposting"
      /\ \A v \in Workers : v # w => progress'[v] = progress[v]
  BY <1>1 DEF IInv, TypeOK
<1>5. TypeOK'
  BY <1>1, <1>3, <1>4 DEF IInv, TypeOK, PortTypeOK
<1>6. NotStarted' /\ NoCallbackAfterReset'
  BY <1>1 DEF IInv, NotStarted, NoCallbackAfterReset, workers_
<1>7. CallbackMatches'
  BY <1>1, <1>2, <1>4 DEF IInv, CallbackMatches
<1>8. OnePlace'
  BY <1>1, FrameOnePlace DEF IInv
<1>9. SessionsKept'
  <2> SUFFICES ASSUME NEW k \in Clients, client'[k] = "attached", k \notin sockets_'
               PROVE  \E v \in Workers : progress'[v] = "pushing" /\ held'[v].client = k
    BY DEF SessionsKept
  <2>1. PICK v \in Workers : progress[v] = "pushing" /\ held[v].client = k
    BY <1>1 DEF IInv, SessionsKept
  <2>2. v # w
    BY <2>1, <1>1
  <2> QED BY <2>1, <2>2, <1>1, <1>4
<1> QED BY <1>5, <1>6, <1>7, <1>8, <1>9 DEF IInv

(* The AcceptSocket goes from the worker's hands back to AcceptEx. *)
LEMMA RepostIInv == ASSUME IInv, NEW w \in Workers, Repost(w) PROVE IInv'
<1>1. /\ progress[w] = "reposting" /\ main # "terminated"
      /\ UNCHANGED <<attached_sockets_, queue, nulls, opened_, listen_socket_, bound, client, sockets_>>
  BY DEF Repost, Running
<1>2. /\ held[w] \in AcceptCompletions /\ thread[w] = "callback" /\ held[w].slot \in Slots
  BY <1>1 DEF IInv, CallbackMatches, AcceptCompletions
<1>3. CASE main' = "terminated" /\ UNCHANGED <<slot, thread, held, progress>>
  <2>1. /\ attached_sockets_ \in 0 .. UINT32 - 1 /\ opened_ \in BOOLEAN /\ bound \in BOOLEAN
        /\ listen_socket_ \in {"none", "listening", "closed"}
    BY DEF IInv, TypeOK, PortTypeOK
  <2> QED BY <1>1, <1>3, <2>1, MainIInv DEF MainStates
<1>4. CASE /\ PostAccept(held[w].slot) /\ Return(w)
           /\ progress' = [progress EXCEPT ![w] = "idle"] /\ UNCHANGED main
  <2> DEFINE t == held[w].slot
  <2>1. \E v \in {"posted", "dead"} : slot' = [slot EXCEPT ![t] = v]
    BY <1>4 DEF PostAccept
  <2>2. /\ slot' \in [Slots -> {"none", "posted", "taken", "dead"}]
        /\ slot'[t] # "taken" /\ \A s \in Slots : s # t => slot'[s] = slot[s]
    BY <2>1, <1>2 DEF IInv, TypeOK
  <2>3. /\ thread' = [thread EXCEPT ![w] = "waiting"]
        /\ held' = [held EXCEPT ![w] = Null]
        /\ progress' = [progress EXCEPT ![w] = "idle"] /\ main' = main
    BY <1>4 DEF Return
  <2>4. /\ thread' \in [Workers -> {"none", "waiting", "callback", "exited"}]
        /\ held' \in [Workers -> Completions \cup {Null}]
        /\ progress' \in [Workers -> {"idle", "accepting", "pushing", "reposting"}]
        /\ thread'[w] = "waiting" /\ progress'[w] = "idle"
        /\ \A v \in Workers : v # w => /\ thread'[v] = thread[v] /\ held'[v] = held[v]
                                       /\ progress'[v] = progress[v]
    BY <2>3 DEF IInv, TypeOK, PortTypeOK
  <2>5. TypeOK'
    BY <1>1, <2>2, <2>3, <2>4 DEF IInv, TypeOK, PortTypeOK
  <2>6. NotStarted' /\ NoCallbackAfterReset'
    <3>1. w \in workers_
      BY <1>2 DEF workers_
    <3>2. main # "start" /\ main \notin {"closing", "closed"}
      BY <1>2, <3>1 DEF IInv, NotStarted, NoCallbackAfterReset
    <3> QED BY <2>3, <3>2 DEF NotStarted, NoCallbackAfterReset
  <2>7. CallbackMatches'
    BY <2>4 DEF IInv, CallbackMatches
  <2>8. SessionsKept'
    <3> SUFFICES ASSUME NEW k \in Clients, client'[k] = "attached", k \notin sockets_'
                 PROVE  \E v \in Workers : progress'[v] = "pushing" /\ held'[v].client = k
      BY DEF SessionsKept
    <3>1. PICK v \in Workers : progress[v] = "pushing" /\ held[v].client = k
      BY <1>1 DEF IInv, SessionsKept
    <3> QED BY <3>1, <1>1, <2>4
  <2>9. OnePlace'
    <3> SUFFICES ASSUME NEW s \in Slots
                 PROVE  /\ slot'[s] = "taken" <=> Queued(s)' # {} \/ Handling(s)' # {}
                        /\ \A i, j \in Queued(s)' : i = j
                        /\ \A u, v \in Handling(s)' : u = v
                        /\ Queued(s)' = {} \/ Handling(s)' = {}
      BY DEF OnePlace
    <3>1. /\ slot[s] = "taken" <=> Queued(s) # {} \/ Handling(s) # {}
          /\ \A i, j \in Queued(s) : i = j
          /\ \A u, v \in Handling(s) : u = v
          /\ Queued(s) = {} \/ Handling(s) = {}
      BY DEF IInv, OnePlace
    <3>2. Queued(s)' = Queued(s)
      BY <1>1 DEF Queued
    <3>3. Handling(s)' = Handling(s) \ {w}
      BY <2>4 DEF Handling
    <3>4. w \in Handling(s) <=> s = t
      BY <1>2 DEF Handling
    <3>5. CASE s = t
      BY <2>2, <3>1, <3>2, <3>3, <3>4, <3>5
    <3>6. CASE s # t
      BY <2>2, <3>1, <3>2, <3>3, <3>4, <3>6
    <3> QED BY <3>5, <3>6
  <2> QED BY <2>5, <2>6, <2>7, <2>8, <2>9 DEF IInv
<1> QED BY <1>3, <1>4 DEF Repost

(* A client that connects concerns nobody yet. *)
LEMMA ConnectIInv == ASSUME IInv, NEW c \in Clients, Connect(c) PROVE IInv'
<1>1. /\ client' = [client EXCEPT ![c] = "backlog"]
      /\ UNCHANGED <<attached_sockets_, queue, thread, held, nulls, main, opened_, listen_socket_,
                     bound, slot, progress, sockets_>>
  BY DEF Connect, portVars
<1>2. TypeOK'
  BY <1>1 DEF IInv, TypeOK, PortTypeOK
<1>3. \A k \in Clients : client'[k] = "attached" => client[k] = "attached"
  BY <1>1 DEF IInv, TypeOK
<1>4. SessionsKept'
  BY <1>1, <1>3 DEF IInv, SessionsKept
<1>5. NotStarted' /\ NoCallbackAfterReset' /\ CallbackMatches'
  BY <1>1 DEF IInv, NotStarted, NoCallbackAfterReset, workers_, CallbackMatches
<1>6. OnePlace'
  BY <1>1, FrameOnePlace DEF IInv
<1> QED BY <1>2, <1>4, <1>5, <1>6 DEF IInv

(* The AcceptSocket goes from the kernel to the queue. *)
LEMMA AcceptCompletesIInv ==
  ASSUME IInv, NEW s \in Slots, NEW c \in Clients \cup {NoClient}, AcceptCompletes(s, c)
  PROVE  IInv'
<1> DEFINE e == [slot |-> s, client |-> c]
<1>1. /\ slot[s] = "posted" /\ slot' = [slot EXCEPT ![s] = "taken"]
      /\ client' = [k \in Clients |-> IF k = c THEN "matched" ELSE client[k]]
      /\ queue' = Append(queue, e)
      /\ UNCHANGED <<attached_sockets_, thread, held, nulls, main, opened_, listen_socket_, bound,
                     progress, sockets_>>
  BY DEF AcceptCompletes, Post
<1>2. e \in Completions /\ e # Null /\ e.slot = s
  BY AcceptorAssumption, PortAssumption DEF AcceptCompletions
<1> HIDE DEF e
<1>3. queue \in Seq(Completions \cup {Null}) /\ queue' \in Seq(Completions \cup {Null})
  BY <1>1, <1>2, QueueFacts DEF IInv, TypeOK, PortTypeOK
<1>4. /\ slot' \in [Slots -> {"none", "posted", "taken", "dead"}]
      /\ slot'[s] = "taken" /\ \A t \in Slots : t # s => slot'[t] = slot[t]
      /\ client' \in [Clients -> {"away", "backlog", "matched", "attached", "deaf", "dropped"}]
      /\ \A k \in Clients : client'[k] = "attached" => client[k] = "attached"
  BY <1>1 DEF IInv, TypeOK
<1>5. TypeOK'
  BY <1>1, <1>3, <1>4 DEF IInv, TypeOK, PortTypeOK
<1>6. NotStarted' /\ NoCallbackAfterReset' /\ CallbackMatches'
  BY <1>1 DEF IInv, NotStarted, NoCallbackAfterReset, workers_, CallbackMatches
<1>7. SessionsKept'
  BY <1>1, <1>4 DEF IInv, SessionsKept
<1>8. OnePlace'
  <2> SUFFICES ASSUME NEW t \in Slots
               PROVE  /\ slot'[t] = "taken" <=> Queued(t)' # {} \/ Handling(t)' # {}
                      /\ \A i, j \in Queued(t)' : i = j
                      /\ \A u, v \in Handling(t)' : u = v
                      /\ Queued(t)' = {} \/ Handling(t)' = {}
    BY DEF OnePlace
  <2>1. /\ slot[t] = "taken" <=> Queued(t) # {} \/ Handling(t) # {}
        /\ \A i, j \in Queued(t) : i = j
        /\ \A u, v \in Handling(t) : u = v
        /\ Queued(t) = {} \/ Handling(t) = {}
    BY DEF IInv, OnePlace
  <2>2. Handling(t)' = Handling(t)
    BY <1>1 DEF Handling
  <2>3. CASE t = s
    <3>1. Queued(t) = {} /\ Handling(t) = {}
      BY <2>1, <2>3, <1>1
    <3>2. Queued(t)' = {Len(queue) + 1}
      BY <2>3, <3>1, <1>1, <1>2, <1>3, QueuedAfterAppend
    <3> QED BY <2>2, <2>3, <3>1, <3>2, <1>4
  <2>4. CASE t # s
    <3>1. Queued(t)' = Queued(t)
      BY <2>4, <1>1, <1>2, <1>3, QueuedAfterAppend
    <3> QED BY <2>1, <2>2, <2>4, <3>1, <1>4
  <2> QED BY <2>3, <2>4
<1> QED BY <1>5, <1>6, <1>7, <1>8 DEF IInv

-----------------------------------------------------------------------------
(* Every step keeps the inductive invariant. *)
LEMMA StepIInv == IInv /\ [Next]_vars => IInv'
<1> SUFFICES ASSUME IInv, [Next]_vars PROVE IInv'
  OBVIOUS
<1>1. CASE OpenCreate
  BY <1>1, OpenCreateIInv
<1>2. CASE OpenListen \/ OpenAttach \/ OpenEnds \/ Close \/ CloseDetach \/ CloseWait \/ CloseEnds
  BY <1>2, PlainMainIInv
<1>3. ASSUME NEW s \in Slots, OpenPostAccept(s) PROVE IInv'
  BY <1>3, OpenPostAcceptIInv
<1>4. CASE ClosePostNull \/ CloseJoin
  BY <1>4, ClosePostNullIInv, CloseJoinIInv
<1>5. ASSUME NEW w \in Workers, Dequeue(w) \/ Callback(w) PROVE IInv'
  BY <1>5, DequeueIInv, AcceptIInv, PushSocketIInv, RepostIInv DEF Callback
<1>6. ASSUME NEW c \in Clients, Connect(c) PROVE IInv'
  BY <1>6, ConnectIInv
<1>7. ASSUME NEW s \in Slots, NEW c \in Clients \cup {NoClient}, AcceptCompletes(s, c) PROVE IInv'
  BY <1>7, AcceptCompletesIInv
<1>8. CASE UNCHANGED vars
  <2>1. UNCHANGED <<attached_sockets_, queue, thread, held, nulls, main, opened_, listen_socket_,
                    bound, slot, progress, client, sockets_>>
    BY <1>8 DEF vars, portVars, acceptVars
  <2>2. TypeOK'
    BY <2>1 DEF IInv, TypeOK, PortTypeOK
  <2>3. NotStarted' /\ NoCallbackAfterReset' /\ CallbackMatches' /\ SessionsKept'
    BY <2>1 DEF IInv, NotStarted, NoCallbackAfterReset, workers_, CallbackMatches, SessionsKept
  <2>4. OnePlace'
    BY <2>1, FrameOnePlace DEF IInv
  <2> QED BY <2>2, <2>3, <2>4 DEF IInv
<1> QED BY <1>1, <1>2, <1>3, <1>4, <1>5, <1>6, <1>7, <1>8 DEF Next, Open, Closing

(* The inductive invariant holds in every reachable state: the queue, the  *)
(* workers' hands and the AcceptSockets agree on where each completion is. *)
THEOREM InductiveInvariant == Spec => []IInv
<1>1. Init => IInv
  BY InitIInv
<1>2. IInv /\ [Next]_vars => IInv'
  BY StepIInv
<1> QED BY <1>1, <1>2, PTL DEF Spec

(* The variables keep their types: attached_sockets_ its width, and Close  *)
(* posts no more nulls than there are workers.                             *)
THEOREM TypeCorrect == Spec => []TypeOK
<1>1. IInv => TypeOK
  BY DEF IInv
<1> QED BY <1>1, InductiveInvariant, PTL

(* When Close goes on to free what the callbacks use, every worker it      *)
(* started has left Run, for good.                                         *)
THEOREM JoinedBeforeReset == Spec => []NoCallbackAfterReset
<1>1. IInv => NoCallbackAfterReset
  BY DEF IInv
<1> QED BY <1>1, InductiveInvariant, PTL

(* No AcceptSocket is given to AcceptEx while an earlier completion of its *)
(* one OVERLAPPED is queued or being handled.                              *)
THEOREM OneAcceptPerSocket == Spec => []SingleAccept
<1>1. IInv => SingleAccept
  <2> SUFFICES ASSUME IInv, NEW s \in Slots
               PROVE  Cardinality(Queued(s)) + Cardinality(Handling(s))
                        = IF slot[s] = "taken" THEN 1 ELSE 0
    BY DEF SingleAccept
  <2>1. /\ slot[s] = "taken" <=> Queued(s) # {} \/ Handling(s) # {}
        /\ \A i, j \in Queued(s) : i = j
        /\ \A u, v \in Handling(s) : u = v
        /\ Queued(s) = {} \/ Handling(s) = {}
    BY DEF IInv, OnePlace
  <2>2. Cardinality({}) = 0
    BY FS_EmptySet
  <2>3. CASE Queued(s) = {} /\ Handling(s) = {}
    BY <2>1, <2>2, <2>3
  <2>4. CASE Queued(s) # {}
    <3>1. PICK i \in Queued(s) : Queued(s) = {i}
      BY <2>1, <2>4
    <3>2. Cardinality(Queued(s)) = 1 /\ Cardinality(Handling(s)) = 0
      BY <2>1, <2>2, <2>4, <3>1, FS_Singleton
    <3> QED BY <2>1, <2>4, <3>2
  <2>5. CASE Handling(s) # {}
    <3>1. PICK w \in Handling(s) : Handling(s) = {w}
      BY <2>1, <2>5
    <3>2. Cardinality(Handling(s)) = 1 /\ Cardinality(Queued(s)) = 0
      BY <2>1, <2>2, <2>5, <3>1, FS_Singleton
    <3> QED BY <2>1, <2>5, <3>2
  <2> QED BY <2>3, <2>4, <2>5
<1> QED BY <1>1, InductiveInvariant, PTL

(* A session whose socket is attached to the port never goes unowned       *)
(* between OnAccept and PushSocket, whichever workers run in between.      *)
THEOREM AttachedSessionsKept == Spec => []SessionsKept
<1>1. IInv => SessionsKept
  BY DEF IInv
<1> QED BY <1>1, InductiveInvariant, PTL

-----------------------------------------------------------------------------
(* The counter of the port.  A client is in the completion of one accept   *)
(* only, so that its session is attached once, and the sockets attached    *)
(* are the listening socket, until Close detaches it, and the sessions'.   *)
InTransit ==
  {queue[i] : i \in {k \in 1 .. Len(queue) : queue[k] # Null}}
    \cup {held[w] : w \in {v \in Workers : progress[v] = "accepting"}}

OneAccept ==
  \A d, e \in InTransit :
    e.client # NoClient =>
      /\ client[e.client] = "matched"
      /\ d.client = e.client => d.slot = e.slot

OpenFacts ==
  /\ main \in {"start", "created", "listening"} => ~bound /\ ~opened_
  /\ main \in {"posting", "open"} \/ opened_ => bound \/ "attach" \in Faults
  /\ \A c \in Clients : client[c] \notin {"away", "backlog"} => bound

Attached == {c \in Clients : client[c] = "attached"}

Listening == bound /\ ~(main = "waiting" /\ opened_)

Counting == main \notin {"joining", "closing", "closed", "terminated"}

Counted ==
  Counting /\ (main = "waiting" /\ opened_ => bound)
    => attached_sockets_ = (IF Listening THEN 1 ELSE 0) + Cardinality(Attached)

Counts == OneAccept /\ OpenFacts /\ Counted

(* What is in transit is a completion of an AcceptEx. *)
LEMMA CompletionsType ==
  ASSUME IInv, NEW e \in InTransit
  PROVE  e \in AcceptCompletions
<1>1. queue \in Seq(Completions \cup {Null}) /\ Len(queue) \in Nat
  BY QueueFacts DEF IInv, TypeOK, PortTypeOK
<1>2. CASE \E i \in 1 .. Len(queue) : queue[i] # Null /\ e = queue[i]
  BY <1>1, <1>2, ElementOfSeq, AcceptorAssumption
<1>3. CASE \E w \in Workers : progress[w] = "accepting" /\ e = held[w]
  BY <1>3 DEF IInv, CallbackMatches
<1> QED BY <1>2, <1>3 DEF InTransit

(* The two parts are kept by what adds no completion, and by what leaves   *)
(* the counter and what it counts alone.                                   *)
LEMMA OneAcceptKept ==
  ASSUME OneAccept, InTransit' \subseteq InTransit,
         \A e \in InTransit' : e.client # NoClient => client'[e.client] = client[e.client]
  PROVE  OneAccept'
BY DEF OneAccept

LEMMA CountedKept ==
  ASSUME Counted, Counting' => Counting, Attached' = Attached, Listening' = Listening,
         (main' = "waiting" /\ opened_' => bound') => (main = "waiting" /\ opened_ => bound),
         attached_sockets_' = attached_sockets_
  PROVE  Counted'
BY DEF Counted

(* At first nothing is in transit and nothing counted. *)
LEMMA CountsInit == Init => Counts
<1> SUFFICES ASSUME Init PROVE Counts
  OBVIOUS
<1>1. InTransit = {}
  <2>1. Len(queue) = 0 /\ 1 .. 0 = {}
    BY EmptySeq DEF Init, PortInit
  <2> QED BY <2>1 DEF InTransit, Init
<1>2. Attached = {} /\ Cardinality({}) = 0
  BY FS_EmptySet DEF Attached, Init
<1> QED BY <1>1, <1>2 DEF Counts, OneAccept, OpenFacts, Counted, Listening, Init, PortInit

(* There are no more sessions than clients, so that the counter has room.  *)
LEMMA AttachedCount ==
  /\ IsFiniteSet(Attached)
  /\ Cardinality(Attached) \in Nat
  /\ Cardinality(Attached) <= Cardinality(Clients)
  /\ Cardinality(Clients) \in Nat
<1>1. Attached \subseteq Clients
  BY DEF Attached
<1> QED BY <1>1, AcceptorAssumption, FS_Subset, FS_CardinalityType

(* The steps of main. *)
LEMMA CountsMain ==
  ASSUME IInv, Counts, Open \/ Close \/ CloseDetach \/ CloseWait \/ CloseJoin \/ CloseEnds
  PROVE  Counts'
<1>1. /\ UNCHANGED <<queue, held, progress, client>>
      /\ main \notin {"waiting", "joining", "closing"} \/ main' \in {"joining", "closing", "closed"}
  BY DEF Open, OpenCreate, OpenListen, OpenAttach, OpenPostAccept, OpenEnds, Close, CloseDetach,
     CloseWait, CloseJoin, CloseEnds, Create, portVars
<1>2. InTransit' = InTransit /\ Attached' = Attached
  BY <1>1 DEF InTransit, Attached
<1>3. OneAccept'
  BY <1>1, <1>2, OneAcceptKept DEF Counts
<1>4. OpenFacts'
  <2>1. CASE OpenCreate \/ OpenListen \/ \E s \in Slots : OpenPostAccept(s)
    BY <2>1 DEF OpenCreate, OpenListen, OpenPostAccept, Counts, OpenFacts, portVars
  <2>2. CASE OpenAttach \/ OpenEnds
    BY <2>2 DEF OpenAttach, OpenEnds, Counts, OpenFacts, portVars
  <2>3. CASE Close \/ CloseDetach \/ CloseWait \/ CloseJoin \/ CloseEnds
    BY <2>3 DEF Close, CloseDetach, CloseWait, CloseJoin, CloseEnds, Counts, OpenFacts, portVars
  <2> QED BY <2>1, <2>2, <2>3 DEF Open
<1>5. Counted'
  <2>1. CASE OpenAttach
    <3>1. main = "listening" /\ main' = "posting" /\ ~bound /\ opened_' = opened_
      BY <2>1 DEF OpenAttach, Counts, OpenFacts
    <3>2. attached_sockets_ = Cardinality(Attached)
      BY <3>1, AttachedCount DEF Counts, Counted, Counting, Listening
    <3>3. CASE bound' = TRUE /\ Attach
      <4>1. (attached_sockets_ + 1) % UINT32 = attached_sockets_ + 1
        BY <3>2, AttachedCount, AcceptorAssumption, PortAssumption
      <4> QED BY <1>2, <3>1, <3>2, <3>3, <4>1, AttachedCount DEF Attach, Counted, Listening
    <3>4. CASE UNCHANGED <<bound, attached_sockets_>>
      BY <1>2, <3>1, <3>2, <3>4, AttachedCount DEF Counted, Listening
    <3> QED BY <2>1, <3>3, <3>4 DEF OpenAttach
  <2>2. CASE OpenCreate \/ OpenListen \/ OpenEnds \/ Close \/ \E s \in Slots : OpenPostAccept(s)
    <3>1. /\ attached_sockets_' = attached_sockets_ /\ bound' = bound
          /\ main \notin {"waiting", "joining", "closing", "closed", "terminated"}
          /\ main' # "waiting"
      BY <2>2 DEF OpenCreate, OpenListen, OpenEnds, Close, OpenPostAccept, Create, portVars
    <3>2. Counting /\ Listening' = Listening
      BY <3>1 DEF Counting, Listening
    <3> QED BY <1>2, <3>1, <3>2, CountedKept DEF Counts
  <2>3. CASE CloseDetach
    <3>1. main = "detaching" /\ main' = "waiting" /\ opened_' = opened_ /\ bound' = bound
      BY <2>3 DEF CloseDetach
    <3>2. attached_sockets_ = (IF bound THEN 1 ELSE 0) + Cardinality(Attached)
      BY <3>1 DEF Counts, Counted, Counting, Listening
    <3>3. CASE ~opened_
      <4>1. attached_sockets_' = attached_sockets_
        BY <2>3, <3>3 DEF CloseDetach
      <4> QED BY <1>2, <3>1, <3>2, <3>3, <4>1 DEF Counted, Listening
    <3>4. CASE opened_ /\ bound
      <4> DEFINE n == Cardinality(Attached)
      <4>1. n \in Nat /\ n < UINT32 /\ UINT32 \in Nat /\ attached_sockets_ = 1 + n
        BY <3>2, <3>4, AttachedCount, AcceptorAssumption, PortAssumption
      <4> HIDE DEF n
      <4>2. attached_sockets_ + UINT32 - 1 = n + UINT32
        BY <4>1
      <4>3. (n + UINT32) % UINT32 = n
        BY <4>1
      <4>4. attached_sockets_' = n
        BY <2>3, <3>4, <4>2, <4>3 DEF CloseDetach, Detach
      <4> QED BY <1>2, <3>1, <3>4, <4>1, <4>4 DEF Counted, Listening, n
    <3> QED BY <3>1, <3>3, <3>4 DEF Counted
  <2>4. CASE CloseWait \/ CloseJoin \/ CloseEnds
    BY <2>4 DEF CloseWait, CloseJoin, CloseEnds, Counted, Counting
  <2> QED BY <2>1, <2>2, <2>3, <2>4 DEF Open
<1> QED BY <1>3, <1>4, <1>5 DEF Counts

(* The steps of the workers.  Taking a completion leaves it in transit. *)
LEMMA CountsDequeue ==
  ASSUME IInv, Counts, NEW w \in Workers, Dequeue(w)
  PROVE  Counts'
<1>1. /\ queue # <<>> /\ queue' = Tail(queue) /\ thread[w] = "waiting"
      /\ UNCHANGED <<attached_sockets_, main, opened_, bound, client>>
      /\ progress' = [progress EXCEPT ![w] =
                        IF thread'[w] = "callback" THEN "accepting" ELSE "idle"]
      /\ IF Head(queue) = Null
         THEN thread' = [thread EXCEPT ![w] = "exited"] /\ UNCHANGED held
         ELSE /\ thread' = [thread EXCEPT ![w] = "callback"]
              /\ held' = [held EXCEPT ![w] = Head(queue)]
  BY DEF Dequeue, Take
<1>2. /\ queue \in Seq(Completions \cup {Null})
      /\ thread \in [Workers -> {"none", "waiting", "callback", "exited"}]
      /\ held \in [Workers -> Completions \cup {Null}]
      /\ progress \in [Workers -> {"idle", "accepting", "pushing", "reposting"}]
  BY DEF IInv, TypeOK, PortTypeOK
<1>3. /\ Len(queue) \in Nat /\ Len(queue) >= 1 /\ Head(queue) = queue[1]
      /\ Len(queue') = Len(queue) - 1
      /\ \A i \in 1 .. Len(queue) - 1 : queue'[i] = queue[i + 1]
  BY <1>1, <1>2, QueueFacts
<1>4. InTransit' \subseteq InTransit
  <2> SUFFICES ASSUME NEW e \in InTransit' PROVE e \in InTransit
    OBVIOUS
  <2>1. CASE \E i \in 1 .. Len(queue') : queue'[i] # Null /\ e = queue'[i]
    <3>1. PICK i \in 1 .. Len(queue') : queue'[i] # Null /\ e = queue'[i]
      BY <2>1
    <3>2. i + 1 \in 1 .. Len(queue) /\ e = queue[i + 1] /\ queue[i + 1] # Null
      BY <1>3, <3>1
    <3> QED BY <3>2 DEF InTransit
  <2>2. CASE \E v \in Workers : progress'[v] = "accepting" /\ e = held'[v]
    <3>1. PICK v \in Workers : progress'[v] = "accepting" /\ e = held'[v]
      BY <2>2
    <3>2. CASE v # w
      <4>1. progress[v] = "accepting" /\ e = held[v]
        BY <1>1, <1>2, <3>1, <3>2
      <4> QED BY <4>1 DEF InTransit
    <3>3. CASE v = w
      <4>1. Head(queue) # Null
        BY <1>1, <1>2, <3>1, <3>3
      <4>2. e = queue[1] /\ 1 \in 1 .. Len(queue) /\ queue[1] # Null
        BY <1>1, <1>2, <1>3, <3>1, <3>3, <4>1
      <4> QED BY <4>2 DEF InTransit
    <3> QED BY <3>2, <3>3
  <2> QED BY <2>1, <2>2 DEF InTransit
<1>5. OneAccept'
  BY <1>1, <1>4, OneAcceptKept DEF Counts
<1>6. OpenFacts' /\ Counted'
  <2>1. Attached' = Attached /\ Listening' = Listening /\ Counting' = Counting
    BY <1>1 DEF Attached, Listening, Counting
  <2> QED BY <1>1, <2>1, CountedKept DEF Counts, OpenFacts
<1> QED BY <1>5, <1>6 DEF Counts

(* Once the worker goes on from its accept, nothing in transit is of the   *)
(* same client, since that would be of the same AcceptSocket.              *)
LEMMA NoOtherAccept ==
  ASSUME IInv, Counts, NEW w \in Workers, progress[w] = "accepting",
         held[w].client # NoClient,
         progress' \in {[progress EXCEPT ![w] = "pushing"], [progress EXCEPT ![w] = "reposting"]},
         UNCHANGED <<queue, held>>
  PROVE  /\ InTransit' \subseteq InTransit
         /\ \A e \in InTransit' : e.client # held[w].client
<1>1. /\ progress \in [Workers -> {"idle", "accepting", "pushing", "reposting"}]
      /\ progress'[w] # "accepting"
      /\ \A v \in Workers : v # w => progress'[v] = progress[v]
  BY DEF IInv, TypeOK
<1>2. InTransit' \subseteq InTransit
  BY <1>1 DEF InTransit
<1>3. held[w] \in InTransit /\ held[w] \in AcceptCompletions /\ thread[w] = "callback"
  BY DEF InTransit, IInv, CallbackMatches
<1>4. w \in Handling(held[w].slot) /\ held[w].slot \in Slots
  BY <1>3 DEF Handling, AcceptCompletions
<1>5. ASSUME NEW e \in InTransit', e.client = held[w].client
      PROVE  FALSE
  <2>1. e.slot = held[w].slot
    BY <1>2, <1>3, <1>5 DEF Counts, OneAccept
  <2>2. CASE \E i \in 1 .. Len(queue) : queue[i] # Null /\ e = queue[i]
    <3>1. Queued(held[w].slot) # {}
      BY <2>1, <2>2 DEF Queued
    <3> QED BY <1>4, <3>1 DEF IInv, OnePlace
  <2>3. CASE \E v \in Workers : progress'[v] = "accepting" /\ e = held[v]
    <3>1. PICK v \in Workers : progress'[v] = "accepting" /\ e = held[v]
      BY <2>3
    <3>2. v # w /\ thread[v] = "callback"
      BY <1>1, <3>1 DEF IInv, CallbackMatches
    <3>3. v \in Handling(held[w].slot)
      BY <2>1, <3>1, <3>2 DEF Handling
    <3> QED BY <1>4, <3>2, <3>3 DEF IInv, OnePlace
  <2> QED BY <2>2, <2>3 DEF InTransit
<1> QED BY <1>2, <1>5

(* The session that is attached was not, and it is counted. *)
LEMMA CountsAccept ==
  ASSUME IInv, Counts, NEW w \in Workers, Accept(w)
  PROVE  Counts'
<1> DEFINE c == held[w].client
<1>1. progress[w] = "accepting" /\ UNCHANGED <<queue, held, main, opened_, bound>>
  BY DEF Accept
<1>2. held[w] \in InTransit /\ c \in Clients \cup {NoClient}
  BY <1>1 DEF InTransit, IInv, CallbackMatches, AcceptCompletions
<1>3. /\ progress \in [Workers -> {"idle", "accepting", "pushing", "reposting"}]
      /\ client \in [Clients -> {"away", "backlog", "matched", "attached", "deaf", "dropped"}]
  BY DEF IInv, TypeOK
<1>4. Listening' = Listening /\ Counting' = Counting
  BY <1>1 DEF Listening, Counting
<1>5. CASE c = NoClient
  <2>1. UNCHANGED <<client, attached_sockets_>> /\ progress' = [progress EXCEPT ![w] = "reposting"]
    BY <1>5 DEF Accept
  <2>2. InTransit' \subseteq InTransit
    BY <1>1, <1>3, <2>1 DEF InTransit
  <2>3. Attached' = Attached
    BY <2>1 DEF Attached
  <2>4. OneAccept'
    BY <2>1, <2>2, OneAcceptKept DEF Counts
  <2> QED BY <1>1, <1>4, <2>1, <2>3, <2>4, CountedKept DEF Counts, OpenFacts
<1>6. CASE c # NoClient
  <2>1. client[c] = "matched" /\ c \in Clients /\ bound
    BY <1>2, <1>6 DEF Counts, OneAccept, OpenFacts
  <2>2. /\ progress' \in {[progress EXCEPT ![w] = "pushing"], [progress EXCEPT ![w] = "reposting"]}
        /\ \/ /\ client' \in {[client EXCEPT ![c] = "dropped"], [client EXCEPT ![c] = "deaf"]}
              /\ attached_sockets_' = attached_sockets_
           \/ client' = [client EXCEPT ![c] = "attached"] /\ Attach
    BY <1>6 DEF Accept
  <2>3. /\ InTransit' \subseteq InTransit
        /\ \A e \in InTransit' : e.client # c
    BY <1>1, <1>6, <2>2, NoOtherAccept
  <2>4. \A k \in Clients : k # c => client'[k] = client[k]
    BY <1>3, <2>1, <2>2
  <2>5. OneAccept'
    <3>1. \A e \in InTransit' : e.client # NoClient => client'[e.client] = client[e.client]
      BY <2>3, <2>4, CompletionsType DEF AcceptCompletions
    <3> QED BY <2>3, <3>1, OneAcceptKept DEF Counts
  <2>6. OpenFacts'
    BY <1>1, <2>1, <2>4 DEF Counts, OpenFacts
  <2>7. Counted'
    <3>1. CASE client' \in {[client EXCEPT ![c] = "dropped"], [client EXCEPT ![c] = "deaf"]}
               /\ attached_sockets_' = attached_sockets_
      <4>1. Attached' = Attached
        BY <1>3, <2>1, <3>1 DEF Attached
      <4> QED BY <1>1, <1>4, <3>1, <4>1, CountedKept DEF Counts
    <3>2. CASE client' = [client EXCEPT ![c] = "attached"] /\ Attach
      <4>1. Attached' = Attached \cup {c} /\ c \notin Attached
        BY <1>3, <2>1, <3>2 DEF Attached
      <4>2. Cardinality(Attached') = Cardinality(Attached) + 1
        BY <4>1, AttachedCount, FS_AddElement
      <4>3. Attached' \subseteq Clients
        BY DEF Attached
      <4>4. Cardinality(Attached') <= Cardinality(Clients)
        BY <4>3, AcceptorAssumption, FS_Subset
      <4>5. ASSUME Counting, main = "waiting" /\ opened_ => bound
            PROVE  attached_sockets_' = (IF Listening THEN 1 ELSE 0) + Cardinality(Attached')
        <5>1. attached_sockets_ = (IF Listening THEN 1 ELSE 0) + Cardinality(Attached)
          BY <4>5 DEF Counts, Counted
        <5>2. /\ attached_sockets_ + 1 = (IF Listening THEN 1 ELSE 0) + Cardinality(Attached')
              /\ attached_sockets_ + 1 \in Nat /\ attached_sockets_ + 1 < UINT32
          BY <4>2, <4>4, <5>1, AttachedCount, AcceptorAssumption, PortAssumption
        <5>3. (attached_sockets_ + 1) % UINT32 = attached_sockets_ + 1
          BY <5>2, PortAssumption
        <5> QED BY <3>2, <5>2, <5>3 DEF Attach
      <4> QED BY <1>1, <1>4, <4>5 DEF Counted
    <3> QED BY <2>2, <3>1, <3>2
  <2> QED BY <2>5, <2>6, <2>7 DEF Counts
<1> QED BY <1>5, <1>6

(* The rest of the callback has no part in it. *)
LEMMA CountsCallbackEnds ==
  ASSUME IInv, Counts, NEW w \in Workers, PushSocket(w) \/ Repost(w)
  PROVE  Counts'
<1>1. UNCHANGED <<attached_sockets_, queue, opened_, bound, client>>
      /\ (main' = main \/ main' = "terminated")
  BY DEF PushSocket, Repost, portVars
<1>2. InTransit' \subseteq InTransit
  <2>1. progress \in [Workers -> {"idle", "accepting", "pushing", "reposting"}]
        /\ held \in [Workers -> Completions \cup {Null}]
    BY DEF IInv, TypeOK, PortTypeOK
  <2>2. CASE progress' = progress /\ held' = held
    BY <1>1, <2>2 DEF InTransit
  <2>3. CASE /\ progress' \in {[progress EXCEPT ![w] = "reposting"], [progress EXCEPT ![w] = "idle"]}
             /\ held' \in {held, [held EXCEPT ![w] = Null]}
    <3>1. /\ progress'[w] # "accepting"
          /\ \A v \in Workers : v # w => progress'[v] = progress[v] /\ held'[v] = held[v]
      BY <2>1, <2>3
    <3> QED BY <1>1, <3>1 DEF InTransit
  <2> QED BY <2>2, <2>3 DEF PushSocket, Repost, Return, portVars
<1>3. OneAccept'
  BY <1>1, <1>2, OneAcceptKept DEF Counts
<1>4. OpenFacts'
  BY <1>1 DEF Counts, OpenFacts
<1>5. Counted'
  <2>1. Attached' = Attached
    BY <1>1 DEF Attached
  <2>2. CASE main' = main
    <3>1. Listening' = Listening /\ Counting' = Counting
      BY <1>1, <2>2 DEF Listening, Counting
    <3> QED BY <1>1, <2>1, <2>2, <3>1, CountedKept DEF Counts
  <2>3. CASE main' = "terminated"
    BY <2>3 DEF Counted, Counting
  <2> QED BY <1>1, <2>2, <2>3
<1> QED BY <1>3, <1>4, <1>5 DEF Counts

(* A client that connects was away, so that no completion is of it.        *)
LEMMA CountsConnect ==
  ASSUME IInv, Counts, NEW c \in Clients, Connect(c)
  PROVE  Counts'
<1>1. /\ client[c] = "away" /\ client' = [client EXCEPT ![c] = "backlog"]
      /\ UNCHANGED <<attached_sockets_, queue, held, progress, main, opened_, bound>>
  BY DEF Connect, portVars
<1>2. client \in [Clients -> {"away", "backlog", "matched", "attached", "deaf", "dropped"}]
  BY DEF IInv, TypeOK
<1>3. InTransit' = InTransit /\ Listening' = Listening /\ Counting' = Counting
  BY <1>1 DEF InTransit, Listening, Counting
<1>4. Attached' = Attached
  BY <1>1, <1>2 DEF Attached
<1>5. OneAccept'
  <2>1. \A e \in InTransit : e.client # NoClient => e.client # c /\ e.client \in Clients
    BY <1>1, CompletionsType DEF Counts, OneAccept, AcceptCompletions
  <2>2. \A e \in InTransit : e.client # NoClient => client'[e.client] = client[e.client]
    BY <1>1, <1>2, <2>1
  <2> QED BY <1>3, <2>2, OneAcceptKept DEF Counts
<1>6. OpenFacts'
  BY <1>1, <1>2 DEF Counts, OpenFacts
<1>7. Counted'
  BY <1>1, <1>3, <1>4, CountedKept DEF Counts
<1> QED BY <1>5, <1>6, <1>7 DEF Counts

(* The client of a new completion has waited, so that no other is of it.   *)
LEMMA CountsAcceptCompletes ==
  ASSUME IInv, Counts, NEW s \in Slots, NEW c \in Clients \cup {NoClient}, AcceptCompletes(s, c)
  PROVE  Counts'
<1> DEFINE e == [slot |-> s, client |-> c]
<1>1. /\ c # NoClient => client[c] = "backlog"
      /\ bound
      /\ client' = [k \in Clients |-> IF k = c THEN "matched" ELSE client[k]]
      /\ queue' = Append(queue, e)
      /\ UNCHANGED <<attached_sockets_, held, progress, main, opened_, bound>>
  BY DEF AcceptCompletes, Post
<1>2. client \in [Clients -> {"away", "backlog", "matched", "attached", "deaf", "dropped"}]
      /\ queue \in Seq(Completions \cup {Null})
  BY DEF IInv, TypeOK, PortTypeOK
<1>3. e \in Completions
  BY AcceptorAssumption DEF AcceptCompletions
<1>4. /\ Len(queue) \in Nat /\ Len(queue') = Len(queue) + 1
      /\ \A i \in 1 .. Len(queue) : queue'[i] = queue[i]
      /\ queue'[Len(queue) + 1] = e
  BY <1>1, <1>2, <1>3, QueueFacts
<1>5. InTransit' \subseteq InTransit \cup {e}
  <2>1. \A i \in 1 .. Len(queue') : i \in 1 .. Len(queue) \/ i = Len(queue) + 1
    BY <1>4
  <2> QED BY <1>1, <1>4, <2>1 DEF InTransit
<1>6. \A d \in InTransit : d.client # NoClient =>
        d.client \in Clients /\ d.client # c /\ client'[d.client] = "matched"
  BY <1>1, CompletionsType DEF Counts, OneAccept, AcceptCompletions
<1>7. OneAccept'
  <2> SUFFICES ASSUME NEW d \in InTransit', NEW f \in InTransit', f.client # NoClient
               PROVE  client'[f.client] = "matched" /\ (d.client = f.client => d.slot = f.slot)
    BY DEF OneAccept
  <2>1. e.client = c /\ e.slot = s
    OBVIOUS
  <2>2. client'[f.client] = "matched"
    BY <1>1, <1>5, <1>6, <2>1
  <2>3. ASSUME d.client = f.client
        PROVE  d.slot = f.slot
    <3>1. CASE d \in InTransit /\ f \in InTransit
      BY <2>3, <3>1 DEF Counts, OneAccept
    <3>2. CASE d = e \/ f = e
      BY <1>5, <1>6, <2>1, <2>3, <3>2
    <3> QED BY <1>5, <3>1, <3>2
  <2> QED BY <2>2, <2>3
<1>8. Attached' = Attached /\ Listening' = Listening /\ Counting' = Counting
  <2>1. \A k \in Clients : client'[k] = "attached" <=> client[k] = "attached"
    BY <1>1, AcceptorAssumption
  <2>2. Attached' = Attached
    BY <2>1 DEF Attached
  <2> QED BY <1>1, <2>2 DEF Listening, Counting
<1>9. OpenFacts'
  BY <1>1 DEF Counts, OpenFacts
<1>10. Counted'
  BY <1>1, <1>8, CountedKept DEF Counts
<1> QED BY <1>7, <1>9, <1>10 DEF Counts

(* A null is nobody's. *)
LEMMA CountsPostNull ==
  ASSUME IInv, Counts, ClosePostNull
  PROVE  Counts'
<1>1. /\ queue' = Append(queue, Null) /\ main = "joining"
      /\ UNCHANGED <<main, opened_, bound, client, held, progress>>
  BY DEF ClosePostNull, PostNull, Post, acceptVars
<1>2. /\ Len(queue) \in Nat /\ Len(queue') = Len(queue) + 1
      /\ \A i \in 1 .. Len(queue) : queue'[i] = queue[i]
      /\ queue'[Len(queue) + 1] = Null
  BY <1>1, QueueFacts DEF IInv, TypeOK, PortTypeOK
<1>3. InTransit' \subseteq InTransit
  <2>1. \A i \in 1 .. Len(queue') : i \in 1 .. Len(queue) \/ i = Len(queue) + 1
    BY <1>2
  <2> QED BY <1>1, <1>2, <2>1 DEF InTransit
<1> QED BY <1>1, <1>3, OneAcceptKept DEF Counts, OpenFacts, Counted, Counting

(* Every step keeps the count. *)
LEMMA CountsStep == IInv /\ Counts /\ [Next]_vars => Counts'
<1> SUFFICES ASSUME IInv, Counts, [Next]_vars PROVE Counts'
  OBVIOUS
<1>1. CASE Open \/ Close \/ CloseDetach \/ CloseWait \/ CloseJoin \/ CloseEnds
  BY <1>1, CountsMain
<1>2. CASE ClosePostNull
  BY <1>2, CountsPostNull
<1>3. ASSUME NEW w \in Workers, Dequeue(w) \/ Callback(w) PROVE Counts'
  BY <1>3, CountsDequeue, CountsAccept, CountsCallbackEnds DEF Callback
<1>4. ASSUME NEW c \in Clients, Connect(c) PROVE Counts'
  BY <1>4, CountsConnect
<1>5. ASSUME NEW s \in Slots, NEW c \in Clients \cup {NoClient}, AcceptCompletes(s, c) PROVE Counts'
  BY <1>5, CountsAcceptCompletes
<1>6. CASE UNCHANGED vars
  <2>1. UNCHANGED <<attached_sockets_, queue, held, progress, main, opened_, bound, client>>
    BY <1>6 DEF vars, portVars, acceptVars
  <2> QED BY <2>1 DEF Counts, OneAccept, OpenFacts, Counted, InTransit, Attached, Listening, Counting
<1> QED BY <1>1, <1>2, <1>3, <1>4, <1>5, <1>6 DEF Next, Closing

(* Until Close has got past its wait, attached_sockets_ is the number of   *)
(* sockets attached: the sessions', and the listening socket between       *)
(* OpenAttach and CloseDetach.  No session is counted twice.               *)
THEOREM CountIsExact == Spec => []Counts
<1>1. Init => Counts
  BY CountsInit
<1>2. IInv /\ Counts /\ [Next]_vars => Counts'
  BY CountsStep
<1> QED BY <1>1, <1>2, InductiveInvariant, PTL DEF Spec

(* Detach's assertion, that there is a socket to detach, holds if no       *)
(* CreateIoCompletionPort fails.                                           *)
THEOREM DetachesWhatIsAttached ==
  ASSUME "attach" \notin Faults
  PROVE  Spec => []DetachAssertion
<1>1. Counts => DetachAssertion
  BY AttachedCount DEF Counts, OpenFacts, Counted, Counting, Listening, DetachAssertion
<1> QED BY <1>1, CountIsExact, PTL

(* Whatever fails, Close gets past its wait for attached_sockets_ only     *)
(* when no session is attached: with one, it waits, for nothing on the     *)
(* server ever detaches a session.                                         *)
THEOREM CloseWaitsForSessions == Spec => [][CloseWait => Attached = {}]_vars
<1>1. Counts /\ [Next]_vars => [CloseWait => Attached = {}]_vars
  <2> SUFFICES ASSUME Counts, CloseWait PROVE Attached = {}
    OBVIOUS
  <2>1. main = "waiting" /\ attached_sockets_ = 0
    BY DEF CloseWait, SocketsReleased
  <2>2. CASE bound
    <3>1. attached_sockets_ = (IF Listening THEN 1 ELSE 0) + Cardinality(Attached)
      BY <2>1, <2>2 DEF Counts, Counted, Counting
    <3>2. Cardinality(Attached) = 0
      BY <2>1, <3>1, AttachedCount
    <3> QED BY <3>2, AttachedCount, FS_EmptySet
  <2>3. CASE ~bound
    BY <2>3 DEF Counts, OpenFacts, Attached
  <2> QED BY <2>2, <2>3
<1> QED BY <1>1, CountIsExact, PTL DEF Spec
=============================================================================
