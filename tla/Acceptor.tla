------------------------------ MODULE Acceptor ------------------------------
(***************************************************************************)
(* iocplib::Acceptor and AcceptSocket (lib/iocplib/acceptor.h) over the    *)
(* completion port: a thread, main, opens the server and later closes it;  *)
(* the workers handle the completions of AcceptEx.  ServerBase and         *)
(* examples/server/main.cpp only pass the calls on.  What a session does   *)
(* with its own completions is SessionReceiver's and SessionSender's; here *)
(* a session is its client, and what counts is whether it is attached and  *)
(* who keeps it alive.                                                     *)
(***************************************************************************)
EXTENDS CompletionPort

CONSTANTS
  Slots,    \* the AcceptSockets, accepts of them
  Clients,  \* the peers that may connect, each once
  NoClient, \* the client of a completion that reports an error
  Faults    \* the failures that may happen, a subset of FaultKinds

(* "create", "bind" and "socket": Open fails creating the port, setting up *)
(* the listening socket, or creating the socket of an AcceptSocket;        *)
(* "attach": CreateIoCompletionPort fails for a socket; "acceptex": the    *)
(* call of AcceptEx fails; "error": AcceptEx completes with an error;      *)
(* "accept": setting options of an accepted socket throws; "repost":       *)
(* creating the socket for the next accept throws, on a worker.            *)
FaultKinds ==
  {"create", "bind", "socket", "attach", "acceptex", "error", "accept", "repost"}

AcceptCompletions == [slot : Slots, client : Clients \cup {NoClient}]

ASSUME AcceptorAssumption ==
  /\ IsFiniteSet(Slots) /\ IsFiniteSet(Clients)
  /\ NoClient \notin Clients
  /\ Completions = AcceptCompletions
  /\ UINT32 > Cardinality(Clients) + 1
  /\ Faults \subseteq FaultKinds

VARIABLES
  main,           \* where the thread that calls Open and Close is
  opened_,        \* the member of that name
  listen_socket_, \* "none", "listening" or "closed"
  bound,          \* whether the listening socket is attached to the port
  slot,           \* each AcceptSocket: unused, posted, taken or dead
  progress,       \* where each worker is in its callback
  client,         \* how far each client's connection has got
  sockets_        \* the clients whose sessions are in the list

acceptVars == <<main, opened_, listen_socket_, bound, slot, progress, client, sockets_>>
vars == <<portVars, acceptVars>>

MainStates ==
  {"start", "created", "listening", "posting", "open", "failed",
   "detaching", "waiting", "joining", "closing", "closed", "terminated"}

TypeOK ==
  /\ PortTypeOK
  /\ main \in MainStates
  /\ opened_ \in BOOLEAN
  /\ listen_socket_ \in {"none", "listening", "closed"}
  /\ bound \in BOOLEAN
  /\ slot \in [Slots -> {"none", "posted", "taken", "dead"}]
  /\ progress \in [Workers -> {"idle", "accepting", "pushing", "reposting"}]
  /\ client \in [Clients -> {"away", "backlog", "matched", "attached", "deaf", "dropped"}]
  /\ sockets_ \subseteq Clients

Init ==
  /\ PortInit
  /\ main = "start"
  /\ opened_ = FALSE
  /\ listen_socket_ = "none"
  /\ bound = FALSE
  /\ slot = [s \in Slots |-> "none"]
  /\ progress = [w \in Workers |-> "idle"]
  /\ client = [c \in Clients |-> "away"]
  /\ sockets_ = {}

-----------------------------------------------------------------------------
(* Acceptor::Open, in the order of its calls.  A call that throws, or      *)
(* Create's returning false, ends it and leaves what was done.             *)
OpenCreate ==
  /\ main = "start"
  /\ \/ main' = "created" /\ Create
     \/ "create" \in Faults /\ main' = "failed" /\ UNCHANGED portVars
  /\ UNCHANGED <<opened_, listen_socket_, bound, slot, progress, client, sockets_>>

OpenListen ==
  /\ main = "created"
  /\ \/ main' = "listening" /\ listen_socket_' = "listening"
     \/ "bind" \in Faults /\ main' = "failed" /\ UNCHANGED listen_socket_
  /\ UNCHANGED <<portVars, opened_, bound, slot, progress, client, sockets_>>

OpenAttach ==
  /\ main = "listening"
  /\ main' = "posting"
  /\ \/ bound' = TRUE /\ Attach
     \/ "attach" \in Faults /\ UNCHANGED <<bound, attached_sockets_>>
  /\ UNCHANGED <<queue, thread, held, nulls, opened_, listen_socket_, slot,
                 progress, client, sockets_>>

(* PostAccept once its socket exists: AcceptEx is pending, or it failed    *)
(* and nothing is said of it.                                              *)
PostAccept(s) ==
  \/ slot' = [slot EXCEPT ![s] = "posted"]
  \/ "acceptex" \in Faults /\ slot' = [slot EXCEPT ![s] = "dead"]

(* One turn of the loop of Open, or its end. *)
OpenPostAccept(s) ==
  /\ main = "posting"
  /\ slot[s] = "none"
  /\ \/ PostAccept(s) /\ UNCHANGED main
     \/ "socket" \in Faults /\ main' = "failed" /\ UNCHANGED slot
  /\ UNCHANGED <<portVars, opened_, listen_socket_, bound, progress, client, sockets_>>

OpenEnds ==
  /\ main = "posting"
  /\ \A s \in Slots : slot[s] # "none"
  /\ main' = "open"
  /\ opened_' = TRUE
  /\ UNCHANGED <<portVars, listen_socket_, bound, slot, progress, client, sockets_>>

-----------------------------------------------------------------------------
(* Acceptor::Close and the IoCompletionPort::Close in it: after Open has   *)
(* returned, or has thrown.                                                *)
Close ==
  /\ main \in {"open", "failed"}
  /\ main' = "detaching"
  /\ UNCHANGED <<portVars, opened_, listen_socket_, bound, slot, progress, client, sockets_>>

(* Mutated form: the listening socket is detached whatever opened_ says.   *)
CloseAlwaysDetaches ==
  /\ main = "detaching"
  /\ main' = "waiting"
  /\ Detach
  /\ UNCHANGED <<queue, thread, held, nulls, opened_, listen_socket_, bound, slot,
                 progress, client, sockets_>>

CloseDetach ==
  /\ main = "detaching"
  /\ main' = "waiting"
  /\ IF opened_ THEN Detach ELSE UNCHANGED attached_sockets_
  /\ UNCHANGED <<queue, thread, held, nulls, opened_, listen_socket_, bound, slot,
                 progress, client, sockets_>>

CloseWait ==
  /\ main = "waiting"
  /\ SocketsReleased
  /\ main' = "joining"
  /\ UNCHANGED <<portVars, opened_, listen_socket_, bound, slot, progress, client, sockets_>>

ClosePostNull ==
  /\ main = "joining"
  /\ PostNull
  /\ UNCHANGED acceptVars

CloseJoin ==
  /\ main = "joining"
  /\ Joined
  /\ main' = "closing"
  /\ UNCHANGED <<portVars, opened_, listen_socket_, bound, slot, progress, client, sockets_>>

(* io_completion_port_ is reset and the listening socket closed. *)
CloseEnds ==
  /\ main = "closing"
  /\ main' = "closed"
  /\ listen_socket_' = "closed"
  /\ opened_' = FALSE
  /\ UNCHANGED <<portVars, bound, slot, progress, client, sockets_>>

-----------------------------------------------------------------------------
(* The process has not ended, see Repost; main's own steps stop by main.   *)
Running == main # "terminated"

(* Run takes a completion; an accept's callback begins. *)
Dequeue(w) ==
  /\ Running
  /\ Take(w)
  /\ progress' = [progress EXCEPT ![w] =
                    IF thread'[w] = "callback" THEN "accepting" ELSE "idle"]
  /\ UNCHANGED <<main, opened_, listen_socket_, bound, slot, client, sockets_>>

(* The try block of OnCompleteOverlappedIO up to SocketSession::OnAccept:  *)
(* an error is skipped; setting the socket's options may throw, which is   *)
(* caught; else the session is attached to the port, if that works, and    *)
(* receives from then on.                                                  *)
Accept(w) ==
  /\ Running
  /\ progress[w] = "accepting"
  /\ LET c == held[w].client
     IN \/ /\ c = NoClient
           /\ progress' = [progress EXCEPT ![w] = "reposting"]
           /\ UNCHANGED <<client, attached_sockets_>>
        \/ /\ c # NoClient /\ "accept" \in Faults
           /\ progress' = [progress EXCEPT ![w] = "reposting"]
           /\ client' = [client EXCEPT ![c] = "dropped"]
           /\ UNCHANGED attached_sockets_
        \/ /\ c # NoClient
           /\ progress' = [progress EXCEPT ![w] = "pushing"]
           /\ client' = [client EXCEPT ![c] = "attached"]
           /\ Attach
        \/ /\ c # NoClient /\ "attach" \in Faults
           /\ progress' = [progress EXCEPT ![w] = "pushing"]
           /\ client' = [client EXCEPT ![c] = "deaf"]
           /\ UNCHANGED attached_sockets_
  /\ UNCHANGED <<queue, thread, held, nulls, main, opened_, listen_socket_, bound,
                 slot, sockets_>>

(* The rest of the try block: the session goes into sockets_.  Mutated     *)
(* forms: it does not; the AcceptSocket is posted again at once, and then  *)
(* once more at the end.                                                   *)
PushSocketForgets(w) ==
  /\ Running
  /\ progress[w] = "pushing"
  /\ progress' = [progress EXCEPT ![w] = "reposting"]
  /\ UNCHANGED <<portVars, main, opened_, listen_socket_, bound, slot, client, sockets_>>

PushSocketReposts(w) ==
  /\ Running
  /\ progress[w] = "pushing"
  /\ sockets_' = sockets_ \cup {held[w].client}
  /\ progress' = [progress EXCEPT ![w] = "reposting"]
  /\ PostAccept(held[w].slot)
  /\ UNCHANGED <<portVars, main, opened_, listen_socket_, bound, client>>

PushSocket(w) ==
  /\ Running
  /\ progress[w] = "pushing"
  /\ sockets_' = sockets_ \cup {held[w].client}
  /\ progress' = [progress EXCEPT ![w] = "reposting"]
  /\ UNCHANGED <<portVars, main, opened_, listen_socket_, bound, slot, client>>

(* The call of PostAccept after the try block, and the return to Run.  An  *)
(* exception from it leaves the thread's function, which ends the process. *)
(* Mutated form: an accept that failed is not posted again.                *)
RepostIfAccepted(w) ==
  /\ Running
  /\ progress[w] = "reposting"
  /\ IF held[w].client = NoClient THEN UNCHANGED slot ELSE PostAccept(held[w].slot)
  /\ Return(w)
  /\ progress' = [progress EXCEPT ![w] = "idle"]
  /\ UNCHANGED <<attached_sockets_, queue, nulls, main, opened_, listen_socket_, bound,
                 client, sockets_>>

Repost(w) ==
  /\ Running
  /\ progress[w] = "reposting"
  /\ \/ /\ PostAccept(held[w].slot)
        /\ Return(w)
        /\ progress' = [progress EXCEPT ![w] = "idle"]
        /\ UNCHANGED main
     \/ /\ "repost" \in Faults
        /\ main' = "terminated"
        /\ UNCHANGED <<slot, thread, held, progress>>
  /\ UNCHANGED <<attached_sockets_, queue, nulls, opened_, listen_socket_, bound,
                 client, sockets_>>

-----------------------------------------------------------------------------
(* A client connects. *)
Connect(c) ==
  /\ Running
  /\ client[c] = "away"
  /\ listen_socket_ = "listening"
  /\ client' = [client EXCEPT ![c] = "backlog"]
  /\ UNCHANGED <<portVars, main, opened_, listen_socket_, bound, slot, progress, sockets_>>

(* A pending AcceptEx gets a connection, or fails; its completion comes to *)
(* the port if the listening socket is attached to it.                     *)
AcceptCompletes(s, c) ==
  /\ Running
  /\ slot[s] = "posted"
  /\ c # NoClient => client[c] = "backlog"
  /\ c = NoClient => "error" \in Faults
  /\ listen_socket_ = "listening"
  /\ bound
  /\ slot' = [slot EXCEPT ![s] = "taken"]
  /\ client' = [k \in Clients |-> IF k = c THEN "matched" ELSE client[k]]
  /\ Post([slot |-> s, client |-> c])
  /\ UNCHANGED <<attached_sockets_, thread, held, nulls, main, opened_, listen_socket_,
                 bound, progress, sockets_>>

Open == OpenCreate \/ OpenListen \/ OpenAttach \/ (\E s \in Slots : OpenPostAccept(s))
        \/ OpenEnds
Closing == CloseDetach \/ CloseWait \/ ClosePostNull \/ CloseJoin \/ CloseEnds
Callback(w) == Accept(w) \/ PushSocket(w) \/ Repost(w)

Next ==
  \/ Open
  \/ Close
  \/ Closing
  \/ \E w \in Workers : Dequeue(w) \/ Callback(w)
  \/ \E c \in Clients : Connect(c)
  \/ \E s \in Slots, c \in Clients \cup {NoClient} : AcceptCompletes(s, c)

Spec == Init /\ [][Next]_vars

(* main goes on with Open and with Close once it called them, a worker in  *)
(* a callback goes on, some worker takes what is in the port, and the      *)
(* kernel does not fail every AcceptEx for ever while a client waits.      *)
(* Nobody need call Close, and no client need connect.                     *)
Fairness ==
  /\ WF_vars(Open)
  /\ WF_vars(Closing)
  /\ WF_vars(\E w \in Workers : Dequeue(w))
  /\ \A w \in Workers : WF_vars(Callback(w))
  /\ SF_vars(\E s \in Slots, c \in Clients : AcceptCompletes(s, c))

FairSpec == Spec /\ Fairness

-----------------------------------------------------------------------------
(* Once Close has reset io_completion_port_ and goes on to close the       *)
(* listening socket, no worker is in a callback that uses them, and none   *)
(* will be.                                                                *)
NoCallbackAfterReset ==
  main \in {"closing", "closed"} => \A w \in workers_ : thread[w] = "exited"

Queued(s) == {i \in 1 .. Len(queue) : queue[i] # Null /\ queue[i].slot = s}
Handling(s) == {w \in Workers : thread[w] = "callback" /\ held[w].slot = s}

(* An AcceptSocket, with its one OVERLAPPED and its one socket_, is in one *)
(* place: pending in the kernel, queued, or in the hands of one worker.    *)
SingleAccept ==
  \A s \in Slots :
    Cardinality(Queued(s)) + Cardinality(Handling(s)) = IF slot[s] = "taken" THEN 1 ELSE 0

(* A session attached to the port is kept alive, so that its completions   *)
(* find it: by sockets_, or by the AcceptSocket that is still handing it   *)
(* over.                                                                   *)
SessionsKept ==
  \A c \in Clients :
    client[c] = "attached" =>
      c \in sockets_ \/ \E w \in Workers : progress[w] = "pushing" /\ held[w].client = c

(* Detach's assertion: there is a socket to detach. *)
DetachAssertion == main = "detaching" /\ opened_ => attached_sockets_ > 0

(* Every client that connects gets its session, or is dropped because its  *)
(* socket could not be set up, however many connect at a time for the      *)
(* AcceptSockets there are and whatever accepts fail before, unless every  *)
(* AcceptSocket is lost to an AcceptEx that failed, the listening socket   *)
(* could not be attached, or the server is closed.                         *)
EveryClientTaken ==
  \A c \in Clients :
    client[c] = "backlog"
      ~> \/ c \in sockets_ \/ client[c] = "dropped"
         \/ \A s \in Slots : slot[s] = "dead"
         \/ ~bound
         \/ main \notin {"posting", "open"}

(* Close returns. *)
CloseReturns == main = "detaching" ~> main = "closed"

(* Close returns if no session is attached and it detaches the listening   *)
(* socket just when Open attached it: nothing else keeps it, not an accept *)
(* in progress, nor one that failed; unless the process ends.              *)
CloseReturnsWithoutSessions ==
  main = "detaching" /\ (bound <=> opened_)
    ~> main \in {"closed", "terminated"} \/ \E c \in Clients : client[c] = "attached"
=============================================================================
