--------------------------- MODULE SocketIoThread ---------------------------
(***************************************************************************)
(* winsocklib::SocketIoThread (lib/winsocklib/socket_io_thread.h): the     *)
(* thread a ClientSocket owns.  It waits for WSA events; the first of them *)
(* says that somebody has queued a request to register or unregister the   *)
(* socket, the others belong to registered sockets.  This module has the   *)
(* state of the thread and its operations, which ClientSocket composes     *)
(* with the socket, the application's thread and the connection.           *)
(*                                                                         *)
(* The thread starts in the constructor, before events_ is there.  What it *)
(* reads meanwhile makes WSAWaitForMultipleEvents fail, and it tries again *)
(* until the constructor has pushed the first event: here it waits.        *)
(***************************************************************************)
EXTENDS Integers, Sequences

CONSTANT Debug  \* whether a subscript past the end and a failed assert stop the process

ASSUME DebugAssumption == Debug \in BOOLEAN

VARIABLES
  running_,     \* the members of these names: socket_map_ is the set of the
  requests_,    \*   events in it, event_map_ a function from handles to events
  events_,
  socket_map_,
  event_map_,
  signalled,    \* the WSA events that are signalled
  cursor,       \* i, cEvents and the event last in events_ at the wait
  pc,           \* where each thread is
  fault         \* what has ended the process, or "none"

thread == <<running_, requests_, events_, socket_map_, event_map_, cursor>>

Threads == {"main", "io"}

Notify      == 0  \* events_[0] of the code
SocketEvent == 1  \* the event of the one registered socket
Events      == {Notify, SocketEvent}

ThreadTypeOK ==
  /\ running_ \in BOOLEAN
  /\ requests_ \in Seq({"register", "unregister"})
  /\ events_ \in {<<>>, <<Notify>>, <<Notify, SocketEvent>>}
  /\ socket_map_ \subseteq {SocketEvent}
  /\ signalled \subseteq Events

(* Outside of the loop of Run. *)
NoCursor == [i |-> 1, cEvents |-> 0, last |-> Notify]

ThreadInit ==
  /\ running_ = TRUE
  /\ requests_ = <<>>
  /\ events_ = <<>>
  /\ socket_map_ = {}
  /\ event_map_ = [h \in {} |-> Notify]
  /\ signalled = {}
  /\ cursor = NoCursor

Goto(t, label) == pc' = [pc EXCEPT ![t] = label]

(* The exception, the assertion or the stray access that ends the process. *)
Dies(why) ==
  /\ fault' = why
  /\ UNCHANGED pc

-----------------------------------------------------------------------------
(* RequestRegisterSocket and RequestUnregisterSocket.  They read           *)
(* events_[0] under another lock than that under which OnRegisterSocket    *)
(* lets events_ grow: what they read meanwhile may be no event.            *)
Request(kind) ==
  /\ requests_' = Append(requests_, kind)
  /\ \/ signalled' = signalled \cup {Notify}
     \/ pc["io"] = "register" /\ UNCHANGED signalled
  /\ UNCHANGED <<running_, events_, socket_map_, event_map_, cursor>>

(* The loop of Run, on the thread "io": the test of running_ and the wait  *)
(* for the first signalled event, by its place in events_.                 *)
RunTest ==
  /\ pc["io"] = "run"
  /\ Goto("io", IF running_ THEN "wait" ELSE "ended")
  /\ UNCHANGED <<thread, signalled, fault>>

Wait ==
  /\ pc["io"] = "wait"
  /\ \E k \in 1 .. Len(events_) :
       /\ events_[k] \in signalled
       /\ \A j \in 1 .. k - 1 : events_[j] \notin signalled
       /\ cursor' = [i |-> k, cEvents |-> Len(events_), last |-> events_[Len(events_)]]
       /\ Goto("io", IF k = 1 THEN "reset" ELSE "scan")
  /\ UNCHANGED <<running_, requests_, events_, socket_map_, event_map_, signalled, fault>>

ResetNotify ==
  /\ pc["io"] = "reset"
  /\ signalled' = signalled \ {Notify}
  /\ cursor' = [cursor EXCEPT !.i = 2]
  /\ Goto("io", "request")
  /\ UNCHANGED <<running_, requests_, events_, socket_map_, event_map_, fault>>

(* OnRequest takes one request, however many there are.  If the socket is  *)
(* gone nothing is done for it.  Mutated form: the request stays first.    *)
OnRequestPeeks(expired) ==
  /\ pc["io"] = "request"
  /\ UNCHANGED requests_
  /\ Goto("io", IF requests_ = <<>> \/ expired THEN "scan" ELSE Head(requests_))
  /\ UNCHANGED <<running_, events_, socket_map_, event_map_, cursor, signalled, fault>>

OnRequest(expired) ==
  /\ pc["io"] = "request"
  /\ requests_' = IF requests_ = <<>> THEN <<>> ELSE Tail(requests_)
  /\ Goto("io", IF requests_ = <<>> \/ expired THEN "scan" ELSE Head(requests_))
  /\ UNCHANGED <<running_, events_, socket_map_, event_map_, cursor, signalled, fault>>

(* OnRegisterSocket and OnUnregisterSocket find the socket by the handle   *)
(* it has now; insert into event_map_ does not replace an entry.           *)
OnRegisterSocket(handle) ==
  /\ pc["io"] = "register"
  /\ events_' = Append(events_, SocketEvent)
  /\ socket_map_' = socket_map_ \cup {SocketEvent}
  /\ event_map_' = [h \in DOMAIN event_map_ \cup {handle} |->
                      IF h \in DOMAIN event_map_ THEN event_map_[h] ELSE SocketEvent]
  /\ Goto("io", "release")
  /\ UNCHANGED <<running_, requests_, cursor, signalled, fault>>

(* events_ after the loop that erases the first element which is event.    *)
Erased(event) ==
  LET places == {k \in 1 .. Len(events_) : events_[k] = event}
  IN IF places = {}
     THEN events_
     ELSE LET first == CHOOSE k \in places : \A j \in places : k <= j
          IN SubSeq(events_, 1, first - 1) \o SubSeq(events_, first + 1, Len(events_))

OnUnregisterSocket(handle) ==
  /\ pc["io"] = "unregister"
  /\ IF handle \in DOMAIN event_map_
     THEN /\ events_' = Erased(event_map_[handle])
          /\ socket_map_' = socket_map_ \ {event_map_[handle]}
          /\ event_map_' = [h \in DOMAIN event_map_ \ {handle} |-> event_map_[h]]
     ELSE UNCHANGED <<events_, socket_map_, event_map_>>
  /\ Goto("io", "release")
  /\ UNCHANGED <<running_, requests_, cursor, signalled, fault>>

(* The loop over the other events, up to the size events_ had before       *)
(* OnRequest.  An element just erased is still in its place in memory.     *)
EventAt(i) == IF i <= Len(events_) THEN events_[i] ELSE cursor.last

Scan ==
  /\ pc["io"] = "scan"
  /\ IF cursor.i > cursor.cEvents
     THEN Goto("io", "run") /\ cursor' = NoCursor /\ UNCHANGED fault
     ELSE IF Debug /\ cursor.i > Len(events_)
     THEN Dies("subscript") /\ UNCHANGED cursor
     ELSE IF EventAt(cursor.i) \in signalled
     THEN Goto("io", "event") /\ UNCHANGED <<cursor, fault>>
     ELSE cursor' = [cursor EXCEPT !.i = @ + 1] /\ UNCHANGED <<pc, fault>>
  /\ UNCHANGED <<running_, requests_, events_, socket_map_, event_map_, signalled>>

(* OnSocketEvent begins with a find whose result is used unseen, and a     *)
(* lock of the weak_ptr in it, likewise.                                   *)
OnSocketEvent(expired) ==
  /\ pc["io"] = "event"
  /\ IF EventAt(cursor.i) \notin socket_map_
     THEN Dies("unmapped")
     ELSE IF expired
     THEN Dies("expired")
     ELSE Goto("io", "enum") /\ UNCHANGED fault
  /\ UNCHANGED <<thread, signalled>>

(* Close, on the thread "main": running_ is cleared, then the thread is    *)
(* woken and joined.  Mutated form: woken first.                           *)
CloseSwapped ==
  /\ \/ /\ pc["main"] = "stop"
        /\ signalled' = signalled \cup {Notify}
        /\ Goto("main", "wake")
        /\ UNCHANGED running_
     \/ /\ pc["main"] = "wake"
        /\ running_' = FALSE
        /\ Goto("main", "join")
        /\ UNCHANGED signalled
     \/ /\ pc["main"] = "join"
        /\ pc["io"] = "ended"
        /\ Goto("main", "exit")
        /\ UNCHANGED <<running_, signalled>>
  /\ UNCHANGED <<requests_, events_, socket_map_, event_map_, cursor, fault>>

Close ==
  /\ \/ /\ pc["main"] = "stop"
        /\ running_' = FALSE
        /\ Goto("main", "wake")
        /\ UNCHANGED signalled
     \/ /\ pc["main"] = "wake"
        /\ signalled' = signalled \cup {Notify}
        /\ Goto("main", "join")
        /\ UNCHANGED running_
     \/ /\ pc["main"] = "join"
        /\ pc["io"] = "ended"
        /\ Goto("main", "exit")
        /\ UNCHANGED <<running_, signalled>>
  /\ UNCHANGED <<requests_, events_, socket_map_, event_map_, cursor, fault>>
=============================================================================
