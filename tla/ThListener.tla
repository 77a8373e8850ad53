------------------------------ MODULE ThListener ------------------------------
(***************************************************************************)
(* A listener and its connections, th_listener.c and th_conn_tracker.c,    *)
(* with how th_server.c stops and destroys them.  The listener keeps one   *)
(* connection ready for the next client (unborn in the sense of ThSession) *)
(* and an accept under way for it; every connection it has started goes    *)
(* through the stages that ThSession allows and ThHttp implements, with    *)
(* one operation under way at a time.  A callback runs to its end before   *)
(* anything else happens.                                                  *)
(*                                                                         *)
(* Not here: connections handed over to a WebSocket, see ThWs.             *)
(***************************************************************************)
EXTENDS Naturals, Sequences, FiniteSets, SequencesExt

CONSTANTS
  Conns,          \* connections there is memory for
  MaxConnections, \* TH_CONFIG_MAX_CONNECTIONS
  AllocFails      \* the allocator may fail even so

ASSUME ListenerAssumption ==
  /\ IsFiniteSet(Conns) /\ Conns # {} /\ "accept" \notin Conns
  /\ MaxConnections \in Nat
  /\ AllocFails \in BOOLEAN

VARIABLES
  phase,    \* of the server: "serving", "stopping", "destroyed"
  running,  \* listener->running
  waiting,  \* conn_tracker.task is set
  conn,     \* connection -> its stage and last, "ended" if it does not exist
  flying,   \* operations under way
  completed,\* <<operation, result>> whose callbacks are due
  starved,  \* history: no connection could be made for the next client
  crashed   \* an assertion failed or a pointer was misused

vars == <<phase, running, waiting, conn, flying, completed, starved, crashed>>

Ops == Conns \union {"accept"}
Results == {"ok", "error", "canceled"}
Stages == {"unborn", "reading", "writing", "upgraded", "ended"}

Session(c) == INSTANCE ThSession WITH stage <- conn[c].stage, last <- conn[c].last

At(s, l) == [stage |-> s, last |-> l]

(* conn_tracker.observables, of which conn_tracker.count is the number.    *)
Tracked == {c \in Conns : conn[c].stage # "ended"}

(* listener->conn while there is an accept for it.                         *)
Accepting == {c \in Conns : conn[c].stage = "unborn"}

Due == {d[1] : d \in ToSet(completed)}

-----------------------------------------------------------------------------
(***************************************************************************)
(* th_listener_async_accept when the connections are k and the operations  *)
(* ops: a connection is made and an accept started for it, or it cannot be *)
(* made and the listener waits for a client to go (which it may not do     *)
(* when there is none).                                                    *)
(***************************************************************************)
AsyncAccept(k, ops) ==
  \/ \E c \in Conns :
       /\ k[c].stage = "ended"
       /\ conn' = [k EXCEPT ![c] = At("unborn", FALSE)]
       /\ flying' = ops \union {"accept"}
       /\ UNCHANGED <<waiting, starved, crashed>>
  \/ /\ AllocFails \/ \A c \in Conns : k[c].stage # "ended"
     /\ conn' = k
     /\ flying' = ops
     /\ starved' = TRUE
     /\ IF \A c \in Conns : k[c].stage = "ended"
        THEN crashed' = TRUE /\ UNCHANGED waiting
        ELSE waiting' = TRUE /\ UNCHANGED crashed

(* The rest of th_listener_accept_complete.                                *)
Onwards(k, ops) ==
  IF running
  THEN AsyncAccept(k, ops)
  ELSE conn' = k /\ flying' = ops /\ UNCHANGED <<waiting, starved, crashed>>

(* th_bind: the listener is created and started.                           *)
Init ==
  /\ phase = "serving"
  /\ running = TRUE
  /\ waiting = FALSE
  /\ \E c \in Conns :
       conn = [d \in Conns |-> IF d = c THEN At("unborn", FALSE) ELSE At("ended", TRUE)]
  /\ flying = {"accept"}
  /\ completed = <<>>
  /\ starved = FALSE
  /\ crashed = FALSE

(* The outside world, or a timeout, completes an operation.                *)
World(o, r) ==
  /\ ~crashed
  /\ o \in flying
  /\ r \in {"ok", "error"}
  /\ flying' = flying \ {o}
  /\ completed' = Append(completed, <<o, r>>)
  /\ UNCHANGED <<phase, running, waiting, conn, starved, crashed>>

(* The callback of <<o, r>> is next.                                       *)
Callback(o, r) ==
  /\ ~crashed
  /\ completed # <<>>
  /\ Head(completed) = <<o, r>>
  /\ completed' = Tail(completed)
  /\ UNCHANGED <<phase, running>>

(* Mutant: after a failed accept there is no other one.                    *)
AcceptFailedGivesUp(r) ==
  /\ Callback("accept", r)
  /\ r # "ok"
  /\ \E c \in Accepting : conn' = [conn EXCEPT ![c] = At("ended", TRUE)]
  /\ UNCHANGED <<waiting, flying, starved, crashed>>

(* Mutant: the connection made for it is left behind when the listener     *)
(* stops.                                                                  *)
AcceptFailedLeaks(r) ==
  /\ Callback("accept", r)
  /\ r # "ok"
  /\ \E c \in Accepting :
       Onwards(IF running THEN [conn EXCEPT ![c] = At("ended", TRUE)] ELSE conn, flying)

(* th_listener_accept_complete with an error: the connection made for the  *)
(* client goes.                                                            *)
AcceptFailed(r) ==
  /\ Callback("accept", r)
  /\ r # "ok"
  /\ \E c \in Accepting : Onwards([conn EXCEPT ![c] = At("ended", TRUE)], flying)

(* Mutant: the connection does not count itself.                           *)
AcceptedUncounted ==
  /\ Callback("accept", "ok")
  /\ \E c \in Accepting :
       IF Cardinality(Tracked \ {c}) > MaxConnections
       THEN Onwards([conn EXCEPT ![c] = At("writing", TRUE)], flying \union {c})
       ELSE Onwards([conn EXCEPT ![c] = At("reading", FALSE)], flying \union {c})

(* th_listener_accept_complete: th_conn_start and th_http_upgrader_upgrade *)
(* reject the client, serve it, or have no memory to do either.            *)
Accepted ==
  /\ Callback("accept", "ok")
  /\ \E c \in Accepting :
       \/ /\ Cardinality(Tracked) > MaxConnections
          /\ Onwards([conn EXCEPT ![c] = At("writing", TRUE)], flying \union {c})
       \/ /\ Cardinality(Tracked) <= MaxConnections
          /\ Onwards([conn EXCEPT ![c] = At("reading", FALSE)], flying \union {c})
       \/ /\ AllocFails
          /\ Onwards([conn EXCEPT ![c] = At("ended", TRUE)], flying)

(***************************************************************************)
(* th_conn_observable_destroy: the tracker drops the connection and runs   *)
(* the task that waits for that.  The task is the client_destroy_handler   *)
(* of the listener, and th_listener_client_destroy_handler_fn takes it for *)
(* the listener itself: what it finds there as `running' is undefined, and *)
(* so is everything it does unless that is 0.                              *)
(***************************************************************************)
Destroy(c) ==
  /\ conn' = [conn EXCEPT ![c] = At("ended", TRUE)]
  /\ waiting' = FALSE
  /\ crashed' \in {FALSE, waiting}
  /\ UNCHANGED <<flying, starved>>

(* An operation of a connection has failed: HTTP gives the connection up.  *)
Failed(c, r) ==
  /\ Callback(c, r)
  /\ r # "ok"
  /\ Destroy(c)

(* An operation of a connection has succeeded: HTTP reads more of the same *)
(* request, does what ThSession allows it, or gives the connection up.     *)
ReadOn(c) ==
  /\ Callback(c, "ok")
  /\ conn[c].stage = "reading"
  /\ flying' = flying \union {c}
  /\ UNCHANGED <<waiting, conn, starved, crashed>>

Proceed(c) ==
  /\ Callback(c, "ok")
  /\ \E s \in {"reading", "writing"}, l \in BOOLEAN : conn' = [conn EXCEPT ![c] = At(s, l)]
  /\ Session(c)!Answer \/ Session(c)!Again
  /\ flying' = flying \union {c}
  /\ UNCHANGED <<waiting, starved, crashed>>

GiveUp(c) ==
  /\ Callback(c, "ok")
  /\ conn[c].last \/ AllocFails
  /\ Destroy(c)

-----------------------------------------------------------------------------
(* th_socket_cancel, th_acceptor_cancel of all that is under way, in the   *)
(* order of the tracker's list.                                            *)
CanceledIn(order) == [i \in DOMAIN order |-> <<order[i], "canceled">>]

(* Mutant: the flag stays set.                                             *)
StopRunning ==
  /\ ~crashed
  /\ phase = "serving"
  /\ phase' = "stopping"
  /\ \E order \in SetToSeqs(flying) : completed' = completed \o CanceledIn(order)
  /\ flying' = {}
  /\ UNCHANGED <<running, waiting, conn, starved, crashed>>

(* th_server_stop, called between two polls of the loop: listener_stop.    *)
Stop ==
  /\ ~crashed
  /\ phase = "serving"
  /\ phase' = "stopping"
  /\ running' = FALSE
  /\ \E order \in SetToSeqs(flying) : completed' = completed \o CanceledIn(order)
  /\ flying' = {}
  /\ UNCHANGED <<waiting, conn, starved, crashed>>

(* th_server_deinit: th_loop_run has found no task left.                   *)
Deinit ==
  /\ ~crashed
  /\ phase = "stopping"
  /\ flying = {} /\ completed = <<>>
  /\ phase' = "destroyed"
  /\ UNCHANGED <<running, waiting, conn, flying, completed, starved, crashed>>

Deliver ==
  \/ \E r \in Results : AcceptFailed(r) \/ \E c \in Conns : Failed(c, r)
  \/ Accepted
  \/ \E c \in Conns : ReadOn(c) \/ Proceed(c) \/ GiveUp(c)

Next ==
  \/ Deliver
  \/ \E o \in Ops, r \in Results : World(o, r)
  \/ Stop
  \/ Deinit

Spec == Init /\ [][Next]_vars

(* The loop runs what is due.  A client does not go on sending requests    *)
(* and taking answers for ever: in the end an operation of its connection  *)
(* fails, by the timeout that guards each of them if nothing else.  An     *)
(* accept has no timeout.                                                  *)
FairSpec ==
  /\ Spec
  /\ WF_vars(Deliver)
  /\ WF_vars(Deinit)
  /\ \A c \in Conns : SF_vars(World(c, "error"))

-----------------------------------------------------------------------------
(* Every operation is under way or its callback due, once, and never both. *)
TypeOK ==
  /\ phase \in {"serving", "stopping", "destroyed"}
  /\ running \in BOOLEAN /\ waiting \in BOOLEAN
  /\ conn \in [Conns -> [stage : Stages, last : BOOLEAN]]
  /\ flying \subseteq Ops
  /\ completed \in Seq(Ops \X Results)
  /\ Due \intersect flying = {} /\ Cardinality(Due) = Len(completed)
  /\ starved \in BOOLEAN /\ crashed \in BOOLEAN

(* Never more clients are served than TH_CONFIG_MAX_CONNECTIONS; the       *)
(* others are told so before anything is read from them.                   *)
ServedBounded ==
  Cardinality({c \in Conns : ~conn[c].last /\ conn[c].stage \in {"reading", "writing"}})
    <= MaxConnections

(* The listener's own connection exists exactly as long as an accept for   *)
(* it is under way or due: the callback never works on another one's, and  *)
(* none is left over.  While it runs there is one, as long as memory has   *)
(* never run out.  And every operation is under way or its callback due,   *)
(* once, and never both (TypeOK).                                          *)
AcceptHasItsConn ==
  /\ TypeOK
  /\ ~crashed =>
       /\ Cardinality(Accepting) = IF "accept" \in flying \union Due THEN 1 ELSE 0
       /\ running /\ ~starved => "accept" \in flying \union Due

(* "All clients must be destroyed before deinit" (th_conn_tracker.c): when *)
(* the loop has run dry nothing is left of any connection.                 *)
CleanDeinit == phase = "destroyed" => Tracked = {}

(* Stopping comes to an end and the server is destroyed (or has crashed),  *)
(* whatever is accepted, answered or cancelled at the same time.           *)
StopEnds == phase = "stopping" ~> phase = "destroyed" \/ crashed

=============================================================================
