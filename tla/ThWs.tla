--------------------------------- MODULE ThWs ---------------------------------
(***************************************************************************)
(* The life of one WebSocket connection, th_ws.c: from th_ws_start, called *)
(* in the callback that wrote the 101 response, to the destruction of the  *)
(* th_ws.  The connection below it is any that keeps the promises of       *)
(* ThAsync for one recv and one send operation.  Frames are abstracted to  *)
(* messages and CLOSE; the parser to what it finds in the bytes received.  *)
(***************************************************************************)
EXTENDS Integers, Sequences

CONSTANTS
  QueueLen,   \* bound: frames th_ring_write accepts before max_len is reached
  MaxFrames,  \* bound: frames in the bytes of one recv
  AllocFails  \* th_ring_write may fail to allocate a chunk

ASSUME WsAssumption ==
  /\ QueueLen \in Nat \ {0}
  /\ MaxFrames \in Nat \ {0}
  /\ AllocFails \in BOOLEAN

VARIABLES
  alive,       \* the th_ws exists
  pc,          \* what runs: see Places
  more,        \* frames left in the bytes th_ws_consume works on
  closing,     \* ws->closing
  sending,     \* ws->sending
  ring,        \* the frames in ws->send_ring
  inFlight,    \* how many of them ws->send_iov covers
  closeQueued, \* history: the ring has accepted a CLOSE frame
  peerClosed,  \* history: a CLOSE frame of the peer was consumed
  flying, completed, delivering \* the connection's operations, see ThAsync

wsVars == <<alive, pc, more, closing, sending, ring, inFlight, closeQueued, peerClosed>>
ioVars == <<flying, completed, delivering>>
vars == <<wsVars, ioVars>>

Ops == {"recv", "send"}
Results == {"ok", "error", "canceled"}

IO == INSTANCE ThAsync WITH Canceled <- "canceled", NoOp <- "none"

(***************************************************************************)
(* "idle": no code of the connection runs; "open", "data", "close": the    *)
(* handler runs for that event; "received", "sent", "failed": a callback   *)
(* was given OK or an error; "done": it is about to return to the loop.    *)
(***************************************************************************)
Places == {"idle", "open", "data", "close", "received", "sent", "failed", "done"}

Frames == {"message", "close"}

TypeOK ==
  /\ IO!TypeOK
  /\ alive \in BOOLEAN
  /\ pc \in Places
  /\ more \in 0 .. MaxFrames
  /\ {closing, sending, closeQueued, peerClosed} \subseteq BOOLEAN
  /\ ring \in Seq(Frames) /\ Len(ring) <= QueueLen
  /\ inFlight \in 0 .. QueueLen

(* th_ws_create and th_ws_start up to the handler's OPEN event, inside the *)
(* callback of the send of the 101 response.                               *)
Init ==
  /\ alive = TRUE
  /\ pc = "open"
  /\ more = 0
  /\ closing = FALSE
  /\ sending = FALSE
  /\ ring = <<>>
  /\ inFlight = 0
  /\ closeQueued = FALSE
  /\ peerClosed = FALSE
  /\ flying = {}
  /\ completed = <<>>
  /\ delivering = "send"

-----------------------------------------------------------------------------
(* th_conn_recv, th_conn_send: the operation waits or is completed at once *)
(* with any result; the callback is never run inside the call.             *)
Submit(o) ==
  \/ /\ flying' = flying \union {o}
     /\ UNCHANGED <<completed, delivering>>
  \/ /\ \E r \in {"ok", "error"} : completed' = Append(completed, <<o, r>>)
     /\ UNCHANGED <<flying, delivering>>

(* th_ring_peek: the whole frames of the head chunk.                       *)
Peek(frames) == inFlight' \in 1 .. Len(frames)

(* Mutant: a send is started for every frame.                              *)
QueueFrameAlways(f) ==
  /\ Len(ring) < QueueLen
  /\ ring' = Append(ring, f)
  /\ closeQueued' = (closeQueued \/ f = "close")
  /\ sending' = TRUE
  /\ Peek(ring')
  /\ Submit("send")

(***************************************************************************)
(* th_ws_queue_frame: th_ring_write, and th_ws_send_drain unless a send is *)
(* in flight.  The write is refused if the ring is full or out of memory.  *)
(***************************************************************************)
QueueFrame(f) ==
  \/ /\ Len(ring) < QueueLen
     /\ ring' = Append(ring, f)
     /\ closeQueued' = (closeQueued \/ f = "close")
     /\ sending' = TRUE
     /\ IF sending THEN UNCHANGED <<inFlight, ioVars>>
        ELSE Peek(ring') /\ Submit("send")
  \/ /\ Len(ring) = QueueLen \/ AllocFails
     /\ UNCHANGED <<ring, closeQueued, sending, inFlight, ioVars>>

(* The application may use the ws between polls, in callbacks of others,   *)
(* and in the handler up to the return from the CLOSE event.               *)
InUserCode == alive /\ pc \in {"idle", "open", "data", "close"}

(* Mutant: frames are accepted after the CLOSE frame.                      *)
SendWhileClosing ==
  /\ InUserCode
  /\ QueueFrame("message")
  /\ UNCHANGED <<alive, pc, more, closing, peerClosed>>

(* th_ws_send                                                              *)
Send ==
  /\ InUserCode
  /\ ~closing
  /\ QueueFrame("message")
  /\ UNCHANGED <<alive, pc, more, closing, peerClosed>>

(* th_ws_close                                                             *)
Close ==
  /\ InUserCode
  /\ ~closing
  /\ closing' = TRUE
  /\ QueueFrame("close")
  /\ UNCHANGED <<alive, pc, more, peerClosed>>

-----------------------------------------------------------------------------
(* The OPEN handler returns: th_ws_start begins to read or destroys the ws *)
(* without a CLOSE event.                                                  *)
Opened ==
  /\ pc = "open"
  /\ pc' = "done"
  /\ \/ Submit("recv") /\ UNCHANGED alive
     \/ alive' = FALSE /\ UNCHANGED ioVars
  /\ UNCHANGED <<more, closing, sending, ring, inFlight, closeQueued, peerClosed>>

(* A completed operation's callback: th_ws_handle_recv, th_ws_handle_send. *)
(* Once the ws is destroyed the behaviour is undefined.                    *)
Callback ==
  /\ alive
  /\ pc = "idle"
  /\ IO!Deliver
  /\ pc' = IF Head(completed)[2] # "ok" THEN "failed"
           ELSE IF Head(completed)[1] = "recv" THEN "received" ELSE "sent"
  /\ more' \in IF pc' = "received" THEN 0 .. MaxFrames ELSE {0}
  /\ UNCHANGED <<alive, closing, sending, ring, inFlight, closeQueued, peerClosed>>

(* recv or send failed: th_ws_close_and_destroy, up to the handler call.   *)
Failed ==
  /\ pc = "failed"
  /\ pc' = "close"
  /\ UNCHANGED <<alive, more, closing, sending, ring, inFlight, closeQueued,
                 peerClosed, ioVars>>

(* th_ws_consume returned false: a ws that is closing is left to the sends.*)
Refuse == pc' = IF closing THEN "done" ELSE "close"

(* th_ws_consume has parsed everything: read on.                           *)
NeedMore ==
  /\ pc = "received"
  /\ more = 0
  /\ pc' = "done"
  /\ Submit("recv")
  /\ UNCHANGED <<alive, more, closing, sending, ring, inFlight, closeQueued, peerClosed>>

(* The parser finds a ping or a pong and ignores it; a complete message,   *)
(* or something invalid.                                                   *)
Parsed ==
  /\ pc = "received"
  /\ more > 0
  /\ \/ pc' \in {"received", "data"} /\ more' = more - 1
     \/ Refuse /\ more' = 0
  /\ UNCHANGED <<alive, closing, sending, ring, inFlight, closeQueued, peerClosed, ioVars>>

(* The parser finds a CLOSE frame, which is answered if no CLOSE was sent. *)
ParsedClose ==
  /\ pc = "received"
  /\ more > 0
  /\ peerClosed' = TRUE
  /\ closing' = TRUE
  /\ IF closing THEN UNCHANGED <<ring, sending, inFlight, closeQueued, ioVars>>
     ELSE QueueFrame("close")
  /\ pc' = "done"
  /\ more' = 0
  /\ UNCHANGED alive

(* The DATA handler returns OK or an error.                                *)
DataHandled ==
  /\ pc = "data"
  /\ \/ pc' = "received" /\ UNCHANGED more
     \/ Refuse /\ more' = 0
  /\ UNCHANGED <<alive, closing, sending, ring, inFlight, closeQueued, peerClosed, ioVars>>

Rest == SubSeq(ring, inFlight + 1, Len(ring))

(* Mutant: frames queued during the send are not sent.                     *)
SentNoRestart ==
  /\ pc = "sent"
  /\ ring' = Rest
  /\ sending' = FALSE
  /\ inFlight' = 0
  /\ pc' = IF closing THEN "close" ELSE "done"
  /\ UNCHANGED <<alive, more, closing, closeQueued, peerClosed, ioVars>>

(* Mutant: a drained ws waits for the peer's CLOSE frame, and forgets that  *)
(* it may have come.                                                       *)
SentAwaitsPeer ==
  /\ pc = "sent"
  /\ ring' = Rest
  /\ IF Rest = <<>>
     THEN /\ sending' = FALSE
          /\ inFlight' = 0
          /\ pc' = "done"
          /\ UNCHANGED ioVars
     ELSE /\ Peek(Rest)
          /\ Submit("send")
          /\ pc' = "done"
          /\ UNCHANGED sending
  /\ UNCHANGED <<alive, more, closing, closeQueued, peerClosed>>

(***************************************************************************)
(* th_ws_handle_send: th_ring_consume what was sent, th_ws_send_drain:     *)
(* the next chunk is sent, or with none left a closing ws ends.            *)
(***************************************************************************)
Sent ==
  /\ pc = "sent"
  /\ ring' = Rest
  /\ IF Rest = <<>>
     THEN /\ sending' = FALSE
          /\ inFlight' = 0
          /\ pc' = IF closing THEN "close" ELSE "done"
          /\ UNCHANGED ioVars
     ELSE /\ Peek(Rest)
          /\ Submit("send")
          /\ pc' = "done"
          /\ UNCHANGED sending
  /\ UNCHANGED <<alive, more, closing, closeQueued, peerClosed>>

(* The CLOSE handler returns: th_ws_destroy, and the connection with it.   *)
Destroy ==
  /\ pc = "close"
  /\ pc' = "done"
  /\ alive' = FALSE
  /\ UNCHANGED <<more, closing, sending, ring, inFlight, closeQueued, peerClosed, ioVars>>

(* The callback returns to the loop.                                       *)
Return ==
  /\ pc = "done"
  /\ pc' = "idle"
  /\ more' = 0
  /\ IO!Return
  /\ UNCHANGED <<alive, closing, sending, ring, inFlight, closeQueued, peerClosed>>

-----------------------------------------------------------------------------
(* The peer, the network or a timeout completes an operation.              *)
World(o) ==
  /\ alive
  /\ pc = "idle"
  /\ IO!Complete(o)
  /\ completed'[Len(completed')][2] # "canceled"
  /\ UNCHANGED wsVars

(* An operation under way is aborted.                                      *)
Drop(tasks, o) == IF o \in flying THEN Append(tasks, <<o, "canceled">>) ELSE tasks

(* th_listener_stop cancels the connection, the read first.                *)
Cancel ==
  /\ alive
  /\ pc = "idle"
  /\ flying # {}
  /\ flying' = {}
  /\ completed' = Drop(Drop(completed, "recv"), "send")
  /\ UNCHANGED <<wsVars, delivering>>

Handler == Opened \/ DataHandled \/ Destroy

Loop == Callback \/ Failed \/ NeedMore \/ Parsed \/ ParsedClose \/ Sent \/ Return

Next ==
  \/ Handler
  \/ Loop
  \/ Send \/ Close
  \/ Cancel
  \/ \E o \in Ops : World(o)

Spec == Init /\ [][Next]_vars

(***************************************************************************)
(* The loop is run and handlers return.  An operation that waits is looked *)
(* at whenever the reactor runs, which it does again and again             *)
(* (ReactorNotStarved of ThPoll), and ends at the latest by its timeout.   *)
(* For a send this assumes a peer that does not keep the shared timer of   *)
(* the socket from expiring by sending for ever while it reads nothing,    *)
(* and a kernel that does not call a socket ready for ever that moves      *)
(* nothing (StalledOnlyByRenewal of ThPoll).                               *)
(***************************************************************************)
FairSpec ==
  /\ Spec
  /\ WF_vars(Handler)
  /\ WF_vars(Loop)
  /\ \A o \in Ops : SF_vars(World(o))

-----------------------------------------------------------------------------
Q == INSTANCE ThFrameQueue

(* The callers of th_conn_recv and th_conn_send respect the contract of    *)
(* the connection: no operation is started while it is in flight; and the  *)
(* ring is used as a queue of whole frames with one send at a time, which  *)
(* ThWsData shows th_ring.c and th_sendvec.c to be.                        *)
ConnContract == [][IO!Next]_ioVars /\ Q!Spec

InFlight(o) == o \in flying \union IO!Finished \/ delivering = o

(* Frames do not get stuck: while the ring holds any, a send is under way, *)
(* and one that is under way covers frames of the ring.                    *)
RingIsDrained ==
  /\ TypeOK
  /\ alive /\ pc \in {"idle", "data", "received"} =>
       /\ ring # <<>> <=> sending
       /\ sending <=> InFlight("send")
       /\ inFlight <= Len(ring) /\ (sending => inFlight > 0)

(* RFC 6455 as the closing flag implements it: the CLOSE frame is the last *)
(* frame that is queued, whoever starts the close.                         *)
CloseFrameLast == [][closeQueued => Len(ring') <= Len(ring)]_vars

(* A ws that closes ends, whichever side began and whether the peer answers *)
(* or not, once its CLOSE frame is queued: th_ws_queue_frame may fail to,  *)
(* and th_ws_consume and th_ws_close ignore or only report it, so that     *)
(* closing alone does not lead there.                                      *)
ClosingEnds == closeQueued ~> ~alive

-----------------------------------------------------------------------------
(* What the source says and the code does not do.                          *)

(* th_loop.h:40: work that was counted is uncounted once it resolves; and  *)
(* th_task.h:26 lets an object go in its own callback only: no operation   *)
(* is outstanding on a connection that is destroyed.                       *)
DestroyedIsQuiet == ~alive => flying = {} /\ completed = <<>>
=============================================================================
