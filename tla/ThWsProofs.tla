----------------------------- MODULE ThWsProofs ------------------------------
(***************************************************************************)
(* Proofs about the life of a WebSocket, ThWs: no frame gets stuck, the    *)
(* CLOSE frame is the last one queued, and th_ws.c keeps the contracts of  *)
(* the connection below it and of its send ring.                           *)
(***************************************************************************)
EXTENDS ThWs, FiniteSetTheorems, SequenceTheorems, TLAPS

(* The operations that are started and not delivered yet.                  *)
Named(s) == {s[i][1] : i \in DOMAIN s}
Taken == flying \union Named(completed)

Once(s) == \A i, j \in DOMAIN s : s[i][1] = s[j][1] => i = j

(* An operation is in one place at a time.                                 *)
OneEach == Once(completed) /\ flying \intersect Named(completed) = {}

(* Whose callback runs where; nothing runs of a connection that is gone.   *)
Placed ==
  /\ pc = "idle" <=> delivering = "none"
  /\ pc \in {"open", "sent"} => delivering = "send"
  /\ pc \in {"received", "data"} => delivering = "recv"
  /\ ~alive => pc \in {"done", "idle"}

(* One read at a time: none is under way where the next may be started.    *)
Reads == pc \in {"open", "received", "data"} => "recv" \notin Taken

(* ws->sending is set exactly while a send is under way, up to its end.    *)
Sends ==
  alive => /\ "send" \in Taken => sending
           /\ sending => "send" \in Taken \/ pc \in {"sent", "failed", "close"}
           /\ pc = "sent" => sending /\ "send" \notin Taken

(* A send covers frames of the ring, and without one the ring is empty.    *)
Covered == IF sending THEN inFlight \in 1 .. Len(ring) ELSE ring = <<>> /\ inFlight = 0

IInv ==
  /\ TypeOK
  /\ OneEach
  /\ Placed
  /\ Reads
  /\ Sends
  /\ Covered
  /\ closeQueued => closing

Tasks == Seq(Ops \X Results)

-----------------------------------------------------------------------------
(* The queue of completed operations.                                      *)
LEMMA FinishedIsNamed == ASSUME completed \in Tasks PROVE IO!Finished = Named(completed)
BY DEF IO!Finished, IO!ToSet, Named, Tasks

LEMMA AppendTask ==
  ASSUME NEW s \in Tasks, NEW o \in Ops, NEW r \in Results, NEW t, t = Append(s, <<o, r>>)
  PROVE  /\ t \in Tasks
         /\ Named(t) = Named(s) \union {o}
         /\ Once(s) /\ o \notin Named(s) => Once(t)
<1>1. /\ t \in Tasks /\ DOMAIN s = 1 .. Len(s) /\ DOMAIN t = 1 .. Len(s) + 1 /\ Len(s) \in Nat
      /\ \A i \in 1 .. Len(s) : t[i] = s[i]
      /\ t[Len(s) + 1] = <<o, r>>
  BY DEF Tasks
<1>2. t[Len(s) + 1][1] = o
  BY <1>1
<1>3. Named(t) = Named(s) \union {o}
  <2>1. ASSUME NEW x \in Named(t) PROVE x \in Named(s) \union {o}
    <3>1. PICK i \in DOMAIN t : x = t[i][1]
      BY DEF Named
    <3>2. CASE i = Len(s) + 1
      BY <1>2, <3>1, <3>2
    <3>3. CASE i # Len(s) + 1
      <4>1. i \in DOMAIN s /\ t[i] = s[i]
        BY <1>1, <3>3
      <4>2. QED
        BY <3>1, <4>1 DEF Named
    <3>4. QED
      BY <3>2, <3>3
  <2>2. ASSUME NEW x \in Named(s) PROVE x \in Named(t)
    <3>1. PICK i \in DOMAIN s : x = s[i][1]
      BY DEF Named
    <3>2. i \in DOMAIN t /\ t[i] = s[i]
      BY <1>1
    <3>3. QED
      BY <3>1, <3>2 DEF Named
  <2>3. o \in Named(t)
    <3>1. Len(s) + 1 \in DOMAIN t
      BY <1>1
    <3>2. QED
      BY <1>2, <3>1 DEF Named
  <2>4. QED
    BY <2>1, <2>2, <2>3
<1>4. ASSUME Once(s), o \notin Named(s), NEW i \in DOMAIN t, NEW j \in DOMAIN t,
             t[i][1] = t[j][1]
      PROVE  i = j
  <2>1. \A k \in DOMAIN s : s[k][1] # o
    BY <1>4 DEF Named
  <2>2. CASE i \in DOMAIN s /\ j \in DOMAIN s
    BY <1>1, <1>4, <2>2 DEF Once
  <2>3. CASE i \in DOMAIN s /\ j \notin DOMAIN s
    <3>1. j = Len(s) + 1 /\ t[i] = s[i]
      BY <1>1, <2>3
    <3>2. QED
      BY <1>2, <1>4, <2>1, <2>3, <3>1
  <2>4. CASE i \notin DOMAIN s /\ j \in DOMAIN s
    <3>1. i = Len(s) + 1 /\ t[j] = s[j]
      BY <1>1, <2>4
    <3>2. QED
      BY <1>2, <1>4, <2>1, <2>4, <3>1
  <2>5. CASE i \notin DOMAIN s /\ j \notin DOMAIN s
    BY <1>1, <2>5
  <2>6. QED
    BY <2>2, <2>3, <2>4, <2>5
<1>5. QED
  BY <1>1, <1>3, <1>4 DEF Once

LEMMA TailTask ==
  ASSUME NEW s \in Tasks, s # <<>>, Once(s)
  PROVE  /\ Tail(s) \in Tasks
         /\ Head(s) \in Ops \X Results /\ Head(s)[1] \in Named(s)
         /\ Named(Tail(s)) = Named(s) \ {Head(s)[1]}
         /\ Once(Tail(s))
<1> DEFINE t == Tail(s)
<1>1. /\ t \in Tasks /\ Len(s) \in Nat \ {0}
      /\ DOMAIN s = 1 .. Len(s) /\ DOMAIN t = 1 .. Len(s) - 1
      /\ \A i \in 1 .. Len(s) - 1 : t[i] = s[i + 1]
      /\ Head(s) = s[1] /\ s[1] \in Ops \X Results
  BY DEF Tasks
<1> HIDE DEF t
<1>2. \A i \in DOMAIN t : i + 1 \in DOMAIN s /\ i + 1 # 1 /\ t[i] = s[i + 1]
  BY <1>1
<1>3. 1 \in DOMAIN s
  BY <1>1
<1>4. ASSUME NEW x \in Named(t) PROVE x \in Named(s) /\ x # s[1][1]
  <2>1. PICK i \in DOMAIN t : x = t[i][1]
    BY DEF Named
  <2>2. QED
    BY <1>2, <1>3, <2>1 DEF Named, Once
<1>5. ASSUME NEW x \in Named(s), x # s[1][1] PROVE x \in Named(t)
  <2>1. PICK i \in DOMAIN s : x = s[i][1]
    BY DEF Named
  <2>2. i - 1 \in DOMAIN t /\ t[i - 1] = s[i]
    BY <1>1, <1>5, <2>1
  <2>3. QED
    BY <2>1, <2>2 DEF Named
<1>6. ASSUME NEW i \in DOMAIN t, NEW j \in DOMAIN t, t[i][1] = t[j][1] PROVE i = j
  <2>1. i + 1 = j + 1
    BY <1>2, <1>6 DEF Once
  <2>2. QED
    BY <1>1, <2>1
<1>7. Named(t) = Named(s) \ {Head(s)[1]}
  BY <1>1, <1>4, <1>5
<1>8. Once(t)
  BY <1>6 DEF Once
<1>9. Head(s)[1] \in Named(s)
  BY <1>1, <1>3 DEF Named
<1>10. QED
  BY <1>1, <1>7, <1>8, <1>9 DEF t

(* th_tcp_conn_cancel drops what waits.                                    *)
LEMMA DropTask ==
  ASSUME NEW s \in Tasks, NEW o \in Ops
  PROVE  /\ Drop(s, o) \in Tasks
         /\ Named(Drop(s, o)) = Named(s) \union ({o} \intersect flying)
         /\ Once(s) /\ Named(s) \intersect flying \intersect {o} = {} => Once(Drop(s, o))
<1>1. CASE o \in flying
  <2>1. Drop(s, o) = Append(s, <<o, "canceled">>) /\ "canceled" \in Results
    BY <1>1 DEF Drop, Results
  <2> DEFINE t == Drop(s, o)
  <2>2. t = Append(s, <<o, "canceled">>)
    BY <2>1
  <2> HIDE DEF t
  <2>3. t \in Tasks /\ Named(t) = Named(s) \union {o} /\ (Once(s) /\ o \notin Named(s) => Once(t))
    BY <2>1, <2>2, AppendTask
  <2>4. QED
    BY <1>1, <2>3 DEF t
<1>2. CASE o \notin flying
  BY <1>2 DEF Drop
<1>3. QED
  BY <1>1, <1>2

-----------------------------------------------------------------------------
(* The steps of the connection as the steps of ThAsync.                    *)
LEMMA TasksType == ASSUME IInv PROVE completed \in Tasks /\ flying \subseteq Ops
BY DEF IInv, TypeOK, IO!TypeOK, Tasks

LEMMA SubmitFits ==
  ASSUME IInv, NEW o \in Ops, o \notin Taken, Submit(o)
  PROVE  /\ IO!Start(o)
         /\ IO!TypeOK' /\ OneEach' /\ Taken' = Taken \union {o}
         /\ delivering' = delivering
<1>1. completed \in Tasks /\ flying \subseteq Ops /\ OneEach /\ IO!TypeOK
  BY TasksType DEF IInv, TypeOK
<1>2. o \notin flying \union IO!Finished /\ o \notin Named(completed)
  BY <1>1, FinishedIsNamed DEF Taken
<1>3. CASE flying' = flying \union {o} /\ UNCHANGED <<completed, delivering>>
  <2>1. IO!Start(o)
    BY <1>2, <1>3 DEF IO!Start
  <2>2. QED
    BY <1>1, <1>2, <1>3, <2>1 DEF IO!TypeOK, OneEach, Taken
<1>4. CASE /\ \E r \in {"ok", "error"} : completed' = Append(completed, <<o, r>>)
           /\ UNCHANGED <<flying, delivering>>
  <2>1. PICK r \in Results : completed' = Append(completed, <<o, r>>)
    BY <1>4 DEF Results
  <2>2. IO!Start(o)
    BY <1>2, <1>4, <2>1 DEF IO!Start
  <2>3. /\ completed' \in Tasks /\ Named(completed') = Named(completed) \union {o}
        /\ Once(completed')
    BY <1>1, <1>2, <2>1, AppendTask DEF OneEach
  <2>4. QED
    BY <1>1, <1>2, <1>4, <2>2, <2>3 DEF IO!TypeOK, OneEach, Taken, Tasks
<1>5. QED
  BY <1>3, <1>4 DEF Submit

LEMMA WorldFits ==
  ASSUME IInv, NEW o \in Ops, World(o)
  PROVE  /\ IO!TypeOK' /\ OneEach' /\ Taken' = Taken
         /\ delivering' = delivering
<1>1. completed \in Tasks /\ flying \subseteq Ops /\ OneEach /\ IO!TypeOK
  BY TasksType DEF IInv, TypeOK
<1>2. PICK r \in Results :
        /\ o \in flying /\ flying' = flying \ {o}
        /\ completed' = Append(completed, <<o, r>>) /\ delivering' = delivering
  BY DEF World, IO!Complete
<1>3. /\ completed' \in Tasks /\ Named(completed') = Named(completed) \union {o}
      /\ Once(completed')
  BY <1>1, <1>2, AppendTask DEF OneEach
<1>4. QED
  BY <1>1, <1>2, <1>3 DEF IO!TypeOK, OneEach, Taken, Tasks

LEMMA CancelFits ==
  ASSUME IInv, Cancel
  PROVE  /\ IO!TypeOK' /\ OneEach' /\ Taken' = Taken
         /\ delivering' = delivering
<1> DEFINE s == Drop(completed, "recv")
           t == Drop(s, "send")
<1>1. /\ completed \in Tasks /\ flying \subseteq Ops /\ OneEach /\ IO!TypeOK
      /\ "recv" \in Ops /\ "send" \in Ops /\ Ops = {"recv", "send"}
  BY TasksType DEF IInv, TypeOK, Ops
<1>2. s \in Tasks /\ Named(s) = Named(completed) \union ({"recv"} \intersect flying) /\ Once(s)
  BY <1>1, DropTask DEF OneEach
<1>3. t \in Tasks /\ Named(t) = Named(s) \union ({"send"} \intersect flying) /\ Once(t)
  <2>1. Named(s) \intersect flying \intersect {"send"} = {}
    BY <1>1, <1>2 DEF OneEach
  <2> HIDE DEF s
  <2>2. QED
    BY <1>1, <1>2, <2>1, DropTask
<1>4. completed' = t /\ flying' = {} /\ delivering' = delivering
  BY DEF Cancel
<1> HIDE DEF s, t
<1>5. Named(t) = Named(completed) \union flying
  BY <1>1, <1>2, <1>3
<1>6. QED
  BY <1>1, <1>3, <1>4, <1>5 DEF IO!TypeOK, OneEach, Taken, Tasks

LEMMA DeliverFits ==
  ASSUME IInv, IO!Deliver
  PROVE  /\ IO!TypeOK' /\ OneEach' /\ Taken' = Taken \ {delivering'}
         /\ delivering' = Head(completed)[1] /\ delivering' \in Ops
         /\ delivering' \in Taken
<1>1. completed \in Tasks /\ flying \subseteq Ops /\ OneEach /\ IO!TypeOK
  BY TasksType DEF IInv, TypeOK
<1>2. /\ completed # <<>> /\ delivering' = Head(completed)[1]
      /\ completed' = Tail(completed) /\ flying' = flying
  BY DEF IO!Deliver
<1>3. /\ completed' \in Tasks /\ Once(completed')
      /\ Head(completed) \in Ops \X Results /\ delivering' \in Named(completed)
      /\ Named(completed') = Named(completed) \ {delivering'}
  BY <1>1, <1>2, TailTask DEF OneEach
<1>4. delivering' \in Ops
  BY <1>2, <1>3
<1>5. QED
  BY <1>1, <1>2, <1>3, <1>4 DEF IO!TypeOK, OneEach, Taken, Tasks

-----------------------------------------------------------------------------
LEMMA InitStep == ASSUME Init PROVE IInv
<1>1. TypeOK
  <2>1. <<>> \in Seq(Frames) /\ <<>> \in Seq(Ops \X Results) /\ Len(<<>>) = 0
    OBVIOUS
  <2>2. IO!TypeOK
    BY <2>1 DEF Init, IO!TypeOK, Ops
  <2>3. 0 \in 0 .. QueueLen /\ 0 \in 0 .. MaxFrames /\ 0 <= QueueLen
    BY WsAssumption
  <2>4. QED
    BY <2>1, <2>2, <2>3 DEF Init, TypeOK, Places
<1>2. Named(completed) = {} /\ Once(completed)
  BY DEF Init, Named, Once
<1>3. QED
  BY <1>1, <1>2 DEF Init, IInv, OneEach, Placed, Reads, Sends, Covered, Taken

(* What th_ws_queue_frame does to the ring and the send, where it is used: *)
(* by a ws that lives, and never between the end of a send and the next.   *)
LEMMA QueueFits ==
  ASSUME IInv, alive, pc # "sent", NEW f \in Frames, QueueFrame(f)
  PROVE  /\ IO!TypeOK' /\ OneEach' /\ delivering' = delivering
         /\ ring' \in Seq(Frames) /\ Len(ring') <= QueueLen
         /\ inFlight' \in 0 .. QueueLen /\ sending' \in BOOLEAN /\ closeQueued' \in BOOLEAN
         /\ Covered'
         /\ ("recv" \in Taken') = ("recv" \in Taken)
         /\ ("send" \in Taken') => sending'
         /\ (sending => "send" \in Taken) => (sending' => "send" \in Taken')
         /\ sending => sending'
         /\ closeQueued' => (closeQueued \/ f = "close")
<1>1. /\ TypeOK /\ IO!TypeOK /\ OneEach /\ Covered
      /\ ring \in Seq(Frames) /\ Len(ring) <= QueueLen /\ inFlight \in 0 .. QueueLen
      /\ sending \in BOOLEAN /\ closeQueued \in BOOLEAN
      /\ "send" \in Taken => sending
  BY DEF IInv, TypeOK, Sends
<1>2. CASE /\ Len(ring) < QueueLen
           /\ ring' = Append(ring, f)
           /\ closeQueued' = (closeQueued \/ f = "close")
           /\ sending' = TRUE
           /\ IF sending THEN UNCHANGED <<inFlight, ioVars>>
              ELSE Peek(ring') /\ Submit("send")
  <2>1. /\ ring' \in Seq(Frames) /\ Len(ring') = Len(ring) + 1 /\ Len(ring') <= QueueLen
        /\ Len(ring) \in Nat
    BY <1>1, <1>2, WsAssumption
  <2>2. CASE sending
    <3>1. Taken' = Taken /\ UNCHANGED <<inFlight, flying, completed, delivering>>
      BY <1>2, <2>2 DEF ioVars, Taken
    <3>2. QED
      BY <1>1, <1>2, <2>1, <2>2, <3>1 DEF Covered, OneEach, IO!TypeOK
  <2>3. CASE ~sending
    <3>1. Peek(ring') /\ Submit("send") /\ "send" \in Ops /\ "send" \notin Taken
      BY <1>1, <1>2, <2>3 DEF Ops
    <3>2. /\ IO!TypeOK' /\ OneEach' /\ Taken' = Taken \union {"send"}
          /\ delivering' = delivering
      BY <3>1, SubmitFits
    <3>3. inFlight' \in 1 .. Len(ring')
      BY <3>1 DEF Peek
    <3>4. QED
      BY <1>1, <1>2, <2>1, <2>3, <3>2, <3>3, WsAssumption DEF Covered
  <2>4. QED
    BY <2>2, <2>3
<1>3. CASE UNCHANGED <<ring, closeQueued, sending, inFlight, ioVars>>
  <2>1. Taken' = Taken
    BY <1>3 DEF ioVars, Taken
  <2>2. QED
    BY <1>1, <1>3, <2>1 DEF ioVars, Covered, OneEach, IO!TypeOK
<1>4. QED
  BY <1>2, <1>3 DEF QueueFrame

LEMMA SendStep == ASSUME IInv, Send PROVE IInv'
<1>1. /\ alive /\ pc \in {"idle", "open", "data", "close"} /\ QueueFrame("message")
      /\ UNCHANGED <<alive, pc, more, closing, peerClosed>> /\ "message" \in Frames
  BY DEF Send, InUserCode, Frames
<1>2. QED
  BY <1>1, QueueFits DEF IInv, TypeOK, Placed, Reads, Sends

LEMMA CloseStep == ASSUME IInv, Close PROVE IInv'
<1>1. /\ alive /\ pc \in {"idle", "open", "data", "close"} /\ QueueFrame("close")
      /\ closing' = TRUE
      /\ UNCHANGED <<alive, pc, more, peerClosed>> /\ "close" \in Frames
  BY DEF Close, InUserCode, Frames
<1>2. QED
  BY <1>1, QueueFits DEF IInv, TypeOK, Placed, Reads, Sends

LEMMA OpenedStep == ASSUME IInv, Opened PROVE IInv'
<1>1. /\ pc = "open" /\ pc' = "done"
      /\ UNCHANGED <<more, closing, sending, ring, inFlight, closeQueued, peerClosed>>
      /\ "recv" \in Ops /\ "recv" \notin Taken /\ delivering = "send"
  BY DEF Opened, IInv, Reads, Placed, Ops
<1>2. CASE Submit("recv") /\ UNCHANGED alive
  <2>1. /\ IO!TypeOK' /\ OneEach' /\ Taken' = Taken \union {"recv"}
        /\ delivering' = delivering
    BY <1>1, <1>2, SubmitFits
  <2>2. QED
    BY <1>1, <1>2, <2>1 DEF IInv, TypeOK, Placed, Reads, Sends, Covered, Places
<1>3. CASE alive' = FALSE /\ UNCHANGED ioVars
  BY <1>1, <1>3 DEF ioVars, IInv, TypeOK, IO!TypeOK, OneEach, Placed, Reads, Sends, Covered,
                    Places
<1>4. QED
  BY <1>2, <1>3 DEF Opened

LEMMA CallbackStep == ASSUME IInv, Callback PROVE IInv'
<1>1. /\ alive /\ pc = "idle" /\ IO!Deliver
      /\ pc' \in {"failed", "received", "sent"}
      /\ pc' = "received" => delivering' = "recv"
      /\ pc' = "sent" => delivering' # "recv"
      /\ UNCHANGED <<alive, closing, sending, ring, inFlight, closeQueued, peerClosed>>
  BY DeliverFits DEF Callback
<1>2. /\ IO!TypeOK' /\ OneEach' /\ Taken' = Taken \ {delivering'}
      /\ delivering' \in Ops /\ delivering' \in Taken
  BY <1>1, DeliverFits
<1>3. more' \in 0 .. MaxFrames
  BY <1>1, WsAssumption DEF Callback
<1>4. delivering' \in {"recv", "send"}
  BY <1>2 DEF Ops
<1>5. TypeOK'
  BY <1>1, <1>2, <1>3 DEF IInv, TypeOK, Places
<1>6. QED
  BY <1>1, <1>2, <1>4, <1>5 DEF IInv, Placed, Reads, Sends, Covered

LEMMA PlainStep ==
  ASSUME IInv, Failed \/ Parsed \/ DataHandled \/ Destroy
  PROVE  IInv'
<1>1. /\ IO!TypeOK' /\ OneEach' /\ Taken' = Taken /\ Covered' /\ delivering' = delivering
      /\ UNCHANGED <<closing, sending, ring, inFlight, closeQueued, peerClosed>>
  BY DEF Failed, Parsed, DataHandled, Destroy, ioVars, IInv, TypeOK, IO!TypeOK, OneEach,
         Taken, Covered
<1>2. more' \in 0 .. MaxFrames
  BY WsAssumption DEF Failed, Parsed, DataHandled, Destroy, IInv, TypeOK
<1>3. CASE Failed
  BY <1>1, <1>2, <1>3 DEF Failed, IInv, TypeOK, Placed, Reads, Sends, Places
<1>4. CASE Parsed
  BY <1>1, <1>2, <1>4 DEF Parsed, Refuse, IInv, TypeOK, Placed, Reads, Sends, Places
<1>5. CASE DataHandled
  BY <1>1, <1>2, <1>5 DEF DataHandled, Refuse, IInv, TypeOK, Placed, Reads, Sends, Places
<1>6. CASE Destroy
  <2>1. pc = "close" /\ pc' = "done" /\ alive' = FALSE
    BY <1>6 DEF Destroy
  <2>2. QED
    BY <1>1, <1>2, <2>1 DEF IInv, TypeOK, Placed, Reads, Sends, Places
<1>7. QED
  BY <1>3, <1>4, <1>5, <1>6

LEMMA NeedMoreStep == ASSUME IInv, NeedMore PROVE IInv'
<1>1. /\ pc = "received" /\ pc' = "done" /\ Submit("recv")
      /\ UNCHANGED <<alive, more, closing, sending, ring, inFlight, closeQueued, peerClosed>>
      /\ "recv" \in Ops /\ "recv" \notin Taken /\ delivering = "recv"
  BY DEF NeedMore, IInv, Reads, Placed, Ops
<1>2. /\ IO!TypeOK' /\ OneEach' /\ Taken' = Taken \union {"recv"}
      /\ delivering' = delivering
  BY <1>1, SubmitFits
<1>3. QED
  BY <1>1, <1>2 DEF IInv, TypeOK, Placed, Reads, Sends, Covered, Places

LEMMA ParsedCloseStep == ASSUME IInv, ParsedClose PROVE IInv'
<1>1. /\ pc = "received" /\ alive /\ pc' = "done" /\ more' = 0 /\ more' \in 0 .. MaxFrames
      /\ closing' = TRUE /\ peerClosed' = TRUE /\ UNCHANGED alive /\ "close" \in Frames
  BY WsAssumption DEF ParsedClose, IInv, Placed, Frames
<1>2. CASE closing
  BY <1>1, <1>2 DEF ParsedClose, ioVars, IInv, TypeOK, IO!TypeOK, OneEach, Taken, Covered,
                    Placed, Reads, Sends, Places
<1>3. CASE ~closing
  <2>1. QueueFrame("close")
    BY <1>3 DEF ParsedClose
  <2>2. QED
    BY <1>1, <2>1, QueueFits DEF IInv, TypeOK, Placed, Reads, Sends, Places
<1>4. QED
  BY <1>2, <1>3 DEF IInv, TypeOK

LEMMA SentStep == ASSUME IInv, Sent PROVE IInv'
<1>1. /\ pc = "sent" /\ alive /\ ring' = Rest /\ delivering = "send"
      /\ sending /\ "send" \notin Taken /\ "send" \in Ops
      /\ inFlight \in 1 .. Len(ring) /\ ring \in Seq(Frames) /\ Len(ring) <= QueueLen
      /\ UNCHANGED <<alive, more, closing, closeQueued, peerClosed>>
  BY DEF Sent, IInv, Placed, Sends, Covered, TypeOK, Ops
<1>2. Rest \in Seq(Frames) /\ Len(Rest) <= QueueLen /\ Len(Rest) \in Nat
  <2>1. Len(ring) \in Nat /\ Len(ring) - inFlight \in 0 .. QueueLen
    BY <1>1, WsAssumption
  <2>2. Rest \in Seq(Frames) /\ Len(Rest) = Len(ring) - inFlight
    BY <1>1, <2>1, SubSeqProperties DEF Rest
  <2>3. QED
    BY <2>1, <2>2, WsAssumption
<1>3. CASE Rest = <<>>
  <2>1. /\ sending' = FALSE /\ inFlight' = 0 /\ inFlight' \in 0 .. QueueLen
        /\ pc' = (IF closing THEN "close" ELSE "done")
        /\ UNCHANGED <<flying, completed, delivering>>
    BY <1>3, WsAssumption DEF Sent, ioVars
  <2>2. TypeOK' /\ OneEach' /\ Taken' = Taken
    BY <1>1, <1>2, <2>1 DEF IInv, TypeOK, IO!TypeOK, OneEach, Taken, Places
  <2>3. Covered' /\ Placed' /\ Reads' /\ Sends'
    BY <1>1, <1>3, <2>1, <2>2 DEF Covered, Placed, Reads, Sends
  <2>4. QED
    BY <1>1, <2>2, <2>3 DEF IInv
<1>4. CASE Rest # <<>>
  <2>1. Peek(Rest) /\ Submit("send") /\ pc' = "done" /\ sending' = sending
    BY <1>4 DEF Sent
  <2>2. /\ IO!TypeOK' /\ OneEach' /\ Taken' = Taken \union {"send"}
        /\ delivering' = delivering
    BY <1>1, <2>1, SubmitFits
  <2>3. inFlight' \in 1 .. Len(Rest)
    BY <2>1 DEF Peek
  <2>4. inFlight' \in 0 .. QueueLen
    BY <1>2, <2>3, WsAssumption
  <2>5. QED
    BY <1>1, <1>2, <2>1, <2>2, <2>3, <2>4
       DEF IInv, TypeOK, Covered, Placed, Reads, Sends, Places
<1>5. QED
  BY <1>3, <1>4

LEMMA ReturnStep == ASSUME IInv, Return PROVE IInv'
<1>1. /\ pc = "done" /\ pc' = "idle" /\ more' = 0 /\ delivering' = "none"
      /\ UNCHANGED <<flying, completed>>
      /\ UNCHANGED <<alive, closing, sending, ring, inFlight, closeQueued, peerClosed>>
  BY DEF Return, IO!Return
<1>2. TypeOK'
  BY <1>1, WsAssumption DEF IInv, TypeOK, IO!TypeOK, Places
<1>3. QED
  BY <1>1, <1>2 DEF IInv, OneEach, Taken, Covered, Placed, Reads, Sends

LEMMA WorldStep == ASSUME IInv, NEW o \in Ops, World(o) PROVE IInv'
<1>1. UNCHANGED wsVars /\ alive /\ pc = "idle"
  BY DEF World
<1>2. QED
  BY <1>1, WorldFits DEF wsVars, IInv, TypeOK, Covered, Placed, Reads, Sends

LEMMA CancelStep == ASSUME IInv, Cancel PROVE IInv'
<1>1. UNCHANGED wsVars /\ alive /\ pc = "idle"
  BY DEF Cancel
<1>2. QED
  BY <1>1, CancelFits DEF wsVars, IInv, TypeOK, Covered, Placed, Reads, Sends

LEMMA NextStep == ASSUME IInv, [Next]_vars PROVE IInv'
<1>1. CASE Handler
  BY <1>1, OpenedStep, PlainStep DEF Handler
<1>2. CASE Loop
  BY <1>2, CallbackStep, PlainStep, NeedMoreStep, ParsedCloseStep, SentStep, ReturnStep DEF Loop
<1>3. CASE Send
  BY <1>3, SendStep
<1>4. CASE Close
  BY <1>4, CloseStep
<1>5. CASE Cancel
  BY <1>5, CancelStep
<1>6. CASE \E o \in Ops : World(o)
  BY <1>6, WorldStep
<1>7. CASE UNCHANGED vars
  BY <1>7 DEF vars, wsVars, ioVars, IInv, TypeOK, IO!TypeOK, OneEach, Taken, Covered, Placed,
              Reads, Sends
<1>8. QED
  BY <1>1, <1>2, <1>3, <1>4, <1>5, <1>6, <1>7 DEF Next

LEMMA Inductive == Spec => []IInv
<1>1. Init => IInv
  BY InitStep
<1>2. IInv /\ [Next]_vars => IInv'
  BY NextStep
<1>3. QED
  BY <1>1, <1>2, PTL DEF Spec

-----------------------------------------------------------------------------
(* th_ws_queue_frame and th_ws_send_drain: while a ws lives and no callback *)
(* of a send runs, the ring holds frames exactly if a send is under way,   *)
(* which covers some of them; so no frame is left behind.                  *)
THEOREM NoFrameIsStuck == Spec => []RingIsDrained
<1>1. ASSUME IInv PROVE RingIsDrained
  <2>1. completed \in Tasks /\ IO!Finished = Named(completed)
    BY <1>1, TasksType, FinishedIsNamed
  <2>2. /\ TypeOK /\ Placed /\ Sends /\ Covered
        /\ ring \in Seq(Frames) /\ Len(ring) \in Nat /\ inFlight \in 0 .. QueueLen
    BY <1>1 DEF IInv, TypeOK
  <2>3. ASSUME alive, pc \in {"idle", "data", "received"}
        PROVE  /\ ring # <<>> <=> sending
               /\ sending <=> InFlight("send")
               /\ inFlight <= Len(ring) /\ (sending => inFlight > 0)
    <3>1. delivering # "send" /\ (sending <=> "send" \in Taken)
      BY <2>2, <2>3 DEF Placed, Sends
    <3>2. InFlight("send") <=> "send" \in Taken
      BY <2>1, <3>1 DEF InFlight, Taken
    <3>3. CASE sending
      BY <2>2, <3>1, <3>2, <3>3 DEF Covered
    <3>4. CASE ~sending
      BY <2>2, <3>1, <3>2, <3>4 DEF Covered
    <3>5. QED
      BY <3>3, <3>4
  <2>4. QED
    BY <2>2, <2>3 DEF RingIsDrained
<1>2. QED
  BY <1>1, Inductive, PTL

(* RFC 6455 as ws->closing implements it: the CLOSE frame is the last one  *)
(* queued, whoever starts the close.                                       *)
THEOREM CloseIsLast == Spec => CloseFrameLast
<1>1. ASSUME IInv, [Next]_vars, closeQueued PROVE Len(ring') <= Len(ring)
  <2>1. /\ closing /\ ring \in Seq(Frames) /\ Len(ring) \in Nat
    BY <1>1 DEF IInv, TypeOK
  <2>2. CASE Sent
    <3>1. ring' = Rest /\ inFlight \in 1 .. Len(ring)
      BY <1>1, <2>2 DEF Sent, IInv, Placed, Sends, Covered
    <3>2. Len(Rest) = Len(ring) - inFlight
      BY <2>1, <3>1, SubSeqProperties DEF Rest
    <3>3. QED
      BY <2>1, <3>1, <3>2
  <2>3. CASE ~Sent
    <3>1. ring' = ring
      BY <1>1, <2>1, <2>3
         DEF Next, Handler, Opened, DataHandled, Destroy, Loop, Callback, Failed, NeedMore,
             Parsed, ParsedClose, Return, Send, Close, Cancel, World, vars, wsVars
    <3>2. QED
      BY <2>1, <3>1
  <2>4. QED
    BY <2>2, <2>3
<1>2. QED
  BY <1>1, Inductive, PTL DEF Spec, CloseFrameLast

-----------------------------------------------------------------------------
(* Below: the steps of th_ws.c seen by the connection and by the ring.     *)
LEMMA FrontOfAppend ==
  ASSUME NEW s \in Seq(Frames), NEW f \in Frames, NEW t, t = Append(s, f)
  PROVE  t # <<>> /\ Q!Front(t) = s /\ Q!Last(t) = f
<1>1. /\ Len(s) \in Nat /\ t \in Seq(Frames) /\ Len(t) = Len(s) + 1
      /\ t[Len(t)] = f /\ \A i \in 1 .. Len(s) : t[i] = s[i]
  OBVIOUS
<1>2. Q!Front(t) = SubSeq(t, 1, Len(s)) /\ SubSeq(t, 1, Len(s)) = s
  BY <1>1 DEF Q!Front
<1>3. QED
  BY <1>1, <1>2 DEF Q!Last

LEMMA QueueSeen ==
  ASSUME IInv, alive, pc # "sent", NEW f \in Frames, QueueFrame(f)
  PROVE  /\ [IO!Next]_ioVars
         /\ [Q!Next]_<<ring, inFlight>>
<1>1. /\ ring \in Seq(Frames) /\ Len(ring) \in Nat /\ inFlight \in 0 .. QueueLen
      /\ Covered /\ ("send" \in Taken => sending) /\ "send" \in Ops
  BY DEF IInv, TypeOK, Sends, Ops
<1>2. CASE /\ ring' = Append(ring, f)
           /\ IF sending THEN UNCHANGED <<inFlight, ioVars>>
              ELSE Peek(ring') /\ Submit("send")
  <2>1. ring' # <<>> /\ Q!Front(ring') = ring /\ Q!Last(ring') \in Frames
    BY <1>1, <1>2, FrontOfAppend
  <2>2. CASE sending
    BY <1>1, <1>2, <2>1, <2>2 DEF Covered, Q!Next, Q!Queue
  <2>3. CASE ~sending
    <3>1. IO!Start("send") /\ inFlight' \in 1 .. Len(ring') /\ inFlight = 0
      BY <1>1, <1>2, <2>3, SubmitFits DEF Covered, Peek
    <3>2. QED
      BY <1>1, <2>1, <3>1 DEF IO!Next, Q!Next, Q!Queue
  <2>4. QED
    BY <2>2, <2>3
<1>3. CASE UNCHANGED <<ring, inFlight, ioVars>>
  BY <1>3
<1>4. QED
  BY <1>2, <1>3 DEF QueueFrame

LEMMA SentSeen ==
  ASSUME IInv, Sent
  PROVE  /\ [IO!Next]_ioVars
         /\ [Q!Next]_<<ring, inFlight>>
<1>1. /\ ring' = Rest /\ inFlight > 0 /\ "send" \in Ops /\ "send" \notin Taken
  BY DEF Sent, IInv, Placed, Sends, Covered, TypeOK, Ops
<1>2. CASE Rest = <<>>
  BY <1>1, <1>2 DEF Sent, Rest, Q!Next, Q!Sent
<1>3. CASE Rest # <<>>
  <2>1. Submit("send") /\ inFlight' \in 1 .. Len(ring')
    BY <1>1, <1>3 DEF Sent, Peek
  <2>2. IO!Start("send")
    BY <1>1, <2>1, SubmitFits
  <2>3. QED
    BY <1>1, <1>3, <2>1, <2>2 DEF Rest, Q!Next, Q!Sent, IO!Next
<1>4. QED
  BY <1>2, <1>3

LEMMA SameCardinality == ASSUME NEW S PROVE IO!Cardinality(S) = Cardinality(S)
BY DEF IO!Cardinality, Cardinality

LEMMA OrdersOfOne == ASSUME NEW o PROVE <<o>> \in IO!SetToSeqs({o})
<1>1. IO!Cardinality({o}) = 1
  BY SameCardinality, FS_Singleton
<1>2. <<o>> \in [1 .. 1 -> {o}]
  OBVIOUS
<1>3. QED
  BY <1>1, <1>2 DEF IO!SetToSeqs

LEMMA OrdersOfTwo ==
  ASSUME NEW o, NEW p, o # p
  PROVE  <<o, p>> \in IO!SetToSeqs({o, p})
<1>1. IO!Cardinality({o, p}) = 2
  <2>1. {o, p} = {o} \union {p} /\ p \notin {o}
    OBVIOUS
  <2>2. Cardinality({o, p}) = Cardinality({o}) + 1
    BY <2>1, FS_Singleton, FS_AddElement
  <2>3. QED
    BY <2>2, SameCardinality, FS_Singleton
<1>2. <<o, p>> \in [1 .. 2 -> {o, p}]
  OBVIOUS
<1>3. \A i, j \in 1 .. 2 : i # j => <<o, p>>[i] # <<o, p>>[j]
  OBVIOUS
<1>4. QED
  BY <1>1, <1>2, <1>3 DEF IO!SetToSeqs

LEMMA AppendsConcat ==
  ASSUME NEW s \in Tasks, NEW x, NEW y
  PROVE  /\ Append(s, x) = s \o <<x>>
         /\ Append(Append(s, x), y) = s \o <<x, y>>
BY DEF Tasks

(* Two tasks are cancelled in the order in which Cancel lists them.        *)
LEMMA CancelSeen == ASSUME IInv, Cancel PROVE IO!Next
<1> DEFINE r == <<"recv", "canceled">>
           w == <<"send", "canceled">>
           Canceled(order) == [i \in DOMAIN order |-> <<order[i], "canceled">>]
<1>1. /\ completed \in Tasks /\ flying \subseteq {"recv", "send"} /\ flying # {}
      /\ flying' = {} /\ delivering' = delivering
      /\ completed' = Drop(Drop(completed, "recv"), "send")
      /\ "canceled" \in Results /\ "recv" \in Ops /\ "send" \in Ops
  BY TasksType DEF Cancel, Ops, Results
<1>2. SUFFICES \E order \in IO!SetToSeqs(flying) : completed' = completed \o Canceled(order)
  BY <1>1 DEF IO!Next, IO!Cancel
<1>3. CASE flying = {"recv"}
  <2>1. <<"recv">> \in IO!SetToSeqs(flying)
    BY <1>3, OrdersOfOne
  <2>2. completed' = Append(completed, r)
    BY <1>1, <1>3 DEF Drop
  <2>3. Canceled(<<"recv">>) = <<r>>
    OBVIOUS
  <2>4. completed' = completed \o <<r>>
    <3> HIDE DEF r, w
    <3>1. QED
      BY <1>1, <2>2, AppendsConcat
  <2> HIDE DEF Canceled, r, w
  <2>5. QED
    BY <2>1, <2>3, <2>4
<1>4. CASE flying = {"send"}
  <2>1. <<"send">> \in IO!SetToSeqs(flying)
    BY <1>4, OrdersOfOne
  <2>2. completed' = Append(completed, w)
    BY <1>1, <1>4 DEF Drop
  <2>3. Canceled(<<"send">>) = <<w>>
    OBVIOUS
  <2>4. completed' = completed \o <<w>>
    <3> HIDE DEF r, w
    <3>1. QED
      BY <1>1, <2>2, AppendsConcat
  <2> HIDE DEF Canceled, r, w
  <2>5. QED
    BY <2>1, <2>3, <2>4
<1>5. CASE flying = {"recv", "send"}
  <2>1. <<"recv", "send">> \in IO!SetToSeqs(flying)
    BY <1>5, OrdersOfTwo
  <2>2. completed' = Append(Append(completed, r), w)
    BY <1>1, <1>5 DEF Drop
  <2>3. Canceled(<<"recv", "send">>) = <<r, w>>
    OBVIOUS
  <2>4. completed' = completed \o <<r, w>>
    <3> HIDE DEF r, w
    <3>1. QED
      BY <1>1, <2>2, AppendsConcat
  <2> HIDE DEF Canceled, r, w
  <2>5. QED
    BY <2>1, <2>3, <2>4
<1>6. QED
  BY <1>1, <1>3, <1>4, <1>5

LEMMA StepSeen ==
  ASSUME IInv, [Next]_vars
  PROVE  /\ [IO!Next]_ioVars
         /\ [Q!Next]_<<ring, inFlight>>
<1>1. CASE Sent
  BY <1>1, SentSeen
<1>2. CASE Send
  BY <1>2, QueueSeen DEF Send, InUserCode, Frames
<1>3. CASE Close
  BY <1>3, QueueSeen DEF Close, InUserCode, Frames
<1>4. CASE ParsedClose
  <2>1. pc = "received" /\ alive
    BY <1>4 DEF ParsedClose, IInv, Placed
  <2>2. QED
    BY <1>4, <2>1, QueueSeen DEF ParsedClose, Frames, ioVars
<1>5. CASE Opened \/ NeedMore
  <2>1. /\ UNCHANGED <<ring, inFlight>> /\ "recv" \in Ops /\ "recv" \notin Taken
        /\ Submit("recv") \/ UNCHANGED ioVars
    BY <1>5 DEF Opened, NeedMore, IInv, Reads, Ops
  <2>2. QED
    BY <2>1, SubmitFits DEF IO!Next
<1>6. CASE Failed \/ Parsed \/ DataHandled \/ Destroy
  BY <1>6 DEF Failed, Parsed, DataHandled, Destroy
<1>7. CASE Callback \/ Return
  BY <1>7 DEF Callback, Return, IO!Next
<1>8. CASE Cancel
  BY <1>8, CancelSeen DEF Cancel, wsVars
<1>9. CASE \E o \in Ops : World(o)
  BY <1>9 DEF World, IO!Next, wsVars
<1>10. CASE UNCHANGED vars
  BY <1>10 DEF vars, wsVars
<1>11. QED
  BY <1>1, <1>2, <1>3, <1>4, <1>5, <1>6, <1>7, <1>8, <1>9, <1>10
     DEF Next, Handler, Loop

(* th_ws.c keeps the contract of the connection, no operation is started   *)
(* while it is in flight, and uses its ring as a queue of whole frames     *)
(* with one send at a time: every step is one of ThAsync or none, and one  *)
(* of ThFrameQueue or none.                                                *)
THEOREM KeepsContracts == Spec => ConnContract
<1>1. Init => Q!Init
  BY DEF Init, Q!Init
<1>2. IInv /\ [Next]_vars => [IO!Next]_ioVars /\ [Q!Next]_<<ring, inFlight>>
  BY StepSeen
<1>3. QED
  BY <1>1, <1>2, Inductive, PTL DEF Spec, ConnContract, Q!Spec
=============================================================================
