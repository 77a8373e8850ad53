------------------------------- MODULE ThWsData -------------------------------
(***************************************************************************)
(* The bytes of one WebSocket: frames of a client, received in pieces of   *)
(* any size, parsed (ThFrameParser) and handed to a handler that sends     *)
(* each message back; the frames it sends, through the send buffer         *)
(* (ThRing) and the socket's send operation (ThTransfer) to the wire.      *)
(* When callbacks run and what ends a WebSocket is the subject of ThWs.    *)
(***************************************************************************)
EXTENDS ThFrameParser

CONSTANTS
  FrameSeqs,   \* what a client may send
  Radix,       \* values of a byte in a length
  RingInitial, \* TH_CONFIG_WS_SEND_RING_LEN
  RingMax,     \* TH_CONFIG_WS_SEND_MAX_LEN
  AllocFails   \* the allocator may fail

ASSUME WsDataAssumption ==
  /\ FrameSeqs \subseteq Seq(Frame)
  /\ Radix \in Nat /\ Radix > 1
  /\ Len7Max \in Nat /\ Len16Max \in Nat /\ Len7Max <= Len16Max
  /\ Shifted(Radix, Len16Max, 2) = 0 /\ Shifted(Radix, RingMax, 8) = 0
  /\ Len64 \in Nat /\ HeaderBufLen < Len64
  /\ MaxMessageLen \in Nat /\ MaxMessageLen < Len64
  /\ RingInitial \in Nat \ {0} /\ RingMax \in Nat
  /\ AllocFails \in BOOLEAN

VARIABLES
  frames,    \* the client's frames
  cut,       \* bytes of them the socket has received
  wsPc,      \* what runs: see WsPlaces
  data,      \* what is left of the bytes th_ws_consume works on
  parser,    \* ws->parser
  payload,   \* ws->payload
  closing,   \* ws->closing
  ring,      \* ws->send_ring
  sending,   \* ws->sending
  sendOp,    \* the send operation
  opDone,    \* it is completed, its callback due
  wire,      \* history: the bytes the socket has taken
  got,       \* history: the messages the handler was given
  accepted,  \* history: the frames the ring has taken
  wsEnd      \* history: why the ws has ended, "" while it lives

inVars == <<frames, cut, wsPc, data, parser, payload, got>>
outVars == <<ring, sending, sendOp, opDone, wire, accepted>>
wsDataVars == <<inVars, outVars, closing, wsEnd>>

R == INSTANCE ThRing WITH InitialCapacity <- RingInitial, MaxLen <- RingMax,
                          Unwritten <- <<"none", 0, 0>>
T == INSTANCE ThTransfer WITH FileChunk <- 1

(***************************************************************************)
(* "idle": no code of the ws runs; "received": th_ws_consume has data to   *)
(* parse; "data": the handler runs; "away": no receive is started again;   *)
(* "undefined": the parser's state is no longer that of the code.          *)
(***************************************************************************)
WsPlaces == {"idle", "received", "data", "away", "undefined"}

(* The bytes of each of them.                                              *)
Streams == [fs \in FrameSeqs |-> Stream(fs)]

NoOp == T!SendVec(<<>>)

WsInit ==
  /\ frames \in FrameSeqs
  /\ cut = 0
  /\ wsPc = "idle"
  /\ data = <<>>
  /\ parser = NewParser
  /\ payload = <<>>
  /\ closing = FALSE
  /\ ring = R!EmptyRing
  /\ sending = FALSE
  /\ sendOp = NoOp
  /\ opDone = FALSE
  /\ wire = <<>>
  /\ got = <<>>
  /\ accepted = <<>>
  /\ wsEnd = ""

-----------------------------------------------------------------------------
(* An attempt of operation o: the socket takes n of the bytes it is shown, *)
(* as they are in the chunks then; none if it is full.                     *)
Attempt(o, n) ==
  LET cells == SubSeq(T!Offered(o, 0), 1, n)
  IN /\ sendOp' = T!Performed(o, n)
     /\ opDone' = T!Finished(sendOp')
     /\ wire' = wire \o [i \in DOMAIN cells |-> R!CellAt(ring', cells[i][1], cells[i][2])]

(* th_ws_send_drain                                                        *)
Drain ==
  IF R!Peek(ring') = <<>>
  THEN /\ sending' = FALSE
       /\ sendOp' = NoOp
       /\ opDone' = FALSE
       /\ UNCHANGED wire
  ELSE /\ sending' = TRUE
       /\ \E n \in 0 .. T!IovBytes(R!Peek(ring')) : Attempt(T!SendVec(R!Peek(ring')), n)

(* A message or CLOSE as a frame of this side.                             *)
Encoded(f) ==
  HeaderWrite(Radix, f.type, Len(f.payload)) \o f.payload

(* th_ws_queue_frame, and what it does when the ring takes the frame.      *)
Queued(f) ==
  /\ ~R!Refused(ring, Len(Encoded(f)))
  /\ ring' = R!Write(ring, Encoded(f))
  /\ accepted' = Append(accepted, f)
  /\ IF sending THEN UNCHANGED <<sending, sendOp, opDone, wire>> ELSE Drain

NotQueued(f) ==
  /\ \/ R!Refused(ring, Len(Encoded(f)))
     \/ AllocFails /\ R!NeedsChunk(ring, Len(Encoded(f)))
  /\ UNCHANGED outVars

-----------------------------------------------------------------------------
(* The socket has n bytes for th_ws_handle_recv.                           *)
Receive(n) ==
  /\ wsPc = "idle" /\ wsEnd = ""
  /\ cut + n <= Len(Streams[frames])
  /\ cut' = cut + n
  /\ data' = SubSeq(Streams[frames], cut + 1, cut + n)
  /\ wsPc' = "received"
  /\ UNCHANGED <<frames, parser, payload, got, outVars, closing, wsEnd>>

(* A step of the loop of th_ws_frame_parser_parse, and of th_ws_consume    *)
(* around it.                                                              *)
Taken(step) ==
  /\ parser' = step.parser
  /\ payload' = step.payload
  /\ data' = SubSeq(data, step.parsed + 1, Len(data))
  /\ UNCHANGED <<frames, cut>>

(* Nothing is left and nothing was taken: the next receive is started.  A  *)
(* frame without payload is complete with nothing left.                    *)
More(step) ==
  /\ step.outcome = "more"
  /\ Taken(step)
  /\ wsPc' = IF data = <<>> THEN "idle" ELSE "received"
  /\ UNCHANGED <<got, outVars, closing, wsEnd>>

(* th_ws_consume goes on as long as data is left.                          *)
Onward(left) == IF left = <<>> THEN "idle" ELSE "received"

PingOrPong(step) ==
  /\ step.outcome \in {Ping, Pong}
  /\ Taken(step)
  /\ wsPc' = Onward(data')
  /\ UNCHANGED <<got, outVars, closing, wsEnd>>

Invalid(step) ==
  /\ step.outcome = "invalid"
  /\ Taken(step)
  /\ wsPc' = "away"
  /\ wsEnd' = "invalid"
  /\ UNCHANGED <<got, outVars, closing>>

(* The client's CLOSE frame is answered; the sends end the ws.             *)
PeerCloses(step) ==
  /\ step.outcome = Close
  /\ Taken(step)
  /\ wsPc' = "away"
  /\ closing' = TRUE
  /\ LET f == [type |-> Close, payload |-> <<>>] IN Queued(f) \/ NotQueued(f)
  /\ UNCHANGED <<got, wsEnd>>

Message(step) ==
  /\ step.outcome \in {Text, Binary}
  /\ Taken(step)
  /\ wsPc' = "data"
  /\ got' = Append(got, [type |-> step.outcome, payload |-> payload'])
  /\ UNCHANGED <<outVars, closing, wsEnd>>

(* Behind a header that has swallowed bytes, see DoHeader.                 *)
Astray(step) ==
  /\ step.outcome \in {"overrun", "lost"}
  /\ Taken(step)
  /\ wsPc' = "undefined"
  /\ UNCHANGED <<got, outVars, closing, wsEnd>>

ParseStep ==
  /\ wsPc = "received" /\ wsEnd = ""
  /\ \E step \in {ParseNext(frames, parser, payload, data)} :
       \/ More(step)
       \/ PingOrPong(step)
       \/ Invalid(step)
       \/ PeerCloses(step)
       \/ Message(step)
       \/ Astray(step)

(* The DATA handler: th_ws_send of the message, whose result it ignores or *)
(* returns; then the payload is cleared.                                   *)
Echo ==
  /\ wsPc = "data"
  /\ payload' = <<>>
  /\ \/ Queued(Last(got)) /\ UNCHANGED wsEnd
     \/ NotQueued(Last(got)) /\ wsEnd' \in {"", "handler"}
  /\ wsPc' = Onward(data)
  /\ UNCHANGED <<frames, cut, data, parser, got, closing>>

-----------------------------------------------------------------------------
(* The socket is writable: th_sendvec_op_fn takes another attempt.         *)
SendReady(n) ==
  /\ wsPc \in {"idle", "away"} /\ wsEnd = ""
  /\ sending /\ ~opDone
  /\ UNCHANGED ring
  /\ Attempt(sendOp, n)
  /\ UNCHANGED <<inVars, sending, accepted, closing, wsEnd>>

(* th_ws_handle_send                                                       *)
HandleSend ==
  /\ wsPc \in {"idle", "away"} /\ wsEnd = ""
  /\ opDone
  /\ ring' = R!Consume(ring, sendOp.pos)
  /\ Drain
  /\ wsEnd' = IF closing /\ ~sending' THEN "drained" ELSE ""
  /\ UNCHANGED <<inVars, accepted, closing>>

(* th_ws_frame_parser_append_payload finds no memory for what it is to     *)
(* keep, and the ws goes: nobody looks at its parser or payload again.     *)
CannotKeep ==
  /\ AllocFails
  /\ wsPc = "received" /\ data # <<>>
  /\ parser.state = "payload" /\ parser.read < parser.len /\ ~IsControl(parser.opcode)

(* An error, a timeout, the end of the client's stream, or no memory.      *)
Fails ==
  /\ wsPc = "idle" \/ (wsPc = "away" /\ sending) \/ CannotKeep
  /\ wsEnd = ""
  /\ wsEnd' = "error"
  /\ UNCHANGED <<inVars, outVars, closing>>

Consume == ParseStep \/ Echo

WsSend == HandleSend \/ \E n \in 1 .. T!IovBytes(sendOp.iov) : SendReady(n)

WsNext ==
  \/ \E n \in 1 .. Len(Streams[frames]) : Receive(n)
  \/ Consume
  \/ WsSend
  \/ Fails

-----------------------------------------------------------------------------
WsTypeOK ==
  /\ frames \in FrameSeqs
  /\ cut \in 0 .. Len(Streams[frames])
  /\ wsPc \in WsPlaces
  /\ Len(parser.header) <= HeaderBufLen \/ parser.lost
  /\ parser.state \in {"header", "payload"}
  /\ parser.message \in {None, Text, Binary}
  /\ {closing, sending, opDone, parser.lost} \subseteq BOOLEAN
  /\ wsEnd \in {"", "invalid", "handler", "error", "drained"}

(* The messages frames fs stand for, whatever pieces they come in, and     *)
(* whether they end in one that is invalid or in a CLOSE.                  *)
Meaning(fs) ==
  LET Next(m, k) ==
        LET f == fs[k]
            all == m.payload \o [i \in 1 .. f.len |-> <<"payload", k, i>>]
            type == IF f.op = Continuation THEN m.open ELSE f.op
        IN IF m.end # "" THEN m
           ELSE IF ~ValidHeader([message |-> m.open], f) THEN [m EXCEPT !.end = "invalid"]
           ELSE IF ~IsControl(f.op) /\ Len(m.payload) + f.len > MaxMessageLen
                THEN [m EXCEPT !.end = "invalid"]
           ELSE IF f.sent < f.len THEN [m EXCEPT !.end = "cut"]
           ELSE IF IsControl(f.op) THEN [m EXCEPT !.end = IF f.op = Close THEN "close" ELSE ""]
           ELSE IF ~f.fin THEN [m EXCEPT !.open = type, !.payload = all]
           ELSE [m EXCEPT !.open = None, !.payload = <<>>,
                          !.messages = Append(@, [type |-> type, payload |-> all])]
  IN FoldLeft(Next, [open |-> None, payload |-> <<>>, messages |-> <<>>, end |-> ""],
              [k \in DOMAIN fs |-> k])

Meanings == [fs \in FrameSeqs |-> Meaning(fs)]

AllReceived == cut = Len(Streams[frames]) /\ wsPc = "idle"

(***************************************************************************)
(* The handler is given exactly the messages the client sent, unmasked,    *)
(* put together, each once and in order, however the bytes were cut into   *)
(* receives; an invalid frame, and nothing else, ends the ws.  This leaves *)
(* out a header that came in pieces, the last with more behind it          *)
(* (parser.lost, see WholeMessages), and a length that wraps the 64 bits   *)
(* of the limit.                                                           *)
(***************************************************************************)
GivenWhatWasSent ==
  /\ IsPrefix(got, Meanings[frames].messages)
  /\ wsEnd = "invalid" => Meanings[frames].end = "invalid"
  /\ AllReceived /\ wsEnd = "" =>
       got = Meanings[frames].messages /\ Meanings[frames].end \in {"", "cut"}

Wraps == \E k \in DOMAIN frames : frames[k].len + MaxMessageLen >= Len64

MessagesExact ==
  ~parser.lost /\ ~Wraps => GivenWhatWasSent /\ Len(payload) <= MaxMessageLen

(***************************************************************************)
(* What a client reads from the wire: the complete frames in it, by the    *)
(* lengths their headers tell.                                             *)
(***************************************************************************)
Number(digits) ==
  LET value[j \in 0 .. Len(digits)] == IF j = 0 THEN 0 ELSE value[j - 1] * Radix + digits[j][2]
  IN value[Len(digits)]

(* The digits of the length, the payload and the end of a frame at p.      *)
ExtAt(bytes, p) == IF p < Len(bytes) /\ bytes[p + 1][1] = "marker" THEN bytes[p + 1][2] ELSE 0

PayloadAt(bytes, p) == p + 2 + ExtAt(bytes, p)

NextAt(bytes, p) ==
  PayloadAt(bytes, p)
  + IF ExtAt(bytes, p) = 0 THEN bytes[p + 1][2]
    ELSE Number(SubSeq(bytes, p + 2, PayloadAt(bytes, p) - 1))

IsWhole(bytes, p) ==
  /\ p < Len(bytes) /\ PayloadAt(bytes, p) <= Len(bytes) + 1
  /\ NextAt(bytes, p) <= Len(bytes) + 1

PastFrame(bytes, p) == IF IsWhole(bytes, p) THEN NextAt(bytes, p) ELSE p

FrameAt(bytes, p) ==
  [type |-> bytes[p][1], payload |-> SubSeq(bytes, PayloadAt(bytes, p), NextAt(bytes, p) - 1)]

Read(bytes) ==
  LET begin[k \in 0 .. Len(bytes)] == IF k = 0 THEN 1 ELSE PastFrame(bytes, begin[k - 1])
      whole == {k \in 1 .. Len(bytes) : IsWhole(bytes, begin[k - 1])}
  IN [k \in whole |-> FrameAt(bytes, begin[k - 1])]

(* What the client reads is what was queued, frame by frame, in order, and *)
(* all of it once the ring is empty: chunks that wrap, grow, drain and go  *)
(* away lose and repeat nothing, and no send reads a cell that was freed   *)
(* or written again.                                                       *)
WireIsAccepted ==
  /\ IsPrefix(Read(wire), accepted)
  /\ ~sending => Read(wire) = accepted

(* The send path is the queue of frames that th_ws.c relies on; the number *)
(* of bytes on it, ring.len, says which frames have been sent.             *)
Ends ==
  LET end[k \in 0 .. Len(accepted)] ==
        IF k = 0 THEN 0 ELSE end[k - 1] + Len(Encoded(accepted[k]))
  IN [k \in 0 .. Len(accepted) |-> end[k]]

(* How many of the frames end in the last n bytes.                         *)
Unended(n) ==
  Cardinality({k \in 1 .. Len(accepted) : Ends[Len(accepted)] - Ends[k] < n})

Q == INSTANCE ThFrameQueue WITH
  Frames <- [type : {Text, Binary, Close}, payload : Seq({"payload", "garbled"} \X Nat \X Nat)],
  ring <- SubSeq(accepted, Len(accepted) - Unended(ring.len) + 1, Len(accepted)),
  inFlight <- IF sending THEN Unended(ring.len) - Unended(ring.len - sendOp.header) ELSE 0

FrameQueueSpec == Q!Spec

-----------------------------------------------------------------------------
(* What the source says and the code does not do.                          *)

(* th_ws_frame_parser.h: "keep the remainder and retry once more bytes     *)
(* arrive": a header may be split across receives anywhere.                *)
WholeMessages == ~Wraps => GivenWhatWasSent
=============================================================================
