----------------------------- MODULE ThFrameParser -----------------------------
(***************************************************************************)
(* WebSocket frames as bytes: what a client sends, th_ws_frame_parser.c,   *)
(* which takes them from receives of any size, and th_ws_frame.c, which    *)
(* writes the headers of the frames of this side.  A byte of a header says *)
(* what it is part of; a byte of a payload which byte of which frame it is *)
(* and by which byte of the key it is masked.                              *)
(***************************************************************************)
EXTENDS Integers, Sequences, SequencesExt, FiniteSetsExt

CONSTANTS
  MaxMessageLen,  \* TH_CONFIG_WS_MAX_MESSAGE_LEN
  Len7Max,        \* the longest payload the second byte can tell, 125
  Len16Max,       \* the longest two bytes can tell, 65535
  Len64           \* what the numbers of eight bytes and size_t are modulo

Continuation == "continuation"
Text == "text"
Binary == "binary"
Close == "close"
Ping == "ping"
Pong == "pong"
None == "none"

Opcodes == {Continuation, Text, Binary, Close, Ping, Pong}

(* th_ws_opcode_is_control                                                 *)
IsControl(op) == op \in {Close, Ping, Pong}

(* A frame on its way to the server: its fields, the bytes of its payload  *)
(* that are sent (fewer than it says when the client stops).               *)
Frame ==
  [op : Opcodes, fin : BOOLEAN, rsv : BOOLEAN, masked : BOOLEAN, ext : {"none", "16", "64"},
   len : Nat, sent : Nat]

ExtLen(f) == CASE f.ext = "none" -> 0 [] f.ext = "16" -> 2 [] f.ext = "64" -> 8

MaskLen == 4

HeaderLen(f) == 2 + ExtLen(f) + MaskLen

HeaderBytes(k, f) == [i \in 1 .. HeaderLen(f) |-> [part |-> "header", frame |-> k, at |-> i]]

PayloadBytes(k, f) ==
  [i \in 1 .. f.sent |-> [part |-> "payload", frame |-> k, at |-> i, key |-> (i - 1) % MaskLen]]

(* The client's frames as the bytes it sends.                              *)
Stream(frames) ==
  FlattenSeq([k \in DOMAIN frames |-> HeaderBytes(k, frames[k]) \o PayloadBytes(k, frames[k])])

-----------------------------------------------------------------------------
HeaderBufLen == 14

(* A parser; lost is a history: bytes behind a header went into its buffer.*)
NewParser ==
  [lost |-> FALSE, state |-> "header", header |-> <<>>, opcode |-> Continuation, fin |-> FALSE,
   len |-> 0, read |-> 0, message |-> None]

(* th_ws_frame_parser_fill_header: how many of len bytes are taken to have *)
(* needed.  A header that is longer already makes the unsigned difference  *)
(* larger than any len.                                                    *)
FillLen(parser, len, needed) ==
  Min({len, (needed - Len(parser.header)) % Len64})

(* th_ws_frame_parser_validate_base_header                                 *)
ValidHeader(parser, f) ==
  /\ ~f.rsv
  /\ f.masked
  /\ f.op \in Opcodes
  /\ IsControl(f.op) => f.fin /\ f.ext = "none"
  /\ f.op = Continuation => parser.message # None
  /\ f.op \in {Text, Binary} => parser.message = None

(* th_ws_frame_parser_finish_header: the limit, in 64 bits.                *)
TooLong(payload, f) ==
  ~IsControl(f.op) /\ (Len(payload) + f.len) % Len64 > MaxMessageLen

(* What a step of the parser comes to: the bytes it took, and "more" to go *)
(* on, the type of a complete message, or an end.                          *)
Result(parser, payload, parsed, outcome) ==
  [parser |-> parser, payload |-> payload, parsed |-> parsed, outcome |-> outcome]

(***************************************************************************)
(* th_ws_frame_parser_do_header.  What overruns the header's buffer is     *)
(* undefined behaviour ("overrun"), and a header that is looked for where  *)
(* none begins, behind bytes that were lost, may be anything ("lost").     *)
(***************************************************************************)
DoHeader(frames, parser, payload, data) ==
  LET base == FillLen(parser, Len(data), 2)
      p1 == [parser EXCEPT !.header = @ \o SubSeq(data, 1, base)]
      f == frames[p1.header[1].frame]
      n == base + FillLen(p1, Len(data) - base, HeaderLen(f))
      p2 == [parser EXCEPT !.header = @ \o SubSeq(data, 1, n)]
  IN IF Len(p1.header) > HeaderBufLen THEN Result([p1 EXCEPT !.lost = TRUE], payload, base, "overrun")
     ELSE IF Len(p1.header) < 2 THEN Result(p1, payload, base, "more")
     ELSE IF p1.header[1].part # "header" \/ p1.header[1].at # 1
          THEN Result(p1, payload, base, "lost")
     ELSE IF ~ValidHeader(parser, f) THEN Result(p1, payload, base, "invalid")
     ELSE IF Len(p2.header) < HeaderLen(f) THEN Result(p2, payload, n, "more")
     ELSE IF TooLong(payload, f) THEN Result(p2, payload, n, "invalid")
     ELSE Result([p2 EXCEPT !.lost = @ \/ Len(p2.header) > HeaderLen(f), !.state = "payload",
                            !.opcode = f.op, !.fin = f.fin, !.len = f.len, !.read = 0],
                 payload, n, "more")

(* Mutant: the key starts anew with each receive.                          *)
UnmaskAnew(byte, read) ==
  IF byte.part = "payload" /\ byte.key = 0 THEN <<"payload", byte.frame, byte.at>>
  ELSE <<"garbled", 0, 0>>

(* The unmasking of byte number read of a payload.                         *)
Unmask(byte, read) ==
  IF byte.part = "payload" /\ byte.key = read % MaskLen THEN <<"payload", byte.frame, byte.at>>
  ELSE <<"garbled", 0, 0>>

(* Mutant: a control frame in between is taken for a message begun.        *)
FrameDoneOfAny(parser) ==
  LET message == IF parser.opcode = Continuation THEN parser.message ELSE parser.opcode
  IN [parser EXCEPT !.state = "header", !.header = <<>>,
                    !.message = IF parser.fin /\ ~IsControl(parser.opcode) THEN None ELSE message]

(* th_ws_frame_parser_frame_done                                           *)
FrameDone(parser) ==
  LET message == IF IsControl(parser.opcode) \/ parser.opcode = Continuation
                 THEN parser.message ELSE parser.opcode
  IN [parser EXCEPT !.state = "header", !.header = <<>>,
                    !.message = IF parser.fin /\ ~IsControl(parser.opcode) THEN None ELSE message]

(* The message the frame completes: its type, if it completes one.         *)
Completed(parser) ==
  IF IsControl(parser.opcode) THEN parser.opcode
  ELSE IF ~parser.fin THEN None
  ELSE IF parser.opcode = Continuation THEN parser.message ELSE parser.opcode

(* th_ws_frame_parser_do_payload, with memory for the payload; that of a   *)
(* control frame is dropped.                                               *)
DoPayload(parser, payload, data) ==
  LET n == Min({Len(data), parser.len - parser.read})
      bytes == [i \in 1 .. n |-> Unmask(data[i], parser.read + i - 1)]
      p == [parser EXCEPT !.read = @ + n]
      all == IF IsControl(parser.opcode) THEN payload ELSE payload \o bytes
  IN IF p.read < p.len THEN Result(p, all, n, "more")
     ELSE Result(FrameDone(p), all, n, IF Completed(p) = None THEN "more" ELSE Completed(p))

(* th_ws_frame_parser_parse_next                                           *)
ParseNext(frames, parser, payload, data) ==
  IF parser.state = "header" THEN DoHeader(frames, parser, payload, data)
  ELSE DoPayload(parser, payload, data)

-----------------------------------------------------------------------------
(* A number without its last k digits: shifted to the right by k bytes.    *)
Shifted(radix, number, k) ==
  LET shifted[j \in 0 .. k] == IF j = 0 THEN number ELSE shifted[j - 1] \div radix
  IN shifted[k]

(* The digits of a number, the most significant first.                     *)
NumberDigits(radix, n, number) ==
  [i \in 1 .. n |-> <<"digit", Shifted(radix, number, n - i) % radix, 0>>]

(* th_ws_frame_header_write: this side neither masks nor fragments.        *)
HeaderWrite(radix, type, len) ==
  CASE len <= Len7Max -> <<<<type, 0, 0>>, <<"len", len, 0>>>>
    [] len > Len7Max /\ len <= Len16Max ->
         <<<<type, 0, 0>>, <<"marker", 2, 0>>>> \o NumberDigits(radix, 2, len)
    [] len > Len16Max ->
         <<<<type, 0, 0>>, <<"marker", 8, 0>>>> \o NumberDigits(radix, 8, len)
=============================================================================
