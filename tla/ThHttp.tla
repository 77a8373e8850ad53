-------------------------------- MODULE ThHttp --------------------------------
(***************************************************************************)
(* The HTTP protocol on one connection, th_http.c: how requests are read   *)
(* into the buffer that grows with them, when they are answered or         *)
(* refused, and what becomes of the connection after each answer.          *)
(*                                                                         *)
(* A request is a head and a body of some numbers of bytes.  What the      *)
(* parser makes of the bytes of a head is its own affair; that it consumes *)
(* no more than it was given, and sees the end of the head and of the body *)
(* when they are there, is what matters here.  The application's handler,  *)
(* the client and the allocator do as they like.                           *)
(***************************************************************************)
EXTENDS Integers

CONSTANTS
  SmallLen, LargeLen, \* TH_CONFIG_SMALL_HEADER_LEN, TH_CONFIG_LARGE_HEADER_LEN
  MaxBodyLen,         \* TH_MAX_BODY_LEN
  Heads, Bodies,      \* bound: lengths of the requests clients send
  AllocFails          \* the allocator may fail

ASSUME HttpAssumption ==
  /\ SmallLen \in Nat \ {0} /\ LargeLen \in Nat /\ SmallLen <= LargeLen
  /\ MaxBodyLen \in Nat
  /\ Heads \subseteq Nat \ {0} /\ Bodies \subseteq Nat
  /\ AllocFails \in BOOLEAN

VARIABLES
  stage,    \* see ThSession
  close,    \* http->close
  upgrade,  \* the response is a 101 and its callback hands the connection over
  size,     \* size of http->buf
  read,     \* http->read_bytes
  parsed,   \* http->parsed_bytes
  inBody,   \* the parser has seen the end of the head
  recv,     \* the recv under way: bytes it asks for, exactly or at most
  head, body, \* the request the client sends: length of its two parts
  shift,    \* bytes of it that were moved out of the buffer
  bodyAt,   \* where the handler was told the body is, -1 if it did not run
  says,     \* what the response says of the connection
  largest,  \* history: the largest body the buffer was grown for
  short,    \* history: the buffer could not be grown
  early,    \* history: a request was refused before it was read
  ahead,    \* history: the client sent more than the request
  skew      \* history: reading began anywhere but at the start of a request

buffer == <<size, read, parsed, inBody, recv, shift>>
request == <<head, body>>
history == <<largest, short, early, ahead, skew>>
vars == <<stage, close, upgrade, buffer, request, bodyAt, says, history>>

Session == INSTANCE ThSession WITH last <- close

NoRecv == [len |-> 0, exact |-> FALSE]

Received == read + shift

Init ==
  /\ stage = "unborn"
  /\ close = FALSE
  /\ upgrade = FALSE
  /\ size = 0 /\ read = 0 /\ parsed = 0 /\ shift = 0
  /\ inBody = FALSE
  /\ recv = NoRecv
  /\ head \in Heads /\ body \in Bodies
  /\ bodyAt = 0 - 1
  /\ says = "nothing"
  /\ largest = 0
  /\ short = FALSE /\ early = FALSE /\ ahead = FALSE /\ skew = FALSE

-----------------------------------------------------------------------------
(* th_buf_vec_resize, whose result nobody looks at; nothing here shrinks.  *)
Resize(n) ==
  \/ size' = n /\ UNCHANGED short
  \/ AllocFails /\ n > size /\ short' = TRUE /\ UNCHANGED size

(* th_http_destroy                                                         *)
Destroy ==
  /\ stage' = "ended"
  /\ close' = TRUE
  /\ recv' = NoRecv
  /\ UNCHANGED <<upgrade, says>>

(* th_http_write_response_cb: the response is sent, or it cannot be        *)
(* prepared and its callback destroys the connection at once.              *)
Write(isUpgrade, isLast, text) ==
  \/ /\ stage' = "writing"
     /\ close' = isLast
     /\ recv' = NoRecv
     /\ upgrade' = isUpgrade
     /\ says' = text
  \/ AllocFails /\ Destroy

(* th_http_write_error_response, and th_http_handle_error for a 4xx code.  *)
Refuse == Write(FALSE, close, IF close THEN "close" ELSE "nothing")

(* th_http_handle_error for a 5xx code.                                    *)
FailServer == Write(FALSE, TRUE, "close")

(* Mutant: the response promises to close and http->close is not set.      *)
HandleKeepOpen ==
  \/ FailServer
  \/ Refuse
  \/ Write(TRUE, close, "upgrade")
  \/ Write(FALSE, close, "close")
  \/ Write(FALSE, close, "keep-alive")

(***************************************************************************)
(* th_http_handle_request_and_write_response, by the code the router or    *)
(* the handler returned and what the request asks for.                     *)
(***************************************************************************)
Handle ==
  \/ FailServer                       \* 5xx; a 101 that cannot be prepared
  \/ Refuse                           \* 4xx; 1xx to HTTP/1.0; 101 to no handshake
  \/ Write(TRUE, close, "upgrade")    \* 101 to a handshake
  \/ Write(FALSE, TRUE, "close")      \* any other code, the request says close
  \/ Write(FALSE, close, "keep-alive")

-----------------------------------------------------------------------------
(* th_http_upgrader_upgrade: there is no memory, there are too many        *)
(* connections, or th_http_start.                                          *)
Start ==
  /\ stage = "unborn"
  /\ \/ AllocFails /\ Destroy /\ UNCHANGED <<size, short>>
     \/ FailServer /\ UNCHANGED <<size, short>>
     \/ /\ Resize(SmallLen)
        /\ stage' = "reading"
        /\ recv' = [len |-> size', exact |-> FALSE]
        /\ UNCHANGED <<close, upgrade, says>>
  /\ UNCHANGED <<read, parsed, inBody, shift, request, bodyAt, largest, early, ahead, skew>>

(* th_http_handle_read_request with an error: the end of the stream, a     *)
(* timeout, a cancellation.                                                *)
ReadFails ==
  /\ stage = "reading"
  /\ Destroy
  /\ UNCHANGED <<size, read, parsed, inBody, shift, request, bodyAt, history>>

(* What was asked for arrives: all of it, or as much as there is.          *)
Arrive(n) ==
  /\ stage = "reading"
  /\ n \in 1 .. recv.len
  /\ recv.exact => n = recv.len
  /\ ahead' = (ahead \/ Received + n > head + body)

HeadComplete(n) == inBody \/ Received + n >= head

(* Mutants: the last byte of the body is not waited for; what follows the  *)
(* body hides its end.                                                     *)
CompleteEarly(n) == HeadComplete(n) /\ Received + n >= head + body - 1

CompleteExactly(n) == HeadComplete(n) /\ Received + n = head + body

Complete(n) == HeadComplete(n) /\ Received + n >= head + body

(* The parser finds the head malformed, its method unknown or a number out *)
(* of range, or the whole body not what its encoding says.                 *)
ReadBad(n) ==
  /\ Arrive(n)
  /\ inBody => Complete(n)
  /\ Refuse
  /\ read' = read + n
  /\ early' = TRUE
  /\ UNCHANGED <<size, parsed, inBody, shift, request, bodyAt, largest, short, skew>>

(* Where the body is for the parser: right behind the head, or where       *)
(* parsed_bytes says.                                                      *)
Content == IF inBody THEN parsed ELSE head

ReadAll(n) ==
  /\ Arrive(n)
  /\ Complete(n)
  /\ Handle
  /\ bodyAt' = Content
  /\ read' = read + n
  /\ UNCHANGED <<size, parsed, inBody, shift, request, largest, short, early, skew>>

(* Mutant: the buffer grows with the head.                                 *)
ReadHeadUnbounded(n) ==
  /\ Arrive(n)
  /\ ~HeadComplete(n)
  /\ read' = read + n
  /\ parsed' \in parsed .. read'
  /\ IF read' = size THEN Resize(2 * size) ELSE UNCHANGED <<size, short>>
  /\ recv' = [len |-> size' - read', exact |-> FALSE]
  /\ UNCHANGED <<stage, close, upgrade, says, early>>
  /\ UNCHANGED <<inBody, shift, request, bodyAt, largest, skew>>

(* The end of the head has not come: if the buffer is full it is enlarged  *)
(* once, then the request is refused.                                      *)
ReadHead(n) ==
  /\ Arrive(n)
  /\ ~HeadComplete(n)
  /\ read' = read + n
  /\ parsed' \in parsed .. read'
  /\ IF read' = size /\ size >= LargeLen
     THEN Refuse /\ early' = TRUE /\ UNCHANGED <<size, short>>
     ELSE /\ IF read' = size THEN Resize(LargeLen) ELSE UNCHANGED <<size, short>>
          /\ recv' = [len |-> size' - read', exact |-> FALSE]
          /\ UNCHANGED <<stage, close, upgrade, says, early>>
  /\ UNCHANGED <<inBody, shift, request, bodyAt, largest, skew>>

(* The head is complete and announces too large a body.                    *)
ReadTooLarge(n) ==
  /\ Arrive(n)
  /\ HeadComplete(n) /\ ~Complete(n)
  /\ body > MaxBodyLen
  /\ Refuse
  /\ early' = TRUE
  /\ inBody' = TRUE
  /\ read' = read + n
  /\ parsed' = Content
  /\ UNCHANGED <<size, shift, request, bodyAt, largest, short, skew>>

(* Mutant: only a body larger than the buffer is moved.                    *)
NoRoomAlone == body > size

(* The body does not fit where it is: read_bytes + remaining > size.       *)
NoRoom == Content + body > size

(* Mutant: parsed_bytes is not reset.                                      *)
MoveStale(n) ==
  /\ read' = read + n - Content
  /\ parsed' = Content
  /\ shift' = shift + Content
  /\ IF body > size
     THEN Resize(body) /\ largest' = body
     ELSE UNCHANGED <<size, short, largest>>

(* What there is of the body is moved to the front of the buffer, which is *)
(* enlarged if that is not enough.                                         *)
Move(n) ==
  /\ read' = read + n - Content
  /\ parsed' = 0
  /\ shift' = shift + Content
  /\ IF body > size
     THEN Resize(body) /\ largest' = body
     ELSE UNCHANGED <<size, short, largest>>

(* The head is complete and the body is not: exactly the rest of it is     *)
(* asked for.                                                              *)
ReadBody(n) ==
  /\ Arrive(n)
  /\ HeadComplete(n) /\ ~Complete(n)
  /\ body <= MaxBodyLen
  /\ inBody' = TRUE
  /\ recv' = [len |-> body - (read + n - Content), exact |-> TRUE]
  /\ IF NoRoom
     THEN Move(n)
     ELSE /\ read' = read + n
          /\ parsed' = Content
          /\ UNCHANGED <<shift, size, short, largest>>
  /\ UNCHANGED <<stage, close, upgrade, request, bodyAt, says, early, skew>>

-----------------------------------------------------------------------------
(* th_http_restart: the next request is read from whatever the client sent *)
(* behind the bytes received so far, n in all for this one.                *)
Restart(n) ==
  /\ stage' = "reading"
  /\ recv' = [len |-> size, exact |-> FALSE]
  /\ read' = 0 /\ parsed' = 0 /\ shift' = 0
  /\ inBody' = FALSE
  /\ bodyAt' = 0 - 1
  /\ says' = "nothing"
  /\ head' \in Heads /\ body' \in Bodies
  /\ skew' = (skew \/ n # head + body)
  /\ UNCHANGED <<close, upgrade, size, largest, short, early, ahead>>

(* th_http_handle_write_response or th_http_handle_ws_upgrade_written with *)
(* an error.                                                               *)
WriteFails ==
  /\ stage = "writing"
  /\ Destroy
  /\ UNCHANGED <<size, read, parsed, inBody, shift, request, bodyAt, history>>

(* Mutant: http->close is not looked at.                                   *)
WrittenAnyway ==
  /\ stage = "writing"
  /\ ~upgrade
  /\ Restart(Received)

(* th_http_handle_write_response: th_http_complete.                        *)
Written ==
  /\ stage = "writing"
  /\ ~upgrade
  /\ IF close
     THEN /\ Destroy
          /\ UNCHANGED <<size, read, parsed, inBody, shift, request, bodyAt, history>>
     ELSE Restart(Received)

(* th_http_handle_ws_upgrade_written: the connection goes to a new th_ws,  *)
(* or is destroyed when there is no memory for one.                        *)
UpgradeWritten ==
  /\ stage = "writing"
  /\ upgrade
  /\ \/ stage' = "upgraded" /\ UNCHANGED <<close, upgrade, says, recv>>
     \/ AllocFails /\ Destroy
  /\ UNCHANGED <<size, read, parsed, inBody, shift, request, bodyAt, history>>

Next ==
  \/ Start
  \/ ReadFails
  \/ \E n \in 1 .. recv.len :
       \/ ReadBad(n)
       \/ ReadAll(n)
       \/ ReadHead(n)
       \/ ReadTooLarge(n)
       \/ ReadBody(n)
  \/ WriteFails
  \/ Written
  \/ UpgradeWritten

Spec == Init /\ [][Next]_vars

-----------------------------------------------------------------------------
TypeOK ==
  /\ stage \in {"unborn", "reading", "writing", "upgraded", "ended"}
  /\ close \in BOOLEAN /\ upgrade \in BOOLEAN /\ inBody \in BOOLEAN
  /\ size \in Nat /\ read \in Nat /\ parsed \in 0 .. read /\ shift \in Nat
  /\ recv \in [len : Nat, exact : BOOLEAN]
  /\ head \in Heads /\ body \in Bodies
  /\ bodyAt \in Nat \cup {0 - 1}
  /\ says \in {"nothing", "close", "keep-alive", "upgrade"}
  /\ largest \in Nat
  /\ short \in BOOLEAN /\ early \in BOOLEAN /\ ahead \in BOOLEAN /\ skew \in BOOLEAN

(* What is asked of the socket has room in the buffer, and is something:   *)
(* recv is called with read_bytes as the place and a length computed from  *)
(* the size, the position of the body and its announced length, after it   *)
(* may have been moved.  (As long as the buffer could be grown: the result *)
(* of th_buf_vec_resize is not looked at.)                                 *)
RecvInBuffer ==
  stage = "reading" /\ ~short => recv.len > 0 /\ read + recv.len <= size

(* The body the handler sees is the request's: it starts at the first byte *)
(* behind the head, wherever moving the body left that, and has arrived.   *)
BodyIsRequests ==
  bodyAt >= 0 => bodyAt + shift = head /\ bodyAt + body <= read

(* A request with a head above the limit is refused and never handled,     *)
(* unless an earlier request's body made the buffer of the connection      *)
(* larger: it never shrinks, and it is what the limit is checked against.  *)
HeadBounded ==
  bodyAt >= 0 /\ head > LargeLen => largest > LargeLen

(* Each request is read from its first byte on: where one ends the next is *)
(* looked for, unless a request was refused before all of it was read, or  *)
(* the client did not wait for the answer (what it sent ahead is dropped). *)
InSync == skew => early \/ ahead

(* A client that was told "Connection: close" is never read from again.    *)
SaysWhatItDoes ==
  [][stage = "writing" /\ says = "close" => stage' # "reading"]_vars

(* It does with the connection what a listener may expect of it.           *)
SessionSpec == Session!Spec
=============================================================================
