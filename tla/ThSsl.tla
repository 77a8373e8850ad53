-------------------------------- MODULE ThSsl --------------------------------
(***************************************************************************)
(* A TLS connection as HTTP uses it: one operation at a time, which        *)
(* alternates steps of the TLS engine and transfers of ciphertext between  *)
(* two memory BIOs and the socket (th_ssl_io.c, th_ssl_session.c,          *)
(* th_ssl_smem_bio.c), below transfers of plaintext (th_ssl_recv.c,        *)
(* th_ssl_send.c, th_ssl_conn.c).  Bytes are counted, not named.  The      *)
(* engine is OpenSSL: it takes from one BIO, emits into the other, and     *)
(* what a call returns is a choice.                                        *)
(***************************************************************************)
EXTENDS Integers

CONSTANTS
  MaxRead,    \* TH_CONFIG_MAX_SSL_READ_BUF_LEN
  MaxWrite,   \* TH_CONFIG_MAX_SSL_WRITE_BUF_LEN
  Chunk,      \* TH_SSL_SEND_CHUNK_LEN
  AllocFails, \* the allocator may fail
  MaxRecord,  \* bound: ciphertext the engine emits in a call
  MaxLen      \* bound: plaintext of a recv or a send

ASSUME SslAssumption ==
  /\ {MaxRead, MaxWrite, Chunk, MaxRecord, MaxLen} \subseteq Nat \ {0}
  /\ AllocFails \in BOOLEAN
  /\ MaxRecord <= MaxWrite

VARIABLES
  op,      \* the th_ssl_io_op: kind, at (where it is), result, writing
           \* (shuttling_write), draining, and ok: err is TH_ERR_OK
  len,     \* its len: plaintext a read may take, or a write is given
  left,    \* plaintext of the send that was not yet copied into a chunk
  exact,   \* the recv is to be complete
  rbio,    \* read_pos, write_pos and the size of the buffer
  wbio,
  ssl,     \* the engine: held (emitted, no room in wbio), inside (it has a
           \* part of a record), established, failed
  owed,    \* history: plaintext the engine moved that no callback reported
  behind,  \* history: the socket took less than it was offered, and wbio was
           \* not empty since
  starved  \* history: 0 bytes were asked for, or a write was refused

conn == <<len, left, exact>>
vars == <<op, len, left, exact, rbio, wbio, ssl, owed, behind, starved>>

Least(a, b) == IF a < b THEN a ELSE b

-----------------------------------------------------------------------------
(* The BIOs                                                                *)

NewBio == [read |-> 0, write |-> 0, size |-> 0]

Pending(b) == b.write - b.read
Room(b) == b.size - b.write

(* Mutant: the positions of an empty buffer stay where they are.           *)
TakenNoReset(b, n) == [b EXCEPT !.read = @ + n]

(* th_smem_bio_inc_read_pos                                                *)
Taken(b, n) ==
  IF b.read + n = b.write THEN [b EXCEPT !.read = 0, !.write = 0]
  ELSE [b EXCEPT !.read = @ + n]

(* th_smem_bio_inc_write_pos                                               *)
Fed(b, n) == [b EXCEPT !.write = @ + n]

(* th_smem_ensure_buf_size: the buffer grows, to no more than max.         *)
Ensured(b, size, max) ==
  IF b.size >= Least(size, max) THEN {b}
  ELSE {[b EXCEPT !.size = Least(size, max)]} \union (IF AllocFails THEN {b} ELSE {})

-----------------------------------------------------------------------------
(* The operation                                                           *)

Started(kind) ==
  [kind |-> kind, at |-> "step", result |-> 0, writing |-> FALSE,
   draining |-> FALSE, ok |-> TRUE]

Init ==
  /\ op = Started("handshake")
  /\ len = 0 /\ left = 0 /\ exact = FALSE
  /\ rbio = NewBio /\ wbio = NewBio
  /\ ssl = [held |-> 0, inside |-> FALSE, established |-> FALSE, failed |-> FALSE]
  /\ owed = 0
  /\ behind = FALSE /\ starved = FALSE

Complete(result, ok) ==
  op' = [op EXCEPT !.at = "due", !.result = result, !.ok = ok]

(* After EAGAIN: submitted to the slot of its direction, or completed when *)
(* the reactor has no memory.                                              *)
Wait ==
  \/ op' = [op EXCEPT !.at = IF op.writing THEN "slotWrite" ELSE "slotRead"]
  \/ AllocFails /\ Complete(op.result, FALSE)

(***************************************************************************)
(* The engine is called: it reads c bytes of ciphertext and emits n, of    *)
(* which th_smem_write takes what there is room for.  What it emitted      *)
(* before comes first.                                                     *)
(***************************************************************************)
Engine(c, n, established, failed) ==
  LET out == ssl.held + n
  IN /\ c <= Pending(rbio)
     /\ ssl.failed => c = 0 /\ n = 0
     /\ rbio' = IF c = 0 THEN rbio ELSE Taken(rbio, c)
     /\ \E b \in IF out = 0 THEN {wbio} ELSE Ensured(wbio, wbio.write + out, MaxWrite) :
          /\ wbio' = Fed(b, Least(out, Room(b)))
          /\ ssl' \in [held : {out - Least(out, Room(b))},
                       inside : IF ssl.inside \/ c > 0 THEN BOOLEAN ELSE {FALSE},
                       established : {established}, failed : {failed}]

(* Mutant: the engine's error decides, and not what waits in the BIO.      *)
ClassifyByError ==
  IF ssl'.failed THEN Complete(op.result, FALSE)
  ELSE op' = [op EXCEPT !.at = "shuttle", !.writing = (ssl'.held > 0)]

(* th_ssl_session_classify                                                 *)
Classify ==
  IF Pending(wbio') > 0 \/ ssl'.held > 0
  THEN op' = [op EXCEPT !.at = "shuttle", !.writing = TRUE]
  ELSE IF ssl'.failed THEN Complete(op.result, FALSE)
  ELSE op' = [op EXCEPT !.at = "shuttle", !.writing = FALSE]

(* A call of the engine that returns nothing: it has read all there is and *)
(* wants more, wants room, or failed (a closed stream included).           *)
NotYet(c, n) ==
  /\ n > 0 => c > 0
  /\ \/ /\ ~ssl.failed
        /\ Engine(c, n, ssl.established, FALSE)
        /\ Pending(rbio') = 0 \/ ssl'.held > 0
     \/ Engine(c, n, ssl.established, TRUE)
  /\ Classify
  /\ UNCHANGED <<conn, owed, behind, starved>>

(* th_ssl_session_handshake                                                *)
Handshake(c, n) ==
  /\ op.at = "step" /\ op.kind = "handshake"
  /\ \/ ~ssl.established /\ NotYet(c, n)
     \/ /\ ~ssl.failed
        /\ IF ssl.established THEN c = 0 /\ n = 0 ELSE c > 0
        /\ Engine(c, n, TRUE, FALSE)
        /\ ssl'.held = 0
        /\ IF Pending(wbio') > 0
           THEN op' = [op EXCEPT !.at = "shuttle", !.writing = TRUE]
           ELSE Complete(0, TRUE)
        /\ UNCHANGED <<conn, owed, behind, starved>>

(* Plaintext progress with ciphertext to send: only the shuttle remains.   *)
Progress(p) ==
  op' = [op EXCEPT !.at = "shuttle", !.result = p, !.writing = TRUE, !.draining = TRUE]

(* th_ssl_session_read, which moved p bytes or none.                       *)
Read(c, n, p) ==
  /\ op.at = "step" /\ op.kind = "read"
  /\ \/ NotYet(c, n)
     \/ /\ ~ssl.failed
        /\ ssl.inside \/ c > 0
        /\ n > 0 => c > 0
        /\ Engine(c, n, TRUE, FALSE)
        /\ ssl'.held = 0
        /\ owed' = owed + p
        /\ IF Pending(wbio') > 0 THEN Progress(p) ELSE Complete(p, TRUE)
        /\ UNCHANGED <<conn, behind, starved>>

(***************************************************************************)
(* th_ssl_session_write, which moves p bytes of the chunk (all of it or,   *)
(* with partial writes, a record's worth), always with ciphertext to send; *)
(* without room in the BIO it is an error.  (It would want to read only    *)
(* during a handshake, which a read completes first.)                      *)
(***************************************************************************)
Write(n, p) ==
  /\ op.at = "step" /\ op.kind = "write"
  /\ UNCHANGED <<conn, behind>>
  /\ \/ /\ ~ssl.failed /\ n > 0
        /\ Engine(0, n, TRUE, FALSE)
        /\ IF ssl'.held = 0
           THEN /\ owed' = owed + p
                /\ Progress(p)
                /\ UNCHANGED starved
           ELSE /\ Complete(0, FALSE)
                /\ starved' = (starved \/ (~behind /\ wbio'.size = MaxWrite))
                /\ UNCHANGED owed
     \/ /\ n = 0
        /\ Engine(0, 0, TRUE, TRUE)
        /\ Complete(0, FALSE)
        /\ UNCHANGED <<owed, starved>>

(* Mutant: plaintext progress is not remembered, the step is repeated.     *)
MovedStepAgain == op' = [op EXCEPT !.at = "step"]

(* A raw transfer was made: an operation with progress is done, even if    *)
(* ciphertext is left; another takes the next step.                        *)
Moved ==
  IF op.draining THEN Complete(op.result, TRUE) ELSE op' = [op EXCEPT !.at = "step"]

(* th_ssl_io_op_shuttle to the socket, which takes n of what is pending.   *)
ShuttleOut(n) ==
  /\ op.at = "shuttle" /\ op.writing
  /\ IF Pending(wbio) = 0
     THEN UNCHANGED <<wbio, behind>>
     ELSE /\ n <= Pending(wbio)
          /\ wbio' = Taken(wbio, n)
          /\ behind' = (n < Pending(wbio))
  /\ Moved
  /\ UNCHANGED <<conn, rbio, ssl, owed, starved>>

(* The same from the socket, which gives n bytes of what there is room     *)
(* for; asked for none, it says that the stream has ended.                 *)
ShuttleIn(n) ==
  /\ op.at = "shuttle" /\ ~op.writing
  /\ rbio' \in {IF Room(b) = 0 THEN b ELSE Fed(b, n) :
                  b \in {x \in Ensured(rbio, MaxRead, MaxRead) : Room(x) > 0 => n <= Room(x)}}
  /\ IF Pending(rbio') > Pending(rbio) THEN Moved ELSE Complete(op.result, FALSE)
  /\ starved' = (starved \/ (Pending(rbio') = Pending(rbio) /\ rbio'.size = MaxRead))
  /\ UNCHANGED <<conn, wbio, ssl, owed, behind>>

(* The raw call would block, or fails (a recv at the end of the stream).   *)
ShuttleBlocks ==
  /\ op.at = "shuttle"
  /\ op.writing => Pending(wbio) > 0
  /\ rbio' \in IF op.writing THEN {rbio} ELSE Ensured(rbio, MaxRead, MaxRead)
  /\ Wait \/ Complete(op.result, FALSE)
  /\ UNCHANGED <<conn, wbio, ssl, owed, behind, starved>>

(* The socket is ready, and fn runs again.                                 *)
Ready ==
  /\ op.at \in {"slotRead", "slotWrite"}
  /\ op' = [op EXCEPT !.at = IF op.draining THEN "shuttle" ELSE "step"]
  /\ UNCHANGED <<conn, rbio, wbio, ssl, owed, behind, starved>>

(* A timeout, an error of the socket or a cancellation: th_ssl_io_op_abort *)
Abort ==
  /\ op.at \in {"slotRead", "slotWrite"}
  /\ Complete(0, FALSE)
  /\ UNCHANGED <<conn, rbio, wbio, ssl, owed, behind, starved>>

-----------------------------------------------------------------------------
(* The connection and its user                                             *)

Recv ==
  /\ op' = Started("read")
  /\ len' \in 1 .. MaxLen /\ left' = 0 /\ exact' \in BOOLEAN

(***************************************************************************)
(* th_ssl_send_op_fill, when it finds something: the next chunk of what    *)
(* the send has left leaves the iov, or is read from the file, which may   *)
(* give less than it was asked for.                                        *)
(***************************************************************************)
Fill(rest) ==
  /\ op' = Started("write")
  /\ \E k \in 1 .. Least(Chunk, rest) : len' = k /\ left' = rest - k
  /\ UNCHANGED exact

Send == \E size \in 1 .. MaxLen : Fill(size)
Destroy == op' = [op EXCEPT !.at = "ended"] /\ UNCHANGED conn

(***************************************************************************)
(* The callback of the operation.  After an error the connection is        *)
(* destroyed.  A recv that is not complete reads the rest.  A send takes   *)
(* its next chunk, whatever the engine took of the last one: the rest of   *)
(* that chunk is gone.  It ends when no chunk can be filled, with a file   *)
(* that is shorter than announced before its time.  A user sends after a   *)
(* recv, receives after a send, or destroys the connection.                *)
(***************************************************************************)
Callback ==
  /\ op.at = "due"
  /\ owed' = owed - (IF op.ok THEN op.result ELSE owed)
  /\ UNCHANGED <<rbio, wbio, ssl, behind, starved>>
  /\ \/ Destroy
     \/ op.ok /\ op.kind = "handshake" /\ (Recv \/ Send)
     \/ /\ op.ok /\ op.kind = "read"
        /\ IF exact /\ op.result < len
           THEN op' = Started("read") /\ len' = len - op.result /\ UNCHANGED <<left, exact>>
           ELSE Recv \/ Send
     \/ op.ok /\ op.kind = "write" /\ (Fill(left) \/ Recv)

Next ==
  \/ \E c \in 0 .. MaxRead, n \in 0 .. MaxRecord : Handshake(c, n)
  \/ \E c \in 0 .. MaxRead, n \in 0 .. MaxRecord, p \in 1 .. len : Read(c, n, p)
  \/ \E n \in 0 .. MaxRecord, p \in 1 .. len : Write(n, p)
  \/ \E n \in 1 .. MaxWrite : ShuttleOut(n)
  \/ \E n \in 1 .. MaxRead : ShuttleIn(n)
  \/ ShuttleBlocks \/ Ready \/ Abort \/ Callback

(* Bytes go out, whatever is tried and blocks in between.                  *)
Takes == \E n \in 1 .. MaxWrite : ShuttleOut(n)

Fairness ==
  /\ WF_vars(Next)
  /\ SF_vars(Takes)

Spec == Init /\ [][Next]_vars
FairSpec == Spec /\ Fairness

-----------------------------------------------------------------------------
BioOK(b, max) ==
  /\ b \in [read : 0 .. max, write : 0 .. max, size : 0 .. max]
  /\ b.read <= b.write /\ b.write <= b.size
  /\ b.read = b.write => b.write = 0

TypeOK ==
  /\ op \in [kind : {"handshake", "read", "write"},
             at : {"step", "shuttle", "slotRead", "slotWrite", "due", "ended"},
             result : 0 .. MaxLen, writing : BOOLEAN, draining : BOOLEAN, ok : BOOLEAN]
  /\ {len, left} \subseteq 0 .. MaxLen /\ exact \in BOOLEAN
  /\ BioOK(rbio, MaxRead) /\ BioOK(wbio, MaxWrite)
  /\ ssl \in [held : Nat, inside : BOOLEAN, established : BOOLEAN, failed : BOOLEAN]
  /\ owed \in 0 .. MaxLen
  /\ {behind, starved} \subseteq BOOLEAN

(* What the engine has moved is reported, once: an operation takes a step  *)
(* only while no progress is unreported, however often its transfers are   *)
(* interrupted, and its callback is told what the engine moved, which is   *)
(* something (no bytes are the end of a stream) and no more than it was    *)
(* given.  (It may be less, and that a send moves every byte it was given  *)
(* is not true of the code: Callback.)                                     *)
ReportsExact ==
  /\ op.at = "step" => owed = 0
  /\ op.at = "due" /\ op.ok =>
       owed = op.result /\ (op.kind # "handshake" => op.result \in 1 .. len)

(* What an operation that is reported done has produced is on its way:     *)
(* ciphertext stays behind in the BIO only if the socket has taken less    *)
(* than it was offered.  (Then it does: such an operation is done, too,    *)
(* and what is left is lost if the connection is destroyed.)               *)
FlushedUnlessBehind ==
  op.at = "due" /\ op.ok /\ Pending(wbio) > 0 => behind

(* An operation never waits for the peer while ciphertext the peer may be  *)
(* waiting for is still in the BIO, whichever operation produced it.       *)
WaitsFlushed == op.at = "slotRead" => Pending(wbio) = 0 /\ ssl.held = 0

(* Output goes first: before an operation is done, and before it waits.    *)
OutputGoesFirst == FlushedUnlessBehind /\ WaitsFlushed

(* The socket is always asked for at least a byte (0 would look like the   *)
(* end of the stream), and a write finds room unless the peer is behind,   *)
(* although positions in the buffers only ever go up while they are in     *)
(* use.  Memory aside.                                                     *)
RoomWhenNeeded == ~starved

(* Ciphertext does not stay: it is sent, or the connection ends (or memory *)
(* is short).                                                              *)
Flushes == Pending(wbio) > 0 ~> Pending(wbio) = 0 \/ op.at = "ended"
=============================================================================
