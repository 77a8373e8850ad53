------------------------------ MODULE ThSslProofs ------------------------------
(***************************************************************************)
(* Proofs about ThSsl: its invariants hold for all lengths of buffers,     *)
(* chunks and records.                                                     *)
(***************************************************************************)
EXTENDS ThSsl, TLAPS

Fetching == op.at \in {"shuttle", "slotRead", "slotWrite"}

(* A step begins with nothing moved, and a write with nothing in the BIO   *)
(* unless the peer is behind.                                              *)
StepBegins ==
  op.at = "step" =>
    /\ op.result = 0 /\ ~op.draining /\ op.ok
    /\ owed = 0
    /\ op.kind = "write" => ssl.held = 0 /\ (Pending(wbio) > 0 => behind)

(* Between steps what was moved is the result, a write has moved something, *)
(* and progress leaves only ciphertext to send.                            *)
ShuttleHolds ==
  Fetching =>
    /\ op.ok /\ owed = op.result
    /\ op.draining =>
         op.writing /\ ssl.held = 0 /\ op.kind # "handshake" /\ op.result \in 1 .. len
    /\ ~op.draining => op.result = 0 /\ op.kind # "write"

(* Ciphertext is fetched when both BIOs and the engine have none.          *)
FetchesLast ==
  /\ op.at \in {"shuttle", "slotRead"} /\ ~op.writing =>
       Pending(wbio) = 0 /\ ssl.held = 0 /\ Pending(rbio) = 0
  /\ op.at = "slotRead" => ~op.writing

DueHolds ==
  op.at = "due" /\ op.ok =>
    /\ owed = op.result /\ ssl.held = 0
    /\ op.kind # "handshake" => op.result \in 1 .. len

IInv ==
  /\ TypeOK
  /\ StepBegins
  /\ ShuttleHolds
  /\ FetchesLast
  /\ DueHolds
  /\ FlushedUnlessBehind
  /\ RoomWhenNeeded

-----------------------------------------------------------------------------
LEMMA Lengths ==
  /\ MaxRead \in Nat /\ MaxRead > 0
  /\ MaxWrite \in Nat /\ MaxWrite > 0
  /\ Chunk \in Nat /\ Chunk > 0
  /\ MaxRecord \in Nat /\ MaxRecord > 0 /\ MaxRecord <= MaxWrite
  /\ MaxLen \in Nat /\ MaxLen > 0
BY SslAssumption

(* The BIOs keep their positions in order.                                 *)

LEMMA LeastIs ==
  ASSUME NEW a \in Nat, NEW b \in Nat
  PROVE  /\ Least(a, b) \in Nat
         /\ Least(a, b) <= a /\ Least(a, b) <= b
         /\ Least(a, b) = a \/ Least(a, b) = b
BY DEF Least

LEMMA TakenIsOK ==
  ASSUME NEW max \in Nat, NEW b, BioOK(b, max), NEW n \in 1 .. Pending(b)
  PROVE  /\ BioOK(Taken(b, n), max)
         /\ Pending(Taken(b, n)) = Pending(b) - n
<1>1. b.read \in Nat /\ b.write \in Nat /\ b.read + n <= b.write
  BY DEF BioOK, Pending
<1>2. CASE b.read + n = b.write
  <2>1. Taken(b, n) = [read |-> 0, write |-> 0, size |-> b.size]
    BY <1>2 DEF Taken, BioOK
  <2>2. b.size \in 0 .. max
    BY DEF BioOK
  <2>3. BioOK(Taken(b, n), max)
    BY <2>1, <2>2 DEF BioOK
  <2>4. Pending(Taken(b, n)) = 0
    BY <2>1 DEF Pending
  <2> QED BY <1>1, <1>2, <2>3, <2>4 DEF Pending
<1>3. CASE b.read + n # b.write
  <2>1. Taken(b, n) = [b EXCEPT !.read = b.read + n]
    BY <1>3 DEF Taken
  <2> QED BY <1>1, <1>3, <2>1 DEF BioOK, Pending
<1> QED BY <1>2, <1>3

LEMMA EnsuredIsOK ==
  ASSUME NEW max \in Nat, NEW b, BioOK(b, max), NEW size \in Nat,
         NEW x \in Ensured(b, size, max)
  PROVE  /\ BioOK(x, max)
         /\ x.read = b.read /\ x.write = b.write
         /\ Pending(x) = Pending(b)
         /\ Room(x) \in Nat
<1>1. Least(size, max) \in Nat /\ Least(size, max) <= max
  BY LeastIs
<1>2. CASE x = b
  BY <1>2 DEF BioOK, Pending, Room
<1>3. CASE x = [b EXCEPT !.size = Least(size, max)] /\ ~(b.size >= Least(size, max))
  BY <1>1, <1>3 DEF BioOK, Pending, Room
<1> QED BY <1>2, <1>3, SslAssumption DEF Ensured

LEMMA FedIsOK ==
  ASSUME NEW max \in Nat, NEW b, BioOK(b, max), NEW n \in Nat, n <= Room(b)
  PROVE  /\ BioOK(Fed(b, n), max)
         /\ Pending(Fed(b, n)) = Pending(b) + n
         /\ Fed(b, n).size = b.size
BY DEF BioOK, Fed, Pending, Room

(* What an operation is, and what it is when it failed.                    *)
Ops == [kind : {"handshake", "read", "write"},
        at : {"step", "shuttle", "slotRead", "slotWrite", "due", "ended"},
        result : 0 .. MaxLen, writing : BOOLEAN, draining : BOOLEAN, ok : BOOLEAN]

LEMMA FailedIsOp ==
  ASSUME NEW o \in Ops
  PROVE  [o EXCEPT !.at = "due", !.result = 0, !.ok = FALSE] \in Ops
<1>1. 0 \in 0 .. MaxLen
  BY Lengths
<1> QED BY <1>1 DEF Ops

(* Any call of the engine: types, and when everything finds room.          *)
LEMMA EngineIsOK ==
  ASSUME TypeOK, NEW c \in 0 .. MaxRead, NEW n \in 0 .. MaxRecord,
         NEW e \in BOOLEAN, NEW f \in BOOLEAN, Engine(c, n, e, f)
  PROVE  /\ BioOK(rbio', MaxRead) /\ BioOK(wbio', MaxWrite)
         /\ ssl' \in [held : Nat, inside : BOOLEAN, established : BOOLEAN, failed : BOOLEAN]
         /\ ssl'.failed = f
         /\ ssl.held = 0 /\ Pending(wbio) = 0 /\ wbio'.size = MaxWrite => ssl'.held = 0
<1> DEFINE out == ssl.held + n
<1>1. out \in Nat /\ MaxRead \in Nat /\ MaxWrite \in Nat /\ MaxRecord \in Nat
  BY SslAssumption DEF TypeOK
<1>2. BioOK(rbio, MaxRead) /\ BioOK(wbio, MaxWrite)
  BY DEF TypeOK
<1>3. BioOK(rbio', MaxRead)
  <2>1. CASE c = 0
    BY <1>2, <2>1 DEF Engine
  <2>2. CASE c # 0
    <3>1. c \in 1 .. Pending(rbio) /\ rbio' = Taken(rbio, c)
      BY <1>1, <1>2, <2>2 DEF Engine, Pending, BioOK
    <3> QED BY <1>1, <1>2, <3>1, TakenIsOK
  <2> QED BY <2>1, <2>2
<1>4. PICK b \in (IF out = 0 THEN {wbio} ELSE Ensured(wbio, wbio.write + out, MaxWrite)) :
        /\ wbio' = Fed(b, Least(out, Room(b)))
        /\ ssl' \in [held : {out - Least(out, Room(b))},
                     inside : IF ssl.inside \/ c > 0 THEN BOOLEAN ELSE {FALSE},
                     established : {e}, failed : {f}]
  BY DEF Engine
<1>5. BioOK(b, MaxWrite) /\ b.write = wbio.write /\ Room(b) \in Nat
  <2>1. CASE out = 0
    <3>1. b = wbio
      BY <1>4, <2>1
    <3> QED BY <1>2, <3>1 DEF BioOK, Room
  <2>2. CASE out # 0
    <3>1. wbio.write + out \in Nat
      BY <1>1, <1>2 DEF BioOK
    <3>2. b \in Ensured(wbio, wbio.write + out, MaxWrite)
      BY <1>4, <2>2
    <3> QED BY <1>1, <1>2, <3>1, <3>2, EnsuredIsOK
  <2> QED BY <2>1, <2>2
<1>6. Least(out, Room(b)) \in Nat /\ Least(out, Room(b)) <= out /\ Least(out, Room(b)) <= Room(b)
  BY <1>1, <1>5, LeastIs
<1>7. BioOK(wbio', MaxWrite) /\ wbio'.size = b.size
  BY <1>1, <1>4, <1>5, <1>6, FedIsOK
<1>8. out - Least(out, Room(b)) \in Nat
  BY <1>1, <1>6
<1>9. ssl' \in [held : Nat, inside : BOOLEAN, established : BOOLEAN, failed : BOOLEAN]
      /\ ssl'.failed = f /\ ssl'.held = out - Least(out, Room(b))
  BY <1>4, <1>8
<1>10. ASSUME ssl.held = 0, Pending(wbio) = 0, wbio'.size = MaxWrite
       PROVE  ssl'.held = 0
  <2>1. out <= Room(b)
    BY <1>1, <1>2, <1>5, <1>7, <1>10, SslAssumption DEF BioOK, Pending, Room
  <2>2. Least(out, Room(b)) = out
    BY <1>1, <1>5, <2>1, LeastIs DEF Least
  <2> QED BY <1>1, <1>9, <2>2
<1> QED BY <1>3, <1>7, <1>9, <1>10

-----------------------------------------------------------------------------
LEMMA InitInv == Init => IInv
<1> SUFFICES ASSUME Init PROVE IInv
  OBVIOUS
<1> USE DEF Ops
<1>1. BioOK(NewBio, MaxRead) /\ BioOK(NewBio, MaxWrite)
  BY Lengths DEF BioOK, NewBio
<1>2. TypeOK
  <2>1. {behind, starved} \subseteq BOOLEAN
    BY DEF Init
  <2>2. /\ op.kind = "handshake" /\ op.at = "step" /\ op.result = 0
        /\ len = 0 /\ left = 0 /\ owed = 0
    BY DEF Init, Started
  <2>3. /\ op = [kind |-> "handshake", at |-> "step", result |-> 0, writing |-> FALSE,
                draining |-> FALSE, ok |-> TRUE]
        /\ ssl = [held |-> 0, inside |-> FALSE, established |-> FALSE, failed |-> FALSE]
        /\ exact = FALSE /\ rbio = NewBio /\ wbio = NewBio
    BY DEF Init, Started
  <2>4. op \in Ops
    BY <2>3, Lengths
  <2>5. {len, left} \subseteq 0 .. MaxLen /\ owed \in 0 .. MaxLen
    BY <2>2, Lengths
  <2>7. exact \in BOOLEAN
    BY <2>3
  <2>6. ssl \in [held : Nat, inside : BOOLEAN, established : BOOLEAN, failed : BOOLEAN]
    BY <2>3
  <2> QED BY <1>1, <2>1, <2>3, <2>4, <2>5, <2>6, <2>7 DEF TypeOK
<1>3. StepBegins /\ ShuttleHolds /\ FetchesLast /\ DueHolds
  BY DEF Init, Started, StepBegins, ShuttleHolds, FetchesLast, DueHolds, Fetching
<1>4. FlushedUnlessBehind /\ RoomWhenNeeded
  BY DEF Init, Started, FlushedUnlessBehind, RoomWhenNeeded
<1> QED BY <1>2, <1>3, <1>4 DEF IInv

(* A call of the engine that moves nothing.                                *)
LEMMA NotYetKeeps ==
  ASSUME IInv, op.at = "step", op.kind # "write",
         NEW c \in 0 .. MaxRead, NEW n \in 0 .. MaxRecord, NotYet(c, n)
  PROVE  IInv'
<1> USE Lengths DEF Ops
<1>1. TypeOK /\ StepBegins /\ RoomWhenNeeded
  BY DEF IInv
<1>2. PICK f \in BOOLEAN :
        /\ Engine(c, n, ssl.established, f)
        /\ f \/ Pending(rbio') = 0 \/ ssl'.held > 0
  BY DEF NotYet
<1>3. /\ BioOK(rbio', MaxRead) /\ BioOK(wbio', MaxWrite)
      /\ ssl' \in [held : Nat, inside : BOOLEAN, established : BOOLEAN, failed : BOOLEAN]
      /\ ssl'.failed = f
  <2>1. ssl.established \in BOOLEAN
    BY <1>1 DEF TypeOK
  <2> QED BY <1>1, <1>2, <2>1, EngineIsOK
<1>4. Pending(rbio') \in Nat /\ Pending(wbio') \in Nat /\ ssl'.held \in Nat
  BY <1>3 DEF BioOK, Pending
<1>5. UNCHANGED <<len, left, exact, owed, behind, starved>>
  BY DEF NotYet, conn
<1>6. /\ op.result = 0 /\ ~op.draining /\ op.ok /\ owed = 0
      /\ op \in Ops
  BY <1>1 DEF StepBegins, TypeOK
<1>7. CASE Pending(wbio') > 0 \/ ssl'.held > 0
  <2>1. op' = [op EXCEPT !.at = "shuttle", !.writing = TRUE]
    BY <1>7 DEF NotYet, Classify
  <2>2. TypeOK'
    BY <1>1, <1>3, <1>5, <1>6, <2>1 DEF TypeOK
  <2> QED BY <1>1, <1>5, <1>6, <2>1, <2>2
      DEF IInv, StepBegins, ShuttleHolds, FetchesLast, DueHolds, Fetching,
          FlushedUnlessBehind, RoomWhenNeeded
<1>8. CASE ~(Pending(wbio') > 0 \/ ssl'.held > 0) /\ ssl'.failed
  <2>1. op' = [op EXCEPT !.at = "due", !.result = op.result, !.ok = FALSE]
    BY <1>8 DEF NotYet, Classify, Complete
  <2>2. TypeOK'
    BY <1>1, <1>3, <1>5, <1>6, <2>1 DEF TypeOK
  <2> QED BY <1>1, <1>5, <1>6, <2>1, <2>2
      DEF IInv, StepBegins, ShuttleHolds, FetchesLast, DueHolds, Fetching,
          FlushedUnlessBehind, RoomWhenNeeded
<1>9. CASE ~(Pending(wbio') > 0 \/ ssl'.held > 0) /\ ~ssl'.failed
  <2>1. op' = [op EXCEPT !.at = "shuttle", !.writing = FALSE]
    BY <1>9 DEF NotYet, Classify
  <2>2. TypeOK'
    BY <1>1, <1>3, <1>5, <1>6, <2>1 DEF TypeOK
  <2>3. Pending(wbio') = 0 /\ ssl'.held = 0 /\ Pending(rbio') = 0
    BY <1>2, <1>3, <1>4, <1>9
  <2>4. FetchesLast'
    BY <2>1, <2>3 DEF FetchesLast, Pending
  <2> QED BY <1>1, <1>5, <1>6, <2>1, <2>2, <2>4
      DEF IInv, StepBegins, ShuttleHolds, DueHolds, Fetching,
          FlushedUnlessBehind, RoomWhenNeeded
<1> QED BY <1>7, <1>8, <1>9

(* An engine call that succeeds with all it emitted in the BIO.            *)
LEMMA ProgressKeeps ==
  ASSUME IInv, op.at = "step",
         NEW c \in 0 .. MaxRead, NEW n \in 0 .. MaxRecord, NEW p \in 0 .. len,
         Engine(c, n, TRUE, FALSE), ssl'.held = 0, owed' = owed + p,
         UNCHANGED <<len, left, exact, behind, starved>>,
         \/ /\ op' = [op EXCEPT !.at = "shuttle", !.result = p, !.writing = TRUE, !.draining = TRUE]
            /\ p > 0 /\ op.kind # "handshake"
         \/ /\ op' = [op EXCEPT !.at = "shuttle", !.writing = TRUE]
            /\ p = 0 /\ op.kind # "write"
         \/ /\ op' = [op EXCEPT !.at = "due", !.result = p, !.ok = TRUE]
            /\ Pending(wbio') = 0 /\ (p > 0 \/ op.kind = "handshake")
  PROVE  IInv'
<1> USE Lengths DEF Ops
<1>1. TypeOK /\ StepBegins /\ RoomWhenNeeded
  BY DEF IInv
<1>2. /\ BioOK(rbio', MaxRead) /\ BioOK(wbio', MaxWrite)
      /\ ssl' \in [held : Nat, inside : BOOLEAN, established : BOOLEAN, failed : BOOLEAN]
  BY <1>1, EngineIsOK
<1>3. /\ op.result = 0 /\ ~op.draining /\ op.ok /\ owed = 0
      /\ op \in Ops
  BY <1>1 DEF StepBegins, TypeOK
<1>4. p \in 0 .. MaxLen /\ len \in Nat /\ owed' = p /\ Pending(wbio') \in Nat
  BY <1>1, <1>2, <1>3 DEF TypeOK, BioOK, Pending
<1>5. TypeOK'
  <2>1. op' \in Ops
    BY <1>3, <1>4
  <2> QED BY <1>1, <1>2, <1>4, <2>1 DEF TypeOK
<1>6. CASE /\ op' = [op EXCEPT !.at = "shuttle", !.result = p, !.writing = TRUE, !.draining = TRUE]
           /\ p > 0 /\ op.kind # "handshake"
  BY <1>1, <1>3, <1>4, <1>5, <1>6
  DEF IInv, StepBegins, ShuttleHolds, FetchesLast, DueHolds, Fetching, FlushedUnlessBehind,
      RoomWhenNeeded
<1>7. CASE /\ op' = [op EXCEPT !.at = "shuttle", !.writing = TRUE]
           /\ p = 0 /\ op.kind # "write"
  BY <1>1, <1>3, <1>4, <1>5, <1>7
  DEF IInv, StepBegins, ShuttleHolds, FetchesLast, DueHolds, Fetching, FlushedUnlessBehind,
      RoomWhenNeeded
<1>8. CASE /\ op' = [op EXCEPT !.at = "due", !.result = p, !.ok = TRUE]
           /\ Pending(wbio') = 0 /\ (p > 0 \/ op.kind = "handshake")
  <2>1. FlushedUnlessBehind'
    BY <1>8 DEF FlushedUnlessBehind, Pending
  <2> QED BY <1>1, <1>3, <1>4, <1>5, <1>8, <2>1
      DEF IInv, StepBegins, ShuttleHolds, FetchesLast, DueHolds, Fetching, RoomWhenNeeded
<1> QED BY <1>6, <1>7, <1>8

LEMMA HandshakeKeeps ==
  ASSUME IInv, NEW c \in 0 .. MaxRead, NEW n \in 0 .. MaxRecord, Handshake(c, n)
  PROVE  IInv'
<1>1. op.at = "step" /\ op.kind = "handshake"
  BY DEF Handshake
<1>2. CASE NotYet(c, n)
  BY <1>1, <1>2, NotYetKeeps
<1>3. CASE ~NotYet(c, n)
  <2>1. owed \in Nat /\ 0 \in 0 .. len
    BY DEF IInv, TypeOK
  <2>2. Engine(c, n, TRUE, FALSE) /\ ssl'.held = 0 /\ owed' = owed + 0
    <3>1. Engine(c, n, TRUE, FALSE) /\ ssl'.held = 0 /\ owed' = owed
      BY <1>3 DEF Handshake
    <3>2. owed + 0 = owed
      BY <2>1
    <3> QED BY <3>1, <3>2
  <2>3. UNCHANGED <<len, left, exact, behind, starved>>
    BY <1>3 DEF Handshake, conn
  <2>4. CASE Pending(wbio') > 0
    <3>1. op' = [op EXCEPT !.at = "shuttle", !.writing = TRUE]
      BY <1>3, <2>4 DEF Handshake
    <3> QED BY <1>1, <2>1, <2>2, <2>3, <3>1, ProgressKeeps
  <2>5. CASE ~(Pending(wbio') > 0)
    <3>1. op' = [op EXCEPT !.at = "due", !.result = 0, !.ok = TRUE]
      BY <1>3, <2>5 DEF Handshake, Complete
    <3>2. BioOK(wbio', MaxWrite)
      BY <2>2, EngineIsOK DEF IInv
    <3>3. Pending(wbio') = 0
      BY <2>5, <3>2, Lengths DEF BioOK, Pending
    <3> QED BY <1>1, <2>1, <2>2, <2>3, <3>1, <3>3, ProgressKeeps
  <2> QED BY <2>4, <2>5
<1> QED BY <1>2, <1>3

LEMMA ReadKeeps ==
  ASSUME IInv, NEW c \in 0 .. MaxRead, NEW n \in 0 .. MaxRecord, NEW p \in 1 .. len,
         Read(c, n, p)
  PROVE  IInv'
<1>1. op.at = "step" /\ op.kind = "read"
  BY DEF Read
<1>2. CASE NotYet(c, n)
  BY <1>1, <1>2, NotYetKeeps
<1>3. CASE ~NotYet(c, n)
  <2>1. p \in 0 .. len /\ p > 0 /\ op.kind # "handshake"
    BY <1>1 DEF IInv, TypeOK
  <2>2. Engine(c, n, TRUE, FALSE) /\ ssl'.held = 0 /\ owed' = owed + p
    BY <1>3 DEF Read
  <2>3. UNCHANGED <<len, left, exact, behind, starved>>
    BY <1>3 DEF Read, conn
  <2>4. CASE Pending(wbio') > 0
    <3>1. op' = [op EXCEPT !.at = "shuttle", !.result = p, !.writing = TRUE, !.draining = TRUE]
      BY <1>3, <2>4 DEF Read, Progress
    <3> QED BY <1>1, <2>1, <2>2, <2>3, <3>1, ProgressKeeps
  <2>5. CASE ~(Pending(wbio') > 0)
    <3>1. op' = [op EXCEPT !.at = "due", !.result = p, !.ok = TRUE]
      BY <1>3, <2>5 DEF Read, Complete
    <3>2. BioOK(wbio', MaxWrite)
      BY <2>2, EngineIsOK DEF IInv
    <3>3. Pending(wbio') = 0
      BY <2>5, <3>2, Lengths DEF BioOK, Pending
    <3> QED BY <1>1, <2>1, <2>2, <2>3, <3>1, <3>3, ProgressKeeps
  <2> QED BY <2>4, <2>5
<1> QED BY <1>2, <1>3

LEMMA WriteKeeps ==
  ASSUME IInv, NEW n \in 0 .. MaxRecord, NEW p \in 1 .. len, Write(n, p)
  PROVE  IInv'
<1> USE Lengths
<1>1. TypeOK /\ StepBegins /\ RoomWhenNeeded
  BY DEF IInv
<1>2. op.at = "step" /\ op.kind = "write" /\ UNCHANGED <<len, left, exact, behind>>
  BY DEF Write, conn
<1>3. 0 \in 0 .. MaxRead /\ p \in 0 .. len /\ p > 0 /\ op.kind # "handshake"
  BY <1>1, <1>2 DEF TypeOK
<1>4. CASE Engine(0, n, TRUE, FALSE) /\ ssl'.held = 0 /\ owed' = owed + p
           /\ Progress(p) /\ UNCHANGED starved
  BY <1>2, <1>3, <1>4, ProgressKeeps DEF Progress
<1>5. ASSUME NEW f \in BOOLEAN, Engine(0, n, TRUE, f), Complete(0, FALSE),
             UNCHANGED owed, starved' = FALSE
      PROVE  IInv'
  <2>1. /\ BioOK(rbio', MaxRead) /\ BioOK(wbio', MaxWrite)
        /\ ssl' \in [held : Nat, inside : BOOLEAN, established : BOOLEAN, failed : BOOLEAN]
    BY <1>1, <1>3, <1>5, EngineIsOK
  <2>2. op' = [op EXCEPT !.at = "due", !.result = 0, !.ok = FALSE]
    BY <1>5 DEF Complete
  <2>3. op' \in Ops
    <3>1. op \in Ops
      BY <1>1 DEF TypeOK, Ops
    <3> QED BY <2>2, <3>1, FailedIsOp
  <2>4. starved' \in BOOLEAN
    BY <1>5
  <2>5. TypeOK'
    BY <1>1, <1>2, <1>5, <2>1, <2>3, <2>4 DEF TypeOK, Ops
  <2>6. op'.at = "due" /\ ~op'.ok
    BY <1>1, <2>2 DEF TypeOK
  <2> QED BY <1>5, <2>5, <2>6
      DEF IInv, StepBegins, ShuttleHolds, FetchesLast, DueHolds, Fetching,
          FlushedUnlessBehind, RoomWhenNeeded
<1>6. CASE /\ Engine(0, n, TRUE, FALSE) /\ ssl'.held # 0
           /\ Complete(0, FALSE) /\ UNCHANGED owed
           /\ starved' = (starved \/ (~behind /\ wbio'.size = MaxWrite))
  <2>1. ssl.held = 0 /\ (~behind => Pending(wbio) = 0)
    <3>1. Pending(wbio) \in Nat
      BY <1>1 DEF TypeOK, BioOK, Pending
    <3> QED BY <1>1, <1>2, <3>1 DEF StepBegins
  <2>2. ~(~behind /\ wbio'.size = MaxWrite)
    BY <1>1, <1>3, <1>6, <2>1, EngineIsOK
  <2>3. starved' = FALSE
    BY <1>1, <1>6, <2>2 DEF RoomWhenNeeded
  <2> QED BY <1>5, <1>6, <2>3
<1>7. CASE Engine(0, 0, TRUE, TRUE) /\ n = 0 /\ Complete(0, FALSE) /\ UNCHANGED <<owed, starved>>
  <2>1. starved' = FALSE
    BY <1>1, <1>7 DEF RoomWhenNeeded, TypeOK
  <2>2. Engine(0, n, TRUE, TRUE)
    BY <1>7
  <2> QED BY <1>5, <1>7, <2>1, <2>2
<1> QED BY <1>4, <1>6, <1>7 DEF Write

LEMMA ShuttleOutKeeps ==
  ASSUME IInv, NEW n \in 1 .. MaxWrite, ShuttleOut(n)
  PROVE  IInv'
<1> USE Lengths
<1>1. TypeOK /\ ShuttleHolds /\ RoomWhenNeeded
  BY DEF IInv
<1>2. /\ op.at = "shuttle" /\ op.writing
      /\ UNCHANGED <<len, left, exact, rbio, ssl, owed, starved>>
  BY DEF ShuttleOut, conn
<1>3. /\ op.ok /\ owed = op.result
      /\ op.draining => ssl.held = 0
      /\ ~op.draining => op.result = 0 /\ op.kind # "write"
  BY <1>1, <1>2 DEF ShuttleHolds, Fetching
<1>4. /\ BioOK(wbio', MaxWrite)
      /\ behind' \in BOOLEAN
      /\ Pending(wbio') > 0 => behind'
  <2>0. BioOK(wbio, MaxWrite)
    BY <1>1 DEF TypeOK
  <2>1. CASE Pending(wbio) = 0
    <3>1. wbio' = wbio /\ behind' = behind
      BY <2>1 DEF ShuttleOut
    <3>2. behind \in BOOLEAN
      BY <1>1 DEF TypeOK
    <3> QED BY <2>0, <2>1, <3>1, <3>2
  <2>2. CASE Pending(wbio) # 0
    <3>1. n \in 1 .. Pending(wbio) /\ wbio' = Taken(wbio, n) /\ behind' = (n < Pending(wbio))
      BY <2>0, <2>2 DEF ShuttleOut, BioOK, Pending
    <3>2. BioOK(Taken(wbio, n), MaxWrite) /\ Pending(Taken(wbio, n)) = Pending(wbio) - n
      BY <2>0, <3>1, TakenIsOK
    <3>3. Pending(wbio) \in Nat
      BY <2>0 DEF BioOK, Pending
    <3>4. behind' \in BOOLEAN
      BY <3>1
    <3>5. Pending(wbio) - n > 0 => n < Pending(wbio)
      BY <3>1, <3>3
    <3> QED BY <3>1, <3>2, <3>4, <3>5
  <2> QED BY <2>1, <2>2
<1>5. CASE op.draining
  <2>1. op' = [op EXCEPT !.at = "due", !.result = op.result, !.ok = TRUE]
    BY <1>5 DEF ShuttleOut, Moved, Complete
  <2>2. TypeOK'
    BY <1>1, <1>2, <1>4, <2>1 DEF TypeOK
  <2>3. FlushedUnlessBehind'
    BY <1>4 DEF FlushedUnlessBehind, Pending
  <2> QED BY <1>1, <1>2, <1>3, <1>5, <2>1, <2>2, <2>3
      DEF IInv, TypeOK, StepBegins, ShuttleHolds, FetchesLast, DueHolds, Fetching, RoomWhenNeeded
<1>6. CASE ~op.draining
  <2>1. op' = [op EXCEPT !.at = "step"]
    BY <1>6 DEF ShuttleOut, Moved
  <2>2. TypeOK'
    BY <1>1, <1>2, <1>4, <2>1 DEF TypeOK
  <2> QED BY <1>1, <1>2, <1>3, <1>6, <2>1, <2>2
      DEF IInv, TypeOK, StepBegins, ShuttleHolds, FetchesLast, DueHolds, Fetching,
          FlushedUnlessBehind, RoomWhenNeeded
<1> QED BY <1>5, <1>6

LEMMA ShuttleInKeeps ==
  ASSUME IInv, NEW n \in 1 .. MaxRead, ShuttleIn(n)
  PROVE  IInv'
<1> USE Lengths
<1>1. TypeOK /\ ShuttleHolds /\ FetchesLast /\ RoomWhenNeeded
  BY DEF IInv
<1>2. /\ op.at = "shuttle" /\ ~op.writing
      /\ UNCHANGED <<len, left, exact, wbio, ssl, owed, behind>>
  BY DEF ShuttleIn, conn
<1>3. /\ op.ok /\ owed = op.result /\ op.result = 0
      /\ ~op.draining /\ op.kind # "write"
      /\ Pending(rbio) = 0
  BY <1>1, <1>2 DEF ShuttleHolds, Fetching, FetchesLast
<1>4. BioOK(rbio, MaxRead) /\ rbio.write = 0
  BY <1>1, <1>3 DEF TypeOK, BioOK, Pending
<1>5. PICK b \in Ensured(rbio, MaxRead, MaxRead) :
        /\ Room(b) > 0 => n <= Room(b)
        /\ rbio' = IF Room(b) = 0 THEN b ELSE Fed(b, n)
  BY DEF ShuttleIn
<1>6. BioOK(b, MaxRead) /\ b.write = 0 /\ Pending(b) = 0 /\ Room(b) \in Nat
  BY <1>3, <1>4, <1>5, EnsuredIsOK
<1>7. BioOK(rbio', MaxRead) /\ Pending(rbio') \in Nat
      /\ (rbio'.size = MaxRead => Pending(rbio') > 0)
  <2>1. CASE Room(b) = 0
    <3>1. b.size = 0 /\ rbio' = b
      BY <1>5, <1>6, <2>1 DEF Room, BioOK
    <3> QED BY <1>6, <3>1
  <2>2. CASE Room(b) # 0
    <3>1. n <= Room(b) /\ rbio' = Fed(b, n)
      BY <1>5, <1>6, <2>2
    <3>2. BioOK(Fed(b, n), MaxRead) /\ Pending(Fed(b, n)) = 0 + n
      BY <1>6, <3>1, FedIsOK
    <3> QED BY <3>1, <3>2
  <2> QED BY <2>1, <2>2
<1>8. ~starved'
  <2>1. ~(Pending(rbio') = Pending(rbio) /\ rbio'.size = MaxRead)
    BY <1>3, <1>7
  <2> QED BY <1>1, <2>1 DEF ShuttleIn, RoomWhenNeeded
<1>9. CASE Pending(rbio') > Pending(rbio)
  <2>1. op' = [op EXCEPT !.at = "step"]
    BY <1>3, <1>9 DEF ShuttleIn, Moved
  <2>2. starved' \in BOOLEAN
    BY <1>8 DEF ShuttleIn
  <2>3. TypeOK'
    BY <1>1, <1>2, <1>7, <2>1, <2>2 DEF TypeOK
  <2> QED BY <1>1, <1>2, <1>3, <1>8, <2>1, <2>3
      DEF IInv, TypeOK, StepBegins, ShuttleHolds, FetchesLast, DueHolds, Fetching,
          FlushedUnlessBehind, RoomWhenNeeded
<1>10. CASE ~(Pending(rbio') > Pending(rbio))
  <2>1. op' = [op EXCEPT !.at = "due", !.result = op.result, !.ok = FALSE]
    BY <1>10 DEF ShuttleIn, Complete
  <2>2. starved' \in BOOLEAN
    BY <1>8 DEF ShuttleIn
  <2>3. TypeOK'
    BY <1>1, <1>2, <1>7, <2>1, <2>2 DEF TypeOK
  <2> QED BY <1>1, <1>2, <1>3, <1>8, <2>1, <2>3
      DEF IInv, TypeOK, StepBegins, ShuttleHolds, FetchesLast, DueHolds, Fetching,
          FlushedUnlessBehind, RoomWhenNeeded
<1> QED BY <1>9, <1>10

LEMMA ShuttleBlocksKeeps ==
  ASSUME IInv, ShuttleBlocks
  PROVE  IInv'
<1> USE Lengths DEF Ops
<1>1. TypeOK /\ ShuttleHolds /\ FetchesLast /\ RoomWhenNeeded
  BY DEF IInv
<1>2. op.at = "shuttle" /\ UNCHANGED <<len, left, exact, wbio, ssl, owed, behind, starved>>
  BY DEF ShuttleBlocks, conn
<1>3. BioOK(rbio', MaxRead) /\ Pending(rbio') = Pending(rbio)
  <2>1. BioOK(rbio, MaxRead)
    BY <1>1 DEF TypeOK
  <2>2. CASE op.writing
    BY <2>1, <2>2 DEF ShuttleBlocks
  <2>3. CASE ~op.writing
    <3>1. rbio' \in Ensured(rbio, MaxRead, MaxRead)
      BY <2>3 DEF ShuttleBlocks
    <3> QED BY <2>1, <3>1, EnsuredIsOK
  <2> QED BY <2>2, <2>3
<1>4. op \in Ops
  BY <1>1 DEF TypeOK
<1>5. CASE op' = [op EXCEPT !.at = IF op.writing THEN "slotWrite" ELSE "slotRead"]
  <2>1. TypeOK'
    <3>1. op' \in Ops
      BY <1>4, <1>5
    <3> QED BY <1>1, <1>2, <1>3, <3>1 DEF TypeOK
  <2>2. /\ op'.at = (IF op.writing THEN "slotWrite" ELSE "slotRead")
        /\ op'.kind = op.kind /\ op'.result = op.result /\ op'.writing = op.writing
        /\ op'.draining = op.draining /\ op'.ok = op.ok
    BY <1>4, <1>5
  <2>3. ShuttleHolds'
    BY <1>1, <1>2, <2>2 DEF ShuttleHolds, Fetching
  <2>4. FetchesLast'
    <3>1. Pending(wbio)' = Pending(wbio) /\ Pending(rbio)' = Pending(rbio)
      BY <1>2, <1>3 DEF Pending
    <3> QED BY <1>1, <1>2, <2>2, <3>1 DEF FetchesLast
  <2> QED BY <1>1, <1>2, <2>1, <2>2, <2>3, <2>4
      DEF IInv, StepBegins, DueHolds, FlushedUnlessBehind, RoomWhenNeeded
<1>6. CASE Complete(op.result, FALSE)
  <2>1. op' = [op EXCEPT !.at = "due", !.result = op.result, !.ok = FALSE]
    BY <1>6 DEF Complete
  <2>2. TypeOK'
    BY <1>1, <1>2, <1>3, <2>1 DEF TypeOK
  <2> QED BY <1>1, <1>2, <1>4, <2>1, <2>2
      DEF IInv, StepBegins, ShuttleHolds, FetchesLast, DueHolds, Fetching,
          FlushedUnlessBehind, RoomWhenNeeded
<1> QED BY <1>5, <1>6 DEF ShuttleBlocks, Wait

LEMMA ReadyKeeps ==
  ASSUME IInv, Ready
  PROVE  IInv'
<1> USE DEF Ops
<1>1. TypeOK /\ ShuttleHolds /\ FetchesLast /\ RoomWhenNeeded
  BY DEF IInv
<1>2. /\ op.at \in {"slotRead", "slotWrite"}
      /\ op' = [op EXCEPT !.at = IF op.draining THEN "shuttle" ELSE "step"]
      /\ UNCHANGED <<len, left, exact, rbio, wbio, ssl, owed, behind, starved>>
  BY DEF Ready, conn
<1>3. op \in Ops
  BY <1>1 DEF TypeOK
<1>4. TypeOK'
  <2>1. op' \in Ops
    BY <1>2, <1>3
  <2> QED BY <1>1, <1>2, <2>1 DEF TypeOK
<1> QED BY <1>1, <1>2, <1>3, <1>4
    DEF IInv, StepBegins, ShuttleHolds, FetchesLast, DueHolds, Fetching,
        FlushedUnlessBehind, RoomWhenNeeded

LEMMA AbortKeeps ==
  ASSUME IInv, Abort
  PROVE  IInv'
<1>1. TypeOK /\ RoomWhenNeeded
  BY DEF IInv
<1>2. /\ op' = [op EXCEPT !.at = "due", !.result = 0, !.ok = FALSE]
      /\ UNCHANGED <<len, left, exact, rbio, wbio, ssl, owed, behind, starved>>
  BY DEF Abort, Complete, conn
<1>3. op \in Ops
  BY <1>1 DEF TypeOK, Ops
<1>4. TypeOK'
  <2>1. op' \in Ops
    BY <1>2, <1>3, FailedIsOp
  <2> QED BY <1>1, <1>2, <2>1 DEF TypeOK, Ops
<1> QED BY <1>1, <1>2, <1>3, <1>4
    DEF Ops, IInv, StepBegins, ShuttleHolds, FetchesLast, DueHolds, Fetching,
        FlushedUnlessBehind, RoomWhenNeeded

(* After an operation that went well nothing is unreported, and the next   *)
(* one starts from the beginning.                                          *)
LEMMA CallbackKeeps ==
  ASSUME IInv, Callback
  PROVE  IInv'
<1> USE Lengths DEF Ops
<1>1. TypeOK /\ DueHolds /\ FlushedUnlessBehind /\ RoomWhenNeeded
  BY DEF IInv
<1>2. op.at = "due" /\ UNCHANGED <<rbio, wbio, ssl, behind, starved>>
  BY DEF Callback
<1>3. owed' = 0
  <2>1. owed \in Nat /\ (op.ok => op.result = owed)
    BY <1>1, <1>2 DEF DueHolds, TypeOK
  <2>2. owed' = owed - (IF op.ok THEN op.result ELSE owed)
    BY DEF Callback
  <2>3. owed' = owed - owed
    BY <2>1, <2>2
  <2> QED BY <2>1, <2>3
<1>4. op \in Ops
      /\ {len, left} \subseteq 0 .. MaxLen /\ exact \in BOOLEAN
  BY <1>1 DEF TypeOK
<1>5. CASE op' = [op EXCEPT !.at = "ended"] /\ UNCHANGED <<len, left, exact>>
  <2>1. op' \in Ops
        /\ op'.at = "ended"
    BY <1>4, <1>5
  <2>2. TypeOK'
    BY <1>1, <1>2, <1>3, <1>5, <2>1 DEF TypeOK
  <2> QED BY <1>1, <1>2, <2>1, <2>2
      DEF IInv, StepBegins, ShuttleHolds, FetchesLast, DueHolds, Fetching,
          FlushedUnlessBehind, RoomWhenNeeded
<1>6. ASSUME NEW kind \in {"read", "write"}, op' = Started(kind), op.ok,
             len' \in 0 .. MaxLen, left' \in 0 .. MaxLen, exact' \in BOOLEAN
      PROVE  IInv'
  <2>1. /\ op' \in Ops
        /\ op'.at = "step" /\ op'.result = 0 /\ ~op'.draining /\ op'.ok
    BY <1>6 DEF Started
  <2>2. TypeOK'
    BY <1>1, <1>2, <1>3, <1>6, <2>1 DEF TypeOK
  <2>3. ssl.held = 0 /\ (Pending(wbio) > 0 => behind)
    BY <1>1, <1>2, <1>6 DEF DueHolds, FlushedUnlessBehind
  <2>4. StepBegins'
    BY <1>2, <1>3, <2>1, <2>3 DEF StepBegins, Pending
  <2> QED BY <1>1, <1>2, <2>1, <2>2, <2>4
      DEF IInv, ShuttleHolds, FetchesLast, DueHolds, Fetching, FlushedUnlessBehind,
          RoomWhenNeeded
<1>7. CASE op.ok /\ Recv
  <2>1. op' = Started("read")
        /\ len' \in 0 .. MaxLen /\ left' \in 0 .. MaxLen /\ exact' \in BOOLEAN
    BY <1>7 DEF Recv
  <2> QED BY <1>6, <1>7, <2>1
<1>8. CASE /\ op.ok /\ op.result < len /\ len' = len - op.result
           /\ op' = Started("read") /\ UNCHANGED <<left, exact>>
  BY <1>4, <1>6, <1>8
<1>9. ASSUME NEW rest \in 0 .. MaxLen, op.ok, Fill(rest)
      PROVE  IInv'
  <2>1. Least(Chunk, rest) \in Nat /\ Least(Chunk, rest) <= rest
    BY LeastIs
  <2>2. op' = Started("write") /\ exact' \in BOOLEAN
    BY <1>4, <1>9 DEF Fill
  <2>3. len' \in 0 .. MaxLen /\ left' \in 0 .. MaxLen
    BY <1>9, <2>1 DEF Fill
  <2> QED BY <1>6, <1>9, <2>2, <2>3
<1>10. CASE op.ok /\ Send
  <2>1. PICK size \in 1 .. MaxLen : Fill(size)
    BY <1>10 DEF Send
  <2> QED BY <1>9, <1>10, <2>1
<1>11. CASE op.ok /\ Fill(left)
  BY <1>4, <1>9, <1>11
<1> QED BY <1>5, <1>7, <1>8, <1>10, <1>11 DEF Callback, Destroy, conn

LEMMA NextInv == IInv /\ [Next]_vars => IInv'
<1> SUFFICES ASSUME IInv, [Next]_vars PROVE IInv'
  OBVIOUS
<1>1. ASSUME NEW c \in 0 .. MaxRead, NEW n \in 0 .. MaxRecord, Handshake(c, n)
      PROVE  IInv'
  BY <1>1, HandshakeKeeps
<1>2. ASSUME NEW c \in 0 .. MaxRead, NEW n \in 0 .. MaxRecord, NEW p \in 1 .. len,
             Read(c, n, p)
      PROVE  IInv'
  BY <1>2, ReadKeeps
<1>3. ASSUME NEW n \in 0 .. MaxRecord, NEW p \in 1 .. len, Write(n, p)
      PROVE  IInv'
  BY <1>3, WriteKeeps
<1>4. ASSUME NEW n \in 1 .. MaxWrite, ShuttleOut(n)
      PROVE  IInv'
  BY <1>4, ShuttleOutKeeps
<1>5. ASSUME NEW n \in 1 .. MaxRead, ShuttleIn(n)
      PROVE  IInv'
  BY <1>5, ShuttleInKeeps
<1>6. CASE ShuttleBlocks
  BY <1>6, ShuttleBlocksKeeps
<1>7. CASE Ready
  BY <1>7, ReadyKeeps
<1>8. CASE Abort
  BY <1>8, AbortKeeps
<1>9. CASE Callback
  BY <1>9, CallbackKeeps
<1>10. CASE UNCHANGED vars
  <2>1. UNCHANGED <<op, len, left, exact, rbio, wbio, ssl, owed, behind, starved>>
    BY <1>10 DEF vars
  <2> QED BY <2>1
      DEF IInv, TypeOK, StepBegins, ShuttleHolds, FetchesLast, DueHolds, Fetching,
          FlushedUnlessBehind, RoomWhenNeeded, BioOK, Pending
<1> QED BY <1>1, <1>2, <1>3, <1>4, <1>5, <1>6, <1>7, <1>8, <1>9, <1>10 DEF Next

THEOREM Invariance == Spec => []IInv
<1> QED BY InitInv, NextInv, PTL DEF Spec

-----------------------------------------------------------------------------
(* Positions, sizes and results stay in range: th_ssl_smem_bio.c never     *)
(* computes with a read position behind the write position, nor with a     *)
(* write position beyond the buffer.                                       *)
THEOREM TypeCorrect == Spec => []TypeOK
<1>1. IInv => TypeOK
  BY DEF IInv
<1> QED BY <1>1, Invariance, PTL

(* Plaintext is reported exactly (op->draining of th_ssl_io.c).            *)
THEOREM PlaintextExact == Spec => []ReportsExact
<1>1. IInv => ReportsExact
  BY DEF IInv, StepBegins, DueHolds, ReportsExact
<1> QED BY <1>1, Invariance, PTL

(* What an operation produced was offered to the socket when it ends.      *)
THEOREM OffersAll == Spec => []FlushedUnlessBehind
<1>1. IInv => FlushedUnlessBehind
  BY DEF IInv
<1> QED BY <1>1, Invariance, PTL

(* Nobody waits for the peer with ciphertext in the BIO                    *)
(* (th_ssl_session_classify looks at the BIO before the error).            *)
THEOREM NoWaitBehindOutput == Spec => []WaitsFlushed
<1>1. IInv => WaitsFlushed
  BY DEF IInv, FetchesLast, WaitsFlushed
<1> QED BY <1>1, Invariance, PTL

(* Neither at its end nor while it waits has an operation kept output back *)
(* that the socket would have taken.                                       *)
THEOREM OutputFlushed == Spec => []OutputGoesFirst
BY OffersAll, NoWaitBehindOutput, PTL DEF OutputGoesFirst

(* The buffers have room when it is needed.                                *)
THEOREM RoomSuffices == Spec => []RoomWhenNeeded
<1>1. IInv => RoomWhenNeeded
  BY DEF IInv
<1> QED BY <1>1, Invariance, PTL
=============================================================================
