----------------------------- MODULE ThWsDataProofs -----------------------------
(***************************************************************************)
(* The lemmas about ThWsData, for all frames, pieces, lengths and sizes of *)
(* the ring.  Receiving: the types, and that the messages put together     *)
(* stay within their limit.  Sending: that the bytes of the frames the     *)
(* ring accepts are on the wire each once and in order, and that the       *)
(* ring's length says how many wait.  The theorems are in                  *)
(* ThConnectionProofs.                                                     *)
(***************************************************************************)
EXTENDS ThWsData, WellFoundedInduction, FiniteSetTheorems, SequenceTheorems, TLAPS

-----------------------------------------------------------------------------
(* Sets of natural numbers in the place of predicates.                     *)

(* Every set of natural numbers has a least element.                       *)
LEMMA LeastNat ==
  ASSUME NEW U, U \subseteq Nat, U # {}
  PROVE  \E x \in U : \A y \in U : x <= y
<1> DEFINE less == {pair \in Nat \X Nat : pair[1] < pair[2]}
<1>1. OpToRel(<, Nat) = less
  BY DEF OpToRel
<1>2. IsWellFoundedOn(less, Nat)
  BY <1>1, NatLessThanWellFounded
<1> HIDE DEF less
<1>3. PICK x \in U : \A y \in U : <<y, x>> \notin less
  BY <1>2, WFMin
<1>4. ASSUME NEW y \in U PROVE x <= y
  <2>1. x \in Nat /\ y \in Nat
    OBVIOUS
  <2>2. y < x => <<y, x>> \in less
    BY <2>1 DEF less
  <2>3. ~(y < x)
    BY <1>3, <2>2
  <2>4. QED
    BY <2>1, <2>3
<1>5. QED
  BY <1>4

(* Induction up to a number, for a set in the place of a predicate.        *)
LEMMA UpTo ==
  ASSUME NEW n \in Nat, NEW P, 0 \in P, \A k \in Nat : k < n /\ k \in P => k + 1 \in P
  PROVE  \A k \in 0 .. n : k \in P
<1> DEFINE bad == {k \in 0 .. n : k \notin P}
<1>1. ASSUME bad # {} PROVE FALSE
  <2>1. bad \subseteq Nat
    OBVIOUS
  <2>2. PICK k \in bad : \A m \in bad : k <= m
    BY <1>1, <2>1, LeastNat
  <2>3. k \in 1 .. n /\ k \notin P
    BY <2>2
  <2>4. k - 1 \in Nat /\ k - 1 < n /\ k - 1 \notin bad
    BY <2>2, <2>3
  <2>5. k - 1 \in P
    BY <2>3, <2>4
  <2>6. (k - 1) + 1 \in P
    BY <2>4, <2>5
  <2>7. QED
    BY <2>3, <2>6
<1>2. QED
  BY <1>1

Follow(u, v, n) ==
  /\ u[0] = v[0]
  /\ \A k \in 1 .. n : u[k - 1] = v[k - 1] => u[k] = v[k]

LEMMA SamePrefixes ==
  ASSUME NEW n \in Nat, NEW u, NEW v, Follow(u, v, n)
  PROVE  \A k \in 0 .. n : u[k] = v[k]
<1>0. u[0] = v[0] /\ \A k \in 1 .. n : u[k - 1] = v[k - 1] => u[k] = v[k]
  BY DEF Follow
<1> DEFINE upTo == {k \in 0 .. n : u[k] = v[k]}
<1>1. 0 \in upTo
  BY <1>0
<1>2. ASSUME NEW k \in Nat, k < n, k \in upTo PROVE k + 1 \in upTo
  <2>1. k + 1 \in 1 .. n /\ (k + 1) - 1 = k
    BY <1>2
  <2>2. QED
    BY <1>0, <1>2, <2>1
<1> HIDE DEF upTo
<1>3. \A k \in 0 .. n : k \in upTo
  BY <1>1, <1>2, UpTo
<1>4. QED
  BY <1>3 DEF upTo

-----------------------------------------------------------------------------
(* FlattenSeq.                                                             *)

(* The empty sequence, by a name that provers do not rewrite.              *)
Nothing == <<>>

LEMMA ConcatEmpty ==
  ASSUME NEW S, NEW s \in Seq(S)
  PROVE  /\ Nothing \in Seq(S)
         /\ Nothing \o s = s /\ s \o Nothing = s
BY DEF Nothing

LEMMA ConcatAssociates ==
  ASSUME NEW S, NEW s \in Seq(S), NEW t \in Seq(S), NEW u \in Seq(S)
  PROVE  s \o t \in Seq(S) /\ (s \o t) \o u = s \o (t \o u)
OBVIOUS

(* The values on the prefixes of n parts.                                  *)
Accumulates(v, n, parts) ==
  /\ v[0] = Nothing
  /\ \A j \in 0 .. n, k \in 1 .. n : k = j + 1 => v[k] = v[j] \o parts[k]

(* One part more.                                                          *)
Extendable(S, n, v, parts) ==
  /\ n \in Nat
  /\ v \in [0 .. n -> Seq(S)]
  /\ Accumulates(v, n, parts)
  /\ parts[n + 1] \in Seq(S)

Extended(S, n, v, parts) ==
  \E w \in [0 .. n + 1 -> Seq(S)] :
    Accumulates(w, n + 1, parts) /\ w[n + 1] = v[n] \o parts[n + 1]

LEMMA AccumulatesMore ==
  ASSUME NEW S, NEW n, NEW parts, NEW v, Extendable(S, n, v, parts)
  PROVE  Extended(S, n, v, parts)
<1> DEFINE m == n + 1
           last == v[n] \o parts[m]
           w == [j \in 0 .. m |-> IF j = m THEN last ELSE v[j]]
<1>1. /\ n \in Nat /\ v \in [0 .. n -> Seq(S)] /\ v[n] \in Seq(S)
      /\ Accumulates(v, n, parts) /\ parts[m] \in Seq(S)
  BY DEF Extendable
<1>2. m \in Nat /\ n \in 0 .. n /\ \A j \in 0 .. m : j = m \/ j \in 0 .. n
  BY <1>1
<1>3. last \in Seq(S)
  BY <1>1, ConcatAssociates
<1> HIDE DEF last
<1>4. w[m] = last /\ w \in [0 .. m -> Seq(S)] /\ \A j \in 0 .. n : w[j] = v[j]
  BY <1>1, <1>2, <1>3
<1> HIDE DEF w
<1>5. w[0] = Nothing
  BY <1>1, <1>4 DEF Accumulates
<1>6. ASSUME NEW j \in 0 .. m, NEW i \in 1 .. m, i = j + 1 PROVE w[i] = w[j] \o parts[i]
  <2>1. j \in 0 .. n
    BY <1>2, <1>6
  <2>2. CASE i = m
    <3>1. j = n
      BY <1>1, <1>6, <2>2
    <3>2. QED
      BY <1>4, <2>1, <2>2, <3>1 DEF last
  <2>3. CASE i # m
    <3>1. i \in 1 .. n /\ i \in 0 .. n
      BY <1>1, <1>6, <2>3
    <3>2. v[i] = v[j] \o parts[i]
      BY <1>1, <1>6, <2>1, <3>1 DEF Accumulates
    <3>3. QED
      BY <1>4, <2>1, <3>1, <3>2
  <2>4. QED
    BY <2>2, <2>3
<1>7. Accumulates(w, m, parts)
  BY <1>5, <1>6 DEF Accumulates
<1>8. QED
  BY <1>4, <1>7 DEF Extended, last

LEMMA AccumulatesSome ==
  ASSUME NEW S, NEW n \in Nat, NEW parts \in [1 .. n -> Seq(S)]
  PROVE  \E v \in [0 .. n -> Seq(S)] : Accumulates(v, n, parts)
<1> DEFINE Some(k) == \E v \in [0 .. k -> Seq(S)] : Accumulates(v, k, parts)
           upTo == {k \in 0 .. n : Some(k)}
<1>1. 0 \in upTo
  <2> DEFINE v == [j \in 0 .. 0 |-> Nothing]
  <2>1. v \in [0 .. 0 -> Seq(S)] /\ Accumulates(v, 0, parts)
    BY DEF Accumulates, Nothing
  <2>2. QED
    BY <2>1
<1>2. ASSUME NEW k \in Nat, k < n, k \in upTo PROVE k + 1 \in upTo
  <2>1. PICK v \in [0 .. k -> Seq(S)] : Accumulates(v, k, parts)
    BY <1>2
  <2>2. k + 1 \in 0 .. n /\ parts[k + 1] \in Seq(S)
    BY <1>2
  <2>3. Extendable(S, k, v, parts)
    BY <2>1, <2>2 DEF Extendable
  <2>4. Extended(S, k, v, parts)
    BY <2>3, AccumulatesMore
  <2>5. QED
    BY <2>2, <2>4 DEF Extended
<1> HIDE DEF upTo
<1>3. \A k \in 0 .. n : k \in upTo
  BY <1>1, <1>2, UpTo
<1>4. n \in upTo
  BY <1>3
<1>5. QED
  BY <1>4 DEF upTo

(* All there are.                                                          *)
Accumulated(S, n, v, parts) ==
  /\ n \in Nat /\ Len(parts) = n /\ (n = 0 => parts = <<>>)
  /\ parts \in [1 .. n -> Seq(S)]
  /\ v \in [0 .. n -> Seq(S)]
  /\ Accumulates(v, n, parts)

LEMMA FlattenIs ==
  ASSUME NEW S, NEW n, NEW parts, NEW v, Accumulated(S, n, v, parts)
  PROVE  FlattenSeq(parts) = v[n]
<1>0. /\ n \in Nat /\ Len(parts) = n /\ (n = 0 => parts = <<>>)
      /\ parts \in [1 .. n -> Seq(S)] /\ v \in [0 .. n -> Seq(S)]
  BY DEF Accumulated
<1> USE <1>0
<1>1. /\ v[0] = Nothing
      /\ \A j \in 0 .. n, k \in 1 .. n : k = j + 1 => v[k] = v[j] \o parts[k]
  BY DEF Accumulates, Accumulated
<1>2. CASE n = 0
  BY <1>0, <1>1, <1>2 DEF FlattenSeq, Nothing
<1>3. CASE n # 0
  <2> DEFINE E(f) == [i \in 1 .. n |-> IF i = 1 THEN parts[i] ELSE f[i - 1] \o parts[i]]
             flat == CHOOSE f : f = E(f)
  <2>1. 1 \in 1 .. n /\ parts[1] \in Seq(S) /\ v[1] = parts[1]
    <3>1. 0 \in 0 .. n /\ 1 \in 1 .. n /\ 1 = 0 + 1
      BY <1>3
    <3>2. v[1] = v[0] \o parts[1]
      <4>1. \A k \in 1 .. n : k = 0 + 1 => v[k] = v[0] \o parts[k]
        BY <1>1, <3>1
      <4>2. QED
        BY <3>1, <4>1
    <3>3. v[1] = Nothing \o parts[1]
      BY <1>1, <3>2
    <3>4. parts[1] \in Seq(S)
      BY <1>3
    <3>5. QED
      BY <3>1, <3>3, <3>4, ConcatEmpty
  <2> DEFINE h == [i \in 1 .. n |-> v[i]]
  <2>2. \A i \in 1 .. n : i # 1 => h[i - 1] = v[i - 1]
    OBVIOUS
  <2>3. \A i \in 1 .. n : h[i] = v[i]
    OBVIOUS
  <2>4. h = [i \in 1 .. n |-> h[i]]
    OBVIOUS
  <2> HIDE DEF h
  <2>5. ASSUME NEW i \in 1 .. n
        PROVE  h[i] = IF i = 1 THEN parts[i] ELSE h[i - 1] \o parts[i]
    <3>1. CASE i = 1
      BY <2>1, <2>3, <3>1
    <3>2. CASE i # 1
      <4> DEFINE j == i - 1
      <4>1. j \in 0 .. n /\ i = j + 1 /\ h[j] = v[j]
        BY <2>2, <3>2
      <4> HIDE DEF j
      <4>2. v[i] = v[j] \o parts[i]
        BY <1>1, <4>1
      <4>3. h[i] = h[j] \o parts[i]
        BY <2>3, <4>1, <4>2
      <4>4. QED
        BY <3>2, <4>3 DEF j
    <3>3. QED
      BY <3>1, <3>2
  <2>6. h = E(h)
    BY <2>4, <2>5
  <2>7. flat = E(flat)
    BY <2>6
  <2>8. FlattenSeq(parts) = flat[n]
    BY <1>3 DEF FlattenSeq
  <2> HIDE DEF flat
  <2>9. \A i \in 1 .. n : flat[i] = IF i = 1 THEN parts[i] ELSE flat[i - 1] \o parts[i]
    BY <2>7
  <2> DEFINE u == [k \in 0 .. n |-> IF k = 0 THEN Nothing ELSE flat[k]]
  <2>10. u[0] = v[0] /\ u[n] = flat[n] /\ \A k \in 1 .. n : u[k] = flat[k]
    BY <1>1, <1>3
  <2> HIDE DEF u
  <2>11. ASSUME NEW k \in 1 .. n, u[k - 1] = v[k - 1] PROVE u[k] = v[k]
    <3>1. CASE k = 1
      BY <2>1, <2>9, <2>10, <3>1
    <3>2. CASE k # 1
      <4> DEFINE j == k - 1
      <4>1. j \in 1 .. n /\ j \in 0 .. n /\ k = j + 1 /\ u[j] = v[j]
        BY <2>11, <3>2
      <4>2. flat[k] = flat[j] \o parts[k]
        BY <2>9, <3>2
      <4> HIDE DEF j
      <4>3. u[j] = flat[j] /\ u[k] = flat[k]
        BY <2>10, <4>1
      <4>4. v[k] = v[j] \o parts[k]
        BY <1>1, <4>1
      <4>5. flat[j] = v[j]
        BY <4>1, <4>3
      <4>6. QED
        BY <4>2, <4>3, <4>4, <4>5
    <3>3. QED
      BY <3>1, <3>2
  <2>12. \A k \in 0 .. n : u[k] = v[k]
    <3>1. Follow(u, v, n)
      BY <2>10, <2>11 DEF Follow
    <3>2. QED
      BY <3>1, SamePrefixes
  <2>13. u[n] = v[n]
    BY <2>12
  <2>14. QED
    BY <2>8, <2>10, <2>13
<1>4. QED
  BY <1>2, <1>3

(* The parts as a function.                                                *)
LEMMA PartsOf ==
  ASSUME NEW S, NEW seqs \in Seq(Seq(S))
  PROVE  /\ Len(seqs) \in Nat
         /\ seqs \in [1 .. Len(seqs) -> Seq(S)]
         /\ Len(seqs) = 0 => seqs = <<>>
OBVIOUS

LEMMA FlattenSteps ==
  ASSUME NEW S, NEW seqs \in Seq(Seq(S))
  PROVE  /\ \E v \in [0 .. Len(seqs) -> Seq(S)] :
              Accumulates(v, Len(seqs), seqs) /\ FlattenSeq(seqs) = v[Len(seqs)]
         /\ FlattenSeq(seqs) \in Seq(S)
<1>1. /\ Len(seqs) \in Nat /\ seqs \in [1 .. Len(seqs) -> Seq(S)]
      /\ Len(seqs) = 0 => seqs = <<>>
  BY PartsOf
<1>2. PICK v \in [0 .. Len(seqs) -> Seq(S)] : Accumulates(v, Len(seqs), seqs)
  BY <1>1, AccumulatesSome
<1>3. FlattenSeq(seqs) = v[Len(seqs)]
  <2> DEFINE n == Len(seqs)
  <2>1. n \in Nat /\ seqs \in [1 .. n -> Seq(S)] /\ (n = 0 => seqs = <<>>) /\ Len(seqs) = n
    BY <1>1
  <2>2. v \in [0 .. n -> Seq(S)] /\ Accumulates(v, n, seqs)
    BY <1>2
  <2> HIDE DEF n
  <2>3. Accumulated(S, n, v, seqs)
    BY <2>1, <2>2 DEF Accumulated
  <2>4. FlattenSeq(seqs) = v[n]
    BY <2>3, FlattenIs
  <2>5. QED
    BY <2>4 DEF n
<1>4. v[Len(seqs)] \in Seq(S)
  BY <1>1
<1>5. QED
  BY <1>2, <1>3, <1>4

LEMMA FlattenEmpty == FlattenSeq(<<>>) = <<>>
BY DEF FlattenSeq

LEMMA AppendParts ==
  ASSUME NEW S, NEW seqs \in Seq(S), NEW s \in S
  PROVE  /\ Append(seqs, s) \in Seq(S) /\ Len(Append(seqs, s)) = Len(seqs) + 1
         /\ \A k \in 1 .. Len(seqs) : Append(seqs, s)[k] = seqs[k]
         /\ Append(seqs, s)[Len(seqs) + 1] = s
OBVIOUS

LEMMA FlattenAppend ==
  ASSUME NEW S, NEW seqs \in Seq(Seq(S)), NEW s \in Seq(S)
  PROVE  FlattenSeq(Append(seqs, s)) = FlattenSeq(seqs) \o s
<1> DEFINE n == Len(seqs)
           parts == Append(seqs, s)
<1>1. PICK v \in [0 .. n -> Seq(S)] : Accumulates(v, n, seqs) /\ FlattenSeq(seqs) = v[n]
  BY FlattenSteps
<1>2. /\ parts \in Seq(Seq(S)) /\ Len(parts) = n + 1
      /\ \A k \in 1 .. n : parts[k] = seqs[k]
      /\ parts[n + 1] = s
  BY AppendParts
<1>3. n \in Nat
  OBVIOUS
<1> HIDE DEF parts, n
<1>4. n + 1 \in Nat /\ n + 1 # 0
  BY <1>3
<1>5. parts \in [1 .. n + 1 -> Seq(S)]
  BY <1>2, PartsOf
<1>6. Extended(S, n, v, parts)
  <2>1. Accumulates(v, n, parts)
    BY <1>1, <1>2 DEF Accumulates
  <2>2. Extendable(S, n, v, parts)
    BY <1>1, <1>2, <1>3, <2>1 DEF Extendable
  <2>3. QED
    BY <2>2, AccumulatesMore
<1>7. PICK w \in [0 .. n + 1 -> Seq(S)] :
        Accumulates(w, n + 1, parts) /\ w[n + 1] = v[n] \o parts[n + 1]
  BY <1>6 DEF Extended
<1>8. FlattenSeq(parts) = w[n + 1]
  <2>1. Accumulated(S, n + 1, w, parts)
    BY <1>2, <1>4, <1>5, <1>7 DEF Accumulated
  <2>2. QED
    BY <2>1, FlattenIs
<1>9. QED
  BY <1>1, <1>2, <1>7, <1>8 DEF parts

-----------------------------------------------------------------------------
(* What comes in: the bytes of frames fs, and of messages put together.    *)
InByte(fs) ==
  [part : {"header"}, frame : DOMAIN fs, at : Nat]
    \union [part : {"payload"}, frame : DOMAIN fs, at : Nat, key : Nat]

PayByte == {"payload", "garbled"} \X Nat \X Nat

Messages == [type : {Text, Binary}, payload : Seq(PayByte)]

Parsers(fs) ==
  [lost : BOOLEAN, state : {"header", "payload"}, header : Seq(InByte(fs)), opcode : Opcodes,
   fin : BOOLEAN, len : Nat, read : Nat, message : {None, Text, Binary}]

(* The bytes of the frame under way that will be part of the message.      *)
Expected(p) == IF p.state = "payload" /\ ~IsControl(p.opcode) THEN p.len - p.read ELSE 0

(* The header fits its buffer, and the message the limit.                  *)
HeaderFits(p) == Len(p.header) <= HeaderBufLen \/ p.lost

MessageFits(p, message) ==
  ~p.lost /\ ~Wraps => Len(message) + Expected(p) <= MaxMessageLen

ParserFits(p, message) == p.read <= p.len /\ HeaderFits(p) /\ MessageFits(p, message)

LEMMA StreamType ==
  ASSUME NEW fs \in Seq(Frame)
  PROVE  Stream(fs) \in Seq(InByte(fs))
<1> DEFINE parts == [k \in DOMAIN fs |-> HeaderBytes(k, fs[k]) \o PayloadBytes(k, fs[k])]
<1>1. DOMAIN fs = 1 .. Len(fs) /\ Len(fs) \in Nat /\ \A k \in DOMAIN fs : fs[k] \in Frame
  OBVIOUS
<1>2. ASSUME NEW k \in DOMAIN fs
      PROVE  HeaderBytes(k, fs[k]) \o PayloadBytes(k, fs[k]) \in Seq(InByte(fs))
  <2>1. fs[k] \in Frame
    OBVIOUS
  <2>2. HeaderLen(fs[k]) \in Nat
    BY <2>1 DEF Frame, HeaderLen, ExtLen, MaskLen
  <2>3. fs[k].sent \in Nat
    BY <2>1 DEF Frame
  <2>4. HeaderBytes(k, fs[k]) \in Seq(InByte(fs))
    BY <2>2 DEF HeaderBytes, InByte
  <2>5. \A i \in 1 .. fs[k].sent : (i - 1) % MaskLen \in Nat
    BY <2>3 DEF MaskLen
  <2>6. PayloadBytes(k, fs[k]) \in Seq(InByte(fs))
    <3> DEFINE n == fs[k].sent
               byte(i) == [part |-> "payload", frame |-> k, at |-> i, key |-> (i - 1) % MaskLen]
    <3>1. n \in Nat
      BY <2>3
    <3>2. ASSUME NEW i \in 1 .. n PROVE byte(i) \in InByte(fs)
      <4>1. i \in Nat /\ (i - 1) % MaskLen \in Nat
        BY <2>5, <3>1
      <4> DEFINE key == (i - 1) % MaskLen
      <4>2. key \in Nat
        BY <4>1
      <4> HIDE DEF key
      <4>3. [part |-> "payload", frame |-> k, at |-> i, key |-> key] \in InByte(fs)
        BY <4>1, <4>2 DEF InByte
      <4>4. QED
        BY <4>3 DEF key
    <3>3. PayloadBytes(k, fs[k]) = [i \in 1 .. n |-> byte(i)]
      BY DEF PayloadBytes
    <3> HIDE DEF n, byte
    <3>4. QED
      BY <3>1, <3>2, <3>3
  <2>7. QED
    BY <2>4, <2>6, ConcatAssociates
<1>3. parts \in Seq(Seq(InByte(fs)))
  BY <1>1, <1>2
<1>4. Stream(fs) = FlattenSeq(parts)
  BY DEF Stream
<1>5. QED
  BY <1>3, <1>4, FlattenSteps

LEMMA LesserOf ==
  ASSUME NEW m \in Int, NEW n \in Int
  PROVE  Min({m, n}) = IF m <= n THEN m ELSE n
BY DEF Min

LEMMA RemainderOfLess ==
  ASSUME NEW n \in Nat, NEW m \in Nat, n < m
  PROVE  n % m = n
OBVIOUS

LEMMA HeaderLenType == ASSUME NEW f \in Frame PROVE HeaderLen(f) \in 6 .. 14
BY DEF Frame, HeaderLen, ExtLen, MaskLen

(* How many of len bytes a header takes that has h bytes and needs others. *)
Fills(k, h, len, needed) ==
  /\ k \in 0 .. len
  /\ h <= needed => k + h <= needed
  /\ needed < h /\ h <= 14 => k = len \/ k + h > 14

LEMMA FillType ==
  ASSUME NEW p, NEW h \in Nat, Len(p.header) = h, NEW len \in Nat, NEW needed \in 0 .. 14
  PROVE  Fills(FillLen(p, len, needed), h, len, needed)
<1> DEFINE more == (needed - h) % Len64
           k == FillLen(p, len, needed)
<1>1. Len64 \in Nat /\ 14 < Len64
  BY WsDataAssumption DEF HeaderBufLen
<1>2. k = Min({len, more})
  BY DEF FillLen
<1> HIDE DEF k
<1>3. more \in Nat
  BY <1>1
<1>4. k = IF len <= more THEN len ELSE more
  BY <1>2, <1>3, LesserOf
<1>5. ASSUME h <= needed PROVE more = needed - h
  BY <1>1, <1>5, RemainderOfLess
<1>6. ASSUME needed < h, h <= 14 PROVE more = (needed - h) + Len64
  BY <1>1, <1>6
<1> HIDE DEF more
<1>7. k \in 0 .. len
  BY <1>3, <1>4
<1>8. ASSUME h <= needed PROVE k + h <= needed
  BY <1>4, <1>5, <1>8
<1>9. ASSUME needed < h, h <= 14 PROVE k = len \/ k + h > 14
  BY <1>1, <1>4, <1>6, <1>9
<1>10. QED
  BY <1>7, <1>8, <1>9 DEF Fills, k

(* What a step of the parser, given n bytes, may come to.                  *)
Outcomes == {"more", "invalid", "overrun", "lost", Text, Binary, Close, Ping, Pong}

Stepped(step, n) ==
  /\ step.parser \in Parsers(frames)
  /\ step.payload \in Seq(PayByte)
  /\ step.parsed \in 0 .. n
  /\ ParserFits(step.parser, step.payload)
  /\ step.outcome \in Outcomes
  /\ step.outcome \in {Text, Binary} => step.parser.state = "header"

LEMMA ResultSteps ==
  ASSUME NEW p \in Parsers(frames), NEW message \in Seq(PayByte), NEW n, NEW k \in 0 .. n,
         NEW what \in Outcomes, ParserFits(p, message),
         what \in {Text, Binary} => p.state = "header"
  PROVE  Stepped(Result(p, message, k, what), n)
BY DEF Stepped, Result

LEMMA HeaderGrows ==
  ASSUME NEW p \in Parsers(frames), NEW bytes \in Seq(InByte(frames)), NEW k \in 0 .. Len(bytes)
  PROVE  LET q == [p EXCEPT !.header = @ \o SubSeq(bytes, 1, k)]
         IN /\ q \in Parsers(frames)
            /\ Len(q.header) = Len(p.header) + k
            /\ q.lost = p.lost /\ q.state = p.state /\ q.len = p.len /\ q.read = p.read
            /\ q.opcode = p.opcode
<1> DEFINE more == SubSeq(bytes, 1, k)
           header == p.header \o more
           q == [p EXCEPT !.header = header]
<1>1. more \in Seq(InByte(frames)) /\ Len(more) = k
  BY SubSeqProperties
<1>2. p.header \in Seq(InByte(frames))
  BY DEF Parsers
<1> HIDE DEF more
<1>3. header \in Seq(InByte(frames)) /\ Len(header) = Len(p.header) + k
  BY <1>1, <1>2, ConcatProperties
<1> HIDE DEF header
<1>4. /\ q \in Parsers(frames) /\ q.header = header
      /\ q.lost = p.lost /\ q.state = p.state /\ q.len = p.len /\ q.read = p.read
      /\ q.opcode = p.opcode
  BY <1>3 DEF Parsers
<1>5. QED
  BY <1>3, <1>4 DEF header, more

LEMMA HeaderStep ==
  ASSUME NEW p \in Parsers(frames), NEW message \in Seq(PayByte),
         NEW bytes \in Seq(InByte(frames)), frames \in Seq(Frame),
         p.state = "header", ParserFits(p, message)
  PROVE  Stepped(DoHeader(frames, p, message, bytes), Len(bytes))
<1> DEFINE len == Len(bytes)
           h == Len(p.header)
           base == FillLen(p, len, 2)
           p1 == [p EXCEPT !.header = @ \o SubSeq(bytes, 1, base)]
           f == frames[p1.header[1].frame]
           k == FillLen(p1, len - base, HeaderLen(f))
           n == base + k
           p2 == [p EXCEPT !.header = @ \o SubSeq(bytes, 1, n)]
           away == [p1 EXCEPT !.lost = TRUE]
           done == [p2 EXCEPT !.lost = @ \/ Len(p2.header) > HeaderLen(f), !.state = "payload",
                              !.opcode = f.op, !.fin = f.fin, !.len = f.len, !.read = 0]
           step == DoHeader(frames, p, message, bytes)
           astray == p1.header[1].part # "header" \/ p1.header[1].at # 1
           valid == ValidHeader(p, f)
           tooLong == TooLong(message, f)
<1>1. len \in Nat /\ HeaderBufLen = 14 /\ Len64 \in Nat /\ 14 < Len64
  BY WsDataAssumption DEF HeaderBufLen
<1>2. step = IF Len(p1.header) > HeaderBufLen THEN Result(away, message, base, "overrun")
             ELSE IF Len(p1.header) < 2 THEN Result(p1, message, base, "more")
             ELSE IF astray THEN Result(p1, message, base, "lost")
             ELSE IF ~valid THEN Result(p1, message, base, "invalid")
             ELSE IF Len(p2.header) < HeaderLen(f) THEN Result(p2, message, n, "more")
             ELSE IF tooLong THEN Result(p2, message, n, "invalid")
             ELSE Result(done, message, n, "more")
  BY DEF DoHeader
<1>3. h \in Nat /\ p.read \in Nat /\ p.len \in Nat /\ p.lost \in BOOLEAN
  BY DEF Parsers
<1> HIDE DEF step, done, p2, n, k, valid, tooLong, astray, f, away
<1>4. Fills(base, h, len, 2)
  BY <1>1, <1>3, FillType
<1> HIDE DEF base
<1>5. base \in 0 .. len
  BY <1>4 DEF Fills
<1>6. /\ p1 \in Parsers(frames) /\ Len(p1.header) = h + base
      /\ p1.lost = p.lost /\ p1.state = "header" /\ p1.len = p.len /\ p1.read = p.read
  BY <1>5, HeaderGrows
<1> HIDE DEF p1
<1>7. /\ away \in Parsers(frames) /\ away.lost /\ away.read = p.read /\ away.len = p.len
  BY <1>6 DEF Parsers, away
<1>8. CASE h + base > 14
  <2>1. ParserFits(away, message)
    BY <1>7 DEF ParserFits, HeaderFits, MessageFits
  <2>2. step = Result(away, message, base, "overrun")
    BY <1>1, <1>2, <1>6, <1>8
  <2>3. QED
    BY <1>5, <1>7, <2>1, <2>2, ResultSteps DEF Outcomes, step, Text, Binary
<1>9. CASE h + base <= 14
  <2>1. ParserFits(p1, message)
    BY <1>1, <1>6, <1>9 DEF ParserFits, HeaderFits, MessageFits, Expected
  <2>2. /\ Stepped(Result(p1, message, base, "more"), len)
        /\ Stepped(Result(p1, message, base, "lost"), len)
        /\ Stepped(Result(p1, message, base, "invalid"), len)
    BY <1>5, <1>6, <2>1, ResultSteps DEF Outcomes
  <2>3. CASE h + base < 2 \/ astray \/ ~valid
    <3>1. \/ step = Result(p1, message, base, "more")
          \/ step = Result(p1, message, base, "lost")
          \/ step = Result(p1, message, base, "invalid")
      BY <1>1, <1>2, <1>6, <1>9, <2>3
    <3>2. QED
      BY <2>2, <3>1 DEF step
  <2>4. CASE h + base >= 2 /\ ~astray /\ valid
    <3>1. p1.header[1].frame \in DOMAIN frames
      <4>1. p1.header[1] \in InByte(frames)
        BY <1>3, <1>5, <1>6, <2>4 DEF Parsers
      <4>2. QED
        BY <4>1 DEF InByte
    <3>2. f \in Frame
      BY <3>1 DEF f
    <3>3. f.op \in Opcodes /\ f.fin \in BOOLEAN /\ f.len \in Nat
      BY <3>2 DEF Frame
    <3>4. HeaderLen(f) \in 6 .. 14
      BY <3>2, HeaderLenType
    <3>5. ~Wraps => f.len + MaxMessageLen < Len64
      <4>1. f.len \in Nat /\ MaxMessageLen \in Nat
        BY <3>3, WsDataAssumption
      <4>2. f = frames[p1.header[1].frame]
        BY DEF f
      <4>3. QED
        BY <1>1, <3>1, <4>1, <4>2 DEF Wraps
    <3>6. Fills(k, h + base, len - base, HeaderLen(f))
      <4>1. h + base \in Nat /\ len - base \in Nat /\ HeaderLen(f) \in 0 .. 14
        BY <1>1, <1>3, <1>5, <3>4
      <4>2. QED
        BY <1>6, <4>1, FillType DEF k
    <3>7. n \in 0 .. len /\ (h <= 14 => h + n <= 14)
      <4> DEFINE c == HeaderLen(f)
      <4>1. c \in 6 .. 14
        BY <3>4
      <4>2. Fills(k, h + base, len - base, c) /\ n = base + k
        BY <3>6 DEF n
      <4> HIDE DEF c, h, len
      <4>3. k \in 0 .. len - base /\ n \in 0 .. len
        BY <1>1, <1>5, <4>2 DEF Fills
      <4>4. CASE h <= 2
        BY <1>1, <1>3, <1>4, <1>5, <4>1, <4>2, <4>3, <4>4 DEF Fills
      <4>5. CASE 2 < h /\ h <= 14
        <5>1. base = len
          BY <1>3, <1>4, <1>5, <1>9, <4>5 DEF Fills
        <5>2. n = base
          BY <1>1, <4>2, <4>3, <5>1
        <5>3. QED
          BY <1>9, <4>3, <5>2
      <4>6. CASE h > 14
        BY <1>3, <4>3, <4>6
      <4>7. QED
        BY <1>3, <4>4, <4>5, <4>6
    <3>8. /\ p2 \in Parsers(frames) /\ Len(p2.header) = h + n
          /\ p2.lost = p.lost /\ p2.state = "header" /\ p2.len = p.len /\ p2.read = p.read
      BY <3>7, HeaderGrows DEF p2
    <3>9. HeaderFits(p2)
      <4>1. h <= 14 \/ p.lost
        BY <1>1 DEF ParserFits, HeaderFits
      <4>2. QED
        BY <1>1, <3>7, <3>8, <4>1 DEF HeaderFits
    <3>10. ParserFits(p2, message)
      BY <3>8, <3>9 DEF ParserFits, MessageFits, Expected
    <3>11. CASE h + n < HeaderLen(f)
      <4>1. step = Result(p2, message, n, "more")
        BY <1>1, <1>2, <1>6, <1>9, <2>4, <3>8, <3>11
      <4>2. QED
        BY <3>7, <3>8, <3>10, <4>1, ResultSteps DEF Outcomes, step
    <3>12. CASE ~(h + n < HeaderLen(f)) /\ tooLong
      <4>1. step = Result(p2, message, n, "invalid")
        BY <1>1, <1>2, <1>6, <1>9, <2>4, <3>8, <3>12
      <4>2. QED
        BY <3>7, <3>8, <3>10, <4>1, ResultSteps DEF Outcomes, step
    <3>13. CASE ~(h + n < HeaderLen(f)) /\ ~tooLong
      <4>1. step = Result(done, message, n, "more")
        BY <1>1, <1>2, <1>6, <1>9, <2>4, <3>8, <3>13
      <4>2. /\ done \in Parsers(frames) /\ done.header = p2.header
            /\ done.lost = (p2.lost \/ Len(p2.header) > HeaderLen(f))
            /\ done.state = "payload" /\ done.opcode = f.op /\ done.len = f.len /\ done.read = 0
        BY <3>3, <3>8 DEF Parsers, done
      <4>3. HeaderFits(done)
        BY <3>9, <4>2 DEF HeaderFits
      <4>4. MessageFits(done, message)
        <5>1. SUFFICES ASSUME ~done.lost, ~Wraps
                       PROVE  Len(message) + Expected(done) <= MaxMessageLen
          BY DEF MessageFits
        <5>2. ~p.lost
          BY <3>8, <4>2, <5>1
        <5>3. Len(message) \in Nat /\ MaxMessageLen \in Nat
          BY WsDataAssumption
        <5>4. Len(message) <= MaxMessageLen
          BY <5>1, <5>2, <5>3 DEF ParserFits, MessageFits, Expected
        <5>5. CASE IsControl(f.op)
          BY <4>2, <5>3, <5>4, <5>5 DEF Expected
        <5>6. CASE ~IsControl(f.op)
          <6> DEFINE sum == Len(message) + f.len
          <6>1. sum \in Nat /\ sum < Len64
            BY <1>1, <3>3, <3>5, <5>1, <5>3, <5>4
          <6>2. sum % Len64 = sum
            BY <1>1, <6>1, RemainderOfLess
          <6>3. ~(sum % Len64 > MaxMessageLen)
            BY <3>13, <5>6 DEF TooLong, tooLong
          <6>4. Expected(done) = f.len
            BY <3>3, <4>2, <5>6 DEF Expected
          <6>5. QED
            BY <5>3, <6>1, <6>2, <6>3, <6>4
        <5>7. QED
          BY <5>5, <5>6
      <4>5. ParserFits(done, message)
        BY <3>3, <4>2, <4>3, <4>4 DEF ParserFits
      <4>6. QED
        BY <3>7, <4>1, <4>2, <4>5, ResultSteps DEF Outcomes, step, Text, Binary
    <3>14. QED
      BY <3>11, <3>12, <3>13
  <2>5. QED
    BY <1>1, <1>3, <1>5, <2>3, <2>4
<1>10. QED
  BY <1>3, <1>5, <1>8, <1>9

LEMMA UnmaskType ==
  ASSUME NEW b \in InByte(frames), NEW read, frames \in Seq(Frame)
  PROVE  Unmask(b, read) \in PayByte
<1>1. DOMAIN frames \subseteq Nat
  OBVIOUS
<1>2. b.frame \in Nat /\ b.at \in Nat
  BY <1>1 DEF InByte
<1>3. QED
  BY <1>2 DEF Unmask, PayByte

LEMMA FrameDoneType ==
  ASSUME NEW p \in Parsers(frames)
  PROVE  /\ FrameDone(p) \in Parsers(frames)
         /\ FrameDone(p).state = "header" /\ FrameDone(p).header = <<>>
         /\ FrameDone(p).lost = p.lost
         /\ FrameDone(p).read = p.read /\ FrameDone(p).len = p.len
         /\ Completed(p) # None => Completed(p) \in {Text, Binary, Close, Ping, Pong}
<1> DEFINE message == IF IsControl(p.opcode) \/ p.opcode = Continuation
                      THEN p.message ELSE p.opcode
           next == IF p.fin /\ ~IsControl(p.opcode) THEN None ELSE message
<1>1. p.opcode \in Opcodes /\ p.message \in {None, Text, Binary}
  BY DEF Parsers
<1>2. next \in {None, Text, Binary}
  BY <1>1 DEF IsControl, Opcodes
<1>3. FrameDone(p) = [p EXCEPT !.state = "header", !.header = <<>>, !.message = next]
  BY DEF FrameDone
<1>4. Completed(p) # None => Completed(p) \in {Text, Binary, Close, Ping, Pong}
  BY <1>1 DEF Completed, IsControl, Opcodes
<1> HIDE DEF next
<1>5. <<>> \in Seq(InByte(frames))
  OBVIOUS
<1>6. QED
  BY <1>2, <1>3, <1>4, <1>5 DEF Parsers

LEMMA PayloadStep ==
  ASSUME NEW p \in Parsers(frames), NEW message \in Seq(PayByte),
         NEW bytes \in Seq(InByte(frames)), frames \in Seq(Frame),
         p.state = "payload", ParserFits(p, message)
  PROVE  Stepped(DoPayload(p, message, bytes), Len(bytes))
<1> DEFINE n == Min({Len(bytes), p.len - p.read})
           taken == [i \in 1 .. n |-> Unmask(bytes[i], p.read + i - 1)]
           q == [p EXCEPT !.read = @ + n]
           all == IF IsControl(p.opcode) THEN message ELSE message \o taken
           done == FrameDone(q)
           what == IF Completed(q) = None THEN "more" ELSE Completed(q)
           step == DoPayload(p, message, bytes)
<1>1. step = IF q.read < q.len THEN Result(q, all, n, "more") ELSE Result(done, all, n, what)
  BY DEF DoPayload
<1>2. /\ Len(bytes) \in Nat /\ Len(message) \in Nat /\ MaxMessageLen \in Nat
      /\ p.len \in Nat /\ p.read \in Nat /\ p.read <= p.len
  BY WsDataAssumption DEF Parsers, ParserFits
<1>3. n \in 0 .. Len(bytes) /\ p.read + n \in Nat /\ p.read + n <= p.len
  <2> DEFINE left == p.len - p.read
  <2>1. left \in Nat /\ p.read + left = p.len
    BY <1>2
  <2> HIDE DEF left
  <2>2. Min({Len(bytes), left}) = IF Len(bytes) <= left THEN Len(bytes) ELSE left
    <3>1. Len(bytes) \in Int /\ left \in Int
      BY <1>2, <2>1
    <3>2. QED
      BY <3>1, LesserOf
  <2>3. n = Min({Len(bytes), left})
    BY DEF left
  <2> HIDE DEF n
  <2>4. QED
    BY <1>2, <2>1, <2>2, <2>3
<1> HIDE DEF step, n, done, what
<1>4. q \in Parsers(frames) /\ q.read = p.read + n /\ q.len = p.len
      /\ q.lost = p.lost /\ q.state = "payload" /\ q.opcode = p.opcode /\ q.header = p.header
  BY <1>2, <1>3 DEF Parsers
<1> HIDE DEF q
<1>5. taken \in Seq(PayByte) /\ Len(taken) = n
  <2>1. \A i \in 1 .. n : bytes[i] \in InByte(frames)
    BY <1>2, <1>3
  <2>2. \A i \in 1 .. n : Unmask(bytes[i], p.read + i - 1) \in PayByte
    BY <2>1, UnmaskType
  <2>3. QED
    BY <1>2, <1>3, <2>2
<1> HIDE DEF taken
<1>6. message \o taken \in Seq(PayByte) /\ Len(message \o taken) = Len(message) + n
  BY <1>5, ConcatProperties
<1>7. /\ all \in Seq(PayByte) /\ Len(all) \in Nat
      /\ IsControl(p.opcode) => Len(all) = Len(message)
      /\ ~IsControl(p.opcode) => Len(all) = Len(message) + n
  BY <1>2, <1>3, <1>6
<1> HIDE DEF all
<1>8. HeaderFits(q)
  BY <1>4 DEF ParserFits, HeaderFits
<1>9. CASE q.read < q.len
  <2>1. MessageFits(q, all)
    <3>1. CASE IsControl(p.opcode)
      BY <1>4, <1>7, <3>1 DEF ParserFits, MessageFits, Expected
    <3>2. CASE ~IsControl(p.opcode)
      <4>1. Expected(q) = p.len - (p.read + n) /\ Expected(p) = p.len - p.read
        BY <1>4, <3>2 DEF Expected
      <4>2. Len(all) = Len(message) + n
        BY <1>7, <3>2
      <4>3. Len(all) + Expected(q) = Len(message) + Expected(p)
        BY <1>2, <1>3, <4>1, <4>2
      <4>4. QED
        BY <1>4, <4>3 DEF ParserFits, MessageFits
    <3>3. QED
      BY <3>1, <3>2
  <2>2. ParserFits(q, all)
    BY <1>3, <1>4, <1>8, <2>1 DEF ParserFits
  <2>3. QED
    BY <1>1, <1>3, <1>4, <1>7, <1>9, <2>2, ResultSteps DEF Outcomes, step, Text, Binary
<1>10. CASE ~(q.read < q.len)
  <2>1. /\ done \in Parsers(frames) /\ done.state = "header" /\ done.header = <<>>
        /\ done.lost = q.lost /\ done.read = q.read /\ done.len = q.len
    BY <1>4, FrameDoneType DEF done
  <2>2. what \in Outcomes
    BY <1>4, FrameDoneType DEF Outcomes, what
  <2>3. MessageFits(done, all)
    <3>1. Expected(done) = 0
      BY <2>1 DEF Expected
    <3>2. CASE IsControl(p.opcode)
      BY <1>2, <1>4, <1>7, <2>1, <3>1, <3>2 DEF ParserFits, MessageFits, Expected
    <3>3. CASE ~IsControl(p.opcode)
      BY <1>2, <1>3, <1>4, <1>7, <2>1, <3>1, <3>3 DEF ParserFits, MessageFits, Expected
    <3>4. QED
      BY <3>2, <3>3
  <2>4. ParserFits(done, all)
    BY <1>2, <1>3, <1>4, <2>1, <2>3 DEF ParserFits, HeaderFits, HeaderBufLen
  <2>5. QED
    BY <1>1, <1>3, <1>7, <1>10, <2>1, <2>2, <2>4, ResultSteps DEF step
<1>11. QED
  BY <1>9, <1>10

-----------------------------------------------------------------------------
(* What is received and what becomes of it.                                *)
Receiving ==
  /\ frames \in FrameSeqs
  /\ cut \in 0 .. Len(Streams[frames])
  /\ wsPc \in WsPlaces
  /\ data \in Seq(InByte(frames))
  /\ parser \in Parsers(frames)
  /\ payload \in Seq(PayByte)
  /\ ParserFits(parser, payload)
  /\ got \in Seq(Messages)
  /\ wsPc = "data" => parser.state = "header" /\ got # <<>>
  /\ closing \in BOOLEAN /\ sending \in BOOLEAN /\ opDone \in BOOLEAN
  /\ wsEnd \in {"", "invalid", "handler", "error", "drained"}

LEMMA FramesAre ==
  ASSUME frames \in FrameSeqs
  PROVE  /\ frames \in Seq(Frame)
         /\ Streams[frames] \in Seq(InByte(frames))
         /\ Len(Streams[frames]) \in Nat
<1>1. frames \in Seq(Frame)
  BY WsDataAssumption
<1>2. Streams[frames] = Stream(frames)
  BY DEF Streams
<1>3. QED
  BY <1>1, <1>2, StreamType

LEMMA ReceivingInit == WsInit => Receiving
<1> SUFFICES ASSUME WsInit PROVE Receiving
  OBVIOUS
<1>1. Len(Streams[frames]) \in Nat
  BY FramesAre DEF WsInit
<1>2. NewParser \in Parsers(frames)
  BY DEF NewParser, Parsers, Opcodes
<1>3. ParserFits(NewParser, <<>>)
  BY WsDataAssumption DEF NewParser, ParserFits, HeaderFits, MessageFits, Expected, HeaderBufLen
<1>4. data \in Seq(InByte(frames)) /\ payload \in Seq(PayByte) /\ got \in Seq(Messages)
  <2>1. data = <<>> /\ payload = <<>> /\ got = <<>>
    BY DEF WsInit
  <2>2. \A S : <<>> \in Seq(S)
    OBVIOUS
  <2>3. QED
    BY <2>1, <2>2
<1>5. parser \in Parsers(frames) /\ ParserFits(parser, payload)
  BY <1>2, <1>3 DEF WsInit
<1>6. /\ frames \in FrameSeqs /\ cut = 0 /\ wsPc = "idle" /\ wsEnd = ""
      /\ closing \in BOOLEAN /\ sending \in BOOLEAN /\ opDone \in BOOLEAN
  BY DEF WsInit
<1>7. cut \in 0 .. Len(Streams[frames])
  <2> DEFINE n == Len(Streams[frames])
  <2>1. cut = 0
    BY <1>6
  <2>2. n \in Nat
    BY <1>1
  <2> HIDE DEF n
  <2>3. cut \in 0 .. n
    BY <2>1, <2>2
  <2>4. QED
    BY <2>3 DEF n
<1>8. wsPc \in WsPlaces /\ wsPc # "data"
  BY <1>6 DEF WsPlaces
<1>9. wsEnd \in {"", "invalid", "handler", "error", "drained"}
  BY <1>6
<1>10. QED
  BY <1>4, <1>5, <1>6, <1>7, <1>8, <1>9 DEF Receiving

LEMMA ParseSteps ==
  ASSUME Receiving
  PROVE  Stepped(ParseNext(frames, parser, payload, data), Len(data))
<1>1. frames \in Seq(Frame)
  BY FramesAre DEF Receiving
<1>2. parser.state \in {"header", "payload"}
  BY DEF Receiving, Parsers
<1>3. QED
  BY <1>1, <1>2, HeaderStep, PayloadStep DEF ParseNext, Receiving


(* The flags of the send path.                                             *)
Flags == closing \in BOOLEAN /\ sending \in BOOLEAN /\ opDone \in BOOLEAN

Ending == wsEnd \in {"", "invalid", "handler", "error", "drained"}

LEMMA ReceivingNext ==
  ASSUME frames \in FrameSeqs, frames' = frames, cut' \in 0 .. Len(Streams[frames]),
         wsPc' \in WsPlaces, data' \in Seq(InByte(frames)), parser' \in Parsers(frames),
         payload' \in Seq(PayByte), ParserFits(parser', payload'), got' \in Seq(Messages),
         wsPc' = "data" => parser'.state = "header" /\ got' # <<>>,
         Flags', Ending'
  PROVE  Receiving'
<1>1. frames' \in FrameSeqs /\ Streams'[frames'] = Streams[frames]
  BY DEF Streams
<1>2. InByte(frames') = InByte(frames) /\ Parsers(frames') = Parsers(frames)
  OBVIOUS
<1>3. Wraps' = Wraps
  BY DEF Wraps
<1>4. ParserFits(parser, payload)'
  BY <1>3 DEF ParserFits, HeaderFits, MessageFits
<1>5. QED
  BY <1>1, <1>2, <1>4 DEF Receiving, Flags, Ending

LEMMA AttemptSays ==
  ASSUME NEW o, NEW n, Attempt(o, n)
  PROVE  opDone' \in BOOLEAN
<1>1. \A x : T!Finished(x) \in BOOLEAN
  BY DEF T!Finished
<1>2. QED
  BY <1>1 DEF Attempt

LEMMA DrainSays ==
  ASSUME Drain
  PROVE  sending' \in BOOLEAN /\ opDone' \in BOOLEAN
<1>1. CASE R!Peek(ring') = <<>>
  BY <1>1 DEF Drain
<1>2. CASE R!Peek(ring') # <<>>
  <2>1. sending' = TRUE
        /\ \E n \in 0 .. T!IovBytes(R!Peek(ring')) : Attempt(T!SendVec(R!Peek(ring')), n)
    BY <1>2 DEF Drain
  <2>2. opDone' \in BOOLEAN
    BY <2>1, AttemptSays
  <2>3. QED
    BY <2>1, <2>2
<1>3. QED
  BY <1>1, <1>2

LEMMA QueueSays ==
  ASSUME NEW f, Queued(f) \/ NotQueued(f), sending \in BOOLEAN, opDone \in BOOLEAN
  PROVE  sending' \in BOOLEAN /\ opDone' \in BOOLEAN
<1>1. CASE NotQueued(f)
  BY <1>1 DEF NotQueued, outVars
<1>2. CASE Queued(f)
  BY <1>2, DrainSays DEF Queued
<1>3. QED
  BY <1>1, <1>2

(* What a step of the parser leaves, whatever becomes of it.               *)
LEMMA TakenKeeps ==
  ASSUME Receiving, NEW step, Stepped(step, Len(data)), Taken(step)
  PROVE  /\ frames' = frames /\ cut' = cut
         /\ data' \in Seq(InByte(frames)) /\ parser' \in Parsers(frames)
         /\ payload' \in Seq(PayByte) /\ ParserFits(parser', payload')
         /\ parser' = step.parser
<1>1. SubSeq(data, step.parsed + 1, Len(data)) \in Seq(InByte(frames))
  <2>1. data \in Seq(InByte(frames)) /\ step.parsed \in 0 .. Len(data)
    BY DEF Receiving, Stepped
  <2>2. QED
    BY <2>1, SubSeqProperties
<1>2. QED
  BY <1>1 DEF Taken, Stepped

LEMMA ParseKeeps ==
  ASSUME Receiving, ParseStep
  PROVE  Receiving'
<1> DEFINE step == ParseNext(frames, parser, payload, data)
<1>1. Stepped(step, Len(data))
  BY ParseSteps
<1>2. \/ More(step) \/ PingOrPong(step) \/ Invalid(step)
      \/ PeerCloses(step) \/ Message(step) \/ Astray(step)
  BY DEF ParseStep
<1>3. wsPc = "received" /\ wsEnd = ""
  BY DEF ParseStep
<1> HIDE DEF step
<1>4. Taken(step)
  BY <1>2 DEF More, PingOrPong, Invalid, PeerCloses, Message, Astray
<1>5. /\ frames' = frames /\ cut' = cut
      /\ data' \in Seq(InByte(frames)) /\ parser' \in Parsers(frames)
      /\ payload' \in Seq(PayByte) /\ ParserFits(parser', payload')
      /\ parser' = step.parser
  BY <1>1, <1>4, TakenKeeps
<1>6. frames \in FrameSeqs /\ cut' \in 0 .. Len(Streams[frames])
  BY <1>5 DEF Receiving
<1>8. got' \in Seq(Messages) /\ (wsPc' = "data" => parser'.state = "header" /\ got' # <<>>)
  <2>1. CASE Message(step)
    <3> DEFINE m == [type |-> step.outcome, payload |-> payload']
    <3>1. step.outcome \in {Text, Binary}
      BY <2>1 DEF Message
    <3>2. m \in Messages
      BY <1>5, <3>1 DEF Messages
    <3>3. got' = Append(got, m)
      BY <2>1 DEF Message
    <3>4. parser'.state = "header"
      BY <1>1, <1>5, <3>1 DEF Stepped
    <3> HIDE DEF m
    <3>5. got \in Seq(Messages)
      BY DEF Receiving
    <3>6. Append(got, m) \in Seq(Messages) /\ Append(got, m) # <<>>
      BY <3>2, <3>5, AppendProperties
    <3>7. QED
      BY <3>3, <3>4, <3>6
  <2>2. CASE ~Message(step)
    <3>1. got' = got /\ wsPc' # "data"
      BY <1>2, <2>2 DEF More, PingOrPong, Invalid, PeerCloses, Astray, Onward
    <3>2. QED
      BY <3>1 DEF Receiving
  <2>3. QED
    BY <2>1, <2>2
<1>9. wsPc' \in WsPlaces
  BY <1>2 DEF More, PingOrPong, Invalid, PeerCloses, Message, Astray, Onward, WsPlaces
<1>10. Ending'
  BY <1>2, <1>3 DEF More, PingOrPong, Invalid, PeerCloses, Message, Astray, Ending
<1>11. Flags'
  <2>1. CASE PeerCloses(step)
    BY <2>1, QueueSays DEF PeerCloses, Flags, Receiving
  <2>2. CASE ~PeerCloses(step)
    <3>1. UNCHANGED <<closing, sending, opDone>>
      BY <1>2, <2>2 DEF More, PingOrPong, Invalid, Message, Astray, outVars
    <3>2. QED
      BY <3>1 DEF Flags, Receiving
  <2>3. QED
    BY <2>1, <2>2
<1>12. QED
  BY <1>5, <1>6, <1>8, <1>9, <1>10, <1>11, ReceivingNext

LEMMA ReceivingStep == Receiving /\ [WsNext]_wsDataVars => Receiving'
<1> SUFFICES ASSUME Receiving, [WsNext]_wsDataVars PROVE Receiving'
  OBVIOUS
<1>0. /\ frames \in FrameSeqs /\ cut \in 0 .. Len(Streams[frames]) /\ wsPc \in WsPlaces
      /\ data \in Seq(InByte(frames)) /\ parser \in Parsers(frames)
      /\ payload \in Seq(PayByte) /\ ParserFits(parser, payload) /\ got \in Seq(Messages)
      /\ wsPc = "data" => parser.state = "header" /\ got # <<>>
      /\ Flags /\ Ending
      /\ sending \in BOOLEAN /\ opDone \in BOOLEAN /\ closing \in BOOLEAN
  BY DEF Receiving, Flags, Ending
<1>1. CASE UNCHANGED wsDataVars
  <2>1. UNCHANGED <<inVars, closing, sending, opDone, wsEnd>>
    BY <1>1 DEF wsDataVars, outVars
  <2>2. Flags' /\ Ending'
    BY <1>0, <2>1 DEF Flags, Ending
  <2>3. QED
    BY <1>0, <2>1, <2>2, ReceivingNext DEF inVars
<1>2. ASSUME NEW n \in 1 .. Len(Streams[frames]), Receive(n) PROVE Receiving'
  <2>1. UNCHANGED <<frames, parser, payload, got, sending, opDone, closing, wsEnd>>
    BY <1>2 DEF Receive, outVars
  <2> DEFINE all == Streams[frames]
             total == Len(all)
  <2>2. total \in Nat /\ cut \in 0 .. total /\ n \in 1 .. total
        /\ all \in Seq(InByte(frames))
    BY <1>0, FramesAre
  <2>3. cut' = cut + n /\ cut + n <= total /\ data' = SubSeq(all, cut + 1, cut + n)
    BY <1>2 DEF Receive
  <2> HIDE DEF all
  <2>4. SubSeq(all, cut + 1, cut + n) \in Seq(InByte(frames))
    BY <2>2, <2>3, SubSeqProperties
  <2>5. cut' \in 0 .. total
    BY <2>2, <2>3
  <2>6. wsPc' = "received"
    BY <1>2 DEF Receive
  <2>7. Flags' /\ Ending'
    BY <1>0, <2>1 DEF Flags, Ending
  <2>8. cut' \in 0 .. Len(Streams[frames])
    BY <2>5 DEF all
  <2>9. QED
    BY <1>0, <2>1, <2>3, <2>4, <2>6, <2>7, <2>8, ReceivingNext DEF WsPlaces
<1>3. CASE ParseStep
  BY <1>3, ParseKeeps
<1>4. CASE Echo
  <2>1. /\ UNCHANGED <<frames, cut, data, parser, got, closing>>
        /\ payload' = <<>> /\ wsPc = "data"
    BY <1>4 DEF Echo
  <2>2. wsPc' \in WsPlaces /\ wsPc' # "data"
    BY <1>4 DEF Echo, Onward, WsPlaces
  <2>3. Ending'
    BY <1>0, <1>4 DEF Echo, Ending
  <2>4. sending' \in BOOLEAN /\ opDone' \in BOOLEAN
    BY <1>0, <1>4, QueueSays DEF Echo
  <2>5. Flags'
    BY <1>0, <2>1, <2>4 DEF Flags
  <2>6. payload' \in Seq(PayByte) /\ Len(payload') = 0
    BY <2>1
  <2>7. Expected(parser) = 0
    BY <1>0, <2>1 DEF Expected
  <2>8. MessageFits(parser, payload')
    BY <2>6, <2>7, WsDataAssumption DEF MessageFits
  <2>9. ParserFits(parser', payload')
    BY <1>0, <2>1, <2>8 DEF ParserFits
  <2>10. QED
    BY <1>0, <2>1, <2>2, <2>3, <2>5, <2>6, <2>9, ReceivingNext
<1>5. ASSUME UNCHANGED <<inVars, closing>>, Ending', sending' \in BOOLEAN, opDone' \in BOOLEAN
      PROVE  Receiving'
  <2>1. Flags'
    BY <1>0, <1>5 DEF Flags
  <2>2. QED
    BY <1>0, <1>5, <2>1, ReceivingNext DEF inVars
<1>6. ASSUME NEW n, SendReady(n) PROVE Receiving'
  <2>1. UNCHANGED <<inVars, closing, wsEnd, sending>> /\ opDone' \in BOOLEAN
    BY <1>6, AttemptSays DEF SendReady
  <2>2. QED
    BY <1>0, <1>5, <2>1 DEF Ending
<1>7. CASE HandleSend
  <2>1. UNCHANGED <<inVars, closing>> /\ sending' \in BOOLEAN /\ opDone' \in BOOLEAN
    BY <1>7, DrainSays DEF HandleSend
  <2>2. Ending'
    BY <1>7 DEF HandleSend, Ending
  <2>3. QED
    BY <1>5, <2>1, <2>2
<1>8. CASE Fails
  <2>1. UNCHANGED <<inVars, closing, sending, opDone>>
    BY <1>8 DEF Fails, outVars
  <2>2. Ending'
    BY <1>8 DEF Fails, Ending
  <2>3. QED
    BY <1>0, <1>5, <2>1, <2>2
<1>9. QED
  BY <1>1, <1>2, <1>3, <1>4, <1>6, <1>7, <1>8
  DEF WsNext, Consume, WsSend

(* However a message is cut into frames and receives, no more of it than   *)
(* the limit is ever kept.                                                 *)
LEMMA ReceivingLimits ==
  ASSUME Receiving, ~parser.lost, ~Wraps
  PROVE  Len(payload) <= MaxMessageLen
<1>1. Len(payload) + Expected(parser) <= MaxMessageLen
  BY DEF Receiving, ParserFits, MessageFits
<1>2. Expected(parser) \in Nat
  <2>1. parser \in Parsers(frames) /\ parser.read <= parser.len
    BY DEF Receiving, ParserFits
  <2>2. parser.read \in Nat /\ parser.len \in Nat
    BY <2>1 DEF Parsers
  <2>3. QED
    BY <2>1, <2>2 DEF Expected
<1>3. payload \in Seq(PayByte) /\ MaxMessageLen \in Nat
  BY WsDataAssumption DEF Receiving
<1>4. QED
  BY <1>1, <1>2, <1>3

-----------------------------------------------------------------------------
(* Positions in the buffer of a chunk.                                     *)

(* The remainder of any number, and what it is the remainder of.           *)
LEMMA Remainders ==
  ASSUME NEW a \in Int, NEW c \in Nat \ {0}
  PROVE  a % c \in 0 .. c - 1 /\ \E q \in Int : a = q * c + (a % c)
<1>1. a % c \in 0 .. c - 1
  OBVIOUS
<1>2. a \div c \in Int /\ a = (a \div c) * c + (a % c)
  OBVIOUS
<1>3. QED
  BY <1>1, <1>2

(* The remainder of a number that is given as a multiple and a rest.       *)
LEMMA RemainderIs ==
  ASSUME NEW c \in Nat \ {0}, NEW q \in Int, NEW r \in 0 .. c - 1
  PROVE  (q * c + r) % c = r
<1> DEFINE a == q * c + r
           s == a % c
<1>1. a \in Int
  OBVIOUS
<1>2. PICK p \in Int : a = p * c + s
  BY <1>1, Remainders
<1>3. s \in 0 .. c - 1
  BY <1>1, Remainders
<1>4. (p - q) * c = r - s
  BY <1>1, <1>2, <1>3
<1> HIDE DEF s
<1>5. p - q = 0
  <2>1. CASE p - q >= 1
    <3>1. (p - q) * c >= c
      BY <2>1
    <3>2. QED
      BY <1>3, <1>4, <3>1
  <2>2. CASE p - q <= -1
    <3>1. (q - p) * c >= c
      BY <2>2
    <3>2. (q - p) * c = s - r
      BY <1>3, <1>4
    <3>3. QED
      BY <1>3, <3>1, <3>2
  <2>3. QED
    BY <2>1, <2>2
<1>6. r = s
  BY <1>3, <1>4, <1>5
<1>7. QED
  BY <1>6 DEF s

(* The position that lies k behind another.                                *)
LEMMA RemainderMoves ==
  ASSUME NEW c \in Nat \ {0}, NEW a \in Nat, NEW k \in 0 .. c
  PROVE  (a + k) % c = IF (a % c) + k < c THEN (a % c) + k ELSE (a % c) + k - c
<1> DEFINE r == a % c
<1>0. a \in Int
  OBVIOUS
<1>1. PICK q \in Int : a = q * c + r
  BY <1>0, Remainders
<1>2. r \in 0 .. c - 1
  BY <1>0, Remainders
<1> HIDE DEF r
<1>3. CASE r + k < c
  <2>1. r + k \in 0 .. c - 1 /\ a + k = q * c + (r + k)
    BY <1>1, <1>2, <1>3
  <2>2. (q * c + (r + k)) % c = r + k
    BY <2>1, RemainderIs
  <2>3. QED
    BY <1>3, <2>1, <2>2 DEF r
<1>4. CASE ~(r + k < c)
  <2>1. r + k - c \in 0 .. c - 1
    BY <1>2, <1>4
  <2>2. a + k = (q + 1) * c + (r + k - c)
    BY <1>1, <1>2
  <2>3. ((q + 1) * c + (r + k - c)) % c = r + k - c
    BY <2>1, RemainderIs
  <2>4. QED
    BY <1>4, <2>2, <2>3 DEF r
<1>5. QED
  BY <1>3, <1>4

(* How far a position is behind another, going around.                     *)
LEMMA RemainderOfDifference ==
  ASSUME NEW c \in Nat \ {0}, NEW a \in Nat, NEW b \in Nat, NEW k \in 0 .. c - 1, a = b + k \/ a + c = b + k
  PROVE  ((a % c) - b) % c = k
<1> DEFINE r == a % c
<1>0. a \in Int
  OBVIOUS
<1>1. PICK q \in Int : a = q * c + r
  BY <1>0, Remainders
<1>2. r \in 0 .. c - 1
  BY <1>0, Remainders
<1> HIDE DEF r
<1>3. CASE a = b + k
  <2>1. r - b = (-q) * c + k
    BY <1>1, <1>2, <1>3
  <2>2. -q \in Int
    OBVIOUS
  <2>3. QED
    BY <2>1, <2>2, RemainderIs DEF r
<1>4. CASE a + c = b + k
  <2>1. r - b = (-q - 1) * c + k
    BY <1>1, <1>2, <1>4
  <2>2. -q - 1 \in Int
    OBVIOUS
  <2>3. QED
    BY <2>1, <2>2, RemainderIs DEF r
<1>5. QED
  BY <1>3, <1>4

LEMMA RingMin ==
  ASSUME NEW U, U \subseteq Nat, U # {}
  PROVE  R!Min(U) \in U /\ \A y \in U : R!Min(U) <= y
<1>1. \E x \in U : \A y \in U : x <= y
  BY LeastNat
<1>2. QED
  BY <1>1 DEF R!Min

LEMMA RingLesser ==
  ASSUME NEW m \in Int, NEW n \in Int
  PROVE  /\ R!Min({m, n}) = IF m <= n THEN m ELSE n
         /\ R!Max({m, n}) = IF m <= n THEN n ELSE m
BY DEF R!Min, R!Max

(* One of the n + 1 addresses is not in use by n chunks.                   *)
LEMMA FreshIdIs ==
  ASSUME NEW r, NEW S, r.chunks \in Seq(S)
  PROVE  R!FreshId(r) \in Nat /\ \A k \in DOMAIN r.chunks : R!FreshId(r) # r.chunks[k].id
<1> DEFINE n == Len(r.chunks)
           used == {r.chunks[k].id : k \in DOMAIN r.chunks}
           free == (0 .. n) \ used
           f == [k \in 1 .. n |-> r.chunks[k].id]
<1>1. n \in Nat /\ DOMAIN r.chunks = 1 .. n
  OBVIOUS
<1>2. IsFiniteSet(1 .. n) /\ Cardinality(1 .. n) = n
      /\ IsFiniteSet(0 .. n) /\ Cardinality(0 .. n) = n + 1
  BY <1>1, FS_Interval
<1>3. f \in Surjection(1 .. n, used)
  BY <1>1 DEF Surjection
<1>4. IsFiniteSet(used) /\ Cardinality(used) <= n /\ Cardinality(used) \in Nat
  BY <1>2, <1>3, FS_Surjection, FS_CardinalityType
<1>5. ASSUME free = {} PROVE FALSE
  <2>1. 0 .. n \in SUBSET used
    BY <1>5
  <2>2. Cardinality(0 .. n) <= Cardinality(used)
    BY <1>4, <2>1, FS_Subset
  <2>3. QED
    BY <1>1, <1>2, <1>4, <2>2
<1>6. free \subseteq Nat
  BY <1>1
<1>7. R!FreshId(r) = R!Min(free)
  BY DEF R!FreshId
<1> HIDE DEF free
<1>8. R!FreshId(r) \in free
  BY <1>5, <1>6, <1>7, RingMin
<1>9. QED
  BY <1>8, <1>6 DEF free


-----------------------------------------------------------------------------
(* What goes out: the frames of this side and their bytes.                 *)
OutFrame == [type : {Text, Binary, Close}, payload : Seq(PayByte)]

OutByte == UNION {{Encoded(f)[i] : i \in DOMAIN Encoded(f)} : f \in OutFrame}

(* A header is bytes, two at least; so a frame is never empty on the       *)
(* wire.                                                                   *)
LEMMA DigitsAre ==
  ASSUME NEW k \in Nat, NEW number
  PROVE  \E S : NumberDigits(Radix, k, number) \in Seq(S)
<1> DEFINE digits == NumberDigits(Radix, k, number)
<1>1. digits = [i \in 1 .. k |-> digits[i]]
  BY DEF NumberDigits
<1> HIDE DEF digits
<1> DEFINE S == {digits[i] : i \in 1 .. k}
<1>2. digits \in [1 .. k -> S]
  BY <1>1
<1>3. digits \in Seq(S)
  BY <1>2
<1>4. QED
  BY <1>3 DEF digits

LEMMA HeaderIs ==
  ASSUME NEW type, NEW n \in Nat
  PROVE  \E S : HeaderWrite(Radix, type, n) \in Seq(S) /\ Len(HeaderWrite(Radix, type, n)) >= 2
<1> DEFINE header == HeaderWrite(Radix, type, n)
           first == <<type, 0, 0>>
           short == <<first, <<"len", n, 0>>>>
           two == <<first, <<"marker", 2, 0>>>>
           eight == <<first, <<"marker", 8, 0>>>>
<1>1. Len7Max \in Nat /\ Len16Max \in Nat /\ Len7Max <= Len16Max
  BY WsDataAssumption
<1>2. header = CASE n <= Len7Max -> short
                 [] n > Len7Max /\ n <= Len16Max -> two \o NumberDigits(Radix, 2, n)
                 [] n > Len16Max -> eight \o NumberDigits(Radix, 8, n)
  BY DEF HeaderWrite
<1>3. /\ short \in Seq({first, <<"len", n, 0>>}) /\ Len(short) = 2
      /\ two \in Seq({first, <<"marker", 2, 0>>}) /\ Len(two) = 2
      /\ eight \in Seq({first, <<"marker", 8, 0>>}) /\ Len(eight) = 2
  OBVIOUS
<1> HIDE DEF header
<1> SUFFICES \E S : header \in Seq(S) /\ Len(header) >= 2
  BY DEF header
<1>4. CASE n <= Len7Max
  <2>1. header = short
    BY <1>1, <1>2, <1>4
  <2> DEFINE S == {first, <<"len", n, 0>>}
  <2>2. short \in Seq(S) /\ Len(short) = 2
    BY <1>3
  <2> HIDE DEF short, S
  <2>3. QED
    BY <2>1, <2>2
<1>5. ASSUME NEW pair, NEW S1, pair \in Seq(S1), Len(pair) = 2, NEW digits, NEW S2, digits \in Seq(S2),
             header = pair \o digits
      PROVE  \E S : header \in Seq(S) /\ Len(header) >= 2
  <2> DEFINE S == S1 \union S2
  <2>1. pair \in Seq(S) /\ digits \in Seq(S)
    BY <1>5
  <2> HIDE DEF S
  <2> DEFINE all == pair \o digits
  <2>2. all \in Seq(S) /\ Len(all) = Len(pair) + Len(digits)
    BY <2>1, ConcatProperties
  <2>3. Len(digits) \in Nat /\ header = all
    BY <1>5, <2>1
  <2> HIDE DEF all
  <2>4. QED
    BY <1>5, <2>2, <2>3
<1>6. CASE n > Len7Max /\ n <= Len16Max
  <2>1. PICK S2 : NumberDigits(Radix, 2, n) \in Seq(S2)
    BY DigitsAre
  <2>2. header = two \o NumberDigits(Radix, 2, n)
    BY <1>1, <1>2, <1>6
  <2> HIDE DEF two
  <2>3. QED
    BY <1>3, <1>5, <2>1, <2>2
<1>7. CASE n > Len16Max
  <2>1. PICK S2 : NumberDigits(Radix, 8, n) \in Seq(S2)
    BY DigitsAre
  <2>2. header = eight \o NumberDigits(Radix, 8, n)
    BY <1>1, <1>2, <1>7
  <2> HIDE DEF eight
  <2>3. QED
    BY <1>3, <1>5, <2>1, <2>2
<1>8. QED
  BY <1>1, <1>4, <1>6, <1>7

LEMMA EncodedType ==
  ASSUME NEW f \in OutFrame
  PROVE  Encoded(f) \in Seq(OutByte) /\ Len(Encoded(f)) \in Nat \ {0}
<1> DEFINE n == Len(f.payload)
           header == HeaderWrite(Radix, f.type, n)
           bytes == Encoded(f)
<1>1. f.payload \in Seq(PayByte) /\ n \in Nat
  BY DEF OutFrame
<1>2. PICK S1 : header \in Seq(S1) /\ Len(header) >= 2
  BY <1>1, HeaderIs
<1>3. bytes = header \o f.payload
  BY DEF Encoded
<1> HIDE DEF header, bytes
<1> DEFINE S == S1 \union PayByte
<1>4. header \in Seq(S) /\ f.payload \in Seq(S)
  BY <1>1, <1>2
<1>5. bytes \in Seq(S) /\ Len(bytes) = Len(header) + n
  BY <1>3, <1>4, ConcatProperties
<1>6. Len(bytes) \in Nat \ {0}
  BY <1>1, <1>2, <1>5
<1>7. \A i \in DOMAIN bytes : bytes[i] \in OutByte
  BY DEF OutByte, bytes
<1>8. bytes \in Seq(OutByte)
  BY <1>5, <1>7
<1>9. QED
  BY <1>6, <1>8 DEF bytes

-----------------------------------------------------------------------------
(* A chunk, and the bytes between its head and its tail.                   *)
OutCell == OutByte \union {<<"none", 0, 0>>}

Held(c) == [i \in 1 .. R!ChunkLen(c) |-> c.data[(c.head + i - 1) % c.capacity]]

Chunks ==
  [id : Nat, capacity : Nat \ {0}, head : Nat, tail : Nat,
   data : UNION {[0 .. n - 1 -> OutCell] : n \in Nat}]

Chunk ==
  {c \in Chunks :
     /\ c.head <= c.tail /\ R!ChunkLen(c) <= c.capacity
     /\ c.data \in [0 .. c.capacity - 1 -> OutCell]
     /\ Held(c) \in Seq(OutByte)}

(* What holds of every chunk; its bytes are as many as its length says.    *)
LEMMA ChunkIs ==
  ASSUME NEW c \in Chunk
  PROVE  /\ c.id \in Nat /\ c.capacity \in Nat \ {0} /\ c.head \in Nat /\ c.tail \in Nat
         /\ R!ChunkLen(c) \in 0 .. c.capacity /\ R!ChunkLen(c) = c.tail - c.head
         /\ c.tail = c.head + R!ChunkLen(c)
         /\ Held(c) \in Seq(OutByte) /\ Len(Held(c)) = R!ChunkLen(c)
         /\ c.data \in [0 .. c.capacity - 1 -> OutCell]
<1>1. /\ c.id \in Nat /\ c.capacity \in Nat \ {0} /\ c.head \in Nat /\ c.tail \in Nat
      /\ c.head <= c.tail /\ R!ChunkLen(c) <= c.capacity
      /\ c.data \in [0 .. c.capacity - 1 -> OutCell]
      /\ Held(c) \in Seq(OutByte)
  BY DEF Chunk, Chunks
<1>2. R!ChunkLen(c) = c.tail - c.head
  BY DEF R!ChunkLen
<1>3. R!ChunkLen(c) \in 0 .. c.capacity
  BY <1>1, <1>2
<1>4. Len(Held(c)) = R!ChunkLen(c)
  BY <1>3 DEF Held
<1>5. QED
  BY <1>1, <1>2, <1>3, <1>4

(* A new chunk holds nothing and is all free.                              *)
LEMMA NewChunkIs ==
  ASSUME NEW id \in Nat, NEW capacity \in Nat \ {0}
  PROVE  /\ R!NewChunk(id, capacity) \in Chunk /\ Held(R!NewChunk(id, capacity)) = <<>>
         /\ R!FreeSpace(R!NewChunk(id, capacity)) = capacity
<1> DEFINE c == R!NewChunk(id, capacity)
           cells == [i \in 0 .. capacity - 1 |-> <<"none", 0, 0>>]
<1>1. c = [id |-> id, capacity |-> capacity, head |-> 0, tail |-> 0, data |-> cells]
  BY DEF R!NewChunk
<1>2. cells \in [0 .. capacity - 1 -> OutCell]
  BY DEF OutCell
<1>3. cells \in UNION {[0 .. n - 1 -> OutCell] : n \in Nat}
  BY <1>2
<1> HIDE DEF cells, c
<1>4. c \in Chunks
  BY <1>1, <1>3 DEF Chunks
<1>5. R!ChunkLen(c) = 0
  BY <1>1 DEF R!ChunkLen
<1>6. Held(c) = <<>>
  BY <1>5 DEF Held
<1>7. <<>> \in Seq(OutByte)
  OBVIOUS
<1>8. c \in Chunk
  BY <1>1, <1>2, <1>4, <1>5, <1>6, <1>7 DEF Chunk
<1>9. R!FreeSpace(c) = capacity
  BY <1>1, <1>5 DEF R!FreeSpace
<1>10. QED
  BY <1>6, <1>8, <1>9 DEF c


LEMMA SameSeqs ==
  ASSUME NEW S, NEW s \in Seq(S), NEW t \in Seq(S), Len(s) = Len(t),
         \A i \in 1 .. Len(s) : s[i] = t[i]
  PROVE  s = t
OBVIOUS

(* What is written follows what is there, and moves none of it.            *)
LEMMA ChunkWritten ==
  ASSUME NEW c \in Chunk, NEW bytes \in Seq(OutByte), Len(bytes) <= R!FreeSpace(c)
  PROVE  LET w == R!ChunkWrite(c, bytes)
         IN /\ w \in Chunk /\ Held(w) = Held(c) \o bytes
            /\ R!ChunkLen(w) = R!ChunkLen(c) + Len(bytes)
            /\ w.id = c.id /\ w.capacity = c.capacity /\ w.head = c.head
<1> DEFINE w == R!ChunkWrite(c, bytes)
           n == Len(bytes)
           size == c.capacity
           len == R!ChunkLen(c)
           k(i) == (i - c.tail) % size
           cells == [i \in 0 .. size - 1 |-> IF k(i) < n THEN bytes[k(i) + 1] ELSE c.data[i]]
<1>1. /\ c.id \in Nat /\ size \in Nat \ {0} /\ c.head \in Nat /\ c.tail \in Nat
      /\ len \in 0 .. size /\ c.tail = c.head + len
      /\ Held(c) \in Seq(OutByte) /\ Len(Held(c)) = len
      /\ c.data \in [0 .. size - 1 -> OutCell]
  BY ChunkIs
<1>2. n \in Nat /\ n <= size - len
  BY DEF R!FreeSpace
<1>3. c \in Chunks
  BY DEF Chunk
<1>4. DOMAIN c.data = 0 .. size - 1
  BY <1>1
<1>5. w = [c EXCEPT !.tail = c.tail + n, !.data = cells]
  BY <1>4 DEF R!ChunkWrite
<1>6. cells \in [0 .. size - 1 -> OutCell]
  <2>1. ASSUME NEW i \in 0 .. size - 1
        PROVE  (IF k(i) < n THEN bytes[k(i) + 1] ELSE c.data[i]) \in OutCell
    <3>1. k(i) \in Nat
      BY <1>1
    <3> HIDE DEF k
    <3>2. k(i) < n => bytes[k(i) + 1] \in OutByte
      BY <1>2, <3>1
    <3>3. c.data[i] \in OutCell
      BY <1>1
    <3>4. QED
      BY <3>2, <3>3 DEF OutCell
  <2>2. QED
    BY <2>1
<1> HIDE DEF w, n, len
<1>7. \A i \in 0 .. size - 1 : cells[i] = IF k(i) < n THEN bytes[k(i) + 1] ELSE c.data[i]
  OBVIOUS
<1> HIDE DEF cells
<1>8. /\ w \in Chunks /\ w.id = c.id /\ w.capacity = size /\ w.head = c.head
      /\ w.tail = c.tail + n /\ w.data = cells
  <2>1. cells \in UNION {[0 .. m - 1 -> OutCell] : m \in Nat}
    BY <1>1, <1>6
  <2>2. c.tail + n \in Nat
    BY <1>1, <1>2
  <2>3. QED
    BY <1>3, <1>5, <2>1, <2>2 DEF Chunks
<1>9. R!ChunkLen(w) = len + n /\ w.head <= w.tail /\ R!ChunkLen(w) <= size
  <2>1. R!ChunkLen(w) = w.tail - w.head
    BY DEF R!ChunkLen
  <2> DEFINE head == c.head
             tail == c.tail
  <2>2. /\ head \in Nat /\ len \in Nat /\ n \in Nat /\ size \in Nat /\ tail = head + len /\ n <= size - len
        /\ w.head = head /\ w.tail = tail + n
    BY <1>1, <1>2, <1>8
  <2> HIDE DEF head, tail, size
  <2>3. QED
    BY <2>1, <2>2
<1>10. ASSUME NEW i \in 1 .. len + n
       PROVE  cells[(c.head + i - 1) % size] = IF i <= len THEN Held(c)[i] ELSE bytes[i - len]
  <2> DEFINE a == c.head + i - 1
             at == a % size
  <2>1. a \in Nat /\ i \in Nat /\ i >= 1 /\ i <= len + n /\ a = c.head + (i - 1)
    <3> DEFINE head == c.head
    <3>1. head \in Nat /\ len \in Nat /\ n \in Nat
      BY <1>1, <1>2
    <3> HIDE DEF head
    <3>2. i \in Nat /\ i >= 1 /\ i <= len + n
      BY <3>1
    <3>3. head + i - 1 \in Nat /\ head + i - 1 = head + (i - 1)
      BY <3>1, <3>2
    <3>4. QED
      BY <3>2, <3>3 DEF head
  <2>2. at \in 0 .. size - 1
    <3>1. a \in Int /\ size \in Nat \ {0}
      BY <1>1, <2>1
    <3> HIDE DEF a, size
    <3>2. QED
      BY <3>1, Remainders
  <2> DEFINE tail == c.tail
             before == c.head
  <2>9. /\ before \in Nat /\ len \in Nat /\ size \in Nat /\ len <= size /\ tail = before + len
        /\ n \in Nat /\ n <= size - len /\ a = before + (i - 1)
        /\ i \in Nat /\ i >= 1 /\ i <= len + n
    BY <1>1, <1>2, <2>1
  <2> HIDE DEF a, tail, before
  <2>0. ASSUME NEW j \in 0 .. size - 1, a = tail + j \/ a + size = tail + j
        PROVE  k(at) = j
    <3>1. tail \in Nat /\ size \in Nat \ {0} /\ a \in Nat
      BY <1>1, <2>1 DEF tail
    <3>2. a = tail + j \/ a + size = tail + j
      BY <2>0
    <3> HIDE DEF size
    <3>3. ((a % size) - tail) % size = j
      BY <3>1, <3>2, RemainderOfDifference
    <3>4. QED
      BY <3>3 DEF tail, size
  <2> HIDE DEF at
  <2>3. CASE i <= len
    <3> DEFINE j == (i - 1) + size - len
    <3>1. j \in 0 .. size - 1 /\ a + size = tail + j
      <4> HIDE DEF size
      <4>1. QED
        BY <2>3, <2>9
    <3>2. a + size = tail + j
      BY <3>1
    <3> HIDE DEF j
    <3>3. k(at) = j
      BY <2>0, <3>1, <3>2
    <3>4. ~(j < n)
      BY <1>1, <1>2, <2>1, <2>3 DEF j
    <3>5. cells[at] = c.data[at]
      BY <1>7, <2>2, <3>3, <3>4
    <3>6. i \in 1 .. R!ChunkLen(c)
      BY <1>1, <1>2, <2>1, <2>3 DEF len
    <3>7. Held(c)[i] = c.data[at]
      BY <3>6 DEF Held, at, a
    <3>8. QED
      BY <2>3, <3>5, <3>7 DEF at, a
  <2>4. CASE ~(i <= len)
    <3> DEFINE j == (i - 1) - len
    <3>1. j \in 0 .. size - 1 /\ j < n /\ a = tail + j /\ j + 1 = i - len
      <4> HIDE DEF size
      <4>1. QED
        BY <2>4, <2>9
    <3>2. a = tail + j /\ j + 1 = i - len
      BY <3>1
    <3> HIDE DEF j
    <3>3. k(at) = j
      BY <2>0, <3>1, <3>2
    <3>4. cells[at] = bytes[j + 1]
      BY <1>7, <2>2, <3>1, <3>3
    <3>5. QED
      BY <2>4, <3>2, <3>4 DEF at, a
  <2>5. QED
    BY <2>3, <2>4
<1>11. Held(w) = Held(c) \o bytes
  <2> DEFINE all == Held(c) \o bytes
  <2>1. /\ all \in Seq(OutByte) /\ Len(all) = Len(Held(c)) + Len(bytes)
        /\ \A i \in 1 .. Len(Held(c)) + Len(bytes) :
             all[i] = IF i <= Len(Held(c)) THEN Held(c)[i] ELSE bytes[i - Len(Held(c))]
    BY <1>1, ConcatProperties
  <2> HIDE DEF all
  <2>2. Len(all) = len + n /\ \A i \in 1 .. len + n : all[i] = IF i <= len THEN Held(c)[i] ELSE bytes[i - len]
    BY <1>1, <2>1 DEF n
  <2>3. Held(w) = [i \in 1 .. len + n |-> cells[(c.head + i - 1) % size]]
    BY <1>8, <1>9 DEF Held
  <2>4. all = [i \in 1 .. len + n |-> all[i]]
    BY <2>1, <2>2
  <2>5. \A i \in 1 .. len + n : cells[(c.head + i - 1) % size] = all[i]
    BY <1>10, <2>2
  <2>6. QED
    BY <2>3, <2>4, <2>5 DEF all
<1>12. Held(w) \in Seq(OutByte)
  BY <1>1, <1>11, ConcatProperties
<1>13. w \in Chunk
  BY <1>6, <1>8, <1>9, <1>12 DEF Chunk
<1>14. QED
  BY <1>8, <1>9, <1>11, <1>13 DEF w, n, len


-----------------------------------------------------------------------------
(* The bytes in a list of chunks lead from those before to all of them.    *)
Joins(v, chunks) ==
  /\ v \in [0 .. Len(chunks) -> Seq(OutByte)]
  /\ \A j \in 0 .. Len(chunks), k \in 1 .. Len(chunks) :
       k = j + 1 => v[k] = v[j] \o Held(chunks[k])

Queue(chunks, from, all) ==
  \E v : Joins(v, chunks) /\ v[0] = from /\ v[Len(chunks)] = all

(* A queue is made of bytes.                                               *)
LEMMA QueueTypes ==
  ASSUME NEW chunks \in Seq(Chunk), NEW from, NEW all, Queue(chunks, from, all)
  PROVE  from \in Seq(OutByte) /\ all \in Seq(OutByte)
<1>1. Len(chunks) \in Nat
  OBVIOUS
<1>2. QED
  BY <1>1 DEF Queue, Joins

(* Without chunks there is nothing between those before and all.           *)
LEMMA QueueEmpty ==
  ASSUME NEW chunks, Len(chunks) = 0, NEW from \in Seq(OutByte), NEW all
  PROVE  Queue(chunks, from, all) <=> from = all
<1>1. Queue(chunks, from, all) => from = all
  BY DEF Queue, Joins
<1>2. ASSUME from = all PROVE Queue(chunks, from, all)
  <2> DEFINE v == [j \in 0 .. 0 |-> from]
  <2>1. v \in [0 .. 0 -> Seq(OutByte)] /\ v[0] = from
    OBVIOUS
  <2> HIDE DEF v
  <2>2. QED
    BY <1>2, <2>1 DEF Queue, Joins
<1>3. QED
  BY <1>1, <1>2

(* A chunk at the end adds what it holds.                                  *)
LEMMA QueueAppend ==
  ASSUME NEW chunks \in Seq(Chunk), NEW from, NEW all, Queue(chunks, from, all),
         NEW c \in Chunk
  PROVE  Queue(Append(chunks, c), from, all \o Held(c))
<1> DEFINE n == Len(chunks)
           m == n + 1
           more == Append(chunks, c)
           end == all \o Held(c)
<1>1. PICK v : Joins(v, chunks) /\ v[0] = from /\ v[n] = all
  BY DEF Queue
<1>2. n \in Nat /\ Len(more) = m /\ more[m] = c /\ \A k \in 1 .. n : more[k] = chunks[k]
  BY AppendParts
<1>3. end \in Seq(OutByte)
  <2>1. all \in Seq(OutByte) /\ Held(c) \in Seq(OutByte)
    BY QueueTypes, ChunkIs
  <2>2. QED
    BY <2>1, ConcatProperties
<1> DEFINE w == [j \in 0 .. m |-> IF j = m THEN end ELSE v[j]]
<1> HIDE DEF n, more, end
<1>4. /\ v \in [0 .. n -> Seq(OutByte)]
      /\ \A j \in 0 .. n, k \in 1 .. n : k = j + 1 => v[k] = v[j] \o Held(chunks[k])
  BY <1>1 DEF Joins, n
<1>5. \A j \in 0 .. m : j = m \/ j \in 0 .. n
  BY <1>2
<1>6. w \in [0 .. m -> Seq(OutByte)] /\ w[m] = end /\ \A j \in 0 .. n : w[j] = v[j]
  BY <1>2, <1>3, <1>4, <1>5
<1> HIDE DEF w
<1>7. ASSUME NEW j \in 0 .. m, NEW k \in 1 .. m, k = j + 1 PROVE w[k] = w[j] \o Held(more[k])
  <2>1. j \in 0 .. n
    BY <1>2, <1>7
  <2>2. CASE k = m
    <3>1. j = n
      BY <1>2, <1>7, <2>2
    <3>2. QED
      BY <1>1, <1>2, <1>6, <2>1, <2>2, <3>1 DEF end, n
  <2>3. CASE k # m
    <3>1. k \in 1 .. n /\ k \in 0 .. n
      BY <1>2, <1>7, <2>3
    <3>2. v[k] = v[j] \o Held(chunks[k])
      BY <1>4, <1>7, <2>1, <3>1
    <3>3. QED
      BY <1>2, <1>6, <2>1, <3>1, <3>2
  <2>4. QED
    BY <2>2, <2>3
<1>8. Joins(w, more)
  BY <1>2, <1>6, <1>7 DEF Joins
<1>9. w[0] = from
  <2>1. 0 \in 0 .. n
    BY <1>2
  <2>2. QED
    BY <1>1, <1>6, <2>1
<1>10. QED
  BY <1>2, <1>6, <1>8, <1>9 DEF Queue, more, end

LEMMA FrontIs ==
  ASSUME NEW S, NEW seq \in Seq(S), seq # <<>>
  PROVE  /\ Front(seq) \in Seq(S) /\ Len(Front(seq)) = Len(seq) - 1
         /\ \A k \in 1 .. Len(seq) - 1 : Front(seq)[k] = seq[k]
         /\ Len(seq) \in Nat \ {0} /\ Last(seq) = seq[Len(seq)] /\ Last(seq) \in S
<1> DEFINE n == Len(seq)
<1>1. n \in Nat \ {0} /\ seq[n] \in S /\ DOMAIN seq = 1 .. n
  OBVIOUS
<1>2. Front(seq) = SubSeq(seq, 1, n - 1) /\ Last(seq) = seq[n]
  BY DEF Front, Last
<1>3. SubSeq(seq, 1, n - 1) = [k \in 1 .. n - 1 |-> seq[k]]
  BY <1>1
<1> HIDE DEF n
<1>4. \A k \in 1 .. n - 1 : seq[k] \in S
  BY <1>1
<1>5. QED
  BY <1>1, <1>2, <1>3, <1>4 DEF n

LEMMA TailIs ==
  ASSUME NEW S, NEW seq \in Seq(S), seq # <<>>
  PROVE  /\ Tail(seq) \in Seq(S) /\ Len(Tail(seq)) = Len(seq) - 1
         /\ \A k \in 1 .. Len(seq) - 1 : Tail(seq)[k] = seq[k + 1]
         /\ Len(seq) \in Nat \ {0} /\ seq[1] \in S /\ Head(seq) = seq[1]
OBVIOUS

(* The last chunk holds the end of the bytes.                              *)
LEMMA QueueFront ==
  ASSUME NEW chunks \in Seq(Chunk), NEW from, NEW all, Queue(chunks, from, all), chunks # <<>>
  PROVE  \E mid : Queue(Front(chunks), from, mid) /\ all = mid \o Held(Last(chunks))
<1> DEFINE n == Len(chunks)
           m == n - 1
           less == Front(chunks)
<1>1. PICK v : Joins(v, chunks) /\ v[0] = from /\ v[n] = all
  BY DEF Queue
<1>2. /\ n \in Nat \ {0} /\ Len(less) = m /\ Last(chunks) = chunks[n]
      /\ \A k \in 1 .. m : less[k] = chunks[k]
  BY FrontIs
<1> HIDE DEF less
<1>3. /\ v \in [0 .. n -> Seq(OutByte)]
      /\ \A j \in 0 .. n, k \in 1 .. n : k = j + 1 => v[k] = v[j] \o Held(chunks[k])
  BY <1>1 DEF Joins
<1> HIDE DEF n
<1>4. m \in 0 .. n /\ n \in 1 .. n /\ n = m + 1 /\ m \in Nat
  BY <1>2
<1>5. all = v[m] \o Held(Last(chunks))
  BY <1>1, <1>2, <1>3, <1>4
<1> DEFINE w == [j \in 0 .. m |-> v[j]]
<1>6. \A j \in 0 .. m : j \in 0 .. n
  BY <1>4
<1>7. w \in [0 .. m -> Seq(OutByte)] /\ \A j \in 0 .. m : w[j] = v[j]
  BY <1>3, <1>6
<1> HIDE DEF w
<1>8. ASSUME NEW j \in 0 .. m, NEW k \in 1 .. m, k = j + 1 PROVE w[k] = w[j] \o Held(less[k])
  <2>1. k \in 1 .. n /\ k \in 0 .. m
    BY <1>4
  <2>2. QED
    BY <1>2, <1>3, <1>6, <1>7, <1>8, <2>1
<1>9. Joins(w, less)
  BY <1>2, <1>7, <1>8 DEF Joins
<1>10. w[0] = from /\ w[m] = v[m]
  BY <1>1, <1>4, <1>7
<1>11. Queue(less, from, v[m])
  BY <1>2, <1>9, <1>10 DEF Queue
<1>12. QED
  BY <1>5, <1>11 DEF less

(* Without its first chunk a queue begins behind what that held.           *)
LEMMA QueueTail ==
  ASSUME NEW chunks \in Seq(Chunk), NEW from, NEW all, Queue(chunks, from, all), chunks # <<>>
  PROVE  Queue(Tail(chunks), from \o Held(chunks[1]), all)
<1> DEFINE n == Len(chunks)
           m == n - 1
           less == Tail(chunks)
<1>1. PICK v : Joins(v, chunks) /\ v[0] = from /\ v[n] = all
  BY DEF Queue
<1>2. /\ n \in Nat \ {0} /\ Len(less) = m
      /\ \A k \in 1 .. m : less[k] = chunks[k + 1]
  BY TailIs
<1> HIDE DEF less
<1>3. /\ v \in [0 .. n -> Seq(OutByte)]
      /\ \A j \in 0 .. n, k \in 1 .. n : k = j + 1 => v[k] = v[j] \o Held(chunks[k])
  BY <1>1 DEF Joins
<1> HIDE DEF n
<1>4. m \in Nat /\ n = m + 1 /\ 0 \in 0 .. n /\ 1 \in 1 .. n /\ 1 = 0 + 1
  BY <1>2
<1>5. v[1] = from \o Held(chunks[1])
  BY <1>1, <1>3, <1>4
<1> DEFINE w == [j \in 0 .. m |-> v[j + 1]]
<1>6. \A j \in 0 .. m : j + 1 \in 0 .. n
  BY <1>4
<1>7. w \in [0 .. m -> Seq(OutByte)] /\ \A j \in 0 .. m : w[j] = v[j + 1]
  BY <1>3, <1>6
<1> HIDE DEF w
<1>8. ASSUME NEW j \in 0 .. m, NEW k \in 1 .. m, k = j + 1 PROVE w[k] = w[j] \o Held(less[k])
  <2>1. k + 1 \in 1 .. n /\ k \in 0 .. m /\ k \in 0 .. n /\ k + 1 = k + 1
    BY <1>4
  <2> DEFINE l == k + 1
  <2>2. l \in 1 .. n /\ l = k + 1 /\ less[k] = chunks[l]
    BY <1>2, <2>1
  <2>3. w[k] = v[l] /\ w[j] = v[k]
    BY <1>7, <1>8, <2>1
  <2> HIDE DEF l
  <2>4. v[l] = v[k] \o Held(chunks[l])
    BY <1>3, <2>1, <2>2
  <2>5. QED
    BY <2>2, <2>3, <2>4
<1>9. Joins(w, less)
  BY <1>2, <1>7, <1>8 DEF Joins
<1>10. w[0] = v[1] /\ w[m] = all
  BY <1>1, <1>4, <1>7
<1>11. Queue(less, v[1], all)
  BY <1>2, <1>9, <1>10 DEF Queue
<1>12. QED
  BY <1>5, <1>11 DEF less

(* Another chunk in front, whose bytes make up for what comes later.       *)
LEMMA QueueCons ==
  ASSUME NEW chunks \in Seq(Chunk), NEW later, NEW all, Queue(chunks, later, all),
         NEW c \in Chunk, NEW from \in Seq(OutByte), later = from \o Held(c)
  PROVE  Queue(<<c>> \o chunks, from, all)
<1> DEFINE n == Len(chunks)
           m == n + 1
           one == <<c>>
           more == one \o chunks
<1>1. PICK v : Joins(v, chunks) /\ v[0] = later /\ v[n] = all
  BY DEF Queue
<1>2. n \in Nat /\ Len(more) = m /\ more[1] = c /\ \A k \in 2 .. m : more[k] = chunks[k - 1]
  <2>1. one \in Seq(Chunk) /\ Len(one) = 1 /\ one[1] = c
    OBVIOUS
  <2> HIDE DEF one
  <2>2. /\ more \in Seq(Chunk) /\ Len(more) = Len(one) + Len(chunks)
        /\ \A i \in 1 .. Len(one) + Len(chunks) :
             more[i] = IF i <= Len(one) THEN one[i] ELSE chunks[i - Len(one)]
    BY <2>1, ConcatProperties
  <2> HIDE DEF more
  <2>3. n \in Nat
    OBVIOUS
  <2>4. QED
    BY <2>1, <2>2, <2>3
<1> HIDE DEF more
<1>3. /\ v \in [0 .. n -> Seq(OutByte)]
      /\ \A j \in 0 .. n, k \in 1 .. n : k = j + 1 => v[k] = v[j] \o Held(chunks[k])
  BY <1>1 DEF Joins
<1> HIDE DEF n
<1> DEFINE w == [j \in 0 .. m |-> IF j = 0 THEN from ELSE v[j - 1]]
<1>4. \A j \in 0 .. m : j = 0 \/ j - 1 \in 0 .. n
  BY <1>2
<1>5. w \in [0 .. m -> Seq(OutByte)] /\ w[0] = from /\ \A j \in 1 .. m : w[j] = v[j - 1]
  BY <1>2, <1>3, <1>4
<1> HIDE DEF w
<1>6. ASSUME NEW j \in 0 .. m, NEW k \in 1 .. m, k = j + 1 PROVE w[k] = w[j] \o Held(more[k])
  <2>1. CASE k = 1
    <3>1. j = 0 /\ k - 1 = 0
      BY <1>6, <2>1
    <3>2. w[k] = later
      BY <1>1, <1>5, <3>1
    <3>3. QED
      BY <1>2, <1>5, <2>1, <3>1, <3>2
  <2>2. CASE k # 1
    <3> DEFINE i == j - 1
    <3>1. i \in 0 .. n /\ j \in 1 .. n /\ j = i + 1 /\ j \in 1 .. m /\ k - 1 = j /\ k \in 2 .. m
      BY <1>2, <1>6, <2>2
    <3>2. w[j] = v[i] /\ w[k] = v[j] /\ more[k] = chunks[j]
      BY <1>2, <1>5, <3>1
    <3> HIDE DEF i
    <3>3. v[j] = v[i] \o Held(chunks[j])
      BY <1>3, <3>1
    <3>4. QED
      BY <3>2, <3>3
  <2>3. QED
    BY <2>1, <2>2
<1>7. Joins(w, more)
  BY <1>2, <1>5, <1>6 DEF Joins
<1>8. w[m] = all
  <2>1. n \in Nat
    BY <1>2
  <2>2. m \in 1 .. m /\ m - 1 = n
    BY <2>1
  <2>3. v[n] = all
    BY <1>1 DEF n
  <2>4. w[m] = v[m - 1]
    BY <1>5, <2>2
  <2>5. QED
    BY <2>2, <2>3, <2>4
<1>9. QED
  BY <1>2, <1>5, <1>7, <1>8 DEF Queue, more


(* What a queue holds comes after what was before it.                      *)
LEMMA QueueGrows ==
  ASSUME NEW chunks \in Seq(Chunk), NEW from, NEW all, Queue(chunks, from, all)
  PROVE  \E rest \in Seq(OutByte) : all = from \o rest
<1> DEFINE n == Len(chunks)
<1>1. PICK v : Joins(v, chunks) /\ v[0] = from /\ v[n] = all
  BY DEF Queue
<1>2. n \in Nat
  OBVIOUS
<1>3. /\ v \in [0 .. n -> Seq(OutByte)]
      /\ \A j \in 0 .. n, k \in 1 .. n : k = j + 1 => v[k] = v[j] \o Held(chunks[k])
  BY <1>1 DEF Joins
<1>4. \A k \in 1 .. n : chunks[k] \in Chunk
  OBVIOUS
<1>5. from \in Seq(OutByte)
  BY <1>1, <1>2, <1>3
<1> HIDE DEF n
<1> DEFINE Behind(s) == \E rest \in Seq(OutByte) : s = from \o rest
           upTo == {k \in 0 .. n : Behind(v[k])}
<1>6. 0 \in upTo
  <2>1. from = from \o Nothing /\ Nothing \in Seq(OutByte)
    BY <1>5, ConcatEmpty
  <2>2. Behind(v[0])
    BY <1>1, <2>1
  <2>3. QED
    BY <1>2, <2>2
<1>7. ASSUME NEW k \in Nat, k < n, k \in upTo PROVE k + 1 \in upTo
  <2>1. PICK rest \in Seq(OutByte) : v[k] = from \o rest
    BY <1>7
  <2> DEFINE l == k + 1
             held == Held(chunks[l])
  <2>2. l \in 1 .. n /\ l \in 0 .. n /\ k \in 0 .. n /\ l = k + 1
    BY <1>2, <1>7
  <2>3. held \in Seq(OutByte)
    BY <1>4, <2>2, ChunkIs
  <2> HIDE DEF l
  <2>4. v[l] = v[k] \o held
    BY <1>3, <2>2
  <2> HIDE DEF held
  <2>5. v[l] = from \o (rest \o held) /\ rest \o held \in Seq(OutByte)
    <3>1. from \in Seq(OutByte) /\ rest \in Seq(OutByte) /\ held \in Seq(OutByte)
      BY <1>5, <2>3
    <3>2. rest \o held \in Seq(OutByte) /\ (from \o rest) \o held = from \o (rest \o held)
      BY <3>1, ConcatAssociates
    <3>3. QED
      BY <2>1, <2>4, <3>2
  <2>6. Behind(v[l])
    BY <2>5
  <2>7. QED
    BY <2>2, <2>6 DEF l
<1> HIDE DEF upTo
<1>8. \A k \in 0 .. n : k \in upTo
  BY <1>2, <1>6, <1>7, UpTo
<1>9. n \in upTo
  BY <1>2, <1>8
<1>10. QED
  BY <1>1, <1>9 DEF upTo

-----------------------------------------------------------------------------
(* The ring.                                                               *)
Ringed(r) ==
  /\ r.chunks \in Seq(Chunk)
  /\ Len(r.chunks) > 1 => \A k \in 1 .. Len(r.chunks) : R!ChunkLen(r.chunks[k]) > 0

(* The first chunk is where it was, and what it held still begins it.      *)
SameHead(c, d) ==
  /\ d.id = c.id /\ d.capacity = c.capacity /\ d.head = c.head
  /\ \E more \in Seq(OutByte) : Held(d) = Held(c) \o more

(* What is empty holds nothing.                                            *)
LEMMA HeldNothing ==
  ASSUME NEW c \in Chunk, R!ChunkLen(c) = 0
  PROVE  Held(c) = Nothing
BY DEF Held, Nothing

(* The chunk that is made for a message is empty and has room for it.      *)
LEMMA ChunkForIs ==
  ASSUME NEW r, Ringed(r), NEW n \in Nat \ {0}
  PROVE  R!ChunkFor(r, n) \in Chunk /\ Held(R!ChunkFor(r, n)) = Nothing
         /\ n <= R!FreeSpace(R!ChunkFor(r, n))
<1> DEFINE size == IF r.chunks = <<>> THEN RingInitial ELSE 2 * R!Last(r.chunks).capacity
           capacity == R!Max({n, size})
<1>1. r.chunks \in Seq(Chunk)
  BY DEF Ringed
<1>2. size \in Nat \ {0}
  <2>1. CASE r.chunks = <<>>
    BY <2>1, WsDataAssumption
  <2>2. CASE r.chunks # <<>>
    <3>1. R!Last(r.chunks) \in Chunk
      BY <1>1, <2>2 DEF R!Last
    <3>2. R!Last(r.chunks).capacity \in Nat \ {0}
      BY <3>1, ChunkIs
    <3>3. QED
      BY <2>2, <3>2
  <2>3. QED
    BY <2>1, <2>2
<1>3. R!ChunkFor(r, n) = R!NewChunk(R!FreshId(r), capacity)
  BY DEF R!ChunkFor
<1> HIDE DEF size
<1>4. capacity = IF n <= size THEN size ELSE n
  BY <1>2, RingLesser
<1> HIDE DEF capacity
<1>5. capacity \in Nat \ {0} /\ n <= capacity
  BY <1>2, <1>4
<1>6. R!FreshId(r) \in Nat
  BY <1>1, FreshIdIs
<1>7. QED
  BY <1>3, <1>5, <1>6, NewChunkIs DEF Nothing

(* The chunks a message goes into the last of.                             *)
Prepared(r, n) ==
  IF R!NeedsChunk(r, n) THEN Append(R!Retired(r), R!ChunkFor(r, n)) ELSE r.chunks

(* Making room keeps the queue: an empty last chunk that is retired holds  *)
(* nothing, and no chunk that holds bytes moves.                           *)
LEMMA PreparedIs ==
  ASSUME NEW r, Ringed(r), NEW n \in Nat \ {0}, NEW from, NEW all, Queue(r.chunks, from, all)
  PROVE  /\ Prepared(r, n) \in Seq(Chunk) /\ Prepared(r, n) # <<>>
         /\ n <= R!FreeSpace(Last(Prepared(r, n)))
         /\ Queue(Prepared(r, n), from, all)
         /\ \A k \in 1 .. Len(Prepared(r, n)) - 1 : R!ChunkLen(Prepared(r, n)[k]) > 0
         /\ r.chunks # <<>> /\ R!ChunkLen(r.chunks[1]) > 0 => Prepared(r, n)[1] = r.chunks[1]
<1> DEFINE C == r.chunks
           len == Len(C)
           D == Prepared(r, n)
           kept == R!Retired(r)
           new == R!ChunkFor(r, n)
<1>1. C \in Seq(Chunk) /\ len \in Nat
      /\ (len > 1 => \A k \in 1 .. len : R!ChunkLen(C[k]) > 0)
  BY DEF Ringed
<1>2. C # <<>> => len # 0 /\ C[1] \in Chunk /\ C[len] \in Chunk /\ Last(C) = C[len] /\ R!Last(C) = C[len]
  BY <1>1 DEF Last, R!Last
<1>3. CASE ~R!NeedsChunk(r, n)
  <2>1. D = C
    BY <1>3 DEF Prepared
  <2>2. C # <<>> /\ ~(R!FreeSpace(R!Last(C)) < n)
    BY <1>3 DEF R!NeedsChunk
  <2>3. R!FreeSpace(C[len]) \in Int
    <3>1. C[len].capacity \in Nat /\ R!ChunkLen(C[len]) \in Int
      BY <1>2, <2>2, ChunkIs
    <3>2. QED
      BY <3>1 DEF R!FreeSpace
  <2>4. n <= R!FreeSpace(Last(C))
    BY <1>2, <2>2, <2>3
  <2>5. \A k \in 1 .. len - 1 : R!ChunkLen(C[k]) > 0
    BY <1>1
  <2>6. QED
    BY <1>1, <2>1, <2>2, <2>4, <2>5
<1>4. CASE R!NeedsChunk(r, n)
  <2>1. D = Append(kept, new)
    BY <1>4 DEF Prepared
  <2>2. new \in Chunk /\ Held(new) = Nothing /\ n <= R!FreeSpace(new)
    BY ChunkForIs
  <2>3. /\ kept \in Seq(Chunk) /\ Queue(kept, from, all)
        /\ \A k \in 1 .. Len(kept) : R!ChunkLen(kept[k]) > 0
        /\ C # <<>> /\ R!ChunkLen(C[1]) > 0 => kept = C /\ kept # <<>>
    <3>1. CASE C # <<>> /\ R!ChunkLen(C[len]) = 0
      <4>1. kept = Tail(C)
        BY <1>2, <3>1 DEF R!Retired
      <4>2. len = 1
        <5>1. len \in 1 .. len
          BY <1>1, <1>2, <3>1
        <5>2. ~(R!ChunkLen(C[len]) > 0)
          BY <3>1
        <5>3. ~(len > 1)
          BY <1>1, <5>1, <5>2
        <5>4. len \in Nat
          BY <1>1
        <5> HIDE DEF len
        <5>5. QED
          BY <5>1, <5>3, <5>4
      <4>3. kept \in Seq(Chunk) /\ Len(kept) = 0
        BY <1>1, <3>1, <4>1, <4>2, TailIs
      <4>4. Held(C[1]) = Nothing
        BY <1>2, <3>1, <4>2, HeldNothing
      <4>5. from \in Seq(OutByte)
        BY <1>1, QueueTypes
      <4>6. Queue(kept, from \o Held(C[1]), all)
        BY <1>1, <3>1, <4>1, QueueTail
      <4>7. Queue(kept, from, all)
        BY <4>4, <4>5, <4>6, ConcatEmpty
      <4>8. QED
        BY <3>1, <4>2, <4>3, <4>7
    <3>2. CASE ~(C # <<>> /\ R!ChunkLen(C[len]) = 0)
      <4>1. kept = C
        BY <1>2, <3>2 DEF R!Retired
      <4>2. \A k \in 1 .. len : R!ChunkLen(C[k]) > 0
        <5>1. CASE len > 1
          BY <1>1, <5>1
        <5>2. CASE len = 1
          <6>1. C # <<>> /\ R!ChunkLen(C[len]) \in Nat
            BY <1>2, <5>2, ChunkIs
          <6>2. QED
            BY <3>2, <5>2, <6>1
        <5>3. CASE len = 0
          BY <5>3
        <5>4. len = 0 \/ len = 1 \/ len > 1
          <6>1. len \in Nat
            BY <1>1
          <6> HIDE DEF len
          <6>2. QED
            BY <6>1
        <5>5. QED
          BY <5>1, <5>2, <5>3, <5>4
      <4>3. QED
        BY <1>1, <4>1, <4>2
    <3>3. QED
      BY <3>1, <3>2
  <2> HIDE DEF new, kept, D
  <2>4. /\ D \in Seq(Chunk) /\ Len(D) = Len(kept) + 1 /\ D[Len(kept) + 1] = new
        /\ \A k \in 1 .. Len(kept) : D[k] = kept[k]
    BY <2>1, <2>2, <2>3, AppendParts
  <2>5. Len(kept) \in Nat
    BY <2>3
  <2>6. Queue(D, from, all \o Held(new))
    BY <2>1, <2>2, <2>3, QueueAppend
  <2>7. all \in Seq(OutByte)
    BY <1>1, QueueTypes
  <2>8. Queue(D, from, all)
    BY <2>2, <2>6, <2>7, ConcatEmpty
  <2>9. D # <<>> /\ Last(D) = new
    BY <2>4, <2>5 DEF Last
  <2>10. \A k \in 1 .. Len(D) - 1 : R!ChunkLen(D[k]) > 0
    BY <2>3, <2>4, <2>5
  <2>11. C # <<>> /\ R!ChunkLen(C[1]) > 0 => D[1] = C[1]
    <3>1. C # <<>> => 1 \in 1 .. len
      BY <1>1
    <3>2. QED
      BY <2>3, <2>4, <3>1
  <2>12. QED
    BY <2>2, <2>4, <2>8, <2>9, <2>10, <2>11 DEF D
<1>5. QED
  BY <1>3, <1>4

(* A write puts a message behind what waits, and leaves a first chunk      *)
(* that a send may point into where it is.                                 *)
LEMMA RingWritten ==
  ASSUME NEW r, Ringed(r), NEW bytes \in Seq(OutByte), Len(bytes) # 0,
         NEW from, NEW all, Queue(r.chunks, from, all)
  PROVE  LET q == R!Write(r, bytes)
         IN /\ Ringed(q) /\ Queue(q.chunks, from, all \o bytes)
            /\ q.len = r.len + Len(bytes) /\ q.chunks # <<>>
            /\ r.chunks # <<>> /\ R!ChunkLen(r.chunks[1]) > 0 =>
                 SameHead(r.chunks[1], q.chunks[1])
<1> DEFINE n == Len(bytes)
           D == Prepared(r, n)
           last == Last(D)
           w == R!ChunkWrite(last, bytes)
           E == Append(Front(D), w)
           q == R!Write(r, bytes)
           m == Len(D)
<1>1. q.chunks = E /\ q.len = r.len + n
  BY DEF R!Write, R!Front, R!Last, Front, Last, Prepared
<1>2. n \in Nat \ {0}
  OBVIOUS
<1>3. /\ D \in Seq(Chunk) /\ D # <<>> /\ n <= R!FreeSpace(last) /\ Queue(D, from, all)
      /\ \A k \in 1 .. m - 1 : R!ChunkLen(D[k]) > 0
      /\ r.chunks # <<>> /\ R!ChunkLen(r.chunks[1]) > 0 => D[1] = r.chunks[1]
  BY <1>2, PreparedIs
<1> HIDE DEF D, q
<1>4. /\ Front(D) \in Seq(Chunk) /\ Len(Front(D)) = m - 1
      /\ \A k \in 1 .. m - 1 : Front(D)[k] = D[k]
      /\ m \in Nat \ {0} /\ last = D[m] /\ last \in Chunk
  BY <1>3, FrontIs
<1>5. /\ w \in Chunk /\ Held(w) = Held(last) \o bytes
      /\ R!ChunkLen(w) = R!ChunkLen(last) + n
      /\ w.id = last.id /\ w.capacity = last.capacity /\ w.head = last.head
  BY <1>3, <1>4, ChunkWritten
<1>6. R!ChunkLen(last) \in Nat /\ Held(last) \in Seq(OutByte)
  BY <1>4, ChunkIs
<1> HIDE DEF w, last, n
<1>7. /\ E \in Seq(Chunk) /\ Len(E) = m /\ E[m] = w
      /\ \A k \in 1 .. m - 1 : E[k] = D[k]
  BY <1>4, <1>5, AppendParts
<1>8. Queue(E, from, all \o bytes)
  <2>0. \E mid : Queue(Front(D), from, mid) /\ all = mid \o Held(Last(D))
    <3>1. D \in Seq(Chunk) /\ Queue(D, from, all) /\ D # <<>>
      BY <1>3
    <3>2. QED
      BY <3>1, QueueFront
  <2>1. PICK mid : Queue(Front(D), from, mid) /\ all = mid \o Held(last)
    BY <2>0 DEF last
  <2>2. Queue(E, from, mid \o Held(w))
    BY <1>4, <1>5, <2>1, QueueAppend
  <2>3. mid \in Seq(OutByte)
    BY <1>4, <2>1, QueueTypes
  <2>4. mid \o Held(w) = all \o bytes
    <3>1. (mid \o Held(last)) \o bytes = mid \o (Held(last) \o bytes)
      BY <1>6, <2>3, ConcatAssociates
    <3>2. QED
      BY <1>5, <2>1, <3>1
  <2>5. QED
    BY <2>2, <2>4
<1>9. E # <<>> /\ \A k \in 1 .. m : R!ChunkLen(E[k]) > 0
  <2>1. E # <<>>
    BY <1>4, <1>7
  <2>2. R!ChunkLen(w) > 0
    BY <1>2, <1>5, <1>6
  <2>3. ASSUME NEW k \in 1 .. m PROVE R!ChunkLen(E[k]) > 0
    <3>1. CASE k = m
      BY <1>7, <2>2, <3>1
    <3>2. CASE k # m
      <4>1. k \in 1 .. m - 1
        BY <1>4, <3>2
      <4>2. QED
        BY <1>3, <1>7, <4>1
    <3>3. QED
      BY <3>1, <3>2
  <2>4. QED
    BY <2>1, <2>3
<1>10. ASSUME r.chunks # <<>>, R!ChunkLen(r.chunks[1]) > 0
       PROVE  SameHead(r.chunks[1], E[1])
  <2>1. D[1] = r.chunks[1]
    BY <1>3, <1>10
  <2>2. CASE m = 1
    BY <1>4, <1>5, <1>7, <2>1, <2>2 DEF SameHead
  <2>3. CASE m # 1
    <3>1. E[1] = D[1] /\ D[1] \in Chunk
      BY <1>3, <1>4, <1>7, <2>3
    <3>2. Held(D[1]) \in Seq(OutByte)
      BY <3>1, ChunkIs
    <3>3. Nothing \in Seq(OutByte) /\ Held(D[1]) = Held(D[1]) \o Nothing
      BY <3>2, ConcatEmpty
    <3>4. QED
      BY <2>1, <3>1, <3>3 DEF SameHead
  <2>4. QED
    BY <2>2, <2>3
<1>11. Ringed(q)
  BY <1>1, <1>7, <1>9 DEF Ringed
<1>12. QED
  BY <1>1, <1>8, <1>9, <1>10, <1>11 DEF q, n


-----------------------------------------------------------------------------
(* An iov of up to two runs.                                               *)
RunAt(id, at, len) == [id |-> id, at |-> at, len |-> len]

LEMMA GreatestOf ==
  /\ T!Max({1}) = 1 /\ T!Max({2}) = 2 /\ T!Max({1, 2}) = 2
<1>1. ASSUME NEW U, NEW x \in U, x \in Nat, U \subseteq Nat, \A y \in U : y <= x
      PROVE  T!Max(U) = x
  <2>1. \E z \in U : \A y \in U : y <= z
    BY <1>1
  <2>2. T!Max(U) \in U /\ \A y \in U : y <= T!Max(U)
    BY <2>1 DEF T!Max
  <2>3. T!Max(U) \in Nat
    BY <1>1, <2>2
  <2>4. T!Max(U) <= x /\ x <= T!Max(U)
    BY <1>1, <2>2
  <2>5. QED
    BY <1>1, <2>3, <2>4
<1>2. QED
  <2>1. T!Max({1}) = 1
    BY <1>1
  <2>2. T!Max({2}) = 2
    BY <1>1
  <2>3. T!Max({1, 2}) = 2
    BY <1>1
  <2>4. QED
    BY <2>1, <2>2, <2>3

(* A fold over a sequence of runs is a sum over its indices.               *)
Sums(h, iov, S) ==
  h = [s \in SUBSET S |-> IF s = {} THEN 0 ELSE h[s \ {T!Max(s)}] + iov[T!Max(s)].len]

(* The fold of th_iov_bytes, for the iovs of one and of two runs.          *)
LEMMA IovBytesIs ==
  ASSUME NEW iov, NEW h, Sums(h, iov, DOMAIN iov)
  PROVE  Sums(CHOOSE g : Sums(g, iov, DOMAIN iov), iov, DOMAIN iov)
         /\ T!IovBytes(iov) = (CHOOSE g : Sums(g, iov, DOMAIN iov))[DOMAIN iov]
<1>1. T!IovBytes(iov) = (CHOOSE g : Sums(g, iov, DOMAIN iov))[DOMAIN iov]
  BY DEF Sums, T!IovBytes, T!FoldLeft, T!MapThenFoldSet
<1>2. QED
  BY <1>1


LEMMA SumsOf ==
  ASSUME NEW iov, NEW S, NEW g, Sums(g, iov, S)
  PROVE  /\ g[{}] = 0
         /\ S = {1} => g[S] = 0 + iov[1].len
         /\ S = {1, 2} => g[S] = (0 + iov[1].len) + iov[2].len
<1>1. g = [s \in SUBSET S |-> IF s = {} THEN 0 ELSE g[s \ {T!Max(s)}] + iov[T!Max(s)].len]
  BY DEF Sums
<1>2. \A s \in SUBSET S : g[s] = IF s = {} THEN 0 ELSE g[s \ {T!Max(s)}] + iov[T!Max(s)].len
  BY <1>1
<1>3. g[{}] = 0
  BY <1>2
<1>4. ASSUME 1 \in S PROVE g[{1}] = 0 + iov[1].len
  <2>1. {1} \in SUBSET S /\ {1} # {} /\ T!Max({1}) = 1 /\ {1} \ {1} = {}
    BY <1>4, GreatestOf
  <2>2. g[{1}] = g[{1} \ {T!Max({1})}] + iov[T!Max({1})].len
    BY <1>2, <2>1
  <2>3. QED
    BY <1>3, <2>1, <2>2
<1>5. ASSUME S = {1, 2} PROVE g[S] = (0 + iov[1].len) + iov[2].len
  <2>1. S \in SUBSET S /\ S # {} /\ T!Max(S) = 2 /\ S \ {2} = {1}
    BY <1>5, GreatestOf
  <2>2. g[S] = g[S \ {T!Max(S)}] + iov[T!Max(S)].len
    BY <1>2, <2>1
  <2>3. g[S \ {T!Max(S)}] = g[{1}]
    BY <2>1
  <2>4. g[{1}] = 0 + iov[1].len
    BY <1>4, <1>5
  <2>5. QED
    BY <2>1, <2>2, <2>3, <2>4
<1>6. QED
  BY <1>3, <1>4, <1>5

LEMMA IovBytesOfNone == ASSUME NEW iov, DOMAIN iov = {} PROVE T!IovBytes(iov) = 0
<1> DEFINE h == [s \in SUBSET {} |-> 0]
<1>1. Sums(h, iov, DOMAIN iov)
  BY DEF Sums
<1> HIDE DEF h
<1>2. QED
  BY <1>1, IovBytesIs, SumsOf

LEMMA IovBytesOfOne ==
  ASSUME NEW iov, DOMAIN iov = {1}, iov[1].len \in Nat
  PROVE  T!IovBytes(iov) = iov[1].len
<1> DEFINE a == 0 + iov[1].len
           h == [s \in SUBSET {1} |-> IF s = {} THEN 0 ELSE a]
<1>1. \A s \in SUBSET {1} : s = {} \/ s = {1}
  OBVIOUS
<1>2. h[{}] = 0 /\ {1} \ {1} = {} /\ T!Max({1}) = 1
  BY GreatestOf
<1>3. ASSUME NEW s \in SUBSET {1}
      PROVE  h[s] = IF s = {} THEN 0 ELSE h[s \ {T!Max(s)}] + iov[T!Max(s)].len
  <2>1. h[s] = IF s = {} THEN 0 ELSE a
    OBVIOUS
  <2> HIDE DEF h
  <2>2. QED
    BY <1>1, <1>2, <2>1
<1>4. h = [s \in SUBSET {1} |-> h[s]]
  OBVIOUS
<1> HIDE DEF h
<1>5. Sums(h, iov, DOMAIN iov)
  BY <1>3, <1>4 DEF Sums
<1>6. T!IovBytes(iov) = 0 + iov[1].len
  <2> DEFINE g == CHOOSE f : Sums(f, iov, DOMAIN iov)
  <2>1. Sums(g, iov, DOMAIN iov) /\ T!IovBytes(iov) = g[DOMAIN iov]
    BY <1>5, IovBytesIs
  <2> HIDE DEF g
  <2>2. QED
    BY <2>1, SumsOf
<1>7. QED
  BY <1>6

LEMMA IovBytesOfTwo ==
  ASSUME NEW iov, DOMAIN iov = {1, 2}, iov[1].len \in Nat, iov[2].len \in Nat
  PROVE  T!IovBytes(iov) = iov[1].len + iov[2].len
<1> DEFINE a == 0 + iov[1].len
           b == 0 + iov[2].len
           c == a + iov[2].len
           h == [s \in SUBSET {1, 2} |->
                   IF s = {} THEN 0 ELSE IF s = {1} THEN a ELSE IF s = {2} THEN b ELSE c]
<1>1. \A s \in SUBSET {1, 2} : s = {} \/ s = {1} \/ s = {2} \/ s = {1, 2}
  OBVIOUS
<1>2. /\ {1} \ {1} = {} /\ {2} \ {2} = {} /\ {1, 2} \ {2} = {1}
      /\ T!Max({1}) = 1 /\ T!Max({2}) = 2 /\ T!Max({1, 2}) = 2
      /\ {1} # {} /\ {2} # {} /\ {1, 2} # {} /\ {2} # {1} /\ {1, 2} # {1} /\ {1, 2} # {2}
  BY GreatestOf
<1>3. \A s \in SUBSET {1, 2} :
        h[s] = IF s = {} THEN 0 ELSE IF s = {1} THEN a ELSE IF s = {2} THEN b ELSE c
  OBVIOUS
<1>4. h = [s \in SUBSET {1, 2} |-> h[s]]
  OBVIOUS
<1> HIDE DEF h
<1>5. h[{}] = 0 /\ h[{1}] = a /\ h[{2}] = b /\ h[{1, 2}] = c
  BY <1>2, <1>3
<1>6. ASSUME NEW s \in SUBSET {1, 2}
      PROVE  h[s] = IF s = {} THEN 0 ELSE h[s \ {T!Max(s)}] + iov[T!Max(s)].len
  <2>1. CASE s = {}
    BY <1>5, <2>1
  <2>2. CASE s = {1}
    BY <1>2, <1>5, <2>2
  <2>3. CASE s = {2}
    BY <1>2, <1>5, <2>3
  <2>4. CASE s = {1, 2}
    BY <1>2, <1>5, <2>4
  <2>5. QED
    BY <1>1, <2>1, <2>2, <2>3, <2>4
<1>7. Sums(h, iov, DOMAIN iov)
  BY <1>4, <1>6 DEF Sums
<1>8. T!IovBytes(iov) = (0 + iov[1].len) + iov[2].len
  <2> DEFINE g == CHOOSE f : Sums(f, iov, DOMAIN iov)
  <2>1. Sums(g, iov, DOMAIN iov) /\ T!IovBytes(iov) = g[DOMAIN iov]
    BY <1>7, IovBytesIs
  <2> HIDE DEF g
  <2>2. QED
    BY <2>1, SumsOf
<1>9. QED
  BY <1>8


(* th_iov_consume, before the sequences are put together.                  *)
Firsts(iov, n) == {i \in DOMAIN iov : n < T!IovBytes(SubSeq(iov, 1, i))}

(* th_iov_consume, for the iovs of one and of two runs.                    *)
LEMMA ConsumeIs ==
  ASSUME NEW S, NEW iov \in Seq(S), NEW n
  PROVE  T!IovConsume(iov, n) =
           LET first == IF Firsts(iov, n) # {} THEN T!Min(Firsts(iov, n)) ELSE 0
               gone == n - T!IovBytes(SubSeq(iov, 1, first - 1))
           IN IF first = 0 THEN <<>>
              ELSE <<[iov[first] EXCEPT !.at = @ + gone, !.len = @ - gone]>>
                   \o SubSeq(iov, first + 1, Len(iov))
<1> DEFINE I == Firsts(iov, n)
           first == IF I # {} THEN T!Min(I) ELSE 0
           sums == [i \in DOMAIN iov |-> T!IovBytes(SubSeq(iov, 1, i))]
<1>1. DOMAIN iov = 1 .. Len(iov) /\ Len(iov) \in Nat
  OBVIOUS
<1>2. Len(sums) = Len(iov)
  BY <1>1
<1>3. T!SelectInSeq(sums, LAMBDA bytes : n < bytes) = first
  <2>1. \A i \in DOMAIN iov : sums[i] = T!IovBytes(SubSeq(iov, 1, i))
    OBVIOUS
  <2> HIDE DEF sums
  <2>2. {i \in 1 .. Len(sums) : n < sums[i]} = I
    BY <1>1, <1>2, <2>1 DEF Firsts
  <2> HIDE DEF I
  <2>3. QED
    BY <2>2 DEF T!SelectInSeq
<1>4. QED
  BY <1>3 DEF T!IovConsume

LEMMA ConsumeNone ==
  ASSUME NEW S, NEW iov \in Seq(S), NEW n, Firsts(iov, n) = {}
  PROVE  T!IovConsume(iov, n) = <<>>
BY ConsumeIs

(* Run k, at and len long, is the first that is not consumed, but gone.    *)
BeginsAt(iov, n, k, gone, next, last) ==
  /\ k \in DOMAIN iov /\ k \in Firsts(iov, n) /\ \A j \in Firsts(iov, n) : k <= j
  /\ \E before \in Nat : k = before + 1 /\ gone = n - T!IovBytes(SubSeq(iov, 1, before))
  /\ gone \in Int /\ next = k + 1 /\ last = Len(iov)

IsRun(x, id, at, len) == x = RunAt(id, at, len) /\ at \in Int /\ len \in Int

ConsumedTo(iov, n, first, rest) == T!IovConsume(iov, n) = <<first>> \o rest

Moved(r, gone) == [r EXCEPT !.at = @ + gone, !.len = @ - gone]

LEMMA RunMoved ==
  ASSUME NEW r, NEW id, NEW at, NEW len, IsRun(r, id, at, len), NEW gone \in Int
  PROVE  Moved(r, gone) = RunAt(id, at + gone, len - gone)
<1> DEFINE at2 == at + gone
           len2 == len - gone
           q == [r EXCEPT !.at = at2]
<1>1. r \in [id : {id}, at : Int, len : Int] /\ r.at = at /\ r.len = len /\ r.id = id
      /\ at \in Int /\ len \in Int
  BY DEF RunAt, IsRun
<1>2. at2 \in Int /\ len2 \in Int
  BY <1>1
<1>3. [r EXCEPT !.at = @ + gone, !.len = @ - gone] = [q EXCEPT !.len = len2]
  BY <1>1
<1> HIDE DEF at2, len2
<1>4. q \in [id : {id}, at : Int, len : Int] /\ q.at = at2 /\ q.id = id
  BY <1>1, <1>2
<1> HIDE DEF q
<1>5. [q EXCEPT !.len = len2] = [id |-> id, at |-> at2, len |-> len2]
  BY <1>2, <1>4
<1>6. QED
  BY <1>3, <1>5 DEF at2, len2, RunAt, Moved

LEMMA ConsumeFrom ==
  ASSUME NEW S, NEW iov \in Seq(S), NEW n, NEW k, NEW gone, NEW next, NEW last,
         BeginsAt(iov, n, k, gone, next, last),
         NEW id, NEW at, NEW len, IsRun(iov[k], id, at, len)
  PROVE  ConsumedTo(iov, n, RunAt(id, at + gone, len - gone), SubSeq(iov, next, last))
<1> DEFINE I == Firsts(iov, n)
           x == Moved(iov[k], gone)
<1>0. /\ k \in DOMAIN iov /\ k \in I /\ \A j \in I : k <= j
      /\ gone = n - T!IovBytes(SubSeq(iov, 1, k - 1))
      /\ next = k + 1 /\ last = Len(iov) /\ gone \in Int
  <2>1. PICK before \in Nat : k = before + 1 /\ gone = n - T!IovBytes(SubSeq(iov, 1, before))
    BY DEF BeginsAt
  <2>2. k - 1 = before
    BY <2>1
  <2>3. QED
    BY <2>1, <2>2 DEF BeginsAt
<1>1. I \subseteq Nat /\ k \in Nat /\ k # 0
  BY <1>0 DEF Firsts
<1>2. T!Min(I) \in I /\ \A y \in I : T!Min(I) <= y
  BY <1>0 DEF T!Min
<1>3. T!Min(I) = k
  BY <1>0, <1>1, <1>2
<1>4. (IF I # {} THEN T!Min(I) ELSE 0) = k
  BY <1>0, <1>3
<1>5. T!IovConsume(iov, n) =
           LET first == IF I # {} THEN T!Min(I) ELSE 0
               moved == n - T!IovBytes(SubSeq(iov, 1, first - 1))
           IN IF first = 0 THEN <<>>
              ELSE <<Moved(iov[first], moved)>> \o SubSeq(iov, first + 1, Len(iov))
  BY ConsumeIs DEF Moved
<1> HIDE DEF I
<1>6. T!IovConsume(iov, n) = <<x>> \o SubSeq(iov, next, last)
  BY <1>0, <1>1, <1>4, <1>5
<1>7. x = RunAt(id, at + gone, len - gone)
  BY <1>0, RunMoved
<1> HIDE DEF x
<1>8. QED
  BY <1>6, <1>7 DEF ConsumedTo

(* Pieces of the shortest sequences.                                       *)
LEMMA PiecesOfOne ==
  ASSUME NEW x
  PROVE  /\ <<x>> \in Seq({x}) /\ Len(<<x>>) = 1 /\ DOMAIN <<x>> = {1} /\ <<x>>[1] = x
         /\ SubSeq(<<x>>, 1, 1) = <<x>>
         /\ DOMAIN SubSeq(<<x>>, 1, 0) = {}
         /\ SubSeq(<<x>>, 2, 1) = <<>>
         /\ <<x>> \o <<>> = <<x>>
<1> DEFINE one == <<x>>
           S == {x}
<1>1. one \in Seq(S) /\ Len(one) = 1 /\ DOMAIN one = {1} /\ one[1] = x
  OBVIOUS
<1> HIDE DEF one, S
<1>2. SubSeq(one, 1, 1) = one
  <2> DEFINE piece == SubSeq(one, 1, 1)
  <2>1. \A i \in 1 .. 1 : one[i] \in S
    BY <1>1
  <2>2. piece \in Seq(S) /\ Len(piece) = 1 /\ \A i \in 1 .. 1 : piece[i] = one[1 + i - 1]
    BY <2>1, SubSeqProperties
  <2> HIDE DEF piece
  <2>3. piece[1] = one[1]
    BY <2>2
  <2>4. \A i \in 1 .. Len(piece) : piece[i] = one[i]
    BY <2>2, <2>3
  <2>5. piece = one
    BY <1>1, <2>2, <2>4, SameSeqs
  <2>6. QED
    BY <2>5 DEF piece
<1>3. DOMAIN SubSeq(one, 1, 0) = {} /\ SubSeq(one, 2, 1) = <<>>
  BY SubSeqEmpty
<1>4. one \o Nothing = one
  BY <1>1, ConcatEmpty
<1>5. QED
  BY <1>1, <1>2, <1>3, <1>4 DEF one, S, Nothing

LEMMA PiecesOfTwo ==
  ASSUME NEW x, NEW y
  PROVE  /\ <<x, y>> \in Seq({x, y}) /\ Len(<<x, y>>) = 2 /\ DOMAIN <<x, y>> = {1, 2}
         /\ <<x, y>>[1] = x /\ <<x, y>>[2] = y
         /\ SubSeq(<<x, y>>, 1, 1) = <<x>> /\ SubSeq(<<x, y>>, 1, 2) = <<x, y>>
         /\ DOMAIN SubSeq(<<x, y>>, 1, 0) = {}
         /\ SubSeq(<<x, y>>, 2, 2) = <<y>> /\ SubSeq(<<x, y>>, 3, 2) = <<>>
         /\ <<x>> \o <<y>> = <<x, y>>
<1> DEFINE both == <<x, y>>
           one == <<x>>
           two == <<y>>
           S == {x, y}
<1>1. /\ both \in Seq(S) /\ Len(both) = 2 /\ DOMAIN both = {1, 2} /\ both[1] = x /\ both[2] = y
      /\ one \in Seq(S) /\ Len(one) = 1 /\ one[1] = x
      /\ two \in Seq(S) /\ Len(two) = 1 /\ two[1] = y
      /\ x \in S /\ y \in S
  OBVIOUS
<1> HIDE DEF both, one, two, S
<1>2. SubSeq(both, 1, 1) = one
  <2> DEFINE piece == SubSeq(both, 1, 1)
  <2>1. \A i \in 1 .. 1 : both[i] \in S
    BY <1>1
  <2>2. piece \in Seq(S) /\ Len(piece) = 1 /\ \A i \in 1 .. 1 : piece[i] = both[1 + i - 1]
    BY <2>1, SubSeqProperties
  <2> HIDE DEF piece
  <2>3. \A i \in 1 .. Len(piece) : piece[i] = one[i]
    BY <1>1, <2>2
  <2>4. piece = one
    BY <1>1, <2>2, <2>3, SameSeqs
  <2>5. QED
    BY <2>4 DEF piece
<1>3. SubSeq(both, 1, 2) = both
  <2> DEFINE piece == SubSeq(both, 1, 2)
  <2>1. \A i \in 1 .. 2 : both[i] \in S
    BY <1>1
  <2>2. piece \in Seq(S) /\ Len(piece) = 2 /\ \A i \in 1 .. 2 : piece[i] = both[1 + i - 1]
    BY <2>1, SubSeqProperties
  <2> HIDE DEF piece
  <2>3. piece[1] = both[1] /\ piece[2] = both[2]
    BY <2>2
  <2>4. \A i \in 1 .. Len(piece) : piece[i] = both[i]
    BY <2>2, <2>3
  <2>5. piece = both
    BY <1>1, <2>2, <2>4, SameSeqs
  <2>6. QED
    BY <2>5 DEF piece
<1>4. DOMAIN SubSeq(both, 1, 0) = {} /\ SubSeq(both, 3, 2) = <<>>
  BY SubSeqEmpty
<1>5. SubSeq(both, 2, 2) = two
  <2> DEFINE piece == SubSeq(both, 2, 2)
  <2>1. \A i \in 2 .. 2 : both[i] \in S
    BY <1>1
  <2>2. piece \in Seq(S) /\ Len(piece) = 1 /\ \A i \in 1 .. 1 : piece[i] = both[2 + i - 1]
    BY <2>1, SubSeqProperties
  <2> HIDE DEF piece
  <2>3. piece[1] = both[2]
    BY <2>2
  <2>4. \A i \in 1 .. Len(piece) : piece[i] = two[i]
    BY <1>1, <2>2, <2>3
  <2>5. piece = two
    BY <1>1, <2>2, <2>4, SameSeqs
  <2>6. QED
    BY <2>5 DEF piece
<1>6. one \o two = both
  <2> DEFINE all == one \o two
  <2>0. /\ all \in Seq(S) /\ Len(all) = Len(one) + Len(two)
        /\ \A i \in 1 .. Len(one) + Len(two) :
             all[i] = IF i <= Len(one) THEN one[i] ELSE two[i - Len(one)]
    <3>1. one \in Seq(S) /\ two \in Seq(S)
      BY <1>1
    <3>2. QED
      BY <3>1, ConcatProperties
  <2>1. /\ all \in Seq(S) /\ Len(all) = 2
        /\ \A i \in 1 .. 2 : all[i] = IF i <= 1 THEN one[i] ELSE two[i - 1]
    BY <1>1, <2>0
  <2> HIDE DEF all
  <2>2. all[1] = both[1] /\ all[2] = both[2]
    BY <1>1, <2>1
  <2>3. \A i \in 1 .. Len(all) : all[i] = both[i]
    BY <2>1, <2>2
  <2>4. all = both
    BY <1>1, <2>1, <2>3, SameSeqs
  <2>5. QED
    BY <2>4 DEF all
<1>7. QED
  BY <1>1, <1>2, <1>3, <1>4, <1>5, <1>6 DEF both, one, two, S

LEMMA ConsumeOfOne ==
  ASSUME NEW id, NEW at \in Nat, NEW len \in Nat, NEW n \in Nat
  PROVE  T!IovConsume(<<RunAt(id, at, len)>>, n) =
           IF n < len THEN <<RunAt(id, at + n, len - n)>> ELSE <<>>
<1> DEFINE x == RunAt(id, at, len)
           iov == <<x>>
<1>1. x.len = len
  BY DEF RunAt
<1> HIDE DEF x
<1>2. iov \in Seq({x}) /\ DOMAIN iov = {1} /\ iov[1] = x /\ Len(iov) = 1
      /\ SubSeq(iov, 1, 1) = iov /\ DOMAIN SubSeq(iov, 1, 0) = {}
      /\ SubSeq(iov, 2, 1) = <<>>
  BY PiecesOfOne
<1> HIDE DEF iov
<1>3. T!IovBytes(iov) = len /\ T!IovBytes(SubSeq(iov, 1, 0)) = 0
  BY <1>1, <1>2, IovBytesOfOne, IovBytesOfNone
<1>4. Firsts(iov, n) = IF n < len THEN {1} ELSE {}
  BY <1>2, <1>3 DEF Firsts
<1>5. CASE n < len
  <2>1. 1 \in DOMAIN iov /\ 1 \in Firsts(iov, n) /\ \A j \in Firsts(iov, n) : 1 <= j
    BY <1>2, <1>4, <1>5
  <2>2. n = n - T!IovBytes(SubSeq(iov, 1, 0)) /\ IsRun(iov[1], id, at, len)
    BY <1>2, <1>3 DEF x, IsRun
  <2>3. ConsumedTo(iov, n, RunAt(id, at + n, len - n), SubSeq(iov, 2, Len(iov)))
    <3>1. BeginsAt(iov, n, 1, n, 2, Len(iov))
      <4>1. 1 = 0 + 1 /\ 2 = 1 + 1 /\ 0 \in Nat /\ n \in Int
        OBVIOUS
      <4>2. QED
        BY <2>1, <2>2, <4>1 DEF BeginsAt
    <3>2. QED
      BY <1>2, <2>2, <3>1, ConsumeFrom
  <2>4. ConsumedTo(iov, n, RunAt(id, at + n, len - n), <<>>)
    BY <1>2, <2>3
  <2> DEFINE left == RunAt(id, at + n, len - n)
  <2>5. ConsumedTo(iov, n, left, <<>>)
    BY <2>4
  <2> HIDE DEF left
  <2>6. T!IovConsume(iov, n) = <<left>>
    BY <2>5, PiecesOfOne DEF ConsumedTo
  <2>7. QED
    BY <1>5, <2>6 DEF iov, x, left
<1>6. CASE ~(n < len)
  <2>1. T!IovConsume(iov, n) = <<>>
    BY <1>2, <1>4, <1>6, ConsumeNone
  <2>2. QED
    BY <1>6, <2>1 DEF iov, x
<1>7. QED
  BY <1>5, <1>6

ConsumedOfTwo(id, at1, len1, at2, len2, n) ==
  T!IovConsume(<<RunAt(id, at1, len1), RunAt(id, at2, len2)>>, n) =
    IF n < len1 THEN <<RunAt(id, at1 + n, len1 - n), RunAt(id, at2, len2)>>
    ELSE IF n < len1 + len2 THEN <<RunAt(id, at2 + (n - len1), len2 - (n - len1))>>
    ELSE <<>>

LEMMA ConsumeOfTwo ==
  ASSUME NEW id, NEW at1 \in Nat, NEW len1 \in Nat, NEW at2 \in Nat, NEW len2 \in Nat, NEW n \in Nat
  PROVE  ConsumedOfTwo(id, at1, len1, at2, len2, n)
<1> DEFINE x == RunAt(id, at1, len1)
           y == RunAt(id, at2, len2)
           iov == <<x, y>>
           one == <<x>>
<1>1. x.len = len1 /\ y.len = len2
  BY DEF RunAt
<1> HIDE DEF x, y
<1>2. /\ iov \in Seq({x, y}) /\ DOMAIN iov = {1, 2} /\ iov[1] = x /\ iov[2] = y /\ Len(iov) = 2
      /\ SubSeq(iov, 1, 1) = one /\ SubSeq(iov, 1, 2) = iov /\ DOMAIN SubSeq(iov, 1, 0) = {}
      /\ SubSeq(iov, 2, 2) = <<y>> /\ SubSeq(iov, 3, 2) = <<>>
  BY PiecesOfTwo
<1>3. DOMAIN one = {1} /\ one[1] = x
  BY PiecesOfOne
<1> HIDE DEF iov, one
<1>4. /\ T!IovBytes(iov) = len1 + len2 /\ T!IovBytes(SubSeq(iov, 1, 0)) = 0
      /\ T!IovBytes(one) = len1
  BY <1>1, <1>2, <1>3, IovBytesOfOne, IovBytesOfTwo, IovBytesOfNone
<1>5. /\ 1 \in Firsts(iov, n) <=> n < len1
      /\ 2 \in Firsts(iov, n) <=> n < len1 + len2
      /\ Firsts(iov, n) \subseteq {1, 2}
  BY <1>2, <1>4 DEF Firsts
<1>6. CASE n < len1
  <2>1. 1 \in DOMAIN iov /\ 1 \in Firsts(iov, n) /\ \A j \in Firsts(iov, n) : 1 <= j
    BY <1>2, <1>5, <1>6
  <2>2. n = n - T!IovBytes(SubSeq(iov, 1, 0)) /\ IsRun(iov[1], id, at1, len1)
    BY <1>2, <1>4 DEF x, IsRun
  <2>3. ConsumedTo(iov, n, RunAt(id, at1 + n, len1 - n), SubSeq(iov, 2, Len(iov)))
    <3>1. BeginsAt(iov, n, 1, n, 2, Len(iov))
      <4>1. 1 = 0 + 1 /\ 2 = 1 + 1 /\ 0 \in Nat /\ n \in Int
        OBVIOUS
      <4>2. QED
        BY <2>1, <2>2, <4>1 DEF BeginsAt
    <3>2. QED
      BY <1>2, <2>2, <3>1, ConsumeFrom
  <2>4. T!IovConsume(iov, n) = <<RunAt(id, at1 + n, len1 - n)>> \o <<y>>
    BY <1>2, <2>3 DEF ConsumedTo
  <2>5. QED
    BY <1>6, <2>4, PiecesOfTwo DEF iov, x, y, ConsumedOfTwo
<1>7. CASE ~(n < len1) /\ n < len1 + len2
  <2> DEFINE gone == n - len1
  <2>1. 2 \in DOMAIN iov /\ 2 \in Firsts(iov, n) /\ \A j \in Firsts(iov, n) : 2 <= j
    BY <1>2, <1>5, <1>7
  <2>2. gone = n - T!IovBytes(SubSeq(iov, 1, 1)) /\ IsRun(iov[2], id, at2, len2) /\ gone \in Int
    <3>1. T!IovBytes(SubSeq(iov, 1, 1)) = len1
      BY <1>2, <1>4
    <3>2. QED
      BY <1>2, <3>1 DEF y, IsRun
  <2> HIDE DEF gone
  <2>3. ConsumedTo(iov, n, RunAt(id, at2 + gone, len2 - gone), SubSeq(iov, 3, Len(iov)))
    <3>1. BeginsAt(iov, n, 2, gone, 3, Len(iov))
      <4>1. 2 = 1 + 1 /\ 3 = 2 + 1 /\ 1 \in Nat
        OBVIOUS
      <4>2. QED
        BY <2>1, <2>2, <4>1 DEF BeginsAt
    <3>2. QED
      BY <1>2, <2>2, <3>1, ConsumeFrom
  <2> DEFINE left == RunAt(id, at2 + gone, len2 - gone)
  <2>4. ConsumedTo(iov, n, left, <<>>)
    BY <1>2, <2>3
  <2> HIDE DEF left
  <2>5. T!IovConsume(iov, n) = <<left>>
    BY <2>4, PiecesOfOne DEF ConsumedTo
  <2>6. QED
    BY <1>7, <2>5 DEF iov, x, y, gone, left, ConsumedOfTwo
<1>8. CASE ~(n < len1) /\ ~(n < len1 + len2)
  <2>1. Firsts(iov, n) = {}
    BY <1>5, <1>8
  <2>2. T!IovConsume(iov, n) = <<>>
    BY <1>2, <2>1, ConsumeNone
  <2>3. QED
    BY <1>8, <2>2 DEF iov, x, y, ConsumedOfTwo
<1>9. QED
  BY <1>6, <1>7, <1>8 DEF ConsumedOfTwo


-----------------------------------------------------------------------------
(* The runs of m cells of a buffer of some size, from a position on.       *)
RunsOf(id, size, from, m) ==
  LET at == from % size
      first == size - at
  IN IF m = 0 THEN <<>>
     ELSE IF at + m <= size THEN <<RunAt(id, at, m)>>
     ELSE <<RunAt(id, at, first), RunAt(id, 0, m - first)>>

InOneRun(size, from, m, at) == m # 0 /\ at = from % size /\ at + m <= size

InTwoRuns(size, from, m, at, len1, len2) ==
  /\ m # 0 /\ at = from % size /\ ~(at + m <= size)
  /\ len1 = size - at /\ len2 = m - len1

(* The runs of m cells from a position: none, one, or two around the end.  *)
LEMMA RunsAre ==
  ASSUME NEW id, NEW size, NEW from, NEW m, NEW at, NEW len1, NEW len2
  PROVE  /\ m = 0 => RunsOf(id, size, from, m) = <<>>
         /\ InOneRun(size, from, m, at) => RunsOf(id, size, from, m) = <<RunAt(id, at, m)>>
         /\ InTwoRuns(size, from, m, at, len1, len2) =>
              RunsOf(id, size, from, m) = <<RunAt(id, at, len1), RunAt(id, 0, len2)>>
BY DEF RunsOf, InOneRun, InTwoRuns

LEMMA RunsEmpty ==
  ASSUME NEW id, NEW size, NEW from, NEW m, RunsOf(id, size, from, m) = <<>>
  PROVE  m = 0
<1>1. \A x, y : <<x>> # <<>> /\ <<x, y>> # <<>>
  <2> TAKE x, y
  <2>1. Len(<<x>>) = 1 /\ Len(<<x, y>>) = 2 /\ Len(<<>>) = 0
    OBVIOUS
  <2>2. QED
    BY <2>1
<1>2. QED
  BY <1>1 DEF RunsOf

(* They are m bytes.                                                       *)
LEMMA BytesOfRuns ==
  ASSUME NEW id, NEW size \in Nat \ {0}, NEW from \in Nat, NEW m \in 0 .. size
  PROVE  T!IovBytes(RunsOf(id, size, from, m)) = m
<1> DEFINE at == from % size
           len1 == size - at
           len2 == m - len1
<1>1. at \in Nat /\ at < size
  OBVIOUS
<1> HIDE DEF at
<1>2. CASE m = 0
  <2>1. RunsOf(id, size, from, m) = <<>>
    BY <1>2, RunsAre
  <2>2. DOMAIN <<>> = {}
    OBVIOUS
  <2>3. QED
    BY <1>2, <2>1, <2>2, IovBytesOfNone
<1>3. CASE m # 0 /\ at + m <= size
  <2> DEFINE x == RunAt(id, at, m)
  <2>1. RunsOf(id, size, from, m) = <<x>>
    <3>1. InOneRun(size, from, m, at)
      BY <1>3 DEF InOneRun, at
    <3>2. QED
      BY <3>1, RunsAre
  <2>2. x.len = m
    BY DEF RunAt
  <2> HIDE DEF x
  <2>3. DOMAIN <<x>> = {1} /\ <<x>>[1] = x
    BY PiecesOfOne
  <2>4. QED
    BY <2>1, <2>2, <2>3, IovBytesOfOne
<1>4. CASE m # 0 /\ ~(at + m <= size)
  <2>0. len1 \in Nat /\ len2 \in Nat /\ len1 + len2 = m /\ len1 = size - at /\ len2 = m - len1
    BY <1>1, <1>4
  <2> HIDE DEF len1, len2
  <2> DEFINE x == RunAt(id, at, len1)
             y == RunAt(id, 0, len2)
  <2>1. RunsOf(id, size, from, m) = <<x, y>>
    <3>1. InTwoRuns(size, from, m, at, len1, len2)
      BY <1>4, <2>0 DEF InTwoRuns, at
    <3>2. QED
      BY <3>1, RunsAre
  <2>2. x.len = len1 /\ y.len = len2
    BY DEF RunAt
  <2> HIDE DEF x, y
  <2>3. DOMAIN <<x, y>> = {1, 2} /\ <<x, y>>[1] = x /\ <<x, y>>[2] = y
    BY PiecesOfTwo
  <2>4. QED
    BY <2>0, <2>1, <2>2, <2>3, IovBytesOfTwo
<1>5. QED
  BY <1>2, <1>3, <1>4

(* What is left of the runs begins behind what was consumed.               *)
LEMMA RunsConsumed ==
  ASSUME NEW id, NEW size \in Nat \ {0}, NEW from \in Nat, NEW m \in 0 .. size, NEW n \in 0 .. m
  PROVE  T!IovConsume(RunsOf(id, size, from, m), n) = RunsOf(id, size, from + n, m - n)
<1> DEFINE at == from % size
           next == from + n
           at2 == next % size
           left == m - n
           len1 == size - at
           len2 == m - len1
<1>1. at \in Nat /\ at < size /\ next \in Nat /\ left \in 0 .. size /\ n \in Nat /\ m \in Nat /\ n <= m
      /\ left = m - n
  OBVIOUS
<1>2. at2 = IF at + n < size THEN at + n ELSE at + n - size
  <2>1. n \in 0 .. size
    OBVIOUS
  <2>2. QED
    BY <2>1, RemainderMoves
<1> SUFFICES T!IovConsume(RunsOf(id, size, from, m), n) = RunsOf(id, size, next, left)
  OBVIOUS
<1> HIDE DEF at, next, left
<1>3. CASE m = 0
  <2>0. left = 0
    <3>1. n = 0
      BY <1>3
    <3>2. QED
      BY <1>3, <3>1 DEF left
  <2>1. RunsOf(id, size, from, m) = <<>>
    BY <1>3, RunsAre
  <2>2. RunsOf(id, size, next, left) = <<>>
    BY <2>0, RunsAre
  <2>3. Firsts(<<>>, n) = {} /\ <<>> \in Seq({})
    BY DEF Firsts
  <2>4. T!IovConsume(<<>>, n) = <<>>
    BY <2>3, ConsumeNone
  <2>5. QED
    BY <2>0, <2>1, <2>2, <2>4
<1>4. CASE m # 0 /\ at + m <= size
  <2>1. RunsOf(id, size, from, m) = <<RunAt(id, at, m)>>
    <3>1. InOneRun(size, from, m, at)
      BY <1>4 DEF InOneRun, at
    <3>2. QED
      BY <3>1, RunsAre
  <2>2. T!IovConsume(RunsOf(id, size, from, m), n) = IF n < m THEN <<RunAt(id, at + n, m - n)>> ELSE <<>>
    BY <1>1, <2>1, ConsumeOfOne
  <2>3. CASE n < m
    <3> DEFINE moved == at + n
    <3>1. moved = at2 /\ moved \in Nat /\ moved + left <= size /\ left # 0
      BY <1>1, <1>2, <1>4, <2>3
    <3>2. T!IovConsume(RunsOf(id, size, from, m), n) = <<RunAt(id, moved, left)>>
      BY <2>2, <2>3 DEF left
    <3> HIDE DEF moved
    <3>3. RunsOf(id, size, next, left) = <<RunAt(id, moved, left)>>
      <4>1. InOneRun(size, next, left, moved)
        BY <3>1 DEF InOneRun, at2
      <4>2. QED
        BY <3>1, <4>1, RunsAre
    <3>4. QED
      BY <3>2, <3>3
  <2>4. CASE ~(n < m)
    <3>1. left = 0
      BY <1>1, <2>4
    <3>2. QED
      BY <1>1, <2>2, <2>4, <3>1, RunsAre
  <2>5. QED
    BY <2>3, <2>4
<1>5. CASE m # 0 /\ ~(at + m <= size)
  <2>0. len1 \in Nat /\ len2 \in Nat /\ len1 + len2 = m /\ len1 = size - at /\ len2 = m - len1
    BY <1>1, <1>5
  <2> HIDE DEF len1, len2
  <2>1. RunsOf(id, size, from, m) = <<RunAt(id, at, len1), RunAt(id, 0, len2)>>
    <3>1. InTwoRuns(size, from, m, at, len1, len2)
      BY <1>5, <2>0 DEF InTwoRuns, at
    <3>2. QED
      BY <3>1, RunsAre
  <2>2. T!IovConsume(RunsOf(id, size, from, m), n) =
           IF n < len1 THEN <<RunAt(id, at + n, len1 - n), RunAt(id, 0, len2)>>
           ELSE IF n < len1 + len2 THEN <<RunAt(id, 0 + (n - len1), len2 - (n - len1))>>
           ELSE <<>>
    <3> DEFINE zero == 0
    <3>1. zero \in Nat /\ at \in Nat /\ n \in Nat /\ len1 \in Nat /\ len2 \in Nat
      BY <1>1, <2>0
    <3> HIDE DEF zero
    <3>2. ConsumedOfTwo(id, at, len1, zero, len2, n)
      BY <3>1, ConsumeOfTwo
    <3>3. QED
      BY <2>1, <3>2 DEF zero, ConsumedOfTwo
  <2>3. CASE n < len1
    <3> DEFINE moved == at + n
               len == len1 - n
    <3>1. /\ moved = at2 /\ moved \in Nat /\ ~(moved + left <= size) /\ left # 0
          /\ len \in Nat /\ len = size - moved /\ len2 = left - len
      BY <1>1, <1>2, <1>5, <2>0, <2>3
    <3>2. T!IovConsume(RunsOf(id, size, from, m), n) = <<RunAt(id, moved, len), RunAt(id, 0, len2)>>
      BY <2>2, <2>3
    <3> HIDE DEF moved, len
    <3>3. RunsOf(id, size, next, left) = <<RunAt(id, moved, len), RunAt(id, 0, len2)>>
      <4>1. InTwoRuns(size, next, left, moved, len, len2)
        BY <3>1 DEF InTwoRuns, at2
      <4>2. QED
        BY <3>1, <4>1, RunsAre
    <3>4. QED
      BY <3>2, <3>3
  <2>4. CASE ~(n < len1) /\ n < m
    <3> DEFINE moved == 0 + (n - len1)
               len == len2 - (n - len1)
    <3>1. moved = at2 /\ moved \in Nat /\ moved + left <= size /\ left # 0 /\ len = left
      BY <1>1, <1>2, <1>5, <2>0, <2>4
    <3>2. T!IovConsume(RunsOf(id, size, from, m), n) = <<RunAt(id, moved, len)>>
      BY <2>0, <2>2, <2>4
    <3> HIDE DEF moved, len
    <3>3. RunsOf(id, size, next, left) = <<RunAt(id, moved, left)>>
      <4>1. InOneRun(size, next, left, moved)
        BY <3>1 DEF InOneRun, at2
      <4>2. QED
        BY <3>1, <4>1, RunsAre
    <3>4. QED
      BY <3>1, <3>2, <3>3
  <2>5. CASE ~(n < m)
    <3>1. left = 0 /\ ~(n < len1) /\ ~(n < len1 + len2)
      BY <1>1, <2>0, <2>5
    <3>2. QED
      BY <1>1, <2>2, <3>1, RunsAre
  <2>6. QED
    BY <2>3, <2>4, <2>5
<1>6. QED
  BY <1>3, <1>4, <1>5


-----------------------------------------------------------------------------
(* The cells of the runs, and what they hold.                              *)

LEMMA FlattenOneOrTwo ==
  ASSUME NEW S, NEW s \in Seq(S), NEW t \in Seq(S)
  PROVE  FlattenSeq(<<s>>) = s /\ FlattenSeq(<<s, t>>) = s \o t
<1> DEFINE none == <<>>
           one == <<s>>
           two == <<s, t>>
<1>0. none \in Seq(Seq(S)) /\ Append(none, s) = one /\ Append(one, t) = two
  <2>1. none \in Seq(Seq(S))
    OBVIOUS
  <2>2. \A x : Append(<<>>, x) = <<x>>
    OBVIOUS
  <2>3. ASSUME NEW x, NEW y PROVE Append(<<x>>, y) = <<x, y>>
    <3> DEFINE U == {x, y}
               first == <<x>>
               pair == <<x, y>>
               more == Append(first, y)
    <3>1. first \in Seq(U) /\ Len(first) = 1 /\ first[1] = x /\ y \in U
      OBVIOUS
    <3>2. pair \in Seq(U) /\ Len(pair) = 2 /\ pair[1] = x /\ pair[2] = y
      OBVIOUS
    <3> HIDE DEF U, first, pair
    <3>3. /\ more \in Seq(U) /\ Len(more) = Len(first) + 1
          /\ \A k \in 1 .. Len(first) : more[k] = first[k]
          /\ more[Len(first) + 1] = y
      BY <3>1, AppendParts
    <3> HIDE DEF more
    <3>4. more[1] = x /\ more[2] = y /\ Len(more) = 2
      BY <3>1, <3>3
    <3>5. \A k \in 1 .. Len(more) : more[k] = pair[k]
      BY <3>2, <3>4
    <3>6. more = pair
      BY <3>2, <3>3, <3>4, <3>5, SameSeqs
    <3>7. QED
      BY <3>6 DEF more, first, pair
  <2>4. QED
    BY <2>1, <2>2, <2>3
<1>1. none \in Seq(Seq(S)) /\ one \in Seq(Seq(S)) /\ Append(none, s) = one /\ Append(one, t) = two
  <2>1. \A x \in Seq(S) : <<x>> \in Seq(Seq(S))
    OBVIOUS
  <2>2. QED
    BY <1>0, <2>1
<1>2. FlattenSeq(none) = Nothing
  BY FlattenEmpty DEF Nothing
<1> HIDE DEF none, one, two
<1>3. FlattenSeq(one) = FlattenSeq(none) \o s
  BY <1>1, FlattenAppend
<1>4. FlattenSeq(one) = s
  BY <1>2, <1>3, ConcatEmpty
<1>5. FlattenSeq(two) = s \o t
  BY <1>1, <1>4, FlattenAppend
<1>6. QED
  BY <1>4, <1>5 DEF one, two

RunCells(run) == [i \in 1 .. run.len |-> <<run.id, run.at + i - 1>>]

(* And these cells, one after the other.                                   *)
LEMMA CellsAre ==
  ASSUME NEW iov
  PROVE  T!Cells(iov) = FlattenSeq([k \in DOMAIN iov |-> RunCells(iov[k])])
BY DEF T!Cells, T!FlattenSeq, FlattenSeq, RunCells

CellsFrom(id, size, from, m) == [i \in 1 .. m |-> <<id, (from + i - 1) % size>>]

LEMMA CellsOfRuns ==
  ASSUME NEW id, NEW size \in Nat \ {0}, NEW from \in Nat, NEW m \in 0 .. size
  PROVE  T!Cells(RunsOf(id, size, from, m)) = CellsFrom(id, size, from, m)
<1> DEFINE S == {id} \X Nat
           at == from % size
           len1 == size - at
           len2 == m - len1
           iov == RunsOf(id, size, from, m)
           cells == [i \in 1 .. m |-> <<id, (from + i - 1) % size>>]
<1>1. at \in Nat /\ at < size /\ m \in Nat
  OBVIOUS
<1>2. ASSUME NEW i \in 1 .. m
      PROVE  (from + i - 1) % size = IF at + (i - 1) < size THEN at + (i - 1) ELSE at + (i - 1) - size
  <2> DEFINE k == i - 1
  <2>1. k \in 0 .. size /\ from + i - 1 = from + k
    OBVIOUS
  <2> HIDE DEF k
  <2>2. (from + k) % size = IF at + k < size THEN at + k ELSE at + k - size
    BY <2>1, RemainderMoves
  <2>3. QED
    BY <2>1, <2>2 DEF k
<1> HIDE DEF at
<1> DEFINE position(i) == IF at + (i - 1) < size THEN at + (i - 1) ELSE at + (i - 1) - size
<1>3. cells = [i \in 1 .. m |-> <<id, position(i)>>]
  BY <1>2
<1>4. \A i \in 1 .. m : position(i) \in Nat
  BY <1>1
<1>5. cells \in Seq(S) /\ Len(cells) = m /\ \A i \in 1 .. m : cells[i] = <<id, position(i)>>
  <2>1. \A i \in 1 .. m : <<id, position(i)>> \in S
    BY <1>4
  <2> HIDE DEF position, S
  <2>2. cells \in [1 .. m -> S] /\ \A i \in 1 .. m : cells[i] = <<id, position(i)>>
    BY <1>3, <2>1
  <2> HIDE DEF cells
  <2>3. cells \in Seq(S) /\ Len(cells) = m
    BY <1>1, <2>2
  <2>4. QED
    BY <2>2, <2>3
<1> HIDE DEF cells
<1>6. ASSUME NEW a \in Nat, NEW len \in Nat
      PROVE  RunCells(RunAt(id, a, len)) \in Seq(S) /\ Len(RunCells(RunAt(id, a, len))) = len
             /\ \A i \in 1 .. len : RunCells(RunAt(id, a, len))[i] = <<id, a + (i - 1)>>
  <2>1. RunCells(RunAt(id, a, len)) = [i \in 1 .. len |-> <<id, a + i - 1>>]
    BY DEF RunCells, RunAt
  <2>2. \A i \in 1 .. len : a + i - 1 \in Nat /\ a + i - 1 = a + (i - 1)
    OBVIOUS
  <2>3. QED
    BY <2>1, <2>2
<1> SUFFICES T!Cells(iov) = cells
  BY DEF cells, CellsFrom
<1>7. CASE m = 0
  <2>1. iov = <<>>
    BY <1>7, RunsAre
  <2>2. [k \in DOMAIN <<>> |-> RunCells(<<>>[k])] = <<>>
    OBVIOUS
  <2>3. T!Cells(iov) = <<>>
    BY <2>1, <2>2, CellsAre, FlattenEmpty
  <2>4. QED
    BY <1>5, <1>7, <2>3
<1>8. CASE m # 0 /\ at + m <= size
  <2> DEFINE x == RunAt(id, at, m)
             s == RunCells(x)
  <2>1. iov = <<x>>
    <3>1. InOneRun(size, from, m, at)
      BY <1>8 DEF InOneRun, at
    <3>2. QED
      BY <3>1, RunsAre
  <2>2. s \in Seq(S) /\ Len(s) = m /\ \A i \in 1 .. m : s[i] = <<id, at + (i - 1)>>
    BY <1>1, <1>6
  <2> HIDE DEF x
  <2>3. [k \in DOMAIN <<x>> |-> RunCells(<<x>>[k])] = <<s>>
    OBVIOUS
  <2> HIDE DEF iov
  <2>4. T!Cells(iov) = s
    <3>1. T!Cells(iov) = FlattenSeq(<<s>>)
      BY <2>1, <2>3, CellsAre
    <3> HIDE DEF s
    <3>2. QED
      BY <2>2, <3>1, FlattenOneOrTwo
  <2> HIDE DEF s
  <2>5. \A i \in 1 .. m : position(i) = at + (i - 1)
    BY <1>1, <1>8
  <2>6. cells = s
    BY <1>5, <2>2, <2>5, SameSeqs
  <2>7. QED
    BY <2>4, <2>6
<1>9. CASE m # 0 /\ ~(at + m <= size)
  <2>0. len1 \in Nat /\ len2 \in Nat /\ len1 + len2 = m /\ len1 = size - at /\ len2 = m - len1
    BY <1>1, <1>9
  <2> HIDE DEF len1, len2
  <2> DEFINE x == RunAt(id, at, len1)
             y == RunAt(id, 0, len2)
             s == RunCells(x)
             t == RunCells(y)
             all == s \o t
  <2>1. iov = <<x, y>>
    <3>1. InTwoRuns(size, from, m, at, len1, len2)
      BY <1>9, <2>0 DEF InTwoRuns, at
    <3>2. QED
      BY <3>1, RunsAre
  <2>2. s \in Seq(S) /\ Len(s) = len1 /\ \A i \in 1 .. len1 : s[i] = <<id, at + (i - 1)>>
    BY <1>1, <1>6, <2>0
  <2>3. t \in Seq(S) /\ Len(t) = len2 /\ \A i \in 1 .. len2 : t[i] = <<id, 0 + (i - 1)>>
    BY <1>6, <2>0
  <2> HIDE DEF x, y
  <2>4. [k \in DOMAIN <<x, y>> |-> RunCells(<<x, y>>[k])] = <<s, t>>
    OBVIOUS
  <2> HIDE DEF iov
  <2>5. T!Cells(iov) = all
    <3>1. T!Cells(iov) = FlattenSeq(<<s, t>>)
      BY <2>1, <2>4, CellsAre
    <3> HIDE DEF s, t
    <3>2. QED
      BY <2>2, <2>3, <3>1, FlattenOneOrTwo
  <2> HIDE DEF s, t
  <2>6. /\ all \in Seq(S) /\ Len(all) = Len(s) + Len(t)
        /\ \A i \in 1 .. Len(s) + Len(t) : all[i] = IF i <= Len(s) THEN s[i] ELSE t[i - Len(s)]
    <3>1. s \in Seq(S) /\ t \in Seq(S)
      BY <2>2, <2>3
    <3>2. QED
      BY <3>1, ConcatProperties
  <2> HIDE DEF all
  <2>7. ASSUME NEW i \in 1 .. m PROVE all[i] = <<id, position(i)>>
    <3>1. i \in 1 .. Len(s) + Len(t)
      BY <2>0, <2>2, <2>3
    <3>2. CASE i <= len1
      <4>1. i \in 1 .. len1 /\ position(i) = at + (i - 1)
        BY <1>1, <2>0, <3>2
      <4>2. all[i] = s[i]
        BY <2>2, <2>6, <3>1, <3>2
      <4>3. QED
        BY <2>2, <4>1, <4>2
    <3>3. CASE ~(i <= len1)
      <4> DEFINE j == i - len1
      <4>1. j \in 1 .. len2 /\ position(i) = 0 + (j - 1)
        BY <1>1, <2>0, <3>3
      <4>2. all[i] = t[j]
        BY <2>2, <2>6, <3>1, <3>3
      <4> HIDE DEF j
      <4>3. QED
        BY <2>3, <4>1, <4>2
    <3>4. QED
      BY <3>2, <3>3
  <2>8. Len(all) = m /\ all \in Seq(S)
    BY <2>0, <2>2, <2>3, <2>6
  <2>9. all = cells
    BY <1>5, <2>7, <2>8, SameSeqs
  <2>10. QED
    BY <2>5, <2>9
<1>10. QED
  BY <1>7, <1>8, <1>9

(* A cell of the first chunk is found by the address of the chunk.         *)
LEMMA HeadCell ==
  ASSUME NEW r, r.chunks \in Seq(Chunk), r.chunks # <<>>, NEW c, c = r.chunks[1],
         NEW at \in 0 .. c.capacity - 1
  PROVE  R!CellAt(r, c.id, at) = c.data[at]
<1> DEFINE I == {i \in 1 .. Len(r.chunks) : r.chunks[i].id = c.id}
<1>1. 1 \in I /\ I \subseteq Nat /\ \A i \in I : 1 <= i
  BY TailIs
<1>2. R!SelectInSeq(r.chunks, LAMBDA chunk : chunk.id = c.id) = IF I # {} THEN R!Min(I) ELSE 0
  BY DEF R!SelectInSeq
<1> HIDE DEF I
<1>3. R!Min(I) \in I /\ \A y \in I : R!Min(I) <= y
  BY <1>1, RingMin
<1>4. R!Min(I) \in Nat
  BY <1>1, <1>3
<1>5. R!Min(I) = 1
  BY <1>1, <1>3, <1>4
<1>6. R!SelectInSeq(r.chunks, LAMBDA chunk : chunk.id = c.id) = 1
  BY <1>1, <1>2, <1>5
<1>7. c \in Chunk
  BY TailIs
<1>8. at \in DOMAIN c.data
  BY <1>7, ChunkIs
<1> DEFINE found == R!SelectInSeq(r.chunks, LAMBDA chunk : chunk.id = c.id)
<1>9. R!CellAt(r, c.id, at) =
        IF found = 0 \/ at \notin DOMAIN r.chunks[found].data THEN <<"none", 0, 0>>
        ELSE r.chunks[found].data[at]
  BY DEF R!CellAt
<1>10. found = 1
  BY <1>6
<1> HIDE DEF found
<1>11. QED
  BY <1>8, <1>9, <1>10

(* th_ring_peek shows all of the first chunk.                              *)
LEMMA PeekIs ==
  ASSUME NEW r, r.chunks \in Seq(Chunk), r.chunks # <<>>, NEW c, c = r.chunks[1]
  PROVE  R!Peek(r) = RunsOf(c.id, c.capacity, c.head, R!ChunkLen(c))
<1> DEFINE m == R!ChunkLen(c)
           size == c.capacity
           at == c.head % size
           len1 == size - at
           first == R!Min({len1, m})
           len2 == m - first
           run == [id |-> c.id, at |-> at, len |-> first]
<1>1. c \in Chunk /\ Head(r.chunks) = c
  BY TailIs
<1>2. size \in Nat \ {0} /\ c.head \in Nat /\ m \in 0 .. size
  BY <1>1, ChunkIs
<1>3. at \in Nat /\ at < size
  BY <1>2
<1>4. R!Peek(r) = IF m = 0 THEN <<>>
                  ELSE IF first = m THEN <<run>>
                  ELSE <<run, [run EXCEPT !.at = 0, !.len = len2]>>
  BY <1>1 DEF R!Peek
<1>5. [run EXCEPT !.at = 0, !.len = len2] = RunAt(c.id, 0, len2)
  <2> DEFINE q == [run EXCEPT !.at = 0]
  <2>1. q = [id |-> c.id, at |-> 0, len |-> first]
    OBVIOUS
  <2>2. [run EXCEPT !.at = 0, !.len = len2] = [q EXCEPT !.len = len2]
    OBVIOUS
  <2> HIDE DEF q
  <2>3. q \in [id : {c.id}, at : {0}, len : {first}]
    BY <2>1
  <2> HIDE DEF first, len2
  <2>4. [q EXCEPT !.len = len2] = [id |-> c.id, at |-> 0, len |-> len2]
    BY <2>3
  <2>5. QED
    BY <2>2, <2>4 DEF RunAt
<1>6. run = RunAt(c.id, at, first)
  BY DEF RunAt
<1>7. first = IF len1 <= m THEN len1 ELSE m
  BY <1>2, <1>3, RingLesser
<1> HIDE DEF first, run, m, size, at
<1>8. CASE m = 0
  BY <1>4, <1>8, RunsAre DEF m
<1>9. CASE m # 0 /\ at + m <= size
  <2>1. first = m
    BY <1>2, <1>3, <1>7, <1>9
  <2>2. InOneRun(size, c.head, m, at)
    BY <1>9 DEF InOneRun, at
  <2>3. QED
    BY <1>4, <1>6, <1>9, <2>1, <2>2, RunsAre DEF m, size
<1>10. CASE m # 0 /\ ~(at + m <= size)
  <2>1. first = len1 /\ first # m
    BY <1>2, <1>3, <1>7, <1>10
  <2>2. InTwoRuns(size, c.head, m, at, first, len2)
    BY <1>10, <2>1 DEF InTwoRuns, at
  <2>3. QED
    BY <1>4, <1>5, <1>6, <1>10, <2>1, <2>2, RunsAre DEF m, size
<1>11. QED
  BY <1>8, <1>9, <1>10


-----------------------------------------------------------------------------
(* A send of a chunk.                                                      *)

(* A part of a sequence.                                                   *)
LEMMA PieceIs ==
  ASSUME NEW S, NEW s \in Seq(S), NEW a \in Nat, NEW n \in Nat, a + n <= Len(s),
         NEW first, NEW last, first = a + 1, last = a + n
  PROVE  /\ SubSeq(s, first, last) \in Seq(S) /\ Len(SubSeq(s, first, last)) = n
         /\ \A i \in 1 .. n : SubSeq(s, first, last)[i] = s[a + i]
         /\ SubSeq(s, first, last) = [i \in 1 .. n |-> s[a + i]]
<1> DEFINE piece == SubSeq(s, first, last)
<1>1. Len(s) \in Nat /\ DOMAIN s = 1 .. Len(s) /\ \A i \in 1 .. Len(s) : s[i] \in S
  OBVIOUS
<1>2. first \in Int /\ last \in Int /\ first <= last + 1
  OBVIOUS
<1>3. \A i \in first .. last : s[i] \in S
  BY <1>1, <1>2
<1>4. piece \in Seq(S)
      /\ Len(piece) = (IF first <= last THEN last - first + 1 ELSE 0)
      /\ \A i \in 1 .. last - first + 1 : piece[i] = s[first + i - 1]
  BY <1>2, <1>3, SubSeqProperties
<1> HIDE DEF piece
<1>5. (IF first <= last THEN last - first + 1 ELSE 0) = n /\ last - first + 1 = n
  OBVIOUS
<1>6. Len(piece) = n /\ \A i \in 1 .. n : piece[i] = s[first + i - 1]
  BY <1>4, <1>5
<1>7. \A i \in 1 .. n : first + i - 1 = a + i
  OBVIOUS
<1>8. \A i \in 1 .. n : piece[i] = s[a + i]
  BY <1>6, <1>7
<1>9. piece = [i \in 1 .. n |-> piece[i]]
  BY <1>4, <1>6
<1>10. piece = [i \in 1 .. n |-> s[a + i]]
  BY <1>8, <1>9
<1>11. QED
  BY <1>4, <1>6, <1>8, <1>10 DEF piece

(* Two parts, one behind the other, are one.                               *)
LEMMA PiecesJoin ==
  ASSUME NEW S, NEW s \in Seq(S), NEW a \in Nat, NEW n \in Nat, a + n <= Len(s),
         NEW next, NEW last, next = a + 1, last = a + n
  PROVE  SubSeq(s, 1, a) \o SubSeq(s, next, last) = SubSeq(s, 1, last)
<1> DEFINE x == SubSeq(s, 1, a)
           y == SubSeq(s, next, last)
           z == SubSeq(s, 1, last)
           all == x \o y
<1>0. 1 = 0 + 1 /\ a = 0 + a /\ last = 0 + last /\ last \in Nat /\ 0 + a <= Len(s) /\ 0 + last <= Len(s)
      /\ 0 \in Nat
  OBVIOUS
<1>1. x \in Seq(S) /\ Len(x) = a /\ \A i \in 1 .. a : x[i] = s[0 + i]
  BY <1>0, PieceIs
<1>2. y \in Seq(S) /\ Len(y) = n /\ \A i \in 1 .. n : y[i] = s[a + i]
  BY PieceIs
<1>3. z \in Seq(S) /\ Len(z) = last /\ \A i \in 1 .. last : z[i] = s[0 + i]
  BY <1>0, PieceIs
<1> HIDE DEF x, y, z
<1>4. /\ all \in Seq(S) /\ Len(all) = Len(x) + Len(y)
      /\ \A i \in 1 .. Len(x) + Len(y) : all[i] = IF i <= Len(x) THEN x[i] ELSE y[i - Len(x)]
  <2>1. x \in Seq(S) /\ y \in Seq(S)
    BY <1>1, <1>2
  <2>2. QED
    BY <2>1, ConcatProperties
<1> HIDE DEF all
<1>5. ASSUME NEW i \in 1 .. last PROVE all[i] = z[i]
  <2>1. i \in 1 .. Len(x) + Len(y) /\ 0 + i = i
    BY <1>1, <1>2
  <2>2. CASE i <= a
    <3>1. i \in 1 .. a
      BY <2>2
    <3>2. QED
      BY <1>1, <1>3, <1>4, <2>1, <2>2, <3>1
  <2>3. CASE ~(i <= a)
    <3> DEFINE j == i - a
    <3>1. j \in 1 .. n /\ a + j = i
      BY <2>3
    <3>2. all[i] = y[j]
      BY <1>1, <1>4, <2>1, <2>3
    <3> HIDE DEF j
    <3>3. y[j] = s[i]
      BY <1>2, <3>1
    <3>4. QED
      BY <1>3, <2>1, <3>2, <3>3
  <2>4. QED
    BY <2>2, <2>3
<1>6. Len(all) = last
  BY <1>1, <1>2, <1>4
<1>7. all = z
  BY <1>3, <1>4, <1>5, <1>6, SameSeqs
<1>8. QED
  BY <1>7 DEF all, x, y, z

(* The send of the first header bytes of c, pos of them sent.              *)
OpOf(c, header, pos) ==
  [iov |-> RunsOf(c.id, c.capacity, c.head + pos, header - pos),
   pos |-> pos, file |-> FALSE, len |-> 0, header |-> header]

OpAt(c, header, pos, left, from) ==
  /\ header \in Nat /\ header <= R!ChunkLen(c) /\ pos \in Nat /\ pos <= header
  /\ left = header - pos /\ from = c.head + pos

(* How a send of a chunk looks to the socket, and after n more bytes.      *)
LEMMA OpIs ==
  ASSUME NEW c \in Chunk, NEW header, NEW pos, NEW left, NEW from, OpAt(c, header, pos, left, from)
  PROVE  /\ T!IovBytes(OpOf(c, header, pos).iov) = left
         /\ T!Offered(OpOf(c, header, pos), 0) = CellsFrom(c.id, c.capacity, from, left)
         /\ T!Finished(OpOf(c, header, pos)) <=> pos = header
         /\ \A n \in 0 .. left : T!Performed(OpOf(c, header, pos), n) = OpOf(c, header, pos + n)
<1> DEFINE o == OpOf(c, header, pos)
           size == c.capacity
           runs == RunsOf(c.id, size, from, left)
           cells == CellsFrom(c.id, size, from, left)
<1>0. /\ header \in Nat /\ header <= R!ChunkLen(c) /\ pos \in Nat /\ pos <= header
      /\ left = header - pos /\ from = c.head + pos
  BY DEF OpAt
<1>1. size \in Nat \ {0} /\ c.head \in Nat /\ R!ChunkLen(c) \in 0 .. size
  BY ChunkIs
<1>2. from \in Nat /\ left \in 0 .. size
  BY <1>0, <1>1
<1>3. o = [iov |-> runs, pos |-> pos, file |-> FALSE, len |-> 0, header |-> header]
  BY <1>0 DEF OpOf
<1>4. o.iov = runs /\ o.pos = pos /\ o.file = FALSE
  BY <1>3
<1> HIDE DEF o
<1>5. T!IovBytes(o.iov) = left
  <2>1. T!IovBytes(runs) = left
    BY <1>1, <1>2, BytesOfRuns
  <2>2. QED
    BY <1>4, <2>1
<1>6. T!Offered(o, 0) = cells
  <2>1. T!Cells(runs) = cells
    BY <1>1, <1>2, CellsOfRuns
  <2>2. T!Offered(o, 0) = T!Cells(o.iov) \o [i \in 1 .. 0 |-> <<"file", T!FilePos(o) + i - 1>>]
    BY <1>4 DEF T!Offered
  <2>3. [i \in 1 .. 0 |-> <<"file", T!FilePos(o) + i - 1>>] = Nothing
    BY DEF Nothing
  <2>4. \E S : cells \in Seq(S)
    <3> DEFINE S == {cells[i] : i \in 1 .. left}
    <3>1. cells \in [1 .. left -> S]
      BY DEF CellsFrom
    <3> HIDE DEF S, cells
    <3>2. cells \in Seq(S)
      BY <1>2, <3>1
    <3>3. QED
      BY <3>2
  <2> HIDE DEF cells, runs
  <2>5. QED
    BY <1>4, <2>1, <2>2, <2>3, <2>4, ConcatEmpty
<1>7. T!Finished(o) <=> pos = header
  <2>1. T!Finished(o) <=> runs = <<>>
    BY <1>4 DEF T!Finished
  <2>2. runs = <<>> => left = 0
    BY <1>1, <1>2, RunsEmpty
  <2>3. left = 0 => runs = <<>>
    BY <1>1, <1>2, RunsAre
  <2> HIDE DEF runs
  <2>4. left = 0 <=> pos = header
    BY <1>0
  <2>5. QED
    BY <2>1, <2>2, <2>3, <2>4
<1>8. ASSUME NEW n \in 0 .. left PROVE T!Performed(o, n) = OpOf(c, header, pos + n)
  <2> DEFINE next == pos + n
             rest == RunsOf(c.id, size, from + n, left - n)
             q == [o EXCEPT !.pos = next]
  <2>1. T!IovConsume(runs, n) = rest
    BY <1>1, <1>2, RunsConsumed
  <2>2. rest = RunsOf(c.id, c.capacity, c.head + next, header - next)
    <3>1. from + n = c.head + next /\ left - n = header - next
      BY <1>0, <1>1, <1>2
    <3>2. QED
      BY <3>1
  <2>3. T!Performed(o, n) = [q EXCEPT !.iov = rest]
    BY <1>3, <1>4, <2>1 DEF T!Performed
  <2> HIDE DEF next, rest, runs
  <2>4. o \in [iov : {runs}, pos : {pos}, file : BOOLEAN, len : {0}, header : {header}] /\ ~o.file
    BY <1>3
  <2>5. q \in [iov : {runs}, pos : {next}, file : BOOLEAN, len : {0}, header : {header}] /\ ~q.file
    BY <2>4
  <2> HIDE DEF q
  <2>6. [q EXCEPT !.iov = rest] = [iov |-> rest, pos |-> next, file |-> FALSE, len |-> 0, header |-> header]
    <3> DEFINE p == [q EXCEPT !.iov = rest]
    <3>1. p \in [iov : {rest}, pos : {next}, file : BOOLEAN, len : {0}, header : {header}] /\ ~p.file
      BY <2>5
    <3> HIDE DEF p
    <3>2. p.file = FALSE
      BY <3>1
    <3>3. p = [iov |-> rest, pos |-> next, file |-> p.file, len |-> 0, header |-> header]
      BY <3>1
    <3>4. QED
      BY <3>2, <3>3 DEF p
  <2>7. T!Performed(o, n) = OpOf(c, header, next)
    BY <2>2, <2>3, <2>6 DEF OpOf
  <2>8. QED
    BY <2>7 DEF next
<1>9. QED
  BY <1>5, <1>6, <1>7, <1>8 DEF o


(* n of the first header bytes are sent, behind pos of them.               *)
SendsNext(c, header, pos, n, next, last) ==
  /\ header \in Nat /\ header <= R!ChunkLen(c) /\ pos \in Nat /\ pos <= header
  /\ n \in Nat /\ n <= header - pos /\ next = pos + 1 /\ last = pos + n

Took(c, header, next, last) ==
  /\ wire' = wire \o SubSeq(Held(c), next, last)
  /\ sendOp' = OpOf(c, header, last)
  /\ opDone' <=> last = header

(* The bytes an attempt takes are the next of those the chunk holds.       *)
LEMMA AttemptIs ==
  ASSUME ring'.chunks \in Seq(Chunk), ring'.chunks # <<>>, NEW c, c = ring'.chunks[1],
         NEW header, NEW pos, NEW n, NEW next, NEW last, SendsNext(c, header, pos, n, next, last),
         NEW o, o = OpOf(c, header, pos), Attempt(o, n)
  PROVE  Took(c, header, next, last)
<1> DEFINE left == header - pos
           from == c.head + pos
           size == c.capacity
           shown == T!Offered(o, 0)
           cells == SubSeq(shown, 1, n)
           bytes == [i \in DOMAIN cells |-> R!CellAt(ring', cells[i][1], cells[i][2])]
<1>0. /\ header \in Nat /\ header <= R!ChunkLen(c) /\ pos \in Nat /\ pos <= header
      /\ n \in Nat /\ n <= header - pos /\ next = pos + 1 /\ last = pos + n
  BY DEF SendsNext
<1>1. c \in Chunk
  BY TailIs
<1>2. /\ size \in Nat \ {0} /\ c.head \in Nat /\ R!ChunkLen(c) \in 0 .. size
      /\ Held(c) \in Seq(OutByte) /\ Len(Held(c)) = R!ChunkLen(c)
  BY <1>1, ChunkIs
<1>3. left \in Nat /\ from \in Nat /\ n \in 0 .. left /\ left = header - pos /\ from = c.head + pos
      /\ last \in Nat /\ last <= header
  <2>1. header \in Nat /\ pos \in Nat /\ pos <= header /\ n \in Nat /\ n <= header - pos /\ last = pos + n
    BY <1>0
  <2>2. c.head \in Nat
    BY <1>2
  <2>3. QED
    BY <2>1, <2>2
<1>4. /\ wire' = wire \o bytes /\ sendOp' = T!Performed(o, n) /\ opDone' = T!Finished(sendOp')
  BY DEF Attempt
<1> HIDE DEF left, from
<1>5. /\ shown = CellsFrom(c.id, size, from, left)
      /\ \A k \in 0 .. left : T!Performed(o, k) = OpOf(c, header, pos + k)
  <2>1. OpAt(c, header, pos, left, from)
    BY <1>0, <1>3 DEF OpAt
  <2>2. QED
    BY <1>1, <2>1, OpIs
<1>6. sendOp' = OpOf(c, header, last)
  BY <1>0, <1>3, <1>4, <1>5
<1>7. opDone' <=> last = header
  <2> DEFINE rest == header - last
             at == c.head + last
  <2>1. rest = header - last /\ at = c.head + last
    OBVIOUS
  <2> HIDE DEF rest, at
  <2>2. T!Finished(OpOf(c, header, last)) <=> last = header
    <3>1. OpAt(c, header, last, rest, at)
      BY <1>0, <1>3, <2>1 DEF OpAt
    <3>2. QED
      BY <1>1, <3>1, OpIs
  <2>3. opDone' = T!Finished(OpOf(c, header, last))
    BY <1>4, <1>6
  <2>4. QED
    BY <2>2, <2>3
<1>8. bytes = SubSeq(Held(c), next, last)
  <2> DEFINE at(i) == (from + i - 1) % size
  <2>1. \E S : shown \in Seq(S) /\ Len(shown) = left /\ \A i \in 1 .. left : shown[i] = <<c.id, at(i)>>
    <3> DEFINE S == {shown[i] : i \in 1 .. left}
    <3>1. shown \in [1 .. left -> S] /\ \A i \in 1 .. left : shown[i] = <<c.id, at(i)>>
      BY <1>5 DEF CellsFrom
    <3> HIDE DEF S, shown, at
    <3>2. shown \in Seq(S) /\ Len(shown) = left
      <4>1. left \in Nat /\ shown \in [1 .. left -> S]
        BY <1>3, <3>1
      <4>2. QED
        BY <4>1
    <3>3. QED
      BY <3>1, <3>2
  <2>2. ASSUME NEW i \in Nat PROVE at(i) \in 0 .. size - 1
    <3> DEFINE a == from + i - 1
    <3>1. a \in Int
      BY <1>3
    <3> HIDE DEF a
    <3>2. a % size \in 0 .. size - 1
      BY <1>2, <3>1, Remainders
    <3>3. QED
      BY <3>2 DEF a
  <2>3. PICK S : shown \in Seq(S) /\ Len(shown) = left /\ \A i \in 1 .. left : shown[i] = <<c.id, at(i)>>
    BY <2>1
  <2> HIDE DEF shown
  <2>4. Len(cells) = n /\ cells \in Seq(S) /\ \A i \in 1 .. n : cells[i] = shown[0 + i]
    <3>1. 1 = 0 + 1 /\ n = 0 + n /\ 0 + n <= Len(shown) /\ 0 \in Nat /\ shown \in Seq(S) /\ n \in Nat
      BY <1>3, <2>3
    <3>2. QED
      BY <3>1, PieceIs
  <2> HIDE DEF cells
  <2>5. DOMAIN cells = 1 .. n /\ \A i \in 1 .. n : cells[i] = <<c.id, at(i)>>
    <3>1. \A i \in 1 .. n : 0 + i = i /\ i \in 1 .. left
      BY <1>3
    <3>2. QED
      BY <2>3, <2>4, <3>1
  <2>6. \A i \in 1 .. n : cells[i][1] = c.id /\ cells[i][2] = at(i)
    BY <2>5
  <2>7. ASSUME NEW i \in 1 .. n PROVE R!CellAt(ring', cells[i][1], cells[i][2]) = Held(c)[pos + i]
    <3>1. at(i) \in 0 .. c.capacity - 1
      BY <2>2
    <3> DEFINE a == at(i)
               k == pos + i
    <3>2. cells[i][1] = c.id /\ cells[i][2] = a /\ a \in 0 .. c.capacity - 1
      BY <2>6, <3>1
    <3>3. k \in 1 .. R!ChunkLen(c) /\ from + i - 1 = c.head + k - 1
      <4> DEFINE held == R!ChunkLen(c)
                 head == c.head
      <4>1. /\ held \in Nat /\ head \in Nat /\ from = head + pos /\ pos + n <= header /\ header <= held
            /\ pos \in Nat /\ n \in Nat /\ header \in Nat
        BY <1>0, <1>2, <1>3
      <4> HIDE DEF held, head
      <4>2. k \in 1 .. held /\ from + i - 1 = head + k - 1
        BY <4>1
      <4>3. QED
        BY <4>2 DEF held, head
    <3>4. Held(c)[k] = c.data[(c.head + k - 1) % c.capacity]
      BY <3>3 DEF Held
    <3>5. Held(c)[k] = c.data[a]
      BY <3>3, <3>4
    <3> HIDE DEF a, k
    <3>6. R!CellAt(ring', c.id, a) = c.data[a]
      BY <3>2, HeadCell
    <3>7. QED
      BY <3>2, <3>5, <3>6 DEF k
  <2>8. bytes = [i \in 1 .. n |-> Held(c)[pos + i]]
    BY <2>5, <2>7
  <2>9. SubSeq(Held(c), next, last) = [i \in 1 .. n |-> Held(c)[pos + i]]
    <3> DEFINE held == Held(c)
    <3>1. held \in Seq(OutByte) /\ pos + n <= Len(held) /\ pos \in Nat /\ n \in Nat /\ next = pos + 1 /\ last = pos + n
      BY <1>0, <1>2, <1>3
    <3> HIDE DEF held
    <3>2. SubSeq(held, next, last) = [i \in 1 .. n |-> held[pos + i]]
      BY <3>1, PieceIs
    <3>3. QED
      BY <3>2 DEF held
  <2>10. QED
    BY <2>8, <2>9
<1>9. QED
  BY <1>4, <1>6, <1>7, <1>8 DEF Took

-----------------------------------------------------------------------------
(* The send path: of the bytes of the frames accepted, those before from   *)
(* have left the ring, and the socket has taken some more of the first     *)
(* chunk while a send of it is in flight.                                  *)
AcceptedBytes == FlattenSeq([k \in DOMAIN accepted |-> Encoded(accepted[k])])

InFlight(c, from, bytes, o, done) ==
  \E header, pos \in Nat :
    /\ 0 < header /\ header <= R!ChunkLen(c) /\ pos <= header
    /\ o = OpOf(c, header, pos)
    /\ bytes = from \o SubSeq(Held(c), 1, pos)
    /\ done <=> pos = header

Out(r, from, bytes, busy, o, done) ==
  IF busy THEN r.chunks # <<>> /\ InFlight(r.chunks[1], from, bytes, o, done)
  ELSE /\ ~done /\ bytes = from
       /\ r.chunks # <<>> => R!ChunkLen(r.chunks[1]) = 0

Leaving(r, all, bytes, busy, o, done) ==
  \E from : Queue(r.chunks, from, all) /\ r.len = Len(all) - Len(from) /\ Out(r, from, bytes, busy, o, done)

SendPath ==
  /\ accepted \in Seq(OutFrame)
  /\ sending \in BOOLEAN
  /\ Ringed(ring) /\ ring.len <= RingMax
  /\ Leaving(ring, AcceptedBytes, wire, sending, sendOp, opDone)


(* The bytes accepted, and what one frame more adds to them.               *)
LEMMA AcceptedParts ==
  ASSUME NEW fs \in Seq(OutFrame)
  PROVE  [k \in DOMAIN fs |-> Encoded(fs[k])] \in Seq(Seq(OutByte))
         /\ FlattenSeq([k \in DOMAIN fs |-> Encoded(fs[k])]) \in Seq(OutByte)
<1> DEFINE parts == [k \in DOMAIN fs |-> Encoded(fs[k])]
<1>1. DOMAIN fs = 1 .. Len(fs) /\ Len(fs) \in Nat /\ \A k \in DOMAIN fs : fs[k] \in OutFrame
  OBVIOUS
<1>2. \A k \in DOMAIN fs : Encoded(fs[k]) \in Seq(OutByte)
  BY <1>1, EncodedType
<1>3. parts \in Seq(Seq(OutByte))
  BY <1>1, <1>2
<1> HIDE DEF parts
<1>4. FlattenSeq(parts) \in Seq(OutByte)
  BY <1>3, FlattenSteps
<1>5. QED
  BY <1>3, <1>4 DEF parts

LEMMA AcceptedGrows ==
  ASSUME accepted \in Seq(OutFrame), NEW f \in OutFrame, accepted' = Append(accepted, f)
  PROVE  AcceptedBytes' = AcceptedBytes \o Encoded(f)
<1> DEFINE Bytes(fs) == [k \in DOMAIN fs |-> Encoded(fs[k])]
           more == Append(accepted, f)
           n == Len(accepted)
<1>1. Bytes(accepted) \in Seq(Seq(OutByte)) /\ Encoded(f) \in Seq(OutByte)
  BY AcceptedParts, EncodedType
<1>2. /\ more \in Seq(OutFrame) /\ Len(more) = n + 1 /\ more[n + 1] = f
      /\ \A k \in 1 .. n : more[k] = accepted[k]
  BY AppendParts
<1>3. n \in Nat /\ DOMAIN accepted = 1 .. n /\ DOMAIN more = 1 .. n + 1
  BY <1>2
<1> HIDE DEF more
<1>4. Bytes(more) = Append(Bytes(accepted), Encoded(f))
  <2> DEFINE x == Bytes(more)
             y == Bytes(accepted)
             z == Append(y, Encoded(f))
             S == Seq(OutByte)
  <2>1. x \in Seq(S) /\ Len(x) = n + 1 /\ \A k \in 1 .. n + 1 : x[k] = Encoded(more[k])
    <3>1. x \in Seq(S)
      BY <1>2, AcceptedParts
    <3>2. DOMAIN x = 1 .. n + 1
      BY <1>3
    <3>3. \A k \in 1 .. n + 1 : x[k] = Encoded(more[k])
      BY <1>3
    <3> HIDE DEF x, S
    <3>4. Len(x) = n + 1
      BY <1>3, <3>1, <3>2
    <3>5. QED
      BY <3>1, <3>3, <3>4
  <2>2. y \in Seq(S) /\ Len(y) = n /\ \A k \in 1 .. n : y[k] = Encoded(accepted[k])
    <3>1. DOMAIN y = 1 .. n /\ y \in Seq(S)
      BY <1>1, <1>3
    <3>2. \A k \in 1 .. n : y[k] = Encoded(accepted[k])
      BY <1>3
    <3> HIDE DEF y, S
    <3>3. Len(y) = n
      BY <1>3, <3>1
    <3>4. QED
      BY <3>1, <3>2, <3>3
  <2> HIDE DEF x, y
  <2>3. /\ z \in Seq(S) /\ Len(z) = Len(y) + 1 /\ z[Len(y) + 1] = Encoded(f)
        /\ \A k \in 1 .. Len(y) : z[k] = y[k]
    BY <1>1, <2>2, AppendParts
  <2> HIDE DEF z, S
  <2>4. ASSUME NEW k \in 1 .. n + 1 PROVE x[k] = z[k]
    <3>1. CASE k = n + 1
      BY <1>2, <2>1, <2>2, <2>3, <3>1
    <3>2. CASE k # n + 1
      <4>1. k \in 1 .. n
        BY <1>3, <3>2
      <4>2. QED
        BY <1>2, <2>1, <2>2, <2>3, <4>1
    <3>3. QED
      BY <3>1, <3>2
  <2>5. x = z
    BY <2>1, <2>2, <2>3, <2>4, SameSeqs
  <2>6. QED
    BY <2>5 DEF x, y, z
<1>5. AcceptedBytes = FlattenSeq(Bytes(accepted)) /\ AcceptedBytes' = FlattenSeq(Bytes(more))
  BY DEF AcceptedBytes, more
<1> HIDE DEF Bytes
<1>6. FlattenSeq(Append(Bytes(accepted), Encoded(f))) = FlattenSeq(Bytes(accepted)) \o Encoded(f)
  BY <1>1, FlattenAppend
<1>7. QED
  BY <1>4, <1>5, <1>6

LEMMA SendPathInit == WsInit => SendPath
<1> SUFFICES ASSUME WsInit PROVE SendPath
  OBVIOUS
<1>1. /\ accepted = <<>> /\ sending = FALSE /\ ring = R!EmptyRing /\ wire = <<>> /\ opDone = FALSE
  BY DEF WsInit
<1>2. ring.chunks = <<>> /\ ring.len = 0
  BY <1>1 DEF R!EmptyRing
<1>3. AcceptedBytes = <<>>
  <2>1. [k \in DOMAIN <<>> |-> Encoded(<<>>[k])] = <<>>
    OBVIOUS
  <2>2. QED
    BY <1>1, <2>1, FlattenEmpty DEF AcceptedBytes
<1>4. Ringed(ring)
  BY <1>2 DEF Ringed
<1>5. Leaving(ring, AcceptedBytes, wire, sending, sendOp, opDone)
  <2>1. <<>> \in Seq(OutByte) /\ Len(<<>>) = 0
    OBVIOUS
  <2>2. Queue(ring.chunks, <<>>, AcceptedBytes)
    BY <1>2, <1>3, <2>1, QueueEmpty
  <2>3. Out(ring, <<>>, wire, sending, sendOp, opDone)
    BY <1>1, <1>2 DEF Out
  <2>4. ring.len = Len(AcceptedBytes) - Len(<<>>)
    BY <1>2, <1>3, <2>1
  <2> DEFINE none == <<>>
  <2>5. Queue(ring.chunks, none, AcceptedBytes) /\ Out(ring, none, wire, sending, sendOp, opDone)
        /\ ring.len = Len(AcceptedBytes) - Len(none)
    BY <2>2, <2>3, <2>4
  <2> HIDE DEF none
  <2>6. QED
    BY <2>5 DEF Leaving
<1>6. ring.len <= RingMax
  BY <1>2, WsDataAssumption
<1>7. accepted \in Seq(OutFrame) /\ sending \in BOOLEAN
  <2>1. accepted \in Seq(OutFrame)
    BY <1>1
  <2>2. sending \in BOOLEAN
    BY DEF WsInit
  <2>3. QED
    BY <2>1, <2>2
<1>8. QED
  BY <1>4, <1>5, <1>6, <1>7 DEF SendPath

LEMMA FirstBytes ==
  ASSUME NEW S, NEW s \in Seq(S), NEW t \in Seq(S), NEW n \in Nat, n <= Len(s)
  PROVE  SubSeq(s \o t, 1, n) = SubSeq(s, 1, n)
<1> DEFINE all == s \o t
<1>1. /\ all \in Seq(S) /\ Len(all) = Len(s) + Len(t)
      /\ \A i \in 1 .. Len(s) + Len(t) : all[i] = IF i <= Len(s) THEN s[i] ELSE t[i - Len(s)]
  BY ConcatProperties
<1>2. Len(s) \in Nat /\ Len(t) \in Nat
  OBVIOUS
<1> HIDE DEF all
<1>3. 1 = 0 + 1 /\ n = 0 + n /\ 0 + n <= Len(s) /\ 0 + n <= Len(all) /\ 0 \in Nat
  BY <1>1, <1>2
<1>4. SubSeq(all, 1, n) = [i \in 1 .. n |-> all[0 + i]]
  BY <1>1, <1>3, PieceIs
<1>5. SubSeq(s, 1, n) = [i \in 1 .. n |-> s[0 + i]]
  BY <1>3, PieceIs
<1>6. \A i \in 1 .. n : all[0 + i] = s[0 + i]
  BY <1>1, <1>2
<1>7. QED
  BY <1>4, <1>5, <1>6 DEF all


Within(s, pos, n, next, last) ==
  pos \in Nat /\ n \in Nat /\ pos + n <= Len(s) /\ next = pos + 1 /\ last = pos + n

Meet(from, s, pos, next, last) ==
  (from \o SubSeq(s, 1, pos)) \o SubSeq(s, next, last) = from \o SubSeq(s, 1, last)

LEMMA PiecesMeet ==
  ASSUME NEW S, NEW from \in Seq(S), NEW held \in Seq(S),
         NEW pos, NEW n, NEW next, NEW last, Within(held, pos, n, next, last)
  PROVE  Meet(from, held, pos, next, last)
<1> DEFINE x == SubSeq(held, 1, pos)
           y == SubSeq(held, next, last)
           z == SubSeq(held, 1, last)
<1>0. pos \in Nat /\ n \in Nat /\ pos + n <= Len(held) /\ next = pos + 1 /\ last = pos + n
  BY DEF Within
<1>1. x \o y = z
  BY <1>0, PiecesJoin
<1>2. x \in Seq(S) /\ y \in Seq(S)
  <2>1. 1 = 0 + 1 /\ pos = 0 + pos /\ 0 + pos <= Len(held) /\ 0 \in Nat /\ pos \in Nat
    BY <1>0
  <2>2. x \in Seq(S)
    BY <2>1, PieceIs
  <2>3. y \in Seq(S)
    BY <1>0, PieceIs
  <2>4. QED
    BY <2>2, <2>3
<1> HIDE DEF x, y, z
<1>3. (from \o x) \o y = from \o (x \o y)
  BY <1>2, ConcatAssociates
<1>4. QED
  BY <1>1, <1>3 DEF Meet, x, y, z

(* An attempt of the send in flight leaves it in flight.                   *)
LEMMA AttemptKeeps ==
  ASSUME ring'.chunks \in Seq(Chunk), ring'.chunks # <<>>, NEW c, c = ring'.chunks[1],
         NEW header \in Nat, 0 < header, header <= R!ChunkLen(c), NEW pos \in Nat, pos <= header,
         NEW n \in Nat, NEW o, o = OpOf(c, header, pos), n <= header - pos, Attempt(o, n),
         NEW from \in Seq(OutByte), wire = from \o SubSeq(Held(c), 1, pos)
  PROVE  InFlight(c, from, wire', sendOp', opDone')
<1> DEFINE next == pos + 1
           last == pos + n
           held == Held(c)
<1>1. next = pos + 1 /\ last = pos + n /\ last \in Nat /\ last <= header
  <2>1. n <= header - pos /\ pos \in Nat /\ n \in Nat /\ header \in Nat
    OBVIOUS
  <2>2. pos + n <= header
    BY <2>1
  <2>3. QED
    BY <2>1, <2>2
<1> HIDE DEF next, last
<1>0. ring'.chunks \in Seq(Chunk) /\ ring'.chunks # <<>> /\ c = ring'.chunks[1]
      /\ header <= R!ChunkLen(c) /\ pos <= header /\ o = OpOf(c, header, pos) /\ n <= header - pos
      /\ Attempt(o, n)
  OBVIOUS
<1>2. wire' = wire \o SubSeq(held, next, last) /\ sendOp' = OpOf(c, header, last) /\ (opDone' <=> last = header)
  <2>1. SendsNext(c, header, pos, n, next, last)
    BY <1>0, <1>1 DEF SendsNext
  <2>2. Took(c, header, next, last)
    BY <1>0, <2>1, AttemptIs
  <2>3. QED
    BY <2>2 DEF Took
<1>3. c \in Chunk
  BY TailIs
<1>4. held \in Seq(OutByte) /\ Len(held) = R!ChunkLen(c) /\ R!ChunkLen(c) \in Nat
  BY <1>3, ChunkIs
<1>5. pos + n <= Len(held)
  <2>1. last <= R!ChunkLen(c)
    BY <1>0, <1>1, <1>4
  <2>2. QED
    BY <1>1, <1>4, <2>1
<1> HIDE DEF held
<1>6. (from \o SubSeq(held, 1, pos)) \o SubSeq(held, next, last) = from \o SubSeq(held, 1, last)
  <2>1. Within(held, pos, n, next, last)
    BY <1>1, <1>5 DEF Within
  <2>2. from \in Seq(OutByte) /\ held \in Seq(OutByte)
    BY <1>4
  <2>3. Meet(from, held, pos, next, last)
    BY <2>1, <2>2, PiecesMeet
  <2>4. QED
    BY <2>3 DEF Meet
<1>7. wire' = from \o SubSeq(held, 1, last)
  BY <1>2, <1>6 DEF held
<1>8. QED
  BY <1>1, <1>2, <1>7 DEF InFlight, held

(* th_ws_send_drain sends the first chunk if it holds anything.            *)
LEMMA DrainHolds ==
  ASSUME Ringed(ring'), NEW from \in Seq(OutByte), wire = from, Drain
  PROVE  sending' \in BOOLEAN /\ Out(ring', from, wire', sending', sendOp', opDone')
<1> DEFINE chunks == ring'.chunks
           c == chunks[1]
           m == R!ChunkLen(c)
<1>1. chunks \in Seq(Chunk)
  BY DEF Ringed
<1>2. ASSUME chunks # <<>>
      PROVE  /\ c \in Chunk /\ m \in Nat /\ c.head \in Nat
             /\ R!Peek(ring') = RunsOf(c.id, c.capacity, c.head, m)
  <2>1. c \in Chunk
    BY <1>1, <1>2, TailIs
  <2>2. QED
    BY <1>1, <1>2, <2>1, ChunkIs, PeekIs
<1>3. CASE R!Peek(ring') = <<>>
  <2>1. sending' = FALSE /\ opDone' = FALSE /\ wire' = wire
    BY <1>3 DEF Drain
  <2>2. chunks # <<>> => m = 0
    BY <1>2, <1>3, RunsEmpty
  <2>3. QED
    BY <2>1, <2>2 DEF Out
<1>4. CASE R!Peek(ring') # <<>>
  <2>1. chunks # <<>>
    BY <1>4 DEF R!Peek
  <2>2. c \in Chunk /\ m \in Nat /\ c.head \in Nat /\ R!Peek(ring') = RunsOf(c.id, c.capacity, c.head, m)
    BY <1>2, <2>1
  <2>3. m # 0
    BY <1>4, <2>2, RunsAre
  <2> DEFINE o == T!SendVec(R!Peek(ring'))
             bytes == T!IovBytes(R!Peek(ring'))
  <2>4. sending' = TRUE /\ \E n \in 0 .. bytes : Attempt(o, n)
    BY <1>4 DEF Drain
  <2>5. o = OpOf(c, m, 0) /\ bytes = m
    <3> DEFINE head == c.head
               runs == RunsOf(c.id, c.capacity, head, m)
    <3>1. head + 0 = head /\ m - 0 = m /\ m = m - 0 /\ head = head + 0
      BY <2>2
    <3>2. RunsOf(c.id, c.capacity, head + 0, m - 0) = runs
      BY <3>1
    <3>3. c.capacity \in Nat \ {0} /\ m \in 0 .. c.capacity
      BY <2>2, ChunkIs
    <3>4. bytes = m
      BY <2>2, <3>3, BytesOfRuns
    <3>5. o = [iov |-> runs, pos |-> 0, file |-> FALSE, len |-> 0, header |-> bytes]
      BY <2>2 DEF T!SendVec
    <3> HIDE DEF o, bytes, runs
    <3>6. OpOf(c, m, 0) = [iov |-> runs, pos |-> 0, file |-> FALSE, len |-> 0, header |-> m]
      BY <3>2 DEF OpOf
    <3>7. QED
      BY <3>4, <3>5, <3>6
  <2>6. wire = from \o SubSeq(Held(c), 1, 0)
    <3>1. SubSeq(Held(c), 1, 0) = Nothing
      BY SubSeqEmpty DEF Nothing
    <3>2. QED
      BY <3>1, ConcatEmpty
  <2> HIDE DEF o, bytes, m
  <2>7. PICK n \in 0 .. bytes : Attempt(o, n)
    BY <2>4
  <2> DEFINE pos == 0
  <2>8. /\ 0 < m /\ m <= R!ChunkLen(c) /\ pos \in Nat /\ pos <= m /\ n \in Nat /\ n <= m - pos /\ m \in Nat
        /\ o = OpOf(c, m, pos) /\ wire = from \o SubSeq(Held(c), 1, pos)
    BY <2>2, <2>3, <2>5, <2>6 DEF m
  <2> HIDE DEF pos
  <2>9. InFlight(c, from, wire', sendOp', opDone')
    BY <1>1, <2>1, <2>7, <2>8, AttemptKeeps
  <2>10. QED
    BY <2>1, <2>4, <2>9 DEF Out
<1>5. QED
  BY <1>3, <1>4


(* What has to be shown of a step to keep the send path.                   *)
LEMMA SendPathNext ==
  ASSUME accepted' \in Seq(OutFrame), sending' \in BOOLEAN, Ringed(ring'), ring'.len <= RingMax,
         NEW from, Queue(ring'.chunks, from, AcceptedBytes'), ring'.len = Len(AcceptedBytes') - Len(from),
         Out(ring', from, wire', sending', sendOp', opDone')
  PROVE  SendPath'
BY DEF SendPath, Leaving

(* The socket takes more of the send in flight.                            *)
LEMMA SendReadyKeeps ==
  ASSUME SendPath, NEW n \in 1 .. T!IovBytes(sendOp.iov), SendReady(n)
  PROVE  SendPath'
<1> DEFINE c == ring.chunks[1]
           all == AcceptedBytes
<1>1. /\ sending /\ ~opDone /\ ring' = ring /\ sending' = sending /\ accepted' = accepted
      /\ Attempt(sendOp, n)
  BY DEF SendReady
<1>2. accepted \in Seq(OutFrame) /\ sending \in BOOLEAN /\ Ringed(ring) /\ ring.len <= RingMax
      /\ Leaving(ring, all, wire, sending, sendOp, opDone)
  BY DEF SendPath
<1>3. PICK from : Queue(ring.chunks, from, all) /\ ring.len = Len(all) - Len(from)
                  /\ Out(ring, from, wire, sending, sendOp, opDone)
  BY <1>2 DEF Leaving
<1>4. ring.chunks # <<>> /\ InFlight(c, from, wire, sendOp, opDone)
  BY <1>1, <1>3 DEF Out
<1>5. PICK header, pos \in Nat :
        /\ 0 < header /\ header <= R!ChunkLen(c) /\ pos <= header
        /\ sendOp = OpOf(c, header, pos)
        /\ wire = from \o SubSeq(Held(c), 1, pos)
        /\ opDone <=> pos = header
  BY <1>4 DEF InFlight
<1>6. ring.chunks \in Seq(Chunk)
  BY <1>2 DEF Ringed
<1>7. c \in Chunk
  BY <1>4, <1>6, TailIs
<1>8. from \in Seq(OutByte)
  BY <1>3, <1>6, QueueTypes
<1> DEFINE left == header - pos
           at == c.head + pos
           o == sendOp
<1>9. T!IovBytes(o.iov) = left
  <2>1. left = header - pos /\ at = c.head + pos
    OBVIOUS
  <2> HIDE DEF left, at
  <2>2. OpAt(c, header, pos, left, at)
    BY <1>5, <2>1 DEF OpAt
  <2>3. T!IovBytes(OpOf(c, header, pos).iov) = left
    BY <1>7, <2>2, OpIs
  <2>4. QED
    BY <1>5, <2>3
<1>10. n \in Nat /\ n <= header - pos
  BY <1>5, <1>9
<1> HIDE DEF left, at
<1>11. InFlight(c, from, wire', sendOp', opDone')
  <2>1. ring'.chunks \in Seq(Chunk) /\ ring'.chunks # <<>> /\ c = ring'.chunks[1]
    BY <1>1, <1>4, <1>6
  <2>2. o = OpOf(c, header, pos) /\ Attempt(o, n) /\ wire = from \o SubSeq(Held(c), 1, pos)
        /\ header \in Nat /\ 0 < header /\ header <= R!ChunkLen(c) /\ pos \in Nat /\ pos <= header
    BY <1>1, <1>5
  <2> HIDE DEF c, o
  <2>3. QED
    BY <1>8, <1>10, <2>1, <2>2, AttemptKeeps
<1>12. Out(ring', from, wire', sending', sendOp', opDone')
  BY <1>1, <1>4, <1>11 DEF Out
<1>13. AcceptedBytes' = AcceptedBytes
  BY <1>1 DEF AcceptedBytes
<1> HIDE DEF c
<1>14. QED
  BY <1>1, <1>2, <1>3, <1>12, <1>13, SendPathNext

(* Bytes are put behind those that wait.                                   *)
QueuedTo(from) ==
  /\ Ringed(ring') /\ ring'.len <= RingMax
  /\ Queue(ring'.chunks, from, AcceptedBytes')
  /\ ring'.len = Len(AcceptedBytes') - Len(from)
  /\ ring'.chunks # <<>>
  /\ ring.chunks # <<>> /\ R!ChunkLen(ring.chunks[1]) > 0 => SameHead(ring.chunks[1], ring'.chunks[1])

(* th_ws_queue_frame puts the frame behind those that wait.                *)
LEMMA QueuedBehind ==
  ASSUME accepted \in Seq(OutFrame), Ringed(ring), NEW from, Queue(ring.chunks, from, AcceptedBytes),
         ring.len = Len(AcceptedBytes) - Len(from), NEW f \in OutFrame, Queued(f)
  PROVE  QueuedTo(from)
<1> DEFINE bytes == Encoded(f)
           all == AcceptedBytes
           q == R!Write(ring, bytes)
<1>1. bytes \in Seq(OutByte) /\ Len(bytes) \in Nat \ {0}
  BY EncodedType
<1>2. /\ ~R!Refused(ring, Len(bytes)) /\ ring' = q /\ accepted' = Append(accepted, f)
  BY DEF Queued
<1>3. AcceptedBytes' = all \o bytes
  BY <1>2, AcceptedGrows
<1>4. ring.chunks \in Seq(Chunk)
  BY DEF Ringed
<1>5. from \in Seq(OutByte) /\ all \in Seq(OutByte)
  BY <1>4, QueueTypes
<1> HIDE DEF bytes, all
<1>6. Len(bytes) # 0 /\ Queue(ring.chunks, from, all)
  BY <1>1 DEF all
<1>7. /\ Ringed(q) /\ Queue(q.chunks, from, all \o bytes)
      /\ q.len = ring.len + Len(bytes) /\ q.chunks # <<>>
      /\ ring.chunks # <<>> /\ R!ChunkLen(ring.chunks[1]) > 0 => SameHead(ring.chunks[1], q.chunks[1])
  BY <1>1, <1>6, RingWritten
<1>8. ring.len = Len(all) - Len(from)
  BY DEF all
<1> HIDE DEF q
<1>9. ring'.len = ring.len + Len(bytes) /\ Len(bytes) \in Nat /\ Len(all) \in Nat /\ Len(from) \in Nat
      /\ ring.len = Len(all) - Len(from) /\ ring'.len <= RingMax
  <2>1. ~(ring.len + Len(bytes) > RingMax)
    BY <1>2 DEF R!Refused
  <2>2. ring'.len = ring.len + Len(bytes)
    BY <1>2, <1>7
  <2>3. Len(bytes) \in Nat /\ Len(all) \in Nat /\ Len(from) \in Nat /\ RingMax \in Nat
    BY <1>1, <1>5, WsDataAssumption
  <2>4. QED
    BY <1>8, <2>1, <2>2, <2>3
<1>10. ring'.len = Len(AcceptedBytes') - Len(from)
  <2>1. Len(all \o bytes) = Len(all) + Len(bytes)
    BY <1>1, <1>5, ConcatProperties
  <2>2. Len(AcceptedBytes') = Len(all) + Len(bytes)
    BY <1>3, <2>1
  <2>3. QED
    BY <1>9, <2>2
<1>11. QED
  BY <1>2, <1>3, <1>7, <1>9, <1>10 DEF QueuedTo


(* A send in flight reads the same bytes when more are behind them.        *)
LEMMA StillInFlight ==
  ASSUME NEW c \in Chunk, NEW d \in Chunk, SameHead(c, d), NEW from, NEW bytes, NEW o, NEW done,
         InFlight(c, from, bytes, o, done)
  PROVE  InFlight(d, from, bytes, o, done)
<1>1. PICK header, pos \in Nat :
        /\ 0 < header /\ header <= R!ChunkLen(c) /\ pos <= header
        /\ o = OpOf(c, header, pos)
        /\ bytes = from \o SubSeq(Held(c), 1, pos)
        /\ done <=> pos = header
  BY DEF InFlight
<1>2. d.id = c.id /\ d.capacity = c.capacity /\ d.head = c.head
  BY DEF SameHead
<1>3. PICK more \in Seq(OutByte) : Held(d) = Held(c) \o more
  BY DEF SameHead
<1>4. OpOf(d, header, pos) = OpOf(c, header, pos)
  BY <1>2 DEF OpOf
<1> DEFINE x == Held(c)
           y == Held(d)
<1>5. /\ x \in Seq(OutByte) /\ Len(x) = R!ChunkLen(c) /\ R!ChunkLen(c) \in Nat
      /\ Len(y) = R!ChunkLen(d)
  <2>1. x \in Seq(OutByte) /\ Len(x) = R!ChunkLen(c) /\ R!ChunkLen(c) \in 0 .. c.capacity /\ c.capacity \in Nat
    BY ChunkIs
  <2>2. Len(y) = R!ChunkLen(d)
    BY ChunkIs
  <2> HIDE DEF x, y
  <2>3. QED
    BY <2>1, <2>2
<1>6. y = x \o more
  BY <1>3
<1> HIDE DEF x, y
<1>7. Len(y) = Len(x) + Len(more) /\ Len(more) \in Nat
  <2>1. x \in Seq(OutByte) /\ more \in Seq(OutByte)
    BY <1>5
  <2>2. Len(x \o more) = Len(x) + Len(more)
    BY <2>1, ConcatProperties
  <2>3. QED
    BY <1>6, <2>2
<1>8. header <= R!ChunkLen(d)
  BY <1>1, <1>5, <1>7
<1>9. SubSeq(y, 1, pos) = SubSeq(x, 1, pos)
  <2>1. x \in Seq(OutByte) /\ more \in Seq(OutByte) /\ pos \in Nat /\ pos <= Len(x)
    BY <1>1, <1>5
  <2>2. QED
    BY <1>6, <2>1, FirstBytes
<1>10. bytes = from \o SubSeq(Held(d), 1, pos)
  BY <1>1, <1>9 DEF x, y
<1>11. QED
  BY <1>1, <1>4, <1>8, <1>10 DEF InFlight

(* It keeps the send path, whether a send is in flight or starts.          *)
LEMMA QueuedKeeps ==
  ASSUME SendPath, NEW f \in OutFrame, Queued(f)
  PROVE  SendPath'
<1> DEFINE c == ring.chunks[1]
           d == ring'.chunks[1]
           all == AcceptedBytes
<1>1. accepted' = Append(accepted, f)
  BY DEF Queued
<1>2. accepted \in Seq(OutFrame) /\ sending \in BOOLEAN /\ Ringed(ring) /\ ring.len <= RingMax
      /\ Leaving(ring, all, wire, sending, sendOp, opDone)
  BY DEF SendPath
<1>3. PICK from : Queue(ring.chunks, from, all) /\ ring.len = Len(all) - Len(from)
                  /\ Out(ring, from, wire, sending, sendOp, opDone)
  BY <1>2 DEF Leaving
<1>4. QueuedTo(from)
  BY <1>2, <1>3, QueuedBehind
<1>5. /\ Ringed(ring') /\ ring'.len <= RingMax
      /\ Queue(ring'.chunks, from, AcceptedBytes')
      /\ ring'.len = Len(AcceptedBytes') - Len(from)
      /\ ring'.chunks # <<>>
      /\ ring.chunks # <<>> /\ R!ChunkLen(c) > 0 => SameHead(c, d)
  BY <1>4 DEF QueuedTo
<1>6. accepted' \in Seq(OutFrame)
  BY <1>1, <1>2, AppendParts
<1>7. ring.chunks \in Seq(Chunk) /\ ring'.chunks \in Seq(Chunk)
  BY <1>2, <1>5 DEF Ringed
<1>8. from \in Seq(OutByte)
  BY <1>3, <1>7, QueueTypes
<1>9. sending' \in BOOLEAN /\ Out(ring', from, wire', sending', sendOp', opDone')
  <2>1. CASE sending
    <3>1. UNCHANGED <<sending, sendOp, opDone, wire>>
      BY <2>1 DEF Queued
    <3>2. ring.chunks # <<>> /\ InFlight(c, from, wire, sendOp, opDone)
      BY <1>3, <2>1 DEF Out
    <3>3. c \in Chunk /\ d \in Chunk
      BY <1>5, <1>7, <3>2, TailIs
    <3> HIDE DEF c, d
    <3>4. R!ChunkLen(c) > 0
      <4>1. \E header \in Nat : 0 < header /\ header <= R!ChunkLen(c)
        BY <3>2 DEF InFlight
      <4>2. R!ChunkLen(c) \in 0 .. c.capacity /\ c.capacity \in Nat
        BY <3>3, ChunkIs
      <4>3. QED
        BY <4>1, <4>2
    <3>5. SameHead(c, d)
      BY <1>5, <3>2, <3>4
    <3>6. InFlight(d, from, wire, sendOp, opDone)
      BY <3>2, <3>3, <3>5, StillInFlight
    <3>7. QED
      BY <1>5, <2>1, <3>1, <3>6 DEF Out, d
  <2>2. CASE ~sending
    <3>1. Drain
      BY <2>2 DEF Queued
    <3>2. wire = from
      BY <1>3, <2>2 DEF Out
    <3>3. QED
      BY <1>5, <1>8, <3>1, <3>2, DrainHolds
  <2>3. QED
    BY <2>1, <2>2
<1>10. QED
  BY <1>5, <1>6, <1>9, SendPathNext


-----------------------------------------------------------------------------
PieceAt(s, pos, n, next, last) == SubSeq(s, next, last) = [i \in 1 .. n |-> s[pos + i]]

LEMMA PieceWithin ==
  ASSUME NEW S, NEW s \in Seq(S), NEW pos \in Nat, NEW n \in Nat, pos + n <= Len(s),
         NEW next, NEW last, next = pos + 1, last = pos + n
  PROVE  PieceAt(s, pos, n, next, last)
BY PieceIs DEF PieceAt

(* The chunk of which n bytes are done with.                               *)
Advanced(c, n) == [c EXCEPT !.head = @ + n]

(* It holds what it held without these bytes.                              *)
LEMMA ChunkAdvanced ==
  ASSUME NEW c \in Chunk, NEW n \in Nat, n <= R!ChunkLen(c)
  PROVE  /\ Advanced(c, n) \in Chunk
         /\ R!ChunkLen(Advanced(c, n)) = R!ChunkLen(c) - n
         /\ Held(c) = SubSeq(Held(c), 1, n) \o Held(Advanced(c, n))
<1> DEFINE d == Advanced(c, n)
           len == R!ChunkLen(c)
           left == len - n
           x == Held(c)
           y == Held(d)
           next == n + 1
<1>1. /\ c.head \in Nat /\ c.tail \in Nat /\ len \in 0 .. c.capacity /\ len = c.tail - c.head
      /\ c.capacity \in Nat \ {0} /\ c.data \in [0 .. c.capacity - 1 -> OutCell]
      /\ x \in Seq(OutByte) /\ Len(x) = len
  BY ChunkIs
<1>2. c \in Chunks
  BY DEF Chunk
<1>3. /\ d \in Chunks /\ d.head = c.head + n /\ d.tail = c.tail /\ d.capacity = c.capacity /\ d.data = c.data
  <2>1. c.head + n \in Nat
    BY <1>1
  <2>2. QED
    BY <1>2, <2>1 DEF Chunks, Advanced
<1> HIDE DEF d
<1>4. R!ChunkLen(d) = left
  BY <1>1, <1>3 DEF R!ChunkLen
<1> HIDE DEF len
<1>5. left \in Nat /\ n + left = len /\ left <= c.capacity
  <2>1. n <= len
    BY DEF len
  <2>2. QED
    BY <1>1, <2>1
<1>6. y = [i \in 1 .. left |-> x[n + i]]
  <2>1. ASSUME NEW i \in 1 .. left PROVE d.data[(d.head + i - 1) % d.capacity] = x[n + i]
    <3> DEFINE k == n + i
    <3>1. k \in 1 .. len /\ d.head + i - 1 = c.head + k - 1
      <4> DEFINE head == c.head
                 later == d.head
      <4>1. head \in Nat /\ later = head + n /\ left \in Nat /\ n + left = len
        BY <1>1, <1>3, <1>5
      <4> HIDE DEF head, later, left
      <4>2. k \in 1 .. len /\ later + i - 1 = head + k - 1
        <5>1. i \in Nat /\ i >= 1 /\ i <= left
          BY <4>1
        <5>2. k \in Nat /\ k >= 1 /\ k <= len
          BY <4>1, <5>1
        <5>3. len \in Nat
          BY <4>1
        <5>4. later + i - 1 = head + k - 1
          BY <4>1, <5>1
        <5>5. QED
          BY <5>2, <5>3, <5>4
      <4>3. QED
        BY <4>2 DEF head, later
    <3>2. x[k] = c.data[(c.head + k - 1) % c.capacity]
      BY <3>1 DEF Held, len
    <3>3. QED
      BY <1>3, <3>1, <3>2
  <2>2. y = [i \in 1 .. left |-> d.data[(d.head + i - 1) % d.capacity]]
    BY <1>4 DEF Held
  <2> HIDE DEF x, y, left
  <2>3. QED
    BY <2>1, <2>2
<1>7. y = SubSeq(x, next, len)
  <2>1. /\ x \in Seq(OutByte) /\ n \in Nat /\ left \in Nat /\ n + left <= Len(x) /\ next = n + 1
        /\ len = n + left
    BY <1>1, <1>5
  <2> HIDE DEF x, y, left, next
  <2>3. PieceAt(x, n, left, next, len)
    BY <2>1, PieceWithin
  <2>4. SubSeq(x, next, len) = [i \in 1 .. left |-> x[n + i]]
    BY <2>3 DEF PieceAt
  <2>5. QED
    BY <1>6, <2>4
<1>8. SubSeq(x, next, len) \in Seq(OutByte) /\ SubSeq(x, 1, n) \o SubSeq(x, next, len) = SubSeq(x, 1, len)
  <2>1. /\ x \in Seq(OutByte) /\ n \in Nat /\ left \in Nat /\ n + left <= Len(x) /\ next = n + 1
        /\ len = n + left
    BY <1>1, <1>5
  <2> HIDE DEF x, y, left, next
  <2>2. SubSeq(x, next, len) \in Seq(OutByte)
    BY <2>1, PieceIs
  <2>3. SubSeq(x, 1, n) \o SubSeq(x, next, len) = SubSeq(x, 1, len)
    BY <2>1, PiecesJoin
  <2>4. QED
    BY <2>2, <2>3
<1>9. SubSeq(x, 1, len) = x
  <2> HIDE DEF x
  <2>1. x \in Seq(OutByte) /\ Len(x) = len
    BY <1>1
  <2>2. QED
    BY <2>1
<1>10. d \in Chunk
  <2>1. y \in Seq(OutByte)
    BY <1>7, <1>8
  <2>2. d.head <= d.tail /\ R!ChunkLen(d) <= d.capacity
    <3>1. c.tail = c.head + len /\ d.head <= d.tail
      BY <1>1, <1>3, <1>5
    <3>2. QED
      BY <1>3, <1>4, <1>5, <3>1
  <2>3. d.data \in [0 .. d.capacity - 1 -> OutCell]
    BY <1>1, <1>3
  <2>4. QED
    BY <1>3, <2>1, <2>2, <2>3 DEF Chunk
<1>11. QED
  BY <1>4, <1>7, <1>8, <1>9, <1>10 DEF d, len

LEMMA ConsIs ==
  ASSUME NEW S, NEW x \in S, NEW t \in Seq(S)
  PROVE  /\ <<x>> \o t \in Seq(S) /\ Len(<<x>> \o t) = Len(t) + 1
         /\ (<<x>> \o t)[1] = x /\ \A k \in 1 .. Len(t) : (<<x>> \o t)[k + 1] = t[k]
OBVIOUS


Associate(s, t, u) == (s \o t) \o u = s \o (t \o u)

LEMMA ConcatAgain ==
  ASSUME NEW S, NEW s \in Seq(S), NEW t \in Seq(S), NEW u \in Seq(S)
  PROVE  Associate(s, t, u)
BY ConcatAssociates DEF Associate

(* What is consumed has left; the rest waits in its order.                 *)
LeavesRest(r, header, next, all) ==
  LET q == R!Consume(r, header)
  IN Ringed(q) /\ Queue(q.chunks, next, all) /\ q.len = Len(all) - Len(next)

(* th_ring_consume, with the drained chunk kept or freed.                  *)
LEMMA RingConsumed ==
  ASSUME NEW r, Ringed(r), r.chunks # <<>>, NEW from, NEW all, Queue(r.chunks, from, all),
         r.len = Len(all) - Len(from), NEW c, c = r.chunks[1],
         NEW header \in Nat, header <= R!ChunkLen(c),
         NEW next, next = from \o SubSeq(Held(c), 1, header)
  PROVE  LeavesRest(r, header, next, all)
<1> DEFINE q == R!Consume(r, header)
           first == Advanced(c, header)
           rest == Tail(r.chunks)
           keep == R!ChunkLen(first) > 0 \/ (Len(r.chunks) = 1 /\ first.capacity <= RingInitial)
           gone == SubSeq(Held(c), 1, header)
           x == Held(c)
           y == Held(first)
<1>1. r.chunks \in Seq(Chunk)
  BY DEF Ringed
<1>2. /\ rest \in Seq(Chunk) /\ Len(rest) = Len(r.chunks) - 1
      /\ \A k \in 1 .. Len(r.chunks) - 1 : rest[k] = r.chunks[k + 1]
      /\ Len(r.chunks) \in Nat \ {0} /\ c \in Chunk /\ Head(r.chunks) = c
  BY <1>1, TailIs
<1>3. /\ q.chunks = (IF keep THEN <<first>> ELSE Nothing) \o rest
      /\ q.len = r.len - header
  <2>1. /\ q.chunks = (IF keep THEN <<first>> ELSE <<>>) \o rest
        /\ q.len = r.len - header
    <3>1. Head(r.chunks) = c
      BY <1>2
    <3> DEFINE front == Head(r.chunks)
    <3>2. /\ q.chunks = (IF R!ChunkLen(Advanced(front, header)) > 0
                            \/ (Len(r.chunks) = 1 /\ Advanced(front, header).capacity <= RingInitial)
                         THEN <<Advanced(front, header)>> ELSE <<>>) \o rest
          /\ q.len = r.len - header
      <4> HIDE DEF rest
      <4>1. q = [chunks |-> (IF R!ChunkLen(Advanced(front, header)) > 0
                            \/ (Len(r.chunks) = 1 /\ Advanced(front, header).capacity <= RingInitial)
                         THEN <<Advanced(front, header)>> ELSE <<>>) \o rest,
                 len |-> r.len - header]
        BY DEF R!Consume, Advanced, rest
      <4>2. QED
        BY <4>1
    <3>3. front = c
      BY <3>1
    <3> HIDE DEF front, rest, q
    <3>4. QED
      BY <3>2, <3>3
  <2>2. QED
    BY <2>1 DEF Nothing
<1> HIDE DEF q
<1>4. /\ first \in Chunk /\ R!ChunkLen(first) = R!ChunkLen(c) - header /\ x = gone \o y
  BY <1>2, ChunkAdvanced
<1>5. /\ x \in Seq(OutByte) /\ y \in Seq(OutByte) /\ Len(x) = R!ChunkLen(c)
      /\ R!ChunkLen(c) \in Nat
  <2>1. y \in Seq(OutByte)
    BY <1>4, ChunkIs
  <2>2. x \in Seq(OutByte) /\ Len(x) = R!ChunkLen(c) /\ R!ChunkLen(c) \in 0 .. c.capacity /\ c.capacity \in Nat
    BY <1>2, ChunkIs
  <2> HIDE DEF x, y
  <2>3. QED
    BY <2>1, <2>2
<1>6. from \in Seq(OutByte) /\ all \in Seq(OutByte)
  BY <1>1, QueueTypes
<1>7. gone \in Seq(OutByte) /\ Len(gone) = header
  <2>1. x \in Seq(OutByte) /\ header <= Len(x) /\ header \in Nat
    BY <1>5
  <2>2. 1 = 0 + 1 /\ header = 0 + header /\ 0 + header <= Len(x) /\ 0 \in Nat
    BY <2>1
  <2> HIDE DEF x
  <2>3. SubSeq(x, 1, header) \in Seq(OutByte) /\ Len(SubSeq(x, 1, header)) = header
    BY <2>1, <2>2, PieceIs
  <2>4. QED
    BY <2>3 DEF x
<1> HIDE DEF first, rest
<1>8. Queue(rest, from \o x, all)
  BY <1>1, QueueTail DEF rest
<1>9. next \in Seq(OutByte) /\ from \o x = next \o y /\ Len(next) = Len(from) + header
  <2> HIDE DEF x, y, gone
  <2>1. next = from \o gone
    BY DEF gone, x
  <2>2. from \in Seq(OutByte) /\ gone \in Seq(OutByte) /\ y \in Seq(OutByte)
    BY <1>5, <1>6, <1>7
  <2>3. from \o gone \in Seq(OutByte) /\ (from \o gone) \o y = from \o (gone \o y)
    <3>1. from \o gone \in Seq(OutByte)
      BY <2>2, ConcatAssociates
    <3>2. Associate(from, gone, y)
      BY <2>2, ConcatAgain
    <3>3. QED
      BY <3>1, <3>2 DEF Associate
  <2>4. Len(from \o gone) = Len(from) + Len(gone)
    BY <2>2, ConcatProperties
  <2>5. QED
    BY <1>4, <1>7, <2>1, <2>3, <2>4
<1>10. q.len = Len(all) - Len(next)
  <2>1. Len(all) \in Nat /\ Len(from) \in Nat
    BY <1>6
  <2>2. q.len = r.len - header /\ r.len = Len(all) - Len(from) /\ Len(next) = Len(from) + header
    BY <1>3, <1>9
  <2>3. QED
    BY <2>1, <2>2
<1>11. ASSUME NEW k \in 1 .. Len(rest) PROVE R!ChunkLen(rest[k]) > 0
  <2>1. k \in 1 .. Len(r.chunks) - 1 /\ k + 1 \in 1 .. Len(r.chunks) /\ Len(r.chunks) > 1
    BY <1>2
  <2>2. rest[k] = r.chunks[k + 1]
    BY <1>2, <2>1
  <2>3. QED
    BY <2>1, <2>2 DEF Ringed
<1>12. CASE keep
  <2> DEFINE chunks == <<first>> \o rest
  <2>1. q.chunks = chunks
    BY <1>3, <1>12
  <2>2. Queue(chunks, next, all)
    <3>1. Queue(rest, from \o x, all) /\ from \o x = next \o Held(first)
      BY <1>8, <1>9
    <3> DEFINE later == from \o x
    <3>2. rest \in Seq(Chunk) /\ first \in Chunk /\ next \in Seq(OutByte)
          /\ Queue(rest, later, all) /\ later = next \o Held(first)
      BY <1>2, <1>4, <1>9, <3>1
    <3> HIDE DEF later
    <3>3. QED
      BY <3>2, QueueCons
  <2>3. /\ chunks \in Seq(Chunk) /\ Len(chunks) = Len(rest) + 1 /\ chunks[1] = first
        /\ \A k \in 1 .. Len(rest) : chunks[k + 1] = rest[k]
    BY <1>2, <1>4, ConsIs
  <2> HIDE DEF chunks
  <2>4. ASSUME Len(chunks) > 1, NEW k \in 1 .. Len(chunks) PROVE R!ChunkLen(chunks[k]) > 0
    <3>1. Len(rest) \in Nat /\ Len(rest) > 0 /\ Len(r.chunks) # 1
      BY <1>2, <2>3, <2>4
    <3>2. CASE k = 1
      <4>1. R!ChunkLen(first) > 0
        BY <1>12, <3>1
      <4>2. QED
        BY <2>3, <3>2, <4>1
    <3>3. CASE k # 1
      <4> DEFINE j == k - 1
      <4>1. j \in 1 .. Len(rest) /\ k = j + 1
        BY <2>3, <3>1, <3>3
      <4>2. chunks[k] = rest[j]
        BY <2>3, <4>1
      <4> HIDE DEF j
      <4>3. QED
        BY <1>11, <4>1, <4>2
    <3>4. QED
      BY <3>2, <3>3
  <2>5. Ringed(q)
    BY <2>1, <2>3, <2>4 DEF Ringed
  <2>6. QED
    BY <1>10, <2>1, <2>2, <2>5 DEF LeavesRest, q
<1>13. CASE ~keep
  <2>1. q.chunks = rest
    BY <1>2, <1>3, <1>13, ConcatEmpty
  <2>2. R!ChunkLen(first) = 0
    <3>1. ~(R!ChunkLen(first) > 0)
      BY <1>13
    <3>2. R!ChunkLen(first) \in 0 .. first.capacity /\ first.capacity \in Nat
      BY <1>4, ChunkIs
    <3>3. QED
      BY <3>1, <3>2
  <2>3. y = Nothing
    BY <1>4, <2>2, HeldNothing
  <2>4. next = from \o x
    BY <1>9, <2>3, ConcatEmpty
  <2>5. Ringed(q)
    BY <1>2, <1>11, <2>1 DEF Ringed
  <2>6. QED
    BY <1>8, <1>10, <2>1, <2>4, <2>5 DEF LeavesRest, q
<1>14. QED
  BY <1>12, <1>13

(* A send that is complete gives its bytes back to the ring.               *)
LEMMA HandleSendKeeps ==
  ASSUME SendPath, HandleSend
  PROVE  SendPath'
<1> DEFINE c == ring.chunks[1]
           all == AcceptedBytes
           q == R!Consume(ring, sendOp.pos)
<1>1. opDone /\ ring' = q /\ Drain /\ accepted' = accepted
  BY DEF HandleSend
<1>2. accepted \in Seq(OutFrame) /\ sending \in BOOLEAN /\ Ringed(ring) /\ ring.len <= RingMax
      /\ Leaving(ring, all, wire, sending, sendOp, opDone)
  BY DEF SendPath
<1>3. PICK from : Queue(ring.chunks, from, all) /\ ring.len = Len(all) - Len(from)
                  /\ Out(ring, from, wire, sending, sendOp, opDone)
  BY <1>2 DEF Leaving
<1>4. ring.chunks # <<>> /\ InFlight(c, from, wire, sendOp, opDone)
  BY <1>1, <1>3 DEF Out
<1>5. PICK header, pos \in Nat :
        /\ 0 < header /\ header <= R!ChunkLen(c) /\ pos <= header
        /\ sendOp = OpOf(c, header, pos)
        /\ wire = from \o SubSeq(Held(c), 1, pos)
        /\ opDone <=> pos = header
  BY <1>4 DEF InFlight
<1>6. pos = header /\ sendOp.pos = header
  BY <1>1, <1>5 DEF OpOf
<1>7. ring.chunks \in Seq(Chunk)
  BY <1>2 DEF Ringed
<1>8. from \in Seq(OutByte) /\ all \in Seq(OutByte)
  BY <1>3, <1>7, QueueTypes
<1>9. AcceptedBytes' = all
  BY <1>1 DEF AcceptedBytes
<1> HIDE DEF all
<1>10. LeavesRest(ring, header, wire, all)
  <2>1. /\ wire = from \o SubSeq(Held(c), 1, header) /\ header \in Nat /\ header <= R!ChunkLen(c)
        /\ Ringed(ring) /\ ring.chunks # <<>> /\ Queue(ring.chunks, from, all) /\ ring.len = Len(all) - Len(from)
        /\ c = ring.chunks[1]
    BY <1>2, <1>3, <1>4, <1>5, <1>6
  <2> HIDE DEF c
  <2>2. QED
    BY <2>1, RingConsumed
<1>11. /\ Ringed(ring') /\ Queue(ring'.chunks, wire, all) /\ ring'.len = Len(all) - Len(wire)
  BY <1>1, <1>6, <1>10 DEF LeavesRest
<1>12. wire \in Seq(OutByte)
  <2>1. ring'.chunks \in Seq(Chunk)
    BY <1>11 DEF Ringed
  <2>2. QED
    BY <1>11, <2>1, QueueTypes
<1>13. sending' \in BOOLEAN /\ Out(ring', wire, wire', sending', sendOp', opDone')
  <2> DEFINE before == wire
  <2>1. before \in Seq(OutByte) /\ wire = before
    BY <1>12
  <2>2. QED
    BY <1>1, <1>11, <1>12, DrainHolds
<1>14. ring'.len <= RingMax
  <2>1. ring.len = Len(all) - Len(from) /\ ring'.len = ring.len - header
    BY <1>1, <1>3, <1>6 DEF R!Consume
  <2>2. Len(all) \in Nat /\ Len(from) \in Nat /\ RingMax \in Nat
    BY <1>8, WsDataAssumption
  <2>3. QED
    BY <1>2, <2>1, <2>2
<1>15. QED
  BY <1>1, <1>2, <1>9, <1>11, <1>13, <1>14, SendPathNext


(* A step that leaves the ring and the sends alone.                        *)
LEMMA SendPathSame ==
  ASSUME SendPath, UNCHANGED outVars
  PROVE  SendPath'
<1>1. /\ ring' = ring /\ sending' = sending /\ sendOp' = sendOp /\ opDone' = opDone
      /\ wire' = wire /\ accepted' = accepted
  BY DEF outVars
<1>2. AcceptedBytes' = AcceptedBytes
  BY <1>1 DEF AcceptedBytes
<1>3. /\ accepted \in Seq(OutFrame) /\ sending \in BOOLEAN /\ Ringed(ring) /\ ring.len <= RingMax
      /\ Leaving(ring, AcceptedBytes, wire, sending, sendOp, opDone)
  BY DEF SendPath
<1>4. QED
  BY <1>1, <1>2, <1>3 DEF SendPath

(* Every step of a WebSocket keeps the send path.                          *)
LEMMA SendPathStep == Receiving /\ SendPath /\ [WsNext]_wsDataVars => SendPath'
<1> SUFFICES ASSUME Receiving, SendPath, [WsNext]_wsDataVars PROVE SendPath'
  OBVIOUS
<1>1. CASE UNCHANGED wsDataVars
  BY <1>1, SendPathSame DEF wsDataVars
<1>2. ASSUME NEW n \in 1 .. Len(Streams[frames]), Receive(n) PROVE SendPath'
  BY <1>2, SendPathSame DEF Receive
<1>3. CASE ParseStep
  <2> DEFINE step == ParseNext(frames, parser, payload, data)
             f == [type |-> Close, payload |-> <<>>]
  <2>1. \/ More(step) \/ PingOrPong(step) \/ Invalid(step) \/ PeerCloses(step)
        \/ Message(step) \/ Astray(step)
    BY <1>3 DEF ParseStep
  <2> HIDE DEF step
  <2>2. CASE UNCHANGED outVars
    BY <2>2, SendPathSame
  <2>3. CASE PeerCloses(step)
    <3>1. f \in OutFrame
      BY DEF OutFrame
    <3>2. Queued(f) \/ NotQueued(f)
      BY <2>3 DEF PeerCloses
    <3> HIDE DEF f
    <3>3. CASE Queued(f)
      BY <3>1, <3>3, QueuedKeeps
    <3>4. CASE NotQueued(f)
      BY <3>4, SendPathSame DEF NotQueued
    <3>5. QED
      BY <3>2, <3>3, <3>4
  <2>4. PeerCloses(step) \/ UNCHANGED outVars
    BY <2>1 DEF More, PingOrPong, Invalid, Message, Astray
  <2>5. QED
    BY <2>2, <2>3, <2>4
<1>4. CASE Echo
  <2> DEFINE f == Last(got)
  <2>1. got \in Seq(Messages) /\ got # <<>>
    BY <1>4 DEF Receiving, Echo
  <2>2. f \in Messages
    BY <2>1, FrontIs
  <2>3. f \in OutFrame
    BY <2>2 DEF Messages, OutFrame
  <2>4. Queued(f) \/ NotQueued(f)
    BY <1>4 DEF Echo
  <2> HIDE DEF f
  <2>5. CASE Queued(f)
    BY <2>3, <2>5, QueuedKeeps
  <2>6. CASE NotQueued(f)
    BY <2>6, SendPathSame DEF NotQueued
  <2>7. QED
    BY <2>4, <2>5, <2>6
<1>5. CASE HandleSend
  BY <1>5, HandleSendKeeps
<1>6. ASSUME NEW n \in 1 .. T!IovBytes(sendOp.iov), SendReady(n) PROVE SendPath'
  BY <1>6, SendReadyKeeps
<1>7. CASE Fails
  BY <1>7, SendPathSame DEF Fails
<1>8. QED
  BY <1>1, <1>2, <1>3, <1>4, <1>5, <1>6, <1>7 DEF WsNext, Consume, WsSend

(* What is on the wire of a WebSocket is the bytes of the frames that      *)
(* th_ws_queue_frame took, each once and in order, up to some place; and   *)
(* all of them when no send is in flight: a chunk that wraps, is replaced  *)
(* by a larger one, drained, freed or written behind a send in flight      *)
(* loses, repeats and changes none.                                        *)
SentInOrder ==
  /\ \E rest \in Seq(OutByte) : wire \o rest = AcceptedBytes
  /\ ~sending => wire = AcceptedBytes

(* The send path is in order; without a send nothing waits.                *)
LEMMA SendPathOrders ==
  ASSUME SendPath
  PROVE  SentInOrder
  <2> DEFINE all == AcceptedBytes
             c == ring.chunks[1]
  <2>1. PICK from : Queue(ring.chunks, from, all) /\ Out(ring, from, wire, sending, sendOp, opDone)
    BY DEF SendPath, Leaving
  <2>2. ring.chunks \in Seq(Chunk) /\ Ringed(ring) /\ sending \in BOOLEAN
    BY DEF SendPath, Ringed
  <2>3. from \in Seq(OutByte) /\ all \in Seq(OutByte)
    BY <2>1, <2>2, QueueTypes
  <2> HIDE DEF all
  <2>4. CASE ~sending
    <3>1. wire = from
      BY <2>1, <2>4 DEF Out
    <3>2. from = all
      <4>1. CASE ring.chunks = <<>>
        <5>1. Len(ring.chunks) = 0
          BY <4>1
        <5>2. QED
          BY <2>1, <2>3, <5>1, QueueEmpty
      <4>2. CASE ring.chunks # <<>>
        <5> DEFINE later == Tail(ring.chunks)
        <5>1. R!ChunkLen(c) = 0 /\ c \in Chunk
          BY <2>1, <2>2, <2>4, <4>2, TailIs DEF Out
        <5>2. Len(ring.chunks) \in Nat \ {0} /\ Len(later) = Len(ring.chunks) - 1
          BY <2>2, <4>2, TailIs
        <5>3. ~(Len(ring.chunks) > 1)
          BY <2>2, <5>1, <5>2 DEF Ringed
        <5>4. Len(later) = 0
          <6> DEFINE n == Len(ring.chunks)
          <6>1. n \in Nat \ {0} /\ Len(later) = n - 1 /\ ~(n > 1)
            BY <5>2, <5>3
          <6> HIDE DEF n, later
          <6>2. QED
            BY <6>1
        <5>5. Held(c) = Nothing
          BY <5>1, HeldNothing
        <5>6. Queue(later, from \o Held(c), all)
          BY <2>1, <2>2, <4>2, QueueTail
        <5>7. from \o Held(c) = from
          BY <2>3, <5>5, ConcatEmpty
        <5> HIDE DEF later
        <5>8. Queue(later, from, all)
          BY <5>6, <5>7
        <5>9. QED
          BY <2>3, <5>4, <5>8, QueueEmpty
      <4>3. QED
        BY <4>1, <4>2
    <3>3. all \o Nothing = all /\ Nothing \in Seq(OutByte)
      BY <2>3, ConcatEmpty
    <3>4. QED
      BY <3>1, <3>2, <3>3 DEF SentInOrder, all
  <2>5. CASE sending
    <3>1. ring.chunks # <<>> /\ InFlight(c, from, wire, sendOp, opDone)
      BY <2>1, <2>5 DEF Out
    <3>2. PICK header, pos \in Nat : /\ header <= R!ChunkLen(c) /\ pos <= header
                                     /\ wire = from \o SubSeq(Held(c), 1, pos)
      BY <3>1 DEF InFlight
    <3>3. c \in Chunk
      BY <2>2, <3>1, TailIs
    <3> DEFINE later == Tail(ring.chunks)
               x == Held(c)
               next == pos + 1
               y == SubSeq(x, 1, pos)
               z == SubSeq(x, next, Len(x))
    <3>4. Queue(later, from \o x, all) /\ later \in Seq(Chunk)
      BY <2>1, <2>2, <3>1, QueueTail, TailIs
    <3>5. PICK rest \in Seq(OutByte) : all = (from \o x) \o rest
      <4> DEFINE mid == from \o x
      <4>1. Queue(later, mid, all) /\ later \in Seq(Chunk)
        BY <3>4
      <4> HIDE DEF mid, later
      <4>2. \E s \in Seq(OutByte) : all = mid \o s
        BY <4>1, QueueGrows
      <4>3. QED
        BY <4>2 DEF mid
    <3>6. x \in Seq(OutByte) /\ Len(x) = R!ChunkLen(c) /\ R!ChunkLen(c) \in 0 .. c.capacity /\ c.capacity \in Nat
      BY <3>3, ChunkIs
    <3> HIDE DEF x
    <3>7. y \in Seq(OutByte) /\ z \in Seq(OutByte) /\ y \o z = x
      <4> DEFINE left == Len(x) - pos
                 last == Len(x)
      <4>1. x \in Seq(OutByte) /\ pos \in Nat /\ left \in Nat /\ pos + left <= Len(x)
            /\ next = pos + 1 /\ last = pos + left /\ pos <= Len(x)
        BY <3>2, <3>6
      <4>2. 1 = 0 + 1 /\ pos = 0 + pos /\ 0 + pos <= Len(x) /\ 0 \in Nat
        BY <4>1
      <4>3. SubSeq(x, 1, last) = x
        BY <4>1
      <4> HIDE DEF left, next, last
      <4>4. y \in Seq(OutByte)
        BY <4>1, <4>2, PieceIs
      <4>5. SubSeq(x, next, last) \in Seq(OutByte)
        BY <4>1, PieceIs
      <4>6. SubSeq(x, 1, pos) \o SubSeq(x, next, last) = SubSeq(x, 1, last)
        BY <4>1, PiecesJoin
      <4>7. QED
        BY <4>3, <4>4, <4>5, <4>6 DEF last
    <3> HIDE DEF y, z
    <3>8. all = wire \o (z \o rest) /\ z \o rest \in Seq(OutByte)
      <4>1. from \o x = wire \o z /\ wire \in Seq(OutByte)
        <5>1. wire = from \o y
          BY <3>2 DEF x, y
        <5>2. from \o y \in Seq(OutByte) /\ (from \o y) \o z = from \o (y \o z)
          <6>1. from \in Seq(OutByte) /\ y \in Seq(OutByte) /\ z \in Seq(OutByte)
            BY <2>3, <3>7
          <6>2. QED
            BY <6>1, ConcatAssociates
        <5>3. QED
          BY <3>7, <5>1, <5>2
      <4>2. z \o rest \in Seq(OutByte) /\ (wire \o z) \o rest = wire \o (z \o rest)
        <5>1. wire \in Seq(OutByte) /\ z \in Seq(OutByte) /\ rest \in Seq(OutByte)
          BY <3>7, <4>1
        <5>2. QED
          BY <5>1, ConcatAssociates
      <4>3. QED
        BY <3>5, <4>1, <4>2
    <3>9. QED
      BY <2>5, <3>8 DEF SentInOrder, all
  <2>6. QED
    BY <2>2, <2>4, <2>5

(* What is on the wire has left the ring but for its last part.            *)
LEMMA WireGoesOn ==
  ASSUME SendPath, NEW from, Queue(ring.chunks, from, AcceptedBytes),
         Out(ring, from, wire, sending, sendOp, opDone)
  PROVE  wire \in Seq(OutByte) /\ \E part \in Seq(OutByte) : wire = from \o part
<1> DEFINE c == ring.chunks[1]
<1>1. Out(ring, from, wire, sending, sendOp, opDone)
  OBVIOUS
<1>2. ring.chunks \in Seq(Chunk) /\ sending \in BOOLEAN
  BY DEF SendPath, Ringed
<1>3. from \in Seq(OutByte)
  BY <1>2, QueueTypes
<1>4. \E part \in Seq(OutByte) : wire = from \o part
  <2>1. CASE ~sending
    <3>1. wire = from
      BY <1>1, <2>1 DEF Out
    <3>2. wire = from \o Nothing /\ Nothing \in Seq(OutByte)
      BY <1>3, <3>1, ConcatEmpty
    <3>3. QED
      BY <3>2
  <2>2. CASE sending
    <3>1. ring.chunks # <<>> /\ InFlight(c, from, wire, sendOp, opDone)
      BY <1>1, <2>2 DEF Out
    <3>2. PICK header, pos \in Nat : /\ header <= R!ChunkLen(c) /\ pos <= header
                                     /\ wire = from \o SubSeq(Held(c), 1, pos)
      BY <3>1 DEF InFlight
    <3>3. c \in Chunk
      BY <1>2, <3>1, TailIs
    <3> DEFINE x == Held(c)
    <3>4. x \in Seq(OutByte) /\ Len(x) = R!ChunkLen(c) /\ R!ChunkLen(c) \in 0 .. c.capacity
          /\ c.capacity \in Nat
      BY <3>3, ChunkIs
    <3> HIDE DEF x
    <3>5. 1 = 0 + 1 /\ pos = 0 + pos /\ 0 + pos <= Len(x) /\ 0 \in Nat /\ x \in Seq(OutByte) /\ pos \in Nat
      BY <3>2, <3>4
    <3>6. SubSeq(x, 1, pos) \in Seq(OutByte)
      BY <3>5, PieceIs
    <3>7. QED
      BY <3>2, <3>6 DEF x
  <2>3. QED
    BY <1>2, <2>1, <2>2
<1>5. wire \in Seq(OutByte)
  <2>1. PICK part \in Seq(OutByte) : wire = from \o part
    BY <1>4
  <2>2. from \o part \in Seq(OutByte)
    BY <1>3, ConcatProperties
  <2>3. QED
    BY <2>1, <2>2
<1>6. QED
  BY <1>4, <1>5

(* The length of the ring is within its limit, it covers every byte that   *)
(* was accepted and is not on the wire, and it is zero when no send is in  *)
(* flight: no frame is left in the ring with nobody to send it.            *)
RingIsBounded ==
  /\ ring.len \in 0 .. RingMax
  /\ Len(AcceptedBytes) - Len(wire) \in 0 .. ring.len
  /\ ~sending => ring.len = 0

(* The ring's length from the bytes that wait.                             *)
LEMMA SendPathBounds ==
  ASSUME SendPath
  PROVE  RingIsBounded
<1> DEFINE all == AcceptedBytes
           c == ring.chunks[1]
<1>1. PICK from : /\ Queue(ring.chunks, from, all) /\ Out(ring, from, wire, sending, sendOp, opDone)
                  /\ ring.len = Len(all) - Len(from)
  BY DEF SendPath, Leaving
<1>2. ring.chunks \in Seq(Chunk) /\ sending \in BOOLEAN /\ ring.len <= RingMax /\ RingMax \in Nat
  BY WsDataAssumption DEF SendPath, Ringed
<1>3. from \in Seq(OutByte) /\ all \in Seq(OutByte)
  BY <1>1, <1>2, QueueTypes
<1>4. SentInOrder
  BY SendPathOrders
<1> HIDE DEF all
<1>5. PICK some \in Seq(OutByte) : all = from \o some
  BY <1>1, <1>2, QueueGrows
<1>6. Len(all) = Len(from) + Len(some) /\ Len(from) \in Nat /\ Len(some) \in Nat
  <2>1. Len(from \o some) = Len(from) + Len(some)
    BY <1>3, ConcatProperties
  <2>2. QED
    BY <1>3, <1>5, <2>1
<1>7. \E part \in Seq(OutByte) : wire = from \o part
  BY <1>1, WireGoesOn DEF all
<1>8. Len(wire) \in Nat /\ Len(wire) >= Len(from) /\ wire \in Seq(OutByte)
  <2>1. PICK part \in Seq(OutByte) : wire = from \o part
    BY <1>7
  <2>2. Len(from \o part) = Len(from) + Len(part) /\ from \o part \in Seq(OutByte)
    BY <1>3, ConcatProperties
  <2>3. Len(part) \in Nat
    OBVIOUS
  <2>4. QED
    BY <1>6, <2>1, <2>2, <2>3
<1>9. Len(wire) <= Len(all)
  <2>1. PICK rest \in Seq(OutByte) : wire \o rest = all
    BY <1>4 DEF SentInOrder, all
  <2>2. Len(wire \o rest) = Len(wire) + Len(rest)
    BY <1>8, ConcatProperties
  <2>3. Len(rest) \in Nat
    OBVIOUS
  <2>4. QED
    BY <1>8, <2>1, <2>2, <2>3
<1>10. ring.len \in 0 .. RingMax /\ Len(all) - Len(wire) \in 0 .. ring.len
  <2>1. ring.len = Len(some)
    BY <1>1, <1>6
  <2>2. ring.len \in Nat /\ ring.len = Len(all) - Len(from) /\ Len(all) \in Nat
    BY <1>1, <1>6, <2>1
  <2>3. QED
    BY <1>2, <1>6, <1>8, <1>9, <2>2
<1>11. ~sending => ring.len = 0
  <2>1. ASSUME ~sending PROVE ring.len = 0
    <3>1. wire = from /\ wire = all
      BY <1>1, <1>4, <2>1 DEF Out, SentInOrder, all
    <3>2. QED
      BY <1>1, <1>6, <3>1
  <2>2. QED
    BY <2>1
<1>12. QED
  BY <1>10, <1>11 DEF RingIsBounded, all
=============================================================================
