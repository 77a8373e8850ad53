----------------------------- MODULE ThHttpProofs -----------------------------
(***************************************************************************)
(* For every length of buffers, heads and bodies: what ThHttp's runs check *)
(* on small ones.  The strengthening says, for each place in the reading   *)
(* of a request, what the three counters of th_http.c and the length of    *)
(* the recv under way have to do with the request that is being sent.      *)
(***************************************************************************)
EXTENDS ThHttp, TLAPS

(* Nothing has been moved out of the buffer before the end of the head.    *)
NothingMoved == ~inBody => shift = 0

(* Reading: the rest of the buffer is asked for until the head is          *)
(* complete, then exactly the rest of the request.                         *)
Reading ==
  stage = "reading" =>
    /\ bodyAt = 0 - 1
    /\ ~close
    /\ IF inBody
       THEN /\ parsed + shift = head
            /\ recv.exact
            /\ recv.len = head + body - Received /\ recv.len > 0
            /\ ~short => read + recv.len <= size
            /\ head <= LargeLen \/ head <= largest
       ELSE /\ read <= size
            /\ ~short => read < size
            /\ recv.len = size - read /\ ~recv.exact

(* Writing: what was decided about the connection, and what was read.      *)
Writing ==
  stage = "writing" =>
    /\ upgrade => ~close
    /\ says = "close" => close
    /\ ~close => Received = head + body \/ early \/ ahead
    /\ ~close /\ ~short => size > 0

Unborn ==
  stage = "unborn" =>
    /\ ~close
    /\ bodyAt = 0 - 1
    /\ size = 0 /\ read = 0 /\ parsed = 0 /\ shift = 0
    /\ ~inBody

(* The buffer never grows but to LargeLen or for a body.                   *)
SizeBounded == size <= LargeLen \/ size <= largest

(* HeadBounded, with the particular bound.                                 *)
HandledFits == bodyAt >= 0 => head <= LargeLen \/ head <= largest

IInv ==
  /\ TypeOK
  /\ NothingMoved
  /\ Reading
  /\ Writing
  /\ Unborn
  /\ SizeBounded
  /\ HandledFits
  /\ BodyIsRequests
  /\ InSync

-----------------------------------------------------------------------------
(* What a recv asks for.                                                   *)
LEMMA Asked ==
  ASSUME NEW l \in Nat, NEW x \in BOOLEAN, NEW r, r = [len |-> l, exact |-> x]
  PROVE  r \in [len : Nat, exact : BOOLEAN] /\ r.len = l /\ r.exact = x
OBVIOUS

LEMMA InitInv == Init => IInv
<1> SUFFICES ASSUME Init PROVE IInv
  OBVIOUS
<1>1. NoRecv \in [len : Nat, exact : BOOLEAN]
  BY Asked DEF NoRecv
<1>2. TypeOK
  <2>1. /\ stage \in {"unborn", "reading", "writing", "upgraded", "ended"}
        /\ says \in {"nothing", "close", "keep-alive", "upgrade"}
        /\ recv \in [len : Nat, exact : BOOLEAN]
        /\ head \in Heads /\ body \in Bodies
    BY <1>1 DEF Init
  <2>2. /\ close \in BOOLEAN /\ upgrade \in BOOLEAN /\ inBody \in BOOLEAN
        /\ short \in BOOLEAN /\ early \in BOOLEAN /\ ahead \in BOOLEAN /\ skew \in BOOLEAN
    BY DEF Init
  <2>3. /\ size \in Nat /\ read \in Nat /\ parsed \in 0 .. read /\ shift \in Nat
        /\ bodyAt \in Nat \cup {0 - 1}
        /\ largest \in Nat
    BY DEF Init
  <2>4. QED
    BY <2>1, <2>2, <2>3 DEF TypeOK
<1>3. QED
  BY <1>2, HttpAssumption
     DEF Init, IInv, NothingMoved, Reading, Writing, Unborn, SizeBounded, HandledFits,
         BodyIsRequests, InSync

(* Bytes have arrived: how many there are then, in each half of a request. *)
LEMMA Arrived ==
  ASSUME IInv, NEW n, Arrive(n)
  PROVE  /\ n \in Nat \ {0}
         /\ stage = "reading"
         /\ ~inBody => shift = 0 /\ read + n <= size
         /\ inBody => n = head + body - Received
         /\ Content \in Nat
         /\ HeadComplete(n) => Content + shift = head
         /\ HeadComplete(n) => head <= LargeLen \/ head <= largest
         /\ HeadComplete(n) => Content <= read + n
         /\ inBody => Complete(n)
<1> USE DEF IInv, TypeOK, Received, NothingMoved, Reading, Arrive
<1>1. stage = "reading" /\ n \in Nat \ {0}
  OBVIOUS
<1>2. head \in Nat /\ body \in Nat /\ LargeLen \in Nat
  BY HttpAssumption
<1>3. CASE inBody
  BY <1>1, <1>2, <1>3 DEF Content, HeadComplete, Complete
<1>4. CASE ~inBody
  BY <1>1, <1>2, <1>4 DEF Content, HeadComplete, Complete, SizeBounded
<1>5. QED
  BY <1>3, <1>4

(* Whatever the request is answered with: the response is being written,   *)
(* with a promise that is kept, or the connection is gone.                 *)
LEMMA Answered ==
  ASSUME TypeOK, ~close, Handle
  PROVE  /\ stage' \in {"writing", "ended"}
         /\ recv' = NoRecv
         /\ close' \in BOOLEAN /\ upgrade' \in BOOLEAN
         /\ says' \in {"nothing", "close", "keep-alive", "upgrade"}
         /\ stage' = "writing" => (upgrade' => ~close') /\ (says' = "close" => close')
<1>1. ASSUME NEW u \in BOOLEAN, NEW last \in BOOLEAN,
             NEW t \in {"nothing", "close", "keep-alive", "upgrade"},
             u => ~last, t = "close" => last, Write(u, last, t)
      PROVE  /\ stage' \in {"writing", "ended"}
             /\ recv' = NoRecv
             /\ close' \in BOOLEAN /\ upgrade' \in BOOLEAN
             /\ says' \in {"nothing", "close", "keep-alive", "upgrade"}
             /\ stage' = "writing" => (upgrade' => ~close') /\ (says' = "close" => close')
  <2>1. CASE Destroy
    BY <2>1 DEF Destroy, TypeOK
  <2>2. CASE ~Destroy
    BY <2>2, <1>1 DEF Write
  <2>3. QED
    BY <2>1, <2>2
<1>2. Refuse => Write(FALSE, FALSE, "nothing")
  BY DEF Refuse, TypeOK
<1>3. CASE Refuse
  BY <1>1, <1>2, <1>3
<1>4. CASE FailServer
  BY <1>1, <1>4 DEF FailServer
<1>5. CASE Write(TRUE, close, "upgrade")
  BY <1>1, <1>5 DEF TypeOK
<1>6. CASE Write(FALSE, TRUE, "close")
  BY <1>1, <1>6
<1>7. CASE Write(FALSE, close, "keep-alive")
  BY <1>1, <1>7 DEF TypeOK
<1>8. QED
  BY <1>3, <1>4, <1>5, <1>6, <1>7 DEF Handle

LEMMA RefusedIsAnswered == Refuse => Handle
BY DEF Handle

LEMMA FailedIsAnswered == FailServer => Handle
BY DEF Handle

LEMMA Resized ==
  ASSUME TypeOK, NEW n \in Nat, Resize(n)
  PROVE  /\ size' \in Nat /\ short' \in BOOLEAN
         /\ size' = n \/ (size' = size /\ n > size /\ short')
         /\ short => short'
BY DEF TypeOK, Resize

(* The constants, and the request under way, are numbers.                  *)
LEMMA Numbers ==
  ASSUME TypeOK
  PROVE  /\ SmallLen \in Nat \ {0} /\ LargeLen \in Nat /\ SmallLen <= LargeLen
         /\ Heads \subseteq Nat \ {0} /\ Bodies \subseteq Nat
         /\ head \in Nat \ {0} /\ body \in Nat
         /\ read \in Nat /\ shift \in Nat /\ parsed \in 0 .. read /\ size \in Nat
         /\ largest \in Nat
         /\ bodyAt \in Nat \union {0 - 1}
         /\ NoRecv \in [len : Nat, exact : BOOLEAN]
BY HttpAssumption, Asked DEF TypeOK, NoRecv

(* The parts of the invariant that concern a connection that reads or is   *)
(* not started are nothing to one that is neither.                         *)
LEMMA AnsweredInv ==
  ASSUME IInv, TypeOK', stage' \in {"writing", "ended"},
         Writing', NothingMoved', SizeBounded', HandledFits', BodyIsRequests', InSync'
  PROVE  IInv'
BY DEF IInv, Reading, Unborn

LEMMA StartInv == IInv /\ Start => IInv'
<1> SUFFICES ASSUME IInv, Start PROVE IInv'
  OBVIOUS
<1>1. /\ TypeOK /\ Unborn /\ SizeBounded /\ InSync /\ NothingMoved
      /\ ~close /\ bodyAt = 0 - 1 /\ ~inBody
      /\ size = 0 /\ read = 0 /\ parsed = 0 /\ shift = 0
  BY DEF IInv, Unborn, Start
<1>2. UNCHANGED <<read, parsed, inBody, shift, head, body, bodyAt, largest, early, ahead, skew>>
  BY DEF Start, request
<1>3. CASE AllocFails /\ Destroy /\ UNCHANGED <<size, short>>
  BY <1>1, <1>2, <1>3, Numbers
     DEF Destroy, IInv, TypeOK, NothingMoved, Reading, Writing, Unborn, SizeBounded,
         HandledFits, BodyIsRequests, InSync
<1>4. CASE FailServer /\ UNCHANGED <<size, short>>
  <2>1. /\ stage' \in {"writing", "ended"} /\ recv' = NoRecv
        /\ stage' = "writing" => close' /\ ~upgrade'
        /\ close' \in BOOLEAN /\ upgrade' \in BOOLEAN
        /\ says' \in {"nothing", "close", "keep-alive", "upgrade"}
    BY <1>1, <1>4 DEF FailServer, Write, Destroy, TypeOK
  <2>2. QED
    BY <1>1, <1>2, <1>4, <2>1, Numbers
       DEF IInv, TypeOK, NothingMoved, Reading, Writing, Unborn, SizeBounded,
           HandledFits, BodyIsRequests, InSync
<1>5. CASE /\ Resize(SmallLen)
           /\ stage' = "reading"
           /\ recv' = [len |-> size', exact |-> FALSE]
           /\ UNCHANGED <<close, upgrade, says>>
  <2>1. /\ size' \in Nat /\ short' \in BOOLEAN
        /\ size' = SmallLen \/ (size' = 0 /\ short')
    BY <1>1, <1>5, Numbers, Resized
  <2>2. recv' \in [len : Nat, exact : BOOLEAN] /\ recv'.len = size' /\ ~recv'.exact
    BY <1>5, <2>1, Asked
  <2>3. TypeOK'
    BY <1>1, <1>2, <1>5, <2>1, <2>2, Numbers DEF TypeOK
  <2>4. Reading'
    <3>1. bodyAt' = 0 - 1 /\ ~close' /\ ~inBody'
      BY <1>1, <1>2, <1>5
    <3>2. read' = 0 /\ read' \in Nat
      BY <1>1, <1>2
    <3>3. size' \in Nat /\ recv'.len = size'
      BY <2>1, <2>2, Zenon
    <3>4. ~short' => read' < size'
      BY <1>1, <2>1, <3>2, Numbers
    <3>5. read' <= size' /\ size' - read' = size'
      <4>1. \A a, b \in Nat : b = 0 => b <= a /\ a - b = a
        OBVIOUS
      <4>2. QED
        BY <3>2, <3>3, <4>1, Zenon
    <3>6. QED
      BY <2>2, <3>1, <3>3, <3>4, <3>5, Zenon DEF Reading
  <2>5. QED
    BY <1>1, <1>2, <1>5, <2>1, <2>3, <2>4, Numbers
       DEF IInv, NothingMoved, Writing, Unborn, SizeBounded, HandledFits,
           BodyIsRequests, InSync
<1>6. QED
  BY <1>3, <1>4, <1>5 DEF Start

(* What the arrival of n bytes means for the history.                      *)
LEMMA ArrivedAhead ==
  ASSUME IInv, NEW n, Arrive(n)
  PROVE  /\ ahead' \in BOOLEAN
         /\ ahead => ahead'
         /\ Received + n > head + body => ahead'
<1>1. ahead' = (ahead \/ Received + n > head + body)
  BY DEF Arrive
<1>2. ahead' \in BOOLEAN
  BY <1>1, Zenon DEF IInv, TypeOK
<1>3. (ahead => ahead') /\ (Received + n > head + body => ahead')
  BY <1>1, Zenon
<1>4. QED
  BY <1>2, <1>3

(* A connection that is given up.                                          *)
LEMMA EndInv ==
  ASSUME IInv, Destroy,
         UNCHANGED <<size, read, parsed, inBody, shift, request, bodyAt, history>>
  PROVE  IInv'
BY Numbers
   DEF Destroy, request, history, IInv, TypeOK, NothingMoved, Reading, Writing, Unborn,
       SizeBounded, HandledFits, BodyIsRequests, InSync

(* A request that is refused before it was read.                           *)
LEMMA RefuseInv ==
  ASSUME IInv, stage = "reading", Refuse, early', early' \in BOOLEAN,
         NEW n \in Nat, read' = read + n,
         parsed' \in 0 .. read', inBody' \in BOOLEAN, inBody => inBody',
         ahead' \in BOOLEAN,
         UNCHANGED <<size, shift, request, bodyAt, largest, short, skew>>
  PROVE  IInv'
<1>1. /\ TypeOK /\ ~close /\ bodyAt = 0 - 1 /\ SizeBounded /\ NothingMoved
      /\ ~short => size > 0
  <2>1. TypeOK /\ ~close /\ bodyAt = 0 - 1 /\ SizeBounded /\ NothingMoved
    BY DEF IInv, Reading
  <2>2. ~short => size > 0
    BY <2>1, Numbers DEF IInv, Reading, Received
  <2>3. QED
    BY <2>1, <2>2
<1>2. /\ stage' \in {"writing", "ended"} /\ recv' = NoRecv
      /\ close' \in BOOLEAN /\ upgrade' \in BOOLEAN
      /\ says' \in {"nothing", "close", "keep-alive", "upgrade"}
      /\ stage' = "writing" => (upgrade' => ~close') /\ (says' = "close" => close')
  BY <1>1, Answered, RefusedIsAnswered
<1>3. TypeOK'
  BY <1>1, <1>2, Numbers DEF TypeOK, request
<1>4. Writing'
  BY <1>1, <1>2, Numbers DEF Writing
<1>5. NothingMoved' /\ SizeBounded' /\ HandledFits' /\ BodyIsRequests' /\ InSync'
  BY <1>1, Numbers
     DEF NothingMoved, SizeBounded, HandledFits, BodyIsRequests, InSync
<1>6. QED
  BY <1>2, <1>3, <1>4, <1>5, AnsweredInv

LEMMA ReadBadInv == ASSUME IInv, NEW n, ReadBad(n) PROVE IInv'
<1>1. n \in Nat /\ stage = "reading" /\ ahead' \in BOOLEAN
  BY Arrived, ArrivedAhead DEF ReadBad
<1>2. parsed' \in 0 .. read' /\ inBody' \in BOOLEAN /\ (inBody => inBody')
  BY <1>1, Numbers DEF ReadBad, IInv, TypeOK
<1>3. QED
  BY <1>1, <1>2, RefuseInv DEF ReadBad

LEMMA ReadTooLargeInv == ASSUME IInv, NEW n, ReadTooLarge(n) PROVE IInv'
<1>1. n \in Nat /\ stage = "reading" /\ ahead' \in BOOLEAN
  BY Arrived, ArrivedAhead DEF ReadTooLarge
<1>2. parsed' \in 0 .. read' /\ inBody'
  BY <1>1, Arrived DEF ReadTooLarge
<1>3. QED
  BY <1>1, <1>2, RefuseInv DEF ReadTooLarge

(* The request is complete: the body is where the handler is told it is.   *)
LEMMA ReadAllInv == ASSUME IInv, NEW n, ReadAll(n) PROVE IInv'
<1>1. /\ n \in Nat \ {0} /\ stage = "reading"
      /\ Content \in Nat /\ Content + shift = head /\ Content <= read + n
      /\ head <= LargeLen \/ head <= largest
      /\ read + n + shift >= head + body
  <2>1. Arrive(n) /\ HeadComplete(n) /\ Received + n >= head + body
    BY DEF ReadAll, Complete
  <2>2. n \in Nat \ {0} /\ TypeOK
    BY <2>1, Arrived DEF IInv
  <2>3. read + n + shift >= head + body
    BY <2>1, <2>2, Numbers DEF Received
  <2>4. QED
    BY <2>1, <2>2, <2>3, Arrived
<1>2. /\ TypeOK /\ ~close /\ SizeBounded /\ NothingMoved /\ InSync
      /\ ~short => size > 0
  <2>1. TypeOK /\ ~close /\ SizeBounded /\ NothingMoved /\ InSync
    BY <1>1 DEF IInv, Reading
  <2>2. ~short => size > 0
    BY <1>1, <2>1, Numbers DEF IInv, Reading, Received
  <2>3. QED
    BY <2>1, <2>2
<1>3. /\ read' = read + n /\ bodyAt' = Content
      /\ ahead' \in BOOLEAN /\ (ahead => ahead')
      /\ read + n + shift > head + body => ahead'
      /\ UNCHANGED <<size, parsed, inBody, shift, head, body, largest, short, early, skew>>
  <2>1. Received + n = read + n + shift
    BY <1>1, <1>2, Numbers DEF Received
  <2>2. QED
    BY <2>1, ArrivedAhead DEF ReadAll, request
<1>4. /\ stage' \in {"writing", "ended"} /\ recv' = NoRecv
      /\ close' \in BOOLEAN /\ upgrade' \in BOOLEAN
      /\ says' \in {"nothing", "close", "keep-alive", "upgrade"}
      /\ stage' = "writing" => (upgrade' => ~close') /\ (says' = "close" => close')
  BY <1>2, Answered DEF ReadAll
<1>5. TypeOK'
  BY <1>1, <1>2, <1>3, <1>4, Numbers DEF TypeOK
<1>6. Writing'
  BY <1>1, <1>2, <1>3, <1>4, Numbers DEF Writing, Received
<1>7. NothingMoved' /\ SizeBounded' /\ HandledFits' /\ BodyIsRequests' /\ InSync'
  BY <1>1, <1>2, <1>3, Numbers
     DEF NothingMoved, SizeBounded, HandledFits, BodyIsRequests, InSync, TypeOK
<1>8. QED
  BY <1>4, <1>5, <1>6, <1>7, AnsweredInv

(* The end of the head has not come.                                       *)
LEMMA ReadHeadInv == ASSUME IInv, NEW n, ReadHead(n) PROVE IInv'
<1>1. /\ n \in Nat \ {0} /\ stage = "reading" /\ ~inBody
      /\ shift = 0 /\ read + n <= size
  BY Arrived DEF ReadHead, HeadComplete
<1>2. /\ read' = read + n /\ parsed' \in parsed .. read'
      /\ UNCHANGED <<inBody, shift, request, bodyAt, largest, skew>>
      /\ ahead' \in BOOLEAN /\ (ahead => ahead')
  BY ArrivedAhead DEF ReadHead
<1>3. TypeOK /\ ~close /\ bodyAt = 0 - 1 /\ SizeBounded /\ InSync
  BY <1>1 DEF IInv, Reading
<1>4. parsed' \in 0 .. read'
  BY <1>1, <1>2, <1>3, Numbers
<1>5. CASE Refuse /\ early' = TRUE /\ UNCHANGED <<size, short>>
  <2>1. inBody' \in BOOLEAN /\ (inBody => inBody')
    BY <1>2, <1>3 DEF TypeOK
  <2>2. QED
    BY <1>1, <1>2, <1>4, <1>5, <2>1, RefuseInv
<1>6. CASE /\ ~(read' = size /\ size >= LargeLen)
           /\ IF read' = size THEN Resize(LargeLen) ELSE UNCHANGED <<size, short>>
           /\ recv' = [len |-> size' - read', exact |-> FALSE]
           /\ UNCHANGED <<stage, close, upgrade, says, early>>
  <2>1. /\ size' \in Nat /\ short' \in BOOLEAN /\ (short => short')
        /\ read' <= size' /\ (~short' => read' < size')
        /\ size' = size \/ size' = LargeLen
    <3>1. CASE read' = size
      BY <3>1, <1>1, <1>2, <1>3, <1>6, Numbers, Resized
    <3>2. CASE read' # size
      BY <3>2, <1>1, <1>2, <1>3, <1>6, Numbers DEF TypeOK
    <3>3. QED
      BY <3>1, <3>2
  <2> size' - read' \in Nat /\ read' \in Nat
    BY <1>1, <1>2, <1>3, <2>1, Numbers
  <2>2. recv' \in [len : Nat, exact : BOOLEAN] /\ recv'.len = size' - read' /\ ~recv'.exact
    BY <1>6, <2>1, Asked
  <2>3. TypeOK'
    <3>1. /\ stage' \in {"unborn", "reading", "writing", "upgraded", "ended"}
          /\ says' \in {"nothing", "close", "keep-alive", "upgrade"}
          /\ head' \in Heads /\ body' \in Bodies
          /\ bodyAt' \in Nat \cup {0 - 1} /\ largest' \in Nat /\ shift' \in Nat
      BY <1>2, <1>3, <1>6 DEF TypeOK, request
    <3>2. /\ close' \in BOOLEAN /\ upgrade' \in BOOLEAN /\ inBody' \in BOOLEAN
          /\ early' \in BOOLEAN /\ skew' \in BOOLEAN
      BY <1>2, <1>3, <1>6 DEF TypeOK
    <3>3. /\ size' \in Nat /\ read' \in Nat /\ parsed' \in 0 .. read'
          /\ short' \in BOOLEAN /\ ahead' \in BOOLEAN
      BY <1>2, <1>4, <2>1, Zenon
    <3>4. QED
      BY <2>2, <3>1, <3>2, <3>3 DEF TypeOK
  <2>4. Reading' /\ Writing' /\ Unborn'
    BY <1>1, <1>2, <1>3, <1>6, <2>1, <2>2 DEF Reading, Writing, Unborn
  <2>5. NothingMoved' /\ SizeBounded' /\ HandledFits' /\ BodyIsRequests' /\ InSync'
    BY <1>1, <1>2, <1>3, <1>6, <2>1, Numbers
       DEF NothingMoved, SizeBounded, HandledFits, BodyIsRequests, InSync
  <2>6. QED
    BY <2>2, <2>3, <2>4, <2>5 DEF IInv
<1>7. QED
  BY <1>5, <1>6 DEF ReadHead

(* The head is complete and the body is not: the rest of it has room where *)
(* it is, or at the front.                                                 *)
LEMMA ReadBodyInv == ASSUME IInv, NEW n, ReadBody(n) PROVE IInv'
<1>1. /\ n \in Nat \ {0} /\ stage = "reading" /\ ~inBody
      /\ shift = 0 /\ read + n <= size
      /\ Content = head /\ head <= read + n /\ read + n < head + body
      /\ head <= LargeLen \/ head <= largest
  BY Arrived, Numbers
     DEF ReadBody, HeadComplete, Complete, Content, Received, IInv, TypeOK
<1>2. /\ inBody' = TRUE
      /\ recv' = [len |-> body - (read + n - head), exact |-> TRUE]
      /\ UNCHANGED <<stage, close, upgrade, head, body, bodyAt, says, early, skew>>
      /\ ahead' \in BOOLEAN /\ (ahead => ahead')
  BY <1>1, ArrivedAhead DEF ReadBody, request
<1>3. TypeOK /\ ~close /\ bodyAt = 0 - 1 /\ SizeBounded /\ InSync
  BY <1>1 DEF IInv, Reading
<1> body - (read + n - head) \in Nat \ {0}
  BY <1>1, <1>3, Numbers
<1>9. /\ recv' \in [len : Nat, exact : BOOLEAN]
      /\ recv'.len = body - (read + n - head) /\ recv'.exact
  BY <1>2, Asked
<1>4. CASE NoRoom /\ Move(n)
  <2>1. /\ read' = read + n - head /\ parsed' = 0 /\ shift' = head
        /\ size' \in Nat /\ short' \in BOOLEAN
        /\ ~short' => body <= size'
        /\ largest' \in Nat
        /\ size' <= LargeLen \/ size' <= largest'
        /\ head <= LargeLen \/ head <= largest'
    <3>1. CASE body > size
      BY <3>1, <1>1, <1>3, <1>4, Numbers, Resized DEF Move, SizeBounded
    <3>2. CASE ~(body > size)
      BY <3>2, <1>1, <1>3, <1>4, Numbers DEF Move, SizeBounded, TypeOK
    <3>3. QED
      BY <3>1, <3>2
  <2>2. TypeOK'
    BY <1>1, <1>2, <1>3, <1>9, <2>1, Numbers DEF TypeOK
  <2>3. Reading'
    BY <1>1, <1>2, <1>3, <1>9, <2>1, Numbers DEF Reading, Received
  <2>4. Writing' /\ Unborn'
    BY <1>1, <1>2 DEF Writing, Unborn
  <2>5. NothingMoved' /\ SizeBounded' /\ HandledFits' /\ BodyIsRequests' /\ InSync'
    BY <1>1, <1>2, <1>3, <2>1, Numbers
       DEF NothingMoved, SizeBounded, HandledFits, BodyIsRequests, InSync
  <2>6. QED
    BY <2>2, <2>3, <2>4, <2>5 DEF IInv
<1>5. CASE /\ ~NoRoom
           /\ read' = read + n
           /\ parsed' = Content
           /\ UNCHANGED <<shift, size, short, largest>>
  <2>1. head + body <= size
    BY <1>1, <1>5, Numbers, <1>3 DEF NoRoom
  <2>2. TypeOK'
    BY <1>1, <1>2, <1>3, <1>9, <1>5, Numbers DEF TypeOK
  <2>3. Reading'
    BY <1>1, <1>2, <1>3, <1>9, <1>5, <2>1, Numbers DEF Reading, Received
  <2>4. Writing' /\ Unborn'
    BY <1>1, <1>2 DEF Writing, Unborn
  <2>5. NothingMoved' /\ SizeBounded' /\ HandledFits' /\ BodyIsRequests' /\ InSync'
    BY <1>1, <1>2, <1>3, <1>5, Numbers
       DEF NothingMoved, SizeBounded, HandledFits, BodyIsRequests, InSync
  <2>6. QED
    BY <2>2, <2>3, <2>4, <2>5 DEF IInv
<1>6. QED
  BY <1>4, <1>5 DEF ReadBody

LEMMA WrittenInv == IInv /\ Written => IInv'
<1> SUFFICES ASSUME IInv, Written PROVE IInv'
  OBVIOUS
<1>1. CASE close
  BY <1>1, EndInv DEF Written
<1>2. CASE ~close
  <2>1. Restart(Received) /\ stage = "writing"
    BY <1>2 DEF Written
  <2>2. /\ TypeOK /\ SizeBounded /\ InSync
        /\ Received = head + body \/ early \/ ahead
        /\ ~short => size > 0
    BY <1>2, <2>1 DEF IInv, Writing
  <2>3. /\ stage' = "reading"
        /\ recv' = [len |-> size, exact |-> FALSE]
        /\ read' = 0 /\ parsed' = 0 /\ shift' = 0
        /\ inBody' = FALSE
        /\ bodyAt' = 0 - 1
        /\ says' = "nothing"
        /\ head' \in Heads /\ body' \in Bodies
        /\ UNCHANGED <<close, upgrade, size, largest, short, early, ahead>>
    BY <2>1 DEF Restart
  <2>4. skew' \in BOOLEAN /\ InSync'
    <3>1. skew' = (skew \/ Received # head + body)
      BY <2>1 DEF Restart
    <3>2. skew' \in BOOLEAN
      BY <3>1, <2>2, Zenon DEF TypeOK
    <3>3. skew' => skew \/ Received # head + body
      BY <3>1, Zenon
    <3>4. QED
      BY <2>2, <2>3, <3>2, <3>3 DEF InSync
  <2> recv' \in [len : Nat, exact : BOOLEAN] /\ recv'.len = size /\ ~recv'.exact
    BY <2>2, <2>3, Numbers, Asked
  <2>5. TypeOK'
    <3>1. /\ stage' \in {"unborn", "reading", "writing", "upgraded", "ended"}
          /\ says' \in {"nothing", "close", "keep-alive", "upgrade"}
          /\ bodyAt' \in Nat \cup {0 - 1} /\ size' \in Nat /\ largest' \in Nat
          /\ read' \in Nat /\ parsed' \in 0 .. read' /\ shift' \in Nat
      BY <2>2, <2>3 DEF TypeOK
    <3>2. /\ close' \in BOOLEAN /\ upgrade' \in BOOLEAN /\ inBody' \in BOOLEAN
          /\ short' \in BOOLEAN /\ early' \in BOOLEAN /\ ahead' \in BOOLEAN
      BY <2>2, <2>3 DEF TypeOK
    <3>3. QED
      BY <2>3, <2>4, <3>1, <3>2 DEF TypeOK
  <2>6. Reading'
    BY <1>2, <2>2, <2>3, Numbers DEF Reading
  <2>7. Writing' /\ Unborn' /\ NothingMoved'
    BY <2>3 DEF Writing, Unborn, NothingMoved
  <2>8. SizeBounded' /\ HandledFits' /\ BodyIsRequests'
    BY <2>2, <2>3, Numbers DEF SizeBounded, HandledFits, BodyIsRequests
  <2>9. QED
    BY <2>4, <2>5, <2>6, <2>7, <2>8 DEF IInv
<1>3. QED
  BY <1>1, <1>2

LEMMA UpgradeInv == IInv /\ UpgradeWritten => IInv'
<1> SUFFICES ASSUME IInv, UpgradeWritten PROVE IInv'
  OBVIOUS
<1>1. CASE AllocFails /\ Destroy
  BY <1>1, EndInv DEF UpgradeWritten
<1>2. CASE stage' = "upgraded" /\ UNCHANGED <<close, upgrade, says, recv>>
  BY <1>2
     DEF UpgradeWritten, request, history, IInv, TypeOK, NothingMoved, Reading, Writing,
         Unborn, SizeBounded, HandledFits, BodyIsRequests, InSync
<1>3. QED
  BY <1>1, <1>2 DEF UpgradeWritten

LEMMA StepInv == IInv /\ [Next]_vars => IInv'
<1> SUFFICES ASSUME IInv, [Next]_vars PROVE IInv'
  OBVIOUS
<1>1. CASE UNCHANGED vars
  BY <1>1
     DEF vars, buffer, request, history, IInv, TypeOK, NothingMoved, Reading, Writing,
         Unborn, SizeBounded, HandledFits, BodyIsRequests, InSync, Received
<1>2. CASE Start
  BY <1>2, StartInv
<1>3. CASE ReadFails \/ WriteFails
  BY <1>3, EndInv DEF ReadFails, WriteFails
<1>4. ASSUME NEW n,
             ReadBad(n) \/ ReadAll(n) \/ ReadHead(n) \/ ReadTooLarge(n) \/ ReadBody(n)
      PROVE  IInv'
  BY <1>4, ReadBadInv, ReadAllInv, ReadHeadInv, ReadTooLargeInv, ReadBodyInv
<1>5. CASE Written \/ UpgradeWritten
  BY <1>5, WrittenInv, UpgradeInv
<1>6. QED
  BY <1>1, <1>2, <1>3, <1>4, <1>5 DEF Next

LEMMA Invariance == Spec => []IInv
BY InitInv, StepInv, PTL DEF Spec

-----------------------------------------------------------------------------
(* What every behaviour of the code has for all lengths: see the           *)
(* properties in ThHttp for the behaviour of th_http.c they are about.     *)

(* The counters of th_http.c are lengths, parsed_bytes never passes        *)
(* read_bytes.                                                             *)
THEOREM TypeCorrect == Spec => []TypeOK
BY Invariance, PTL DEF IInv

(* recv is never asked for nothing, or for more than the buffer has room   *)
(* for, as long as the buffer could be grown.                              *)
THEOREM RecvFits == Spec => []RecvInBuffer
<1>1. IInv => RecvInBuffer
  BY Numbers DEF IInv, RecvInBuffer, Reading
<1>2. QED
  BY <1>1, Invariance, PTL

(* The handler is given the request's own body, all of it, wherever it was *)
(* moved.                                                                  *)
THEOREM HandlerSeesBody == Spec => []BodyIsRequests
BY Invariance, PTL DEF IInv

(* Heads longer than TH_CONFIG_LARGE_HEADER_LEN are refused on every       *)
(* connection that has not read a larger body before.                      *)
THEOREM HeadLimit == Spec => []HeadBounded
<1>1. IInv => HeadBounded
  BY Numbers DEF IInv, HeadBounded, HandledFits
<1>2. QED
  BY <1>1, Invariance, PTL

(* Requests are read from their first byte on, but for clients that send   *)
(* ahead and after a refusal.                                              *)
THEOREM StaysInSync == Spec => []InSync
BY Invariance, PTL DEF IInv

(* A client that was told the connection closes is not read from again.    *)
THEOREM KeepsPromises == Spec => SaysWhatItDoes
<1>1. IInv /\ [Next]_vars
        => [stage = "writing" /\ says = "close" => stage' # "reading"]_vars
  <2> SUFFICES ASSUME IInv, Next, stage = "writing", says = "close"
               PROVE  stage' # "reading"
    OBVIOUS
  <2>1. close
    BY DEF IInv, Writing
  <2>2. QED
    BY <2>1
       DEF Next, Start, ReadFails, ReadBad, ReadAll, ReadHead, ReadTooLarge, ReadBody,
           Arrive, WriteFails, Written, UpgradeWritten, Destroy
<1>2. QED
  BY <1>1, Invariance, PTL DEF Spec, SaysWhatItDoes

(* The HTTP protocol does with its connection what the listener may expect *)
(* of it: every step is one of ThSession's or leaves its state alone.      *)
THEOREM ImplementsSession == Spec => SessionSpec
<1>1. Init => Session!Init
  BY DEF Init, Session!Init
<1>2. IInv /\ [Next]_vars => [Session!Next]_(Session!vars)
  <2> SUFFICES ASSUME IInv, [Next]_vars
               PROVE  Session!Next \/ UNCHANGED <<stage, close>>
    BY DEF Session!vars
  <2> USE DEF Session!Next, Session!Begin, Session!Reject, Session!Answer,
              Session!Again, Session!HandOver, Session!End
  <2>1. CASE UNCHANGED vars
    BY <2>1 DEF vars
  <2>2. CASE Start
    BY <2>2 DEF Start, FailServer, Write, Destroy
  <2>3. CASE ReadFails \/ WriteFails
    BY <2>3 DEF ReadFails, WriteFails, Destroy
  <2>4. ASSUME NEW n, stage = "reading", Handle PROVE Session!Next
    BY <2>4, Answered DEF IInv, Reading, Handle, FailServer, Refuse, Write, Destroy
  <2>5. ASSUME NEW n, ReadBad(n) \/ ReadAll(n) \/ ReadTooLarge(n) PROVE Session!Next
    BY <2>4, <2>5, RefusedIsAnswered DEF ReadBad, ReadAll, ReadTooLarge, Arrive
  <2>6. ASSUME NEW n, ReadHead(n) PROVE Session!Next \/ UNCHANGED <<stage, close>>
    BY <2>4, <2>6, RefusedIsAnswered DEF ReadHead, Arrive
  <2>7. ASSUME NEW n, ReadBody(n) PROVE UNCHANGED <<stage, close>>
    BY <2>7 DEF ReadBody
  <2>8. CASE Written
    BY <2>8 DEF Written, Destroy, Restart
  <2>9. CASE UpgradeWritten
    BY <2>9 DEF UpgradeWritten, Destroy, IInv, Writing
  <2>10. QED
    BY <2>1, <2>2, <2>3, <2>5, <2>6, <2>7, <2>8, <2>9 DEF Next
<1>3. QED
  BY <1>1, <1>2, Invariance, PTL DEF Spec, SessionSpec, Session!Spec
=============================================================================
