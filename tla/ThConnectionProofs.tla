------------------------- MODULE ThConnectionProofs -------------------------
(***************************************************************************)
(* For all routes, requests, handlers and pieces: what an exchange does    *)
(* with its connection is a session as a listener expects it.  For all     *)
(* frames, pieces, lengths and sizes of the ring: what a client reads, and *)
(* what ThWsDataProofs shows of the WebSocket that follows.                *)
(***************************************************************************)
EXTENDS ThConnection, ThWsDataProofs

(* A response has its fields, of which only the code matters here.         *)
Fields == {"headers", "body", "isFile", "file", "code", "onlyHeaders"}

Coded(resp) == resp = [f \in Fields |-> resp[f]]

(* The connection is not to be closed while a request is awaited, nor when *)
(* the answer hands it over to a WebSocket.                                *)
KeptOpen ==
  /\ stage \in {"unborn", "reading"} => ~close
  /\ stage = "writing" /\ Upgrading => ~close

SessionInv ==
  /\ Session!TypeOK
  /\ Coded(response)
  /\ KeptOpen

-----------------------------------------------------------------------------
(* What the operators of ThResponse leave of the code.                     *)

LEMMA EditsKeepCode ==
  ASSUME NEW resp, Coded(resp), NEW v
  PROVE  /\ Coded([resp EXCEPT !.headers = v]) /\ [resp EXCEPT !.headers = v].code = resp.code
         /\ Coded([resp EXCEPT !.body = v]) /\ [resp EXCEPT !.body = v].code = resp.code
         /\ Coded([resp EXCEPT !.isFile = v]) /\ [resp EXCEPT !.isFile = v].code = resp.code
         /\ Coded([resp EXCEPT !.file = v]) /\ [resp EXCEPT !.file = v].code = resp.code
         /\ Coded([resp EXCEPT !.onlyHeaders = v])
         /\ [resp EXCEPT !.onlyHeaders = v].code = resp.code
         /\ Coded([resp EXCEPT !.code = v]) /\ [resp EXCEPT !.code = v].code = v
<1>1. resp = [f \in Fields |-> resp[f]]
  BY DEF Coded
<1>2. ASSUME NEW g
      PROVE  [resp EXCEPT ![g] = v] = [f \in Fields |-> IF f = g THEN v ELSE resp[f]]
  BY <1>1
<1>3. QED
  BY <1>1, <1>2 DEF Coded, Fields

LEMMA AddHeaderKeepsCode ==
  ASSUME NEW resp, Coded(resp), NEW name, NEW value
  PROVE  /\ Coded(Resp!AddHeader(resp, name, value))
         /\ Resp!AddHeader(resp, name, value).code = resp.code
BY EditsKeepCode DEF Resp!AddHeader

LEMMA SetBodyKeepsCode ==
  ASSUME NEW resp, Coded(resp), NEW len
  PROVE  Coded(Resp!SetBody(resp, len)) /\ Resp!SetBody(resp, len).code = resp.code
<1> DEFINE one == [resp EXCEPT !.body = len]
           two == [one EXCEPT !.isFile = FALSE]
<1>1. Coded(one) /\ one.code = resp.code
  BY EditsKeepCode
<1>2. Coded(two) /\ two.code = one.code
  BY <1>1, EditsKeepCode
<1>3. Resp!SetBody(resp, len) = two
  BY DEF Resp!SetBody
<1>4. QED
  BY <1>1, <1>2, <1>3

LEMMA DefaultsKeepCode ==
  ASSUME NEW resp, Coded(resp)
  PROVE  Coded(Resp!WithDefaults(resp)) /\ Resp!WithDefaults(resp).code = resp.code
BY AddHeaderKeepsCode DEF Resp!WithDefaults

LEMMA NewIsCoded == Coded(Resp!NewResponse) /\ Resp!NewResponse.code = "200"
<1> DEFINE r == Resp!NewResponse
<1>1. r = [f \in Fields |-> r[f]]
  BY DEF Fields, Resp!NewResponse
<1>2. r.code = "200"
  BY DEF Resp!NewResponse
<1>3. QED
  BY <1>1, <1>2 DEF Coded

-----------------------------------------------------------------------------
(* What an answer does to the connection.                                  *)

LEMMA WriteKeepsCode ==
  ASSUME NEW resp, Coded(resp), Write(resp)
  PROVE  stage' = "writing" /\ Coded(response') /\ response'.code = resp.code
BY DefaultsKeepCode DEF Write

LEMMA ErrorWritten ==
  ASSUME NEW resp, Coded(resp), NEW code, WriteError(resp, code)
  PROVE  stage' = "writing" /\ Coded(response') /\ response'.code = code
<1> DEFINE coded == [resp EXCEPT !.code = code]
           filled == IF ~resp.isFile /\ resp.body = 0 THEN Resp!SetBody(coded, 2) ELSE coded
           sent == IF close' THEN Resp!AddHeader(filled, "Connection", 0) ELSE filled
<1>1. Coded(coded) /\ coded.code = code
  BY EditsKeepCode
<1> HIDE DEF coded
<1>2. Coded(filled) /\ filled.code = code
  BY <1>1, SetBodyKeepsCode
<1> HIDE DEF filled
<1>3. Coded(sent) /\ sent.code = code
  BY <1>2, AddHeaderKeepsCode
<1>4. Write(sent)
  BY DEF WriteError, coded, filled
<1> HIDE DEF sent
<1>5. QED
  BY <1>3, <1>4, WriteKeepsCode

(* The answer of a connection that is to be closed hands it over to none.  *)
Answered ==
  /\ stage' = "writing"
  /\ close' \in BOOLEAN
  /\ Coded(response')
  /\ response'.code = "101" => ~close'

LEMMA ErrorHandled ==
  ASSUME NEW resp, Coded(resp), NEW code, HandleError(resp, code)
  PROVE  /\ Answered \/ (code = "101" /\ close)
         /\ code = "503" => stage' = "writing" /\ close' = TRUE /\ Coded(response')
<1>1. close' = (close \/ code \in {"500", "503"})
  BY DEF HandleError
<1>2. stage' = "writing" /\ Coded(response') /\ response'.code = code
  BY ErrorWritten DEF HandleError
<1>3. QED
  BY <1>1, <1>2 DEF Answered

LEMMA UpgradeAnswered ==
  ASSUME NEW req, NEW resp, Coded(resp), close \in BOOLEAN, ~close, TryUpgrade(req, resp)
  PROVE  Answered
<1> DEFINE upgrade == Resp!AddHeader(resp, "Upgrade", 0)
           connection == Resp!AddHeader(upgrade, "Connection", 0)
           reply == Resp!AddHeader(connection, "Sec-WebSocket-Accept", 0)
<1>1. Coded(upgrade) /\ Coded(reply)
  BY AddHeaderKeepsCode
<1>2. \/ HandleError(upgrade, "426")
      \/ HandleError(Resp!NewResponse, "500")
      \/ Write(reply) /\ UNCHANGED close
  BY DEF TryUpgrade
<1> HIDE DEF upgrade, connection, reply
<1>3. CASE HandleError(upgrade, "426")
  BY <1>1, <1>3, ErrorHandled
<1>4. CASE HandleError(Resp!NewResponse, "500")
  BY <1>4, ErrorHandled, NewIsCoded
<1>5. CASE Write(reply) /\ UNCHANGED close
  BY <1>1, <1>5, WriteKeepsCode DEF Answered
<1>6. QED
  BY <1>2, <1>3, <1>4, <1>5

LEMMA ResponseAnswered ==
  ASSUME NEW req, NEW resp, Coded(resp), close \in BOOLEAN, ~close, Respond(req, resp)
  PROVE  Answered
<1>1. CASE resp.code = "101" /\ req.version = "HTTP/1.0"
  <2>1. HandleError(Resp!SetBody(resp, 3), "400")
    BY <1>1 DEF Respond
  <2>2. QED
    BY <2>1, SetBodyKeepsCode, ErrorHandled
<1>2. CASE resp.code = "101" /\ req.version # "HTTP/1.0"
  <2>1. TryUpgrade(req, resp)
    BY <1>2 DEF Respond
  <2>2. QED
    BY <2>1, UpgradeAnswered
<1>3. CASE resp.code \in {"400", "404", "405", "500"}
  <2>1. HandleError(resp, resp.code)
    BY <1>3 DEF Respond
  <2>2. QED
    BY <1>3, <2>1, ErrorHandled
<1>4. CASE resp.code \notin {"101", "400", "404", "405", "500"}
  <2>1. /\ close' = (close \/ req.close)
        /\ Write(Resp!AddHeader(resp, "Connection", 0))
    BY <1>4 DEF Respond
  <2>2. response'.code = resp.code /\ stage' = "writing" /\ Coded(response')
    BY <2>1, AddHeaderKeepsCode, WriteKeepsCode
  <2>3. QED
    BY <1>4, <2>1, <2>2 DEF Answered
<1>5. QED
  BY <1>1, <1>2, <1>3, <1>4

LEMMA RequestAnswered ==
  ASSUME NEW req, close \in BOOLEAN, ~close, HandleRequest(req)
  PROVE  Answered
<1> DEFINE asked == Prehandle(req)
           fresh == [Resp!NewResponse EXCEPT !.onlyHeaders = (req.method = "HEAD")]
           options == Resp!AddHeader(Resp!AddHeader(fresh, "Allow", Cardinality(Allowed(asked))),
                                     "Content-Type", 0)
<1>1. PICK resp \in Answers(asked, fresh, Chosen(asked)) : Respond(asked, resp)
  BY DEF HandleRequest
<1>2. Coded(fresh)
  BY NewIsCoded, EditsKeepCode
<1> HIDE DEF asked, fresh
<1>3. Coded(options)
  BY <1>2, AddHeaderKeepsCode
<1>4. ASSUME NEW set, NEW code PROVE Coded(Replied(fresh, set, code))
  <2> DEFINE a == [fresh EXCEPT !.headers = set.headers]
             b == [a EXCEPT !.body = set.body]
             c == [b EXCEPT !.isFile = set.isFile]
             d == [c EXCEPT !.file = set.file]
             e == [d EXCEPT !.code = code]
  <2>1. Coded(a)
    BY <1>2, EditsKeepCode
  <2>2. Coded(b)
    BY <2>1, EditsKeepCode
  <2>3. Coded(c)
    BY <2>2, EditsKeepCode
  <2>4. Coded(d)
    BY <2>3, EditsKeepCode
  <2>5. Coded(e)
    BY <2>4, EditsKeepCode
  <2>6. Replied(fresh, set, code) = e
    BY DEF Replied
  <2>7. QED
    BY <2>5, <2>6
<1>5. ASSUME NEW code PROVE Coded([fresh EXCEPT !.code = code])
  BY <1>2, EditsKeepCode
<1>6. Coded(resp)
  <2>1. \/ resp = options
        \/ \E set, code : resp = Replied(fresh, set, code)
        \/ \E code : resp = [fresh EXCEPT !.code = code]
    BY <1>1 DEF Answers
  <2>2. QED
    BY <2>1, <1>3, <1>4, <1>5
<1>7. QED
  BY <1>1, <1>6, ResponseAnswered

-----------------------------------------------------------------------------
(* Each step is one of a session, and keeps the invariant.                 *)

LEMMA AnsweredIsStep ==
  ASSUME SessionInv, stage = "reading", Answered
  PROVE  SessionInv' /\ Session!Next
BY DEF SessionInv, KeptOpen, Upgrading, Answered, Session!TypeOK, Session!Stages,
       Session!Next, Session!Answer

LEMMA BeginIsStep == ASSUME SessionInv, Begin PROVE SessionInv' /\ Session!Next
<1>1. stage = "unborn" /\ close = FALSE /\ Coded(response)
  BY DEF Begin, SessionInv, KeptOpen, Session!TypeOK
<1>2. CASE stage' = "reading" /\ UNCHANGED <<askVars, answerVars, fileLen>>
  <2>1. UNCHANGED <<close, response, outcome>>
    BY <1>2 DEF answerVars
  <2>2. QED
    BY <1>1, <1>2, <2>1 DEF SessionInv, KeptOpen, Session!TypeOK, Session!Stages, Session!Next,
                            Session!Begin
<1>3. CASE outcome' = "503" /\ HandleError(response, "503")
  <2>1. stage' = "writing" /\ close' = TRUE /\ Coded(response')
    BY <1>1, <1>3, ErrorHandled
  <2>2. QED
    BY <1>1, <1>3, <2>1 DEF SessionInv, KeptOpen, Upgrading, Session!TypeOK, Session!Stages,
                            Session!Next, Session!Reject
<1>4. QED
  BY <1>2, <1>3 DEF Begin

LEMMA ArriveIsStep ==
  ASSUME SessionInv, NEW n, Arrive(n)
  PROVE  SessionInv' /\ [Session!Next]_(Session!vars)
<1>1. stage = "reading" /\ close = FALSE /\ Coded(response)
  BY DEF Arrive, SessionInv, KeptOpen, Session!TypeOK
<1>2. \/ \E err : UNCHANGED close /\ WriteError(response, err)
      \/ \E req : HandleRequest(req)
      \/ UNCHANGED <<stage, answerVars>>
  BY DEF Arrive
<1>3. CASE \E err : UNCHANGED close /\ WriteError(response, err)
  <2>1. Answered
    BY <1>1, <1>3, ErrorWritten DEF Answered
  <2>2. QED
    BY <1>1, <2>1, AnsweredIsStep
<1>4. CASE \E req : HandleRequest(req)
  <2>1. close \in BOOLEAN /\ ~close
    BY <1>1
  <2>2. Answered
    BY <1>4, <2>1, RequestAnswered
  <2>3. QED
    BY <1>1, <2>2, AnsweredIsStep
<1>5. CASE UNCHANGED <<stage, answerVars>>
  <2>1. UNCHANGED <<stage, close, response, outcome>>
    BY <1>5 DEF answerVars
  <2>2. QED
    BY <2>1 DEF SessionInv, KeptOpen, Upgrading, Session!TypeOK, Session!vars
<1>6. QED
  BY <1>2, <1>3, <1>4, <1>5

LEMMA EndIsStep ==
  ASSUME SessionInv, stage \in {"reading", "writing"}, End
  PROVE  SessionInv' /\ Session!Next
<1>1. stage' = "ended" /\ close' = TRUE /\ response' = Resp!NewResponse
  BY DEF End, Destroyed
<1>2. Coded(response')
  BY <1>1, NewIsCoded
<1>3. QED
  BY <1>1, <1>2 DEF SessionInv, KeptOpen, Session!TypeOK, Session!Stages, Session!Next,
                    Session!End

LEMMA WrittenIsStep == ASSUME SessionInv, Written PROVE SessionInv' /\ Session!Next
<1>1. stage = "writing" /\ close \in BOOLEAN
  BY DEF Written, SessionInv, Session!TypeOK
<1>2. \/ Upgrading /\ Detach
      \/ End
      \/ ~close /\ Restart
  BY DEF Written
<1>3. CASE Upgrading /\ Detach
  <2>1. stage' = "upgraded" /\ UNCHANGED close /\ response' = Resp!NewResponse
    BY <1>3 DEF Detach, Destroyed
  <2>2. ~close
    BY <1>1, <1>3 DEF SessionInv, KeptOpen
  <2>3. Coded(response')
    BY <2>1, NewIsCoded
  <2>4. QED
    BY <1>1, <2>1, <2>2, <2>3 DEF SessionInv, KeptOpen, Session!TypeOK, Session!Stages,
                                  Session!Next, Session!HandOver
<1>4. CASE End
  BY <1>1, <1>4, EndIsStep
<1>5. CASE ~close /\ Restart
  <2>1. stage' = "reading" /\ UNCHANGED close /\ response' = Resp!NewResponse
    BY <1>5 DEF Restart
  <2>2. Coded(response')
    BY <2>1, NewIsCoded
  <2>3. QED
    BY <1>1, <1>5, <2>1, <2>2 DEF SessionInv, KeptOpen, Session!TypeOK, Session!Stages,
                                  Session!Next, Session!Again
<1>6. QED
  BY <1>2, <1>3, <1>4, <1>5

LEMMA NoSessionStep ==
  ASSUME SessionInv, UNCHANGED <<stage, close, response, outcome>>
  PROVE  SessionInv' /\ UNCHANGED Session!vars
BY DEF SessionInv, KeptOpen, Upgrading, Session!TypeOK, Session!vars

LEMMA ExchangeIsStep ==
  ASSUME SessionInv, ExchangeNext
  PROVE  SessionInv' /\ [Session!Next]_(Session!vars)
<1>1. CASE Begin
  BY <1>1, BeginIsStep
<1>2. CASE \E n \in Pieces(TextEnds[setup][turn] - arrived) : Arrive(n)
  BY <1>2, ArriveIsStep
<1>3. CASE Written
  BY <1>3, WrittenIsStep
<1>4. CASE \E n \in Pieces(Len(Op!Offered(answer, fileLen))) : SendMore(n)
  BY <1>4, NoSessionStep DEF SendMore
<1>5. CASE IoFails
  BY <1>5, EndIsStep DEF IoFails
<1>6. CASE FileChanges
  <2>1. UNCHANGED <<stage, close, response, outcome>>
    BY <1>6 DEF FileChanges, answerVars
  <2>2. QED
    BY <2>1, NoSessionStep
<1>7. QED
  BY <1>1, <1>2, <1>3, <1>4, <1>5, <1>6 DEF ExchangeNext, Sends

LEMMA SessionKept ==
  ASSUME SessionInv, [ConnNext]_connVars
  PROVE  SessionInv' /\ [Session!Next]_(Session!vars)
<1>1. CASE Exchanges
  BY <1>1, ExchangeIsStep DEF Exchanges
<1>2. CASE Talks
  <2>1. UNCHANGED <<stage, close, response, outcome>>
    BY <1>2 DEF Talks, exchangeVars, answerVars
  <2>2. QED
    BY <2>1, NoSessionStep
<1>3. CASE UNCHANGED connVars
  <2>1. UNCHANGED <<stage, close, response, outcome>>
    BY <1>3 DEF connVars, exchangeVars, answerVars
  <2>2. QED
    BY <2>1, NoSessionStep
<1>4. QED
  BY <1>1, <1>2, <1>3 DEF ConnNext

(***************************************************************************)
(* An exchange implements a session: th_http reads and answers in turns,   *)
(* whatever the parser, the router and the handlers come to; it reads      *)
(* again only if the answer was not the last, hands the connection to a    *)
(* WebSocket only if it stays open, and does nothing to one it gave up.    *)
(***************************************************************************)
THEOREM KeepsSession == ConnSpec => ExchangeSession
<1>1. ConnInit => SessionInv /\ Session!Init
  BY NewIsCoded DEF ConnInit, ExchangeInit, SessionInv, KeptOpen, Session!TypeOK,
                    Session!Stages, Session!Init
<1>2. SessionInv /\ [ConnNext]_connVars => SessionInv' /\ [Session!Next]_(Session!vars)
  BY SessionKept
<1>3. QED
  BY <1>1, <1>2, PTL DEF ConnSpec, ExchangeSession, Session!Spec

-----------------------------------------------------------------------------
(* What a client reads.                                                    *)

(* The values of a number as its digits go, and as they come back.         *)
Shifting(x, n, v) ==
  /\ v[0] = x
  /\ \A j \in 0 .. n, k \in 1 .. n : k = j + 1 => v[k] = v[j] \div Radix

LEMMA Quotients ==
  ASSUME NEW x \in Nat
  PROVE  x \div Radix \in Nat /\ x % Radix \in Nat /\ (x \div Radix) * Radix + (x % Radix) = x
<1>1. Radix \in Nat /\ Radix > 0
  BY WsDataAssumption
<1>2. QED
  BY <1>1

LEMMA QuotientsLess ==
  ASSUME NEW a \in Nat, NEW b \in Nat, a <= b
  PROVE  a \div Radix <= b \div Radix
<1> DEFINE p == a \div Radix
           q == b \div Radix
           r == a % Radix
           s == b % Radix
           t == p - q - 1
<1>1. /\ Radix \in Nat /\ Radix > 1
      /\ p \in Nat /\ q \in Nat /\ r \in Nat /\ s \in Nat
      /\ p * Radix + r = a /\ q * Radix + s = b
  BY WsDataAssumption, Quotients
<1>2. s < Radix
  BY WsDataAssumption
<1> HIDE DEF p, q, r, s
<1>3. ASSUME ~(p <= q) PROVE FALSE
  <2>1. t \in Nat /\ p = q + t + 1
    BY <1>1, <1>3
  <2> HIDE DEF t
  <2>2. p * Radix = q * Radix + t * Radix + Radix
    BY <1>1, <2>1
  <2>3. t * Radix \in Nat /\ q * Radix \in Nat /\ p * Radix \in Nat
    BY <1>1, <2>1
  <2> DEFINE u == t * Radix
             y == q * Radix
             z == p * Radix
  <2>4. z = y + u + Radix /\ u \in Nat /\ y \in Nat /\ z \in Nat /\ z + r = a /\ y + s = b
    BY <1>1, <2>2, <2>3
  <2> HIDE DEF u, y, z
  <2>5. QED
    BY <1>1, <1>2, <2>4
<1>4. QED
  BY <1>3 DEF p, q

LEMMA ShiftingSome ==
  ASSUME NEW x \in Nat, NEW n \in Nat
  PROVE  \E v \in [0 .. n -> Nat] : Shifting(x, n, v)
<1> DEFINE Some(k) == \E v \in [0 .. k -> Nat] : Shifting(x, k, v)
           upTo == {k \in 0 .. n : Some(k)}
<1>1. 0 \in upTo
  <2> DEFINE v == [j \in 0 .. 0 |-> x]
  <2>1. v \in [0 .. 0 -> Nat] /\ Shifting(x, 0, v)
    BY DEF Shifting
  <2>2. QED
    BY <2>1
<1>2. ASSUME NEW k \in Nat, k < n, k \in upTo PROVE k + 1 \in upTo
  <2>1. PICK v \in [0 .. k -> Nat] : Shifting(x, k, v)
    BY <1>2
  <2> DEFINE m == k + 1
             last == v[k] \div Radix
             w == [j \in 0 .. m |-> IF j = m THEN last ELSE v[j]]
  <2>2. last \in Nat
    <3>1. v[k] \in Nat
      BY <2>1
    <3>2. QED
      BY <3>1, Quotients
  <2> HIDE DEF last
  <2>3. w \in [0 .. m -> Nat] /\ w[m] = last /\ \A j \in 0 .. k : w[j] = v[j]
    BY <2>1, <2>2
  <2> HIDE DEF w
  <2>4. w[0] = x
    BY <2>1, <2>3 DEF Shifting
  <2>5. ASSUME NEW j \in 0 .. m, NEW i \in 1 .. m, i = j + 1 PROVE w[i] = w[j] \div Radix
    <3>1. j \in 0 .. k
      BY <2>5
    <3>2. CASE i = m
      <4>1. j = k
        BY <2>5, <3>2
      <4>2. QED
        BY <2>3, <3>1, <3>2, <4>1 DEF last
    <3>3. CASE i # m
      <4>1. i \in 1 .. k /\ i \in 0 .. k
        BY <2>5, <3>3
      <4>2. v[i] = v[j] \div Radix
        BY <2>1, <2>5, <3>1, <4>1 DEF Shifting
      <4>3. QED
        BY <2>3, <3>1, <4>1, <4>2
    <3>4. QED
      BY <3>2, <3>3
  <2>6. Shifting(x, m, w)
    BY <2>4, <2>5 DEF Shifting
  <2>7. QED
    BY <1>2, <2>3, <2>6
<1> HIDE DEF upTo
<1>3. \A k \in 0 .. n : k \in upTo
  BY <1>1, <1>2, UpTo
<1>4. n \in upTo
  BY <1>3
<1>5. QED
  BY <1>4 DEF upTo

(* Shifted is the last of them.                                            *)
LEMMA ShiftedIs ==
  ASSUME NEW x \in Nat, NEW k \in Nat, NEW v, Shifting(x, k, v)
  PROVE  Shifted(Radix, x, k) = v[k]
<1> DEFINE E(f) == [j \in 0 .. k |-> IF j = 0 THEN x ELSE f[j - 1] \div Radix]
           shifted == CHOOSE f : f = E(f)
<1>1. PICK w \in [0 .. k -> Nat] : Shifting(x, k, w)
  BY ShiftingSome
<1>2. w = E(w)
  <2>1. ASSUME NEW j \in 0 .. k PROVE w[j] = E(w)[j]
    <3>1. CASE j = 0
      BY <1>1, <3>1 DEF Shifting
    <3>2. CASE j # 0
      <4>1. j - 1 \in 0 .. k /\ j \in 1 .. k /\ j = (j - 1) + 1
        BY <3>2
      <4>2. w[j] = w[j - 1] \div Radix
        BY <1>1, <4>1 DEF Shifting
      <4>3. QED
        BY <3>2, <4>2
    <3>3. QED
      BY <3>1, <3>2
  <2>2. QED
    BY <1>1, <2>1
<1>3. shifted = E(shifted)
  BY <1>2
<1>4. Shifted(Radix, x, k) = shifted[k]
  BY DEF Shifted
<1> HIDE DEF shifted
<1>5. Follow(shifted, v, k)
  <2>1. shifted[0] = v[0]
    BY <1>3 DEF Shifting
  <2>2. ASSUME NEW j \in 1 .. k, shifted[j - 1] = v[j - 1] PROVE shifted[j] = v[j]
    <3>1. j - 1 \in 0 .. k /\ j = (j - 1) + 1 /\ j # 0 /\ j \in 0 .. k
      OBVIOUS
    <3>2. v[j] = v[j - 1] \div Radix
      BY <3>1 DEF Shifting
    <3>3. shifted[j] = shifted[j - 1] \div Radix
      BY <1>3, <3>1
    <3>4. QED
      BY <2>2, <3>2, <3>3
  <2>3. QED
    BY <2>1, <2>2 DEF Follow
<1>6. \A j \in 0 .. k : shifted[j] = v[j]
  BY <1>5, SamePrefixes
<1>7. k \in 0 .. k
  OBVIOUS
<1>8. QED
  BY <1>4, <1>6, <1>7

(* All of them are shifted values of the number.                           *)
LEMMA ShiftedAll ==
  ASSUME NEW x \in Nat, NEW n \in Nat, NEW v, Shifting(x, n, v)
  PROVE  \A k \in 0 .. n : Shifted(Radix, x, k) = v[k]
<1>1. ASSUME NEW k \in 0 .. n PROVE Shifted(Radix, x, k) = v[k]
  <2>1. k \in Nat /\ Shifting(x, k, v)
    BY DEF Shifting
  <2>2. QED
    BY <2>1, ShiftedIs
<1>2. QED
  BY <1>1

(* A number that is not larger is not larger when it is shifted.           *)
LEMMA ShiftedLess ==
  ASSUME NEW x \in Nat, NEW y \in Nat, x <= y, NEW n \in Nat, Shifted(Radix, y, n) = 0
  PROVE  Shifted(Radix, x, n) = 0
<1>1. PICK v \in [0 .. n -> Nat] : Shifting(x, n, v)
  BY ShiftingSome
<1>2. PICK w \in [0 .. n -> Nat] : Shifting(y, n, w)
  BY ShiftingSome
<1> DEFINE less == {k \in 0 .. n : v[k] <= w[k]}
<1>3. 0 \in less
  BY <1>1, <1>2 DEF Shifting
<1>4. ASSUME NEW k \in Nat, k < n, k \in less PROVE k + 1 \in less
  <2>1. k \in 0 .. n /\ k + 1 \in 1 .. n /\ k + 1 \in 0 .. n
    BY <1>4
  <2>2. v[k + 1] = v[k] \div Radix /\ w[k + 1] = w[k] \div Radix
    BY <1>1, <1>2, <2>1 DEF Shifting
  <2>3. v[k] \in Nat /\ w[k] \in Nat /\ v[k] <= w[k]
    BY <1>1, <1>2, <1>4, <2>1
  <2>4. v[k] \div Radix <= w[k] \div Radix
    <3> DEFINE a == v[k]
               b == w[k]
    <3>1. a \in Nat /\ b \in Nat /\ a <= b /\ Radix \in Nat /\ Radix > 1
      BY <2>3, WsDataAssumption
    <3> HIDE DEF a, b
    <3>2. a \div Radix <= b \div Radix
      BY <3>1, QuotientsLess
    <3>3. QED
      BY <3>2 DEF a, b
  <2>5. QED
    BY <2>1, <2>2, <2>4
<1> HIDE DEF less
<1>5. \A k \in 0 .. n : k \in less
  BY <1>3, <1>4, UpTo
<1>6. n \in 0 .. n /\ v[n] <= w[n] /\ v[n] \in Nat
  BY <1>1, <1>5 DEF less
<1>7. Shifted(Radix, x, n) = v[n] /\ Shifted(Radix, y, n) = w[n]
  BY <1>1, <1>2, ShiftedIs
<1>8. QED
  BY <1>6, <1>7

(* The value of digits that were read one after the other.                 *)
NumberSteps(digits, n, w) ==
  /\ Len(digits) = n
  /\ w[0] = 0
  /\ \A k \in 1 .. n : w[k] = w[k - 1] * Radix + digits[k][2]

LEMMA NumberIs ==
  ASSUME NEW digits, NEW n \in Nat, NEW w \in [0 .. n -> Nat], NumberSteps(digits, n, w)
  PROVE  Number(digits) = w[n]
<1> DEFINE E(f) == [j \in 0 .. n |-> IF j = 0 THEN 0 ELSE f[j - 1] * Radix + digits[j][2]]
           value == CHOOSE f : f = E(f)
<1>1. w = E(w)
  <2>1. ASSUME NEW j \in 0 .. n PROVE w[j] = E(w)[j]
    <3>1. CASE j = 0
      BY <3>1 DEF NumberSteps
    <3>2. CASE j # 0
      <4>1. j \in 1 .. n
        BY <3>2
      <4>2. w[j] = w[j - 1] * Radix + digits[j][2]
        BY <4>1 DEF NumberSteps
      <4>3. QED
        BY <3>2, <4>2
    <3>3. QED
      BY <3>1, <3>2
  <2>2. QED
    BY <2>1
<1>2. value = E(value)
  BY <1>1
<1>3. Number(digits) = value[n]
  BY DEF Number, NumberSteps
<1> HIDE DEF value
<1>4. Follow(value, w, n)
  <2>1. value[0] = w[0]
    BY <1>2 DEF NumberSteps
  <2>2. ASSUME NEW j \in 1 .. n, value[j - 1] = w[j - 1] PROVE value[j] = w[j]
    <3>1. j # 0 /\ j \in 0 .. n
      OBVIOUS
    <3>2. w[j] = w[j - 1] * Radix + digits[j][2]
      BY DEF NumberSteps
    <3>3. value[j] = value[j - 1] * Radix + digits[j][2]
      BY <1>2, <3>1
    <3>4. QED
      BY <2>2, <3>2, <3>3
  <2>3. QED
    BY <2>1, <2>2 DEF Follow
<1>5. \A j \in 0 .. n : value[j] = w[j]
  BY <1>4, SamePrefixes
<1>6. n \in 0 .. n
  OBVIOUS
<1>7. QED
  BY <1>3, <1>5, <1>6

(* A length of which nothing is left behind n digits is the number that    *)
(* these digits are read as.                                               *)
LEMMA DigitsRead ==
  ASSUME NEW x \in Nat, NEW n \in Nat, Shifted(Radix, x, n) = 0
  PROVE  Number(NumberDigits(Radix, n, x)) = x
<1> DEFINE digits == NumberDigits(Radix, n, x)
           w == [k \in 0 .. n |-> Shifted(Radix, x, n - k)]
<1>1. PICK v \in [0 .. n -> Nat] : Shifting(x, n, v)
  BY ShiftingSome
<1>2. \A k \in 0 .. n : Shifted(Radix, x, k) = v[k]
  BY <1>1, ShiftedAll
<1>3. /\ DOMAIN digits = 1 .. n
      /\ \A i \in 1 .. n : digits[i][2] = Shifted(Radix, x, n - i) % Radix
  BY DEF NumberDigits
<1>4. Len(digits) = n
  <2>1. PICK S : digits \in Seq(S)
    BY DigitsAre
  <2> HIDE DEF digits
  <2>2. QED
    BY <1>3, <2>1
<1> HIDE DEF digits
<1>5. w \in [0 .. n -> Nat] /\ \A k \in 0 .. n : w[k] = v[n - k]
  <2>1. ASSUME NEW k \in 0 .. n PROVE w[k] = v[n - k] /\ w[k] \in Nat
    <3>1. n - k \in 0 .. n
      OBVIOUS
    <3>2. QED
      BY <1>1, <1>2, <3>1
  <2>2. QED
    BY <2>1
<1> HIDE DEF w
<1>6. w[0] = 0 /\ w[n] = x
  <2>1. 0 \in 0 .. n /\ n \in 0 .. n /\ n - 0 = n /\ n - n = 0
    OBVIOUS
  <2>2. v[n] = 0 /\ v[0] = x
    BY <1>1, <1>2, <2>1 DEF Shifting
  <2>3. QED
    BY <1>5, <2>1, <2>2
<1>7. ASSUME NEW k \in 1 .. n PROVE w[k] = w[k - 1] * Radix + digits[k][2]
  <2> DEFINE j == n - k
             i == n - (k - 1)
  <2>1. j \in 0 .. n /\ i \in 1 .. n /\ i = j + 1 /\ k \in 0 .. n /\ k - 1 \in 0 .. n /\ i \in 0 .. n
    OBVIOUS
  <2>2. w[k] = v[j] /\ w[k - 1] = v[i] /\ v[j] \in Nat
    BY <1>1, <1>5, <2>1
  <2>3. digits[k][2] = v[j] % Radix
    BY <1>2, <1>3, <2>1
  <2>4. v[i] = v[j] \div Radix
    BY <1>1, <2>1 DEF Shifting
  <2>5. (v[j] \div Radix) * Radix + (v[j] % Radix) = v[j]
    BY <2>2, Quotients
  <2> HIDE DEF j, i
  <2>6. QED
    BY <2>2, <2>3, <2>4, <2>5
<1>8. NumberSteps(digits, n, w)
  BY <1>4, <1>6, <1>7 DEF NumberSteps
<1>9. QED
  BY <1>5, <1>6, <1>8, NumberIs DEF digits

(* Where the parts of a sequence of three are.                             *)
Parts(e, s, t, u) ==
  /\ Len(e) = Len(s) + Len(t) + Len(u)
  /\ \A i \in 1 .. Len(s) : e[i] = s[i]
  /\ \A i \in 1 .. Len(t) : e[Len(s) + i] = t[i]
  /\ \A i \in 1 .. Len(u) : e[Len(s) + Len(t) + i] = u[i]

LEMMA ThreeParts ==
  ASSUME NEW S, NEW s \in Seq(S), NEW t \in Seq(S), NEW u \in Seq(S)
  PROVE  Parts((s \o t) \o u, s, t, u)
<1> DEFINE a == Len(s)
           b == Len(t)
           c == Len(u)
           two == s \o t
           e == two \o u
<1>1. /\ two \in Seq(S) /\ Len(two) = a + b
      /\ \A i \in 1 .. a + b : two[i] = IF i <= a THEN s[i] ELSE t[i - a]
  BY ConcatProperties
<1> HIDE DEF two
<1>2. /\ Len(e) = Len(two) + c
      /\ \A i \in 1 .. Len(two) + c : e[i] = IF i <= Len(two) THEN two[i] ELSE u[i - Len(two)]
  <2>1. two \in Seq(S) /\ u \in Seq(S)
    BY <1>1
  <2>2. QED
    BY <2>1, ConcatProperties
<1>3. a \in Nat /\ b \in Nat /\ c \in Nat
  OBVIOUS
<1> HIDE DEF e
<1> SUFFICES Len(e) = a + b + c /\ (\A i \in 1 .. a : e[i] = s[i])
             /\ (\A i \in 1 .. b : e[a + i] = t[i]) /\ (\A i \in 1 .. c : e[a + b + i] = u[i])
  BY DEF Parts, e, two
<1> HIDE DEF a, b, c
<1>4. Len(e) = a + b + c
  BY <1>1, <1>2, <1>3
<1>5. ASSUME NEW i \in 1 .. a PROVE e[i] = s[i]
  <2>1. i \in 1 .. a + b /\ i \in 1 .. Len(two) + c /\ i <= Len(two) /\ i <= a
    BY <1>1, <1>3
  <2>2. QED
    BY <1>1, <1>2, <2>1
<1>6. ASSUME NEW i \in 1 .. b PROVE e[a + i] = t[i]
  <2>1. /\ a + i \in 1 .. a + b /\ a + i \in 1 .. Len(two) + c /\ a + i <= Len(two) /\ ~(a + i <= a)
        /\ (a + i) - a = i
    BY <1>1, <1>3
  <2>2. QED
    BY <1>1, <1>2, <2>1
<1>7. ASSUME NEW i \in 1 .. c PROVE e[a + b + i] = u[i]
  <2>1. /\ a + b + i \in 1 .. Len(two) + c /\ ~(a + b + i <= Len(two)) /\ (a + b + i) - Len(two) = i
    BY <1>1, <1>3
  <2>2. QED
    BY <1>2, <2>1
<1>8. QED
  BY <1>4, <1>5, <1>6, <1>7

(* The bytes of a frame tell its type and, in x digits or none, its        *)
(* length; then its payload follows.                                       *)
Tells(e, f, x) ==
  /\ x \in {0, 2, 8}
  /\ Len(e) = 2 + x + Len(f.payload)
  /\ e[1][1] = f.type
  /\ IF x = 0 THEN e[2] = <<"len", Len(f.payload), 0>>
     ELSE e[2] = <<"marker", x, 0>> /\ Number([i \in 1 .. x |-> e[2 + i]]) = Len(f.payload)
  /\ f.payload = [i \in 1 .. Len(f.payload) |-> e[2 + x + i]]

LEMMA TellsOfParts ==
  ASSUME NEW f \in OutFrame, NEW x \in {0, 2, 8}, NEW second, NEW digits, NEW S2, digits \in Seq(S2),
         Len(digits) = x,
         IF x = 0 THEN second = <<"len", Len(f.payload), 0>>
         ELSE second = <<"marker", x, 0>> /\ Number(digits) = Len(f.payload)
  PROVE  Tells((<<<<f.type, 0, 0>>, second>> \o digits) \o f.payload, f, x)
<1> DEFINE first == <<f.type, 0, 0>>
           pair == <<first, second>>
           load == f.payload
           e == (pair \o digits) \o load
           n == Len(load)
           S == ({first, second} \union S2) \union PayByte
<1>1. load \in Seq(PayByte)
  BY DEF OutFrame
<1>2. pair \in Seq({first, second}) /\ Len(pair) = 2 /\ pair[1] = first /\ pair[2] = second
  OBVIOUS
<1>3. load = [i \in 1 .. n |-> load[i]] /\ n \in Nat
  BY <1>1
<1>4. digits = [i \in 1 .. x |-> digits[i]] /\ x \in Nat
  OBVIOUS
<1> HIDE DEF first, pair, load
<1>5. pair \in Seq(S) /\ digits \in Seq(S) /\ load \in Seq(S)
  BY <1>1, <1>2
<1>6. Parts(e, pair, digits, load)
  BY <1>5, ThreeParts
<1> HIDE DEF e
<1>7. /\ Len(e) = 2 + x + n
      /\ \A i \in 1 .. 2 : e[i] = pair[i]
      /\ \A i \in 1 .. x : e[2 + i] = digits[i]
      /\ \A i \in 1 .. n : e[2 + x + i] = load[i]
  BY <1>2, <1>6 DEF Parts
<1>8. e[1] = first /\ e[2] = second
  BY <1>2, <1>7
<1>9. [i \in 1 .. x |-> e[2 + i]] = digits
  BY <1>4, <1>7
<1>10. [i \in 1 .. n |-> e[2 + x + i]] = load
  BY <1>3, <1>7
<1>11. first[1] = f.type
  BY DEF first
<1>12. Tells(e, f, x)
  BY <1>7, <1>8, <1>9, <1>10, <1>11 DEF Tells, load
<1>13. QED
  BY <1>12 DEF e, pair, first, load

(* Every frame that the ring takes tells its length.                       *)
LEMMA EncodedTells ==
  ASSUME NEW f \in OutFrame, Len(f.payload) <= RingMax
  PROVE  \E x : Tells(Encoded(f), f, x)
<1> DEFINE n == Len(f.payload)
           first == <<f.type, 0, 0>>
           header == HeaderWrite(Radix, f.type, n)
<1>1. /\ Len7Max \in Nat /\ Len16Max \in Nat /\ Len7Max <= Len16Max /\ RingMax \in Nat /\ n \in Nat
      /\ Shifted(Radix, Len16Max, 2) = 0 /\ Shifted(Radix, RingMax, 8) = 0 /\ n <= RingMax
  BY WsDataAssumption DEF OutFrame
<1> HIDE DEF n
<1>2. header = CASE n <= Len7Max -> <<first, <<"len", n, 0>>>>
                 [] n > Len7Max /\ n <= Len16Max ->
                      <<first, <<"marker", 2, 0>>>> \o NumberDigits(Radix, 2, n)
                 [] n > Len16Max -> <<first, <<"marker", 8, 0>>>> \o NumberDigits(Radix, 8, n)
  BY DEF HeaderWrite
<1>3. Encoded(f) = header \o f.payload
  BY DEF Encoded, n
<1> HIDE DEF header
<1>4. CASE n <= Len7Max
  <2> DEFINE second == <<"len", n, 0>>
             none == Nothing
             pair == <<first, second>>
  <2>1. header = pair
    BY <1>1, <1>2, <1>4
  <2>2. pair \in Seq({first, second}) /\ none \in Seq({first, second}) /\ Len(none) = 0
    BY DEF Nothing
  <2> HIDE DEF none, pair
  <2>3. pair \o none = pair
    BY <2>2, ConcatEmpty DEF none
  <2>4. Tells((pair \o none) \o f.payload, f, 0)
    BY <2>2, TellsOfParts DEF pair, n
  <2>5. QED
    BY <1>3, <2>1, <2>3, <2>4
<1>5. ASSUME NEW x \in {2, 8}, Shifted(Radix, n, x) = 0,
             header = <<first, <<"marker", x, 0>>>> \o NumberDigits(Radix, x, n)
      PROVE  Tells(Encoded(f), f, x)
  <2> DEFINE digits == NumberDigits(Radix, x, n)
             second == <<"marker", x, 0>>
  <2>1. x \in Nat /\ x # 0 /\ x \in {0, 2, 8}
    OBVIOUS
  <2>2. Number(digits) = n
    BY <1>1, <1>5, <2>1, DigitsRead
  <2>3. DOMAIN digits = 1 .. x
    BY DEF NumberDigits
  <2>4. PICK S : digits \in Seq(S)
    BY <2>1, DigitsAre
  <2>5. header = <<first, second>> \o digits
    BY <1>5
  <2> HIDE DEF digits, second
  <2>6. Len(digits) = x
    BY <2>1, <2>3, <2>4
  <2>7. Tells((<<first, second>> \o digits) \o f.payload, f, x)
    BY <2>1, <2>2, <2>4, <2>6, TellsOfParts DEF second, n
  <2>8. QED
    BY <1>3, <2>5, <2>7
<1>6. CASE n > Len7Max /\ n <= Len16Max
  <2>1. Shifted(Radix, n, 2) = 0
    BY <1>1, <1>6, ShiftedLess
  <2>2. header = <<first, <<"marker", 2, 0>>>> \o NumberDigits(Radix, 2, n)
    BY <1>1, <1>2, <1>6
  <2>3. QED
    BY <1>5, <2>1, <2>2
<1>7. CASE n > Len16Max
  <2>1. Shifted(Radix, n, 8) = 0
    BY <1>1, ShiftedLess
  <2>2. header = <<first, <<"marker", 8, 0>>>> \o NumberDigits(Radix, 8, n)
    BY <1>1, <1>2, <1>7
  <2>3. QED
    BY <1>5, <2>1, <2>2
<1>8. QED
  BY <1>1, <1>4, <1>6, <1>7

(* At p are the bytes of e, as far as they go.                             *)
Shows(bytes, p, e) == \A i \in 1 .. Len(e) : p + i - 1 <= Len(bytes) => bytes[p + i - 1] = e[i]

(* What is read of a header when all of it is there.                       *)
LEMMA HeaderRead ==
  ASSUME NEW S, NEW bytes \in Seq(S), NEW p \in Nat \ {0}, NEW e, NEW f \in OutFrame, NEW x,
         Tells(e, f, x), Shows(bytes, p, e), p < Len(bytes)
  PROVE  /\ PayloadAt(bytes, p) = p + 2 + x
         /\ p + 2 + x <= Len(bytes) + 1 => NextAt(bytes, p) = p + Len(e)
<1> DEFINE n == Len(f.payload)
           m == Len(bytes)
           z == Len(e)
<1>1. n \in Nat /\ m \in Nat /\ x \in Nat /\ z = 2 + x + n /\ z \in Nat
  BY DEF OutFrame, Tells
<1>2. \A i \in 1 .. z : p + i - 1 <= m => bytes[p + i - 1] = e[i]
  BY DEF Shows
<1>3. /\ x = 0 => e[2] = <<"len", n, 0>>
      /\ x # 0 => e[2] = <<"marker", x, 0>> /\ Number([i \in 1 .. x |-> e[2 + i]]) = n
  BY DEF Tells
<1>4. p < m
  OBVIOUS
<1> HIDE DEF n, z
<1>5. bytes[p + 1] = e[2]
  <2>1. 2 \in 1 .. z /\ p + 2 - 1 = p + 1 /\ p + 1 <= m
    BY <1>1, <1>4
  <2>2. QED
    BY <1>2, <2>1
<1>6. ExtAt(bytes, p) = x
  BY <1>3, <1>5 DEF ExtAt
<1>7. PayloadAt(bytes, p) = p + 2 + x
  BY <1>6 DEF PayloadAt
<1>8. ASSUME p + 2 + x <= m + 1 PROVE NextAt(bytes, p) = p + z
  <2> DEFINE start == p + 2 + x
             told == IF x = 0 THEN bytes[p + 1][2] ELSE Number(SubSeq(bytes, p + 2, start - 1))
  <2>1. NextAt(bytes, p) = start + told
    BY <1>6, <1>7 DEF NextAt
  <2>2. told = n
    <3>1. CASE x = 0
      BY <1>3, <1>5, <3>1
    <3>2. CASE x # 0
      <4> DEFINE q == p + 1
                 first == p + 2
                 last == start - 1
                 digits == SubSeq(bytes, first, last)
      <4>1. /\ q \in Nat /\ q + x <= m /\ first = q + 1 /\ last = q + x
            /\ \A i \in 1 .. x : 2 + i \in 1 .. z /\ p + (2 + i) - 1 = q + i /\ q + i <= m
        BY <1>1, <1>8
      <4> HIDE DEF q, first, last
      <4>2. digits = [i \in 1 .. x |-> bytes[q + i]]
        <5>1. q + x <= Len(bytes)
          BY <4>1
        <5>2. QED
          BY <1>1, <4>1, <5>1, PieceIs
      <4>3. \A i \in 1 .. x : bytes[q + i] = e[2 + i]
        BY <1>2, <4>1
      <4>4. digits = [i \in 1 .. x |-> e[2 + i]]
        BY <4>2, <4>3
      <4>5. Number(digits) = n
        BY <1>3, <3>2, <4>4
      <4>6. QED
        BY <3>2, <4>5 DEF first, last
    <3>3. QED
      BY <3>1, <3>2
  <2> HIDE DEF told
  <2>3. QED
    BY <1>1, <2>1, <2>2
<1>9. QED
  BY <1>7, <1>8 DEF z

LEMMA WholeIsRead ==
  ASSUME NEW S, NEW bytes \in Seq(S), NEW p \in Nat \ {0}, NEW e, NEW f \in OutFrame, NEW x,
         Tells(e, f, x), Shows(bytes, p, e), p + Len(e) <= Len(bytes) + 1
  PROVE  PastFrame(bytes, p) = p + Len(e) /\ IsWhole(bytes, p) /\ FrameAt(bytes, p) = f
<1> DEFINE n == Len(f.payload)
           m == Len(bytes)
           z == Len(e)
           q == p + 1 + x
           first == p + 2 + x
           last == p + z - 1
<1>1. /\ n \in Nat /\ m \in Nat /\ x \in Nat /\ z = 2 + x + n /\ z \in Nat
      /\ f = [type |-> f.type, payload |-> f.payload]
      /\ f.payload = [i \in 1 .. n |-> e[2 + x + i]]
      /\ e[1][1] = f.type
  BY DEF OutFrame, Tells
<1>2. \A i \in 1 .. z : p + i - 1 <= m => bytes[p + i - 1] = e[i]
  BY DEF Shows
<1>3. p + z <= m + 1
  OBVIOUS
<1> HIDE DEF n, m, z
<1>4. /\ n \in Nat /\ m \in Nat /\ x \in Nat /\ z \in Nat /\ p \in Nat /\ p > 0
      /\ z = 2 + x + n /\ p + z <= m + 1
  BY <1>1, <1>3
<1>5. p < m /\ first <= m + 1
  BY <1>4
<1>6. PayloadAt(bytes, p) = first /\ NextAt(bytes, p) = p + z
  BY <1>5, HeaderRead DEF m, z
<1>7. IsWhole(bytes, p)
  BY <1>3, <1>5, <1>6 DEF IsWhole, m
<1>8. bytes[p][1] = f.type
  <2>1. 1 \in 1 .. z /\ p + 1 - 1 = p /\ p <= m
    BY <1>4
  <2>2. bytes[p] = e[1]
    BY <1>2, <2>1
  <2>3. QED
    BY <1>1, <2>2
<1>9. NextAt(bytes, p) - 1 = last /\ PayloadAt(bytes, p) = first
  BY <1>4, <1>6
<1>10. /\ q \in Nat /\ q + n <= m /\ first = q + 1 /\ last = q + n
      /\ \A i \in 1 .. n : 2 + x + i \in 1 .. z /\ p + (2 + x + i) - 1 = q + i /\ q + i <= m
  <2>1. q \in Nat /\ first = q + 1
    BY <1>4
  <2>2. q + n <= m /\ last = q + n
    BY <1>4
  <2>3. \A i \in 1 .. n : 2 + x + i \in 1 .. z
    BY <1>4
  <2>4. \A i \in 1 .. n : p + (2 + x + i) - 1 = q + i
    BY <1>4
  <2>5. \A i \in 1 .. n : q + i <= m
    <3> HIDE DEF q
    <3>1. QED
      BY <1>4, <2>1, <2>2
  <2>6. QED
    BY <2>1, <2>2, <2>3, <2>4, <2>5
<1> HIDE DEF q, first, last
<1>11. FrameAt(bytes, p) = [type |-> bytes[p][1], payload |-> SubSeq(bytes, first, last)]
  BY <1>9 DEF FrameAt
<1>12. SubSeq(bytes, first, last) = [i \in 1 .. n |-> bytes[q + i]]
  <2>1. q \in Nat /\ n \in Nat /\ q + n <= Len(bytes) /\ first = q + 1 /\ last = q + n
    BY <1>4, <1>10 DEF m
  <2>2. QED
    BY <2>1, PieceIs
<1>13. \A i \in 1 .. n : bytes[q + i] = e[2 + x + i]
  BY <1>2, <1>10
<1>14. SubSeq(bytes, first, last) = f.payload
  BY <1>1, <1>12, <1>13
<1>15. PastFrame(bytes, p) = p + z
  BY <1>6, <1>7 DEF PastFrame
<1>16. QED
  BY <1>1, <1>7, <1>8, <1>14, <1>15, <1>11 DEF z

LEMMA PartIsLeft ==
  ASSUME NEW S, NEW bytes \in Seq(S), NEW p \in Nat \ {0}, NEW e, NEW f \in OutFrame, NEW x,
         Tells(e, f, x), Shows(bytes, p, e), ~(p + Len(e) <= Len(bytes) + 1)
  PROVE  PastFrame(bytes, p) = p /\ ~IsWhole(bytes, p)
<1>1. ASSUME IsWhole(bytes, p) PROVE FALSE
  <2>1. p < Len(bytes) /\ PayloadAt(bytes, p) <= Len(bytes) + 1 /\ NextAt(bytes, p) <= Len(bytes) + 1
    BY <1>1 DEF IsWhole
  <2>2. PayloadAt(bytes, p) = p + 2 + x
    BY <2>1, HeaderRead
  <2>3. NextAt(bytes, p) = p + Len(e)
    BY <2>1, <2>2, HeaderRead
  <2>4. QED
    BY <2>1, <2>3
<1>2. QED
  BY <1>1 DEF PastFrame

LEMMA NothingIsLeft ==
  ASSUME NEW S, NEW bytes \in Seq(S), NEW p \in Nat, ~(p <= Len(bytes))
  PROVE  PastFrame(bytes, p) = p /\ ~IsWhole(bytes, p)
<1>1. ~(p < Len(bytes))
  OBVIOUS
<1>2. QED
  BY <1>1 DEF PastFrame, IsWhole

(* One sequence begins with another.                                       *)
Begins(s, t) == Len(s) <= Len(t) /\ \A i \in 1 .. Len(s) : t[i] = s[i]

(* One sequence consists of two.                                           *)
Joint(s, t, u) ==
  /\ Begins(s, u) /\ Len(u) = Len(s) + Len(t)
  /\ \A i \in 1 .. Len(t) : u[Len(s) + i] = t[i]

LEMMA BeginsMore ==
  ASSUME NEW S, NEW s \in Seq(S), NEW t \in Seq(S), NEW u, u = s \o t
  PROVE  Joint(s, t, u)
<1> DEFINE a == Len(s)
           b == Len(t)
<1>1. Len(u) = a + b /\ \A i \in 1 .. a + b : u[i] = IF i <= a THEN s[i] ELSE t[i - a]
  BY ConcatProperties
<1>2. a \in Nat /\ b \in Nat
  OBVIOUS
<1> HIDE DEF a, b
<1>3. \A i \in 1 .. a : u[i] = s[i]
  <2>1. \A i \in 1 .. a : i \in 1 .. a + b /\ i <= a
    BY <1>2
  <2>2. QED
    BY <1>1, <2>1
<1>4. \A i \in 1 .. b : u[a + i] = t[i]
  <2>1. \A i \in 1 .. b : a + i \in 1 .. a + b /\ ~(a + i <= a) /\ (a + i) - a = i
    BY <1>2
  <2>2. QED
    BY <1>1, <2>1
<1>5. a <= Len(u)
  BY <1>1, <1>2
<1>6. QED
  BY <1>1, <1>3, <1>4, <1>5 DEF Begins, Joint, a, b

LEMMA BeginsAgain ==
  ASSUME NEW S, NEW s \in Seq(S), NEW t \in Seq(S), NEW u \in Seq(S), Begins(s, t), Begins(t, u)
  PROVE  Begins(s, u)
<1>1. Len(s) \in Nat /\ Len(t) \in Nat /\ Len(u) \in Nat
  OBVIOUS
<1>2. Len(s) <= Len(t) /\ Len(t) <= Len(u)
  BY DEF Begins
<1>3. \A i \in 1 .. Len(s) : i \in 1 .. Len(t)
  BY <1>1, <1>2
<1>4. \A i \in 1 .. Len(s) : u[i] = s[i]
  BY <1>3 DEF Begins
<1>5. Len(s) <= Len(u)
  BY <1>1, <1>2
<1>6. QED
  BY <1>4, <1>5 DEF Begins

(* What n parts come to begins with what fewer come to.                    *)
LEMMA AccumulatesBegin ==
  ASSUME NEW S, NEW n \in Nat, NEW parts \in [1 .. n -> Seq(S)], NEW v \in [0 .. n -> Seq(S)],
         Accumulates(v, n, parts)
  PROVE  \A k \in 0 .. n : Begins(v[k], v[n])
<1> DEFINE P == {j \in 0 .. n : \A k \in 0 .. j : Begins(v[k], v[j])}
<1>0. ASSUME NEW s PROVE Begins(s, s)
  BY DEF Begins
<1>1. 0 \in P
  <2>1. \A k \in 0 .. 0 : k = 0
    OBVIOUS
  <2>2. QED
    BY <2>1 DEF Begins
<1>2. ASSUME NEW j \in Nat, j < n, j \in P PROVE j + 1 \in P
  <2> DEFINE i == j + 1
  <2>1. i \in 1 .. n /\ i \in 0 .. n /\ j \in 0 .. n
    BY <1>2
  <2>2. v[i] = v[j] \o parts[i] /\ v[i] \in Seq(S) /\ v[j] \in Seq(S) /\ parts[i] \in Seq(S)
    BY <2>1 DEF Accumulates
  <2>3. Begins(v[j], v[i])
    BY <2>2, BeginsMore DEF Joint
  <2>4. ASSUME NEW k \in 0 .. i PROVE Begins(v[k], v[i])
    <3>1. CASE k = i
      BY <1>0, <3>1
    <3>2. CASE k # i
      <4>1. k \in 0 .. j /\ k \in 0 .. n
        BY <2>1, <3>2
      <4>2. Begins(v[k], v[j]) /\ v[k] \in Seq(S)
        BY <1>2, <4>1
      <4>3. QED
        BY <2>2, <2>3, <4>2, BeginsAgain
    <3>3. QED
      BY <3>1, <3>2
  <2>5. QED
    BY <2>1, <2>4
<1> HIDE DEF P
<1>3. \A j \in 0 .. n : j \in P
  BY <1>1, <1>2, UpTo
<1>4. n \in P
  BY <1>3
<1>5. QED
  BY <1>4 DEF P

(* The frames and where they end in bytes, of which the last may be        *)
(* missing.                                                                *)
Laid(fs, bytes, E) ==
  /\ E \in [0 .. Len(fs) -> Nat]
  /\ E[0] = 0
  /\ \A k \in 1 .. Len(fs) : /\ E[k] = E[k - 1] + Len(Encoded(fs[k]))
                             /\ Shows(bytes, E[k - 1] + 1, Encoded(fs[k]))
  /\ Len(bytes) <= E[Len(fs)]

LEMMA FramesLaid ==
  ASSUME NEW fs \in Seq(OutFrame), NEW bytes \in Seq(OutByte), NEW rest \in Seq(OutByte),
         bytes \o rest = FlattenSeq([k \in DOMAIN fs |-> Encoded(fs[k])])
  PROVE  \E E : Laid(fs, bytes, E) /\ (rest = <<>> => Len(bytes) = E[Len(fs)])
<1> DEFINE parts == [k \in DOMAIN fs |-> Encoded(fs[k])]
           S == OutByte
           n == Len(fs)
           all == bytes \o rest
<1>1. n \in Nat /\ DOMAIN fs = 1 .. n
  OBVIOUS
<1>2. parts \in Seq(Seq(S)) /\ DOMAIN parts = 1 .. n /\ \A k \in 1 .. n : parts[k] = Encoded(fs[k])
  BY <1>1, AcceptedParts
<1>3. FlattenSeq(parts) = all
  OBVIOUS
<1> HIDE DEF parts, S, all
<1>4. Len(parts) = n /\ parts \in [1 .. n -> Seq(S)]
  BY <1>1, <1>2, PartsOf
<1>5. PICK v \in [0 .. n -> Seq(S)] : Accumulates(v, n, parts) /\ all = v[n]
  <2>1. \E v \in [0 .. Len(parts) -> Seq(S)] :
          Accumulates(v, Len(parts), parts) /\ FlattenSeq(parts) = v[Len(parts)]
    BY <1>2, FlattenSteps
  <2>2. QED
    BY <1>3, <1>4, <2>1
<1> HIDE DEF n
<1> DEFINE E == [k \in 0 .. n |-> Len(v[k])]
<1>6. \A k \in 0 .. n : Begins(v[k], all)
  BY <1>1, <1>4, <1>5, AccumulatesBegin
<1>7. E \in [0 .. n -> Nat] /\ \A k \in 0 .. n : E[k] = Len(v[k])
  BY <1>5
<1> HIDE DEF E
<1>8. E[0] = 0
  BY <1>1, <1>5, <1>7 DEF Accumulates, Nothing
<1>9. Begins(bytes, all) /\ Len(all) = Len(bytes) + Len(rest)
  <2>1. bytes \in Seq(S) /\ rest \in Seq(S) /\ all = bytes \o rest
    BY DEF S, all
  <2>2. QED
    BY <2>1, BeginsMore DEF Joint
<1>10. ASSUME NEW k \in 1 .. n
       PROVE  /\ E[k] = E[k - 1] + Len(Encoded(fs[k]))
              /\ Shows(bytes, E[k - 1] + 1, Encoded(fs[k]))
  <2> DEFINE j == k - 1
             e == parts[k]
             a == E[j]
  <2>1. j \in 0 .. n /\ k \in 0 .. n /\ k = j + 1
    BY <1>1
  <2> DEFINE x == v[j]
             y == v[k]
  <2>2. y = x \o e /\ y \in Seq(S) /\ x \in Seq(S) /\ e \in Seq(S)
    BY <1>4, <1>5, <2>1 DEF Accumulates
  <2>3. Len(y) = Len(x) + Len(e) /\ \A i \in 1 .. Len(e) : y[Len(x) + i] = e[i]
    <3> HIDE DEF x, y, e
    <3>1. x \in Seq(S) /\ e \in Seq(S) /\ y = x \o e
      BY <2>2
    <3>2. Joint(x, e, y)
      BY <3>1, BeginsMore
    <3>3. QED
      BY <3>2 DEF Joint
  <2>4. E[k] = a + Len(e) /\ a = Len(x) /\ E[k] = Len(y) /\ a \in Nat /\ Len(e) \in Nat
    <3>1. E[k] = Len(y) /\ a = Len(x)
      BY <1>7, <2>1
    <3> HIDE DEF x, y, e, a
    <3>2. QED
      BY <2>2, <2>3, <3>1
  <2> HIDE DEF e, a
  <2>5. ASSUME NEW i \in 1 .. Len(e), (a + 1) + i - 1 <= Len(bytes) PROVE bytes[(a + 1) + i - 1] = e[i]
    <3> DEFINE z == Len(e)
               l == Len(bytes)
    <3>0. a \in Nat /\ z \in Nat /\ l \in Nat /\ i \in 1 .. z /\ (a + 1) + i - 1 <= l
      BY <2>4, <2>5
    <3>1. (a + 1) + i - 1 = a + i /\ a + i \in 1 .. Len(v[k]) /\ a + i \in 1 .. Len(bytes)
      <4> HIDE DEF z, l
      <4>1. (a + 1) + i - 1 = a + i /\ a + i \in 1 .. l /\ a + i \in 1 .. a + z
        BY <3>0
      <4>2. Len(v[k]) = a + z
        BY <2>4 DEF z
      <4>3. QED
        BY <4>1, <4>2 DEF l
    <3>2. bytes[a + i] = all[a + i]
      BY <1>9, <3>1 DEF Begins
    <3>3. all[a + i] = v[k][a + i]
      BY <1>6, <2>1, <3>1 DEF Begins
    <3>4. v[k][a + i] = e[i]
      BY <2>3, <2>4
    <3>5. QED
      BY <3>1, <3>2, <3>3, <3>4
  <2>6. Shows(bytes, a + 1, e)
    BY <2>5 DEF Shows
  <2>7. e = Encoded(fs[k])
    BY <1>2 DEF e
  <2>8. QED
    BY <2>4, <2>6, <2>7 DEF a
<1>11. Len(bytes) \in Nat /\ Len(rest) \in Nat /\ E[n] = Len(bytes) + Len(rest)
  <2>1. n \in 0 .. n
    BY <1>1
  <2>2. QED
    BY <1>5, <1>7, <1>9, <2>1
<1>12. Laid(fs, bytes, E)
  BY <1>7, <1>8, <1>10, <1>11 DEF Laid, n
<1>13. rest = <<>> => Len(bytes) = E[n]
  <2>1. rest = <<>> => Len(rest) = 0
    OBVIOUS
  <2>2. QED
    BY <1>11, <2>1
<1>14. QED
  BY <1>12, <1>13 DEF n

(* Frames end later and later, each at least a byte behind the one before. *)
LEMMA LaidRises ==
  ASSUME NEW fs \in Seq(OutFrame), NEW bytes, NEW E, Laid(fs, bytes, E)
  PROVE  \A j \in 0 .. Len(fs) : j <= E[j] /\ \A k \in 0 .. j : E[k] <= E[j]
<1> DEFINE n == Len(fs)
           P == {j \in 0 .. n : j <= E[j] /\ \A k \in 0 .. j : E[k] <= E[j]}
<1>1. /\ n \in Nat /\ E \in [0 .. n -> Nat] /\ E[0] = 0
      /\ \A k \in 1 .. n : E[k] = E[k - 1] + Len(Encoded(fs[k])) /\ fs[k] \in OutFrame
  BY DEF Laid
<1> HIDE DEF n
<1>2. 0 \in P
  BY <1>1
<1>3. ASSUME NEW j \in Nat, j < n, j \in P PROVE j + 1 \in P
  <2> DEFINE i == j + 1
             z == Len(Encoded(fs[i]))
  <2>1. i \in 1 .. n /\ i \in 0 .. n /\ i - 1 = j /\ j \in 0 .. n
    BY <1>1, <1>3
  <2>2. E[i] = E[j] + z /\ z \in Nat \ {0} /\ E[j] \in Nat
    <3>1. fs[i] \in OutFrame
      BY <1>1, <2>1
    <3>2. z \in Nat \ {0}
      BY <3>1, EncodedType
    <3>3. QED
      BY <1>1, <2>1, <3>2
  <2> HIDE DEF z
  <2>3. j <= E[j] /\ \A k \in 0 .. j : E[k] <= E[j]
    BY <1>3
  <2>4. i <= E[i]
    BY <2>2, <2>3
  <2>5. ASSUME NEW k \in 0 .. i PROVE E[k] <= E[i]
    <3>1. CASE k = i
      BY <2>2, <3>1
    <3>2. CASE k # i
      <4>1. k \in 0 .. j /\ k \in 0 .. n
        BY <1>1, <1>3, <3>2
      <4>2. E[k] <= E[j] /\ E[k] \in Nat
        BY <1>1, <2>3, <4>1
      <4>3. QED
        BY <2>2, <4>2
    <3>3. QED
      BY <3>1, <3>2
  <2>6. QED
    BY <2>1, <2>4, <2>5
<1> HIDE DEF P
<1>4. \A j \in 0 .. n : j \in P
  BY <1>1, <1>2, <1>3, UpTo
<1>5. QED
  BY <1>4 DEF P, n

(* Of frames that are laid in bytes the first m are whole.                 *)
Whole(n, E, len, m) ==
  /\ m \in 0 .. n
  /\ \A k \in 0 .. m : E[k] <= len
  /\ m # n => ~(E[m + 1] <= len)

LEMMA WholeSome ==
  ASSUME NEW fs \in Seq(OutFrame), NEW bytes \in Seq(OutByte), NEW E, Laid(fs, bytes, E)
  PROVE  \E m \in Nat : Whole(Len(fs), E, Len(bytes), m)
<1> DEFINE n == Len(fs)
           len == Len(bytes)
           U == {k \in 0 .. n : k = n \/ ~(E[k + 1] <= len)}
<1>1. n \in Nat /\ len \in Nat /\ E \in [0 .. n -> Nat] /\ E[0] = 0
  BY DEF Laid
<1> HIDE DEF n, len
<1>2. U \subseteq Nat /\ n \in U
  BY <1>1
<1>3. PICK m \in U : \A k \in U : m <= k
  BY <1>2, LeastNat
<1>4. ASSUME NEW k \in 0 .. m PROVE E[k] <= len
  <2>1. CASE k = 0
    BY <1>1, <2>1
  <2>2. CASE k # 0
    <3> DEFINE j == k - 1
    <3>1. m \in 0 .. n /\ j \in 0 .. n /\ j # n /\ ~(m <= j) /\ j + 1 = k
      BY <1>1, <2>2
    <3>2. j \notin U
      BY <1>3, <3>1
    <3> HIDE DEF j
    <3>3. QED
      BY <3>1, <3>2
  <2>3. QED
    BY <2>1, <2>2
<1>5. Whole(n, E, len, m) /\ m \in Nat
  BY <1>1, <1>4 DEF Whole
<1>6. QED
  BY <1>5 DEF n, len

(* Read takes the frames one after the other, and stops at the one that is *)
(* not whole.                                                              *)
ReadTo(m, E, k) == IF k <= m THEN E[k] + 1 ELSE E[m] + 1

(* What Read does at p, where frame number k is expected.                  *)
Reads(fs, bytes, m, E, k, p) ==
  /\ PastFrame(bytes, p) = ReadTo(m, E, k)
  /\ IsWhole(bytes, p) <=> k <= m
  /\ k <= m => FrameAt(bytes, p) = fs[k]

LEMMA ReadStep ==
  ASSUME NEW fs \in Seq(OutFrame), \A k \in 1 .. Len(fs) : Len(fs[k].payload) <= RingMax,
         NEW bytes \in Seq(OutByte), NEW E, Laid(fs, bytes, E),
         NEW m \in Nat, Whole(Len(fs), E, Len(bytes), m),
         NEW j \in Nat, NEW k \in Nat \ {0}, k = j + 1, NEW p, p = ReadTo(m, E, j)
  PROVE  Reads(fs, bytes, m, E, k, p)
<1> DEFINE n == Len(fs)
           len == Len(bytes)
<1>1. /\ n \in Nat /\ len \in Nat /\ E \in [0 .. n -> Nat] /\ len <= E[n]
      /\ \A i \in 1 .. n : /\ E[i] = E[i - 1] + Len(Encoded(fs[i])) /\ fs[i] \in OutFrame
                           /\ Shows(bytes, E[i - 1] + 1, Encoded(fs[i]))
  BY DEF Laid
<1>2. m \in 0 .. n /\ (\A i \in 0 .. m : E[i] <= len) /\ (m # n => ~(E[m + 1] <= len))
  BY DEF Whole
<1>3. \A i \in 1 .. n : Len(fs[i].payload) <= RingMax
  OBVIOUS
<1> HIDE DEF n, len
<1>4. ASSUME NEW i \in 1 .. n
      PROVE  LET b == E[i - 1] + 1
             IN /\ E[i] <= len => /\ PastFrame(bytes, b) = E[i] + 1
                                  /\ IsWhole(bytes, b) /\ FrameAt(bytes, b) = fs[i]
                /\ ~(E[i] <= len) => PastFrame(bytes, b) = b /\ ~IsWhole(bytes, b)
  <2> DEFINE f == fs[i]
             e == Encoded(f)
             b == E[i - 1] + 1
             z == Len(e)
  <2>1. i - 1 \in 0 .. n /\ i \in 0 .. n
    BY <1>1
  <2>2. E[i - 1] \in Nat /\ E[i] \in Nat /\ E[i] = E[i - 1] + z /\ f \in OutFrame /\ Shows(bytes, b, e)
    BY <1>1, <2>1
  <2>3. z \in Nat
    BY <2>2, EncodedType
  <2>4. PICK x : Tells(e, f, x)
    <3>1. Len(f.payload) <= RingMax
      BY <1>3
    <3>2. QED
      BY <2>2, <3>1, EncodedTells
  <2> HIDE DEF z
  <2>5. b \in Nat \ {0} /\ b + z = E[i] + 1 /\ (b + z <= len + 1 <=> E[i] <= len)
    <3> DEFINE c == E[i - 1]
               d == E[i]
    <3>1. c \in Nat /\ d \in Nat /\ d = c + z /\ z \in Nat /\ len \in Nat /\ b = c + 1
      BY <1>1, <2>2, <2>3
    <3> HIDE DEF b, c, d
    <3>2. b \in Nat \ {0} /\ b + z = d + 1 /\ (b + z <= len + 1 <=> d <= len)
      BY <3>1
    <3>3. QED
      BY <3>2 DEF d
  <2> HIDE DEF b, e, f
  <2>6. ASSUME E[i] <= len PROVE PastFrame(bytes, b) = E[i] + 1 /\ IsWhole(bytes, b) /\ FrameAt(bytes, b) = f
    <3>1. b + Len(e) <= Len(bytes) + 1
      BY <2>5, <2>6 DEF z, len
    <3>2. PastFrame(bytes, b) = b + Len(e) /\ IsWhole(bytes, b) /\ FrameAt(bytes, b) = f
      BY <2>2, <2>4, <2>5, <3>1, WholeIsRead
    <3>3. QED
      BY <2>5, <3>2 DEF z
  <2>7. ASSUME ~(E[i] <= len) PROVE PastFrame(bytes, b) = b /\ ~IsWhole(bytes, b)
    <3>1. ~(b + Len(e) <= Len(bytes) + 1)
      BY <2>5, <2>7 DEF z, len
    <3>2. QED
      BY <2>2, <2>4, <2>5, <3>1, PartIsLeft
  <2>8. QED
    BY <2>6, <2>7 DEF b, f
<1>5. CASE k <= m
  <2>1. k \in 1 .. n /\ k \in 0 .. m /\ k - 1 = j /\ j <= m
    <3>1. k \in Nat \ {0} /\ k = j + 1 /\ j \in Nat /\ n \in Nat /\ m \in 0 .. n
      BY <1>1, <1>2
    <3>2. QED
      BY <1>5, <3>1
  <2>2. E[k] <= len /\ p = E[k - 1] + 1 /\ ReadTo(m, E, k) = E[k] + 1
    BY <1>2, <1>5, <2>1 DEF ReadTo
  <2>3. PastFrame(bytes, p) = E[k] + 1 /\ IsWhole(bytes, p) /\ FrameAt(bytes, p) = fs[k]
    BY <1>4, <2>1, <2>2
  <2>4. QED
    BY <1>5, <2>2, <2>3 DEF Reads
<1>6. CASE ~(k <= m)
  <2>1. m <= j /\ ReadTo(m, E, k) = E[m] + 1 /\ p = E[m] + 1
    <3>1. m <= j /\ (j <= m => j = m)
      <4>1. k \in Nat \ {0} /\ k = j + 1 /\ j \in Nat /\ m \in Nat
        OBVIOUS
      <4>2. QED
        BY <1>6, <4>1
    <3>2. QED
      BY <1>6, <3>1 DEF ReadTo
  <2>2. PastFrame(bytes, p) = p /\ ~IsWhole(bytes, p)
    <3>1. CASE m = n
      <4>1. p \in Nat /\ ~(p <= Len(bytes))
        BY <1>1, <2>1, <3>1 DEF len
      <4>2. QED
        BY <4>1, NothingIsLeft
    <3>2. CASE m # n
      <4> DEFINE i == m + 1
      <4>1. i \in 1 .. n /\ i - 1 = m /\ ~(E[i] <= len)
        BY <1>1, <1>2, <3>2
      <4> HIDE DEF i
      <4>2. QED
        BY <1>4, <2>1, <4>1
    <3>3. QED
      BY <3>1, <3>2
  <2>3. QED
    BY <1>6, <2>1, <2>2 DEF Reads
<1>7. QED
  BY <1>5, <1>6

LEMMA ReadLaid ==
  ASSUME NEW fs \in Seq(OutFrame), \A k \in 1 .. Len(fs) : Len(fs[k].payload) <= RingMax,
         NEW bytes \in Seq(OutByte), NEW E, Laid(fs, bytes, E),
         NEW m \in Nat, Whole(Len(fs), E, Len(bytes), m)
  PROVE  Read(bytes) = [k \in 1 .. m |-> fs[k]]
<1> DEFINE len == Len(bytes)
           F(f) == [k \in 0 .. len |-> IF k = 0 THEN 1 ELSE PastFrame(bytes, f[k - 1])]
           begin == CHOOSE f : f = F(f)
           g == [k \in 0 .. len |-> ReadTo(m, E, k)]
           whole == {k \in 1 .. len : IsWhole(bytes, begin[k - 1])}
<1>1. len \in Nat /\ E[0] = 0 /\ m \in 0 .. Len(fs) /\ m <= E[m] /\ E[m] <= len /\ E[m] \in Nat
  <2>1. m \in 0 .. Len(fs) /\ E[m] <= len
    BY DEF Whole
  <2>2. m <= E[m]
    BY <2>1, LaidRises
  <2>3. len \in Nat /\ E[0] = 0 /\ E \in [0 .. Len(fs) -> Nat]
    BY DEF Laid
  <2>4. QED
    BY <2>1, <2>2, <2>3
<1>2. m <= len
  BY <1>1
<1>3. Read(bytes) = [k \in whole |-> FrameAt(bytes, begin[k - 1])]
  BY DEF Read
<1> HIDE DEF len
<1>4. ASSUME NEW k \in 1 .. len
      PROVE  /\ PastFrame(bytes, ReadTo(m, E, k - 1)) = ReadTo(m, E, k)
             /\ IsWhole(bytes, ReadTo(m, E, k - 1)) <=> k <= m
             /\ k <= m => FrameAt(bytes, ReadTo(m, E, k - 1)) = fs[k]
  <2> DEFINE j == k - 1
             p == ReadTo(m, E, j)
  <2>1. j \in Nat /\ k \in Nat \ {0} /\ k = j + 1
    BY <1>1
  <2> HIDE DEF j
  <2>2. p = ReadTo(m, E, j)
    OBVIOUS
  <2> HIDE DEF p
  <2>3. Reads(fs, bytes, m, E, k, p)
    BY <2>1, <2>2, ReadStep
  <2>4. QED
    BY <2>3 DEF Reads, p, j
<1>5. g[0] = 1 /\ \A k \in 1 .. len : g[k] = PastFrame(bytes, g[k - 1])
  <2>1. ReadTo(m, E, 0) = 1
    BY <1>1 DEF ReadTo
  <2>2. ASSUME NEW k \in 1 .. len PROVE g[k] = PastFrame(bytes, g[k - 1])
    <3>1. k - 1 \in 0 .. len /\ k \in 0 .. len
      BY <1>1
    <3>2. QED
      BY <1>4, <3>1
  <2>3. 0 \in 0 .. len
    BY <1>1
  <2>4. QED
    BY <2>1, <2>2, <2>3
<1>6. g = F(g)
  <2> HIDE DEF F
  <2>1. ASSUME NEW k \in 0 .. len PROVE g[k] = F(g)[k]
    <3>1. CASE k = 0
      BY <1>5, <3>1 DEF F
    <3>2. CASE k # 0
      <4>1. k \in 1 .. len
        BY <1>1, <3>2
      <4>2. g[k] = PastFrame(bytes, g[k - 1])
        BY <1>5, <4>1
      <4> HIDE DEF g
      <4>3. F(g)[k] = PastFrame(bytes, g[k - 1])
        BY <3>2 DEF F
      <4>4. QED
        BY <4>2, <4>3
    <3>3. QED
      BY <3>1, <3>2
  <2>2. F(g) = [k \in 0 .. len |-> F(g)[k]]
    BY DEF F
  <2>3. g = [k \in 0 .. len |-> g[k]]
    OBVIOUS
  <2> HIDE DEF g
  <2>4. QED
    BY <2>1, <2>2, <2>3
<1> HIDE DEF g
<1>7. begin = F(begin)
  BY <1>6
<1> HIDE DEF begin
<1>8. begin[0] = 1 /\ \A k \in 1 .. len : begin[k] = PastFrame(bytes, begin[k - 1])
  <2>1. 0 \in 0 .. len /\ \A k \in 1 .. len : k \in 0 .. len /\ k # 0
    BY <1>1
  <2>2. QED
    BY <1>7, <2>1
<1> HIDE DEF F
<1>9. Follow(begin, g, len)
  BY <1>5, <1>8 DEF Follow
<1>10. \A k \in 0 .. len : begin[k] = ReadTo(m, E, k)
  <2>1. \A k \in 0 .. len : begin[k] = g[k]
    BY <1>1, <1>9, SamePrefixes
  <2>2. QED
    BY <2>1 DEF g
<1>11. \A k \in 1 .. len : begin[k - 1] = ReadTo(m, E, k - 1)
  <2>1. \A k \in 1 .. len : k - 1 \in 0 .. len
    BY <1>1
  <2>2. QED
    BY <1>10, <2>1
<1>12. whole = 1 .. m
  <2>1. \A k \in 1 .. len : k \in whole <=> k <= m
    BY <1>4, <1>11
  <2>2. whole \subseteq 1 .. len
    OBVIOUS
  <2> HIDE DEF whole
  <2>3. \A k \in 1 .. m : k \in 1 .. len /\ k <= m
    BY <1>1, <1>2
  <2>4. \A k \in 1 .. len : k <= m => k \in 1 .. m
    BY <1>1
  <2>5. \A k : k \in whole <=> k \in 1 .. m
    BY <2>1, <2>2, <2>3, <2>4
  <2>6. QED
    BY <2>5
<1>13. ASSUME NEW k \in 1 .. m PROVE FrameAt(bytes, begin[k - 1]) = fs[k]
  <2>1. k \in 1 .. len /\ k <= m
    BY <1>1, <1>2
  <2>2. QED
    BY <1>4, <1>11, <2>1
<1> HIDE DEF whole
<1>14. QED
  BY <1>3, <1>12, <1>13

(* No frame is longer than the ring may be, so that eight bytes can tell   *)
(* its length.                                                             *)
AcceptedFit == \A k \in 1 .. Len(accepted) : Len(accepted[k].payload) <= RingMax

LEMMA PayloadFits ==
  ASSUME NEW f \in OutFrame, ring.len \in Nat, ~R!Refused(ring, Len(Encoded(f)))
  PROVE  Len(f.payload) <= RingMax
<1> DEFINE n == Len(f.payload)
           header == HeaderWrite(Radix, f.type, n)
           load == f.payload
<1>1. load \in Seq(PayByte) /\ n \in Nat /\ RingMax \in Nat
  BY WsDataAssumption DEF OutFrame
<1>2. PICK S1 : header \in Seq(S1) /\ Len(header) >= 2
  BY <1>1, HeaderIs
<1>3. Encoded(f) = header \o load
  BY DEF Encoded
<1>4. ring.len + Len(Encoded(f)) <= RingMax
  <2>1. ~(ring.len + Len(Encoded(f)) > RingMax)
    BY DEF R!Refused
  <2>2. Len(Encoded(f)) \in Nat
    BY EncodedType
  <2>3. QED
    BY <1>1, <2>1, <2>2
<1>5. Len(load) = n
  OBVIOUS
<1> HIDE DEF header, load, n
<1> DEFINE S == S1 \union PayByte
<1>6. header \in Seq(S) /\ load \in Seq(S)
  BY <1>1, <1>2
<1> HIDE DEF S
<1>7. Len(header \o load) = Len(header) + Len(load) /\ Len(header) \in Nat
  BY <1>6, ConcatProperties
<1>8. n <= RingMax
  BY <1>1, <1>2, <1>3, <1>4, <1>5, <1>7
<1>9. QED
  BY <1>8 DEF n

LEMMA FitsOneMore ==
  ASSUME SendPath, AcceptedFit, NEW f \in OutFrame, Queued(f)
  PROVE  AcceptedFit'
<1>1. accepted' = Append(accepted, f) /\ ~R!Refused(ring, Len(Encoded(f)))
  BY DEF Queued
<1>2. ring.len \in Nat /\ accepted \in Seq(OutFrame)
  BY SendPathBounds DEF RingIsBounded, SendPath
<1>3. Len(f.payload) <= RingMax
  BY <1>1, <1>2, PayloadFits
<1> DEFINE n == Len(accepted)
           more == Append(accepted, f)
<1>4. Len(more) = n + 1 /\ more[n + 1] = f /\ (\A k \in 1 .. n : more[k] = accepted[k]) /\ n \in Nat
  BY <1>2, AppendParts
<1> HIDE DEF more, n
<1>5. ASSUME NEW k \in 1 .. Len(more) PROVE Len(more[k].payload) <= RingMax
  <2>1. CASE k = n + 1
    BY <1>3, <1>4, <2>1
  <2>2. CASE k # n + 1
    <3>1. k \in 1 .. n
      BY <1>4, <2>2
    <3>2. Len(accepted[k].payload) <= RingMax
      BY <3>1 DEF AcceptedFit, n
    <3>3. QED
      BY <1>4, <3>1, <3>2
  <2>3. QED
    BY <2>1, <2>2
<1>6. QED
  BY <1>1, <1>5 DEF AcceptedFit, more

LEMMA AcceptedFitStep ==
  Receiving /\ SendPath /\ AcceptedFit /\ [WsNext]_wsDataVars => AcceptedFit'
<1> SUFFICES ASSUME Receiving, SendPath, AcceptedFit, [WsNext]_wsDataVars PROVE AcceptedFit'
  OBVIOUS
<1>1. ASSUME UNCHANGED accepted PROVE AcceptedFit'
  BY <1>1 DEF AcceptedFit
<1>2. CASE ParseStep
  <2> DEFINE step == ParseNext(frames, parser, payload, data)
             f == [type |-> Close, payload |-> <<>>]
  <2>1. \/ More(step) \/ PingOrPong(step) \/ Invalid(step) \/ PeerCloses(step)
        \/ Message(step) \/ Astray(step)
    BY <1>2 DEF ParseStep
  <2> HIDE DEF step
  <2>2. PeerCloses(step) \/ UNCHANGED accepted
    BY <2>1 DEF More, PingOrPong, Invalid, Message, Astray, outVars
  <2>3. CASE PeerCloses(step)
    <3>1. f \in OutFrame
      BY DEF OutFrame
    <3>2. Queued(f) \/ NotQueued(f)
      BY <2>3 DEF PeerCloses
    <3> HIDE DEF f
    <3>3. CASE Queued(f)
      BY <3>1, <3>3, FitsOneMore
    <3>4. CASE NotQueued(f)
      BY <1>1, <3>4 DEF NotQueued, outVars
    <3>5. QED
      BY <3>2, <3>3, <3>4
  <2>4. QED
    BY <1>1, <2>2, <2>3
<1>3. CASE Echo
  <2> DEFINE f == Last(got)
  <2>1. got \in Seq(Messages) /\ got # <<>>
    BY <1>3 DEF Receiving, Echo
  <2>2. f \in Messages
    BY <2>1, FrontIs
  <2>3. f \in OutFrame
    BY <2>2 DEF Messages, OutFrame
  <2>4. Queued(f) \/ NotQueued(f)
    BY <1>3 DEF Echo
  <2> HIDE DEF f
  <2>5. CASE Queued(f)
    BY <2>3, <2>5, FitsOneMore
  <2>6. CASE NotQueued(f)
    BY <1>1, <2>6 DEF NotQueued, outVars
  <2>7. QED
    BY <2>4, <2>5, <2>6
<1>4. ParseStep \/ Echo \/ UNCHANGED accepted
  BY DEF wsDataVars, outVars, WsNext, Receive, Consume, WsSend, HandleSend, SendReady, Fails
<1>5. QED
  BY <1>1, <1>2, <1>3, <1>4

(* What is read of the bytes that are sent.                                *)
LEMMA ReadIsAccepted ==
  ASSUME SendPath, AcceptedFit
  PROVE  WireIsAccepted
<1> DEFINE n == Len(accepted)
<1>1. accepted \in Seq(OutFrame) /\ n \in Nat /\ SentInOrder
  BY SendPathOrders DEF SendPath
<1>2. \A k \in 1 .. Len(accepted) : Len(accepted[k].payload) <= RingMax
  BY DEF AcceptedFit
<1>3. PICK rest \in Seq(OutByte) : wire \o rest = AcceptedBytes /\ (~sending => rest = <<>>)
  <2>1. CASE sending
    BY <1>1, <2>1 DEF SentInOrder
  <2>2. CASE ~sending
    <3>1. wire = AcceptedBytes
      BY <1>1, <2>2 DEF SentInOrder
    <3>2. AcceptedBytes \in Seq(OutByte)
      BY <1>1, AcceptedParts DEF AcceptedBytes
    <3>3. AcceptedBytes \o Nothing = AcceptedBytes /\ Nothing \in Seq(OutByte)
      BY <3>2, ConcatEmpty
    <3>4. QED
      BY <3>1, <3>3 DEF Nothing
  <2>3. QED
    BY <2>1, <2>2
<1>4. wire \in Seq(OutByte)
  <2>1. PICK from : Queue(ring.chunks, from, AcceptedBytes)
                    /\ Out(ring, from, wire, sending, sendOp, opDone)
    BY DEF SendPath, Leaving
  <2>2. QED
    BY <2>1, WireGoesOn
<1>5. PICK E : Laid(accepted, wire, E) /\ (rest = <<>> => Len(wire) = E[n])
  BY <1>1, <1>3, <1>4, FramesLaid DEF AcceptedBytes
<1>6. PICK m \in Nat : Whole(n, E, Len(wire), m)
  BY <1>1, <1>4, <1>5, WholeSome
<1>7. Read(wire) = [k \in 1 .. m |-> accepted[k]]
  BY <1>1, <1>2, <1>4, <1>5, <1>6, ReadLaid
<1>8. m \in 0 .. n
  BY <1>6 DEF Whole
<1>9. IsPrefix(Read(wire), accepted)
  <2> DEFINE s == [k \in 1 .. m |-> accepted[k]]
             t == accepted
  <2>1. s \in Seq(OutFrame) /\ Len(s) = m /\ m <= Len(t) /\ \A k \in 1 .. m : s[k] = t[k]
    BY <1>1, <1>8
  <2>2. 0 + m <= Len(s) /\ 0 + m <= Len(t) /\ 1 = 0 + 1 /\ m = 0 + m /\ 0 \in Nat
    BY <1>8, <2>1
  <2> HIDE DEF s, t
  <2>3. SubSeq(s, 1, m) = [i \in 1 .. m |-> s[0 + i]]
    BY <1>8, <2>1, <2>2, PieceIs
  <2>4. SubSeq(t, 1, m) = [i \in 1 .. m |-> t[0 + i]]
    BY <1>1, <1>8, <2>2, PieceIs DEF t
  <2>5. \A i \in 1 .. m : 0 + i = i
    BY <1>8
  <2>6. SubSeq(s, 1, m) = SubSeq(t, 1, m)
    BY <2>1, <2>3, <2>4, <2>5
  <2>7. QED
    BY <1>7, <2>1, <2>6 DEF IsPrefix, s, t
<1>10. ~sending => Read(wire) = accepted
  <2>1. ASSUME ~sending PROVE m = n
    <3>1. Len(wire) = E[n]
      BY <1>3, <1>5, <2>1
    <3>2. ASSUME m # n PROVE FALSE
      <4>1. m + 1 \in 0 .. n /\ n \in 0 .. n
        BY <1>1, <1>8, <3>2
      <4>2. E[m + 1] <= E[n]
        BY <1>1, <1>5, <4>1, LaidRises
      <4>3. QED
        BY <1>6, <3>1, <3>2, <4>2 DEF Whole
    <3>3. QED
      BY <3>2
  <2>2. accepted = [k \in 1 .. n |-> accepted[k]]
    BY <1>1
  <2>3. QED
    BY <1>7, <2>1, <2>2
<1>11. QED
  BY <1>9, <1>10 DEF WireIsAccepted

-----------------------------------------------------------------------------
(* The WebSocket.                                                          *)

LEMMA ConnInvariant == ConnSpec => [](Receiving /\ SendPath /\ AcceptedFit)
<1>1. ConnInit => Receiving /\ SendPath /\ AcceptedFit
  <2>1. WsInit => AcceptedFit
    <3>1. \A k \in 1 .. Len(<<>>) : FALSE
      OBVIOUS
    <3>2. QED
      BY <3>1 DEF WsInit, AcceptedFit
  <2>2. QED
    BY <2>1, ReceivingInit, SendPathInit DEF ConnInit
<1>2. (Receiving /\ SendPath /\ AcceptedFit) /\ [ConnNext]_connVars
      => (Receiving /\ SendPath /\ AcceptedFit)'
  <2>1. [ConnNext]_connVars => [WsNext]_wsDataVars
    BY DEF ConnNext, Exchanges, Talks, connVars
  <2>2. QED
    BY <2>1, ReceivingStep, SendPathStep, AcceptedFitStep
<1>3. QED
  BY <1>1, <1>2, PTL DEF ConnSpec

(* The state of the parser is one the code has, and the header fits its    *)
(* buffer unless bytes that follow it were taken for a part of it.         *)
THEOREM WsTypeCorrect == ConnSpec => []WsTypeOK
<1>1. Receiving => WsTypeOK
  BY DEF Receiving, ParserFits, HeaderFits, Parsers, WsTypeOK, HeaderBufLen
<1>2. QED
  BY <1>1, ConnInvariant, PTL

(* However a message is cut into frames and receives, no more of it than   *)
(* the limit is ever kept.                                                 *)
THEOREM MessagesAreLimited == ConnSpec => [](~parser.lost /\ ~Wraps => Len(payload) <= MaxMessageLen)
<1>1. Receiving => (~parser.lost /\ ~Wraps => Len(payload) <= MaxMessageLen)
  BY ReceivingLimits
<1>2. QED
  BY <1>1, ConnInvariant, PTL

(* What th_ws_queue_frame took is on the wire byte by byte, in its order,  *)
(* up to some place, and to its end when no send is in flight.             *)
THEOREM SentAsAccepted == ConnSpec => []SentInOrder
<1>1. SendPath => SentInOrder
  BY SendPathOrders
<1>2. QED
  BY <1>1, ConnInvariant, PTL

(* The ring's length is within TH_CONFIG_WS_SEND_MAX_LEN, covers what is   *)
(* not on the wire yet, and is zero when nobody sends.                     *)
THEOREM RingBounded == ConnSpec => []RingIsBounded
<1>1. SendPath => RingIsBounded
  BY SendPathBounds
<1>2. QED
  BY <1>1, ConnInvariant, PTL

(* A client that reads the wire by the lengths in the headers reads the    *)
(* frames th_ws_queue_frame took, in their order, as far as they are whole,*)
(* and all of them when no send is in flight.                              *)
THEOREM ReadAsAccepted == ConnSpec => []WireIsAccepted
<1>1. SendPath /\ AcceptedFit => WireIsAccepted
  BY ReadIsAccepted
<1>2. QED
  BY <1>1, ConnInvariant, PTL
=============================================================================
