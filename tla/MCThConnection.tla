---------------------------- MODULE MCThConnection ----------------------------
(* Small instances of ThConnection for TLC.                                *)
EXTENDS ThConnection

(* Segments of routes: "/", a, {int}, {string}, {path}, and one at fault.  *)
Root == [type |-> 0, name |-> <<>>]
L(name) == [type |-> 0, name |-> <<name>>]
I(name) == [type |-> 1, name |-> <<name>>]
S(name) == [type |-> 2, name |-> <<name>>]
P(name) == [type |-> 3, name |-> <<name>>]
Bad == [type |-> 4, name |-> <<>>]

On(method, route, handler) == [method |-> method, route |-> route, handler |-> handler]

H(name, value) == [name |-> <<name>>, value |-> value, pairs |-> <<>>]
V(key, value) == [key |-> <<key>>, value |-> <<value>>, eq |-> TRUE]

(* A request with nothing but a path; what a client may add to it.         *)
Plain(method, path) ==
  [method |-> method, path |-> path, query |-> <<>>, version |-> "HTTP/1.1",
   headers |-> <<>>, body |-> <<>>, form |-> <<>>, parts |-> <<>>, bad |-> ""]

With(r, headers) == [r EXCEPT !.headers = headers]
Asking(r, query) == [r EXCEPT !.query = query]
Refused(r, code) == [r EXCEPT !.bad = code]

(* A POST of several parts, or of what is to be taken for them.            *)
Part(name, content) ==
  [name |-> <<name>>, filename |-> <<>>, type |-> <<>>, content |-> content, told |-> FALSE]

Told(part) == [part EXCEPT !.told = TRUE]

OfLength(r, type, len) ==
  With(r, <<H("content-type", type),
            H("Content-Length", <<ToString(len \div 10), ToString(len % 10)>>)>>)

Uploading(r, type) == OfLength(r, type, Len(BodyText(r)))

Multi == <<"multipart", ";", " ", "boundary", "=", "B">>

Upload(parts) == Uploading([Plain("POST", <<"/", "a">>) EXCEPT !.parts = parts], Multi)

Malformed(body, type) ==
  Refused(Uploading([Plain("POST", <<"/", "a">>) EXCEPT !.body = body], type), "400")

Handshake == <<H("upgrade", <<"websocket">>), H("connection", <<"close", ",", " ", "upgrade">>),
               H("sec-websocket-key", <<"x">>), H("sec-websocket-version", <<"13">>)>>

Serving(routes, requests, piece) ==
  [routes |-> routes, ws |-> FALSE, requests |-> requests, piece |-> piece]

(* The same requests, the routes registered in every order.                *)
Orders == <<<<1, 2, 3>>, <<1, 3, 2>>, <<2, 1, 3>>, <<2, 3, 1>>, <<3, 1, 2>>, <<3, 2, 1>>>>

InAnyOrder(routes, requests) ==
  [k \in DOMAIN Orders |->
     Serving([i \in DOMAIN routes |-> routes[Orders[k][i]]], requests, 0)]

Site == <<On("GET", <<Root>>, "text"), On("GET", <<L("a"), P("rest")>>, "file"),
          On("POST", <<L("a")>>, "text"), On("WS", <<L("ws")>>, "ws")>>

Cookie == [name |-> <<"cookie">>, value |-> <<"a", "=", "DQ", "x", " ", "DQ", ";", " ", "k", "=", "1">>,
           pairs |-> <<<< <<"a">>, <<"x", " ">> >>, << <<"k">>, <<"1">> >> >>]

Requests == <<
  <<With(Asking(Plain("GET", <<"/">>), <<V("k", "%a"), V("a", "+")>>), <<H("host", <<"x">>), Cookie>>),
    Plain("GET", <<"/", "a", "/", "7", "/", "a", "/">>)>>,
  <<With([Plain("POST", <<"/", "a">>) EXCEPT !.body = <<"k", "=", "+", "&", "a", "=", "1">>,
                                             !.form = <<V("k", "+"), V("a", "1")>>],
         <<H("Content-Length", <<"7">>), H("content-type", <<"form">>)>>),
    With(Asking(Plain("HEAD", <<"/">>), <<V("k", "x"), [V("a", "x") EXCEPT !.eq = FALSE]>>),
         <<H("connection", <<"close">>)>>),
    Plain("GET", <<"/">>)>>,
  <<Plain("HEAD", <<"/", "a", "/", "a">>), Plain("OPTIONS", <<"*">>),
    Refused(With(Plain("GET", <<"/">>), <<H("Content-Length", <<"1">>)>>), "400")>>,
  <<With(Plain("GET", <<"/", "ws">>), Tail(Handshake)),
    With([Plain("GET", <<"/", "ws">>) EXCEPT !.version = "HTTP/1.0"], Handshake),
    With(Plain("GET", <<"/", "ws">>),
         [Handshake EXCEPT ![2] = H("connection", <<"keep-alive">>), ![3].value = <<"x", "x">>])>>,
  <<With(Plain("GET", <<"/", "ws">>), [Handshake EXCEPT ![3].value = <<"x", "x">>])>>,
  <<Refused(Plain("BREW", <<"/">>), "501")>>,
  <<Refused(Plain("GET", <<"/", "bad">>), "400")>>,
  <<Refused(With(Plain("GET", <<"/">>), <<[H("x", <<"1">>) EXCEPT !.name = <<"x", "x", "x">>]>>), "431")>>,
  <<Refused(With(Plain("GET", <<"/">>), <<H("cookie", <<"a">>)>>), "400")>>,
  <<Refused(With(Plain("GET", <<"/">>), <<H("cookie", <<"a", "=", "DQ", "x", ";", "DQ">>)>>), "400")>>,
  <<Refused(With(Plain("GET", <<"/">>), <<H("cookie", <<"a", "=", "x", ",">>)>>), "400")>>,
  <<With(Plain("HEAD", <<"/", "ws">>), Handshake)>>,
  <<Refused(With(Plain("POST", <<"/", "a">>), <<H("Content-Length", <<"x">>)>>), "500")>>,
  <<Refused(With([Plain("POST", <<"/", "a">>) EXCEPT !.body = <<"k">>],
                 <<H("content-type", <<"form">>), H("Content-Length", <<"1">>)>>), "400")>>,
  <<Upload(<<[Part("k", <<"x">>) EXCEPT !.filename = <<"a">>, !.type = <<"x">>],
             Part("k", <<"CR", "LF", "-", "-", "B", "x">>), Part("a", <<>>)>>),
    Upload(<<Told(Part("k", <<"-", "-", "B", "x">>)),
             Told(Part("a", <<"x", "CR", "LF", "-", "-", "B">>))>>),
    Upload(<<Told(Part("k", <<"x">>)), Part("a", <<"x">>)>>)>>,
  <<Malformed(<<"-", "-", "B">>, Multi)>>,
  <<Malformed(PartText(Part("k", <<"x">>)), Multi)>>,
  <<Malformed(BodyText(Upload(<<Part("k", <<"x">>)>>)) \o <<"x">>, Multi)>>,
  <<Malformed(BodyText(Upload(<<Part("k", <<"x">>)>>)), <<"multipart">>)>>
>>

(* What a path leads to: literals before captures, a way that ends, a      *)
(* trailing slash, escapes, several registered at once, faults.            *)
Ordered == <<
  <<<<On("GET", <<I("id")>>, "text"), On("GET", <<S("id"), L("a")>>, "file"),
       On("POST", <<L("a"), P("p")>>, "text")>>,
     <<Plain("GET", <<"/", "7", "/", "a">>), Plain("GET", <<"/", "%1">>),
       Plain("GET", <<"/", "a", "/", "a">>), Plain("OPTIONS", <<"/", "x", "/", "a">>)>>>>,
  <<<<On("ANY", <<L("a")>>, "text"), On("GET", <<L("a")>>, "file"), On("WS", <<L("a")>>, "ws")>>,
     <<Plain("GET", <<"/", "%a">>), Plain("POST", <<"/", "a", "/">>)>>>>,
  <<<<On("GET", <<L("a"), S("x"), Bad>>, "file"), On("GET", <<L("a"), S("y")>>, "text"),
       On("GET", <<P("p"), L("a")>>, "file")>>,
     <<Plain("GET", <<"/", "a">>), Plain("GET", <<"/", "a", "/", "%/">>),
       Plain("GET", <<"/", "%", "/", "x">>)>>>>
>>

AllSetups ==
  [k \in DOMAIN Requests |-> Serving(Site, Requests[k], 3)]
  \o FlattenSeq([k \in DOMAIN Ordered |-> InAnyOrder(Ordered[k][1], Ordered[k][2])])
  \o <<Serving(<<On("WS", <<L("ws")>>, "ws"), On("GET", <<L("ws")>>, "gate")>>,
              <<With(Plain("GET", <<"/", "ws">>), Handshake)>>, 3),
       [Serving(Site, <<With(Plain("GET", <<"/", "ws">>), Handshake)>>, 0) EXCEPT !.ws = TRUE]>>

(* Named twice, so that TLC computes it once.                              *)
MCSetups == AllSetups

Do(ops, code) == [ops |-> ops, code |-> code]
Body(len) == [do |-> "body", len |-> len]
File == [do |-> "file"]
Header(name, len) == [do |-> "header", name |-> name, len |-> len]

MCReplies ==
  [h \in {"text", "file", "gate", "ws"} |->
     CASE h = "text" -> {Do(<<Body(2)>>, "200"), Do(<<>>, "500"),
                         Do(<<Header("content-length", 2), Body(2)>>, "200")}
       [] h = "file" -> {Do(<<File>>, "200"), Do(<<File, Body(1)>>, "200")}
       [] h = "gate" -> {Do(<<>>, "101"), Do(<<Body(2)>>, "101"), Do(<<>>, "200"), Do(<<>>, "400")}
       [] h = "ws" -> {}]

(* A frame a client that keeps to the protocol sends.                      *)
F(op, fin, len) ==
  [op |-> op, fin |-> fin, rsv |-> FALSE, masked |-> TRUE, ext |-> "none",
   len |-> len, sent |-> len]

MCFrameSeqs == {
  <<>>,
  <<F(Text, TRUE, 1), F(Binary, TRUE, 2), F(Text, TRUE, 3)>>,
  <<F(Text, TRUE, 0), [F(Text, TRUE, 1) EXCEPT !.ext = "16"], F(Close, TRUE, 0)>>,
  <<F(Text, FALSE, 1), F(Ping, TRUE, 1), F(Continuation, FALSE, 0), F(Continuation, TRUE, 1),
    F(Close, TRUE, 0), F(Text, TRUE, 0)>>,
  <<F(Binary, TRUE, 4), F(Binary, FALSE, 3), F(Continuation, TRUE, 2)>>,
  <<F(Text, FALSE, 2), F(Text, TRUE, 1)>>,
  <<F(Text, TRUE, 0), F(Continuation, TRUE, 1)>>,
  <<[F(Binary, TRUE, 2) EXCEPT !.ext = "64"], [F(Ping, TRUE, 1) EXCEPT !.ext = "16"]>>,
  <<[F(Text, FALSE, 2) EXCEPT !.ext = "64"],
    [F(Continuation, TRUE, 62) EXCEPT !.ext = "64", !.sent = 2]>>,
  <<F(Ping, TRUE, 2), [F(Pong, TRUE, 0) EXCEPT !.fin = FALSE]>>,
  <<F(Text, TRUE, 1), [F(Text, TRUE, 1) EXCEPT !.masked = FALSE]>>}
=============================================================================
