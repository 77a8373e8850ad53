------------------------------- MODULE ThExchange -------------------------------
(***************************************************************************)
(* What goes through an HTTP connection: requests in pieces of any size,   *)
(* parsed (ThRequestParser), led to a handler (ThRouter), answered         *)
(* (ThResponse) and sent (ThTransfer), from memory or from a file.         *)
(* th_http.c is modelled for its counters and limits in ThHttp; here it    *)
(* joins the parts, for requests within the limits.                        *)
(*                                                                         *)
(* The client awaits the answer before the next request, and gives up when *)
(* it is refused before it has sent all.  The application's handlers       *)
(* (external) do one of the things Replies says.                           *)
(***************************************************************************)
EXTENDS ThText

CONSTANTS
  Setups,     \* a sequence: the routes of a server, a client's requests, and
              \* the bytes its socket has or takes at a time, if not all
  Replies,    \* what each handler may do: operations and a code
  FileSizes,  \* lengths the file may have, at any time
  FileChunk,  \* TH_SOCKET_SENDFILE_BUFFERED_MAX
  MaxNameLen, \* see ThRequestParser
  MaxKeyLen,  \* TH_WS_HANDSHAKE_KEY_MAX_LEN
  LenRange    \* values of an unsigned int

VARIABLES
  setup,     \* the index of what is registered and requested
  turn,      \* the request the client is at
  stage,     \* see ThSession
  close,     \* http->close
  arrived,   \* bytes received
  earlier,   \* bytes that were received for earlier requests
  parsed,    \* http->parsed_bytes
  reader,    \* http->parser
  request,   \* http->request
  response,  \* http->response
  answer,    \* the send operation
  onWire,    \* history: the bytes of the answer the socket has taken
  fileLen,   \* the length of the file now
  seen,      \* history: the request as the router was given it
  outcome    \* history: the handler chosen, or the code of a refusal

askVars == <<setup, turn, arrived, earlier, parsed, reader, request>>
answerVars == <<close, response, answer, onWire, seen, outcome>>
exchangeVars == <<askVars, answerVars, stage, fileLen>>

Parser == INSTANCE ThRequestParser
Route == INSTANCE ThRouter
Resp == INSTANCE ThResponse
Op == INSTANCE ThTransfer

-----------------------------------------------------------------------------
(* What a client writes.                                                   *)

Join(parts, delimiter) ==
  LET Add(text, part) == IF text = <<>> THEN part ELSE text \o <<delimiter>> \o part
  IN FoldLeft(Add, <<>>, parts)

VarText(v) == IF v.eq THEN v.key \o <<"=">> \o v.value ELSE v.key

VarsText(vars) == Join([i \in DOMAIN vars |-> VarText(vars[i])], "&")

HeaderText(h) == h.name \o <<":", " ">> \o h.value \o <<"CR", "LF">>

(* A part of a body; its content has a line of its own.                    *)
ParamText(name, value) ==
  IF value = <<>> THEN <<>> ELSE <<";", " ", name, "=", "DQ">> \o value \o <<"DQ">>

PartText(p) ==
  <<"-", "-", "B", "CR", "LF", "Content-Disposition", ":", " ", "form-data">>
  \o ParamText("name", p.name) \o ParamText("filename", p.filename) \o <<"CR", "LF">>
  \o (IF p.type = <<>> THEN <<>> ELSE HeaderText([name |-> <<"Content-Type">>, value |-> p.type]))
  \o (IF ~p.told THEN <<>>
       ELSE HeaderText([name |-> <<"Content-Length">>, value |-> <<ToString(Len(p.content))>>]))
  \o <<"CR", "LF">> \o p.content \o <<"CR", "LF">>

BodyText(r) ==
  IF r.parts = <<>> THEN r.body
  ELSE FlattenSeq([k \in DOMAIN r.parts |-> PartText(r.parts[k])])
       \o <<"-", "-", "B", "-", "-", "CR", "LF">>

RequestText(r) ==
  <<r.method, " ">> \o r.path
  \o (IF r.query = <<>> THEN <<>> ELSE <<"?">> \o VarsText(r.query))
  \o <<" ", r.version, "CR", "LF">>
  \o FlattenSeq([i \in DOMAIN r.headers |-> HeaderText(r.headers[i])])
  \o <<"CR", "LF">> \o BodyText(r)

(* All of it, and where each request ends.  (Sequences, rather than        *)
(* functions, for TLC to compute them once.)                               *)
TextsOf(requests) == <<>> \o [k \in DOMAIN requests |-> RequestText(requests[k])]

RequestTexts == <<>> \o [s \in DOMAIN Setups |-> TextsOf(Setups[s].requests)]

Texts == <<>> \o [s \in DOMAIN Setups |-> FlattenSeq(RequestTexts[s])]

TextEnds == <<>> \o
  [s \in DOMAIN Setups |->
     <<>> \o [k \in DOMAIN RequestTexts[s] |->
                Len(FlattenSeq(SubSeq(RequestTexts[s], 1, k)))]]

Routers == <<>> \o [s \in DOMAIN Setups |-> Route!Registered(Setups[s].routes)]

Router == Routers[setup]

Asked == Setups[setup].requests[turn]

AllArrived == arrived = TextEnds[setup][turn]

-----------------------------------------------------------------------------
NoAnswer == Op!SendVec(<<>>)

(* Of so many bytes, how many may come or go at once.                      *)
Pieces(bytes) == (1 .. Min({Setups[setup].piece, bytes})) \cup {bytes}

ExchangeInit ==
  /\ setup \in DOMAIN Setups
  /\ turn = 1
  /\ stage = "unborn"
  /\ close = FALSE
  /\ arrived = 0 /\ earlier = 0 /\ parsed = 0
  /\ reader = Parser!NewParser
  /\ request = Parser!NewRequest
  /\ response = Resp!NewResponse
  /\ answer = NoAnswer
  /\ onWire = <<>>
  /\ fileLen \in FileSizes
  /\ seen = Parser!NewRequest
  /\ outcome = ""

(* An attempt of the operation: the socket takes n of the bytes offered.   *)
Take(op, n) ==
  /\ answer' = Op!Performed(op, n)
  /\ onWire' = onWire \o SubSeq(Op!Offered(op, fileLen), 1, n)

(* th_http_write_response_cb, th_response_prepare_write, th_conn_send      *)
Write(resp) ==
  LET op == IF Resp!PlanHasFile(resp) THEN Op!SendFile(Resp!PlanIov(resp), resp.file)
            ELSE Op!SendVec(Resp!PlanIov(resp))
  IN /\ stage' = "writing"
     /\ response' = Resp!WithDefaults(resp)
     /\ \E n \in {0} \cup Pieces(Len(Op!Offered(op, fileLen))) : Take(op, n)

(* th_http_write_error_response: a body of its own if there is none.       *)
WriteError(resp, code) ==
  LET coded == [resp EXCEPT !.code = code]
      filled == IF ~resp.isFile /\ resp.body = 0 THEN Resp!SetBody(coded, 2) ELSE coded
  IN Write(IF close' THEN Resp!AddHeader(filled, "Connection", 0) ELSE filled)

(* th_http_handle_error                                                    *)
HandleError(resp, code) ==
  /\ close' = (close \/ code \in {"500", "503"})
  /\ WriteError(resp, code)

-----------------------------------------------------------------------------
(* th_http_handle_options: "Allow" counts the methods.                     *)
Allowed(req) ==
  IF req.path = <<"*">> THEN {"GET", "POST"}
  ELSE {m \in {"GET", "POST"} : Route!WouldHandle(Router, m, req.path)}

(* th_ws_connection_has_upgrade_token: of a list with commas.              *)
HasUpgradeToken(value) ==
  \E i \in 0 .. Len(value) :
    /\ i > 0 => value[i] = ","
    /\ Trim(Until(After(value, i), {","})) = <<"upgrade">>

(* th_ws_is_handshake                                                      *)
IsHandshake(req) ==
  /\ req.method = "GET"
  /\ Get(req.headers, "upgrade") = <<"websocket">>
  /\ HasUpgradeToken(Get(req.headers, "connection"))
  /\ Get(req.headers, "sec-websocket-key") # <<>>
  /\ Get(req.headers, "sec-websocket-version") = <<"13">>

(* th_http_try_upgrade_ws; a key too long for th_ws_handshake_accept_key   *)
(* makes the answer a new one.                                             *)
TryUpgrade(req, resp) ==
  LET upgrade == Resp!AddHeader(resp, "Upgrade", 0)
      accepted == Resp!AddHeader(Resp!AddHeader(upgrade, "Connection", 0),
                                 "Sec-WebSocket-Accept", 0)
  IN IF Route!WsHandler(Router, req.path) = "none" \/ ~IsHandshake(req)
     THEN HandleError(upgrade, "426")
     ELSE IF Len(Get(req.headers, "sec-websocket-key")) > MaxKeyLen
     THEN HandleError(Resp!NewResponse, "500")
     ELSE Write(accepted) /\ UNCHANGED close

(* th_set_body, th_set_body_from_file, th_add_header                       *)
Applied(resp, ops) ==
  FoldLeft(LAMBDA r, op : CASE op.do = "body"   -> Resp!SetBody(r, op.len)
                            [] op.do = "file"   -> Resp!SetFile(r, fileLen)
                            [] op.do = "header" -> Resp!AddHeader(r, op.name, op.len),
           resp, ops)

(* The handler has set headers and a body or a file, and returns a code.   *)
Replied(resp, set, code) ==
  [resp EXCEPT !.headers = set.headers, !.body = set.body, !.isFile = set.isFile,
               !.file = set.file, !.code = code]

(* th_http_handle_request_and_write_response, by the code it gets.         *)
Respond(req, resp) ==
  CASE resp.code = "101" /\ req.version = "HTTP/1.0" ->
         HandleError(Resp!SetBody(resp, 3), "400")
    [] resp.code = "101" /\ req.version # "HTTP/1.0" -> TryUpgrade(req, resp)
    [] resp.code \in {"400", "404", "405", "500"} -> HandleError(resp, resp.code)
    [] OTHER ->
         /\ close' = (close \/ req.close)
         /\ Write(Resp!AddHeader(resp, "Connection", 0))

(* th_http_prehandle_request                                               *)
Prehandle(req) == [req EXCEPT !.method = IF @ = "HEAD" THEN "GET" ELSE @]

(* th_http_handle_route: who is to answer, and what comes of it.           *)
Chosen(req) ==
  IF req.method = "OPTIONS" THEN "options" ELSE Route!Handler(Router, req.method, req.path)

Answers(req, resp, handler) ==
  IF handler = "options"
  THEN {Resp!AddHeader(Resp!AddHeader(resp, "Allow", Cardinality(Allowed(req))), "Content-Type", 0)}
  ELSE IF handler \in DOMAIN Replies
  THEN {Replied(resp, Applied(resp, reply.ops), reply.code) : reply \in Replies[handler]}
  ELSE {[resp EXCEPT !.code = IF handler = Route!WsDefault THEN "101" ELSE handler]}

HandleRequest(req) ==
  LET got == Prehandle(req)
      fresh == [Resp!NewResponse EXCEPT !.onlyHeaders = (req.method = "HEAD")]
  IN /\ request' = [got EXCEPT !.pathvars =
                        IF got.method = "OPTIONS" THEN <<>>
                        ELSE Route!Resolve(Router, got.path).captures]
     /\ seen' = req
     /\ outcome' = Chosen(got)
     /\ \E resp \in Answers(got, fresh, Chosen(got)) : Respond(got, resp)

(* th_http_handle_read_request: n bytes have arrived, the whole of what is *)
(* left of a body.                                                         *)
Arrive(n) ==
  LET buffer == SubSeq(Texts[setup], earlier + parsed + 1, arrived + n)
  IN /\ stage = "reading"
     /\ n > 0
     /\ reader.state = "body" => Len(buffer) = reader.contentLen
     /\ arrived' = arrived + n
     /\ \E result \in {Parser!Parse(reader, request, buffer)} :
          /\ reader' = result.parser
          /\ IF result.err # ""
             THEN /\ outcome' = result.err
                  /\ request' = result.request
                  /\ UNCHANGED <<close, parsed, seen>>
                  /\ WriteError(response, result.err)
             ELSE IF result.parser.state = "done"
             THEN /\ HandleRequest(result.request)
                  /\ UNCHANGED parsed
             ELSE /\ parsed' = parsed + result.parsed
                  /\ request' = result.request
                  /\ UNCHANGED <<stage, answerVars>>
     /\ UNCHANGED <<setup, turn, earlier, fileLen>>

-----------------------------------------------------------------------------
(* th_http_upgrader_upgrade: th_http_start, or too many connections.       *)
Begin ==
  /\ stage = "unborn"
  /\ \/ /\ stage' = "reading"
        /\ UNCHANGED <<askVars, answerVars, fileLen>>
     \/ /\ outcome' = "503"
        /\ HandleError(response, "503")
        /\ UNCHANGED <<askVars, seen, fileLen>>

(* The socket is writable and takes n bytes; a file that has become too    *)
(* short has none to offer, and the operation waits for the same again.    *)
SendMore(n) ==
  /\ stage = "writing"
  /\ ~Op!Finished(answer)
  /\ Take(answer, n)
  /\ UNCHANGED <<askVars, stage, close, response, seen, outcome, fileLen>>

Upgrading == outcome # "503" /\ response.code = "101"

(* th_http_restart: what arrived is behind, the rest is the next request.  *)
Restart ==
  /\ stage' = "reading"
  /\ turn' = turn + 1
  /\ earlier' = arrived
  /\ parsed' = 0
  /\ reader' = Parser!NewParser
  /\ request' = Parser!Reset(request)
  /\ response' = Resp!NewResponse
  /\ answer' = NoAnswer
  /\ onWire' = <<>>
  /\ seen' = Parser!NewRequest
  /\ outcome' = ""
  /\ UNCHANGED <<setup, arrived, close>>

(* th_http_destroy: all of it is gone.                                     *)
Destroyed ==
  /\ parsed' = 0
  /\ reader' = Parser!NewParser
  /\ request' = Parser!NewRequest
  /\ response' = Resp!NewResponse
  /\ answer' = NoAnswer
  /\ onWire' = <<>>
  /\ seen' = Parser!NewRequest
  /\ outcome' = ""
  /\ UNCHANGED <<setup, turn, arrived, earlier>>

(* The connection goes with it.                                            *)
End ==
  /\ stage' = "ended"
  /\ close' = TRUE
  /\ Destroyed

(* th_http_detach_conn: the connection is that of a WebSocket.             *)
Detach ==
  /\ stage' = "upgraded"
  /\ UNCHANGED close
  /\ Destroyed

(* Mutant: http->close is not looked at.                                   *)
WrittenAnyway ==
  /\ stage = "writing"
  /\ Op!Finished(answer)
  /\ IF Upgrading
     THEN Detach
     ELSE IF turn = Len(Setups[setup].requests) \/ ~AllArrived THEN End ELSE Restart
  /\ UNCHANGED fileLen

(* th_http_handle_write_response, th_http_handle_ws_upgrade_written; a     *)
(* client with nothing more to ask, or refused too early, hangs up.        *)
Written ==
  /\ stage = "writing"
  /\ Op!Finished(answer)
  /\ IF Upgrading
     THEN Detach
     ELSE IF close \/ turn = Len(Setups[setup].requests) \/ ~AllArrived THEN End ELSE Restart
  /\ UNCHANGED fileLen

(* A read or write fails or times out.                                     *)
IoFails ==
  /\ stage = "reading" \/ (stage = "writing" /\ ~Op!Finished(answer))
  /\ End
  /\ UNCHANGED fileLen

(* The file is written to by others.                                       *)
FileChanges ==
  /\ stage = "writing" /\ answer.file
  /\ fileLen' \in FileSizes
  /\ UNCHANGED <<askVars, answerVars, stage>>

Sends == Written \/ \E n \in Pieces(Len(Op!Offered(answer, fileLen))) : SendMore(n)

ExchangeNext ==
  \/ Begin
  \/ \E n \in Pieces(TextEnds[setup][turn] - arrived) : Arrive(n)
  \/ Sends
  \/ IoFails
  \/ FileChanges
-----------------------------------------------------------------------------
(* What a request means, from what the client put together.                *)

VarsMeant(vars) ==
  IF \A i \in DOMAIN vars : vars[i].eq /\ ~Undecodable(vars[i].key \o vars[i].value)
  THEN [i \in DOMAIN vars |-> <<DecodeQuery(vars[i].key), DecodeQuery(vars[i].value)>>]
  ELSE <<>>

Named(r, names) == SelectSeq(r.headers, LAMBDA h : Parser!Lower(h.name)[1] \in names)

Meant(r) ==
  LET stored == SelectSeq(r.headers, LAMBDA h : Parser!Lower(h.name)[1] \notin {"cookie", "content-length"})
      wishes == SelectSeq(Named(r, {"connection"}),
                          LAMBDA h : h.value \in {<<"close">>, <<"keep-alive">>})
  IN [method |-> r.method, path |-> r.path, version |-> r.version, body |-> BodyText(r),
      query |-> VarsText(r.query),
      vars |-> VarsMeant(r.query),
      forms |-> VarsMeant(r.form),
      parts |-> [k \in DOMAIN r.parts |->
                   [f \in {"name", "filename", "type", "content"} |-> r.parts[k][f]]],
      headers |-> [i \in DOMAIN stored |-> <<Parser!Lower(stored[i].name), stored[i].value>>],
      cookies |-> FlattenSeq([i \in DOMAIN Named(r, {"cookie"}) |-> Named(r, {"cookie"})[i].pairs]),
      close |-> wishes # <<>> /\ Last(wishes).value = <<"close">>,
      pathvars |-> <<>>]

(* A part that tells its length: the parser goes on so many bytes behind   *)
(* its content, which is the next part by chance only.                     *)
Misjudged(r) ==
  \E k \in DOMAIN r.parts :
    /\ r.parts[k].told
    /\ IF k = Len(r.parts) THEN Len(r.parts[k].content) < 6 ELSE Len(r.parts[k].content) # 4

(* The router is given what the client wrote: the same request however its *)
(* bytes were cut, nothing of it stored twice when a part of it is parsed  *)
(* again, nothing left of the request before; and what is malformed is     *)
(* refused with its code, and only that.                                   *)
RequestIsWritten ==
  stage = "writing" /\ outcome # "503" /\ ~Misjudged(Asked) =>
    IF Asked.bad = "" THEN seen = Meant(Asked)
    ELSE seen = Parser!NewRequest /\ outcome = Asked.bad

-----------------------------------------------------------------------------
(* What routes mean, from their list: no tree, no order of insertion.      *)

(* A capture is known by its type only.                                    *)
Shape(route) ==
  [k \in DOMAIN route |-> IF route[k].type = Route!Literal THEN route[k]
                         ELSE [route[k] EXCEPT !.name = <<>>]]

Faulty(route, k) ==
  \/ route[k].type = Route!Malformed
  \/ route[k].type = Route!PathCapture /\ k < Len(route)

Sound(route) == \A k \in DOMAIN route : ~Faulty(route, k)

(* What there is of a route: up to a fault.                                *)
Begun(route) ==
  SelectInSeq([k \in DOMAIN route |-> Faulty(route, k)], LAMBDA b : b)

BegunRoute(route) == IF Sound(route) THEN route ELSE SubSeq(route, 1, Begun(route) - 1)

ShapesOf(routes) ==
  UNION {Prefixes(Shape(BegunRoute(routes[i].route))) : i \in DOMAIN routes} \ {<<>>}

(* A site is a list of routes and the shapes they begin.                   *)
SiteOf(routes) == [routes |-> routes, shapes |-> ShapesOf(routes)]

Sites == <<>> \o [s \in DOMAIN Setups |-> SiteOf(Setups[s].routes)]

Slashes(path) == SetToSortSeq({i \in DOMAIN path : path[i] = "/"}, <)

Segments(path) ==
  LET slashes == Slashes(path)
      all == [k \in DOMAIN slashes |->
                SubSeq(path, slashes[k] + 1,
                       (IF k < Len(slashes) THEN slashes[k + 1] ELSE Len(path) + 1) - 1)]
  IN IF Len(all) > 1 /\ Last(all) = <<>> THEN Front(all) ELSE all

FitsUpTo(shape, segments, n) ==
  /\ n <= Len(shape) /\ n <= Len(segments)
  /\ \A k \in 1 .. n : Route!Matches(shape[k], Decode(segments[k]))

Leads(shape, segments) ==
  /\ FitsUpTo(shape, segments, Len(shape))
  /\ Len(shape) = Len(segments) \/ Last(shape).type = Route!PathCapture

(* abc < {int} < {string} < {path}, decided at the first segment where two *)
(* differ and both fit, whatever comes behind.                             *)
Beats(p, q, segments) ==
  \A k \in DOMAIN p \cap DOMAIN q :
    SubSeq(p, 1, k - 1) = SubSeq(q, 1, k - 1) /\ p[k] # q[k] /\ FitsUpTo(q, segments, k)
      => p[k].type < q[k].type

Best(site, segments) ==
  {p \in site.shapes : Leads(p, segments) /\ \A q \in site.shapes : Beats(p, q, segments)}

(* The routes of a shape for a method.                                     *)
For(site, shape, method) ==
  {i \in DOMAIN site.routes :
     /\ Sound(site.routes[i].route)
     /\ Shape(site.routes[i].route) = shape
     /\ site.routes[i].method = method}

(* The first one counts, if no route for all methods came before it.       *)
HandlerOf(site, shape, method) ==
  LET any == For(site, shape, "ANY")
      own == {i \in For(site, shape, method) : \A j \in any : i < j}
      open == {i \in For(site, shape, "WS") : \A j \in any : i < j}
  IN IF own # {} THEN site.routes[Min(own)].handler
     ELSE IF method = "GET" /\ open # {} THEN Route!WsDefault
     ELSE IF any # {} THEN site.routes[Min(any)].handler
     ELSE "405"

(* A segment that cannot be decoded matters if the search comes to it.     *)
Undecoded(site, segments) ==
  \E n \in DOMAIN segments :
    /\ Undecodable(segments[n])
    /\ \A k \in 1 .. n - 1 : ~Undecodable(segments[k])
    /\ \E q \in site.shapes :
         /\ Len(q) >= n
         /\ n > 1 => SubSeq(q, 1, n - 1) \in Best(site, SubSeq(segments, 1, n - 1))

HandlerMeant(site, method, path) ==
  LET segments == Segments(path)
      best == Best(site, segments)
  IN IF path[1] # "/" \/ Undecoded(site, segments) THEN "400"
     ELSE IF best = {} THEN "404"
     ELSE HandlerOf(site, CHOOSE p \in best : TRUE, method)

(* What a route's captures are to hold, by the names first given to them:  *)
(* a segment without its escapes, or a path as it was written.             *)
VarsCaptured(routes, shape, path) ==
  LET captures == SetToSortSeq({k \in DOMAIN shape : shape[k].type # Route!Literal}, <)
      named(k) == Min({i \in DOMAIN routes :
                         LET r == BegunRoute(routes[i].route)
                         IN Len(r) >= k /\ SubSeq(Shape(r), 1, k) = SubSeq(shape, 1, k)})
      value(k) == IF shape[k].type = Route!PathCapture THEN After(path, Slashes(path)[k])
                  ELSE Decode(Segments(path)[k])
  IN [j \in DOMAIN captures |->
        <<routes[named(captures[j])].route[captures[j]].name, value(captures[j])>>]

(* A literal segment that is the name of a capture in the same place: the  *)
(* router takes the one for the other.                                     *)
Mistakable(routes) ==
  \E i, j \in DOMAIN routes :
    LET r == BegunRoute(routes[i].route)
        q == BegunRoute(routes[j].route)
    IN \E k \in DOMAIN r \cap DOMAIN q :
         /\ SubSeq(Shape(r), 1, k - 1) = SubSeq(Shape(q), 1, k - 1)
         /\ r[k].type = Route!Literal /\ q[k].type # Route!Literal /\ r[k].name = q[k].name

(* What a client must say to get a WebSocket.  A HEAD will do: by the time *)
(* th_ws_is_handshake looks for a GET, Prehandle has made one of it.       *)
AsksForWebSocket(r) ==
  /\ r.method \in {"GET", "HEAD"} /\ r.version = "HTTP/1.1"
  /\ {"upgrade", "connection", "sec-websocket-key", "sec-websocket-version"} \subseteq
       {r.headers[i].name[1] : i \in DOMAIN r.headers}
  /\ \E i \in DOMAIN r.headers : "upgrade" \in Range(r.headers[i].value)

MethodsFor(site, path) ==
  {m \in {"GET", "POST"} :
     path = <<"*">> \/ HandlerMeant(site, m, path) \notin {"400", "404", "405"}}

HandledAsMeant(site) ==
  LET best == Best(site, Segments(seen.path))
      shape == CHOOSE p \in best : TRUE
  IN /\ IF seen.method = "OPTIONS"
        THEN /\ outcome = "options"
             /\ <<"Allow", Cardinality(MethodsFor(site, seen.path))>> \in Range(response.headers)
        ELSE /\ outcome = HandlerMeant(site, request.method, seen.path)
             /\ outcome \notin {"400", "404"} =>
                  request.pathvars = VarsCaptured(site.routes, shape, seen.path)
     /\ Upgrading => AsksForWebSocket(Asked) /\ For(site, shape, "WS") # {}

(* A request reaches the handler that its path and method stand for, with  *)
(* the variables its path holds: whatever the order in which routes were   *)
(* registered, what else was, and where one of them was at fault.  OPTIONS *)
(* tells what can be reached, and a WebSocket has a route and was asked    *)
(* for with a handshake (by GET or HEAD, see AsksForWebSocket).            *)
RouteIsMeant ==
  stage = "writing" /\ seen # Parser!NewRequest /\ ~Mistakable(Setups[setup].routes) =>
    HandledAsMeant(Sites[setup])

-----------------------------------------------------------------------------
(* The body on the wire, as its own headers announce it.                   *)
Announced ==
  {response.headers[i][2] :
     i \in {j \in DOMAIN response.headers : Parser!Lower(<<response.headers[j][1]>>)[1] = "content-length"}}

BodyOnWire == SubSeq(onWire, Len(response.headers) + 2, Len(onWire))

ContentLen == IF response.isFile THEN response.file ELSE response.body

(* The length is announced with 32 bits; a handler may announce one.       *)
LengthKept ==
  /\ ContentLen < LenRange
  /\ Cardinality(Announced) <= 1

(* What the socket has taken when the send completes is the answer: the    *)
(* start line before the headers, then the bytes of the body, of the file  *)
(* or none for a HEAD, each once, as many as are announced (for a HEAD: as *)
(* a GET would be sent), whatever pieces it took them in.  An upgrade      *)
(* announces none; what its handler has set is sent even so.               *)
AnswerIsWhole ==
  stage = "writing" /\ Op!Finished(answer) =>
    /\ SubSeq(onWire, 1, Len(response.headers) + 1) =
         <<<<"start", 1>>>> \o [i \in DOMAIN response.headers |-> <<"headers", i>>]
    /\ BodyOnWire = [i \in DOMAIN BodyOnWire |->
                       IF response.isFile THEN <<"file", i - 1>> ELSE <<"body", i>>]
    /\ Len(BodyOnWire) = IF response.onlyHeaders THEN 0 ELSE ContentLen
    /\ LengthKept => Announced = IF Upgrading THEN {} ELSE {ContentLen}

(* It does with the connection what a listener may expect, as ThHttp does. *)
Session == INSTANCE ThSession WITH last <- close

ExchangeSession == Session!Spec
=============================================================================
