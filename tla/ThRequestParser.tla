---------------------------- MODULE ThRequestParser ----------------------------
(***************************************************************************)
(* The parser of HTTP requests, th_request_parser.c, and the request it    *)
(* fills, th_request.c.  It works on what has arrived of a request and is  *)
(* called again with more; what it has not consumed it sees again from the *)
(* start.  Bytes are those of ThText: cutting a stream inside a word is    *)
(* cutting it before the word, no step of the parser can tell.             *)
(***************************************************************************)
EXTENDS ThText

CONSTANT
  MaxNameLen  \* bytes of a header's name that th_request_parse_handle_header can lower

Multipart == INSTANCE ThMultipart

Methods == {"GET", "HEAD", "POST", "OPTIONS"}

Versions == {"HTTP/1.0", "HTTP/1.1"}

NewParser == [state |-> "method", contentLen |-> 0, encoding |-> "none"]

NewRequest ==
  [method |-> "none", path |-> <<>>, query |-> <<>>, vars |-> <<>>,
   version |-> "HTTP/1.0", headers |-> <<>>, cookies |-> <<>>, forms |-> <<>>,
   parts |-> <<>>, body |-> <<>>, close |-> FALSE, pathvars |-> <<>>]

(* th_request_reset                                                        *)
Reset(request) == NewRequest

(***************************************************************************)
(* What a step returns: the parser and the request behind it, the bytes it *)
(* consumed, and an error.  None consumed means that more must arrive.     *)
(***************************************************************************)
Step(parser, request, parsed) ==
  [parser |-> parser, request |-> request, parsed |-> parsed, err |-> ""]

Error(parser, request, err) ==
  [parser |-> parser, request |-> request, parsed |-> 0, err |-> err]

(* th_request_parser_next_token: up to the byte, if it ends there.         *)
TokenEnd(buffer, until) == Find(buffer, {until} \cup NotToken)

BadToken(buffer, until) ==
  LET end == TokenEnd(buffer, until) IN end # 0 /\ (buffer[end] # until \/ end = 1)

DoMethod(parser, request, buffer) ==
  LET end == TokenEnd(buffer, " ")
  IN IF BadToken(buffer, " ") THEN Error(parser, request, "400")
     ELSE IF end = 0 THEN Step(parser, request, 0)
     ELSE IF end > 2 \/ buffer[1] \notin Methods THEN Error(parser, request, "501")
     ELSE Step([parser EXCEPT !.state = "path"], [request EXCEPT !.method = buffer[1]], end)

(* A query that cannot be parsed is kept, without variables.               *)
WithVars(request, vars) ==
  [request EXCEPT !.vars = IF vars.ok THEN @ \o vars.pairs ELSE <<>>]

WithQuery(request, query) == WithVars([request EXCEPT !.query = query], Vars(query))

(* th_request_parser_next_path_segment                                     *)
SegmentEnd(buffer) == Find(buffer, {"?"} \cup NotToken)

BadSegment(buffer) ==
  SegmentEnd(buffer) # 0 /\ buffer[SegmentEnd(buffer)] \notin {" ", "?"}

(* Mutant: of a query that has not ended what is there is stored already.  *)
DoPathEagerly(parser, request, buffer) ==
  LET end == SegmentEnd(buffer)
      query == After(buffer, end)
      withPath == [request EXCEPT !.path = Before(buffer, end)]
      done == [parser EXCEPT !.state = "version"]
  IN IF BadSegment(buffer) THEN Error(parser, request, "400")
     ELSE IF end = 0 THEN Step(parser, request, 0)
     ELSE IF buffer[end] = " " THEN Step(done, withPath, end)
     ELSE IF BadSegment(query) THEN Error(parser, withPath, "400")
     ELSE IF SegmentEnd(query) = 0 THEN Step(parser, WithQuery(withPath, query), 0)
     ELSE Step(done, WithQuery(withPath, Before(query, SegmentEnd(query))),
               end + SegmentEnd(query))

DoPath(parser, request, buffer) ==
  LET end == SegmentEnd(buffer)
      query == After(buffer, end)
      withPath == [request EXCEPT !.path = Before(buffer, end)]
      done == [parser EXCEPT !.state = "version"]
  IN IF BadSegment(buffer) THEN Error(parser, request, "400")
     ELSE IF end = 0 THEN Step(parser, request, 0)
     ELSE IF buffer[end] = " " THEN Step(done, [withPath EXCEPT !.query = <<>>], end)
     ELSE IF BadSegment(query) THEN Error(parser, withPath, "400")
     ELSE IF SegmentEnd(query) = 0 THEN Step(parser, withPath, 0)
     ELSE Step(done, WithQuery(withPath, Before(query, SegmentEnd(query))),
               end + SegmentEnd(query))

(* The first line of the buffer, once both bytes of its end are there.     *)
Line(buffer) == Until(buffer, {"CR"})

NoLine(buffer) == Len(Line(buffer)) + 1 >= Len(buffer)

BadLine(buffer) == buffer[Len(Line(buffer)) + 2] # "LF"

DoVersion(parser, request, buffer) ==
  LET line == Line(buffer)
  IN IF NoLine(buffer) THEN Step(parser, request, 0)
     ELSE IF BadLine(buffer) \/ Len(line) # 1 \/ line[1] \notin Versions
     THEN Error(parser, request, "400")
     ELSE Step([parser EXCEPT !.state = "headers"], [request EXCEPT !.version = line[1]],
               Len(line) + 2)

-----------------------------------------------------------------------------
(* th_string_to_lower                                                      *)
Lower(name) == [i \in DOMAIN name |->
                  IF name[i] = "Content-Length" THEN "content-length" ELSE name[i]]

(* th_request_add_header                                                   *)
WithHeader(request, name, value) ==
  [request EXCEPT !.headers = Append(@, <<name, value>>)]

(* What a body is, told by its type: a form, or several parts if it begins *)
(* so.                                                                     *)
EncodingOf(type, encoding) ==
  CASE type = <<"form">> -> "form"
    [] type # <<>> /\ type[1] = "multipart" -> "multipart"
    [] OTHER -> encoding

(* th_request_parser_do_cookie_list: those before a malformed one are kept. *)
WithCookies(parser, request, cookies, parsed) ==
  LET added == [request EXCEPT !.cookies = @ \o cookies.pairs]
  IN IF cookies.ok THEN Step(parser, added, parsed) ELSE Error(parser, added, "400")

(* th_request_parse_handle_header                                          *)
HandleHeader(parser, request, name, value, parsed) ==
  LET id == IF Len(name) = 1 THEN name[1] ELSE "unknown"
      stored == WithHeader(request, name, value)
      withLen == [parser EXCEPT !.contentLen = ToUint(value)]
  IN IF Len(name) > MaxNameLen THEN Error(parser, request, "431")
     ELSE CASE id = "cookie" -> WithCookies(parser, request, Cookies(value), parsed)
            [] id = "content-length" ->
                 IF IsUint(value) THEN Step(withLen, request, parsed)
                 ELSE Error(withLen, request, "500")
            [] id = "connection" ->
                 Step(parser,
                      [stored EXCEPT !.close = CASE value = <<"close">> -> TRUE
                                                 [] value = <<"keep-alive">> -> FALSE
                                                 [] OTHER -> @], parsed)
            [] id = "content-type" ->
                 Step([parser EXCEPT !.encoding = EncodingOf(value, @)], stored, parsed)
            [] OTHER -> Step(parser, stored, parsed)

EndOfHeaders(parser, request) ==
  IF parser.contentLen = 0
  THEN Step([parser EXCEPT !.state = "done"], [request EXCEPT !.body = <<>>], 2)
  ELSE IF request.method \in {"GET", "HEAD"} THEN Error(parser, request, "400")
  ELSE Step([parser EXCEPT !.state = "body"], request, 2)

(* The name ends at the first ":" of all that has arrived, which is one of *)
(* this line, since no name goes on past its end.                          *)
DoHeader(parser, request, buffer) ==
  LET line == Line(buffer)
      colon == TokenEnd(buffer, ":")
      value == After(line, colon)
  IN IF NoLine(buffer) THEN Step(parser, request, 0)
     ELSE IF BadLine(buffer) THEN Error(parser, request, "400")
     ELSE IF line = <<>> THEN EndOfHeaders(parser, request)
     ELSE IF BadToken(buffer, ":") \/ Find(value, Unprintable) # 0
     THEN Error(parser, request, "400")
     ELSE HandleHeader(parser, request, Lower(Before(buffer, colon)), Trim(value),
                       Len(line) + 2)

(* Variables or parts are added one by one, up to a malformed one.         *)
WithBody(parser, request, body, forms, parts) ==
  LET filled == [request EXCEPT !.forms = @ \o forms.pairs, !.parts = @ \o parts.pairs]
  IN IF forms.ok /\ parts.ok
     THEN Step([parser EXCEPT !.state = "done"], [filled EXCEPT !.body = body], Len(body))
     ELSE Error(parser, filled, "400")

DoBody(parser, request, buffer) ==
  LET body == SubSeq(buffer, 1, parser.contentLen)
      none == [ok |-> TRUE, pairs |-> <<>>]
      type == Get(request.headers, "content-type")
  IN IF Len(buffer) < parser.contentLen THEN Step(parser, request, 0)
     ELSE WithBody(parser, request, body,
                   IF parser.encoding = "form" THEN Vars(body) ELSE none,
                   IF parser.encoding = "multipart" THEN Multipart!Parts(type, body) ELSE none)

(* th_request_parser_parse_next                                            *)
ParseNext(parser, request, buffer) ==
  CASE parser.state = "method"  -> DoMethod(parser, request, buffer)
    [] parser.state = "path"    -> DoPath(parser, request, buffer)
    [] parser.state = "version" -> DoVersion(parser, request, buffer)
    [] parser.state = "headers" -> DoHeader(parser, request, buffer)
    [] parser.state = "body"    -> DoBody(parser, request, buffer)
    [] parser.state = "done"    -> Step(parser, request, 0)

(* th_request_parser_parse: step by step, until one wants more, fails or   *)
(* ends the request.  Every step but three consumes the end of a line.     *)
Advanced(parsed, next) ==
  [next EXCEPT !.parsed = parsed + @]
  @@ [more |-> next.err = "" /\ next.parsed > 0 /\ next.parser.state # "done"]

Parse(parser, request, buffer) ==
  LET Round(acc) ==
        IF ~acc.more \/ acc.parsed >= Len(buffer) THEN acc
        ELSE Advanced(acc.parsed, ParseNext(acc.parser, acc.request, After(buffer, acc.parsed)))
  IN Repeat(3 + Cardinality({i \in DOMAIN buffer : buffer[i] = "CR"}), Round,
            Step(parser, request, 0) @@ [more |-> TRUE])
=============================================================================
