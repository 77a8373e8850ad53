------------------------------ MODULE ThMultipart ------------------------------
(***************************************************************************)
(* Bodies of type multipart/form-data, th_multipart_parser.c: parts with   *)
(* headers of their own between lines that begin with a boundary, the last *)
(* of which ends in "--".  ("-" is a byte here, a boundary may be several.)*)
(***************************************************************************)
EXTENDS ThText

(* th_multipart_parser_find_eol: where lines end.                          *)
Eols(s) == {i \in 1 .. Len(s) - 1 : s[i] = "CR" /\ s[i + 1] = "LF"}

(* The first line, all if it has no end, and what is behind it.            *)
FirstLine(s) == IF Eols(s) = {} THEN s ELSE Before(s, Min(Eols(s)))

BehindLine(s) == After(s, Len(FirstLine(s)) + 2)

Dashes == <<"-", "-">>

IsLastBoundary(line, boundary) == IsPrefix(Dashes \o boundary \o Dashes, line)

IsBoundaryLine(line, boundary) ==
  line = Dashes \o boundary \/ IsLastBoundary(line, boundary)

-----------------------------------------------------------------------------
(***************************************************************************)
(* The parameters of a header's value, behind its first ";" (all of it, if *)
(* there is none).  How far one goes is counted without the spaces before  *)
(* it: as many of its last bytes are looked at again, as a parameter of    *)
(* their own.  One that cannot be read ends the list.                      *)
(***************************************************************************)
Param(s, name, value, parsed) ==
  [ok |-> TRUE, pair |-> <<name, value>>, rest |-> After(s, parsed), more |-> parsed < Len(s)]

(* Of what is behind the "=": up to a closing quote, or to the next ";".   *)
ParamValue(s, name, value, at) ==
  LET quote == Find(Tail(value), {"DQ"})
      end == Find(value, {";", " "})
  IN IF value[1] = "DQ"
     THEN IF quote = 0 THEN NoPair ELSE Param(s, name, SubSeq(value, 2, quote), at + quote + 1)
     ELSE IF end = 0 THEN Param(s, name, value, at + Len(value))
     ELSE IF value[end] = " " THEN NoPair
     ELSE Param(s, name, Before(value, end), at + end)

NextParam(s) ==
  LET param == SkipSpace(s)
      at == Find(param, {"=", ";", " "})
  IN IF at = 0 THEN Param(s, param, <<>>, Len(param))
     ELSE IF param[at] = ";" THEN Param(s, Before(param, at), <<>>, at)
     ELSE IF param[at] = " " \/ at = Len(param) THEN NoPair
     ELSE ParamValue(s, Before(param, at), After(param, at), at)

ParamsIn(s) == Scan(Len(s), s, s = <<>>, NextParam)

Params(s) == ParamsIn(After(s, Find(s, {";"})))

(* th_multipart_parser_boundary: the first; a type without one, or with an *)
(* empty one, is refused.                                                  *)
Boundary(type) == Get(Params(type).pairs, "boundary")

(* Of several parameters the last.                                         *)
LastOf(pairs, key) ==
  LET at == SelectLastInSeq(pairs, LAMBDA p : p[1] = <<key>>)
  IN IF at = 0 THEN <<>> ELSE pairs[at][2]

-----------------------------------------------------------------------------
Untold == 0 - 1

(* th_multipart_parser_headers, up to the empty line; names in their usual *)
(* capitals only.                                                          *)
WithHeader(headers, name, value) ==
  CASE name = <<"Content-Disposition">> -> [headers EXCEPT !.disposition = value]
    [] name = <<"Content-Type">> -> [headers EXCEPT !.type = value]
    [] name = <<"Content-Length">> -> [headers EXCEPT !.ok = IsUint(value), !.len = ToUint(value)]
    [] OTHER -> headers

WithLine(headers, line) ==
  LET colon == Find(line, {":"})
  IN IF line = <<>> THEN [headers EXCEPT !.done = TRUE]
     ELSE IF colon = 0 THEN [headers EXCEPT !.ok = FALSE]
     ELSE WithHeader(headers, Trim(Before(line, colon)), Trim(After(line, colon)))

Headers(s) ==
  LET Round(acc) ==
        IF ~acc.ok \/ acc.done THEN acc
        ELSE IF Eols(acc.rest) = {} THEN [acc EXCEPT !.ok = FALSE]
        ELSE WithLine([acc EXCEPT !.rest = BehindLine(@)], FirstLine(acc.rest))
  IN Repeat(Cardinality(Eols(s)) + 1, Round,
            [ok |-> TRUE, done |-> FALSE, rest |-> s, disposition |-> <<>>,
             type |-> <<>>, len |-> Untold])

NoContent == [ok |-> FALSE, content |-> <<>>, rest |-> <<>>, last |-> FALSE]

(***************************************************************************)
(* th_multipart_parser_content with a Content-Length: the boundary must    *)
(* follow, and is skipped by that length again, not by its own.            *)
(***************************************************************************)
ContentOfLength(s, boundary, len) ==
  LET behind == After(s, len)
      line == FirstLine(After(behind, 2))
  IN IF ~IsPrefix(<<"CR", "LF">>, behind) \/ ~IsBoundaryLine(line, boundary) THEN NoContent
     ELSE [ok |-> TRUE, content |-> SubSeq(s, 1, Min({len, Len(s)})),
           rest |-> After(behind, len + Len(boundary) + 2),
           last |-> IsLastBoundary(line, boundary)]

(***************************************************************************)
(* Without: up to the end of the line before the first one that is a       *)
(* boundary, the whole of what is left if there is no such line.           *)
(***************************************************************************)
ContentToBoundary(s, boundary) ==
  LET starts == {p \in {0} \cup {i + 1 : i \in Eols(s)} :
                   /\ Eols(After(s, p)) # {}
                   /\ IsBoundaryLine(FirstLine(After(s, p)), boundary)}
      start == Min(starts)
      line == FirstLine(After(s, start))
  IN IF starts = {} THEN NoContent
     ELSE [ok |-> TRUE, content |-> IF start = 0 THEN s ELSE SubSeq(s, 1, start - 2),
           rest |-> After(s, start + Len(line) + 2),
           last |-> IsLastBoundary(line, boundary)]

(* th_multipart_parser_next                                                *)
Described(headers, params, found) ==
  LET name == LastOf(params.pairs, "name")
  IN IF ~params.ok \/ name = <<>> \/ ~found.ok \/ (found.last /\ found.rest # <<>>) THEN NoPair
     ELSE [ok |-> TRUE, rest |-> found.rest, more |-> ~found.last,
           pair |-> [name |-> name, filename |-> LastOf(params.pairs, "filename"),
                     type |-> headers.type, content |-> found.content]]

PartBehind(headers, boundary) ==
  IF ~headers.ok \/ headers.disposition = <<>> THEN NoPair
  ELSE Described(headers, Params(headers.disposition),
                 IF headers.len = Untold THEN ContentToBoundary(headers.rest, boundary)
                 ELSE ContentOfLength(headers.rest, boundary, headers.len))

NextPart(s, boundary) == PartBehind(Headers(s), boundary)

(* th_multipart_parser_init and th_request_parser_do_multipart_form_data:  *)
(* the parts up to a malformed one.  A body of one boundary and no line is *)
(* gone on with behind its first byte.                                     *)
PartsBetween(boundary, body) ==
  LET rest == IF Eols(body) = {} THEN After(body, 1) ELSE BehindLine(body)
  IN IF boundary = <<>> \/ FirstLine(body) # Dashes \o boundary
     THEN [ok |-> FALSE, pairs |-> <<>>]
     ELSE Scan(Cardinality(Eols(body)) + 1, rest, FALSE, LAMBDA s : NextPart(s, boundary))

Parts(type, body) == PartsBetween(Boundary(type), body)
=============================================================================
