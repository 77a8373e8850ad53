------------------------------- MODULE ThResponse -------------------------------
(***************************************************************************)
(* The response to a request, th_response.c: the headers and the body a    *)
(* handler sets, and what is made of them when it is written.  A header is *)
(* its name and, for Content-Length, the number it says.                   *)
(***************************************************************************)
EXTENDS Integers, Sequences, SequencesExt

CONSTANTS
  LenRange  \* values of an unsigned int: 2^32

(* th_response_init, th_response_reset                                     *)
NewResponse ==
  [headers |-> <<>>, body |-> 0, isFile |-> FALSE, file |-> 0, code |-> "200",
   onlyHeaders |-> FALSE]

(***************************************************************************)
(* The names th_header_id_from_string knows, as they are written: not in   *)
(* the capitals of Content-Type, Content-Length or Date, in which the code *)
(* itself and most handlers write them.                                    *)
(***************************************************************************)
KnownIds == {"content-type", "content-length", "connection", "cookie", "transfer-encoding",
             "range"}

(* header_is_set                                                           *)
IsSet(response, name) ==
  name \in KnownIds /\ \E i \in DOMAIN response.headers : response.headers[i][1] = name

(* th_response_add_header: a known one is not added twice.                 *)
AddHeader(response, name, value) ==
  IF IsSet(response, name) THEN response
  ELSE [response EXCEPT !.headers = Append(@, <<name, value>>)]

(* th_response_set_body: so many bytes.                                    *)
SetBody(response, len) == [response EXCEPT !.body = len, !.isFile = FALSE]

(* th_response_set_body_from_file: a file of so many bytes when opened.    *)
SetFile(response, len) ==
  LET typed == IF IsSet(response, "content-type") THEN response
               ELSE AddHeader(response, "Content-Type", 0)
  IN [typed EXCEPT !.isFile = TRUE, !.file = len]

(* Mutant: the length announced is that of the body, whatever is sent.     *)
ClaimOfBody(response) == response.body % LenRange

(* The length that th_response_set_default_headers announces.              *)
Claim(response) == (IF response.isFile THEN response.file ELSE response.body) % LenRange

SwitchingProtocols(response) == response.code = "101"

(* th_response_set_default_headers                                         *)
WithDefaults(response) ==
  LET withLen == IF SwitchingProtocols(response) THEN response
                 ELSE AddHeader(response, "Content-Length", Claim(response))
  IN AddHeader(AddHeader(withLen, "Server", 0), "Date", 0)

(* The plan of th_response_prepare_write: start line and headers, in this  *)
(* order although made in the other, and the body.                         *)
PlanIov(response) ==
  <<[id |-> "start", at |-> 1, len |-> 1],
    [id |-> "headers", at |-> 1, len |-> Len(WithDefaults(response).headers)]>>
  \o IF ~response.onlyHeaders /\ ~response.isFile /\ response.body > 0
     THEN <<[id |-> "body", at |-> 1, len |-> response.body]>> ELSE <<>>

PlanHasFile(response) == ~response.onlyHeaders /\ response.isFile
=============================================================================
