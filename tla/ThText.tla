--------------------------------- MODULE ThText ---------------------------------
(***************************************************************************)
(* The text functions the request parser and the router share: th_str.c,   *)
(* th_url_decode.c, th_cookie_parser.c.                                    *)
(*                                                                         *)
(* A byte is a string: a delimiter ("CR", " ", ":" ...), a digit, or a     *)
(* whole word.  An escape of a byte is one, too: "%a" that of "a", and "%" *)
(* is a malformed escape.  "bad" stands for a byte allowed nowhere.        *)
(***************************************************************************)
EXTENDS Integers, Sequences, SequencesExt, FiniteSetsExt

CONSTANT
  UintRange  \* values of an unsigned int: 2^32

Digits == [d \in {"0", "1", "2", "3", "4", "5", "6", "7", "8", "9"} |->
             CHOOSE n \in 0 .. 9 : ToString(n) = d]

Unprintable == {"CR", "LF", "bad"}

(* Bytes that end or spoil a method, a name and a path: a double quote,     *)
(* too, though a value may hold it.                                        *)
NotToken == Unprintable \cup {" ", "DQ"}

(* th_str_find_first: 0 if there is none.                                  *)
Find(s, bytes) == SelectInSeq(s, LAMBDA c : c \in bytes)

Before(s, i) == SubSeq(s, 1, i - 1)
After(s, i) == SubSeq(s, i + 1, Len(s))

(* What comes before the first of the bytes: all, if there is none.        *)
Until(s, bytes) == IF Find(s, bytes) = 0 THEN s ELSE Before(s, Find(s, bytes))

SkipSpace(s) ==
  LET first == SelectInSeq(s, LAMBDA c : c # " ")
  IN IF first = 0 THEN <<>> ELSE SubSeq(s, first, Len(s))

(* th_str_trim                                                             *)
Trim(s) == SubSeq(SkipSpace(s), 1, SelectLastInSeq(SkipSpace(s), LAMBDA c : c # " "))

(* th_str_is_uint: true of nothing at all, too.                            *)
IsUint(s) == \A i \in DOMAIN s : s[i] \in DOMAIN Digits

(* th_str_to_uint: the number its digits make, up to a byte that is none.  *)
ToUint(s) ==
  LET other == SelectInSeq(s, LAMBDA c : c \notin DOMAIN Digits)
  IN FoldLeft(LAMBDA n, c : (n * 10 + Digits[c]) % UintRange, 0,
              IF other = 0 THEN s ELSE Before(s, other))

-----------------------------------------------------------------------------
Escapes == ("%a" :> "a") @@ ("%/" :> "/") @@ ("%1" :> "1")

(* th_url_decode_string fails, or returns this.                            *)
Undecodable(s) == Contains(s, "%")

Decode(s) == [i \in DOMAIN s |-> IF s[i] \in DOMAIN Escapes THEN Escapes[s[i]] ELSE s[i]]

DecodeQuery(s) == [i \in DOMAIN s |-> IF s[i] = "+" THEN " " ELSE Decode(s)[i]]

(* A loop: the step, so many times.  (How many bounds the depth of TLC's   *)
(* evaluation: a bound that counts lines is better than one that counts    *)
(* bytes.)                                                                 *)
Repeat(n, Step(_), start) ==
  LET after[k \in 0 .. n] == IF k = 0 THEN start ELSE Step(after[k - 1])
  IN after[n]

(***************************************************************************)
(* A list of pairs, at most so many, is scanned one by one: Next(rest) is  *)
(* the next pair, what is behind it, and whether there is more.            *)
(***************************************************************************)
NoPair == [ok |-> FALSE, pair |-> <<>>, rest |-> <<>>, more |-> FALSE]

Gathered(acc, next) ==
  [pairs |-> IF next.ok THEN Append(acc.pairs, next.pair) ELSE acc.pairs,
   ok |-> next.ok, rest |-> next.rest, more |-> next.more]

Scan(most, s, empty, Next(_)) ==
  Repeat(most,
         LAMBDA acc : IF acc.ok /\ acc.more THEN Gathered(acc, Next(acc.rest)) ELSE acc,
         [pairs |-> <<>>, ok |-> TRUE, rest |-> s, more |-> ~empty])

(* th_request_parser_do_next_queryvar and th_request_map_store_url_decoded *)
NextVar(s) ==
  LET eq == Find(s, {"="})
      tail == After(s, eq)
      amp == Find(tail, {"&"})
      key == Trim(Before(s, eq))
      value == Trim(Until(tail, {"&"}))
  IN IF eq = 0 \/ Undecodable(key \o value) THEN NoPair
     ELSE [ok |-> TRUE, pair |-> <<DecodeQuery(key), DecodeQuery(value)>>,
           rest |-> IF amp = 0 THEN <<>> ELSE After(tail, amp), more |-> amp # 0]

(* The variables of a query or of a form: of nothing, too, there is to be  *)
(* one.                                                                    *)
Vars(s) == Scan(Len(s) + 1, s, FALSE, NextVar)

(* Bytes that are not in a cookie's name, and not in its value, in quotes  *)
(* or not (then it has no space, either).                                  *)
NotInValue == {";", ",", "\\", "DQ"}
NotInName == NotInValue \cup {"=", ":", "?", "/", " "}

(* th_cookie_parser_next                                                   *)
CookieBefore(name, value, end) ==
  IF end # <<>> /\ end[1] # ";" THEN NoPair
  ELSE [ok |-> TRUE, pair |-> <<name, value>>,
        rest |-> IF end = <<>> THEN <<>> ELSE Tail(end), more |-> Len(end) > 1]

CookieValue(name, start) ==
  LET bare == Until(start, NotInValue \cup {" "})
      quoted == Until(Tail(start), NotInValue)
      behind == After(start, Len(quoted) + 1)
  IN IF start = <<>> \/ start[1] # "DQ"
     THEN CookieBefore(name, bare, SkipSpace(After(start, Len(bare))))
     ELSE IF behind # <<>> /\ behind[1] = "DQ"
     THEN CookieBefore(name, quoted, SkipSpace(Tail(behind)))
     ELSE NoPair

CookieBehind(name, behindName) ==
  IF name = <<>> \/ behindName = <<>> \/ behindName[1] # "=" THEN NoPair
  ELSE CookieValue(name, SkipSpace(Tail(behindName)))

NextCookie(s) ==
  LET name == Until(SkipSpace(s), NotInName)
  IN CookieBehind(name, SkipSpace(After(SkipSpace(s), Len(name))))

Cookies(s) == Scan(Len(s), s, s = <<>>, NextCookie)

(* th_request_vec_get: of several with the key the first.                  *)
Get(pairs, key) ==
  LET at == SelectInSeq(pairs, LAMBDA p : p[1] = <<key>>)
  IN IF at = 0 THEN <<>> ELSE pairs[at][2]
=============================================================================
