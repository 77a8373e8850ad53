------------------------------ MODULE ThSession ------------------------------
(***************************************************************************)
(* What a listener may expect of the HTTP protocol on a connection it has  *)
(* started: it reads, answers, and reads again unless the answer is the    *)
(* last one; at any time it may give the connection up, and after an       *)
(* answer it may hand it over to another protocol.  Nothing happens to a   *)
(* connection that was given up or handed over.                            *)
(***************************************************************************)

VARIABLES
  stage, \* "unborn", "reading", "writing", "upgraded", "ended"
  last   \* the answer that is being written is the last one

vars == <<stage, last>>

Stages == {"unborn", "reading", "writing", "upgraded", "ended"}

TypeOK == stage \in Stages /\ last \in BOOLEAN

Init == stage = "unborn" /\ last = FALSE

(* A connection over the limit is answered before anything is read.        *)
Reject == stage = "unborn" /\ stage' = "writing" /\ last' = TRUE

Begin == stage = "unborn" /\ stage' = "reading" /\ UNCHANGED last

Answer == stage = "reading" /\ stage' = "writing" /\ last' \in BOOLEAN

Again == stage = "writing" /\ ~last /\ stage' = "reading" /\ UNCHANGED last

HandOver == stage = "writing" /\ ~last /\ stage' = "upgraded" /\ UNCHANGED last

End == stage \in {"unborn", "reading", "writing"} /\ stage' = "ended" /\ last' = TRUE

Next == Reject \/ Begin \/ Answer \/ Again \/ HandOver \/ End

Spec == Init /\ [][Next]_vars
=============================================================================
