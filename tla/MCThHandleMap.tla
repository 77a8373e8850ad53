----------------------------- MODULE MCThHandleMap -----------------------------
(***************************************************************************)
(* Descriptors for instances of ThHandleMap: those that collide at every   *)
(* size of the table or lie next to each other, all in its low end so that *)
(* no run of entries goes around; and those that collide at its high end.  *)
(***************************************************************************)
EXTENDS ThHandleMap

Low == {16, 17, 18, 32, 48}
Spread == {7, 15, 23, 31}
=============================================================================
