------------------------------- MODULE MCThHttp -------------------------------
(* Instances of ThHttp.                                                    *)
EXTENDS ThHttp

(* Heads below, at and above both limits; bodies that are empty, that fit  *)
(* behind their head, that fit only when moved, that need a larger buffer  *)
(* and that are refused.                                                   *)
SomeHeads == {1, 2, 3, 4, 5, 6}
SomeBodies == {0, 1, 2, 4, 6, 7}
=============================================================================
