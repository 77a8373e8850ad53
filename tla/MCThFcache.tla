------------------------------ MODULE MCThFcache ------------------------------
(* Instances of ThFcache.                                                  *)
EXTENDS ThFcache, TLC

Symmetry == Permutations(Names) \union Permutations(Blocks) \union Permutations(Responses)
=============================================================================
