----------------------------- MODULE MCThListener -----------------------------
(* Instances of ThListener.                                                *)
EXTENDS ThListener
=============================================================================
