------------------------------- MODULE MCThSsl -------------------------------
(***************************************************************************)
(* The instance of ThSsl for TLC is in its configuration.                  *)
(***************************************************************************)
EXTENDS ThSsl
=============================================================================
