-------------------------------- MODULE MCThWs --------------------------------
(* Instances of ThWs.                                                      *)
EXTENDS ThWs
=============================================================================
