------------------------------ MODULE MCThPoll ------------------------------
(* Small instances of ThPoll for TLC.                                      *)
EXTENDS ThPoll, TLC

MCTasks == Sockets \X {"read"} \union (Sockets \ Untimed) \X {"write"}

MCSymmetry == Permutations(Sockets \ Untimed) \union Permutations(Fds)
=============================================================================
