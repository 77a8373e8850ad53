------------------------------ MODULE ThTransfer ------------------------------
(***************************************************************************)
(* The send operations of a TCP connection: th_sendvec.c for an iov and    *)
(* th_sendfile.c for an iov followed by a part of a file, each attempted   *)
(* again and again until the socket has taken all.  A cell is one byte of  *)
(* memory, or of the file: the operation knows where it is, not what it    *)
(* holds when the socket reads it.                                         *)
(***************************************************************************)
EXTENDS Integers, Sequences, SequencesExt, FiniteSetsExt

CONSTANT
  FileChunk  \* bytes of the file read for one attempt

(* th_iov_bytes                                                            *)
IovBytes(iov) == FoldLeft(LAMBDA n, run : n + run.len, 0, iov)

(* The cells an iov stands for, in their order.                            *)
Cells(iov) ==
  FlattenSeq([k \in DOMAIN iov |-> [i \in 1 .. iov[k].len |-> <<iov[k].id, iov[k].at + i - 1>>]])

(* th_iov_consume: runs that were sent, and empty ones, are dropped.       *)
IovConsume(iov, n) ==
  LET first == SelectInSeq([i \in DOMAIN iov |-> IovBytes(SubSeq(iov, 1, i))],
                           LAMBDA bytes : n < bytes)
      gone == n - IovBytes(SubSeq(iov, 1, first - 1))
  IN IF first = 0 THEN <<>>
     ELSE <<[iov[first] EXCEPT !.at = @ + gone, !.len = @ - gone]>>
          \o SubSeq(iov, first + 1, Len(iov))

(* th_sendvec_op_init, th_sendfile_op_init                                 *)
SendVec(iov) ==
  [iov |-> iov, pos |-> 0, file |-> FALSE, len |-> 0, header |-> IovBytes(iov)]

SendFile(iov, len) ==
  [iov |-> iov, pos |-> 0, file |-> TRUE, len |-> len, header |-> IovBytes(iov)]

FilePos(op) == Max({0, op.pos - op.header})

(***************************************************************************)
(* What one attempt offers to the socket: what is left of the iov, and     *)
(* for a file of size bytes now what pread finds of the next chunk.        *)
(***************************************************************************)
Offered(op, size) ==
  LET chunk == Min({op.len - FilePos(op), FileChunk})
      read == IF op.file THEN Max({0, Min({chunk, size - FilePos(op)})}) ELSE 0
  IN Cells(op.iov) \o [i \in 1 .. read |-> <<"file", FilePos(op) + i - 1>>]

(* th_sendvec_op_perform, th_sendfile_op_perform: the socket took n bytes. *)
Performed(op, n) == [op EXCEPT !.pos = @ + n, !.iov = IovConsume(@, n)]

(* Mutant: the header is not counted.                                      *)
FinishedOfFile(op) ==
  IF op.file THEN op.pos = op.len ELSE op.iov = <<>>

Finished(op) ==
  IF op.file THEN op.pos = op.header + op.len ELSE op.iov = <<>>
=============================================================================
