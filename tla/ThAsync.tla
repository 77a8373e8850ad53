------------------------------ MODULE ThAsync -------------------------------
(***************************************************************************)
(* What the asynchronous I/O layer (th_op, th_socket, th_reactor, th_loop) *)
(* promises its clients, with no queue of tasks, descriptors or timers: an *)
(* operation that was started is completed exactly once, and its callback  *)
(* runs exactly once, with the result it completed with, in the order of   *)
(* completion, one callback at a time and never inside the call that       *)
(* started the operation.                                                  *)
(***************************************************************************)
EXTENDS Sequences, SequencesExt

CONSTANTS
  Ops,      \* operations clients start
  Results,  \* results a callback can be given
  Canceled, \* the result of a cancelled operation
  NoOp      \* no callback is running

VARIABLES
  flying,     \* operations waiting for the outside world
  completed,  \* <<operation, result>> in order of completion
  delivering  \* the operation whose callback runs, NoOp if none

vars == <<flying, completed, delivering>>

Finished == {c[1] : c \in ToSet(completed)}

TypeOK ==
  /\ flying \subseteq Ops
  /\ completed \in Seq(Ops \X Results)
  /\ delivering \in Ops \union {NoOp}

Init ==
  /\ flying = {}
  /\ completed = <<>>
  /\ delivering = NoOp

(* A client starts an operation: it may be satisfied at once, but even     *)
(* then the callback is only queued.                                       *)
Start(o) ==
  /\ o \notin flying \union Finished
  /\ \/ /\ flying' = flying \union {o}
        /\ UNCHANGED completed
     \/ /\ \E r \in Results : completed' = Append(completed, <<o, r>>)
        /\ UNCHANGED flying
  /\ UNCHANGED delivering

(* The outside world, or a timeout, completes an operation.                *)
Complete(o) ==
  /\ o \in flying
  /\ flying' = flying \ {o}
  /\ \E r \in Results : completed' = Append(completed, <<o, r>>)
  /\ UNCHANGED delivering

(* A client cancels a group of operations, in some order.                  *)
Cancel ==
  \E group \in SUBSET flying : \E order \in SetToSeqs(group) :
    /\ flying' = flying \ group
    /\ completed' = completed \o [i \in DOMAIN order |-> <<order[i], Canceled>>]
    /\ UNCHANGED delivering

Deliver ==
  /\ delivering = NoOp
  /\ completed # <<>>
  /\ delivering' = Head(completed)[1]
  /\ completed' = Tail(completed)
  /\ UNCHANGED flying

Return ==
  /\ delivering # NoOp
  /\ delivering' = NoOp
  /\ UNCHANGED <<flying, completed>>

Next ==
  \/ \E o \in Ops : Start(o) \/ Complete(o)
  \/ Cancel
  \/ Deliver
  \/ Return

(* Callbacks that are due are run: completions are never stranded.         *)
Spec == Init /\ [][Next]_vars /\ WF_vars(Deliver) /\ WF_vars(Return)
=============================================================================
