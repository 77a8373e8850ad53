---------------------------- MODULE ThPollProofs ----------------------------
(***************************************************************************)
(* For every set of sockets, descriptors and events and every bound: the   *)
(* type invariant of ThPoll, that its queue and its pending slots never    *)
(* hold an operation twice, and that the loop's task count is exact.       *)
(***************************************************************************)
EXTENDS ThPoll, FiniteSetTheorems, SequenceTheorems, TLAPS

(* The indices of a run of th_poll_reactor_run stay within the vector.     *)
ScanBounds ==
  phase = "reactor" =>
    /\ cursor \in 1 .. Len(revents) + 1
    /\ kept < cursor
    /\ Len(revents) <= Len(fds)

(* An operation whose callback runs is a real one.                         *)
RunningTask == phase = "task" => running \in Tasks

IInv == TypeOK /\ ScanBounds /\ RunningTask /\ OnePlace /\ TaskCount

-----------------------------------------------------------------------------
(* Queues without duplicates.                                              *)

LEMMA AppendUnique ==
  ASSUME NEW S, NEW q \in Seq(S), NEW e \in S, Unique(q), e \notin Elems(q)
  PROVE  /\ Append(q, e) \in Seq(S)
         /\ Unique(Append(q, e))
         /\ Elems(Append(q, e)) = Elems(q) \union {e}
         /\ Len(Append(q, e)) = Len(q) + 1
<1> DEFINE r == Append(q, e)
<1>1. r \in Seq(S) /\ Len(r) = Len(q) + 1
  OBVIOUS
<1>2. /\ DOMAIN r = 1 .. Len(q) + 1
      /\ DOMAIN q = 1 .. Len(q)
      /\ r[Len(q) + 1] = e
      /\ \A i \in 1 .. Len(q) : r[i] = q[i]
      /\ Len(q) \in Nat
  OBVIOUS
<1> HIDE DEF r
<1>3. Unique(r)
  BY <1>2 DEF Unique, Elems
<1>4. Elems(r) = Elems(q) \union {e}
  BY <1>2 DEF Elems
<1>5. QED
  BY <1>1, <1>3, <1>4 DEF r

LEMMA TailUnique ==
  ASSUME NEW S, NEW q \in Seq(S), q # <<>>, Unique(q)
  PROVE  /\ Tail(q) \in Seq(S)
         /\ Unique(Tail(q))
         /\ Elems(Tail(q)) = Elems(q) \ {Head(q)}
         /\ Len(Tail(q)) = Len(q) - 1
         /\ Head(q) \in Elems(q)
         /\ Head(q) \in S
<1> DEFINE r == Tail(q)
<1>1. r \in Seq(S) /\ Len(r) = Len(q) - 1 /\ Head(q) \in S
  OBVIOUS
<1>2. /\ DOMAIN r = 1 .. Len(q) - 1
      /\ DOMAIN q = 1 .. Len(q)
      /\ \A i \in 1 .. Len(q) - 1 : r[i] = q[i + 1]
      /\ Head(q) = q[1]
      /\ Len(q) \in Nat \ {0}
  OBVIOUS
<1> HIDE DEF r
<1>3. Unique(r)
  BY <1>2 DEF Unique
<1>4. Elems(r) = Elems(q) \ {Head(q)}
  <2>1. ASSUME NEW x \in Elems(r) PROVE x \in Elems(q) /\ x # Head(q)
    BY <1>2 DEF Elems, Unique
  <2>2. ASSUME NEW x \in Elems(q), x # Head(q) PROVE x \in Elems(r)
    <3>1. PICK i \in 1 .. Len(q) : x = q[i]
      BY <1>2 DEF Elems
    <3>2. i # 1 /\ i - 1 \in 1 .. Len(q) - 1
      BY <3>1, <2>2, <1>2
    <3>3. r[i - 1] = x
      BY <3>1, <3>2, <1>2
    <3>4. QED
      BY <3>2, <3>3, <1>2 DEF Elems
  <2>3. QED
    BY <2>1, <2>2
<1>5. Head(q) \in Elems(q)
  BY <1>2 DEF Elems
<1>6. QED
  BY <1>1, <1>3, <1>4, <1>5 DEF r

LEMMA TasksFinite == IsFiniteSet(Tasks)
<1>1. IsFiniteSet({"read"}) /\ IsFiniteSet({"write"})
  BY FS_Singleton
<1>2. IsFiniteSet(Sockets \ Untimed)
  BY FS_Subset, PollAssumption
<1>3. IsFiniteSet(Sockets \X {"read"}) /\ IsFiniteSet((Sockets \ Untimed) \X {"write"})
  BY <1>1, <1>2, FS_Product, PollAssumption
<1>4. QED
  BY <1>3, FS_Union, PollAssumption

(* What is pending is finite, and its size follows one added or removed    *)
(* operation.                                                              *)
LEMMA PendingSize ==
  ASSUME NEW P, P \subseteq Tasks
  PROVE  /\ IsFiniteSet(P)
         /\ Cardinality(P) \in Nat
         /\ \A o : Cardinality(P \ {o}) = IF o \in P THEN Cardinality(P) - 1 ELSE Cardinality(P)
         /\ \A o : Cardinality(P \union {o}) = IF o \in P THEN Cardinality(P) ELSE Cardinality(P) + 1
<1>1. IsFiniteSet(P)
  BY TasksFinite, FS_Subset
<1>2. QED
  BY <1>1, FS_CardinalityType, FS_RemoveElement, FS_AddElement

-----------------------------------------------------------------------------
(* The state changes the actions are made of.  Each keeps the queue free   *)
(* of duplicates and apart from the pending operations, and moves the task *)
(* count with what is outstanding.                                         *)

(* The queue and the pending operations, as the invariant needs them.      *)
Shape ==
  /\ queue \in Seq(Tasks \union {ReactorTask})
  /\ numTasks \in Int
  /\ pending \subseteq Tasks
  /\ Unique(queue)
  /\ pending \cap Elems(queue) = {}

LEMMA CompleteStep ==
  ASSUME Shape, NEW o \in Tasks, o \notin Elems(queue),
         NEW r, NEW d \in Int, Complete(o, r, d)
  PROVE  /\ Shape'
         /\ Elems(queue') = Elems(queue) \union {o}
         /\ Len(queue') = Len(queue) + 1
         /\ numTasks' = numTasks + 1 + d
         /\ Cardinality(pending') =
              IF o \in pending THEN Cardinality(pending) - 1 ELSE Cardinality(pending)
<1>1. queue' = Append(queue, o) /\ numTasks' = numTasks + 1 + d
  BY DEF Complete, Account, Shape
<1>2. pending' = pending \ {o}
  BY DEF Complete
<1>3. /\ queue' \in Seq(Tasks \union {ReactorTask})
      /\ Unique(queue')
      /\ Elems(queue') = Elems(queue) \union {o}
      /\ Len(queue') = Len(queue) + 1
  BY <1>1, AppendUnique DEF Shape
<1>4. Unique(queue)'
  BY <1>3 DEF Unique
<1>5. Elems(queue)' = Elems(queue')
  BY DEF Elems
<1>6. Shape'
  BY <1>1, <1>2, <1>3, <1>4, <1>5 DEF Shape
<1>7. QED
  BY <1>1, <1>2, <1>3, <1>6, PendingSize DEF Shape

LEMMA WaitStep ==
  ASSUME Shape, NEW o \in Tasks, o \notin Elems(queue),
         NEW p, NEW d \in Int, Wait(o, p, d)
  PROVE  /\ Shape'
         /\ queue' = queue
         /\ numTasks' = numTasks + 1 + d
         /\ Cardinality(pending') =
              IF o \in pending THEN Cardinality(pending) ELSE Cardinality(pending) + 1
<1>1. queue' = queue /\ numTasks' = numTasks + 1 + d
  BY DEF Wait, Account, Shape
<1>2. pending' = pending \union {o}
  BY DEF Wait
<1>3. Shape'
  BY <1>1, <1>2 DEF Shape, Unique, Elems
<1>4. QED
  BY <1>1, <1>2, <1>3, PendingSize DEF Shape

LEMMA WaitFailsStep ==
  ASSUME Shape, NEW o \in Tasks, o \notin Elems(queue),
         NEW d \in Int, WaitFails(o, d)
  PROVE  /\ Shape'
         /\ Elems(queue') = Elems(queue) \union {o}
         /\ Len(queue') = Len(queue) + 1
         /\ numTasks' = numTasks + 1 + d
         /\ Cardinality(pending') =
              IF o \in pending THEN Cardinality(pending) - 1 ELSE Cardinality(pending)
<1>1. queue' = Append(queue, o) /\ numTasks' = numTasks + 1 + d
  BY DEF WaitFails, Account, Shape
<1>2. pending' = pending \ {o}
  BY DEF WaitFails
<1>3. /\ queue' \in Seq(Tasks \union {ReactorTask})
      /\ Unique(queue')
      /\ Elems(queue') = Elems(queue) \union {o}
      /\ Len(queue') = Len(queue) + 1
  BY <1>1, AppendUnique DEF Shape
<1>4. Unique(queue)' /\ Elems(queue)' = Elems(queue')
  BY <1>3 DEF Unique, Elems
<1>5. Shape'
  BY <1>1, <1>2, <1>3, <1>4 DEF Shape
<1>6. QED
  BY <1>1, <1>2, <1>3, <1>5, PendingSize DEF Shape

(* What one operation that runs its fn does to the count: an operation     *)
(* that was not outstanding is now (d = 0), one that was still is (d = -1).*)
Balance == numTasks - Cardinality(pending) - Len(queue)

LEMMA PerformStep ==
  ASSUME Shape, NEW o \in Tasks, o \notin Elems(queue), NEW most, NEW d \in Int,
         d = (IF o \in pending THEN 0 - 1 ELSE 0), Perform(o, most, d)
  PROVE  /\ Shape'
         /\ Elems(queue') \in {Elems(queue), Elems(queue) \union {o}}
         /\ Balance' = Balance
<1>0. Len(queue) \in Nat /\ Cardinality(pending) \in Nat /\ numTasks \in Int
  BY PendingSize DEF Shape
<1>1. CASE \E r \in IoResults : Complete(o, r, d)
  BY <1>0, <1>1, CompleteStep DEF Balance
<1>2. CASE \E p \in 1 .. most : Wait(o, p, d)
  BY <1>0, <1>2, WaitStep DEF Balance
<1>3. CASE WaitFails(o, d)
  BY <1>0, <1>3, WaitFailsStep DEF Balance
<1>4. QED
  BY <1>1, <1>2, <1>3 DEF Perform

LEMMA CancelStep ==
  ASSUME Shape, NEW s \in Sockets, Cancel(s)
  PROVE  /\ Shape'
         /\ Elems(queue') \subseteq Elems(queue) \union Tasks
         /\ Elems(queue) \subseteq Elems(queue')
         /\ Balance' = Balance
<1> DEFINE R == <<s, "read">>
           W == <<s, "write">>
           P1 == pending \ {R}
           P2 == P1 \ {W}
<1>0. Len(queue) \in Nat /\ Cardinality(pending) \in Nat /\ numTasks \in Int
  BY PendingSize DEF Shape
<1>1. pending' = P2
  BY PollAssumption DEF Cancel, Shape, SocketOf
<1>2. R # W
  OBVIOUS
<1>3. Account(Slot(R) \o Slot(W), 0 - Len(Slot(R) \o Slot(W)))
  BY DEF Cancel, CancelOrder
<1>4. /\ Cardinality(P1) = IF R \in pending THEN Cardinality(pending) - 1 ELSE Cardinality(pending)
      /\ Cardinality(P2) = IF W \in P1 THEN Cardinality(P1) - 1 ELSE Cardinality(P1)
      /\ Cardinality(P1) \in Nat /\ Cardinality(P2) \in Nat
  <2>1. P1 \subseteq Tasks /\ P2 \subseteq Tasks
    BY DEF Shape
  <2>2. QED
    BY <2>1, PendingSize DEF Shape
<1> HIDE DEF R, W
<1>5. ASSUME NEW q \in Seq(Tasks \union {ReactorTask}), Unique(q), NEW o,
             o \in pending => o \in Tasks /\ o \notin Elems(q)
      PROVE  LET q2 == q \o Slot(o)
             IN  /\ q2 \in Seq(Tasks \union {ReactorTask})
                 /\ Unique(q2)
                 /\ Elems(q2) = Elems(q) \union (IF o \in pending THEN {o} ELSE {})
                 /\ Len(q2) = Len(q) + (IF o \in pending THEN 1 ELSE 0)
  <2>1. CASE o \in pending
    <3>1. q \o Slot(o) = Append(q, o)
      BY <2>1 DEF Slot
    <3>2. QED
      BY <1>5, <2>1, <3>1, AppendUnique
  <2>2. CASE o \notin pending
    <3>1. q \o Slot(o) = q
      BY <2>2 DEF Slot
    <3>2. QED
      BY <1>5, <2>2, <3>1
  <2>3. QED
    BY <2>1, <2>2
<1> DEFINE q1 == queue \o Slot(R)
           q2 == q1 \o Slot(W)
<1>6. /\ q1 \in Seq(Tasks \union {ReactorTask})
      /\ Unique(q1)
      /\ Elems(q1) = Elems(queue) \union (IF R \in pending THEN {R} ELSE {})
      /\ Len(q1) = Len(queue) + (IF R \in pending THEN 1 ELSE 0)
  BY <1>5 DEF Shape
<1>7. /\ q2 \in Seq(Tasks \union {ReactorTask})
      /\ Unique(q2)
      /\ Elems(q2) = Elems(q1) \union (IF W \in pending THEN {W} ELSE {})
      /\ Len(q2) = Len(q1) + (IF W \in pending THEN 1 ELSE 0)
  <2>1. W \in pending => W \in Tasks /\ W \notin Elems(q1)
    BY <1>2, <1>6 DEF Shape
  <2>2. QED
    BY <1>5, <1>6, <2>1
<1>8. /\ queue' = q2 /\ numTasks' = numTasks
  <2>1. Slot(R) \in Seq(pending) /\ Slot(W) \in Seq(pending)
    BY DEF Slot
  <2>2. queue' = queue \o (Slot(R) \o Slot(W))
    BY <1>3 DEF Account
  <2>3. queue' = q2
    BY <2>1, <2>2 DEF Shape
  <2>4. numTasks' = numTasks + Len(Slot(R) \o Slot(W)) + (0 - Len(Slot(R) \o Slot(W)))
    BY <1>3 DEF Account
  <2>5. Len(Slot(R) \o Slot(W)) \in Nat
    BY <2>1
  <2>6. QED
    BY <2>3, <2>4, <2>5, <1>0
<1> HIDE DEF q1, q2
<1>9. Unique(queue)' /\ Elems(queue)' = Elems(queue')
  BY <1>7, <1>8 DEF Unique, Elems
<1>10. Shape'
  BY <1>1, <1>6, <1>7, <1>8, <1>9 DEF Shape
<1>11. Balance' = Balance
  <2>1. W \in P1 <=> W \in pending
    BY <1>2
  <2> DEFINE a == IF R \in pending THEN 1 ELSE 0
             b == IF W \in pending THEN 1 ELSE 0
  <2>2. Cardinality(P2) = Cardinality(pending) - a - b
    BY <1>0, <1>4, <2>1
  <2>3. Len(q2) = Len(queue) + a + b
    BY <1>0, <1>6, <1>7
  <2>4. Balance' = numTasks - Cardinality(P2) - Len(q2)
    BY <1>1, <1>8 DEF Balance
  <2>5. a \in Nat /\ b \in Nat
    OBVIOUS
  <2> HIDE DEF P1, P2, a, b
  <2>6. QED
    BY <1>0, <2>2, <2>3, <2>4, <2>5 DEF Balance
<1>12. QED
  BY <1>6, <1>7, <1>8, <1>10, <1>11 DEF Shape

-----------------------------------------------------------------------------
(* The variables an operation's fn or abort changes besides the queue.     *)
PollFds == [fd : Fds, type : OpTypes]

OpType ==
  /\ expired \in [Sockets -> BOOLEAN]
  /\ fds \in Seq(PollFds)
  /\ left \in [Tasks -> 0 .. MaxParts]
  /\ err \in [Tasks -> Results]

LEMMA TaskParts ==
  ASSUME NEW o \in Tasks
  PROVE  SocketOf(o) \in Sockets /\ TypeOf(o) \in OpTypes /\ o = <<SocketOf(o), TypeOf(o)>>
BY PollAssumption DEF SocketOf, TypeOf, OpTypes

LEMMA CompleteType ==
  ASSUME OpType, NEW o \in Tasks, NEW r \in Results, NEW d, Complete(o, r, d)
  PROVE  OpType' /\ fds' = fds
BY PollAssumption DEF OpType, Complete

LEMMA WaitType ==
  ASSUME OpType, NEW o \in Tasks, NEW p \in 1 .. MaxParts, NEW d, Wait(o, p, d),
         handle[SocketOf(o)] \in Fds
  PROVE  OpType' /\ Len(fds') = Len(fds) + 1
<1>1. PollFd(o) \in PollFds
  BY TaskParts DEF PollFd, PollFds
<1>2. fds' = Append(fds, PollFd(o))
  BY DEF Wait
<1>3. fds' \in Seq(PollFds) /\ Len(fds') = Len(fds) + 1
  BY <1>1, <1>2 DEF OpType
<1>4. expired' \in [Sockets -> BOOLEAN]
  BY TaskParts DEF Wait, OpType
<1>5. left' \in [Tasks -> 0 .. MaxParts] /\ err' \in [Tasks -> Results]
  BY PollAssumption DEF Wait, OpType, Results
<1>6. QED
  BY <1>3, <1>4, <1>5 DEF OpType

LEMMA WaitFailsType ==
  ASSUME OpType, NEW o \in Tasks, NEW d, WaitFails(o, d)
  PROVE  OpType' /\ fds' = fds
<1>1. expired' \in [Sockets -> BOOLEAN]
  BY TaskParts DEF WaitFails, OpType
<1>2. left' \in [Tasks -> 0 .. MaxParts] /\ err' \in [Tasks -> Results]
  BY PollAssumption DEF WaitFails, OpType, Results
<1>3. QED
  BY <1>1, <1>2 DEF OpType, WaitFails

LEMMA PerformType ==
  ASSUME OpType, NEW o \in Tasks, NEW most \in Int, most <= MaxParts, NEW d,
         Perform(o, most, d), handle[SocketOf(o)] \in Fds
  PROVE  OpType' /\ Len(fds') \in {Len(fds), Len(fds) + 1}
<1>1. CASE \E r \in IoResults : Complete(o, r, d)
  <2>1. IoResults \subseteq Results
    BY PollAssumption DEF Results
  <2>2. QED
    BY <1>1, <2>1, CompleteType
<1>2. CASE \E p \in 1 .. most : Wait(o, p, d)
  <2>1. 1 .. most \subseteq 1 .. MaxParts
    BY PollAssumption
  <2>2. QED
    BY <1>2, <2>1, WaitType
<1>3. CASE WaitFails(o, d)
  BY <1>3, WaitFailsType
<1>4. QED
  BY <1>1, <1>2, <1>3 DEF Perform

(* An accept fills in a handle, nothing else does while an operation runs. *)
LEMMA AdoptType ==
  ASSUME handle \in [Sockets -> Fds \union {NoFd}], NEW o, Adopt(o)
  PROVE  handle' \in [Sockets -> Fds \union {NoFd}]
BY DEF Adopt, FreeFds

-----------------------------------------------------------------------------
(* IInv, taken apart the way the actions disturb it.                       *)
RestType ==
  /\ phase \in Phases
  /\ running \in Tasks \union {ReactorTask}
  /\ empty \in BOOLEAN
  /\ handle \in [Sockets -> Fds \union {NoFd}]
  /\ revents \in Seq(Events \union {"nval"})
  /\ cursor \in Nat
  /\ kept \in Nat

Reserve == (IF phase = "task" THEN 1 ELSE 0) - (IF phase = "reactor" THEN 0 ELSE 1)

Parts ==
  /\ Shape /\ OpType /\ RestType
  /\ ScanBounds /\ RunningTask
  /\ ReactorTask \in Elems(queue) <=> phase # "reactor"
  /\ Balance = Reserve

LEMMA InvIsParts == IInv <=> Parts
<1>1. TypeOK /\ Unique(queue) /\ pending \cap Elems(queue) = {}
        <=> Shape /\ OpType /\ RestType
  BY DEF TypeOK, LoopTypeOK, Shape, OpType, RestType, PollFds
<1>2. ASSUME Shape PROVE TaskCount <=> Balance = Reserve
  <2>1. Len(queue) \in Nat /\ Cardinality(pending) \in Nat /\ numTasks \in Int
    BY <1>2, PendingSize DEF Shape
  <2>2. CASE phase = "task"
    BY <2>1, <2>2 DEF TaskCount, Balance, Reserve
  <2>3. CASE phase = "reactor"
    BY <2>1, <2>3 DEF TaskCount, Balance, Reserve
  <2>4. CASE phase # "task" /\ phase # "reactor"
    BY <2>1, <2>4 DEF TaskCount, Balance, Reserve
  <2>5. QED
    BY <2>2, <2>3, <2>4
<1>3. QED
  BY <1>1, <1>2 DEF IInv, Parts, OnePlace

LEMMA InitInv == Init => IInv
<1> SUFFICES ASSUME Init PROVE Parts
  BY InvIsParts
<1> USE DEF Init, LoopInit
<1>1. Shape
  <2>1. Elems(queue) = {ReactorTask} /\ Unique(queue)
    BY DEF Elems, Unique
  <2>2. QED
    BY <2>1, LoopAssumption DEF Shape
<1>2. OpType
  BY PollAssumption DEF OpType, Results
<1>3. RestType
  <2>1. revents \in Seq(Events \union {"nval"})
    OBVIOUS
  <2>2. QED
    BY <2>1 DEF RestType, Phases
<1>4. ScanBounds /\ RunningTask
  BY DEF ScanBounds, RunningTask
<1>5. ReactorTask \in Elems(queue) <=> phase # "reactor"
  BY DEF Elems
<1>6. Balance = Reserve
  BY FS_EmptySet DEF Balance, Reserve
<1>7. QED
  BY <1>1, <1>2, <1>3, <1>4, <1>5, <1>6 DEF Parts

(* The actions in which fn or abort of an operation runs.                  *)
LEMMA OpAction ==
  ASSUME Parts, Shape', OpType', Balance' = Balance,
         NEW G \in SUBSET Tasks, Elems(queue)' = Elems(queue) \union G,
         phase' = phase, running' = running, empty' = empty,
         handle' \in [Sockets -> Fds \union {NoFd}],
         revents' = revents, kept' = kept, Len(fds)' >= Len(fds),
         cursor' = cursor \/ (cursor <= Len(revents) /\ cursor' = cursor + 1)
  PROVE  Parts'
<1>1. RestType'
  BY DEF Parts, RestType
<1>2. Len(fds) \in Nat /\ Len(fds') \in Nat /\ Len(revents) \in Nat
  BY DEF Parts, OpType, RestType
<1>3. ScanBounds'
  BY <1>2 DEF Parts, ScanBounds, RestType
<1>4. RunningTask' /\ Balance' = Reserve'
  BY DEF Parts, RunningTask, Reserve
<1>5. ReactorTask \in Elems(queue)' <=> phase' # "reactor"
  BY LoopAssumption DEF Parts
<1>6. QED
  BY <1>1, <1>3, <1>4, <1>5 DEF Parts

LEMMA StepInv == IInv /\ [Next]_vars => IInv'
<1> SUFFICES ASSUME Parts, [Next]_vars PROVE Parts'
  BY InvIsParts, PTL
<1>0. /\ Shape /\ OpType /\ RestType
      /\ Len(queue) \in Nat /\ Len(fds) \in Nat /\ Len(revents) \in Nat
      /\ Cardinality(pending) \in Nat /\ numTasks \in Int
      /\ DOMAIN fds = 1 .. Len(fds)
  <2>1. Shape /\ OpType /\ RestType
    BY DEF Parts
  <2>2. QED
    BY <2>1, PendingSize DEF Shape, OpType, RestType
<1>p. ASSUME UNCHANGED pollVars
      PROVE  OpType' /\ handle' = handle /\ revents' = revents /\ cursor' = cursor
             /\ kept' = kept /\ fds' = fds /\ pending' = pending
  BY <1>p, <1>0 DEF pollVars, OpType
<1>1. CASE UNCHANGED vars
  <2>1. UNCHANGED <<loopVars, pollVars>>
    BY <1>1 DEF vars
  <2>2. Shape' /\ Balance' = Balance /\ Reserve' = Reserve /\ Elems(queue)' = Elems(queue)
    BY <2>1, <1>0 DEF loopVars, pollVars, Shape, Balance, Reserve, Elems, Unique
  <2>3. QED
    BY <2>1, <2>2, <1>p DEF Parts, loopVars, pollVars, RestType, ScanBounds, RunningTask
<1>2. CASE StartPoll
  <2>1. PollStart /\ UNCHANGED pollVars
    BY <1>2 DEF StartPoll
  <2>2. Shape' /\ Balance' = Balance /\ Elems(queue)' = Elems(queue)
    BY <2>1, <1>0 DEF PollStart, pollVars, Shape, Balance, Elems, Unique
  <2>3. phase = "idle" /\ phase' = "pop"
    BY <2>1 DEF PollStart
  <2>4. QED
    BY <2>1, <2>2, <2>3, <1>p DEF Parts, PollStart, RestType, ScanBounds, RunningTask, Reserve, Phases
<1>3. CASE Finalize
  <2>1. PopTask /\ UNCHANGED pollVars
    BY <1>3 DEF Finalize
  <2>2. /\ phase = "pop" /\ phase' = "task" /\ queue # <<>> /\ queue' = Tail(queue)
        /\ running' = Head(queue) /\ Head(queue) # ReactorTask /\ numTasks' = numTasks
        /\ empty' = empty
    BY <2>1 DEF PopTask
  <2>3. /\ queue' \in Seq(Tasks \union {ReactorTask})
        /\ Unique(queue')
        /\ Elems(queue') = Elems(queue) \ {Head(queue)}
        /\ Len(queue') = Len(queue) - 1
        /\ Head(queue) \in Tasks \union {ReactorTask}
    BY <2>2, <1>0, TailUnique DEF Shape
  <2>4. Unique(queue)' /\ Elems(queue)' = Elems(queue')
    BY <2>3 DEF Unique, Elems
  <2>5. Shape'
    BY <2>1, <2>2, <2>3, <2>4, <1>0, <1>p DEF Shape
  <2>6. Balance' = Balance + 1
    BY <2>1, <2>2, <2>3, <1>0, <1>p DEF Balance
  <2>7. Balance' = Reserve'
    BY <2>2, <2>6 DEF Parts, Reserve
  <2>8. QED
    BY <2>1, <2>2, <2>3, <2>4, <2>5, <2>7, <1>p DEF Parts, RestType, ScanBounds, RunningTask, Phases
<1>4. CASE Return
  <2>1. /\ phase = "task" /\ phase' = "idle" /\ numTasks' = numTasks - 1
        /\ running' = ReactorTask /\ queue' = queue /\ empty' = empty
    BY <1>4 DEF Return, TaskReturn
  <2>2. UNCHANGED <<handle, pending, expired, fds, revents, cursor, kept, left>>
    BY <1>4 DEF Return
  <2>3. OpType'
    <3>1. err' \in [Tasks -> Results]
      BY <1>4, <1>0 DEF Return, OpType, Results
    <3>2. QED
      BY <2>2, <3>1, <1>0 DEF OpType
  <2>4. Shape' /\ Balance' = Balance - 1 /\ Elems(queue)' = Elems(queue)
    BY <2>1, <2>2, <1>0 DEF Shape, Balance, Elems, Unique
  <2>5. Balance' = Reserve'
    BY <2>1, <2>4 DEF Parts, Reserve
  <2>6. QED
    BY <2>1, <2>2, <2>3, <2>4, <2>5 DEF Parts, RestType, ScanBounds, RunningTask, Phases
<1>5. CASE RunReactor
  <2>1. /\ phase = "pop" /\ phase' = "reactor" /\ queue # <<>> /\ queue' = Tail(queue)
        /\ Head(queue) = ReactorTask /\ numTasks' = numTasks /\ running' = running
        /\ empty' = (Tail(queue) = <<>>)
    BY <1>5 DEF RunReactor, PopReactor
  <2>2. /\ UNCHANGED <<handle, pending, expired, fds, left, err>>
        /\ cursor' = 1 /\ kept' = 0
        /\ revents' \in [DOMAIN fds -> Events \union {"nval"}]
    BY <1>5 DEF RunReactor
  <2>3. revents' \in Seq(Events \union {"nval"}) /\ Len(revents') = Len(fds)
    BY <2>2, <1>0
  <2>4. /\ queue' \in Seq(Tasks \union {ReactorTask})
        /\ Unique(queue')
        /\ Elems(queue') = Elems(queue) \ {Head(queue)}
        /\ Len(queue') = Len(queue) - 1
    BY <2>1, <1>0, TailUnique DEF Shape
  <2>5. Unique(queue)' /\ Elems(queue)' = Elems(queue')
    BY <2>4 DEF Unique, Elems
  <2>6. Shape'
    BY <2>1, <2>2, <2>4, <2>5, <1>0 DEF Shape
  <2>7. OpType'
    BY <2>2, <1>0 DEF OpType
  <2>8. RestType'
    BY <2>1, <2>2, <2>3, <1>0 DEF RestType, Phases
  <2>9. Balance' = Balance + 1
    BY <2>1, <2>2, <2>4, <1>0 DEF Balance
  <2>10. Balance' = Reserve'
    BY <2>1, <2>9 DEF Parts, Reserve
  <2>11. ScanBounds' /\ RunningTask'
    BY <2>1, <2>2, <2>3, <1>0 DEF ScanBounds, RunningTask
  <2>12. QED
    BY <2>1, <2>4, <2>5, <2>6, <2>7, <2>8, <2>10, <2>11 DEF Parts
<1>6. CASE PollFails
  <2>1. /\ phase = "pop" /\ queue # <<>> /\ Head(queue) = ReactorTask
        /\ queue' = Append(Tail(queue), ReactorTask)
        /\ phase' \in {"idle", "pop"}
        /\ UNCHANGED <<numTasks, running, empty>> /\ UNCHANGED pollVars
    BY <1>6 DEF PollFails
  <2> DEFINE rest == Tail(queue)
  <2>2. /\ rest \in Seq(Tasks \union {ReactorTask})
        /\ Unique(rest)
        /\ Elems(rest) = Elems(queue) \ {ReactorTask}
        /\ Len(rest) = Len(queue) - 1
        /\ queue' = Append(rest, ReactorTask)
    BY <2>1, <1>0, TailUnique DEF Shape
  <2> HIDE DEF rest
  <2>3. /\ queue' \in Seq(Tasks \union {ReactorTask})
        /\ Unique(queue')
        /\ Elems(queue') = (Elems(queue) \ {ReactorTask}) \union {ReactorTask}
        /\ Len(queue') = Len(queue) - 1 + 1
    <3>1. ReactorTask \notin Elems(rest) /\ ReactorTask \in Tasks \union {ReactorTask}
      BY <2>2
    <3>2. QED
      BY <3>1, <2>2, AppendUnique
  <2>4. ReactorTask \in Elems(queue)
    BY <2>1 DEF Parts
  <2>5. Unique(queue)' /\ Elems(queue)' = Elems(queue)
    BY <2>3, <2>4 DEF Unique, Elems
  <2>6. Shape' /\ Balance' = Balance
    BY <2>1, <2>3, <2>5, <1>0, <1>p DEF Shape, Balance
  <2>7. QED
    BY <2>1, <2>4, <2>5, <2>6, <1>p DEF Parts, Reserve, RestType, ScanBounds, RunningTask, Phases
<1>7. CASE ScanStale
  <2>1. /\ phase = "reactor" /\ cursor <= Len(revents) /\ cursor' = cursor + 1
        /\ UNCHANGED <<phase, running, empty, revents>>
        /\ UNCHANGED <<queue, numTasks, handle, pending, expired, fds, kept, left, err>>
    BY <1>7 DEF ScanStale, Scanning, Advance
  <2>2. Shape' /\ Balance' = Balance /\ Elems(queue)' = Elems(queue)
    BY <2>1, <1>0 DEF Shape, Balance, Elems, Unique
  <2>3. OpType'
    BY <2>1, <1>0 DEF OpType
  <2>4. handle' \in [Sockets -> Fds \union {NoFd}]
    BY <2>1, <1>0 DEF RestType
  <2>5. Elems(queue)' = Elems(queue) \union {} /\ {} \in SUBSET Tasks
    BY <2>2
  <2>6. /\ phase' = phase /\ running' = running /\ empty' = empty
        /\ revents' = revents /\ kept' = kept
        /\ cursor <= Len(revents) /\ cursor' = cursor + 1
    BY <2>1
  <2>7. Len(fds)' >= Len(fds)
    BY <2>1, <1>0 DEF OpType
  <2>8. QED
    BY <2>2, <2>3, <2>4, <2>5, <2>6, <2>7, OpAction
<1>8. ASSUME NEW o \in Tasks, ScanReady(o) PROVE Parts'
  <2> DEFINE most == IF Spurious THEN left[o] ELSE left[o] - 1
  <2>1. /\ phase = "reactor" /\ cursor <= Len(revents) /\ cursor' = cursor + 1
        /\ UNCHANGED <<phase, running, empty, revents, kept>>
        /\ o \in pending /\ PollFd(o) = fds[cursor]
        /\ Perform(o, most, 0 - 1) /\ Adopt(o)
    BY <1>8 DEF ScanReady, Scanning, Woken, Advance
  <2>2. o \notin Elems(queue)
    BY <2>1, <1>0 DEF Shape
  <2>3. most \in Int /\ most <= MaxParts
    BY <1>0, PollAssumption DEF OpType
  <2>4. handle[SocketOf(o)] \in Fds
    <3>1. cursor \in 1 .. Len(fds)
      BY <2>1, <1>0 DEF Parts, ScanBounds
    <3>2. fds[cursor] \in PollFds
      BY <3>1, <1>0 DEF OpType
    <3>3. fds[cursor].fd = handle[SocketOf(o)]
      BY <2>1 DEF PollFd
    <3>4. QED
      BY <3>2, <3>3 DEF PollFds
  <2> HIDE DEF most
  <2>5. OpType' /\ Len(fds') \in {Len(fds), Len(fds) + 1}
    BY <2>1, <2>3, <2>4, <1>0, PerformType
  <2>6. Shape' /\ Elems(queue') \in {Elems(queue), Elems(queue) \union {o}} /\ Balance' = Balance
    BY <2>1, <2>2, <1>0, PerformStep
  <2>7. handle' \in [Sockets -> Fds \union {NoFd}]
    BY <2>1, <1>0, AdoptType DEF RestType
  <2>8. PICK G \in SUBSET Tasks : Elems(queue)' = Elems(queue) \union G
    <3>1. Elems(queue)' = Elems(queue')
      BY DEF Elems
    <3>2. {} \in SUBSET Tasks /\ {o} \in SUBSET Tasks
      OBVIOUS
    <3>3. QED
      BY <3>1, <3>2, <2>6
  <2>9. Len(fds)' >= Len(fds)
    BY <2>5, <1>0
  <2>10. QED
    BY <2>1, <2>5, <2>6, <2>7, <2>8, <2>9, OpAction
<1>9. ASSUME NEW o \in Tasks, ScanAbort(o) \/ ScanTimeout(o) PROVE Parts'
  <2>1. PICK r \in Results : Complete(o, r, 0 - 1)
    <3>1. CASE ScanAbort(o)
      <4>1. AbortWith[revents[cursor]] \in Results
        BY <3>1 DEF ScanAbort, AbortWith, Results
      <4>2. QED
        BY <3>1, <4>1 DEF ScanAbort
    <3>2. CASE ScanTimeout(o)
      BY <3>2 DEF ScanTimeout, Results
    <3>3. QED
      BY <1>9, <3>1, <3>2
  <2>2. /\ phase = "reactor" /\ cursor <= Len(revents) /\ cursor' = cursor + 1
        /\ UNCHANGED <<phase, running, empty, revents, kept, handle>>
        /\ o \in pending
    BY <1>9 DEF ScanAbort, ScanTimeout, Scanning, Woken, Advance
  <2>3. o \notin Elems(queue)
    BY <2>2, <1>0 DEF Shape
  <2>4. OpType' /\ fds' = fds
    BY <2>1, <1>0, CompleteType
  <2>5. /\ Shape'
        /\ Elems(queue') = Elems(queue) \union {o}
        /\ Len(queue') = Len(queue) + 1
        /\ numTasks' = numTasks + 1 + (0 - 1)
        /\ Cardinality(pending') = Cardinality(pending) - 1
    BY <2>1, <2>2, <2>3, <1>0, CompleteStep
  <2>6. Balance' = Balance
    BY <2>5, <1>0 DEF Balance
  <2>7. Elems(queue)' = Elems(queue) \union {o} /\ {o} \in SUBSET Tasks
    BY <2>5 DEF Elems
  <2>8. handle' \in [Sockets -> Fds \union {NoFd}] /\ Len(fds)' >= Len(fds)
    BY <2>2, <2>4, <1>0 DEF RestType
  <2>9. QED
    BY <2>2, <2>4, <2>5, <2>6, <2>7, <2>8, OpAction
<1>10. ASSUME NEW o \in Tasks, ScanKeep(o) PROVE Parts'
  <2>1. /\ phase = "reactor" /\ cursor <= Len(revents) /\ cursor' = cursor + 1
        /\ UNCHANGED <<phase, running, empty, revents, handle>>
        /\ UNCHANGED <<queue, numTasks, pending, expired, left, err>>
        /\ kept' = kept + 1
        /\ fds' = [fds EXCEPT ![kept + 1] = fds[cursor]]
    BY <1>10 DEF ScanKeep, Scanning, Advance
  <2>2. /\ cursor \in 1 .. Len(fds) /\ kept + 1 \in 1 .. Len(fds) /\ kept < cursor
        /\ Len(revents) <= Len(fds)
    BY <2>1, <1>0 DEF Parts, ScanBounds, RestType
  <2>3. fds' \in Seq(PollFds) /\ Len(fds') = Len(fds)
    <3>1. fds[cursor] \in PollFds
      BY <2>2, <1>0 DEF OpType
    <3>2. QED
      BY <3>1, <2>1, <2>2, <1>0 DEF OpType
  <2>4. Shape' /\ Balance' = Balance /\ Elems(queue)' = Elems(queue) /\ Reserve' = Reserve
    BY <2>1, <1>0 DEF Shape, Balance, Elems, Unique, Reserve
  <2>5. OpType'
    BY <2>1, <2>3, <1>0 DEF OpType
  <2>6. RestType'
    BY <2>1, <1>0 DEF RestType
  <2>7. ScanBounds' /\ RunningTask'
    BY <2>1, <2>2, <2>3, <1>0 DEF Parts, ScanBounds, RunningTask, RestType
  <2>8. QED
    BY <2>1, <2>4, <2>5, <2>6, <2>7 DEF Parts
<1>11. CASE ScanEnd
  <2>1. /\ phase = "reactor" /\ queue' = Append(queue, ReactorTask)
        /\ phase' \in {"idle", "pop"} /\ empty' = FALSE
        /\ UNCHANGED <<numTasks, running, handle, pending, expired, left, err>>
        /\ fds' = Compacted /\ revents' = <<>> /\ cursor' = 0 /\ kept' = 0
        /\ cursor > Len(revents)
    BY <1>11 DEF ScanEnd, ReactorReturn
  <2>2. ReactorTask \notin Elems(queue)
    BY <2>1 DEF Parts
  <2>3. /\ queue' \in Seq(Tasks \union {ReactorTask})
        /\ Unique(queue')
        /\ Elems(queue') = Elems(queue) \union {ReactorTask}
        /\ Len(queue') = Len(queue) + 1
    BY <2>1, <2>2, <1>0, AppendUnique DEF Shape
  <2>4. Unique(queue)' /\ Elems(queue)' = Elems(queue')
    BY <2>3 DEF Unique, Elems
  <2>5. Shape'
    BY <2>1, <2>3, <2>4, <1>0, LoopAssumption DEF Shape
  <2>6. Balance' = Balance - 1
    BY <2>1, <2>3, <1>0 DEF Balance
  <2>7. Balance' = Reserve'
    BY <2>1, <2>6 DEF Parts, Reserve
  <2>8. fds' \in Seq(PollFds)
    <3>1. kept \in 0 .. Len(fds) /\ Len(revents) + 1 \in 1 .. Len(fds) + 1
      BY <2>1, <1>0 DEF Parts, ScanBounds, RestType
    <3>2. SubSeq(fds, 1, kept) \in Seq(PollFds)
      BY <3>1, <1>0 DEF OpType
    <3>3. SubSeq(fds, Len(revents) + 1, Len(fds)) \in Seq(PollFds)
      BY <3>1, <1>0 DEF OpType
    <3>4. QED
      BY <2>1, <3>2, <3>3 DEF Compacted
  <2>9. OpType'
    BY <2>1, <2>8, <1>0 DEF OpType
  <2>10. RestType'
    <3>1. revents' \in Seq(Events \union {"nval"})
      BY <2>1
    <3>2. QED
      BY <2>1, <3>1, <1>0 DEF RestType, Phases
  <2>11. ScanBounds' /\ RunningTask'
    BY <2>1 DEF ScanBounds, RunningTask
  <2>12. QED
    BY <2>1, <2>3, <2>4, <2>5, <2>7, <2>9, <2>10, <2>11 DEF Parts
<1>12. ASSUME NEW o \in Tasks, Submit(o) PROVE Parts'
  <2>1. /\ handle[SocketOf(o)] # NoFd /\ o \notin pending /\ o \notin Queued
        /\ Perform(o, MaxParts, 0) /\ Adopt(o)
        /\ UNCHANGED <<phase, running, empty, revents, cursor, kept>>
    BY <1>12 DEF Submit, Open, InFlight
  <2>2. o \notin Elems(queue)
    BY <2>1, LoopAssumption DEF Queued
  <2>3. handle[SocketOf(o)] \in Fds
    BY <2>1, <1>0, TaskParts DEF RestType
  <2>4. OpType' /\ Len(fds') \in {Len(fds), Len(fds) + 1}
    BY <2>1, <2>3, <1>0, PerformType, PollAssumption
  <2>5. Shape' /\ Elems(queue') \in {Elems(queue), Elems(queue) \union {o}} /\ Balance' = Balance
    BY <2>1, <2>2, <1>0, PerformStep
  <2>6. handle' \in [Sockets -> Fds \union {NoFd}]
    BY <2>1, <1>0, AdoptType DEF RestType
  <2>7. PICK G \in SUBSET Tasks : Elems(queue)' = Elems(queue) \union G
    <3>1. Elems(queue)' = Elems(queue')
      BY DEF Elems
    <3>2. {} \in SUBSET Tasks /\ {o} \in SUBSET Tasks
      OBVIOUS
    <3>3. QED
      BY <3>1, <3>2, <2>5
  <2>8. Len(fds)' >= Len(fds)
    BY <2>4, <1>0
  <2>9. QED
    BY <2>1, <2>4, <2>5, <2>6, <2>7, <2>8, OpAction
<1>13. ASSUME NEW s \in Sockets, Cancel(s) PROVE Parts'
  <2>1. /\ Shape'
        /\ Elems(queue') \subseteq Elems(queue) \union Tasks
        /\ Elems(queue) \subseteq Elems(queue')
        /\ Balance' = Balance
    BY <1>13, <1>0, CancelStep
  <2>2. UNCHANGED <<phase, running, empty, handle, expired, fds, revents, cursor, kept>>
    BY <1>13 DEF Cancel
  <2>3. OpType'
    <3>1. err' \in [Tasks -> Results]
      BY <1>13, <1>0 DEF Cancel, OpType, Results
    <3>2. left' \in [Tasks -> 0 .. MaxParts]
      BY <1>13, <1>0, PollAssumption DEF Cancel, OpType
    <3>3. QED
      BY <2>2, <3>1, <3>2, <1>0 DEF OpType
  <2>4. PICK G \in SUBSET Tasks : Elems(queue)' = Elems(queue) \union G
    <3>1. Elems(queue)' = Elems(queue')
      BY DEF Elems
    <3>2. Elems(queue') = Elems(queue) \union (Elems(queue') \cap Tasks)
      BY <2>1
    <3>3. QED
      BY <3>1, <3>2
  <2>5. handle' \in [Sockets -> Fds \union {NoFd}] /\ Len(fds)' >= Len(fds)
    BY <2>2, <1>0 DEF RestType
  <2>6. QED
    BY <2>1, <2>2, <2>3, <2>4, <2>5, OpAction
<1>14. ASSUME NEW s \in Sockets, SetFd(s) \/ Close(s) \/ Tick(s) PROVE Parts'
  <2>1. UNCHANGED <<loopVars, pending, fds, revents, cursor, kept, left, err>>
    BY <1>14 DEF SetFd, Close, Tick
  <2>2. handle' \in [Sockets -> Fds \union {NoFd}] /\ expired' \in [Sockets -> BOOLEAN]
    BY <1>14, <1>0 DEF SetFd, Close, Tick, FreeFds, RestType, OpType
  <2>3. Shape' /\ Balance' = Balance /\ Elems(queue)' = Elems(queue) \union {}
    BY <2>1, <1>0 DEF loopVars, Shape, Balance, Elems, Unique
  <2>4. OpType'
    BY <2>1, <2>2, <1>0 DEF OpType
  <2>5. phase' = phase /\ running' = running /\ empty' = empty /\ {} \in SUBSET Tasks
    BY <2>1 DEF loopVars
  <2>6. Len(fds)' >= Len(fds)
    BY <2>1, <1>0
  <2>7. QED
    BY <2>1, <2>2, <2>3, <2>4, <2>5, <2>6, OpAction
<1>15. QED
  BY <1>1, <1>2, <1>3, <1>4, <1>5, <1>6, <1>7, <1>8, <1>9, <1>10, <1>11, <1>12, <1>13, <1>14
     DEF Next, Loop, Scan, Client

-----------------------------------------------------------------------------
(* IInv holds in every reachable state.                                    *)
LEMMA Inductive == Spec => []IInv
BY InitInv, StepInv, PTL DEF Spec

(* The type invariant of the reactor and its loop.                         *)
THEOREM TypeCorrect == Spec => []TypeOK
<1>1. IInv => TypeOK
  BY DEF IInv
<1>2. QED
  BY Inductive, <1>1, PTL

(* No operation is ever queued twice, nor queued while the reactor still   *)
(* holds it, and the reactor's task is queued exactly when it does not run.*)
THEOREM QueueIntact == Spec => []OnePlace
<1>1. IInv => OnePlace
  BY DEF IInv
<1>2. QED
  BY Inductive, <1>1, PTL

(* num_tasks is exactly the work that is outstanding, so th_loop_poll      *)
(* reports EOF, and th_loop_run returns, when and only when nothing is.    *)
THEOREM CountExact == Spec => []TaskCount
<1>1. IInv => TaskCount
  BY DEF IInv
<1>2. QED
  BY Inductive, <1>1, PTL

-----------------------------------------------------------------------------
(* No operation is lost by the compaction of the pollfd vector.  What makes *)
(* this inductive: two sockets never have the same open descriptor, so an   *)
(* entry that is dropped for one operation was not another one's.           *)
Distinct == \A s, t \in Sockets : handle[s] = handle[t] /\ handle[s] # NoFd => s = t

PInv == Distinct /\ PendingIsPolled

LEMMA PollFdInjective ==
  ASSUME Distinct, NEW o \in Tasks, NEW p \in Tasks, Open(SocketOf(o)), PollFd(o) = PollFd(p)
  PROVE  o = p
<1>1. handle[SocketOf(o)] = handle[SocketOf(p)] /\ TypeOf(o) = TypeOf(p)
  BY DEF PollFd
<1>2. SocketOf(o) = SocketOf(p)
  BY <1>1, TaskParts DEF Distinct, Open
<1>3. QED
  BY <1>1, <1>2, TaskParts

(* An accept gives a descriptor to a socket that had none.                 *)
LEMMA AdoptKeeps ==
  ASSUME handle \in [Sockets -> Fds \union {NoFd}], Distinct, NEW o, Adopt(o)
  PROVE  /\ Distinct'
         /\ \A s \in Sockets : Open(s) => handle'[s] = handle[s]
<1>1. CASE UNCHANGED handle
  BY <1>1 DEF Distinct
<1>2. ASSUME NEW s \in Sockets, NEW f \in FreeFds, ~Open(s), handle' = [handle EXCEPT ![s] = f]
      PROVE  /\ Distinct'
             /\ \A t \in Sockets : Open(t) => handle'[t] = handle[t]
  <2>1. f \in Fds /\ \A t \in Sockets : handle[t] # f
    BY DEF FreeFds
  <2>2. handle'[s] = f /\ \A t \in Sockets \ {s} : handle'[t] = handle[t]
    BY <1>2
  <2>3. QED
    BY <1>2, <2>1, <2>2 DEF Distinct, Open
<1>3. QED
  BY <1>1, <1>2 DEF Adopt

(* Nothing of a socket whose descriptor changes is held by the reactor.    *)
LEMMA QuietKeeps ==
  ASSUME handle \in [Sockets -> Fds \union {NoFd}], Distinct,
         NEW s \in Sockets, SetFd(s) \/ Close(s)
  PROVE  /\ Distinct'
         /\ \A t \in Sockets \ {s} : handle'[t] = handle[t]
         /\ \A o \in Tasks : o \in pending => SocketOf(o) # s
<1>1. PICK f \in FreeFds \union {NoFd} : handle' = [handle EXCEPT ![s] = f]
  BY DEF SetFd, Close
<1>2. f = NoFd \/ (f \in Fds /\ \A t \in Sockets : handle[t] # f)
  BY DEF FreeFds
<1>3. handle'[s] = f /\ \A t \in Sockets \ {s} : handle'[t] = handle[t]
  BY <1>1
<1>4. \A o \in Tasks : SocketOf(o) = s => o \notin pending
  BY DEF SetFd, Close, Quiet, InFlight
<1>5. QED
  BY <1>2, <1>3, <1>4 DEF Distinct

(* What an operation that runs its fn does to the pollfd vector.           *)
LEMMA PerformPolls ==
  ASSUME NEW o, NEW most, NEW d, Perform(o, most, d)
  PROVE  /\ pending' \ {o} = pending \ {o}
         /\ (fds' = fds /\ o \notin pending') \/ fds' = Append(fds, PollFd(o))
<1>1. CASE \E r \in IoResults : Complete(o, r, d)
  BY <1>1 DEF Complete
<1>2. CASE \E p \in 1 .. most : Wait(o, p, d)
  BY <1>2 DEF Wait
<1>3. CASE WaitFails(o, d)
  BY <1>3 DEF WaitFails
<1>4. QED
  BY <1>1, <1>2, <1>3 DEF Perform

(* What stays at its place in the vector, as Perform changes it.           *)
LEMMA PerformKeeps ==
  ASSUME OpType, NEW o \in Tasks, Open(SocketOf(o)), handle[SocketOf(o)] \in Fds,
         NEW most, NEW d, Perform(o, most, d)
  PROVE  /\ Len(fds) \in Nat /\ Len(fds') \in Nat /\ Len(fds') >= Len(fds)
         /\ DOMAIN fds = 1 .. Len(fds) /\ DOMAIN fds' = 1 .. Len(fds')
         /\ \A i \in 1 .. Len(fds) : fds'[i] = fds[i]
         /\ o \in pending' => Len(fds') = Len(fds) + 1 /\ fds'[Len(fds')] = PollFd(o)
<1>1. PollFd(o) \in PollFds
  BY TaskParts DEF PollFd, PollFds
<1>2. fds \in Seq(PollFds)
  BY DEF OpType
<1>3. CASE fds' = fds /\ o \notin pending'
  BY <1>2, <1>3
<1>4. CASE fds' = Append(fds, PollFd(o))
  BY <1>1, <1>2, <1>4
<1>5. QED
  BY <1>3, <1>4, PerformPolls

LEMMA PollStep == ASSUME IInv, PInv, [Next]_vars PROVE PInv'
<1>0. /\ Shape /\ OpType /\ RestType /\ ScanBounds
      /\ Len(fds) \in Nat /\ Len(revents) \in Nat /\ DOMAIN fds = 1 .. Len(fds)
      /\ fds \in Seq(PollFds) /\ pending \subseteq Tasks
      /\ handle \in [Sockets -> Fds \union {NoFd}] /\ kept \in Nat /\ cursor \in Nat
      /\ Distinct /\ PendingIsPolled
  <2>1. Shape /\ OpType /\ RestType /\ ScanBounds
    BY InvIsParts DEF Parts
  <2>2. QED
    BY <2>1 DEF OpType, RestType, Shape, PInv
<1>1. ASSUME UNCHANGED <<handle, fds>>, pending' \subseteq pending, Live' = Live PROVE PInv'
  BY <1>0, <1>1 DEF PInv, Distinct, PendingIsPolled, Open, PollFd
<1>2. CASE UNCHANGED vars
  BY <1>1, <1>2 DEF vars, loopVars, pollVars, Live
<1>3. CASE StartPoll \/ Finalize \/ Return \/ PollFails
  BY <1>1, <1>3
     DEF StartPoll, PollStart, Finalize, PopTask, Return, TaskReturn, PollFails, pollVars, Live
<1>4. CASE RunReactor
  <2>1. /\ phase = "pop" /\ phase' = "reactor" /\ cursor' = 1 /\ kept' = 0
        /\ UNCHANGED <<handle, pending, fds>>
    BY <1>4 DEF RunReactor, PopReactor
  <2>2. Live' = 1 .. 0 \union 1 .. Len(fds) /\ Live = 1 .. Len(fds)
    BY <1>0, <2>1 DEF Live
  <2>3. QED
    BY <1>1, <2>1, <2>2
<1>5. CASE \E s \in Sockets : Cancel(s) \/ Tick(s)
  BY <1>1, <1>5 DEF Cancel, Tick, loopVars, Live
<1>6. ASSUME NEW s \in Sockets, SetFd(s) \/ Close(s) PROVE PInv'
  <2>1. /\ UNCHANGED <<fds, pending>> /\ Live' = Live
        /\ Distinct'
        /\ \A t \in Sockets \ {s} : handle'[t] = handle[t]
        /\ \A o \in Tasks : o \in pending => SocketOf(o) # s
    BY <1>0, <1>6, QuietKeeps DEF SetFd, Close, loopVars, Live
  <2>2. \A o \in pending : handle'[SocketOf(o)] = handle[SocketOf(o)]
    BY <1>0, <2>1, TaskParts
  <2>3. QED
    BY <1>0, <2>1, <2>2 DEF PInv, PendingIsPolled, Open, PollFd
<1>7. ASSUME NEW o \in Tasks, Submit(o) PROVE PInv'
  <2>1. /\ phase \in {"idle", "task"} /\ phase' = phase /\ Open(SocketOf(o)) /\ o \notin pending
        /\ Perform(o, MaxParts, 0) /\ Adopt(o) /\ handle[SocketOf(o)] \in Fds
    BY <1>0, <1>7, TaskParts DEF Submit, InClientCode, InFlight, Open
  <2>2. Distinct' /\ \A s \in Sockets : Open(s) => handle'[s] = handle[s]
    BY <1>0, <2>1, AdoptKeeps
  <2>3. ASSUME NEW p \in pending' PROVE Open(SocketOf(p))' /\ \E i \in Live' : fds'[i] = PollFd(p)'
    <3>1. Live = 1 .. Len(fds) /\ Live' = 1 .. Len(fds')
      BY <1>0, <2>1, PerformKeeps DEF Live
    <3>2. CASE p = o
      <4>1. handle'[SocketOf(o)] = handle[SocketOf(o)]
        BY <2>1, <2>2, TaskParts
      <4>2. Len(fds') \in Live' /\ fds'[Len(fds')] = PollFd(o)
        BY <1>0, <2>1, <2>3, <3>1, <3>2, PerformKeeps
      <4>3. QED
        BY <2>1, <3>2, <4>1, <4>2 DEF Open, PollFd
    <3>3. CASE p # o
      <4>1. p \in pending /\ p \in Tasks
        BY <1>0, <2>1, <2>3, <3>3, PerformPolls
      <4>2. PICK i \in Live : Open(SocketOf(p)) /\ fds[i] = PollFd(p)
        BY <1>0, <4>1 DEF PendingIsPolled
      <4>3. handle'[SocketOf(p)] = handle[SocketOf(p)]
        BY <2>2, <4>1, <4>2, TaskParts
      <4>4. i \in Live' /\ fds'[i] = fds[i]
        BY <1>0, <2>1, <3>1, <4>2, PerformKeeps
      <4>5. QED
        BY <4>2, <4>3, <4>4 DEF Open, PollFd
    <3>4. QED
      BY <3>2, <3>3
  <2>4. QED
    BY <2>2, <2>3 DEF PInv, PendingIsPolled
<1>s. ASSUME Scanning, Advance
      PROVE  /\ phase = "reactor" /\ phase' = "reactor" /\ cursor' = cursor + 1
             /\ cursor \in 1 .. Len(fds) /\ kept < cursor /\ Len(revents) <= Len(fds)
             /\ Live = 1 .. kept \union cursor .. Len(fds)
             /\ Live' = 1 .. kept' \union (cursor + 1) .. Len(fds')
  BY <1>0, <1>s DEF Scanning, Advance, ScanBounds, Live
(* The entry under the cursor is dropped, and with it at most o's.         *)
<1>d. ASSUME Scanning, Advance, UNCHANGED <<handle, fds, kept>>, pending' \subseteq pending,
             \A o \in pending' : PollFd(o) # fds[cursor]
      PROVE  PInv'
  <2>1. ASSUME NEW p \in pending' PROVE Open(SocketOf(p)) /\ \E i \in Live' : fds[i] = PollFd(p)
    <3>1. PICK i \in Live : Open(SocketOf(p)) /\ fds[i] = PollFd(p)
      BY <1>0, <1>d, <2>1 DEF PendingIsPolled
    <3>2. i # cursor
      BY <1>d, <2>1, <3>1
    <3>3. i \in Live'
      BY <1>0, <1>d, <1>s, <3>1, <3>2
    <3>4. QED
      BY <3>1, <3>3
  <2>2. QED
    BY <1>0, <1>d, <2>1 DEF PInv, PendingIsPolled, Distinct, Open, PollFd
<1>8. CASE ScanStale
  BY <1>0, <1>8, <1>d DEF ScanStale, Woken
<1>9. ASSUME NEW o \in Tasks, ScanAbort(o) \/ ScanTimeout(o) PROVE PInv'
  <2>1. /\ Scanning /\ Advance /\ UNCHANGED <<handle, fds, kept>>
        /\ o \in pending /\ pending' = pending \ {o} /\ PollFd(o) = fds[cursor]
    BY <1>9 DEF ScanAbort, ScanTimeout, Complete, Woken
  <2>2. ASSUME NEW p \in pending' PROVE PollFd(p) # fds[cursor]
    BY <1>0, <2>1, <2>2, PollFdInjective DEF PendingIsPolled
  <2>3. QED
    BY <1>d, <2>1, <2>2
<1>10. ASSUME NEW o \in Tasks, ScanReady(o) PROVE PInv'
  <2> DEFINE most == IF Spurious THEN left[o] ELSE left[o] - 1
  <2>1. /\ Scanning /\ Advance /\ kept' = kept
        /\ Perform(o, most, 0 - 1) /\ Adopt(o)
        /\ o \in pending /\ PollFd(o) = fds[cursor] /\ Open(SocketOf(o))
    BY <1>0, <1>10 DEF ScanReady, Woken, PendingIsPolled
  <2> HIDE DEF most
  <2>2. Distinct' /\ \A s \in Sockets : Open(s) => handle'[s] = handle[s]
    BY <1>0, <2>1, AdoptKeeps
  <2>3. handle[SocketOf(o)] \in Fds
    BY <1>0, <2>1, TaskParts DEF Open
  <2>4. ASSUME NEW p \in pending' PROVE Open(SocketOf(p))' /\ \E i \in Live' : fds'[i] = PollFd(p)'
    <3>1. /\ Live = 1 .. kept \union cursor .. Len(fds)
          /\ Live' = 1 .. kept \union (cursor + 1) .. Len(fds')
          /\ cursor \in 1 .. Len(fds) /\ kept < cursor
      BY <1>s, <2>1
    <3>2. CASE p = o
      <4>1. handle'[SocketOf(o)] = handle[SocketOf(o)]
        BY <2>1, <2>2, TaskParts
      <4>2. Len(fds') = Len(fds) + 1 /\ fds'[Len(fds')] = PollFd(o)
        BY <1>0, <2>1, <2>3, <2>4, <3>2, PerformKeeps
      <4>3. Len(fds') \in Live'
        BY <1>0, <3>1, <4>2
      <4>4. QED
        BY <2>1, <3>2, <4>1, <4>2, <4>3 DEF Open, PollFd
    <3>3. CASE p # o
      <4>1. p \in pending /\ p \in Tasks
        BY <1>0, <2>1, <2>4, <3>3, PerformPolls
      <4>2. PICK i \in Live : Open(SocketOf(p)) /\ fds[i] = PollFd(p)
        BY <1>0, <4>1 DEF PendingIsPolled
      <4>3. handle'[SocketOf(p)] = handle[SocketOf(p)]
        BY <2>2, <4>1, <4>2, TaskParts
      <4>4. i # cursor
        BY <1>0, <2>1, <3>3, <4>1, <4>2, PollFdInjective
      <4>5. /\ Len(fds') >= Len(fds) /\ Len(fds') \in Nat
            /\ \A j \in 1 .. Len(fds) : fds'[j] = fds[j]
        BY <1>0, <2>1, <2>3, PerformKeeps
      <4>6. i \in Live' /\ fds'[i] = fds[i]
        BY <1>0, <3>1, <4>2, <4>4, <4>5
      <4>7. QED
        BY <4>2, <4>3, <4>6 DEF Open, PollFd
    <3>4. QED
      BY <3>2, <3>3
  <2>5. QED
    BY <2>2, <2>4 DEF PInv, PendingIsPolled
<1>11. ASSUME NEW o \in Tasks, ScanKeep(o) PROVE PInv'
  <2>1. /\ Scanning /\ Advance /\ kept' = kept + 1 /\ UNCHANGED <<handle, pending>>
        /\ fds' = [fds EXCEPT ![kept + 1] = fds[cursor]]
    BY <1>11 DEF ScanKeep
  <2>2. /\ cursor \in 1 .. Len(fds) /\ kept < cursor
        /\ Live = 1 .. kept \union cursor .. Len(fds)
        /\ Live' = 1 .. (kept + 1) \union (cursor + 1) .. Len(fds')
    BY <1>s, <2>1
  <2>3. Len(fds') = Len(fds)
    BY <1>0, <2>1
  <2>4. /\ fds'[kept + 1] = fds[cursor]
        /\ \A i \in 1 .. Len(fds) : i # kept + 1 => fds'[i] = fds[i]
    BY <1>0, <2>1, <2>2
  <2>5. ASSUME NEW p \in pending PROVE Open(SocketOf(p)) /\ \E i \in Live' : fds'[i] = PollFd(p)
    <3>1. PICK i \in Live : Open(SocketOf(p)) /\ fds[i] = PollFd(p)
      BY <1>0, <2>5 DEF PendingIsPolled
    <3>2. CASE i = cursor
      <4>1. kept + 1 \in Live' /\ fds'[kept + 1] = fds[i]
        BY <1>0, <2>2, <2>4, <3>2
      <4>2. QED
        BY <3>1, <4>1
    <3>3. CASE i # cursor
      <4>1. i \in Live' /\ fds'[i] = fds[i]
        BY <1>0, <2>2, <2>3, <2>4, <3>1, <3>3
      <4>2. QED
        BY <3>1, <4>1
    <3>4. QED
      BY <3>2, <3>3
  <2>6. QED
    BY <1>0, <2>1, <2>5 DEF PInv, PendingIsPolled, Distinct, Open, PollFd
<1>12. CASE ScanEnd
  <2> DEFINE a == SubSeq(fds, 1, kept)
             b == SubSeq(fds, Len(revents) + 1, Len(fds))
  <2>1. /\ phase = "reactor" /\ phase' # "reactor" /\ fds' = a \o b
        /\ cursor = Len(revents) + 1 /\ kept < cursor /\ Len(revents) <= Len(fds)
        /\ UNCHANGED <<handle, pending>>
    BY <1>0, <1>12 DEF ScanEnd, ReactorReturn, Compacted, ScanBounds
  <2>2. /\ a \in Seq(PollFds) /\ Len(a) = kept /\ \A i \in 1 .. kept : a[i] = fds[i]
    BY <1>0, <2>1
  <2>3. /\ b \in Seq(PollFds) /\ Len(b) = Len(fds) - Len(revents)
        /\ \A i \in 1 .. Len(fds) - Len(revents) : b[i] = fds[Len(revents) + i]
    BY <1>0, <2>1
  <2> HIDE DEF a, b
  <2>4. /\ DOMAIN fds' = 1 .. kept + (Len(fds) - Len(revents))
        /\ \A i \in 1 .. kept : fds'[i] = fds[i]
        /\ \A i \in 1 .. Len(fds) - Len(revents) : fds'[kept + i] = fds[Len(revents) + i]
    <3> DEFINE n == Len(fds) - Len(revents)
    <3>1. n \in Nat /\ kept \in Nat
      BY <1>0, <2>1
    <3> HIDE DEF n
    <3>2. /\ a \in Seq(PollFds) /\ b \in Seq(PollFds) /\ Len(a) = kept /\ Len(b) = n
          /\ fds' = a \o b
      BY <2>1, <2>2, <2>3 DEF n
    <3>3. /\ DOMAIN fds' = 1 .. kept + n
          /\ \A i \in 1 .. kept : fds'[i] = a[i]
      <4>1. /\ fds' \in Seq(PollFds) /\ Len(fds') = kept + n
            /\ \A i \in 1 .. kept + n : fds'[i] = IF i <= kept THEN a[i] ELSE b[i - kept]
        BY <3>2, ConcatProperties
      <4>2. DOMAIN fds' = 1 .. kept + n
        BY <4>1
      <4>3. ASSUME NEW i \in 1 .. kept PROVE fds'[i] = a[i]
        BY <3>1, <4>1, <4>3
      <4>4. QED
        BY <4>2, <4>3
    <3>4. ASSUME NEW i \in 1 .. n PROVE fds'[kept + i] = b[i]
      BY <3>1, <3>2, <3>4
    <3>5. QED
      BY <2>2, <2>3, <3>3, <3>4 DEF n
  <2>5. Live = 1 .. kept \union (Len(revents) + 1) .. Len(fds) /\ Live' = DOMAIN fds'
    BY <2>1 DEF Live
  <2>6. ASSUME NEW p \in pending PROVE Open(SocketOf(p)) /\ \E i \in Live' : fds'[i] = PollFd(p)
    <3>1. PICK i \in Live : Open(SocketOf(p)) /\ fds[i] = PollFd(p)
      BY <1>0, <2>6 DEF PendingIsPolled
    <3>2. CASE i \in 1 .. kept
      <4>1. i \in Live' /\ fds'[i] = fds[i]
        BY <1>0, <2>1, <2>4, <2>5, <3>2
      <4>2. QED
        BY <3>1, <4>1
    <3>3. CASE i \in (Len(revents) + 1) .. Len(fds)
      <4> DEFINE j == i - Len(revents)
      <4>1. j \in 1 .. Len(fds) - Len(revents) /\ Len(revents) + j = i
        BY <1>0, <2>1, <3>3
      <4> HIDE DEF j
      <4>2. kept + j \in Live' /\ fds'[kept + j] = fds[i]
        BY <1>0, <2>1, <2>4, <2>5, <4>1
      <4>3. QED
        BY <3>1, <4>2
    <3>4. QED
      BY <2>5, <3>1, <3>2, <3>3
  <2>7. QED
    BY <1>0, <2>1, <2>6 DEF PInv, PendingIsPolled, Distinct, Open, PollFd
<1>13. QED
  BY <1>2, <1>3, <1>4, <1>5, <1>6, <1>7, <1>8, <1>9, <1>10, <1>11, <1>12
     DEF Next, Loop, Scan, Client

(* An operation the reactor holds is polled for: th_poll_reactor_run drops *)
(* entries of the pollfd vector and moves others down while the operations *)
(* it resumes push new ones, and still the handle of every pending         *)
(* operation is open and an entry for it survives.                         *)
THEOREM NoneIsForgotten == Spec => []PendingIsPolled
<1>1. Init => PInv
  BY DEF Init, PInv, Distinct, PendingIsPolled
<1>2. IInv /\ PInv /\ [Next]_vars => PInv'
  BY PollStep
<1>3. PInv => PendingIsPolled
  BY DEF PInv
<1>4. QED
  BY Inductive, <1>1, <1>2, <1>3, PTL DEF Spec

-----------------------------------------------------------------------------
(* The reactor and the loop implement ThAsync.  Its queue of completed      *)
(* operations is the loop's without the reactor's task, each operation with *)
(* its op->err.                                                             *)
LEMMA OneReactor ==
  ASSUME NEW q \in Seq(Tasks \union {ReactorTask}), Unique(q), ReactorTask \in Elems(q)
  PROVE  /\ ReactorAt(q) \in 1 .. Len(q)
         /\ \A i \in 1 .. Len(q) : q[i] = ReactorTask <=> i = ReactorAt(q)
<1>1. \E i \in DOMAIN q : q[i] = ReactorTask
  BY DEF Elems
<1>2. ReactorAt(q) \in DOMAIN q /\ q[ReactorAt(q)] = ReactorTask
  BY <1>1 DEF ReactorAt
<1>3. DOMAIN q = 1 .. Len(q)
  OBVIOUS
<1>4. QED
  BY <1>2, <1>3 DEF Unique

LEMMA OthersType ==
  ASSUME NEW q \in Seq(Tasks \union {ReactorTask}), Unique(q)
  PROVE  /\ Others(q) \in Seq(Tasks)
         /\ Elems(Others(q)) = Elems(q) \ {ReactorTask}
<1>1. CASE ReactorTask \notin Elems(q)
  <2>1. Others(q) = q
    BY <1>1 DEF Others
  <2>2. \A i \in 1 .. Len(q) : q[i] \in Tasks
    BY <1>1 DEF Elems
  <2>3. q \in Seq(Tasks)
    BY <2>2
  <2>4. QED
    BY <1>1, <2>1, <2>3
<1>2. CASE ReactorTask \in Elems(q)
  <2> DEFINE a == ReactorAt(q)
             n == Len(q)
             r == Others(q)
             src(i) == IF i < a THEN i ELSE i + 1
  <2>1. a \in 1 .. n /\ n \in Nat /\ DOMAIN q = 1 .. n
        /\ \A i \in 1 .. n : q[i] = ReactorTask <=> i = a
    BY <1>2, OneReactor
  <2>2. r = [i \in 1 .. n - 1 |-> q[src(i)]]
    BY <1>2 DEF Others
  <2> HIDE DEF a, n, r
  <2>3. \A i \in 1 .. n - 1 : src(i) \in 1 .. n /\ src(i) # a
    BY <2>1
  <2>4. \A i \in 1 .. n - 1 : q[src(i)] \in Tasks
    BY <2>1, <2>3 DEF n
  <2>5. r \in Seq(Tasks) /\ DOMAIN r = 1 .. n - 1
    BY <2>1, <2>2, <2>4
  <2>6. ASSUME NEW x \in Elems(r) PROVE x \in Elems(q) \ {ReactorTask}
    <3>1. PICK i \in 1 .. n - 1 : x = r[i]
      BY <2>5 DEF Elems
    <3>2. x = q[src(i)]
      BY <2>2, <3>1
    <3>3. QED
      BY <2>1, <2>3, <3>1, <3>2 DEF Elems
  <2>7. ASSUME NEW x \in Elems(q) \ {ReactorTask} PROVE x \in Elems(r)
    <3>1. PICK i \in 1 .. n : x = q[i] /\ i # a
      BY <2>1 DEF Elems
    <3>2. CASE i < a
      <4>1. i \in 1 .. n - 1 /\ src(i) = i
        BY <2>1, <3>1, <3>2
      <4>2. QED
        BY <2>2, <2>5, <3>1, <4>1 DEF Elems
    <3>3. CASE i > a
      <4>1. i - 1 \in 1 .. n - 1 /\ src(i - 1) = i
        BY <2>1, <3>1, <3>3
      <4>2. QED
        BY <2>2, <2>5, <3>1, <4>1 DEF Elems
    <3>4. QED
      BY <2>1, <3>1, <3>2, <3>3
  <2>8. QED
    BY <2>5, <2>6, <2>7 DEF r
<1>3. QED
  BY <1>1, <1>2

(* Tasks that are queued keep the order of those before them.              *)
LEMMA OthersConcat ==
  ASSUME NEW q \in Seq(Tasks \union {ReactorTask}), Unique(q), NEW t \in Seq(Tasks)
  PROVE  Others(q \o t) = Others(q) \o t
<1> DEFINE u == q \o t
           n == Len(q)
           m == Len(t)
<1>1. /\ n \in Nat /\ m \in Nat /\ DOMAIN q = 1 .. n /\ DOMAIN t = 1 .. m
      /\ u \in Seq(Tasks \union {ReactorTask})
      /\ \A i \in 1 .. m : t[i] \in Tasks /\ t[i] # ReactorTask
  BY LoopAssumption
<1>2. /\ Len(u) = n + m /\ DOMAIN u = 1 .. n + m
      /\ \A i \in 1 .. n + m : u[i] = IF i <= n THEN q[i] ELSE t[i - n]
  <2>1. t \in Seq(Tasks \union {ReactorTask})
    BY <1>1
  <2>2. QED
    BY <1>1, <2>1, ConcatProperties
<1> HIDE DEF u, n, m
<1>3. ASSUME NEW i \in 1 .. n + m
      PROVE  u[i] = ReactorTask <=> i <= n /\ q[i] = ReactorTask
  <2>1. CASE i <= n
    BY <1>2, <2>1
  <2>2. CASE ~(i <= n)
    <3>1. i - n \in 1 .. m
      BY <1>1, <2>2
    <3>2. QED
      BY <1>1, <1>2, <2>2, <3>1
  <2>3. QED
    BY <2>1, <2>2
<1>4. CASE ReactorTask \notin Elems(q)
  <2>1. ReactorTask \notin Elems(u)
    BY <1>1, <1>2, <1>3, <1>4 DEF Elems
  <2>2. QED
    BY <1>4, <2>1 DEF Others, u
<1>5. CASE ReactorTask \in Elems(q)
  <2> DEFINE a == ReactorAt(q)
             r == Others(q)
  <2>1. a \in 1 .. n /\ \A i \in 1 .. n : q[i] = ReactorTask <=> i = a
    BY <1>5, OneReactor DEF n
  <2>2. r \in Seq(Tasks) /\ r = [i \in 1 .. n - 1 |-> q[IF i < a THEN i ELSE i + 1]]
    BY <1>5, OthersType DEF Others, n
  <2> HIDE DEF a, r
  <2>3. Len(r) = n - 1
    BY <1>1, <2>1, <2>2
  <2>4. \A i \in 1 .. n + m : u[i] = ReactorTask <=> i = a
    BY <1>1, <1>3, <2>1
  <2>5. ReactorTask \in Elems(u) /\ ReactorAt(u) = a
    <3>1. a \in DOMAIN u /\ u[a] = ReactorTask
      BY <1>1, <1>2, <2>1, <2>4
    <3>2. QED
      BY <1>2, <2>4, <3>1 DEF Elems, ReactorAt
  <2>6. Others(u) = [i \in 1 .. (n + m) - 1 |-> u[IF i < a THEN i ELSE i + 1]]
    BY <1>2, <2>5 DEF Others
  <2>7. /\ r \o t \in Seq(Tasks) /\ Len(r \o t) = n - 1 + m
        /\ \A i \in 1 .. n - 1 + m : (r \o t)[i] = IF i <= n - 1 THEN r[i] ELSE t[i - (n - 1)]
    <3>1. /\ r \o t \in Seq(Tasks) /\ Len(r \o t) = Len(r) + Len(t)
          /\ \A i \in 1 .. Len(r) + Len(t) :
               (r \o t)[i] = IF i <= Len(r) THEN r[i] ELSE t[i - Len(r)]
      BY <2>2, ConcatProperties
    <3>2. Len(t) = m
      BY DEF m
    <3>3. QED
      BY <1>1, <2>3, <3>1, <3>2
  <2>8. ASSUME NEW i \in 1 .. (n + m) - 1
        PROVE  u[IF i < a THEN i ELSE i + 1] = (r \o t)[i]
    <3>0. i \in 1 .. n - 1 + m
      BY <1>1
    <3>1. CASE i < a
      <4>1. i \in 1 .. n - 1 /\ i <= n /\ i \in 1 .. n + m
        BY <1>1, <2>1, <3>1
      <4>2. u[i] = q[i] /\ (r \o t)[i] = r[i]
        BY <1>2, <2>7, <3>0, <4>1
      <4>3. r[i] = q[i]
        BY <2>2, <3>1, <4>1
      <4>4. QED
        BY <3>1, <4>2, <4>3
    <3>2. CASE ~(i < a) /\ i <= n - 1
      <4>1. i \in 1 .. n - 1 /\ i + 1 <= n /\ i + 1 \in 1 .. n + m
        BY <1>1, <3>2
      <4>2. u[i + 1] = q[i + 1] /\ (r \o t)[i] = r[i]
        BY <1>2, <2>7, <3>0, <4>1
      <4>3. r[i] = q[i + 1]
        BY <2>2, <3>2, <4>1
      <4>4. QED
        BY <3>2, <4>2, <4>3
    <3>3. CASE ~(i < a) /\ ~(i <= n - 1)
      <4>1. i + 1 \in 1 .. n + m /\ ~(i + 1 <= n) /\ (i + 1) - n = i - (n - 1)
        BY <1>1, <3>3
      <4>2. u[i + 1] = t[(i + 1) - n] /\ (r \o t)[i] = t[i - (n - 1)]
        BY <1>2, <2>7, <3>0, <3>3, <4>1
      <4>3. QED
        BY <3>3, <4>1, <4>2
    <3>4. QED
      BY <3>1, <3>2, <3>3
  <2>9. DOMAIN (r \o t) = 1 .. (n + m) - 1
    BY <1>1, <2>7
  <2>10. Others(u) = r \o t
    <3> DEFINE w == r \o t
    <3>1. w \in Seq(Tasks) /\ DOMAIN w = 1 .. (n + m) - 1
      BY <2>7, <2>9
    <3>2. \A i \in 1 .. (n + m) - 1 : u[IF i < a THEN i ELSE i + 1] = w[i]
      BY <2>8
    <3> HIDE DEF w
    <3>3. w = [i \in 1 .. (n + m) - 1 |-> w[i]]
      BY <3>1
    <3>4. QED
      BY <2>6, <3>2, <3>3 DEF w
  <2>11. QED
    BY <2>10 DEF u, r
<1>6. QED
  BY <1>4, <1>5

LEMMA OthersWithReactor ==
  ASSUME NEW q \in Seq(Tasks \union {ReactorTask}), Unique(q), ReactorTask \notin Elems(q)
  PROVE  Others(Append(q, ReactorTask)) = q
<1> DEFINE u == Append(q, ReactorTask)
<1>1. /\ u \in Seq(Tasks \union {ReactorTask}) /\ Len(u) = Len(q) + 1 /\ Len(q) \in Nat
      /\ \A i \in 1 .. Len(q) : u[i] = q[i] /\ u[i] # ReactorTask
      /\ u[Len(q) + 1] = ReactorTask /\ DOMAIN u = 1 .. Len(q) + 1
  BY DEF Elems
<1> HIDE DEF u
<1>2. ReactorAt(u) = Len(q) + 1 /\ ReactorTask \in Elems(u)
  <2>1. Len(q) + 1 \in DOMAIN u /\ \A i \in DOMAIN u : u[i] = ReactorTask => i = Len(q) + 1
    BY <1>1
  <2>2. QED
    BY <1>1, <2>1 DEF ReactorAt, Elems
<1>3. Others(u) = [i \in 1 .. Len(u) - 1 |-> u[IF i < ReactorAt(u) THEN i ELSE i + 1]]
  BY <1>2 DEF Others
<1>4. DOMAIN Others(u) = 1 .. Len(q) /\ \A i \in 1 .. Len(q) : Others(u)[i] = q[i]
  BY <1>1, <1>2, <1>3
<1>5. q = [i \in 1 .. Len(q) |-> q[i]] /\ Others(u) = [i \in 1 .. Len(q) |-> Others(u)[i]]
  BY <1>1, <1>3
<1>6. QED
  BY <1>4, <1>5 DEF u

LEMMA OthersFirst ==
  ASSUME NEW q \in Seq(Tasks \union {ReactorTask}), Unique(q), q # <<>>
  PROVE  /\ Head(q) = ReactorTask => Others(q) = Tail(q) /\ Others(Tail(q)) = Tail(q)
         /\ Head(q) # ReactorTask => /\ Others(q) # <<>> /\ Head(Others(q)) = Head(q)
                                     /\ Others(Tail(q)) = Tail(Others(q))
<1> DEFINE t == Tail(q)
           n == Len(q)
           a == ReactorAt(q)
<1>1. /\ t \in Seq(Tasks \union {ReactorTask}) /\ n \in Nat \ {0} /\ Len(t) = n - 1
      /\ DOMAIN q = 1 .. n /\ DOMAIN t = 1 .. n - 1 /\ Head(q) = q[1]
      /\ \A i \in 1 .. n - 1 : t[i] = q[i + 1]
  OBVIOUS
<1>2. Unique(t) /\ Elems(t) = Elems(q) \ {Head(q)} /\ Head(q) \in Elems(q)
  BY TailUnique
<1> HIDE DEF t
<1>3. CASE Head(q) = ReactorTask
  <2>1. Others(t) = t
    BY <1>2, <1>3 DEF Others
  <2>2. a = 1 /\ Others(q) = [i \in 1 .. n - 1 |-> q[IF i < a THEN i ELSE i + 1]]
    BY <1>1, <1>2, <1>3, OneReactor DEF Others
  <2> HIDE DEF a, n
  <2>3. \A i \in 1 .. n - 1 : q[IF i < a THEN i ELSE i + 1] = t[i]
    BY <1>1, <2>2
  <2>4. t = [i \in 1 .. n - 1 |-> t[i]]
    BY <1>1
  <2>5. QED
    BY <1>3, <2>1, <2>2, <2>3, <2>4 DEF t
<1>4. CASE Head(q) # ReactorTask /\ ReactorTask \notin Elems(q)
  <2>1. Others(q) = q /\ Others(t) = t
    BY <1>2, <1>4 DEF Others
  <2>2. QED
    BY <1>4, <2>1 DEF t
<1>5. CASE Head(q) # ReactorTask /\ ReactorTask \in Elems(q)
  <2> DEFINE r == Others(q)
             b == ReactorAt(t)
  <2>1. /\ a \in 1 .. n /\ \A i \in 1 .. n : q[i] = ReactorTask <=> i = a
        /\ a # 1 /\ r = [i \in 1 .. n - 1 |-> q[IF i < a THEN i ELSE i + 1]]
        /\ r \in Seq(Tasks)
    BY <1>1, <1>5, OneReactor, OthersType DEF Others
  <2>2. /\ ReactorTask \in Elems(t)
        /\ b \in 1 .. n - 1 /\ \A i \in 1 .. n - 1 : t[i] = ReactorTask <=> i = b
    BY <1>1, <1>2, <1>5, OneReactor
  <2>3. Others(t) = [i \in 1 .. (n - 1) - 1 |-> t[IF i < b THEN i ELSE i + 1]]
    BY <1>1, <2>2 DEF Others
  <2> HIDE DEF a, b, n, r
  <2>4. b = a - 1
    <3>1. a - 1 \in 1 .. n - 1 /\ (a - 1) + 1 = a
      BY <1>1, <2>1
    <3>2. t[a - 1] = ReactorTask
      BY <1>1, <2>1, <3>1
    <3>3. QED
      BY <2>2, <3>1, <3>2
  <2>5. n > 1 /\ Len(r) = n - 1 /\ r # <<>> /\ Head(r) = r[1] /\ r[1] = q[1]
    BY <1>1, <2>1
  <2>6. /\ Tail(r) \in Seq(Tasks) /\ DOMAIN Tail(r) = 1 .. (n - 1) - 1
        /\ \A i \in 1 .. (n - 1) - 1 : Tail(r)[i] = r[i + 1]
    BY <1>1, <2>1, <2>5
  <2>7. ASSUME NEW i \in 1 .. (n - 1) - 1
        PROVE  t[IF i < b THEN i ELSE i + 1] = Tail(r)[i]
    <3>1. i \in 1 .. n - 1 /\ i + 1 \in 1 .. n - 1
      BY <1>1
    <3>2. CASE i < b
      <4>1. i + 1 < a
        BY <1>1, <2>1, <2>4, <3>2
      <4>2. r[i + 1] = q[i + 1]
        BY <2>1, <3>1, <4>1
      <4>3. QED
        BY <1>1, <2>6, <3>1, <3>2, <4>2
    <3>3. CASE ~(i < b)
      <4>1. ~(i + 1 < a)
        BY <1>1, <2>1, <2>4, <3>3
      <4>2. r[i + 1] = q[(i + 1) + 1]
        BY <2>1, <3>1, <4>1
      <4>3. QED
        BY <1>1, <2>6, <3>1, <3>3, <4>2
    <3>4. QED
      BY <3>2, <3>3
  <2>8. Others(t) = Tail(r)
    <3> DEFINE w == Tail(r)
    <3>1. w \in Seq(Tasks) /\ DOMAIN w = 1 .. (n - 1) - 1
      BY <2>6
    <3>2. \A i \in 1 .. (n - 1) - 1 : t[IF i < b THEN i ELSE i + 1] = w[i]
      BY <2>7
    <3> HIDE DEF w
    <3>3. w = [i \in 1 .. (n - 1) - 1 |-> w[i]]
      BY <3>1
    <3>4. QED
      BY <2>3, <3>2, <3>3 DEF w
  <2>9. QED
    BY <1>1, <1>5, <2>5, <2>8 DEF r, t
<1>6. QED
  BY <1>3, <1>4, <1>5

LEMMA SeqByPoints ==
  ASSUME NEW S, NEW w \in Seq(S)
  PROVE  w = [i \in 1 .. Len(w) |-> w[i]]
OBVIOUS

(* The tasks with their results.                                           *)
LEMMA AnswersType ==
  ASSUME NEW q \in Seq(Tasks), NEW e \in [Tasks -> Results]
  PROVE  /\ Answers(q, e) \in Seq(Tasks \X Results)
         /\ {c[1] : c \in Async!ToSet(Answers(q, e))} = Elems(q)
<1> DEFINE a == Answers(q, e)
<1>1. /\ DOMAIN q = 1 .. Len(q) /\ Len(q) \in Nat
      /\ a = [i \in 1 .. Len(q) |-> <<q[i], e[q[i]]>>]
  BY DEF Answers
<1>2. \A i \in 1 .. Len(q) : q[i] \in Tasks /\ e[q[i]] \in Results
  OBVIOUS
<1> HIDE DEF a
<1>3. a \in Seq(Tasks \X Results)
  <2>1. \A i \in 1 .. Len(q) : a[i] \in Tasks \X Results
    BY <1>1, <1>2
  <2>2. a = [i \in 1 .. Len(q) |-> a[i]]
    BY <1>1
  <2> DEFINE S == Tasks \X Results
  <2> HIDE DEF S
  <2>3. \A i \in 1 .. Len(q) : a[i] \in S
    BY <2>1 DEF S
  <2>4. a \in Seq(S)
    <3> DEFINE n == Len(q)
    <3>1. n \in Nat /\ a = [i \in 1 .. n |-> a[i]] /\ \A i \in 1 .. n : a[i] \in S
      BY <1>1, <2>2, <2>3
    <3> HIDE DEF n
    <3>2. QED
      BY <3>1
  <2>5. QED
    BY <2>4 DEF S
<1>4. DOMAIN a = DOMAIN q /\ \A i \in DOMAIN q : a[i][1] = q[i]
  BY <1>1
<1>5. {c[1] : c \in Async!ToSet(a)} = Elems(q)
  BY <1>4 DEF Async!ToSet, Elems
<1>6. QED
  BY <1>3, <1>5 DEF a

LEMMA AnswersFirst ==
  ASSUME NEW q \in Seq(Tasks), q # <<>>, NEW e \in [Tasks -> Results]
  PROVE  /\ Answers(q, e) # <<>> /\ Head(Answers(q, e))[1] = Head(q)
         /\ Answers(Tail(q), e) = Tail(Answers(q, e))
<1> DEFINE a == Answers(q, e)
           t == Tail(q)
           n == Len(q)
<1>1. /\ n \in Nat \ {0} /\ t \in Seq(Tasks) /\ DOMAIN t = 1 .. n - 1
      /\ Head(q) = q[1] /\ \A i \in 1 .. n - 1 : t[i] = q[i + 1]
  OBVIOUS
<1>2. /\ a \in Seq(Tasks \X Results) /\ DOMAIN a = 1 .. n
      /\ \A i \in 1 .. n : a[i] = <<q[i], e[q[i]]>>
  <2>1. DOMAIN q = 1 .. n
    OBVIOUS
  <2>2. QED
    BY <2>1, AnswersType DEF Answers
<1> DEFINE S == Tasks \X Results
           w == Tail(a)
<1>3. a \in Seq(S) /\ Len(a) = n
  BY <1>1, <1>2
<1> HIDE DEF S, a, t, n
<1>4. /\ a # <<>> /\ Head(a) = a[1]
      /\ w \in Seq(S) /\ Len(w) = n - 1 /\ \A i \in 1 .. n - 1 : w[i] = a[i + 1]
  BY <1>1, <1>3
<1> HIDE DEF w
<1>5. w = [i \in 1 .. n - 1 |-> w[i]]
  BY <1>4, SeqByPoints
<1>6. ASSUME NEW i \in 1 .. n - 1 PROVE w[i] = <<t[i], e[t[i]]>>
  <2>1. i + 1 \in 1 .. n
    BY <1>1
  <2>2. QED
    BY <1>1, <1>2, <1>4, <2>1
<1>7. Answers(t, e) = w
  <2>1. Answers(t, e) = [i \in 1 .. n - 1 |-> <<t[i], e[t[i]]>>]
    BY <1>1 DEF Answers
  <2>2. QED
    BY <1>5, <1>6, <2>1
<1>8. Head(a)[1] = Head(q)
  BY <1>1, <1>2, <1>4
<1>9. QED
  BY <1>4, <1>7, <1>8 DEF a, w, t

LEMMA AnswersSame ==
  ASSUME NEW q \in Seq(Tasks), NEW e, NEW f, \A o \in Elems(q) : f[o] = e[o]
  PROVE  Answers(q, f) = Answers(q, e)
<1>1. \A i \in DOMAIN q : f[q[i]] = e[q[i]]
  BY DEF Elems
<1>2. QED
  BY <1>1 DEF Answers

LEMMA AnswersConcat ==
  ASSUME NEW q \in Seq(Tasks), NEW t \in Seq(Tasks), NEW e \in [Tasks -> Results]
  PROVE  Answers(q \o t, e) = Answers(q, e) \o Answers(t, e)
<1> DEFINE n == Len(q)
           m == Len(t)
           u == q \o t
           a == Answers(q, e)
           b == Answers(t, e)
           w == a \o b
<1>1. /\ n \in Nat /\ m \in Nat
      /\ u \in Seq(Tasks) /\ DOMAIN u = 1 .. n + m
      /\ \A i \in 1 .. n + m : u[i] = IF i <= n THEN q[i] ELSE t[i - n]
  BY ConcatProperties
<1>2. /\ a \in Seq(Tasks \X Results) /\ b \in Seq(Tasks \X Results)
      /\ DOMAIN a = 1 .. n /\ DOMAIN b = 1 .. m
      /\ \A i \in 1 .. n : a[i] = <<q[i], e[q[i]]>>
      /\ \A i \in 1 .. m : b[i] = <<t[i], e[t[i]]>>
  <2>1. a \in Seq(Tasks \X Results) /\ b \in Seq(Tasks \X Results)
    BY AnswersType
  <2>2. DOMAIN q = 1 .. n /\ DOMAIN t = 1 .. m
    OBVIOUS
  <2>3. QED
    BY <2>1, <2>2 DEF Answers
<1> HIDE DEF a, b
<1>3. Len(a) = n /\ Len(b) = m
  BY <1>1, <1>2
<1>4. /\ w \in Seq(Tasks \X Results) /\ Len(w) = Len(a) + Len(b)
      /\ \A i \in 1 .. Len(a) + Len(b) : w[i] = IF i <= Len(a) THEN a[i] ELSE b[i - Len(a)]
  BY <1>2, ConcatProperties
<1> HIDE DEF n, m, w, u
<1>5. DOMAIN w = 1 .. n + m /\ \A i \in 1 .. n + m : w[i] = IF i <= n THEN a[i] ELSE b[i - n]
  BY <1>1, <1>3, <1>4
<1>6. ASSUME NEW i \in 1 .. n + m PROVE w[i] = <<u[i], e[u[i]]>>
  <2>1. CASE i <= n
    <3>1. i \in 1 .. n
      BY <1>1, <2>1
    <3>2. QED
      BY <1>1, <1>2, <1>5, <2>1, <3>1
  <2>2. CASE ~(i <= n)
    <3>1. i - n \in 1 .. m
      BY <1>1, <2>2
    <3>2. w[i] = b[i - n] /\ u[i] = t[i - n] /\ b[i - n] = <<t[i - n], e[t[i - n]]>>
      BY <1>1, <1>2, <1>5, <2>2, <3>1
    <3>3. QED
      BY <3>2
  <2>3. QED
    BY <2>1, <2>2
<1>7. w = [i \in 1 .. n + m |-> w[i]]
  <2> DEFINE S == Tasks \X Results
  <2>1. w \in Seq(S) /\ Len(w) = n + m
    BY <1>3, <1>4
  <2> HIDE DEF S
  <2>2. w = [i \in 1 .. Len(w) |-> w[i]]
    BY <2>1, SeqByPoints
  <2>3. QED
    BY <2>1, <2>2
<1>8. Answers(u, e) = [i \in 1 .. n + m |-> <<u[i], e[u[i]]>>]
  BY <1>1 DEF Answers
<1>9. QED
  BY <1>6, <1>7, <1>8 DEF w, u, a, b

Done == Answers(Others(queue), err)

(* The loop delivers one task at a time.                                   *)
IdleRuns == phase # "task" => running = ReactorTask

AInv == IInv /\ IdleRuns

LEMMA AsyncInductive == Spec => []AInv
<1>1. Init => IdleRuns
  BY DEF Init, LoopInit, IdleRuns
<1>2. IInv /\ IdleRuns /\ [Next]_vars => IdleRuns'
  BY DEF IdleRuns, Next, Loop, Client, Scan, StartPoll, PollStart, Finalize, PopTask, Return,
         TaskReturn, RunReactor, PopReactor, PollFails, ScanStale, ScanReady, ScanAbort,
         ScanTimeout, ScanKeep, ScanEnd, ReactorReturn, Advance, Submit, Cancel, SetFd, Close,
         Tick, loopVars, vars
<1>3. QED
  BY <1>1, <1>2, Inductive, PTL DEF Spec, AInv

LEMMA DoneType ==
  ASSUME IInv
  PROVE  /\ Shape /\ OpType
         /\ Done \in Seq(Tasks \X Results)
         /\ Async!Finished = Queued
         /\ Others(queue) \in Seq(Tasks) /\ Elems(Others(queue)) = Queued
<1>1. Shape /\ OpType
  BY InvIsParts DEF Parts
<1>2. queue \in Seq(Tasks \union {ReactorTask}) /\ Unique(queue) /\ err \in [Tasks -> Results]
  BY <1>1 DEF Shape, OpType
<1>3. Others(queue) \in Seq(Tasks) /\ Elems(Others(queue)) = Queued
  BY <1>2, OthersType DEF Queued
<1>4. QED
  BY <1>1, <1>2, <1>3, AnswersType DEF Done, Async!Finished

(* Posting tasks leaves the results of those that wait alone.              *)
LEMMA DoneConcat ==
  ASSUME IInv, IInv', NEW t \in Seq(Tasks), queue' = queue \o t,
         \A x \in Queued : err'[x] = err[x]
  PROVE  Done' = Done \o Answers(t, err')
<1> DEFINE r == Others(queue)
<1>1. /\ queue \in Seq(Tasks \union {ReactorTask}) /\ Unique(queue)
      /\ r \in Seq(Tasks) /\ Elems(r) = Queued
  BY DoneType DEF Shape
<1>2. err' \in [Tasks -> Results]
  BY DEF IInv, TypeOK
<1>3. Others(queue') = r \o t
  BY <1>1, OthersConcat
<1>4. Answers(r, err') = Answers(r, err)
  BY <1>1, AnswersSame
<1> HIDE DEF r
<1>5. Answers(r \o t, err') = Answers(r, err') \o Answers(t, err')
  BY <1>1, <1>2, AnswersConcat
<1>6. Done' = Answers(Others(queue'), err')
  BY DEF Done
<1>7. QED
  BY <1>3, <1>4, <1>5, <1>6 DEF Done, r

LEMMA DoneSame ==
  ASSUME IInv, Others(queue') = Others(queue), \A x \in Queued : err'[x] = err[x]
  PROVE  Done' = Done
<1>1. Answers(Others(queue), err') = Answers(Others(queue), err)
  BY DoneType, AnswersSame
<1>2. QED
  BY <1>1 DEF Done

LEMMA PostDone ==
  ASSUME IInv, IInv', NEW o \in Tasks, o \notin Elems(queue), NEW r, NEW d,
         Account(<<o>>, d), err' = [err EXCEPT ![o] = r]
  PROVE  r \in Results /\ Done' = Append(Done, <<o, r>>)
<1>1. /\ queue' = queue \o <<o>> /\ <<o>> \in Seq(Tasks)
      /\ err \in [Tasks -> Results] /\ err' \in [Tasks -> Results]
  BY DEF Account, IInv, TypeOK
<1>2. err'[o] = r /\ r \in Results /\ \A x \in Queued : err'[x] = err[x]
  <2>1. \A x \in Queued : x # o /\ x \in Tasks
    BY DoneType DEF Queued, Shape, Elems
  <2>2. QED
    BY <1>1, <2>1
<1>3. Answers(<<o>>, err') = << <<o, r>> >>
  BY <1>2 DEF Answers
<1>4. Done' = Done \o << <<o, r>> >>
  BY <1>1, <1>2, <1>3, DoneConcat
<1> DEFINE x == <<o, r>>
           S == Tasks \X Results
<1>5. x \in S /\ Done \in Seq(S) /\ Done' = Done \o <<x>>
  BY <1>2, <1>4, DoneType
<1> HIDE DEF x, S
<1>6. Done' = Append(Done, x)
  BY <1>5
<1>7. QED
  BY <1>2, <1>6 DEF x

LEMMA PerformDone ==
  ASSUME IInv, IInv', NEW o \in Tasks, o \notin Elems(queue), NEW most, NEW d,
         Perform(o, most, d)
  PROVE  \/ /\ pending' = pending \ {o}
            /\ \E r \in Results : Done' = Append(Done, <<o, r>>)
         \/ /\ pending' = pending \union {o}
            /\ Done' = Done
<1>1. CASE \E r \in IoResults : Complete(o, r, d)
  BY <1>1, PostDone DEF Complete
<1>2. CASE WaitFails(o, d)
  BY <1>2, PostDone DEF WaitFails
<1>3. CASE \E p \in 1 .. most : Wait(o, p, d)
  <2>1. /\ queue' = queue \o <<>> /\ err' = [err EXCEPT ![o] = "ok"]
        /\ pending' = pending \union {o}
    BY <1>3 DEF Wait, Account
  <2>2. /\ queue' = queue /\ err \in [Tasks -> Results]
        /\ \A x \in Queued : x # o /\ x \in Tasks
    BY <2>1, DoneType DEF Queued, Shape, OpType, Elems
  <2>3. \A x \in Queued : err'[x] = err[x]
    BY <2>1, <2>2
  <2>4. QED
    BY <2>1, <2>2, <2>3, DoneSame
<1>4. QED
  BY <1>1, <1>2, <1>3 DEF Perform

LEMMA SameCardinality == ASSUME NEW S PROVE Async!Cardinality(S) = Cardinality(S)
BY DEF Async!Cardinality, Cardinality

LEMMA OrdersOfOne == ASSUME NEW o PROVE <<o>> \in Async!SetToSeqs({o})
<1>1. Async!Cardinality({o}) = 1
  BY SameCardinality, FS_Singleton
<1>2. <<o>> \in [1 .. 1 -> {o}]
  OBVIOUS
<1>3. QED
  BY <1>1, <1>2 DEF Async!SetToSeqs

LEMMA OrdersOfTwo ==
  ASSUME NEW o, NEW p, o # p
  PROVE  <<o, p>> \in Async!SetToSeqs({o, p})
<1>1. Async!Cardinality({o, p}) = 2
  <2>1. {o, p} = {o} \union {p} /\ p \notin {o}
    OBVIOUS
  <2>2. Cardinality({o, p}) = Cardinality({o}) + 1
    BY <2>1, FS_Singleton, FS_AddElement
  <2>3. QED
    BY <2>2, SameCardinality, FS_Singleton
<1>2. <<o, p>> \in [1 .. 2 -> {o, p}]
  OBVIOUS
<1>3. \A i, j \in 1 .. 2 : i # j => <<o, p>>[i] # <<o, p>>[j]
  OBVIOUS
<1>4. QED
  BY <1>1, <1>2, <1>3 DEF Async!SetToSeqs

LEMMA ConcatOne ==
  ASSUME NEW S, NEW s \in Seq(S), NEW y \in S
  PROVE  s \o <<y>> = Append(s, y)
OBVIOUS

LEMMA TwoInOrder ==
  ASSUME NEW S, NEW x \in S, NEW y \in S
  PROVE  <<x>> \o <<y>> = <<x, y>>
<1>1. <<x>> \in Seq(S)
  OBVIOUS
<1>2. <<x>> \o <<y>> = Append(<<x>>, y)
  BY <1>1, ConcatOne
<1> DEFINE w == Append(<<x>>, y)
<1>3. w \in Seq(S) /\ Len(w) = 2 /\ w[1] = x /\ w[2] = y
  BY <1>1
<1> HIDE DEF w
<1>4. w = <<x, y>>
  BY <1>3
<1>5. QED
  BY <1>2, <1>4 DEF w

LEMMA CancelDone ==
  ASSUME IInv, IInv', NEW s \in Sockets, Cancel(s)
  PROVE  [Async!Next]_(Async!vars)
<1> DEFINE R == <<s, "read">>
           W == <<s, "write">>
           G == {o \in pending : SocketOf(o) = s}
           c == CancelOrder(s)
<1>1. /\ queue' = queue \o c /\ running' = running
      /\ pending' = pending \ G
      /\ err' = [o \in Tasks |-> IF o \in G THEN "canceled" ELSE err[o]]
      /\ err' \in [Tasks -> Results] /\ err \in [Tasks -> Results] /\ pending \subseteq Tasks
      /\ pending \cap Elems(queue) = {}
  BY DoneType DEF Cancel, Account, IInv, TypeOK, Shape
<1>2. G = {R, W} \cap pending /\ R # W /\ c = Slot(R) \o Slot(W) /\ G \subseteq Tasks
  BY <1>1, PollAssumption DEF SocketOf, CancelOrder
<1>3. \A x \in Queued : x \in Tasks /\ x \notin G
  BY <1>1, DoneType DEF Queued, Shape, Elems
<1>4. \A x \in Queued : err'[x] = err[x]
  BY <1>1, <1>3
<1>5. \A x \in G : err'[x] = "canceled"
  BY <1>1
<1> HIDE DEF R, W, G, c
<1>6. ASSUME NEW order \in Seq(Tasks), order = c, order \in Async!SetToSeqs(G),
             \A i \in DOMAIN order : order[i] \in G
      PROVE  Async!Cancel
  <2>1. Done' = Done \o Answers(order, err')
    BY <1>1, <1>4, <1>6, DoneConcat
  <2>2. Answers(order, err') = [i \in DOMAIN order |-> <<order[i], "canceled">>]
    BY <1>5, <1>6 DEF Answers
  <2>3. G \in SUBSET pending
    BY <1>2
  <2>4. /\ pending' = pending \ G /\ running' = running
        /\ Done' = Done \o [i \in DOMAIN order |-> <<order[i], "canceled">>]
    BY <1>1, <2>1, <2>2
  <2>5. QED
    BY <1>6, <2>3, <2>4 DEF Async!Cancel, Done
<1>7. CASE R \in pending /\ W \in pending
  <2>1. c = <<R, W>> /\ G = {R, W}
    <3>1. Slot(R) = <<R>> /\ Slot(W) = <<W>>
      BY <1>7 DEF Slot
    <3>2. <<R>> \o <<W>> = <<R, W>>
      BY <1>7, TwoInOrder
    <3>3. G = {R, W}
      BY <1>2, <1>7
    <3>4. c = <<R>> \o <<W>>
      BY <1>2, <3>1
    <3>5. QED
      BY <3>2, <3>3, <3>4
  <2>2. <<R, W>> \in Async!SetToSeqs(G)
    BY <1>2, <2>1, OrdersOfTwo
  <2>3. <<R, W>> \in Seq(Tasks) /\ \A i \in DOMAIN <<R, W>> : <<R, W>>[i] \in G
    BY <1>2, <2>1
  <2>4. QED
    BY <1>6, <2>1, <2>2, <2>3 DEF Async!Next
<1>8. CASE R \in pending /\ W \notin pending
  <2>1. c = <<R>> /\ G = {R}
    BY <1>2, <1>8 DEF Slot
  <2>2. <<R>> \in Async!SetToSeqs(G)
    BY <2>1, OrdersOfOne
  <2>3. <<R>> \in Seq(Tasks) /\ \A i \in DOMAIN <<R>> : <<R>>[i] \in G
    BY <1>2, <2>1
  <2>4. QED
    BY <1>6, <2>1, <2>2, <2>3 DEF Async!Next
<1>9. CASE R \notin pending /\ W \in pending
  <2>1. c = <<W>> /\ G = {W}
    BY <1>2, <1>9 DEF Slot
  <2>2. <<W>> \in Async!SetToSeqs(G)
    BY <2>1, OrdersOfOne
  <2>3. <<W>> \in Seq(Tasks) /\ \A i \in DOMAIN <<W>> : <<W>>[i] \in G
    BY <1>2, <2>1
  <2>4. QED
    BY <1>6, <2>1, <2>2, <2>3 DEF Async!Next
<1>10. CASE R \notin pending /\ W \notin pending
  <2>1. c = <<>> /\ G = {}
    BY <1>2, <1>10 DEF Slot
  <2>2. queue' = queue /\ pending' = pending /\ running' = running
    BY <1>1, <2>1, DoneType DEF Shape
  <2>3. Done' = Done
    BY <1>4, <2>2, DoneSame
  <2>4. QED
    BY <2>2, <2>3 DEF Async!vars, Done
<1>11. QED
  BY <1>7, <1>8, <1>9, <1>10

LEMMA AsyncStep ==
  ASSUME AInv, IInv', [Next]_vars
  PROVE  [Async!Next]_(Async!vars)
<1>0. /\ IInv /\ IdleRuns /\ Shape /\ OpType
      /\ queue \in Seq(Tasks \union {ReactorTask}) /\ Unique(queue)
      /\ err \in [Tasks -> Results] /\ pending \subseteq Tasks
      /\ Async!Finished = Queued
  BY DoneType DEF AInv, Shape, OpType
<1>s. ASSUME UNCHANGED <<queue, err, pending, running>> PROVE UNCHANGED Async!vars
  BY <1>s DEF Async!vars
<1>1. CASE UNCHANGED vars
  BY <1>1, <1>s DEF vars, loopVars, pollVars
<1>2. CASE StartPoll \/ ScanStale \/ (\E o \in Tasks : ScanKeep(o))
           \/ (\E s \in Sockets : SetFd(s) \/ Close(s) \/ Tick(s))
  BY <1>2, <1>s DEF StartPoll, PollStart, pollVars, ScanStale, ScanKeep, Advance, SetFd, Close,
                    Tick, loopVars
<1>3. CASE Finalize
  <2>1. /\ phase = "pop" /\ queue # <<>> /\ queue' = Tail(queue) /\ Head(queue) # ReactorTask
        /\ running' = Head(queue) /\ UNCHANGED <<pending, err>>
    BY <1>3 DEF Finalize, PopTask, pollVars
  <2> DEFINE r == Others(queue)
  <2>2. /\ r # <<>> /\ Head(r) = Head(queue) /\ Others(queue') = Tail(r) /\ r \in Seq(Tasks)
        /\ running = ReactorTask
    BY <1>0, <2>1, OthersFirst, OthersType DEF IdleRuns
  <2> HIDE DEF r
  <2>3. /\ Answers(r, err) # <<>> /\ Head(Answers(r, err))[1] = Head(r)
        /\ Answers(Tail(r), err) = Tail(Answers(r, err))
    BY <1>0, <2>2, AnswersFirst
  <2>4. QED
    BY <2>1, <2>2, <2>3 DEF r, Async!Next, Async!Deliver
<1>4. CASE Return
  <2>1. /\ phase = "task" /\ queue' = queue /\ running' = ReactorTask /\ pending' = pending
        /\ err' = [err EXCEPT ![running] = IF running \in Queued THEN @ ELSE "ok"]
    BY <1>4 DEF Return, TaskReturn
  <2>2. running # ReactorTask
    BY <1>0, <2>1, LoopAssumption DEF IInv, RunningTask
  <2>3. \A x \in Queued : err'[x] = err[x]
    BY <1>0, <2>1 DEF Queued, Elems
  <2>4. Done' = Done
    BY <1>0, <2>1, <2>3, DoneSame
  <2>5. QED
    BY <2>1, <2>2, <2>4 DEF Async!Next, Async!Return, Done
<1>5. CASE RunReactor
  <2>1. /\ queue # <<>> /\ queue' = Tail(queue) /\ Head(queue) = ReactorTask
        /\ UNCHANGED <<running, pending, err>>
    BY <1>5 DEF RunReactor, PopReactor
  <2>2. Others(queue') = Others(queue)
    BY <1>0, <2>1, OthersFirst
  <2>3. QED
    BY <2>1, <2>2 DEF Async!vars
<1>6. CASE PollFails
  <2> DEFINE t == Tail(queue)
  <2>1. /\ queue # <<>> /\ queue' = Append(t, ReactorTask) /\ Head(queue) = ReactorTask
        /\ UNCHANGED <<running, pending, err>>
    BY <1>6 DEF PollFails, pollVars
  <2>2. /\ t \in Seq(Tasks \union {ReactorTask}) /\ Unique(t) /\ ReactorTask \notin Elems(t)
        /\ Others(queue) = t
    BY <1>0, <2>1, OthersFirst, TailUnique
  <2> HIDE DEF t
  <2>3. Others(queue') = Others(queue)
    BY <2>1, <2>2, OthersWithReactor
  <2>4. QED
    BY <2>1, <2>3 DEF Async!vars
<1>7. CASE ScanEnd
  <2>1. /\ queue' = Append(queue, ReactorTask) /\ phase = "reactor"
        /\ UNCHANGED <<running, pending, err>>
    BY <1>7 DEF ScanEnd, ReactorReturn
  <2>2. ReactorTask \notin Elems(queue)
    BY <1>0, <2>1 DEF IInv, OnePlace
  <2>3. Others(queue') = queue /\ Others(queue) = queue
    BY <1>0, <2>1, <2>2, OthersWithReactor DEF Others
  <2>4. QED
    BY <2>1, <2>3 DEF Async!vars
<1>8. CASE \E s \in Sockets : Cancel(s)
  BY <1>0, <1>8, CancelDone
<1>9. ASSUME NEW o \in Tasks, Submit(o) PROVE Async!Next
  <2>1. /\ o \notin pending /\ o \notin Elems(queue) /\ o \notin Queued
        /\ Perform(o, MaxParts, 0) /\ running' = running
    BY <1>9, LoopAssumption DEF Submit, InFlight, Queued
  <2>2. \/ pending' = pending /\ \E r \in Results : Done' = Append(Done, <<o, r>>)
        \/ pending' = pending \union {o} /\ Done' = Done
    BY <1>0, <2>1, PerformDone
  <2>3. Async!Start(o)
    BY <1>0, <2>1, <2>2 DEF Async!Start, Done
  <2>4. QED
    BY <2>3 DEF Async!Next
<1>10. ASSUME NEW o \in Tasks, ScanReady(o) PROVE Async!Next \/ UNCHANGED Async!vars
  <2> DEFINE most == IF Spurious THEN left[o] ELSE left[o] - 1
  <2>1. o \in pending /\ Perform(o, most, 0 - 1) /\ running' = running
    BY <1>10 DEF ScanReady, Woken, Advance
  <2> HIDE DEF most
  <2>2. o \notin Elems(queue)
    BY <1>0, <2>1 DEF Shape
  <2>3. \/ pending' = pending \ {o} /\ \E r \in Results : Done' = Append(Done, <<o, r>>)
        \/ pending' = pending /\ Done' = Done
    BY <1>0, <2>1, <2>2, PerformDone
  <2>4. CASE pending' = pending \ {o} /\ \E r \in Results : Done' = Append(Done, <<o, r>>)
    BY <2>1, <2>4 DEF Async!Complete, Async!Next, Done
  <2>5. CASE pending' = pending /\ Done' = Done
    BY <2>1, <2>5 DEF Async!vars, Done
  <2>6. QED
    BY <2>3, <2>4, <2>5
<1>11. ASSUME NEW o \in Tasks, ScanAbort(o) \/ ScanTimeout(o) PROVE Async!Next
  <2>1. PICK r : Complete(o, r, 0 - 1)
    BY <1>11 DEF ScanAbort, ScanTimeout
  <2>2. o \in pending /\ running' = running
    BY <1>11 DEF ScanAbort, ScanTimeout, Woken, Advance
  <2>3. o \notin Elems(queue)
    BY <1>0, <2>2 DEF Shape
  <2>4. /\ r \in Results /\ Done' = Append(Done, <<o, r>>) /\ pending' = pending \ {o}
    BY <1>0, <2>1, <2>3, PostDone DEF Complete
  <2>5. QED
    BY <2>2, <2>4 DEF Async!Complete, Async!Next, Done
<1>12. QED
  BY <1>1, <1>2, <1>3, <1>4, <1>5, <1>6, <1>7, <1>8, <1>9, <1>10, <1>11
     DEF Next, Loop, Scan, Client

(* The loop with its reactor keeps what ThAsync promises, whatever the     *)
(* sockets, descriptors and events: every operation is started when it is  *)
(* not outstanding, completed once and its callback run once, with the     *)
(* result it completed with, in the order of completion, one at a time and *)
(* never inside the call that started it.  (The fairness half of AsyncSpec *)
(* is left to TLC.)                                                        *)
THEOREM ImplementsAsync == Spec => Async!Init /\ [][Async!Next]_(Async!vars)
<1>1. Init => Async!Init
  <2> SUFFICES ASSUME Init PROVE Async!Init
    OBVIOUS
  <2>1. queue = <<ReactorTask>> /\ pending = {} /\ running = ReactorTask
    BY DEF Init, LoopInit
  <2>2. queue = Append(<<>>, ReactorTask) /\ <<>> \in Seq(Tasks \union {ReactorTask})
        /\ Unique(<<>>) /\ ReactorTask \notin Elems(<<>>)
    BY <2>1 DEF Unique, Elems
  <2>3. Others(queue) = <<>>
    BY <2>2, OthersWithReactor
  <2>4. Answers(<<>>, err) = <<>>
    BY DEF Answers
  <2>5. QED
    BY <2>1, <2>3, <2>4 DEF Async!Init
<1>2. AInv /\ IInv' /\ [Next]_vars => [Async!Next]_(Async!vars)
  BY AsyncStep
<1>3. QED
  BY <1>1, <1>2, Inductive, AsyncInductive, PTL DEF Spec
=============================================================================
