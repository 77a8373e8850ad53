--------------------------- MODULE ThListenerProofs ---------------------------
(***************************************************************************)
(* For every set of connections, every limit and whether the allocator     *)
(* fails or not: the invariants of ThListener, and that what the listener  *)
(* does to a connection is what ThSession allows.                          *)
(***************************************************************************)
EXTENDS ThListener, FiniteSetTheorems, SequenceTheorems, TLAPS

ConnStates == [Conns -> [stage : Stages, last : BOOLEAN]]

(* Of connections k: those HTTP works on, those of them that are served,   *)
(* and the one that is ready for a client.                                 *)
Busy(k) == {c \in Conns : k[c].stage \in {"reading", "writing"}}
Served(k) == {c \in Conns : ~k[c].last /\ k[c].stage \in {"reading", "writing"}}
Ready(k) == {c \in Conns : k[c].stage = "unborn"}

(* What `last' is where ThSession does not leave it open; and no           *)
(* connection is handed over here.                                         *)
LastFits(k) ==
  \A c \in Conns :
    /\ k[c].stage # "upgraded"
    /\ k[c].stage \in {"unborn", "reading"} => ~k[c].last
    /\ k[c].stage = "ended" => k[c].last

(* The operations of the callbacks in q, and that none is there twice.     *)
OpsOf(q) == {q[i][1] : i \in 1 .. Len(q)}
Distinct(q) == \A i, j \in 1 .. Len(q) : q[i][1] = q[j][1] => i = j

(* TypeOK, but for the number of callbacks that are due.                   *)
Typed ==
  /\ phase \in {"serving", "stopping", "destroyed"}
  /\ running \in BOOLEAN /\ waiting \in BOOLEAN
  /\ conn \in ConnStates
  /\ flying \subseteq Ops
  /\ completed \in Seq(Ops \X Results)
  /\ starved \in BOOLEAN /\ crashed \in BOOLEAN

(* A connection that HTTP works on has its one operation under way or due, *)
(* and no other connection has any.                                        *)
OneOperation ==
  /\ Distinct(completed)
  /\ OpsOf(completed) \intersect flying = {}
  /\ (flying \union OpsOf(completed)) \intersect Conns = Busy(conn)

(* The accept and the connection that is ready for it.                     *)
AcceptConn ==
  IF "accept" \in flying \union OpsOf(completed)
  THEN \E c \in Conns : Ready(conn) = {c}
  ELSE Ready(conn) = {} /\ (running => starved)

PhaseFits ==
  /\ running <=> phase = "serving"
  /\ phase = "destroyed" => flying = {} /\ completed = <<>>

IInv ==
  /\ Typed /\ LastFits(conn) /\ OneOperation /\ AcceptConn /\ PhaseFits
  /\ Cardinality(Served(conn)) <= MaxConnections

-----------------------------------------------------------------------------
(* The callbacks that are due.                                             *)

LEMMA OpsFinite == IsFiniteSet(Ops) /\ IsFiniteSet(Conns)
BY ListenerAssumption, FS_AddElement DEF Ops

LEMMA DueOps ==
  ASSUME completed \in Seq(Ops \X Results)
  PROVE  Due = OpsOf(completed)
<1>1. DOMAIN completed = 1 .. Len(completed)
  OBVIOUS
<1>2. ToSet(completed) = {completed[i] : i \in 1 .. Len(completed)}
  BY <1>1 DEF ToSet
<1>3. QED
  BY <1>2 DEF Due, OpsOf

LEMMA DistinctCount ==
  ASSUME NEW q \in Seq(Ops \X Results), Distinct(q)
  PROVE  Cardinality(OpsOf(q)) = Len(q)
<1> DEFINE f == [i \in 1 .. Len(q) |-> q[i][1]]
<1>1. Len(q) \in Nat /\ DOMAIN q = 1 .. Len(q)
  OBVIOUS
<1>2. OpsOf(q) = {q[i][1] : i \in 1 .. Len(q)}
  BY <1>1 DEF OpsOf
<1>3. f \in Surjection(1 .. Len(q), OpsOf(q))
  BY <1>2 DEF Surjection
<1>4. f \in Injection(1 .. Len(q), OpsOf(q))
  BY <1>2 DEF Injection, IsInjective, Distinct
<1>5. IsFiniteSet(1 .. Len(q)) /\ Cardinality(1 .. Len(q)) = Len(q)
  BY <1>1, FS_Interval
<1>6. QED
  BY <1>3, <1>4, <1>5, FS_Surjection

LEMMA FirstDue ==
  ASSUME NEW q \in Seq(Ops \X Results), q # <<>>, Distinct(q)
  PROVE  /\ Tail(q) \in Seq(Ops \X Results)
         /\ Distinct(Tail(q))
         /\ OpsOf(Tail(q)) = OpsOf(q) \ {Head(q)[1]}
         /\ Head(q)[1] \in OpsOf(q)
<1> DEFINE r == Tail(q)
<1>1. /\ Len(q) \in Nat \ {0} /\ Len(r) = Len(q) - 1
      /\ r \in Seq(Ops \X Results)
      /\ DOMAIN q = 1 .. Len(q) /\ DOMAIN r = 1 .. Len(q) - 1
      /\ Head(q) = q[1]
      /\ \A i \in 1 .. Len(q) - 1 : r[i] = q[i + 1]
  OBVIOUS
<1> HIDE DEF r
<1>2. Distinct(r)
  BY <1>1 DEF Distinct
<1>3. /\ OpsOf(q) = {q[i][1] : i \in 1 .. Len(q)}
      /\ OpsOf(r) = {q[i + 1][1] : i \in 1 .. Len(q) - 1}
  <2>1. OpsOf(q) = {q[i][1] : i \in 1 .. Len(q)}
    BY DEF OpsOf
  <2>2. OpsOf(r) = {r[i][1] : i \in 1 .. Len(q) - 1}
    BY <1>1 DEF OpsOf
  <2>3. \A i \in 1 .. Len(q) - 1 : r[i][1] = q[i + 1][1]
    BY <1>1
  <2>4. {r[i][1] : i \in 1 .. Len(q) - 1} = {q[i + 1][1] : i \in 1 .. Len(q) - 1}
    BY <2>3
  <2>5. QED
    BY <2>1, <2>2, <2>4
<1>4. ASSUME NEW o \in OpsOf(q), o # q[1][1] PROVE o \in OpsOf(r)
  <2>1. PICK i \in 1 .. Len(q) : o = q[i][1]
    BY <1>3
  <2>2. i - 1 \in 1 .. Len(q) - 1 /\ q[(i - 1) + 1][1] = o
    BY <1>1, <1>4, <2>1
  <2>3. QED
    BY <1>3, <2>2
<1>5. ASSUME NEW o \in OpsOf(r) PROVE o \in OpsOf(q) /\ o # q[1][1]
  BY <1>1, <1>3 DEF Distinct
<1>6. Head(q)[1] \in OpsOf(q)
  BY <1>1, <1>3
<1>7. QED
  BY <1>1, <1>2, <1>4, <1>5, <1>6 DEF r

LEMMA OneMoreDue ==
  ASSUME NEW q \in Seq(Ops \X Results), Distinct(q),
         NEW o \in Ops, o \notin OpsOf(q), NEW r \in Results
  PROVE  /\ Append(q, <<o, r>>) \in Seq(Ops \X Results)
         /\ Distinct(Append(q, <<o, r>>))
         /\ OpsOf(Append(q, <<o, r>>)) = OpsOf(q) \union {o}
<1> DEFINE e == <<o, r>>
           s == Append(q, e)
<1>1. e \in Ops \X Results /\ e[1] = o
  OBVIOUS
<1> HIDE DEF e
<1>2. /\ Len(q) \in Nat /\ Len(s) = Len(q) + 1
      /\ s \in Seq(Ops \X Results)
      /\ DOMAIN q = 1 .. Len(q) /\ DOMAIN s = 1 .. Len(q) + 1
      /\ s[Len(q) + 1] = e
      /\ \A i \in 1 .. Len(q) : s[i] = q[i]
  BY <1>1
<1> HIDE DEF s
<1>3. OpsOf(q) = {q[i][1] : i \in 1 .. Len(q)} /\ OpsOf(s) = {s[i][1] : i \in 1 .. Len(s)}
  BY DEF OpsOf
<1>4. OpsOf(s) = OpsOf(q) \union {o}
  <2>1. \A i \in 1 .. Len(s) : i = Len(q) + 1 \/ i \in 1 .. Len(q)
    BY <1>2
  <2>2. ASSUME NEW x \in OpsOf(s) PROVE x \in OpsOf(q) \union {o}
    BY <1>1, <1>2, <1>3, <2>1
  <2>3. ASSUME NEW x \in OpsOf(q) PROVE x \in OpsOf(s)
    BY <1>2, <1>3
  <2>4. o \in OpsOf(s)
    BY <1>1, <1>2, <1>3
  <2>5. QED
    BY <2>2, <2>3, <2>4
<1>5. Distinct(s)
  BY <1>1, <1>2, <1>3 DEF Distinct
<1>6. QED
  BY <1>2, <1>4, <1>5 DEF s, e

(* All that is under way is cancelled: due, in any order.                  *)
LEMMA AllCanceled ==
  ASSUME NEW q \in Seq(Ops \X Results), Distinct(q),
         NEW F, F \subseteq Ops, F \intersect OpsOf(q) = {},
         NEW order \in SetToSeqs(F)
  PROVE  /\ q \o CanceledIn(order) \in Seq(Ops \X Results)
         /\ Distinct(q \o CanceledIn(order))
         /\ OpsOf(q \o CanceledIn(order)) = OpsOf(q) \union F
<1> DEFINE n == Cardinality(F)
           t == CanceledIn(order)
           s == q \o t
<1>1. IsFiniteSet(F) /\ n \in Nat
  BY OpsFinite, FS_Subset, FS_CardinalityType
<1>2. order \in [1 .. n -> F] /\ \A i, j \in 1 .. n : i # j => order[i] # order[j]
  BY DEF SetToSeqs
<1>3. order \in Surjection(1 .. n, F)
  <2>1. order \in Injection(1 .. n, F)
    BY <1>2 DEF Injection, IsInjective
  <2>2. Cardinality(1 .. n) = n
    BY <1>1, FS_Interval
  <2>3. QED
    BY <1>1, <2>1, <2>2, FS_Injection
<1>4. \A o \in F : \E i \in 1 .. n : order[i] = o
  BY <1>3 DEF Surjection
<1> HIDE DEF n
<1>5. t = [i \in 1 .. n |-> <<order[i], "canceled">>]
  BY <1>2 DEF CanceledIn
<1>6. t \in Seq(Ops \X Results) /\ Len(t) = n
  <2>1. t \in [1 .. n -> Ops \X Results]
    BY <1>2, <1>5 DEF Results
  <2>2. QED
    BY <1>1, <2>1
<1>7. \A i \in 1 .. n : t[i][1] = order[i]
  BY <1>5
<1> HIDE DEF t
<1>8. /\ s \in Seq(Ops \X Results)
      /\ Len(s) = Len(q) + n
      /\ \A i \in 1 .. Len(q) + n : s[i] = IF i <= Len(q) THEN q[i] ELSE t[i - Len(q)]
  BY <1>6, ConcatProperties
<1>9. Len(q) \in Nat /\ DOMAIN q = 1 .. Len(q) /\ DOMAIN s = 1 .. Len(s)
  BY <1>8
<1> HIDE DEF s
<1>10. OpsOf(q) = {q[i][1] : i \in 1 .. Len(q)} /\ OpsOf(s) = {s[i][1] : i \in 1 .. Len(s)}
  BY <1>9 DEF OpsOf
<1>11. \A i \in 1 .. Len(s) :
         \/ i \in 1 .. Len(q) /\ s[i][1] = q[i][1] /\ s[i][1] \in OpsOf(q)
         \/ i - Len(q) \in 1 .. n /\ s[i][1] = order[i - Len(q)] /\ s[i][1] \in F
  BY <1>1, <1>2, <1>7, <1>8, <1>9, <1>10
<1>12. Distinct(s)
  <2> SUFFICES ASSUME NEW i \in 1 .. Len(s), NEW j \in 1 .. Len(s), s[i][1] = s[j][1]
               PROVE  i = j
    BY DEF Distinct
  <2>1. CASE i \in 1 .. Len(q) /\ j \in 1 .. Len(q)
    BY <1>1, <1>8, <1>9, <2>1 DEF Distinct
  <2>2. CASE i - Len(q) \in 1 .. n /\ j - Len(q) \in 1 .. n
    <3>1. order[i - Len(q)] = order[j - Len(q)]
      BY <1>1, <1>9, <1>11, <2>2
    <3>2. i - Len(q) = j - Len(q)
      BY <1>2, <2>2, <3>1
    <3>3. QED
      BY <1>1, <1>8, <1>9, <3>2
  <2>3. QED
    BY <1>11, <2>1, <2>2
<1>13. OpsOf(s) \subseteq OpsOf(q) \union F
  BY <1>10, <1>11
<1>14. ASSUME NEW o \in OpsOf(q) PROVE o \in OpsOf(s)
  <2>1. PICK i \in 1 .. Len(q) : o = q[i][1]
    BY <1>10
  <2>2. i \in 1 .. Len(s) /\ s[i] = q[i]
    BY <1>1, <1>8, <1>9
  <2>3. QED
    BY <1>10, <2>1, <2>2
<1>15. ASSUME NEW o \in F PROVE o \in OpsOf(s)
  <2>1. PICK i \in 1 .. n : order[i] = o
    BY <1>4
  <2>2. /\ i + Len(q) \in 1 .. Len(s) /\ ~(i + Len(q) <= Len(q))
        /\ (i + Len(q)) - Len(q) = i
    BY <1>1, <1>8, <1>9
  <2>3. s[i + Len(q)] = t[i]
    BY <1>8, <2>2
  <2>4. QED
      BY <1>7, <1>10, <2>1, <2>2, <2>3
<1>16. QED
  BY <1>8, <1>12, <1>13, <1>14, <1>15 DEF s, t

-----------------------------------------------------------------------------
(* What the rest of th_listener_accept_complete does to connections k and  *)
(* operations ops, when neither has anything of the accept left.           *)
LEMMA OnwardsStep ==
  ASSUME Typed, NEW k \in ConnStates, LastFits(k), Ready(k) = {},
         NEW ops, ops \subseteq Ops, "accept" \notin ops, Onwards(k, ops)
  PROVE  /\ conn' \in ConnStates /\ flying' \subseteq Ops
         /\ waiting' \in BOOLEAN /\ starved' \in BOOLEAN /\ crashed' \in BOOLEAN
         /\ LastFits(conn')
         /\ Busy(conn') = Busy(k) /\ Served(conn') = Served(k)
         /\ flying' \in {ops, ops \union {"accept"}}
         /\ IF "accept" \in flying'
            THEN \E c \in Conns : Ready(conn') = {c}
            ELSE Ready(conn') = {} /\ (running => starved')
         /\ \A c \in Conns :
              \/ conn'[c] = k[c]
              \/ k[c].stage = "ended" /\ conn'[c] = At("unborn", FALSE)
<1>1. CASE /\ conn' = k /\ flying' = ops
           /\ waiting' \in BOOLEAN /\ crashed' \in BOOLEAN /\ starved' \in BOOLEAN
           /\ running => starved'
  <2>1. LastFits(conn') /\ Busy(conn') = Busy(k) /\ Served(conn') = Served(k) /\ Ready(conn') = {}
    BY <1>1
  <2>2. "accept" \notin flying'
    BY <1>1
  <2>3. QED
    BY <1>1, <2>1, <2>2
<1>2. CASE \E c \in Conns :
             /\ k[c].stage = "ended"
             /\ conn' = [k EXCEPT ![c] = At("unborn", FALSE)]
             /\ flying' = ops \union {"accept"}
             /\ UNCHANGED <<waiting, starved, crashed>>
  <2>1. PICK c \in Conns :
             /\ k[c].stage = "ended"
             /\ conn' = [k EXCEPT ![c] = At("unborn", FALSE)]
             /\ flying' = ops \union {"accept"}
             /\ UNCHANGED <<waiting, starved, crashed>>
    BY <1>2
  <2>2. /\ conn'[c] = At("unborn", FALSE)
        /\ \A d \in Conns : d # c => conn'[d] = k[d]
    BY <2>1 DEF ConnStates
  <2>3. /\ At("unborn", FALSE) \in [stage : Stages, last : BOOLEAN]
        /\ At("unborn", FALSE).stage = "unborn" /\ At("unborn", FALSE).last = FALSE
    BY DEF At, Stages
  <2>4. conn' \in ConnStates
    BY <2>1, <2>3 DEF ConnStates
  <2>5. LastFits(conn')
    BY <2>2, <2>3 DEF LastFits
  <2>6. Busy(conn') = Busy(k) /\ Served(conn') = Served(k)
    BY <2>1, <2>2, <2>3 DEF Busy, Served
  <2>7. Ready(conn') = {c}
    BY <2>2, <2>3 DEF Ready
  <2>8. QED
    BY <2>1, <2>2, <2>4, <2>5, <2>6, <2>7 DEF Typed, Ops
<1>3. CASE running
  <2>1. AsyncAccept(k, ops)
    BY <1>3 DEF Onwards
  <2>2. QED
    BY <1>1, <1>2, <2>1 DEF AsyncAccept, Typed
<1>4. CASE ~running
  <2>1. conn' = k /\ flying' = ops /\ UNCHANGED <<waiting, starved, crashed>>
    BY <1>4 DEF Onwards
  <2>2. QED
    BY <1>1, <1>4, <2>1 DEF Typed
<1>5. QED
  BY <1>3, <1>4

(* The callback of operation o runs: o is not due any more.                *)
LEMMA CallbackStep ==
  ASSUME IInv, NEW o, NEW r, Callback(o, r)
  PROVE  /\ completed' \in Seq(Ops \X Results)
         /\ Distinct(completed')
         /\ OpsOf(completed') = OpsOf(completed) \ {o}
         /\ o \in OpsOf(completed) /\ o \notin flying
         /\ phase' = phase /\ running' = running /\ phase # "destroyed"
<1>1. completed \in Seq(Ops \X Results) /\ Distinct(completed) /\ completed # <<>>
  BY DEF IInv, Typed, OneOperation, Callback
<1>2. Head(completed)[1] = o /\ completed' = Tail(completed)
  BY DEF Callback
<1>3. /\ completed' \in Seq(Ops \X Results)
      /\ Distinct(completed')
      /\ OpsOf(completed') = OpsOf(completed) \ {o}
      /\ o \in OpsOf(completed)
  BY <1>1, <1>2, FirstDue
<1>4. QED
  BY <1>1, <1>3 DEF IInv, OneOperation, PhaseFits, Callback

(* The accept is over and its connection c is not ready any more: it ended,*)
(* or HTTP works on it.                                                    *)
LEMMA AcceptStep ==
  ASSUME IInv, NEW r, Callback("accept", r), NEW c \in Conns, Ready(conn) = {c},
         NEW k \in ConnStates, \A d \in Conns \ {c} : k[d] = conn[d],
         k[c].stage \in {"reading", "writing", "ended"}, LastFits(k),
         Cardinality(Served(k)) <= MaxConnections,
         NEW ops, ops = flying \union (IF k[c].stage = "ended" THEN {} ELSE {c}),
         Onwards(k, ops)
  PROVE  IInv'
<1>1. /\ completed' \in Seq(Ops \X Results)
      /\ Distinct(completed')
      /\ OpsOf(completed') = OpsOf(completed) \ {"accept"}
      /\ "accept" \in OpsOf(completed) /\ "accept" \notin flying
      /\ phase' = phase /\ running' = running /\ phase # "destroyed"
  BY CallbackStep
<1>2. Ready(k) = {}
  BY DEF Ready
<1>3. "accept" \notin Conns
  BY ListenerAssumption
<1>4. ops \subseteq Ops /\ "accept" \notin ops
  BY <1>1, <1>3 DEF IInv, Typed, Ops
<1>5. Typed
  BY DEF IInv
<1>6. /\ conn' \in ConnStates /\ flying' \subseteq Ops
      /\ waiting' \in BOOLEAN /\ starved' \in BOOLEAN /\ crashed' \in BOOLEAN
      /\ LastFits(conn')
      /\ Busy(conn') = Busy(k) /\ Served(conn') = Served(k)
      /\ flying' \in {ops, ops \union {"accept"}}
      /\ IF "accept" \in flying'
         THEN \E d \in Conns : Ready(conn') = {d}
         ELSE Ready(conn') = {} /\ (running => starved')
  BY <1>2, <1>4, <1>5, OnwardsStep
<1>7. c \notin Busy(conn)
  BY DEF Busy, Ready
<1>8. Busy(k) = Busy(conn) \union (IF k[c].stage = "ended" THEN {} ELSE {c})
  BY <1>7 DEF Busy
<1>9. Typed'
  BY <1>1, <1>5, <1>6 DEF Typed
<1>10. OneOperation'
  <2>1. /\ OpsOf(completed) \intersect flying = {}
        /\ (flying \union OpsOf(completed)) \intersect Conns = Busy(conn)
    BY DEF IInv, OneOperation
  <2>2. OpsOf(completed') \intersect flying' = {}
    BY <1>1, <1>6, <1>7, <2>1
  <2>3. (flying' \union OpsOf(completed')) \intersect Conns = Busy(conn')
    BY <1>1, <1>3, <1>6, <1>8, <2>1
  <2>4. QED
    BY <1>1, <2>2, <2>3 DEF OneOperation
<1>11. AcceptConn'
  BY <1>1, <1>6 DEF AcceptConn
<1>12. PhaseFits'
  BY <1>1 DEF IInv, PhaseFits
<1>13. QED
  BY <1>6, <1>9, <1>10, <1>11, <1>12 DEF IInv

-----------------------------------------------------------------------------
(* One step per action.                                                    *)

LEMMA InitStep == ASSUME Init PROVE IInv
<1>1. PICK c \in Conns :
        conn = [d \in Conns |-> IF d = c THEN At("unborn", FALSE) ELSE At("ended", TRUE)]
  BY DEF Init
<1>2. /\ conn[c].stage = "unborn" /\ ~conn[c].last
      /\ \A d \in Conns : d # c => conn[d].stage = "ended" /\ conn[d].last
  BY <1>1 DEF At
<1>3. conn \in ConnStates
  BY <1>1 DEF At, ConnStates, Stages
<1>4. completed = <<>> /\ OpsOf(completed) = {} /\ flying = {"accept"}
  BY DEF Init, OpsOf
<1>5. Served(conn) = {} /\ Busy(conn) = {} /\ Ready(conn) = {c}
  BY <1>2 DEF Served, Busy, Ready
<1>6. Typed
  <2>1. completed \in Seq(Ops \X Results)
    BY <1>4, EmptySeq
  <2>2. phase = "serving" /\ running = TRUE /\ waiting = FALSE /\ starved = FALSE /\ crashed = FALSE
    BY DEF Init
  <2>3. QED
    BY <1>3, <1>4, <2>1, <2>2 DEF Typed, Ops
<1>7. LastFits(conn)
  BY <1>2 DEF LastFits
<1>8. OneOperation
  BY <1>4, <1>5, ListenerAssumption DEF OneOperation, Distinct
<1>9. AcceptConn
  BY <1>4, <1>5 DEF AcceptConn
<1>10. PhaseFits
  BY DEF Init, PhaseFits
<1>11. Cardinality(Served(conn)) <= MaxConnections
  BY <1>5, FS_EmptySet, ListenerAssumption
<1>12. QED
  BY <1>6, <1>7, <1>8, <1>9, <1>10, <1>11 DEF IInv

LEMMA WorldStep == ASSUME IInv, NEW o \in Ops, NEW r \in Results, World(o, r) PROVE IInv'
<1>1. o \in flying /\ flying' = flying \ {o} /\ completed' = Append(completed, <<o, r>>)
  BY DEF World
<1>2. o \notin OpsOf(completed)
  BY <1>1 DEF IInv, OneOperation
<1>3. /\ completed' \in Seq(Ops \X Results)
      /\ Distinct(completed')
      /\ OpsOf(completed') = OpsOf(completed) \union {o}
  BY <1>1, <1>2, OneMoreDue DEF IInv, Typed, OneOperation
<1>4. UNCHANGED <<phase, running, waiting, conn, starved, crashed>>
  BY DEF World
<1>5. Typed'
  BY <1>1, <1>3, <1>4 DEF IInv, Typed
<1>6. /\ OpsOf(completed') \intersect flying' = {}
      /\ flying' \union OpsOf(completed') = flying \union OpsOf(completed)
  BY <1>1, <1>3 DEF IInv, OneOperation
<1>7. OneOperation'
  BY <1>3, <1>4, <1>6 DEF IInv, OneOperation
<1>8. AcceptConn'
  BY <1>4, <1>6 DEF IInv, AcceptConn
<1>9. PhaseFits'
  BY <1>1, <1>4 DEF IInv, PhaseFits
<1>10. QED
  BY <1>4, <1>5, <1>7, <1>8, <1>9 DEF IInv

LEMMA StopStep == ASSUME IInv, Stop PROVE IInv'
<1>1. PICK order \in SetToSeqs(flying) : completed' = completed \o CanceledIn(order)
  BY DEF Stop
<1>2. /\ phase' = "stopping" /\ running' = FALSE /\ flying' = {}
      /\ UNCHANGED <<waiting, conn, starved, crashed>>
  BY DEF Stop
<1>3. /\ completed' \in Seq(Ops \X Results)
      /\ Distinct(completed')
      /\ OpsOf(completed') = OpsOf(completed) \union flying
  BY <1>1, AllCanceled DEF IInv, Typed, OneOperation
<1>4. Typed'
  BY <1>2, <1>3 DEF IInv, Typed
<1>5. OneOperation'
  BY <1>2, <1>3 DEF IInv, OneOperation
<1>6. AcceptConn'
  BY <1>2, <1>3 DEF IInv, AcceptConn
<1>7. PhaseFits'
  BY <1>2 DEF PhaseFits
<1>8. QED
  BY <1>2, <1>4, <1>5, <1>6, <1>7 DEF IInv

LEMMA DeinitStep == ASSUME IInv, Deinit PROVE IInv'
<1>1. /\ phase' = "destroyed" /\ flying = {} /\ completed = <<>> /\ phase = "stopping"
      /\ UNCHANGED <<running, waiting, conn, flying, completed, starved, crashed>>
  BY DEF Deinit
<1>2. Typed' /\ PhaseFits'
  BY <1>1 DEF IInv, Typed, PhaseFits
<1>3. OneOperation' /\ AcceptConn'
  BY <1>1 DEF IInv, OneOperation, AcceptConn
<1>4. QED
  BY <1>1, <1>2, <1>3 DEF IInv

(* An accept that is due has its connection.                               *)
LEMMA AcceptingOne ==
  ASSUME IInv, NEW r, Callback("accept", r), NEW c \in Accepting
  PROVE  /\ Ready(conn) = {c} /\ c \in Conns
         /\ conn[c].stage = "unborn" /\ c \notin flying
<1>1. "accept" \in OpsOf(completed)
  BY CallbackStep
<1>2. c \in Ready(conn) /\ c \in Conns /\ conn[c].stage = "unborn"
  BY DEF Accepting, Ready
<1>3. Ready(conn) = {c}
  BY <1>1, <1>2 DEF IInv, AcceptConn
<1>4. c \notin Busy(conn)
  BY <1>2 DEF Busy
<1>5. QED
  BY <1>2, <1>3, <1>4 DEF IInv, OneOperation

LEMMA AcceptFailedStep ==
  ASSUME IInv, NEW r, AcceptFailed(r) PROVE IInv'
<1>1. PICK c \in Accepting : Onwards([conn EXCEPT ![c] = At("ended", TRUE)], flying)
  BY DEF AcceptFailed
<1>2. Callback("accept", r)
  BY DEF AcceptFailed
<1>3. /\ Ready(conn) = {c} /\ c \in Conns
      /\ conn[c].stage = "unborn" /\ c \notin flying
  BY <1>2, AcceptingOne
<1> DEFINE k == [conn EXCEPT ![c] = At("ended", TRUE)]
<1>4. /\ k \in ConnStates
      /\ k[c].stage = "ended" /\ k[c].last
      /\ \A d \in Conns \ {c} : k[d] = conn[d]
  BY <1>3 DEF IInv, Typed, ConnStates, At, Stages
<1>5. Onwards(k, flying)
  BY <1>1
<1> HIDE DEF k
<1>6. LastFits(k) /\ Served(k) = Served(conn)
  BY <1>3, <1>4 DEF IInv, LastFits, Served
<1>7. flying = flying \union (IF k[c].stage = "ended" THEN {} ELSE {c})
  BY <1>4
<1>8. QED
  BY <1>2, <1>3, <1>4, <1>5, <1>6, <1>7, AcceptStep DEF IInv

LEMMA AcceptedStep == ASSUME IInv, Accepted PROVE IInv'
<1>1. Callback("accept", "ok")
  BY DEF Accepted
<1>2. PICK c \in Accepting :
        \/ /\ Cardinality(Tracked) > MaxConnections
           /\ Onwards([conn EXCEPT ![c] = At("writing", TRUE)], flying \union {c})
        \/ /\ Cardinality(Tracked) <= MaxConnections
           /\ Onwards([conn EXCEPT ![c] = At("reading", FALSE)], flying \union {c})
        \/ /\ AllocFails
           /\ Onwards([conn EXCEPT ![c] = At("ended", TRUE)], flying)
  BY DEF Accepted
<1>3. /\ Ready(conn) = {c} /\ c \in Conns
      /\ conn[c].stage = "unborn" /\ c \notin flying
  BY <1>1, AcceptingOne
<1>4. conn \in ConnStates /\ LastFits(conn) /\ Cardinality(Served(conn)) <= MaxConnections
  BY DEF IInv, Typed
<1>5. CASE Onwards([conn EXCEPT ![c] = At("writing", TRUE)], flying \union {c})
  <2> DEFINE k == [conn EXCEPT ![c] = At("writing", TRUE)]
  <2>1. /\ k \in ConnStates
        /\ k[c].stage = "writing" /\ k[c].last
        /\ \A d \in Conns \ {c} : k[d] = conn[d]
    BY <1>3, <1>4 DEF ConnStates, At, Stages
  <2>2. Onwards(k, flying \union {c})
    BY <1>5
  <2> HIDE DEF k
  <2>3. LastFits(k) /\ Served(k) = Served(conn)
    BY <1>3, <1>4, <2>1 DEF LastFits, Served
  <2>4. flying \union {c} = flying \union (IF k[c].stage = "ended" THEN {} ELSE {c})
    BY <2>1
  <2>5. QED
    BY <1>1, <1>3, <1>4, <2>1, <2>2, <2>3, <2>4, AcceptStep
<1>6. CASE /\ Cardinality(Tracked) <= MaxConnections
           /\ Onwards([conn EXCEPT ![c] = At("reading", FALSE)], flying \union {c})
  <2> DEFINE k == [conn EXCEPT ![c] = At("reading", FALSE)]
  <2>1. /\ k \in ConnStates
        /\ k[c].stage = "reading" /\ ~k[c].last
        /\ \A d \in Conns \ {c} : k[d] = conn[d]
    BY <1>3, <1>4 DEF ConnStates, At, Stages
  <2>2. Onwards(k, flying \union {c})
    BY <1>6
  <2> HIDE DEF k
  <2>3. LastFits(k)
    BY <1>3, <1>4, <2>1 DEF LastFits
  <2>4. Served(k) \subseteq Tracked
    BY <1>3, <2>1 DEF Served, Tracked
  <2>5. Cardinality(Served(k)) <= MaxConnections
    <3>1. IsFiniteSet(Tracked) /\ IsFiniteSet(Served(k))
      BY OpsFinite, FS_Subset DEF Tracked, Served
    <3>2. /\ Cardinality(Tracked) \in Nat /\ Cardinality(Served(k)) \in Nat
          /\ Cardinality(Served(k)) <= Cardinality(Tracked)
      BY <3>1, <2>4, FS_Subset, FS_CardinalityType
    <3>3. QED
      BY <1>6, <3>2, ListenerAssumption
  <2>6. flying \union {c} = flying \union (IF k[c].stage = "ended" THEN {} ELSE {c})
    BY <2>1
  <2>7. QED
    BY <1>1, <1>3, <2>1, <2>2, <2>3, <2>5, <2>6, AcceptStep
<1>7. CASE Onwards([conn EXCEPT ![c] = At("ended", TRUE)], flying)
  <2> DEFINE k == [conn EXCEPT ![c] = At("ended", TRUE)]
  <2>1. /\ k \in ConnStates
        /\ k[c].stage = "ended" /\ k[c].last
        /\ \A d \in Conns \ {c} : k[d] = conn[d]
    BY <1>3, <1>4 DEF ConnStates, At, Stages
  <2>2. Onwards(k, flying)
    BY <1>7
  <2> HIDE DEF k
  <2>3. LastFits(k) /\ Served(k) = Served(conn)
    BY <1>3, <1>4, <2>1 DEF LastFits, Served
  <2>4. flying = flying \union (IF k[c].stage = "ended" THEN {} ELSE {c})
    BY <2>1
  <2>5. QED
    BY <1>1, <1>3, <1>4, <2>1, <2>2, <2>3, <2>4, AcceptStep
<1>8. QED
  BY <1>2, <1>5, <1>6, <1>7

(* The callback of an operation of connection c: HTTP works on c.          *)
LEMMA ConnCallback ==
  ASSUME IInv, NEW c \in Conns, NEW r, Callback(c, r)
  PROVE  c \in Busy(conn) /\ c # "accept"
<1>1. c \in OpsOf(completed)
  BY CallbackStep
<1>2. QED
  BY <1>1, ListenerAssumption DEF IInv, OneOperation

(* HTTP goes on with connection c, whose operation is over: another one    *)
(* is under way if c is still there.                                       *)
LEMMA ConnStep ==
  ASSUME IInv, NEW c \in Conns, NEW r, Callback(c, r),
         conn' \in ConnStates, \A d \in Conns \ {c} : conn'[d] = conn[d],
         conn'[c].stage \in {"reading", "writing", "ended"},
         LastFits(conn'), Served(conn') \subseteq Served(conn),
         flying' = flying \union (IF conn'[c].stage = "ended" THEN {} ELSE {c}),
         waiting' \in BOOLEAN, crashed' \in BOOLEAN, starved' = starved
  PROVE  IInv'
<1>1. /\ completed' \in Seq(Ops \X Results)
      /\ Distinct(completed')
      /\ OpsOf(completed') = OpsOf(completed) \ {c}
      /\ c \in OpsOf(completed) /\ c \notin flying
      /\ phase' = phase /\ running' = running /\ phase # "destroyed"
  BY CallbackStep
<1>2. c \in Busy(conn) /\ c # "accept"
  BY ConnCallback
<1>3. Typed'
  BY <1>1 DEF IInv, Typed, Ops
<1>4. /\ Busy(conn') = IF conn'[c].stage = "ended" THEN Busy(conn) \ {c} ELSE Busy(conn)
      /\ Ready(conn') = Ready(conn)
  BY <1>2 DEF Busy, Ready
<1>5. OneOperation'
  <2>1. /\ OpsOf(completed) \intersect flying = {}
        /\ (flying \union OpsOf(completed)) \intersect Conns = Busy(conn)
    BY DEF IInv, OneOperation
  <2>2. OpsOf(completed') \intersect flying' = {}
    BY <1>1, <2>1
  <2>3. (flying' \union OpsOf(completed')) \intersect Conns = Busy(conn')
    BY <1>1, <1>2, <1>4, <2>1
  <2>4. QED
    BY <1>1, <2>2, <2>3 DEF OneOperation
<1>6. AcceptConn'
  <2>1. "accept" \in flying' \union OpsOf(completed') <=> "accept" \in flying \union OpsOf(completed)
    BY <1>1, <1>2
  <2>2. QED
    BY <1>1, <1>4, <2>1 DEF IInv, AcceptConn
<1>7. PhaseFits'
  BY <1>1 DEF IInv, PhaseFits
<1>8. Cardinality(Served(conn')) <= MaxConnections
  <2>1. IsFiniteSet(Served(conn)) /\ IsFiniteSet(Served(conn'))
    BY OpsFinite, FS_Subset DEF Served
  <2>2. /\ Cardinality(Served(conn')) \in Nat /\ Cardinality(Served(conn)) \in Nat
        /\ Cardinality(Served(conn')) <= Cardinality(Served(conn))
    BY <2>1, FS_Subset, FS_CardinalityType
  <2>3. QED
    BY <2>2, ListenerAssumption DEF IInv
<1>9. QED
  BY <1>3, <1>5, <1>6, <1>7, <1>8 DEF IInv

LEMMA DestroyStep ==
  ASSUME IInv, NEW c \in Conns, NEW r, Callback(c, r), Destroy(c)
  PROVE  IInv'
<1>1. conn \in ConnStates /\ LastFits(conn) /\ waiting \in BOOLEAN
  BY DEF IInv, Typed
<1>2. conn' = [conn EXCEPT ![c] = At("ended", TRUE)]
  BY DEF Destroy
<1>3. /\ conn' \in ConnStates
      /\ conn'[c].stage = "ended" /\ conn'[c].last
      /\ \A d \in Conns \ {c} : conn'[d] = conn[d]
  BY <1>1, <1>2 DEF ConnStates, At, Stages
<1>4. LastFits(conn') /\ Served(conn') \subseteq Served(conn)
  BY <1>1, <1>3 DEF LastFits, Served
<1>5. /\ flying' = flying \union (IF conn'[c].stage = "ended" THEN {} ELSE {c})
      /\ waiting' \in BOOLEAN /\ crashed' \in BOOLEAN /\ starved' = starved
  BY <1>1, <1>3 DEF Destroy
<1>6. QED
  BY <1>3, <1>4, <1>5, ConnStep

LEMMA ReadOnStep == ASSUME IInv, NEW c \in Conns, ReadOn(c) PROVE IInv'
<1>1. Callback(c, "ok") /\ conn[c].stage = "reading"
  BY DEF ReadOn
<1>2. flying' = flying \union {c} /\ UNCHANGED <<waiting, conn, starved, crashed>>
  BY DEF ReadOn
<1>3. conn' \in ConnStates /\ LastFits(conn') /\ Served(conn') \subseteq Served(conn)
  BY <1>2 DEF IInv, Typed
<1>4. /\ \A d \in Conns \ {c} : conn'[d] = conn[d]
      /\ conn'[c].stage = "reading"
  BY <1>1, <1>2
<1>5. waiting' \in BOOLEAN /\ crashed' \in BOOLEAN /\ starved' = starved
  BY <1>2 DEF IInv, Typed
<1>6. flying' = flying \union (IF conn'[c].stage = "ended" THEN {} ELSE {c})
  BY <1>2, <1>4
<1>7. QED
  BY <1>1, <1>3, <1>4, <1>5, <1>6, ConnStep

LEMMA ProceedStep == ASSUME IInv, NEW c \in Conns, Proceed(c) PROVE IInv'
<1>1. PICK s \in {"reading", "writing"}, l \in BOOLEAN : conn' = [conn EXCEPT ![c] = At(s, l)]
  BY DEF Proceed
<1>2. /\ Callback(c, "ok") /\ flying' = flying \union {c}
      /\ UNCHANGED <<waiting, starved, crashed>>
  BY DEF Proceed
<1>3. conn \in ConnStates /\ LastFits(conn)
  BY DEF IInv, Typed
<1>4. /\ conn' \in ConnStates
      /\ conn'[c].stage = s /\ conn'[c].last = l
      /\ \A d \in Conns \ {c} : conn'[d] = conn[d]
  BY <1>1, <1>3 DEF ConnStates, At, Stages
<1>5. \/ conn[c].stage = "reading" /\ conn'[c].stage = "writing"
      \/ /\ conn[c].stage = "writing" /\ ~conn[c].last
         /\ conn'[c].stage = "reading" /\ conn'[c].last = conn[c].last
  BY DEF Proceed, Session!Answer, Session!Again
<1>6. LastFits(conn') /\ Served(conn') \subseteq Served(conn)
  BY <1>3, <1>4, <1>5 DEF LastFits, Served
<1>7. waiting' \in BOOLEAN /\ crashed' \in BOOLEAN /\ starved' = starved
  BY <1>2 DEF IInv, Typed
<1>8. conn'[c].stage # "ended"
  BY <1>4
<1>9. QED
  BY <1>2, <1>4, <1>6, <1>7, <1>8, ConnStep

LEMMA NextStep == ASSUME IInv, [Next]_vars PROVE IInv'
<1>1. CASE \E r \in Results : AcceptFailed(r)
  BY <1>1, AcceptFailedStep
<1>2. CASE \E r \in Results, c \in Conns : Failed(c, r)
  BY <1>2, DestroyStep DEF Failed
<1>3. CASE Accepted
  BY <1>3, AcceptedStep
<1>4. CASE \E c \in Conns : ReadOn(c)
  BY <1>4, ReadOnStep
<1>5. CASE \E c \in Conns : Proceed(c)
  BY <1>5, ProceedStep
<1>6. CASE \E c \in Conns : GiveUp(c)
  BY <1>6, DestroyStep DEF GiveUp
<1>7. CASE \E o \in Ops, r \in Results : World(o, r)
  BY <1>7, WorldStep
<1>8. CASE Stop
  BY <1>8, StopStep
<1>9. CASE Deinit
  BY <1>9, DeinitStep
<1>10. CASE UNCHANGED vars
  BY <1>10 DEF vars, IInv, Typed, LastFits, OneOperation, AcceptConn, PhaseFits
<1>11. QED
  BY <1>1, <1>2, <1>3, <1>4, <1>5, <1>6, <1>7, <1>8, <1>9, <1>10 DEF Next, Deliver

LEMMA Inductive == Spec => []IInv
<1>1. Init => IInv
  BY InitStep
<1>2. IInv /\ [Next]_vars => IInv'
  BY NextStep
<1>3. QED
  BY <1>1, <1>2, PTL DEF Spec

-----------------------------------------------------------------------------
(* Whatever the clients, the allocator and the moment the server is        *)
(* stopped: every operation is under way or its callback due, once, and    *)
(* never both.                                                             *)
THEOREM TypeCorrect == Spec => []TypeOK
<1>1. IInv => TypeOK
  <2> SUFFICES ASSUME IInv PROVE TypeOK
    OBVIOUS
  <2>1. Due = OpsOf(completed)
    BY DueOps DEF IInv, Typed
  <2>2. Cardinality(Due) = Len(completed)
    BY <2>1, DistinctCount DEF IInv, Typed, OneOperation
  <2>3. QED
    BY <2>1, <2>2 DEF IInv, Typed, OneOperation, TypeOK, ConnStates
<1>2. QED
  BY <1>1, Inductive, PTL

(* However many clients connect, never more than MaxConnections are served *)
(* (th_http_upgrader_upgrade).                                             *)
THEOREM ServesAtMost == Spec => []ServedBounded
<1>1. IInv => ServedBounded
  BY DEF IInv, ServedBounded, Served
<1>2. QED
  BY <1>1, Inductive, PTL

(* The callback of the accept always finds the connection that was made    *)
(* for it and no other one (th_listener_accept_complete), and there is an  *)
(* accept as long as the listener runs and memory never ran out.           *)
THEOREM AcceptPaired == Spec => []AcceptHasItsConn
<1>1. IInv /\ TypeOK => AcceptHasItsConn
  <2> SUFFICES ASSUME IInv, TypeOK PROVE AcceptHasItsConn
    OBVIOUS
  <2>1. Due = OpsOf(completed) /\ Accepting = Ready(conn)
    BY DueOps DEF IInv, Typed, Accepting, Ready
  <2>2. CASE "accept" \in flying \union Due
    <3>1. PICK c \in Conns : Accepting = {c}
      BY <2>1, <2>2 DEF IInv, AcceptConn
    <3>2. Cardinality(Accepting) = 1
      BY <3>1, FS_Singleton
    <3>3. QED
      BY <2>2, <3>2 DEF AcceptHasItsConn
  <2>3. CASE "accept" \notin flying \union Due
    <3>1. Accepting = {} /\ (running => starved)
      BY <2>1, <2>3 DEF IInv, AcceptConn
    <3>2. Cardinality(Accepting) = 0
      BY <3>1, FS_EmptySet
    <3>3. QED
      BY <2>3, <3>1, <3>2 DEF AcceptHasItsConn
  <2>4. QED
    BY <2>2, <2>3
<1>2. QED
  BY <1>1, Inductive, TypeCorrect, PTL

(* When the loop has run dry and the server is destroyed, nothing is left  *)
(* of any connection: the assertion of th_conn_tracker_deinit holds.       *)
THEOREM DeinitIsClean == Spec => []CleanDeinit
<1>1. IInv => CleanDeinit
  <2> SUFFICES ASSUME IInv, phase = "destroyed" PROVE Tracked = {}
    BY DEF CleanDeinit
  <2>1. flying = {} /\ OpsOf(completed) = {}
    BY DEF IInv, PhaseFits, OpsOf
  <2>2. Busy(conn) = {} /\ Ready(conn) = {}
    BY <2>1 DEF IInv, OneOperation, AcceptConn
  <2>3. \A c \in Conns : conn[c].stage = "ended"
    BY <2>2 DEF IInv, Typed, ConnStates, LastFits, Busy, Ready, Stages
  <2>4. QED
    BY <2>3 DEF Tracked
<1>2. QED
  BY <1>1, Inductive, PTL

-----------------------------------------------------------------------------
(* What a step does to connection c is what ThSession allows, or c is made *)
(* anew for the next client.                                               *)
SessionStep(c) ==
  \/ Session(c)!Next
  \/ UNCHANGED conn[c]
  \/ conn[c].stage = "ended" /\ conn'[c] = At("unborn", FALSE)

LEMMA AcceptSession ==
  ASSUME IInv, NEW r, Callback("accept", r), NEW c \in Accepting,
         NEW s \in {"reading", "writing", "ended"}, NEW l \in BOOLEAN, l <=> s # "reading",
         NEW ops, ops \in {flying, flying \union {c}},
         Onwards([conn EXCEPT ![c] = At(s, l)], ops)
  PROVE  \A d \in Conns : SessionStep(d)
<1> DEFINE k == [conn EXCEPT ![c] = At(s, l)]
<1>1. /\ Ready(conn) = {c} /\ c \in Conns
      /\ conn[c].stage = "unborn" /\ c \notin flying
  BY AcceptingOne
<1>2. conn \in ConnStates /\ LastFits(conn) /\ Typed /\ "accept" \notin flying
  BY CallbackStep DEF IInv, Typed
<1>3. /\ k \in ConnStates
      /\ k[c].stage = s /\ k[c].last = l /\ k[c] = At(s, l)
      /\ \A d \in Conns \ {c} : k[d] = conn[d]
  BY <1>1, <1>2 DEF ConnStates, At, Stages
<1>4. Onwards(k, ops)
  OBVIOUS
<1> HIDE DEF k
<1>5. LastFits(k) /\ Ready(k) = {}
  BY <1>1, <1>2, <1>3 DEF LastFits, Ready
<1>6. ops \subseteq Ops /\ "accept" \notin ops
  BY <1>1, <1>2, ListenerAssumption DEF Typed, Ops
<1>7. /\ conn' \in ConnStates
      /\ \A d \in Conns :
           \/ conn'[d] = k[d]
           \/ k[d].stage = "ended" /\ conn'[d] = At("unborn", FALSE)
  BY <1>2, <1>3, <1>4, <1>5, <1>6, OnwardsStep
<1>8. ASSUME NEW d \in Conns \ {c} PROVE SessionStep(d)
  BY <1>3, <1>7 DEF SessionStep
<1>9. SessionStep(c)
  <2>1. ~conn[c].last
    BY <1>1, <1>2 DEF LastFits
  <2>2. CASE conn'[c] = k[c]
    <3>1. conn'[c].stage = s /\ conn'[c].last = l
      BY <1>3, <2>2
    <3>2. CASE s = "reading"
      <4>1. conn[c].last = FALSE /\ conn'[c].last = FALSE
        BY <1>1, <1>2, <2>1, <3>1, <3>2 DEF ConnStates
      <4>2. QED
        BY <1>1, <3>1, <3>2, <4>1 DEF SessionStep, Session!Next, Session!Begin
    <3>3. CASE s = "writing"
      BY <1>1, <3>1, <3>3 DEF SessionStep, Session!Next, Session!Reject
    <3>4. CASE s = "ended"
      BY <1>1, <3>1, <3>4 DEF SessionStep, Session!Next, Session!End
    <3>5. QED
      BY <3>2, <3>3, <3>4
  <2>3. CASE conn'[c] = At("unborn", FALSE)
    <3>1. conn[c] = [stage |-> "unborn", last |-> FALSE]
      BY <1>1, <1>2, <2>1 DEF ConnStates
    <3>2. QED
      BY <2>3, <3>1 DEF SessionStep, At
  <2>4. QED
    BY <1>1, <1>7, <2>2, <2>3
<1>10. QED
  BY <1>8, <1>9

LEMMA DestroySession ==
  ASSUME IInv, NEW c \in Conns, NEW r, Callback(c, r), Destroy(c)
  PROVE  \A d \in Conns : SessionStep(d)
<1>1. conn[c].stage \in {"reading", "writing"}
  BY ConnCallback DEF Busy
<1>2. /\ conn'[c] = At("ended", TRUE)
      /\ \A d \in Conns \ {c} : conn'[d] = conn[d]
  BY DEF Destroy, IInv, Typed, ConnStates
<1>3. SessionStep(c)
  BY <1>1, <1>2 DEF SessionStep, Session!Next, Session!End, At
<1>4. QED
  BY <1>2, <1>3 DEF SessionStep

LEMMA NextSession ==
  ASSUME IInv, [Next]_vars
  PROVE  \A d \in Conns : SessionStep(d)
<1>1. CASE \E r \in Results : AcceptFailed(r)
  <2>1. PICK r \in Results : AcceptFailed(r)
    BY <1>1
  <2>2. PICK c \in Accepting : Onwards([conn EXCEPT ![c] = At("ended", TRUE)], flying)
    BY <2>1 DEF AcceptFailed
  <2>3. Callback("accept", r)
    BY <2>1 DEF AcceptFailed
  <2>4. QED
    BY <2>2, <2>3, AcceptSession
<1>2. CASE \E r \in Results, c \in Conns : Failed(c, r)
  BY <1>2, DestroySession DEF Failed
<1>3. CASE Accepted
  <2>1. Callback("accept", "ok")
    BY <1>3 DEF Accepted
  <2>2. PICK c \in Accepting :
          \/ Onwards([conn EXCEPT ![c] = At("writing", TRUE)], flying \union {c})
          \/ Onwards([conn EXCEPT ![c] = At("reading", FALSE)], flying \union {c})
          \/ Onwards([conn EXCEPT ![c] = At("ended", TRUE)], flying)
    BY <1>3 DEF Accepted
  <2>3. flying \in {flying, flying \union {c}} /\ flying \union {c} \in {flying, flying \union {c}}
    OBVIOUS
  <2>4. QED
    BY <2>1, <2>2, <2>3, AcceptSession
<1>4. CASE \E c \in Conns : Proceed(c)
  <2>1. PICK c \in Conns : Proceed(c)
    BY <1>4
  <2>2. \A d \in Conns \ {c} : conn'[d] = conn[d]
    BY <2>1 DEF Proceed, IInv, Typed, ConnStates
  <2>3. Session(c)!Next
    BY <2>1 DEF Proceed, Session!Next
  <2>4. QED
    BY <2>2, <2>3 DEF SessionStep
<1>5. CASE \E c \in Conns : GiveUp(c)
  BY <1>5, DestroySession DEF GiveUp
<1>6. CASE UNCHANGED conn
  BY <1>6 DEF SessionStep
<1>7. QED
  BY <1>1, <1>2, <1>3, <1>4, <1>5, <1>6
     DEF Next, Deliver, ReadOn, World, Stop, Deinit, vars

(* What the listener does to a connection is what ThSession allows, which  *)
(* is what ThHttp promises in turn: it is started or rejected once, ended  *)
(* once, and nothing is done to it between its end and the next client     *)
(* (th_listener_accept_complete, th_conn_observable_destroy).              *)
THEOREM ConnsKeepSession == Spec => [][\A c \in Conns : SessionStep(c)]_vars
<1>1. IInv /\ [Next]_vars => \A c \in Conns : SessionStep(c)
  BY NextSession
<1>2. QED
  BY <1>1, Inductive, PTL DEF Spec
=============================================================================
