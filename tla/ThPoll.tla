------------------------------- MODULE ThPoll -------------------------------
(***************************************************************************)
(* The poll(2) reactor of th_poll.c under the loop of th_loop.c, with the  *)
(* operations (th_recv, th_send, th_sendvec, th_sendfile, th_accept) that  *)
(* sockets and acceptors submit to it.  Everything runs on one thread; the *)
(* kernel, the clock, memory exhaustion and the client code that runs      *)
(* between polls and in callbacks are nondeterministic.                    *)
(*                                                                         *)
(* A socket stands for a th_socket or th_acceptor with the operations its  *)
(* owner embeds: one of each type, and none that writes on an acceptor.    *)
(* The operation of type t of socket s is <<s, t>>.                        *)
(***************************************************************************)
EXTENDS ThLoop, FiniteSets

CONSTANTS
  Sockets,    \* sockets and acceptors
  Untimed,    \* those of them that have timeouts disabled: the acceptors
  Fds,        \* file descriptors the kernel hands out
  NoFd,       \* the socket has no handle
  Events,     \* what poll() may report on an open descriptor
  IoResults,  \* what an I/O call that does not fail with EAGAIN may return
  Spurious,   \* a ready descriptor may still have nothing to transfer
  MaxParts,   \* bound: successful transfers one operation needs
  MaxPollFds  \* bound: length of the pollfd vector

OpTypes == {"read", "write"}

ASSUME PollAssumption ==
  /\ Tasks = Sockets \X {"read"} \union (Sockets \ Untimed) \X {"write"}
  /\ IsFiniteSet(Sockets)
  /\ Untimed \subseteq Sockets
  /\ NoFd \notin Fds
  /\ Events \subseteq {"none", "ready", "hup", "err", "other"}
  /\ IoResults \subseteq {"ok", "eof", "ioerror"}
  /\ Spurious \in BOOLEAN
  /\ MaxParts \in Nat \ {0}
  /\ MaxPollFds \in Nat

VARIABLES
  handle,   \* socket -> fd of its th_poll_handle; inverted: reactor->handles
  pending,  \* the operations in some handle->pending
  expired,  \* socket -> its handle->timer has run out
  fds,      \* reactor->fds without revents, a vector of [fd, type]
  revents,  \* revents[i]: what poll() reported on fds[i], in th_reactor_run
  cursor,   \* i of the loop in th_poll_reactor_run, counted from 1
  kept,     \* its reenqueue
  left,     \* operation -> transfers it still needs
  err       \* operation -> op->err

pollVars == <<handle, pending, expired, fds, revents, cursor, kept, left, err>>
vars == <<loopVars, pollVars>>

Results == {"ok", "eof", "eio", "ebadf", "unknown", "canceled", "timedout",
            "nomem", "ioerror"}

SocketOf(o) == o[1]
TypeOf(o) == o[2]
Open(s) == handle[s] # NoFd
PollFd(o) == [fd |-> handle[SocketOf(o)], type |-> TypeOf(o)]
Timed(s) == s \notin Untimed

Elems(q) == {q[i] : i \in DOMAIN q}
Queued == Elems(queue) \ {ReactorTask}
InFlight(o) == o \in pending \/ o \in Queued

TypeOK ==
  /\ LoopTypeOK
  /\ handle \in [Sockets -> Fds \union {NoFd}]
  /\ pending \subseteq Tasks
  /\ expired \in [Sockets -> BOOLEAN]
  /\ fds \in Seq([fd : Fds, type : OpTypes])
  /\ revents \in Seq(Events \union {"nval"})
  /\ cursor \in Nat
  /\ kept \in Nat
  /\ left \in [Tasks -> 0 .. MaxParts]
  /\ err \in [Tasks -> Results]

Init ==
  /\ LoopInit
  /\ handle = [s \in Sockets |-> NoFd]
  /\ pending = {}
  /\ expired = [s \in Sockets |-> TRUE]
  /\ fds = <<>>
  /\ revents = <<>>
  /\ cursor = 0
  /\ kept = 0
  /\ left = [o \in Tasks |-> 0]
  /\ err = [o \in Tasks |-> "ok"]

-----------------------------------------------------------------------------
(* What can become of an operation whose fn or abort runs.                 *)

(***************************************************************************)
(* <op>_complete: set err and TH_OP_COMPLETED and post the operation; d is *)
(* what the call chain adds to the task count besides.                     *)
(***************************************************************************)
Complete(o, r, d) ==
  /\ Account(<<o>>, d)
  /\ err' = [err EXCEPT ![o] = r]
  /\ left' = [left EXCEPT ![o] = 0]
  /\ pending' = pending \ {o}
  /\ UNCHANGED <<fds, expired>>

(***************************************************************************)
(* th_poll_handle_submit of an operation that is no longer IMMEDIATE: wait *)
(* for readiness, with a fresh timer.                                      *)
(***************************************************************************)
Wait(o, parts, d) ==
  /\ Len(fds) < MaxPollFds
  /\ pending' = pending \union {o}
  /\ expired' = [expired EXCEPT ![SocketOf(o)] = @ /\ ~Timed(SocketOf(o))]
  /\ fds' = Append(fds, PollFd(o))
  /\ Account(<<>>, 1 + d)
  /\ left' = [left EXCEPT ![o] = parts]
  /\ err' = [err EXCEPT ![o] = "ok"]

(***************************************************************************)
(* The same when th_pollfd_vec_push_back fails: the slot is cleared again, *)
(* but the timer was set; fn completes the operation with the error.       *)
(***************************************************************************)
WaitFails(o, d) ==
  /\ Account(<<o>>, d)
  /\ expired' = [expired EXCEPT ![SocketOf(o)] = @ /\ ~Timed(SocketOf(o))]
  /\ err' = [err EXCEPT ![o] = "nomem"]
  /\ left' = [left EXCEPT ![o] = 0]
  /\ pending' = pending \ {o}
  /\ UNCHANGED fds

(***************************************************************************)
(* fn of an operation that is not COMPLETED: the I/O call finishes it,     *)
(* fails, or transfers something or nothing and the operation waits        *)
(* (again) for readiness with at most `most' transfers to go.              *)
(***************************************************************************)
Perform(o, most, d) ==
  \/ \E r \in IoResults : Complete(o, r, d)
  \/ \E p \in 1 .. most : Wait(o, p, d)
  \/ WaitFails(o, d)

(* Descriptors the kernel may hand out next.                               *)
FreeFds == Fds \ {handle[s] : s \in Sockets}

(* Clients hand over, close or replace a descriptor when nothing is in     *)
(* flight on the socket.                                                   *)
Quiet(s) == \A o \in Tasks : SocketOf(o) = s => ~InFlight(o)

(***************************************************************************)
(* An accept that succeeded has put the new connection's descriptor into   *)
(* its target, the socket of a connection made for it (th_acceptor_accept  *)
(* ends in th_socket_set_fd; if that fails, so does the accept).           *)
(***************************************************************************)
Adopt(o) ==
  IF SocketOf(o) \in Untimed /\ o \notin pending' /\ err'[o] = "ok"
  THEN \E s \in Sockets \ Untimed, f \in FreeFds :
         /\ ~Open(s)
         /\ Quiet(s)
         /\ handle' = [handle EXCEPT ![s] = f]
  ELSE UNCHANGED handle

-----------------------------------------------------------------------------
(* Client code: user code between polls and the callbacks of operations.   *)

(***************************************************************************)
(* th_<op>_init, then th_socket_submit / th_acceptor_submit: the operation *)
(* is IMMEDIATE, so th_handle_submit performs it inline.  Clients have at  *)
(* most one operation of a type in flight on a socket.                     *)
(***************************************************************************)
Submit(o) ==
  /\ InClientCode
  /\ Open(SocketOf(o))
  /\ ~InFlight(o)
  /\ Perform(o, MaxParts, 0)
  /\ Adopt(o)
  /\ UNCHANGED <<phase, running, empty, revents, cursor, kept>>

(* th_socket_cancel / th_acceptor_cancel: the read slot first.             *)
Slot(o) == IF o \in pending THEN <<o>> ELSE <<>>
CancelOrder(s) == Slot(<<s, "read">>) \o Slot(<<s, "write">>)

(* Mutants: the slots are not cleared; the result is not set.              *)
CancelKeepsSlots(s) ==
  /\ InClientCode
  /\ Open(s)
  /\ Account(CancelOrder(s), 0 - Len(CancelOrder(s)))
  /\ UNCHANGED <<phase, running, empty, handle, pending, expired, fds, revents,
                 cursor, kept, err, left>>

CancelWithoutError(s) ==
  /\ InClientCode
  /\ Open(s)
  /\ Account(CancelOrder(s), 0 - Len(CancelOrder(s)))
  /\ pending' = {o \in pending : SocketOf(o) # s}
  /\ left' = [o \in Tasks |->
               IF o \in pending /\ SocketOf(o) = s THEN 0 ELSE left[o]]
  /\ UNCHANGED <<phase, running, empty, handle, expired, fds, revents, cursor, kept, err>>

Cancel(s) ==
  /\ InClientCode
  /\ Open(s)
  /\ Account(CancelOrder(s), 0 - Len(CancelOrder(s)))
  /\ pending' = {o \in pending : SocketOf(o) # s}
  /\ err' = [o \in Tasks |->
               IF o \in pending /\ SocketOf(o) = s THEN "canceled" ELSE err[o]]
  /\ left' = [o \in Tasks |->
               IF o \in pending /\ SocketOf(o) = s THEN 0 ELSE left[o]]
  /\ UNCHANGED <<phase, running, empty, handle, expired, fds, revents, cursor, kept>>

(* th_socket_set_fd with a descriptor the kernel has just opened; closes   *)
(* the previous one.  A failed th_poll_reactor_create_handle leaves the    *)
(* socket without a handle.                                                *)
SetFd(s) ==
  /\ InClientCode
  /\ Quiet(s)
  /\ \E f \in FreeFds \union {NoFd} :
       handle' = [handle EXCEPT ![s] = f]
  /\ expired' = [expired EXCEPT ![s] = TRUE]
  /\ UNCHANGED <<loopVars, pending, fds, revents, cursor, kept, left, err>>

(* th_socket_close / th_acceptor_close: th_poll_handle_destroy.  Pollfds   *)
(* of the descriptor stay in the vector.                                   *)
Close(s) ==
  /\ InClientCode
  /\ Open(s)
  /\ Quiet(s)
  /\ handle' = [handle EXCEPT ![s] = NoFd]
  /\ expired' = [expired EXCEPT ![s] = TRUE]
  /\ UNCHANGED <<loopVars, pending, fds, revents, cursor, kept, left, err>>

-----------------------------------------------------------------------------
(* The loop.                                                               *)

StartPoll == PollStart /\ UNCHANGED pollVars

(* fn of a COMPLETED operation: finalize, the callback runs.               *)
Finalize == PopTask /\ UNCHANGED pollVars

Return ==
  /\ TaskReturn
  /\ err' = [err EXCEPT ![running] = IF running \in Queued THEN @ ELSE "ok"]
  /\ UNCHANGED <<handle, pending, expired, fds, revents, cursor, kept, left>>

(***************************************************************************)
(* th_poll_reactor_run: poll() reports on the nfds entries there are now;  *)
(* on a descriptor that was closed it reports POLLNVAL.                    *)
(***************************************************************************)
Polled(f) == IF \E s \in Sockets : handle[s] = f THEN Events ELSE {"nval"}

RunReactor ==
  /\ PopReactor
  /\ revents' \in {r \in [DOMAIN fds -> Events \union {"nval"}] :
                     \A i \in DOMAIN fds : r[i] \in Polled(fds[i].fd)}
  /\ cursor' = 1
  /\ kept' = 0
  /\ UNCHANGED <<handle, pending, expired, fds, left, err>>

(* poll() returned -1: th_poll_reactor_run returns at once.                *)
PollFails ==
  /\ phase = "pop"
  /\ queue # <<>>
  /\ Head(queue) = ReactorTask
  /\ queue' = Append(Tail(queue), ReactorTask)
  /\ phase' = IF Tail(queue) = <<>> THEN "idle" ELSE "pop"
  /\ UNCHANGED <<numTasks, running, empty, pollVars>>

Scanning == phase = "reactor" /\ cursor <= Len(revents)

(* The pending operation the entry under the cursor is about, if any.      *)
Woken(o) == o \in pending /\ PollFd(o) = fds[cursor]

Advance ==
  /\ cursor' = cursor + 1
  /\ UNCHANGED <<phase, running, empty, revents>>

(* The handle was removed or has no such operation pending: drop the entry *)
ScanStale ==
  /\ Scanning
  /\ \A o \in Tasks : ~Woken(o)
  /\ Advance
  /\ UNCHANGED <<queue, numTasks, handle, pending, expired, fds, kept, left, err>>

(* revents & pfd->events: th_op_perform.                                   *)
ScanReady(o) ==
  /\ Scanning
  /\ Woken(o)
  /\ revents[cursor] = "ready"
  /\ Perform(o, IF Spurious THEN left[o] ELSE left[o] - 1, 0 - 1)
  /\ Adopt(o)
  /\ Advance
  /\ UNCHANGED kept

(* Mutant: the event is passed on instead of an error.                     *)
AbortWithEvent ==
  [hup |-> "hup", err |-> "eio", nval |-> "ebadf", other |-> "unknown"]

AbortWith ==
  [hup |-> "eof", err |-> "eio", nval |-> "ebadf", other |-> "unknown"]

(* Some other condition: th_op_abort.                                      *)
ScanAbort(o) ==
  /\ Scanning
  /\ Woken(o)
  /\ revents[cursor] \in DOMAIN AbortWith
  /\ Complete(o, AbortWith[revents[cursor]], 0 - 1)
  /\ Advance
  /\ UNCHANGED <<kept, handle>>

(* Mutant: only reads time out.                                            *)
ReadTimedOut(o) ==
  Timed(SocketOf(o)) /\ expired[SocketOf(o)] /\ TypeOf(o) = "read"

(* handle->timeout_enabled && th_timer_expired(&handle->timer)             *)
TimedOut(o) == Timed(SocketOf(o)) /\ expired[SocketOf(o)]

(* Mutant: the operation is posted but still counted as pending.           *)
ScanTimeoutUnpaired(o) ==
  /\ Scanning
  /\ Woken(o)
  /\ revents[cursor] = "none"
  /\ TimedOut(o)
  /\ Complete(o, "timedout", 0)
  /\ Advance
  /\ UNCHANGED <<kept, handle>>

(* No event, and the handle's timer has expired.                           *)
ScanTimeout(o) ==
  /\ Scanning
  /\ Woken(o)
  /\ revents[cursor] = "none"
  /\ TimedOut(o)
  /\ Complete(o, "timedout", 0 - 1)
  /\ Advance
  /\ UNCHANGED <<kept, handle>>

(* No event yet: reenqueue.                                                *)
ScanKeep(o) ==
  /\ Scanning
  /\ Woken(o)
  /\ revents[cursor] = "none"
  /\ ~TimedOut(o)
  /\ kept' = kept + 1
  /\ fds' = [fds EXCEPT ![kept + 1] = fds[cursor]]
  /\ Advance
  /\ UNCHANGED <<queue, numTasks, handle, pending, expired, left, err>>

(* Mutant: the vector is cut to the kept entries.                          *)
CompactedShort == SubSeq(fds, 1, kept)

(* The entries pushed while scanning follow the kept ones.                 *)
Compacted == SubSeq(fds, 1, kept) \o SubSeq(fds, Len(revents) + 1, Len(fds))

ScanEnd ==
  /\ phase = "reactor"
  /\ cursor > Len(revents)
  /\ ReactorReturn
  /\ fds' = Compacted
  /\ revents' = <<>>
  /\ cursor' = 0
  /\ kept' = 0
  /\ UNCHANGED <<handle, pending, expired, left, err>>

(* TH_CONFIG_IO_TIMEOUT passes on a handle that waits.                     *)
Tick(s) ==
  /\ ~expired[s]
  /\ \E o \in pending : SocketOf(o) = s
  /\ expired' = [expired EXCEPT ![s] = TRUE]
  /\ UNCHANGED <<loopVars, handle, pending, fds, revents, cursor, kept, left, err>>

-----------------------------------------------------------------------------
Scan ==
  \/ ScanStale
  \/ \E o \in Tasks : ScanReady(o) \/ ScanAbort(o) \/ ScanTimeout(o) \/ ScanKeep(o)
  \/ ScanEnd

Loop == StartPoll \/ Finalize \/ Return \/ RunReactor \/ Scan

Client ==
  \/ \E o \in Tasks : Submit(o)
  \/ \E s \in Sockets : Cancel(s) \/ SetFd(s) \/ Close(s)

Next == Loop \/ PollFails \/ Client \/ \E s \in Sockets : Tick(s)

Spec == Init /\ [][Next]_vars

(***************************************************************************)
(* The user keeps calling th_loop_poll, the loop's code and every callback *)
(* return, poll() does not fail for ever and the clock advances.           *)
(***************************************************************************)
Fairness == WF_vars(StartPoll) /\ WF_vars(Finalize) /\ WF_vars(Return)
            /\ SF_vars(RunReactor) /\ WF_vars(Scan)
            /\ \A s \in Sockets : WF_vars(Tick(s))

FairSpec == Spec /\ Fairness

-----------------------------------------------------------------------------
(***************************************************************************)
(* Safety.                                                                 *)
(***************************************************************************)

(* th_loop.h: every increase is paired with a decrease.  The loop counts   *)
(* exactly what is outstanding: the operations the reactor holds, the      *)
(* tasks in the queue besides the reactor's, and the task being completed. *)
(* th_loop_run ends, and th_loop_poll reports EOF, by this count alone.    *)
TaskCount ==
  numTasks = Cardinality(pending)
             + Len(queue) - (IF phase = "reactor" THEN 0 ELSE 1)
             + (IF phase = "task" THEN 1 ELSE 0)

(* The queue links tasks through their own next pointer: a task that was   *)
(* pushed twice would cut the queue.  No operation is queued twice, or     *)
(* queued while the reactor still holds it; the reactor's own task is      *)
(* queued unless it runs, so "Task queue must never be empty" holds.       *)
Unique(q) == \A i, j \in DOMAIN q : q[i] = q[j] => i = j

OnePlace ==
  /\ Unique(queue)
  /\ pending \cap Elems(queue) = {}
  /\ ReactorTask \in Elems(queue) <=> phase # "reactor"

(* The entries of the vector that survive: all of them between two runs of *)
(* the reactor, the kept and the unseen ones during a run.                 *)
Live ==
  IF phase = "reactor" THEN 1 .. kept \union cursor .. Len(fds) ELSE DOMAIN fds

(* An operation the reactor holds is never lost by the compaction of the   *)
(* pollfd vector: its handle is open and the vector still polls for it.    *)
PendingIsPolled ==
  \A o \in pending :
    /\ Open(SocketOf(o))
    /\ \E i \in Live : fds[i] = PollFd(o)

(***************************************************************************)
(* Liveness.                                                               *)
(***************************************************************************)
Other(o) ==
  <<SocketOf(o), IF TypeOf(o) = "read" THEN "write" ELSE "read">>

(* Found ready again and again: tried, with a fresh timer if it waits on.   *)
TriedForEver(o) == []<><<ScanReady(o)>>_vars

ComesAndGoes(o) == []<>InFlight(o) /\ []<>~InFlight(o)

(* Both directions of a handle share one timer, set again by every submit. *)
(* An operation with a timeout stays with the reactor for ever only if the *)
(* timer is set for ever: by operations of the other direction that come   *)
(* and go (even those that fail for want of memory set it), or by attempts *)
(* of either direction that do not finish, as those of a shortened file.   *)
StalledOnlyByRenewal ==
  \A o \in Tasks :
    (Timed(SocketOf(o)) /\ <>[](o \in pending))
      => \/ ComesAndGoes(Other(o))
         \/ TriedForEver(Other(o))
         \/ TriedForEver(o)

(* The reactor is polled again and again while anything is outstanding,    *)
(* however many tasks keep posting tasks.                                  *)
ReactorNotStarved == []<>(phase = "reactor") \/ <>[](numTasks = 0)

(* What is queued for ThAsync: the operations with their results, without  *)
(* the reactor's own task.                                                 *)
ReactorAt(q) == CHOOSE i \in DOMAIN q : q[i] = ReactorTask

Others(q) ==
  IF ReactorTask \notin Elems(q) THEN q
  ELSE [i \in 1 .. Len(q) - 1 |-> q[IF i < ReactorAt(q) THEN i ELSE i + 1]]

Answers(q, e) == [i \in DOMAIN q |-> <<q[i], e[q[i]]>>]

Async == INSTANCE ThAsync WITH
  Ops <- Tasks,
  Canceled <- "canceled",
  NoOp <- ReactorTask,
  flying <- pending,
  completed <- Answers(Others(queue), err),
  delivering <- running

(***************************************************************************)
(* The reactor and the loop keep the promises of ThAsync: an operation is  *)
(* completed once, and its callback runs once, in the order of completion  *)
(* and never inside the call that started it.                              *)
(***************************************************************************)
AsyncSpec == Async!Spec
=============================================================================
