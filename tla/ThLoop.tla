------------------------------- MODULE ThLoop -------------------------------
(***************************************************************************)
(* The task scheduler of th_loop.c: an intrusive FIFO of tasks that always *)
(* holds the loop's own reactor task (unless the reactor is running), and  *)
(* a counter of outstanding work, the queued tasks plus what the reactor   *)
(* holds pending.  The module has no specification of its own: it gives    *)
(* the queue operations and the steps of th_loop_poll to the modules that  *)
(* compose the loop with a reactor and with the code the tasks run.        *)
(***************************************************************************)
EXTENDS Integers, Sequences

CONSTANTS
  Tasks,       \* the tasks (struct th_task) clients may queue
  ReactorTask  \* loop->reactor_task

ASSUME LoopAssumption == ReactorTask \notin Tasks

VARIABLES
  queue,     \* loop->queue
  numTasks,  \* loop->num_tasks
  phase,     \* where th_loop_poll is: see Phases
  running,   \* the task th_loop_poll is completing, ReactorTask if none
  empty      \* the local `empty' of th_loop_poll, while the reactor runs

loopVars == <<queue, numTasks, phase, running, empty>>

(***************************************************************************)
(* "idle": outside th_loop_poll, user code runs; "pop": about to pop a     *)
(* task; "reactor": inside th_reactor_run; "task": inside th_task_complete.*)
(***************************************************************************)
Phases == {"idle", "pop", "reactor", "task"}

LoopInit ==
  /\ queue = <<ReactorTask>>
  /\ numTasks = 0
  /\ phase = "idle"
  /\ running = ReactorTask
  /\ empty = FALSE

LoopTypeOK ==
  /\ queue \in Seq(Tasks \union {ReactorTask})
  /\ numTasks \in Int
  /\ phase \in Phases
  /\ running \in Tasks \union {ReactorTask}
  /\ empty \in BOOLEAN

(* Mutant: tasks are pushed at the head of the queue.                      *)
AccountLifo(ts, d) ==
  /\ queue' = ts \o queue
  /\ numTasks' = numTasks + Len(ts) + d

(***************************************************************************)
(* A call chain that posts the tasks of the sequence ts (th_loop_push_task *)
(* for each) and calls increase / decrease_task_count d more times up than *)
(* down.                                                                   *)
(***************************************************************************)
Account(ts, d) ==
  /\ queue' = queue \o ts
  /\ numTasks' = numTasks + Len(ts) + d

(* User code runs between two polls and in the callbacks of tasks.         *)
InClientCode == phase \in {"idle", "task"}

(***************************************************************************)
(* th_loop_poll with work outstanding; with none it returns TH_ERR_EOF and *)
(* changes nothing.                                                        *)
(***************************************************************************)
PollStart ==
  /\ phase = "idle"
  /\ numTasks # 0
  /\ phase' = "pop"
  /\ UNCHANGED <<queue, numTasks, running, empty>>

(* A task is at the head: th_task_complete(task) begins.                   *)
PopTask ==
  /\ phase = "pop"
  /\ queue # <<>>
  /\ Head(queue) # ReactorTask
  /\ queue' = Tail(queue)
  /\ running' = Head(queue)
  /\ phase' = "task"
  /\ UNCHANGED <<numTasks, empty>>

(* th_task_complete returns: the task is counted until now.                *)
TaskReturn ==
  /\ phase = "task"
  /\ numTasks' = numTasks - 1
  /\ running' = ReactorTask
  /\ phase' = "idle"
  /\ UNCHANGED <<queue, empty>>

(* The reactor task is at the head: th_reactor_run begins.                 *)
PopReactor ==
  /\ phase = "pop"
  /\ queue # <<>>
  /\ Head(queue) = ReactorTask
  /\ queue' = Tail(queue)
  /\ empty' = (Tail(queue) = <<>>)
  /\ phase' = "reactor"
  /\ UNCHANGED <<numTasks, running>>

(* th_reactor_run returned: the reactor task goes to the back of the queue *)
(* and the poll ends if the queue held nothing else when it began.         *)
ReactorReturn ==
  /\ phase = "reactor"
  /\ queue' = Append(queue, ReactorTask)
  /\ phase' = IF empty THEN "idle" ELSE "pop"
  /\ empty' = FALSE
  /\ UNCHANGED <<numTasks, running>>
=============================================================================
