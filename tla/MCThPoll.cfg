SPECIFICATION Spec
CONSTANTS
  Tasks <- MCTasks
  ReactorTask = ReactorTask
  NoFd = NoFd
  Sockets = {s1, s2}
  Untimed = {s1}
  Fds = {f1, f2}
  Events = {"none", "ready", "hup"}
  IoResults = {"ok"}
  Spurious = TRUE
  MaxParts = 1
  MaxPollFds = 3
INVARIANTS
  TypeOK
  TaskCount
  OnePlace
  PendingIsPolled
SYMMETRY MCSymmetry
