SPECIFICATION FairSpec
CONSTANTS
  Tasks <- MCTasks
  ReactorTask = ReactorTask
  NoFd = NoFd
  Sockets = {s1}
  Untimed = {}
  Fds = {f1}
  Events = {"none", "ready", "hup"}
  IoResults = {"ok"}
  Spurious = TRUE
  MaxParts = 2
  MaxPollFds = 3
PROPERTIES
  StalledOnlyByRenewal
  ReactorNotStarved
  AsyncSpec
