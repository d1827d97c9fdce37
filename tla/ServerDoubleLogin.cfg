SPECIFICATION Spec
CONSTANTS
  Worker = {t1, t2}
  Session = {s1, s2}
  User = {u1}
  NoWorker = NoWorker
  NoSession = NoSession
  NoUser = NoUser
  MaxLines <- OneLine
  Commands = {"login"}
  RecursiveMutex = FALSE
CHECK_DEADLOCK FALSE
INVARIANT OneSessionPerUser
