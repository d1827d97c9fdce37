SPECIFICATION FairSpec
CONSTANTS
  Worker = {t1, t2}
  Session = {s1, s2}
  User = {u1, u2}
  NoWorker = NoWorker
  NoSession = NoSession
  NoUser = NoUser
  MaxLines <- OneLine
  Commands = {"login", "register"}
  RecursiveMutex = TRUE
INVARIANTS
  ViewCurrent
PROPERTIES
  DepartedAreForgotten
  RegisteredGetList
