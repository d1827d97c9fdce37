SPECIFICATION Spec
CONSTANTS
  Worker = {t1, t2, t3}
  Session = {s1, s2}
  User = {u1, u2}
  NoWorker = NoWorker
  NoSession = NoSession
  NoUser = NoUser
  MaxLines <- ThreeAndOne
  Commands = {"login", "register", "private", "broadcast", "users", "logout", "refused"}
  RecursiveMutex = TRUE
SYMMETRY Symmetry
INVARIANTS
  TypeOK
  OneReader
  NameMatchesSession
  NoGhosts
  BrokenWriterIsRemoved
  NoLeakedRows
