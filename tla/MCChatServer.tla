---------------------------- MODULE MCChatServer ----------------------------
(* ChatServer on small sets of workers, connections and users.             *)
EXTENDS ChatServer, TLC

(* Bounds on the lines: one for everybody, or three for one client (login, *)
(* logout, login) and one for the others.                                 *)
OneLine == [s \in Session |-> 1]
ThreeAndOne ==
    LET first == CHOOSE s \in Session : TRUE
    IN [s \in Session |-> IF s = first THEN 3 ELSE 1]

(* Workers and users are interchangeable.                                  *)
Symmetry == Permutations(Worker) \cup Permutations(User)
=============================================================================
