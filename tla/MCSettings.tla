---------------------------- MODULE MCSettings ------------------------------
(* An instance of Settings for model checking: files of up to two lines;   *)
(* secrets at both ends of the lengths that are accepted, and one like the *)
(* tests' "ComplexPassword789#" and "TestRedisPass123!": strong, but with a*)
(* common word in it.                                                      *)
EXTENDS Settings, TLC

CONSTANTS port, host, tls, redis, session, one, true, word

Upto2(L) == UNION {[1 .. n -> L] : n \in 0 .. 2}

Stoi == one :> 1 @@ true :> NotANumber @@ word :> NotANumber
Initially == port :> 4000 @@ host :> word @@ tls :> TRUE

Mixed(n) == [length |-> n, common |-> FALSE,
             classes |-> {"upper", "lower", "digit"}]
CommonWord == [Mixed(19) EXCEPT !.common = TRUE]
Texts == {Empty, Mixed(11), Mixed(12), Mixed(256), Mixed(257), CommonWord}

Line(k, v) == [key |-> k, value |-> v]
ConfigFiles ==
    Upto2({Line(port, one), Line(port, word), Line(host, one),
           Line(host, word), Line(OtherKey, true), Line(tls, word)})
SecretsFiles ==
    Upto2({Line(redis, Mixed(11)), Line(redis, Mixed(12)),
           Line(session, Mixed(256)), Line(session, Mixed(257)),
           Line(session, Empty), Line(session, CommonWord),
           Line(OtherKey, Mixed(11))})
Environments == {<< >>, port :> one, port :> word, tls :> true}
=============================================================================
