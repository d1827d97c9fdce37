---------------------------- MODULE MCAuthStore -----------------------------
(* Instances of AuthStore for model checking.                              *)
EXTENDS AuthStore, TLC

Symmetric == Permutations(Token) \cup Permutations(Password)
(* bob is no name for AuthManager; the REST interface takes it.            *)
Bobs == Disabled \X Password
WestOfGreenwich == -1
=============================================================================
