------------------------------- MODULE MCWire --------------------------------
(* An instance of Wire for model checking: names that are keywords, texts  *)
(* that look like commands, an optional email; a password with a colon is  *)
(* no part of the larger instance.                                         *)
EXTENDS Wire, TLC

CONSTANTS c, d

Of(n, p) == [name |-> n, password |-> p, email |-> Empty]

Words == Mark \cup Keyword \cup Wording
            \cup {"ann", "pw", "p", "w", "e", "f", "hi", "x", "y"}
PromptNames == {<<"ann">>, <<"private">>, <<"x">>}
Plainly == {<<"pw">>}
Passwords == Plainly \cup {<<"p", ":", "w">>}
Emails == {Empty, <<"e", "@", "f">>}
(* An account that was disabled.                                          *)
Gone == Of(<<"x">>, <<"pw">>)
Old == {Of(<<"private">>, <<"pw">>), Gone}
NoLonger == {Gone}
ThreeAndTwo == c :> 3 @@ d :> 2
Lines == {<<"users">>, <<"logout">>, <<"ann", ":", "hi">>,
          <<"@", "ann", Space, "x", ":", "y">>,
          <<"@", Space, "x">>, <<"@", "ann">>}
=============================================================================
