------------------------------ MODULE ChatRoom ------------------------------
(***************************************************************************)
(* What broadcasting promises: there is one log of everything said, and    *)
(* each participant hears, in the order of the log and without gaps, what  *)
(* the others say from the moment it is in the room.  MessageFlow is the   *)
(* program that is to keep this promise.                                   *)
(***************************************************************************)
EXTENDS Naturals, Sequences, Filter

CONSTANTS Session, Line

VARIABLES
    log,     \* what was said, by whom
    start,   \* where in the log each participant came in
    heard    \* what each participant heard

vars == <<log, start, heard>>

(* What the members of a set of participants may say.                      *)
Said(who) == [kind : {"say"}, from : who, line : Line]

NotIn == 0     \* start of a participant that has not come in

Init ==
    /\ log = << >>
    /\ start = [r \in Session |-> NotIn]
    /\ heard = [r \in Session |-> << >>]

(* What r is to hear of the log.                                           *)
Stream(r) ==
    IF start[r] = NotIn
    THEN << >>
    ELSE Only(SubSeq(log, start[r], Len(log)), Said(Session \ {r}))

Enter(r) ==
    /\ start[r] = NotIn
    /\ start' = [start EXCEPT ![r] = Len(log) + 1]
    /\ UNCHANGED <<log, heard>>

Say(m) ==
    /\ log' = Append(log, m)
    /\ UNCHANGED <<start, heard>>

Hear(r) ==
    /\ Len(heard[r]) < Len(Stream(r))
    /\ heard' = [heard EXCEPT ![r] = Append(@, Stream(r)[Len(@) + 1])]
    /\ UNCHANGED <<log, start>>

Next ==
    \/ \E m \in Said(Session) : Say(m)
    \/ \E r \in Session : Enter(r) \/ Hear(r)

Spec == Init /\ [][Next]_vars

=============================================================================
