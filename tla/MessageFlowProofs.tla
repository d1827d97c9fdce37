------------------------- MODULE MessageFlowProofs --------------------------
(***************************************************************************)
(* Theorems about MessageFlow, for any sessions and any number of lines:   *)
(* its type invariant, that a session writes one message at a time, and    *)
(* that a line is seen only after its insertion into the table was tried.  *)
(***************************************************************************)
EXTENDS MessageFlow, FiniteSetTheorems, SequenceTheorems, TLAPS

Lined == Broadcast \cup PrivateText

(* While a handler is under way it has a line of its session; only as many *)
(* lines were tried, and sessions came in, as steps were taken.            *)
LineInv ==
    /\ \A s \in Session : pc[s] # "idle" => line[s] \in Lined
    /\ IsFiniteSet(Tried) /\ IsFiniteSet(member)

TypeInv == TypeOK /\ LineInv

(* A session of which a write failed keeps the message it failed on.       *)
WriteInv == OneWrite /\ \A s \in broken : queue[s] # << >>

(* A message that is handed on was tried to be put into the table, if it is*)
(* a line at all.                                                          *)
InTable(m, table) == "line" \in DOMAIN m => m \in table
AllIn(q, table) == \A i \in DOMAIN q : InTable(q[i], table)
GivenIn(o, table) == \A i \in DOMAIN o : InTable(o[i][2], table)
SavedInv ==
    /\ \A s \in Session : pc[s] \in {"lock", "send"} => line[s] \in Tried
    /\ \A s \in Session : GivenIn(out[s], Tried)
    /\ \A s \in Session : AllIn(queue[s], Tried)
    /\ \A s \in Session : AllIn(delivered[s], Tried)

-----------------------------------------------------------------------------
(* Sequences: what is true of every element stays true when one is put at  *)
(* the end or taken from the front.                                        *)
LEMMA AppendElements ==
    ASSUME NEW S, NEW q \in Seq(S), NEW e \in S
    PROVE  /\ Append(q, e) \in Seq(S) /\ Append(q, e) # << >>
           /\ \A i \in DOMAIN Append(q, e) :
                 Append(q, e)[i] = e \/ (i \in DOMAIN q /\ Append(q, e)[i] = q[i])
<1> DEFINE longer == Append(q, e)
<1>1. /\ longer \in Seq(S) /\ longer # << >>
      /\ Len(longer) = Len(q) + 1 /\ longer[Len(q) + 1] = e
      /\ \A i \in 1 .. Len(q) : longer[i] = q[i]
  BY AppendProperties
<1>2. Len(q) \in Nat /\ DOMAIN q = 1 .. Len(q)
  OBVIOUS
<1> HIDE DEF longer
<1>3. DOMAIN longer = 1 .. Len(q) + 1
  BY <1>1, <1>2
<1>4. ASSUME NEW i \in DOMAIN longer
      PROVE  longer[i] = e \/ (i \in DOMAIN q /\ longer[i] = q[i])
  <2>1. i = Len(q) + 1 \/ i \in 1 .. Len(q)
    BY <1>2, <1>3
  <2>2. CASE i = Len(q) + 1
    BY <1>1, <2>2
  <2>3. CASE i \in 1 .. Len(q)
    BY <1>1, <1>2, <2>3
  <2> QED
    BY <2>1, <2>2, <2>3
<1> QED
  BY <1>1, <1>4 DEF longer

LEMMA TailElements ==
    ASSUME NEW S, NEW q \in Seq(S), q # << >>
    PROVE  /\ Tail(q) \in Seq(S) /\ Head(q) \in S
           /\ 1 \in DOMAIN q /\ Head(q) = q[1]
           /\ \A i \in DOMAIN Tail(q) : i + 1 \in DOMAIN q /\ Tail(q)[i] = q[i + 1]
  OBVIOUS

(* The number of lines that were tried for s, and the next one.            *)
LEMMA CountIsNumber ==
    ASSUME IsFiniteSet(Tried), NEW s
    PROVE  Count(s) \in Nat
<1> DEFINE mine == {m \in Tried : m.from = s}
<1>1. mine \in SUBSET Tried
  OBVIOUS
<1>2. IsFiniteSet(mine)
  BY <1>1, FS_Subset
<1> QED
  BY <1>2, FS_CardinalityType DEF Count

LEMMA NextLineIsLine ==
    ASSUME IsFiniteSet(Tried), NEW s \in Session, Count(s) < Lines[s]
    PROVE  Count(s) + 1 \in LineNo
<1>1. Count(s) \in Nat /\ Lines[s] \in Nat
  BY CountIsNumber, FlowAssumption
<1>2. Count(s) + 1 \in 1 .. Lines[s]
  BY <1>1
<1> QED
  BY <1>2 DEF LineNo

LEMMA LinedIsMessage == Lined \subseteq Message
  BY DEF Lined, Message

(* What FanOut and Direct have to hand over.                               *)
LEMMA FanOutType ==
    ASSUME TypeInv, NEW s \in Session, line[s] \in Lined,
           NEW order \in SetToSeqs(member \ {s})
    PROVE  [i \in DOMAIN order |-> <<order[i], line[s]>>] \in Seq(Session \X Message)
<1> DEFINE n == Cardinality(member \ {s})
<1>1. n \in Nat
  BY FS_RemoveElement, FS_CardinalityType DEF TypeInv, LineInv
<1>2. order \in [1 .. n -> member \ {s}]
  BY DEF SetToSeqs
<1>3. \A i \in 1 .. n : <<order[i], line[s]>> \in Session \X Message
  BY <1>2, LinedIsMessage DEF TypeInv, TypeOK
<1>4. DOMAIN order = 1 .. n
  BY <1>2
<1> HIDE DEF n
<1>5. [i \in 1 .. n |-> <<order[i], line[s]>>] \in [1 .. n -> Session \X Message]
  BY <1>3
<1> QED
  BY <1>1, <1>4, <1>5

-----------------------------------------------------------------------------
(* Types *)

LEMMA TypeInit == Init => TypeInv
<1> SUFFICES ASSUME Init PROVE TypeInv
  OBVIOUS
<1>1. NoSession \notin Session
  BY FlowAssumption
<1>2. TypeOK
  BY DEF Init, TypeOK
<1>3. LineInv
  BY FS_EmptySet DEF Init, LineInv, Tried
<1> QED
  BY <1>2, <1>3 DEF TypeInv

LEMMA MemberStep ==
    ASSUME TypeInv, NEW s \in Session, ComeIn(s) \/ Leave(s)
    PROVE  TypeInv'
<1> USE DEF TypeInv
<1>1. CASE ComeIn(s)
  <2>1. Len(log) + 1 \in Nat
    BY DEF TypeOK
  <2>2. TypeOK'
    BY <1>1, <2>1 DEF ComeIn, TypeOK
  <2>3. LineInv'
    BY <1>1, FS_AddElement DEF ComeIn, LineInv, Tried
  <2> QED
    BY <2>2, <2>3
<1>2. CASE Leave(s)
  <2>1. TypeOK'
    BY <1>2 DEF Leave, TypeOK
  <2>2. LineInv'
    BY <1>2, FS_RemoveElement DEF Leave, LineInv, Tried
  <2> QED
    BY <2>1, <2>2
<1> QED
  BY <1>1, <1>2

LEMMA ReadStep ==
    ASSUME TypeInv, NEW s \in Session, ReadLine(s)
    PROVE  TypeInv'
<1> USE DEF TypeInv
<1>1. Count(s) + 1 \in LineNo
  BY NextLineIsLine DEF ReadLine, LineInv
<1>2. PICK m \in Lined : line' = [line EXCEPT ![s] = m]
  <2>1. [kind |-> "say", from |-> s, line |-> Count(s) + 1] \in Broadcast
    BY <1>1 DEF Broadcast
  <2>2. \A to \in Session :
           [kind |-> "private", from |-> s, line |-> Count(s) + 1, to |-> to]
             \in PrivateText
    BY <1>1 DEF PrivateText
  <2> QED
    BY <2>1, <2>2 DEF ReadLine, Lined
<1>3. pc' = [pc EXCEPT ![s] = "save"]
      /\ UNCHANGED <<out, holder, member, gone, broken, queue, writing,
                     delivered, saved, lost, log, start>>
  BY DEF ReadLine
<1>4. line' \in [Session -> Broadcast \cup PrivateText \cup {NoLine}]
  BY <1>2 DEF TypeOK, Lined
<1>5. TypeOK'
  BY <1>3, <1>4 DEF TypeOK
<1>6. LineInv'
  BY <1>2, <1>3 DEF LineInv, TypeOK, Tried
<1> QED
  BY <1>5, <1>6

LEMMA SaveStep ==
    ASSUME TypeInv, NEW s \in Session, Save(s)
    PROVE  TypeInv'
<1> USE DEF TypeInv
<1>1. line[s] \in Lined
  BY DEF Save, LineInv
<1>2. TypeOK'
  BY <1>1 DEF Save, TypeOK, Lined
<1>3. IsFiniteSet(Tried \cup {line[s]})
  BY FS_AddElement DEF LineInv
<1>4. LineInv'
  BY <1>3 DEF Save, LineInv, TypeOK, Tried
<1> QED
  BY <1>2, <1>4

LEMMA LockStep ==
    ASSUME TypeInv, NEW s \in Session, Lock(s)
    PROVE  TypeInv'
<1> USE DEF TypeInv
<1>1. line[s] \in Lined
  BY DEF Lock, LineInv
<1>2. /\ out' \in [Session -> Seq(Session \X Message)]
      /\ log' \in Seq(Broadcast)
  <2>1. CASE FanOut(s)
    <3>1. PICK order \in SetToSeqs(member \ {s}) :
            out' = [out EXCEPT ![s] =
                      [i \in DOMAIN order |-> <<order[i], line[s]>>]]
      BY <2>1 DEF FanOut
    <3>2. out' \in [Session -> Seq(Session \X Message)]
      BY <1>1, <3>1, FanOutType DEF TypeOK
    <3>3. log' = Append(log, line[s]) /\ line[s] \in Broadcast
      BY <1>1, <2>1 DEF FanOut, Lined, PrivateText
    <3>4. log' \in Seq(Broadcast)
      BY <3>3, AppendElements DEF TypeOK
    <3> QED
      BY <3>2, <3>4
  <2>2. CASE Direct(s)
    <3> DEFINE to == line[s].to
               answer(kind) == <<s, [kind |-> kind, to |-> to]>>
    <3>1. line[s].kind = "private"
      BY <2>2 DEF Direct
    <3>2. line[s] \in PrivateText
      BY <1>1, <3>1 DEF Lined, Broadcast
    <3>3. to \in Session /\ line[s] \in Message
      BY <3>2 DEF PrivateText, Message
    <3>4. \A kind \in {"sent", "offline"} : answer(kind) \in Session \X Message
      BY <3>3 DEF Message, Answer
    <3>5. \/ out' = [out EXCEPT ![s] = <<<<to, line[s]>>, answer("sent")>>]
          \/ out' = [out EXCEPT ![s] = <<answer("offline")>>]
      BY <2>2 DEF Direct
    <3>6. <<to, line[s]>> \in Session \X Message
      BY <3>3
    <3> HIDE DEF to, answer
    <3>7. /\ <<<<to, line[s]>>, answer("sent")>> \in Seq(Session \X Message)
          /\ <<answer("offline")>> \in Seq(Session \X Message)
      BY <3>4, <3>6
    <3>8. out' \in [Session -> Seq(Session \X Message)]
      BY <3>5, <3>7 DEF TypeOK
    <3>9. log' = log
      BY <2>2 DEF Direct
    <3> QED
      BY <3>8, <3>9 DEF TypeOK
  <2> QED
    BY <2>1, <2>2 DEF Lock
<1>3. TypeOK'
  BY <1>2 DEF Lock, TypeOK
<1>4. LineInv'
  BY <1>1 DEF Lock, LineInv, TypeOK, Tried
<1> QED
  BY <1>3, <1>4

(* What Send puts into whose queue.                                        *)
LEMMA SendFacts ==
    ASSUME TypeInv, NEW s \in Session, Send(s)
    PROVE  \E r \in Session, m \in Message :
              /\ out[s] # << >> /\ Head(out[s]) = <<r, m>> /\ m = Head(out[s])[2]
              /\ queue' = [queue EXCEPT ![r] = Append(@, m)]
              /\ writing' = [writing EXCEPT ![r] = IF queue[r] = << >> THEN @ + 1
                                                   ELSE @]
<1>1. out[s] \in Seq(Session \X Message) /\ out[s] # << >>
  BY DEF TypeInv, TypeOK, Send
<1>2. Head(out[s]) \in Session \X Message
  BY <1>1
<1>3. PICK r \in Session, m \in Message : Head(out[s]) = <<r, m>>
  BY <1>2
<1>4. Head(out[s])[1] = r /\ Head(out[s])[2] = m
  BY <1>3
<1>5. Push(r, m)
  BY <1>4 DEF Send
<1> QED
  BY <1>1, <1>3, <1>4, <1>5 DEF Push

(* The queues and the writes.                                              *)
LEMMA SendStep ==
    ASSUME TypeInv, WriteInv, NEW s \in Session, Send(s)
    PROVE  TypeInv' /\ WriteInv'
<1> USE DEF TypeInv
<1>1. PICK r \in Session, m \in Message :
        /\ out[s] # << >>
        /\ queue' = [queue EXCEPT ![r] = Append(@, m)]
        /\ writing' = [writing EXCEPT ![r] = IF queue[r] = << >> THEN @ + 1 ELSE @]
  BY SendFacts
<1>2. /\ out' = [out EXCEPT ![s] = Tail(@)]
      /\ UNCHANGED <<pc, line, holder, member, gone, broken, delivered, saved, lost,
                     log, start>>
  BY DEF Send
<1>3. /\ Append(queue[r], m) \in Seq(Message) /\ Append(queue[r], m) # << >>
      /\ Tail(out[s]) \in Seq(Session \X Message)
  <2>1. queue[r] \in Seq(Message) /\ out[s] \in Seq(Session \X Message)
    BY DEF TypeOK
  <2> QED
    BY <1>1, <2>1, AppendElements
<1>4. writing' = [writing EXCEPT ![r] = IF r \in broken THEN 0 ELSE 1]
  <2>1. writing[r] = IF queue[r] = << >> \/ r \in broken THEN 0 ELSE 1
    BY DEF WriteInv, OneWrite
  <2>2. r \in broken => queue[r] # << >>
    BY DEF WriteInv
  <2>3. (IF queue[r] = << >> THEN writing[r] + 1 ELSE writing[r])
          = IF r \in broken THEN 0 ELSE 1
    BY <2>1, <2>2
  <2> QED
    BY <1>1, <2>3
<1>5. queue' \in [Session -> Seq(Message)] /\ writing' \in [Session -> 0 .. 1]
      /\ out' \in [Session -> Seq(Session \X Message)]
  <2>1. queue' \in [Session -> Seq(Message)]
    BY <1>1, <1>3 DEF TypeOK
  <2>2. writing' \in [Session -> 0 .. 1]
    BY <1>4 DEF TypeOK
  <2>3. out' \in [Session -> Seq(Session \X Message)]
    BY <1>2, <1>3 DEF TypeOK
  <2> QED
    BY <2>1, <2>2, <2>3
<1>6. TypeOK'
  BY <1>2, <1>5 DEF TypeOK
<1>7. LineInv'
  BY <1>2 DEF LineInv, Tried
<1>8. WriteInv'
  BY <1>1, <1>2, <1>3, <1>4 DEF WriteInv, OneWrite, TypeOK
<1> QED
  BY <1>6, <1>7, <1>8

LEMMA WriteDoneStep ==
    ASSUME TypeInv, WriteInv, NEW r \in Session, WriteDone(r)
    PROVE  TypeInv' /\ WriteInv'
<1> USE DEF TypeInv
<1>1. writing[r] = IF queue[r] = << >> \/ r \in broken THEN 0 ELSE 1
  BY DEF WriteInv, OneWrite
<1>2. queue[r] # << >> /\ r \notin broken /\ writing[r] = 1
  BY <1>1 DEF WriteDone
<1>3. /\ Tail(queue[r]) \in Seq(Message)
      /\ Append(delivered[r], Head(queue[r])) \in Seq(Message)
  <2>1. queue[r] \in Seq(Message) /\ delivered[r] \in Seq(Message)
    BY DEF TypeOK
  <2> QED
    BY <1>2, <2>1, TailElements, AppendElements
<1>4. /\ queue' = [queue EXCEPT ![r] = Tail(@)]
      /\ delivered' = [delivered EXCEPT ![r] = Append(@, Head(queue[r]))]
      /\ UNCHANGED <<pc, line, out, holder, member, gone, broken, saved, lost, log,
                     start>>
  BY DEF WriteDone
<1>5. writing' = [writing EXCEPT ![r] = IF Tail(queue[r]) = << >> THEN 0 ELSE 1]
  BY <1>2 DEF WriteDone, TypeOK
<1>6. TypeOK'
  <2>1. queue' \in [Session -> Seq(Message)] /\ delivered' \in [Session -> Seq(Message)]
    BY <1>3, <1>4 DEF TypeOK
  <2>2. writing' \in [Session -> 0 .. 1]
    BY <1>5 DEF TypeOK
  <2> QED
    BY <1>4, <2>1, <2>2 DEF TypeOK
<1>7. LineInv'
  BY <1>4 DEF LineInv, Tried
<1>8. WriteInv'
  BY <1>2, <1>4, <1>5 DEF WriteInv, OneWrite, TypeOK
<1> QED
  BY <1>6, <1>7, <1>8

LEMMA WriteFailsStep ==
    ASSUME TypeInv, WriteInv, NEW r \in Session, WriteFails(r)
    PROVE  TypeInv' /\ WriteInv'
<1> USE DEF TypeInv
<1>1. writing[r] = IF queue[r] = << >> \/ r \in broken THEN 0 ELSE 1
  BY DEF WriteInv, OneWrite
<1>2. queue[r] # << >> /\ writing[r] = 1
  BY <1>1 DEF WriteFails
<1>3. /\ writing' = [writing EXCEPT ![r] = 0] /\ broken' = broken \cup {r}
      /\ UNCHANGED <<pc, line, out, holder, member, gone, queue, delivered,
                     saved, lost, log, start>>
  BY <1>2 DEF WriteFails, TypeOK
<1>4. TypeOK'
  BY <1>3 DEF TypeOK
<1>5. LineInv'
  BY <1>3 DEF LineInv, Tried
<1>6. WriteInv'
  BY <1>2, <1>3 DEF WriteInv, OneWrite, TypeOK
<1> QED
  BY <1>4, <1>5, <1>6

LEMMA DoneStep ==
    ASSUME TypeInv, NEW s \in Session, Done(s)
    PROVE  TypeInv'
<1>1. TypeOK'
  BY DEF Done, TypeInv, TypeOK
<1>2. LineInv'
  BY DEF Done, TypeInv, TypeOK, LineInv, Tried
<1> QED
  BY <1>1, <1>2 DEF TypeInv

(* The steps that leave the queues alone.                                  *)
LEMMA QueuesKept ==
    ASSUME WriteInv, UNCHANGED <<queue, writing, broken>>
    PROVE  WriteInv'
  BY DEF WriteInv, OneWrite

LEMMA FlowInductive ==
    ASSUME TypeInv, WriteInv, [Next]_vars
    PROVE  TypeInv' /\ WriteInv'
<1>1. ASSUME NEW s \in Session, ComeIn(s) \/ Leave(s)
      PROVE  TypeInv' /\ WriteInv'
  BY <1>1, MemberStep, QueuesKept DEF ComeIn, Leave
<1>2. ASSUME NEW s \in Session, ReadLine(s)
      PROVE  TypeInv' /\ WriteInv'
  BY <1>2, ReadStep, QueuesKept DEF ReadLine
<1>3. ASSUME NEW s \in Session, Save(s)
      PROVE  TypeInv' /\ WriteInv'
  BY <1>3, SaveStep, QueuesKept DEF Save
<1>4. ASSUME NEW s \in Session, Lock(s)
      PROVE  TypeInv' /\ WriteInv'
  BY <1>4, LockStep, QueuesKept DEF Lock
<1>5. ASSUME NEW s \in Session, Send(s)
      PROVE  TypeInv' /\ WriteInv'
  BY <1>5, SendStep
<1>6. ASSUME NEW s \in Session, Done(s)
      PROVE  TypeInv' /\ WriteInv'
  BY <1>6, DoneStep, QueuesKept DEF Done
<1>7. ASSUME NEW s \in Session, WriteDone(s) \/ WriteFails(s)
      PROVE  TypeInv' /\ WriteInv'
  BY <1>7, WriteDoneStep, WriteFailsStep
<1>8. CASE UNCHANGED vars
  BY <1>8 DEF vars, TypeInv, TypeOK, LineInv, WriteInv, OneWrite, Tried
<1> QED
  BY <1>1, <1>2, <1>3, <1>4, <1>5, <1>6, <1>7, <1>8 DEF Next, Handler

LEMMA FlowInit == Init => TypeInv /\ WriteInv
<1>1. Init => WriteInv
  BY DEF Init, WriteInv, OneWrite
<1> QED
  BY <1>1, TypeInit

(* Every variable of the flow keeps its type: in particular no session has *)
(* two writes under way (session.cpp:271-299).                             *)
THEOREM FlowTypeCorrect == Spec => []TypeOK
<1>1. TypeInv /\ WriteInv /\ [Next]_vars => (TypeInv /\ WriteInv)'
  BY FlowInductive
<1>2. TypeInv => TypeOK
  BY DEF TypeInv
<1> QED
  BY <1>1, <1>2, FlowInit, PTL DEF Spec

(* A write is under way exactly when there is something to write and none  *)
(* has failed, whatever handlers push into the queue meanwhile             *)
(* (session.cpp:271-299).                                                  *)
THEOREM OneWriteAtATime == Spec => []OneWrite
<1>1. TypeInv /\ WriteInv /\ [Next]_vars => (TypeInv /\ WriteInv)'
  BY FlowInductive
<1>2. WriteInv => OneWrite
  BY DEF WriteInv
<1> QED
  BY <1>1, <1>2, FlowInit, PTL DEF Spec

-----------------------------------------------------------------------------
(* Saved before seen *)

LEMMA AnswersAreNoLines ==
    ASSUME NEW kind, NEW to, NEW table
    PROVE  InTable([kind |-> kind, to |-> to], table)
  BY DEF InTable

(* The table only grows.                                                   *)
LEMMA TableGrows ==
    ASSUME NEW table, NEW larger, table \subseteq larger
    PROVE  /\ \A q : AllIn(q, table) => AllIn(q, larger)
           /\ \A o : GivenIn(o, table) => GivenIn(o, larger)
  BY DEF AllIn, GivenIn, InTable

LEMMA SavedElsewhere ==
    ASSUME SavedInv, Tried \subseteq Tried', UNCHANGED <<out, queue, delivered>>,
           \A s \in Session : pc'[s] \in {"lock", "send"} => line'[s] \in Tried'
    PROVE  SavedInv'
<1>1. /\ \A s \in Session : GivenIn(out[s], Tried')
      /\ \A s \in Session : AllIn(queue[s], Tried')
      /\ \A s \in Session : AllIn(delivered[s], Tried')
  BY TableGrows DEF SavedInv
<1> QED
  BY <1>1 DEF SavedInv

(* Queues: one more message, or one less.                                  *)
LEMMA AppendIn ==
    ASSUME NEW table, NEW q \in Seq(Message), NEW m \in Message,
           AllIn(q, table), InTable(m, table)
    PROVE  AllIn(Append(q, m), table)
<1>1. \A i \in DOMAIN Append(q, m) :
         Append(q, m)[i] = m \/ (i \in DOMAIN q /\ Append(q, m)[i] = q[i])
  BY AppendElements
<1> DEFINE longer == Append(q, m)
<1>2. \A i \in DOMAIN longer : longer[i] = m \/ (i \in DOMAIN q /\ longer[i] = q[i])
  BY <1>1
<1> HIDE DEF longer
<1>3. AllIn(longer, table)
  BY <1>2 DEF AllIn
<1> QED
  BY <1>3 DEF longer

LEMMA TailIn ==
    ASSUME NEW table, NEW q \in Seq(Message), q # << >>, AllIn(q, table)
    PROVE  AllIn(Tail(q), table) /\ InTable(Head(q), table) /\ Head(q) \in Message
  BY TailElements DEF AllIn

LEMMA TailGiven ==
    ASSUME NEW table, NEW o \in Seq(Session \X Message), o # << >>,
           GivenIn(o, table)
    PROVE  GivenIn(Tail(o), table) /\ InTable(Head(o)[2], table)
  BY TailElements DEF GivenIn

LEMMA SavedLock ==
    ASSUME TypeInv, SavedInv, NEW s \in Session, Lock(s)
    PROVE  SavedInv'
<1>1. /\ pc[s] = "lock" /\ pc' = [pc EXCEPT ![s] = "send"]
      /\ UNCHANGED <<line, queue, delivered, saved, lost>>
  BY DEF Lock
<1>2. line[s] \in Tried
  BY <1>1 DEF SavedInv
<1>3. InTable(line[s], Tried)
  BY <1>2 DEF InTable
<1>4. PICK o : out' = [out EXCEPT ![s] = o] /\ GivenIn(o, Tried)
  <2>1. CASE FanOut(s)
    <3>1. PICK order \in SetToSeqs(member \ {s}) :
            out' = [out EXCEPT ![s] =
                      [i \in DOMAIN order |-> <<order[i], line[s]>>]]
      BY <2>1 DEF FanOut
    <3>2. GivenIn([i \in DOMAIN order |-> <<order[i], line[s]>>], Tried)
      BY <1>3 DEF GivenIn
    <3> QED
      BY <3>1, <3>2
  <2>2. CASE Direct(s)
    <3> DEFINE to == line[s].to
               answer(kind) == <<s, [kind |-> kind, to |-> to]>>
               texts == <<<<to, line[s]>>, answer("sent")>>
               errors == <<answer("offline")>>
    <3>1. out' = [out EXCEPT ![s] = texts] \/ out' = [out EXCEPT ![s] = errors]
      BY <2>2 DEF Direct
    <3>2. InTable(answer("sent")[2], Tried) /\ InTable(answer("offline")[2], Tried)
      BY AnswersAreNoLines
    <3>3. GivenIn(texts, Tried)
      BY <1>3, <3>2 DEF GivenIn
    <3>4. GivenIn(errors, Tried)
      BY <3>2 DEF GivenIn
    <3> HIDE DEF texts, errors
    <3> QED
      BY <3>1, <3>3, <3>4
  <2> QED
    BY <2>1, <2>2 DEF Lock
<1>5. \A r \in Session : pc'[r] \in {"lock", "send"} => line'[r] \in Tried'
  BY <1>1, <1>2 DEF SavedInv, TypeInv, TypeOK, Tried
<1>6. \A r \in Session : GivenIn(out'[r], Tried')
  BY <1>1, <1>4 DEF SavedInv, TypeInv, TypeOK, Tried
<1> QED
  BY <1>1, <1>5, <1>6 DEF SavedInv, Tried

LEMMA SavedSend ==
    ASSUME TypeInv, SavedInv, NEW s \in Session, Send(s)
    PROVE  SavedInv'
<1>1. PICK r \in Session, m \in Message :
        /\ out[s] # << >> /\ m = Head(out[s])[2]
        /\ queue' = [queue EXCEPT ![r] = Append(@, m)]
  BY SendFacts
<1>2. /\ out' = [out EXCEPT ![s] = Tail(@)]
      /\ UNCHANGED <<pc, line, delivered, saved, lost>>
  BY DEF Send
<1>3. queue[r] \in Seq(Message) /\ out[s] \in Seq(Session \X Message)
  BY DEF TypeInv, TypeOK
<1>4. InTable(m, Tried) /\ GivenIn(Tail(out[s]), Tried)
  BY <1>1, <1>3, TailGiven DEF SavedInv
<1>5. AllIn(Append(queue[r], m), Tried)
  BY <1>3, <1>4, AppendIn DEF SavedInv
<1>6. \A x \in Session : AllIn(queue'[x], Tried')
  BY <1>1, <1>2, <1>5 DEF SavedInv, TypeInv, TypeOK, Tried
<1>7. \A x \in Session : GivenIn(out'[x], Tried')
  BY <1>2, <1>4 DEF SavedInv, TypeInv, TypeOK, Tried
<1> QED
  BY <1>2, <1>6, <1>7 DEF SavedInv, Tried

LEMMA SavedWrite ==
    ASSUME TypeInv, WriteInv, SavedInv, NEW r \in Session, WriteDone(r)
    PROVE  SavedInv'
<1>1. /\ queue' = [queue EXCEPT ![r] = Tail(@)]
      /\ delivered' = [delivered EXCEPT ![r] = Append(@, Head(queue[r]))]
      /\ UNCHANGED <<pc, line, out, saved, lost>>
  BY DEF WriteDone
<1>2. queue[r] \in Seq(Message) /\ delivered[r] \in Seq(Message)
  BY DEF TypeInv, TypeOK
<1>3. queue[r] # << >>
  <2>1. writing[r] = IF queue[r] = << >> \/ r \in broken THEN 0 ELSE 1
    BY DEF WriteInv, OneWrite
  <2> QED
    BY <2>1 DEF WriteDone
<1>4. /\ AllIn(Tail(queue[r]), Tried) /\ InTable(Head(queue[r]), Tried)
      /\ Head(queue[r]) \in Message
  BY <1>2, <1>3, TailIn DEF SavedInv
<1>5. AllIn(Append(delivered[r], Head(queue[r])), Tried)
  BY <1>2, <1>4, AppendIn DEF SavedInv
<1>6. \A x \in Session : AllIn(queue'[x], Tried')
  BY <1>1, <1>4 DEF SavedInv, TypeInv, TypeOK, Tried
<1>7. \A x \in Session : AllIn(delivered'[x], Tried')
  BY <1>1, <1>5 DEF SavedInv, TypeInv, TypeOK, Tried
<1> QED
  BY <1>1, <1>6, <1>7 DEF SavedInv, Tried

LEMMA SavedInductive ==
    ASSUME TypeInv, WriteInv, SavedInv, [Next]_vars
    PROVE  SavedInv'
<1>1. ASSUME NEW s \in Session, ComeIn(s) \/ Leave(s) \/ ReadLine(s) \/ Done(s)
      PROVE  SavedInv'
  <2>1. Tried' = Tried /\ UNCHANGED <<out, queue, delivered>>
    BY <1>1 DEF ComeIn, Leave, ReadLine, Done, Tried
  <2>2. \A r \in Session : pc'[r] \in {"lock", "send"} => line'[r] \in Tried'
    BY <1>1, <2>1 DEF ComeIn, Leave, ReadLine, Done, SavedInv, TypeInv, TypeOK
  <2> QED
    BY <2>1, <2>2, SavedElsewhere
<1>2. ASSUME NEW s \in Session, Save(s)
      PROVE  SavedInv'
  <2>1. Tried' = Tried \cup {line[s]} /\ UNCHANGED <<line, out, queue, delivered>>
    BY <1>2 DEF Save, Tried
  <2>2. \A r \in Session : pc'[r] \in {"lock", "send"} => line'[r] \in Tried'
    BY <1>2, <2>1 DEF Save, SavedInv, TypeInv, TypeOK
  <2> QED
    BY <2>1, <2>2, SavedElsewhere
<1>3. ASSUME NEW s \in Session, WriteFails(s)
      PROVE  SavedInv'
  <2>1. UNCHANGED <<pc, line, saved, lost, out, queue, delivered>>
    BY <1>3 DEF WriteFails
  <2> QED
    BY <2>1, SavedElsewhere DEF SavedInv, Tried
<1>4. CASE UNCHANGED vars
  <2>1. UNCHANGED <<pc, line, saved, lost, out, queue, delivered>>
    BY <1>4 DEF vars
  <2> QED
    BY <2>1, SavedElsewhere DEF SavedInv, Tried
<1> QED
  BY <1>1, <1>2, <1>3, <1>4, SavedLock, SavedSend, SavedWrite DEF Next, Handler

(* Nobody sees a line before its insertion was tried: whatever is seen is  *)
(* in the table or has failed to get there, however long it waits in queues*)
(* and whoever hands it over (session.cpp:245,248 and 262,266).            *)
THEOREM SavedFirst == Spec => []SavedBeforeSeen
<1>1. Init => SavedInv
  BY DEF Init, SavedInv, AllIn, GivenIn
<1>2. TypeInv /\ WriteInv /\ SavedInv /\ [Next]_vars
        => (TypeInv /\ WriteInv /\ SavedInv)'
  BY FlowInductive, SavedInductive
<1>3. SavedInv => SavedBeforeSeen
  BY DEF SavedInv, SavedBeforeSeen, AllIn, InTable
<1> QED
  BY <1>1, <1>2, <1>3, FlowInit, PTL DEF Spec
=============================================================================
