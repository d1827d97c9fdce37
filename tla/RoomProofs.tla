----------------------------- MODULE RoomProofs -----------------------------
(***************************************************************************)
(* Theorems about MessageFlow, for any sessions and any number of lines:   *)
(* it implements ChatRoom, and private messages are private.  Both are     *)
(* about what is kept of a queue when it is filtered, so the module begins *)
(* with what Filter promises.                                              *)
(***************************************************************************)
EXTENDS MessageFlowProofs, WellFoundedInduction

(* The log is written under the mutex: who holds it is the only one that   *)
(* has something to hand over.  A handler works on a line of its session.  *)
LockInv ==
    /\ \A s \in Session : pc[s] = "send" <=> holder = s
    /\ \A s \in Session : pc[s] # "send" => out[s] = << >>
    /\ \A s \in Session : pc[s] # "idle" => line[s].from = s

(* What a broadcast has still to do: each one in the room once at most.    *)
IsFanOut(o, b, to) ==
    /\ \A i \in DOMAIN o : o[i][1] \in to /\ o[i][2] = b
    /\ \A i, j \in DOMAIN o : i # j => o[i][1] # o[j][1]
IsDirect(o) == \A i \in DOMAIN o : o[i][2] \notin Broadcast
FanOutInv ==
    \A s \in Session :
        pc[s] = "send" => IF line[s] \in Broadcast
                          THEN IsFanOut(out[s], line[s], member \ {s})
                          ELSE IsDirect(out[s])

(* A session is in the log from when it comes in.                          *)
StartInv ==
    /\ \A r \in Session : start[r] <= Len(log) + 1
    /\ \A r \in Session : start[r] = 0 <=> r \notin member \cup gone

(* Whoever has not gone was given what it is to hear of the log, but for   *)
(* the broadcast under way if that has still to come to it.                *)
Targets(o) == {o[i][1] : i \in DOMAIN o}
Awaits(r) ==
    \E s \in Session : holder = s /\ line[s] \in Broadcast /\ r \in Targets(out[s])
StreamInv ==
    \A r \in Session \ gone :
        LET all == Only(Given(r), Broadcast)
        IN Room!Stream(r) = IF Awaits(r) THEN Append(all, line[holder]) ELSE all

RoomInv == LockInv /\ FanOutInv /\ StartInv /\ StreamInv

(* Private texts are in the hands of their recipients only.                *)
Mine(m, r) == m.kind = "private" => m.to = r
MineInv ==
    /\ \A s \in Session : \A i \in DOMAIN out[s] : Mine(out[s][i][2], out[s][i][1])
    /\ \A s \in Session : \A i \in DOMAIN queue[s] : Mine(queue[s][i], s)
    /\ \A s \in Session : \A i \in DOMAIN delivered[s] : Mine(delivered[s][i], s)

(* A confirmation is on its way behind the text, or the text was handed    *)
(* over and not yet confirmed.                                             *)
Confirmed(s, to) == Len(Only(Given(s), Confirmations(to)))
Handed(s, to) == Len(Only(Given(to), Texts(s)))
Sent(to) == [kind |-> "sent", to |-> to]
NoConfirmation(o) == \A i \in DOMAIN o : o[i][2].kind # "sent"
TextFirst(s, o) ==
    \E to \in Session : \E t \in Texts(s) : o = <<<<to, t>>, <<s, Sent(to)>>>>
CountInv ==
    /\ \A s, to \in Session : Confirmed(s, to) <= Handed(s, to)
    /\ \A s \in Session :
          \/ NoConfirmation(out[s])
          \/ TextFirst(s, out[s])
          \/ \E to \in Session : /\ out[s] = <<<<s, Sent(to)>>>>
                                 /\ Confirmed(s, to) < Handed(s, to)

PrivateInv == MineInv /\ CountInv

-----------------------------------------------------------------------------
Below == {ss \in Nat \X Nat : ss[1] < ss[2]}

(* Induction over the natural numbers, for a set: the rule of the library  *)
(* is about an operator, which the provers cannot instantiate.             *)
LEMMA BelowWellFounded == IsWellFoundedOn(Below, Nat)
BY NatLessThanWellFounded, Zenon DEF OpToRel, Below

LEMMA Induction ==
    ASSUME NEW S, 0 \in S, \A n \in Nat : n \in S => n + 1 \in S
    PROVE  Nat \subseteq S
<1> DEFINE left == Nat \ S
<1>1. SUFFICES ASSUME left # {} PROVE FALSE
  OBVIOUS
<1>3. left \subseteq Nat
  OBVIOUS
<1> HIDE DEF left
<1>4. PICK x \in left : \A y \in left : <<y, x>> \notin Below
  BY <1>1, <1>3, BelowWellFounded, WFMin
<1> USE DEF left
<1>5. x \in Nat /\ x \notin S /\ x # 0
  BY <1>4
<1>6. x - 1 \in Nat /\ x - 1 + 1 = x
  BY <1>5
<1>7. x - 1 \notin S
  BY <1>5, <1>6
<1>8. <<x - 1, x>> \in Below
  BY <1>5, <1>6 DEF Below
<1> QED
  BY <1>4, <1>6, <1>7, <1>8

More(q, T, n, h) == IF q[n] \in T THEN Append(h, q[n]) ELSE h
Scans(f, q, T, n) ==
    \A i \in 0 .. n : f[i] = IF i = 0 THEN << >> ELSE More(q, T, i, f[i - 1])

(* A recursive definition is a choice: that there is something to choose   *)
(* takes the values of Only for ever longer beginnings of the sequence.    *)
LEMMA ScanExists ==
    ASSUME NEW q, NEW T
    PROVE  \A n \in Nat : \E f : Scans(f, q, T, n)
<1> DEFINE S == {n \in Nat : \E f : Scans(f, q, T, n)}
<1>1. 0 \in S
  <2>1. Scans([i \in {0} |-> << >>], q, T, 0)
    BY DEF Scans
  <2> QED
    BY <2>1
<1>2. ASSUME NEW n \in Nat, n \in S PROVE n + 1 \in S
  <2>1. PICK f : Scans(f, q, T, n)
    BY <1>2
  <2> DEFINE g == [i \in 0 .. n + 1 |-> IF i = n + 1 THEN More(q, T, n + 1, f[n])
                                        ELSE f[i]]
  <2>2. \A i \in 0 .. n : g[i] = f[i]
    OBVIOUS
  <2>3. g[n + 1] = More(q, T, n + 1, f[n])
    OBVIOUS
  <2> HIDE DEF g
  <2>4. ASSUME NEW i \in 0 .. n + 1
        PROVE  g[i] = IF i = 0 THEN << >> ELSE More(q, T, i, g[i - 1])
    <3>1. CASE i = 0
      BY <2>1, <2>2, <3>1 DEF Scans
    <3>2. CASE i \in 1 .. n
      <4>1. i \in 0 .. n /\ i - 1 \in 0 .. n /\ i # 0
        BY <3>2
      <4>2. f[i] = More(q, T, i, f[i - 1])
        BY <2>1, <4>1 DEF Scans
      <4> QED
        BY <2>2, <4>1, <4>2
    <3>3. CASE i = n + 1
      <4>1. i # 0 /\ i - 1 = n /\ n \in 0 .. n
        BY <3>3
      <4> QED
        BY <2>2, <2>3, <3>3, <4>1
    <3> QED
      BY <3>1, <3>2, <3>3
  <2>5. Scans(g, q, T, n + 1)
    BY <2>4 DEF Scans
  <2> QED
    BY <2>5
<1> HIDE DEF S
<1>3. Nat \subseteq S
  BY <1>1, <1>2, Induction
<1> QED
  BY <1>3 DEF S

LEMMA ScanUnique ==
    ASSUME NEW q, NEW T, NEW n \in Nat, NEW k \in Nat, NEW f, NEW g,
           Scans(f, q, T, n), Scans(g, q, T, k)
    PROVE  \A i \in Nat : i <= n /\ i <= k => f[i] = g[i]
<1> DEFINE S == {i \in Nat : i <= n /\ i <= k => f[i] = g[i]}
<1>1. 0 \in S
  BY DEF Scans
<1>2. ASSUME NEW i \in Nat, i \in S PROVE i + 1 \in S
  <2>1. SUFFICES ASSUME i + 1 <= n, i + 1 <= k PROVE f[i + 1] = g[i + 1]
    OBVIOUS
  <2>2. i + 1 \in 0 .. n /\ i + 1 \in 0 .. k /\ i + 1 # 0 /\ i + 1 - 1 = i
    BY <2>1
  <2>3. f[i] = g[i]
    BY <1>2, <2>1
  <2>4. f[i + 1] = More(q, T, i + 1, f[i])
    BY <2>2 DEF Scans
  <2>5. g[i + 1] = More(q, T, i + 1, g[i])
    BY <2>2 DEF Scans
  <2> QED
    BY <2>3, <2>4, <2>5
<1> HIDE DEF S
<1>3. Nat \subseteq S
  BY <1>1, <1>2, Induction
<1> QED
  BY <1>3 DEF S

Scan(q, T) ==
    CHOOSE f : f = [n \in Nat |-> IF n = 0 THEN << >>
                                  ELSE IF q[n] \in T THEN Append(f[n - 1], q[n])
                                       ELSE f[n - 1]]

LEMMA OnlyIsScan ==
    ASSUME NEW q, NEW T
    PROVE  Only(q, T) = Scan(q, T)[Len(q)]
BY DEF Only, Scan

(* The equations of the recursion.                                         *)
LEMMA ScanSteps ==
    ASSUME NEW q, NEW T
    PROVE  /\ Scan(q, T)[0] = << >>
           /\ \A n \in Nat : Scan(q, T)[n + 1] = More(q, T, n + 1, Scan(q, T)[n])
<1> DEFINE upTo(n) == CHOOSE f : Scans(f, q, T, n)
           whole == [n \in Nat |-> upTo(n)[n]]
           step(f, n) == IF n = 0 THEN << >>
                         ELSE IF q[n] \in T THEN Append(f[n - 1], q[n])
                              ELSE f[n - 1]
<1>1. \A n \in Nat : Scans(upTo(n), q, T, n)
  BY ScanExists
<1> HIDE DEF upTo
<1>2. ASSUME NEW n \in Nat PROVE whole[n] = step(whole, n)
  <2>1. CASE n = 0
    BY <1>1, <2>1 DEF Scans
  <2>2. CASE n # 0
    <3>1. n - 1 \in Nat /\ n \in 0 .. n /\ n - 1 <= n - 1 /\ n - 1 <= n
      BY <2>2
    <3>2. upTo(n)[n] = More(q, T, n, upTo(n)[n - 1])
      BY <1>1, <2>2, <3>1 DEF Scans
    <3>3. upTo(n)[n - 1] = upTo(n - 1)[n - 1]
      BY <1>1, <3>1, ScanUnique
    <3>4. whole[n] = upTo(n)[n] /\ whole[n - 1] = upTo(n - 1)[n - 1]
      BY <3>1
    <3> HIDE DEF whole
    <3> QED
      BY <2>2, <3>2, <3>3, <3>4 DEF More
  <2> QED
    BY <2>1, <2>2
<1>3. whole = [n \in Nat |-> step(whole, n)]
  <2>1. \A n \in Nat : whole[n] = step(whole, n)
    BY <1>2
  <2>2. whole = [n \in Nat |-> whole[n]]
    OBVIOUS
  <2> HIDE DEF whole, step
  <2> QED
    BY <2>1, <2>2
<1> HIDE DEF whole
<1>4. Scan(q, T) = [n \in Nat |-> step(Scan(q, T), n)]
  BY <1>3 DEF Scan
<1>5. \A n \in Nat : Scan(q, T)[n] = step(Scan(q, T), n)
  BY <1>4
<1>6. \A n \in Nat : n + 1 \in Nat /\ n + 1 # 0 /\ n + 1 - 1 = n
  OBVIOUS
<1>7. Scan(q, T)[0] = << >>
  BY <1>5
<1>8. ASSUME NEW n \in Nat
      PROVE  Scan(q, T)[n + 1] = More(q, T, n + 1, Scan(q, T)[n])
  <2>1. Scan(q, T)[n + 1] = step(Scan(q, T), n + 1)
    BY <1>5, <1>6
  <2> QED
    BY <2>1, <1>6 DEF More
<1> QED
  BY <1>7, <1>8

(* What follows by induction over the length.                              *)
LEMMA ScanType ==
    ASSUME NEW S, NEW q \in Seq(S), NEW T
    PROVE  \A n \in 0 .. Len(q) : Scan(q, T)[n] \in Seq(S \cap T)
<1> DEFINE C == {n \in Nat : n <= Len(q) => Scan(q, T)[n] \in Seq(S \cap T)}
<1>1. 0 \in C
  <2>1. Scan(q, T)[0] = << >>
    BY ScanSteps
  <2>2. << >> \in Seq(S \cap T)
    OBVIOUS
  <2>3. Scan(q, T)[0] \in Seq(S \cap T)
    BY <2>1, <2>2
  <2> QED
    BY <2>3
<1>2. ASSUME NEW n \in Nat, n \in C PROVE n + 1 \in C
  <2>1. SUFFICES ASSUME n + 1 <= Len(q)
                 PROVE  Scan(q, T)[n + 1] \in Seq(S \cap T)
    OBVIOUS
  <2>2. Scan(q, T)[n] \in Seq(S \cap T)
    BY <1>2, <2>1
  <2>3. q[n + 1] \in S
    BY <2>1
  <2>4. Scan(q, T)[n + 1] = More(q, T, n + 1, Scan(q, T)[n])
    BY ScanSteps
  <2> QED
    BY <2>2, <2>3, <2>4, AppendProperties DEF More
<1> HIDE DEF C
<1>3. Nat \subseteq C
  BY <1>1, <1>2, Induction
<1> QED
  BY <1>3 DEF C

LEMMA ScanSame ==
    ASSUME NEW q, NEW p, NEW T, NEW n \in Nat, \A i \in 1 .. n : q[i] = p[i]
    PROVE  Scan(q, T)[n] = Scan(p, T)[n]
<1> DEFINE C == {i \in Nat : i <= n => Scan(q, T)[i] = Scan(p, T)[i]}
<1>1. 0 \in C
  BY ScanSteps
<1>2. ASSUME NEW i \in Nat, i \in C PROVE i + 1 \in C
  <2>1. SUFFICES ASSUME i + 1 <= n PROVE Scan(q, T)[i + 1] = Scan(p, T)[i + 1]
    OBVIOUS
  <2>2. q[i + 1] = p[i + 1] /\ Scan(q, T)[i] = Scan(p, T)[i]
    BY <1>2, <2>1
  <2>3. /\ Scan(q, T)[i + 1] = More(q, T, i + 1, Scan(q, T)[i])
        /\ Scan(p, T)[i + 1] = More(p, T, i + 1, Scan(p, T)[i])
    BY ScanSteps
  <2> QED
    BY <2>2, <2>3 DEF More
<1> HIDE DEF C
<1>3. Nat \subseteq C
  BY <1>1, <1>2, Induction
<1> QED
  BY <1>3 DEF C

Begins(p, q) == Len(p) <= Len(q) /\ \A i \in 1 .. Len(p) : p[i] = q[i]

LEMMA ScanGrows ==
    ASSUME NEW S, NEW q \in Seq(S), NEW T, NEW n \in 0 .. Len(q)
    PROVE  Begins(Scan(q, T)[n], Scan(q, T)[Len(q)])
<1> DEFINE C == {j \in Nat : n + j <= Len(q) =>
                                 Begins(Scan(q, T)[n], Scan(q, T)[n + j])}
<1>1. 0 \in C
  <2>1. Scan(q, T)[n] \in Seq(S \cap T) /\ n + 0 = n
    BY ScanType
  <2> QED
    BY <2>1 DEF Begins
<1>2. ASSUME NEW j \in Nat, j \in C PROVE j + 1 \in C
  <2>1. SUFFICES ASSUME n + (j + 1) <= Len(q)
                 PROVE  Begins(Scan(q, T)[n], Scan(q, T)[n + (j + 1)])
    OBVIOUS
  <2>2. n + j \in Nat /\ n + j \in 0 .. Len(q) /\ n + (j + 1) = (n + j) + 1
    BY <2>1
  <2>3. Begins(Scan(q, T)[n], Scan(q, T)[n + j])
    BY <1>2, <2>2
  <2>4. /\ Scan(q, T)[n] \in Seq(S \cap T)
        /\ Scan(q, T)[n + j] \in Seq(S \cap T)
    BY <2>2, ScanType
  <2>5. q[(n + j) + 1] \in S
    BY <2>1, <2>2
  <2>6. Scan(q, T)[(n + j) + 1] = More(q, T, (n + j) + 1, Scan(q, T)[n + j])
    BY <2>2, ScanSteps
  <2> DEFINE short == Scan(q, T)[n]
             long == Scan(q, T)[n + j]
             e == q[(n + j) + 1]
  <2> HIDE DEF short, long, e
  <2>7. Begins(short, long) /\ short \in Seq(S \cap T) /\ long \in Seq(S \cap T)
    BY <2>3, <2>4 DEF short, long
  <2>8. ASSUME e \in T PROVE Begins(short, Append(long, e))
    <3>1. /\ Len(Append(long, e)) = Len(long) + 1
          /\ \A i \in 1 .. Len(long) : Append(long, e)[i] = long[i]
      BY <2>5, <2>7, <2>8, AppendProperties DEF e
    <3>2. Len(long) \in Nat /\ Len(short) \in Nat
      BY <2>7
    <3> QED
      BY <2>7, <3>1, <3>2 DEF Begins
  <2> QED
    BY <2>2, <2>6, <2>7, <2>8 DEF More, short, long, e
<1> HIDE DEF C
<1>3. Nat \subseteq C
  BY <1>1, <1>2, Induction
<1>4. /\ Len(q) - n \in Nat /\ n + (Len(q) - n) = Len(q)
      /\ n + (Len(q) - n) <= Len(q)
  OBVIOUS
<1>5. Len(q) - n \in C
  BY <1>3, <1>4
<1>6. Begins(Scan(q, T)[n], Scan(q, T)[n + (Len(q) - n)])
  BY <1>4, <1>5 DEF C
<1> QED
  BY <1>4, <1>6

(* What Only does with a sequence.                                         *)
LEMMA OnlyEmpty ==
    ASSUME NEW T
    PROVE  Only(<< >>, T) = << >>
BY OnlyIsScan, ScanSteps

LEMMA OnlyType ==
    ASSUME NEW S, NEW q \in Seq(S), NEW T
    PROVE  Only(q, T) \in Seq(S \cap T)
BY OnlyIsScan, ScanType

LEMMA OnlyAppend ==
    ASSUME NEW S, NEW q \in Seq(S), NEW e \in S, NEW T
    PROVE  Only(Append(q, e), T) = IF e \in T THEN Append(Only(q, T), e)
                                   ELSE Only(q, T)
<1> DEFINE longer == Append(q, e)
<1>1. /\ Len(longer) = Len(q) + 1 /\ longer[Len(q) + 1] = e
      /\ \A i \in 1 .. Len(q) : longer[i] = q[i]
  BY AppendProperties
<1>2. Len(q) \in Nat
  OBVIOUS
<1> HIDE DEF longer
<1>3. Scan(longer, T)[Len(q)] = Scan(q, T)[Len(q)]
  BY <1>1, <1>2, ScanSame
<1>4. Scan(longer, T)[Len(q) + 1] =
        More(longer, T, Len(q) + 1, Scan(longer, T)[Len(q)])
  BY <1>2, ScanSteps
<1>5. Only(longer, T) = IF e \in T THEN Append(Only(q, T), e) ELSE Only(q, T)
  BY <1>1, <1>3, <1>4, OnlyIsScan DEF More
<1> QED
  BY <1>5 DEF longer

(* What is kept of the beginning of a sequence begins what is kept of it.  *)
LEMMA OnlyBegins ==
    ASSUME NEW S, NEW q \in Seq(S), NEW p \in Seq(S), Begins(p, q), NEW T
    PROVE  Begins(Only(p, T), Only(q, T))
<1> DEFINE n == Len(p)
<1>1. n \in 0 .. Len(q) /\ n \in Nat /\ \A i \in 1 .. n : p[i] = q[i]
  BY DEF Begins
<1> HIDE DEF n
<1>2. Scan(p, T)[n] = Scan(q, T)[n]
  <2>1. n \in Nat /\ \A i \in 1 .. n : p[i] = q[i]
    BY <1>1
  <2> QED
    BY ONLY <2>1, ScanSame
<1>3. Begins(Scan(q, T)[n], Scan(q, T)[Len(q)])
  BY <1>1, ScanGrows
<1> QED
  BY <1>2, <1>3, OnlyIsScan DEF n

-----------------------------------------------------------------------------
(* Sequences put together and cut.                                         *)
LEMMA ConcatAppend ==
    ASSUME NEW S, NEW p \in Seq(S), NEW q \in Seq(S), NEW e \in S
    PROVE  p \o Append(q, e) = Append(p \o q, e)
  OBVIOUS

LEMMA ConcatShift ==
    ASSUME NEW S, NEW p \in Seq(S), NEW q \in Seq(S), q # << >>
    PROVE  /\ Append(p, Head(q)) \o Tail(q) = p \o q
           /\ Begins(Append(p, Head(q)), p \o q)
<1>1. Append(p, Head(q)) \o Tail(q) = p \o q
  OBVIOUS
<1>2. Begins(Append(p, Head(q)), p \o q)
  BY DEF Begins
<1> QED
  BY <1>1, <1>2

LEMMA SubSeqAppend ==
    ASSUME NEW S, NEW q \in Seq(S), NEW e \in S, NEW i \in Nat,
           i # 0, i <= Len(q) + 1
    PROVE  /\ SubSeq(q, i, Len(q)) \in Seq(S)
           /\ SubSeq(Append(q, e), i, Len(Append(q, e)))
                = Append(SubSeq(q, i, Len(q)), e)
  OBVIOUS

LEMMA SubSeqEnd ==
    ASSUME NEW S, NEW q \in Seq(S)
    PROVE  SubSeq(q, Len(q) + 1, Len(q)) = << >>
  OBVIOUS
(* The Only of ChatRoom is the one of MessageFlow.                         *)
LEMMA RoomOnly ==
    ASSUME NEW q, NEW T
    PROVE  Room!Only(q, T) = Only(q, T)
  BY DEF Room!Only, Only

(* What r is to hear of log l when it came in at place at.                 *)
Others(r) == [kind : {"say"}, from : Session \ {r}, line : LineNo]
StreamOf(l, at, r) ==
    IF at = 0 THEN << >> ELSE Only(SubSeq(l, at, Len(l)), Others(r))

LEMMA StreamIs ==
    ASSUME NEW r
    PROVE  /\ Room!Stream(r) = StreamOf(log, start[r], r)
           /\ Room!Stream(r)' = StreamOf(log', start'[r], r)
  BY RoomOnly DEF StreamOf, Others, Room!Stream, Room!Said, Room!NotIn

LEMMA StreamGrows ==
    ASSUME NEW l \in Seq(Broadcast), NEW at \in Nat, at # 0, at <= Len(l) + 1,
           NEW b \in Broadcast, NEW r
    PROVE  StreamOf(Append(l, b), at, r) =
             IF b.from = r THEN StreamOf(l, at, r)
             ELSE Append(StreamOf(l, at, r), b)
<1> DEFINE part == SubSeq(l, at, Len(l))
<1>1. /\ part \in Seq(Broadcast)
      /\ SubSeq(Append(l, b), at, Len(Append(l, b))) = Append(part, b)
  BY SubSeqAppend
<1>2. b \in Others(r) <=> b.from # r
  BY DEF Others, Broadcast
<1> HIDE DEF part
<1>3. Only(Append(part, b), Others(r)) =
        IF b \in Others(r) THEN Append(Only(part, Others(r)), b)
        ELSE Only(part, Others(r))
  BY <1>1, OnlyAppend
<1> QED
  BY <1>1, <1>2, <1>3 DEF StreamOf, part

LEMMA StreamBegins ==
    ASSUME NEW l \in Seq(Broadcast), NEW r
    PROVE  StreamOf(l, Len(l) + 1, r) = << >>
  BY SubSeqEnd, OnlyEmpty DEF StreamOf

-----------------------------------------------------------------------------
(* The queues of a session and its peer are one sequence, to which Push    *)
(* adds and which a write leaves as it is.                                 *)
LEMMA GivenType ==
    ASSUME TypeInv, NEW r \in Session
    PROVE  /\ delivered[r] \in Seq(Message) /\ queue[r] \in Seq(Message)
           /\ Given(r) \in Seq(Message)
  BY DEF TypeInv, TypeOK, Given

LEMMA GivenPush ==
    ASSUME TypeInv, NEW r \in Session, NEW m \in Message,
           queue' = [queue EXCEPT ![r] = Append(@, m)], UNCHANGED delivered
    PROVE  \A x \in Session : Given(x)' = IF x = r THEN Append(Given(x), m)
                                          ELSE Given(x)
<1>1. delivered[r] \in Seq(Message) /\ queue[r] \in Seq(Message)
  BY GivenType
<1> DEFINE p == delivered[r]
           q == queue[r]
<1>2. p \o Append(q, m) = Append(p \o q, m)
  <2>1. p \in Seq(Message) /\ q \in Seq(Message)
    BY <1>1
  <2> HIDE DEF p, q
  <2> QED
    BY <2>1, ConcatAppend
<1>3. \A x \in Session : /\ queue'[x] = IF x = r THEN Append(queue[x], m) ELSE queue[x]
                         /\ delivered'[x] = delivered[x]
  BY DEF TypeInv, TypeOK
<1>4. ASSUME NEW x \in Session
      PROVE  delivered'[x] \o queue'[x] = IF x = r THEN Append(delivered[x] \o queue[x], m)
                                          ELSE delivered[x] \o queue[x]
  <2>1. CASE x = r
    BY <1>2, <1>3, <2>1
  <2>2. CASE x # r
    <3>1. queue'[x] = queue[x] /\ delivered'[x] = delivered[x]
      BY <1>3, <2>2
    <3>2. delivered'[x] \o queue'[x] = delivered[x] \o queue[x]
      BY <3>1
    <3> HIDE DEF p, q
    <3> QED
      BY <2>2, <3>2
  <2> QED
    BY <2>1, <2>2
<1> QED
  BY <1>4 DEF Given

LEMMA GivenWritten ==
    ASSUME TypeInv, WriteInv, NEW r \in Session, WriteDone(r)
    PROVE  /\ queue[r] # << >> /\ Head(queue[r]) \in Message
           /\ \A x \in Session : Given(x)' = Given(x)
           /\ delivered' = [delivered EXCEPT ![r] = Append(@, Head(queue[r]))]
           /\ Begins(Append(delivered[r], Head(queue[r])), Given(r))
<1>1. delivered[r] \in Seq(Message) /\ queue[r] \in Seq(Message)
  BY GivenType
<1>2. queue[r] # << >>
  <2>1. writing[r] = IF queue[r] = << >> \/ r \in broken THEN 0 ELSE 1
    BY DEF WriteInv, OneWrite
  <2> QED
    BY <2>1 DEF WriteDone
<1>3. /\ Append(delivered[r], Head(queue[r])) \o Tail(queue[r])
           = delivered[r] \o queue[r]
      /\ Begins(Append(delivered[r], Head(queue[r])), delivered[r] \o queue[r])
  BY <1>1, <1>2, ConcatShift
<1>4. Head(queue[r]) \in Message
  BY <1>1, <1>2
<1>5. /\ queue' = [queue EXCEPT ![r] = Tail(@)]
      /\ delivered' = [delivered EXCEPT ![r] = Append(@, Head(queue[r]))]
  BY DEF WriteDone
<1>6. ASSUME NEW x \in Session
      PROVE  Given(x)' = Given(x)
  <2>1. /\ queue'[x] = IF x = r THEN Tail(queue[x]) ELSE queue[x]
        /\ delivered'[x] = IF x = r THEN Append(delivered[x], Head(queue[x]))
                           ELSE delivered[x]
    BY <1>5 DEF TypeInv, TypeOK
  <2> QED
    BY <1>3, <2>1 DEF Given
<1> QED
  BY <1>2, <1>3, <1>4, <1>5, <1>6 DEF Given

-----------------------------------------------------------------------------
(* The order in which the hash map is walked reaches everybody once.       *)
LEMMA FanOutReaches ==
    ASSUME NEW S, IsFiniteSet(S), NEW order \in SetToSeqs(S), NEW b
    PROVE  /\ IsFanOut([i \in DOMAIN order |-> <<order[i], b>>], b, S)
           /\ Targets([i \in DOMAIN order |-> <<order[i], b>>]) = S
<1> DEFINE n == Cardinality(S)
           o == [i \in DOMAIN order |-> <<order[i], b>>]
<1>1. /\ n \in Nat /\ order \in [1 .. n -> S]
      /\ \A i, j \in 1 .. n : i # j => order[i] # order[j]
  BY FS_CardinalityType DEF SetToSeqs
<1>2. order \in Injection(1 .. n, S)
  BY <1>1 DEF Injection, IsInjective
<1>3. Cardinality(1 .. n) = n
  BY <1>1, FS_Interval
<1>4. order \in Surjection(1 .. n, S)
  BY <1>2, <1>3, FS_Injection
<1>5. \A x \in S : \E i \in 1 .. n : order[i] = x
  BY <1>4 DEF Surjection
<1> HIDE DEF n
<1>6. DOMAIN order = 1 .. n
  BY <1>1
<1>7. /\ DOMAIN o = 1 .. n
      /\ \A i \in 1 .. n : o[i][1] = order[i] /\ o[i][2] = b
  BY <1>6
<1> HIDE DEF o
<1>8. IsFanOut(o, b, S)
  BY <1>1, <1>7 DEF IsFanOut
<1>9. Targets(o) = S
  BY <1>1, <1>5, <1>7 DEF Targets
<1> QED
  BY <1>8, <1>9 DEF o

-----------------------------------------------------------------------------
(* What the handlers have to hand over *)

(* The kinds of a message tell what it is.                                 *)
LEMMA KindsTell ==
    /\ \A m \in Lined : m \in Broadcast <=> m.kind = "say"
    /\ \A m \in Lined : m \in PrivateText <=> m.kind = "private"
    /\ \A m : m.kind # "say" => m \notin Broadcast
    /\ Broadcast \subseteq Message
  BY DEF Lined, Broadcast, PrivateText, Message

(* What Lock takes up: a broadcast to the others, or nothing of the kind.  *)
LEMMA LockOut ==
    ASSUME TypeInv, NEW s \in Session, Lock(s)
    PROVE  \E o :
             /\ out' = [out EXCEPT ![s] = o]
             /\ \/ /\ line[s] \in Broadcast
                   /\ log' = Append(log, line[s])
                   /\ IsFanOut(o, line[s], member \ {s})
                   /\ Targets(o) = member \ {s}
                \/ /\ line[s] \notin Broadcast
                   /\ log' = log
                   /\ IsDirect(o)
<1>1. line[s] \in Lined
  BY DEF Lock, TypeInv, LineInv
<1>2. CASE FanOut(s)
  <2>1. PICK order \in SetToSeqs(member \ {s}) :
          out' = [out EXCEPT ![s] = [i \in DOMAIN order |-> <<order[i], line[s]>>]]
    BY <1>2 DEF FanOut
  <2>2. IsFiniteSet(member \ {s})
    BY FS_RemoveElement DEF TypeInv, LineInv
  <2>3. line[s] \in Broadcast /\ log' = Append(log, line[s])
    BY <1>1, <1>2, KindsTell DEF FanOut
  <2> QED
    BY <2>1, <2>2, <2>3, FanOutReaches
<1>3. CASE Direct(s)
  <2> DEFINE to == line[s].to
             answer(kind) == <<s, [kind |-> kind, to |-> to]>>
             texts == <<<<to, line[s]>>, answer("sent")>>
             errors == <<answer("offline")>>
  <2>1. out' = [out EXCEPT ![s] = texts] \/ out' = [out EXCEPT ![s] = errors]
    BY <1>3 DEF Direct
  <2>2. line[s].kind = "private" /\ line[s] \notin Broadcast /\ log' = log
    BY <1>3, KindsTell DEF Direct
  <2>3. /\ answer("sent")[2] \notin Broadcast
        /\ answer("offline")[2] \notin Broadcast
    BY KindsTell
  <2>4. IsDirect(texts)
    BY <2>2, <2>3 DEF IsDirect
  <2>5. IsDirect(errors)
    BY <2>3 DEF IsDirect
  <2> HIDE DEF texts, errors
  <2> QED
    BY <2>1, <2>2, <2>4, <2>5
<1> QED
  BY <1>2, <1>3 DEF Lock

(* One session at a time hands over.                                       *)
LEMMA LockInductive ==
    ASSUME TypeInv, LockInv, [Next]_vars
    PROVE  LockInv'
<1> USE DEF TypeInv, TypeOK
<1>1. ASSUME NEW s \in Session, ComeIn(s) \/ Leave(s) \/ WriteDone(s) \/ WriteFails(s)
      PROVE  LockInv'
  BY <1>1 DEF ComeIn, Leave, WriteDone, WriteFails, LockInv
<1>2. ASSUME NEW s \in Session, ReadLine(s)
      PROVE  LockInv'
  <2>1. /\ pc[s] = "idle" /\ pc' = [pc EXCEPT ![s] = "save"]
        /\ UNCHANGED <<out, holder>>
        /\ \E l : line' = [line EXCEPT ![s] = l] /\ l.from = s
    BY <1>2 DEF ReadLine
  <2> QED
    BY <2>1 DEF LockInv
<1>3. ASSUME NEW s \in Session, Save(s)
      PROVE  LockInv'
  BY <1>3 DEF Save, LockInv
<1>4. ASSUME NEW s \in Session, Lock(s)
      PROVE  LockInv'
  <2>1. PICK o : out' = [out EXCEPT ![s] = o]
    BY <1>4, LockOut
  <2> QED
    BY <1>4, <2>1, FlowAssumption DEF Lock, LockInv
<1>5. ASSUME NEW s \in Session, Send(s)
      PROVE  LockInv'
  <2>1. /\ pc[s] = "send" /\ out' = [out EXCEPT ![s] = Tail(@)]
        /\ UNCHANGED <<pc, holder, line>>
    BY <1>5 DEF Send
  <2> QED
    BY <2>1 DEF LockInv
<1>6. ASSUME NEW s \in Session, Done(s)
      PROVE  LockInv'
  BY <1>6, FlowAssumption DEF Done, LockInv
<1>7. CASE UNCHANGED vars
  BY <1>7 DEF vars, LockInv
<1> QED
  BY <1>1, <1>2, <1>3, <1>4, <1>5, <1>6, <1>7 DEF Next, Handler

(* One turn of the loop: everybody else is still to get it, once.          *)
LEMMA TailFanOut ==
    ASSUME NEW o \in Seq(Session \X Message), o # << >>
    PROVE  /\ \A b, to : IsFanOut(o, b, to) => IsFanOut(Tail(o), b, to)
           /\ \A b, to : IsFanOut(o, b, to) =>
                /\ Head(o)[2] = b /\ Head(o)[1] \in to
                /\ Targets(Tail(o)) = Targets(o) \ {Head(o)[1]}
           /\ Head(o)[1] \in Targets(o)
           /\ IsDirect(o) => IsDirect(Tail(o)) /\ Head(o)[2] \notin Broadcast
<1> DEFINE rest == Tail(o)
           n == Len(o)
<1>1. /\ n \in Nat /\ n # 0 /\ DOMAIN o = 1 .. n /\ Head(o) = o[1]
      /\ DOMAIN rest = 1 .. (n - 1) /\ \A i \in 1 .. (n - 1) : rest[i] = o[i + 1]
  OBVIOUS
<1>2. \A i \in 2 .. n : i - 1 \in 1 .. (n - 1) /\ rest[i - 1] = o[i]
  BY <1>1
<1> HIDE DEF rest, n
<1>3. ASSUME NEW b, NEW to, IsFanOut(o, b, to)
      PROVE  /\ IsFanOut(rest, b, to)
             /\ Head(o)[2] = b /\ Head(o)[1] \in to
             /\ Targets(rest) = Targets(o) \ {Head(o)[1]}
  <2>1. /\ \A i \in 1 .. n : o[i][1] \in to /\ o[i][2] = b
        /\ \A i, j \in 1 .. n : i # j => o[i][1] # o[j][1]
    BY <1>1, <1>3 DEF IsFanOut
  <2>2. \A i \in 1 .. (n - 1) : i + 1 \in 1 .. n /\ i + 1 # 1
    BY <1>1
  <2>3. \A i \in 1 .. (n - 1) : rest[i][1] \in to /\ rest[i][2] = b
    BY <1>1, <2>1, <2>2
  <2>4. ASSUME NEW i \in 1 .. (n - 1), NEW j \in 1 .. (n - 1), i # j
        PROVE  rest[i][1] # rest[j][1]
    <3>1. i + 1 # j + 1 /\ i + 1 \in 1 .. n /\ j + 1 \in 1 .. n
      BY <2>4, <2>2
    <3> QED
      BY <1>1, <2>1, <3>1
  <2>5. IsFanOut(rest, b, to)
    BY <1>1, <2>3, <2>4 DEF IsFanOut
  <2>6. 1 \in 1 .. n
    BY <1>1
  <2>7. \A x \in Targets(rest) : x \in Targets(o) /\ x # o[1][1]
    BY <1>1, <2>1, <2>2, <2>6 DEF Targets
  <2>8. ASSUME NEW x \in Targets(o), x # o[1][1]
        PROVE  x \in Targets(rest)
    <3>1. PICK i \in 1 .. n : x = o[i][1]
      BY <1>1 DEF Targets
    <3>2. i \in 2 .. n
      BY <2>8, <3>1
    <3> QED
      BY <1>1, <1>2, <3>1, <3>2 DEF Targets
  <2> QED
    BY <1>1, <2>1, <2>5, <2>6, <2>7, <2>8
<1>4. Head(o)[1] \in Targets(o)
  BY <1>1 DEF Targets
<1>5. IsDirect(o) => IsDirect(rest) /\ Head(o)[2] \notin Broadcast
  BY <1>1 DEF IsDirect
<1> QED
  BY <1>3, <1>4, <1>5 DEF rest

LEMMA FanOutInductive ==
    ASSUME TypeInv, LockInv, FanOutInv, [Next]_vars
    PROVE  FanOutInv'
<1>1. ASSUME NEW s \in Session, ComeIn(s) \/ Leave(s)
      PROVE  FanOutInv'
  <2>1. holder = NoSession /\ UNCHANGED <<pc, line, out>>
    BY <1>1 DEF ComeIn, Leave
  <2>2. \A x \in Session : pc'[x] # "send"
    BY <2>1, FlowAssumption DEF LockInv
  <2> QED
    BY <2>2 DEF FanOutInv
<1>2. ASSUME NEW s \in Session, ReadLine(s) \/ Save(s) \/ Done(s)
      PROVE  FanOutInv'
  <2>1. /\ UNCHANGED <<out, member>> /\ pc'[s] # "send"
        /\ \A x \in Session \ {s} : pc'[x] = pc[x] /\ line'[x] = line[x]
    BY <1>2 DEF ReadLine, Save, Done, TypeInv, TypeOK
  <2> QED
    BY <2>1 DEF FanOutInv
<1>3. ASSUME NEW s \in Session, Lock(s)
      PROVE  FanOutInv'
  <2>1. PICK o : /\ out' = [out EXCEPT ![s] = o]
                 /\ IF line[s] \in Broadcast
                    THEN IsFanOut(o, line[s], member \ {s})
                    ELSE IsDirect(o)
    BY <1>3, LockOut
  <2>2. /\ out'[s] = o
        /\ \A x \in Session \ {s} : pc'[x] # "send"
        /\ UNCHANGED <<line, member>>
    BY <1>3, <2>1, FlowAssumption DEF Lock, LockInv, TypeInv, TypeOK
  <2> QED
    BY <2>1, <2>2 DEF FanOutInv
<1>4. ASSUME NEW s \in Session, Send(s)
      PROVE  FanOutInv'
  <2>1. /\ out[s] # << >> /\ out[s] \in Seq(Session \X Message)
        /\ out' = [out EXCEPT ![s] = Tail(@)] /\ UNCHANGED <<pc, line, member>>
    BY <1>4 DEF Send, TypeInv, TypeOK
  <2>2. \A x \in Session : out'[x] = IF x = s THEN Tail(out[x]) ELSE out[x]
    BY <2>1 DEF TypeInv, TypeOK
  <2>3. pc[s] = "send"
    BY <1>4 DEF Send
  <2>4. IF line[s] \in Broadcast
        THEN IsFanOut(Tail(out[s]), line[s], member \ {s})
        ELSE IsDirect(Tail(out[s]))
    BY <2>1, <2>3, TailFanOut DEF FanOutInv
  <2> QED
    BY <2>1, <2>2, <2>4 DEF FanOutInv
<1>5. ASSUME NEW s \in Session, WriteDone(s) \/ WriteFails(s)
      PROVE  FanOutInv'
  BY <1>5 DEF WriteDone, WriteFails, FanOutInv
<1>6. CASE UNCHANGED vars
  BY <1>6 DEF vars, FanOutInv
<1> QED
  BY <1>1, <1>2, <1>3, <1>4, <1>5, <1>6 DEF Next, Handler

LEMMA StartInductive ==
    ASSUME TypeInv, StartInv, [Next]_vars
    PROVE  StartInv'
<1> USE DEF TypeInv, TypeOK
<1>1. ASSUME NEW s \in Session, ComeIn(s)
      PROVE  StartInv'
  <2>1. /\ member' = member \cup {s} /\ gone' = gone /\ log' = log
        /\ start' = [start EXCEPT ![s] = Len(log) + 1]
    BY <1>1 DEF ComeIn
  <2>2. Len(log) \in Nat
    OBVIOUS
  <2> QED
    BY <2>1, <2>2 DEF StartInv
<1>2. ASSUME NEW s \in Session, Leave(s)
      PROVE  StartInv'
  BY <1>2 DEF Leave, StartInv
<1>3. ASSUME NEW s \in Session, Lock(s)
      PROVE  StartInv'
  <2>1. /\ UNCHANGED <<start, member, gone>>
        /\ log' = log \/ (line[s] \in Broadcast /\ log' = Append(log, line[s]))
    BY <1>3, LockOut DEF Lock
  <2>2. Len(log) \in Nat /\ Len(log') \in Nat /\ Len(log) <= Len(log')
    BY <2>1
  <2> QED
    BY <2>1, <2>2 DEF StartInv
<1>4. ASSUME UNCHANGED <<start, member, gone, log>>
      PROVE  StartInv'
  BY <1>4 DEF StartInv
<1>5. ASSUME NEW s \in Session,
             \/ ReadLine(s) \/ Save(s) \/ Send(s) \/ Done(s)
             \/ WriteDone(s) \/ WriteFails(s)
      PROVE  UNCHANGED <<start, member, gone, log>>
  BY <1>5 DEF ReadLine, Save, Send, Done, WriteDone, WriteFails
<1>6. UNCHANGED vars => UNCHANGED <<start, member, gone, log>>
  BY DEF vars
<1> QED
  BY <1>1, <1>2, <1>3, <1>4, <1>5, <1>6 DEF Next, Handler

-----------------------------------------------------------------------------
(* The streams *)

(* Who awaits a message, told by who holds the mutex.                      *)
LEMMA AwaitsIs ==
    ASSUME NEW r
    PROVE  /\ holder = NoSession => ~Awaits(r)
           /\ \A s \in Session : holder = s =>
                 (Awaits(r) <=> line[s] \in Broadcast /\ r \in Targets(out[s]))
           /\ holder' = NoSession => ~Awaits(r)'
           /\ \A s \in Session : holder' = s =>
                 (Awaits(r)' <=> line'[s] \in Broadcast /\ r \in Targets(out'[s]))
  BY FlowAssumption DEF Awaits

LEMMA StreamKept ==
    ASSUME StreamInv, gone \subseteq gone', UNCHANGED <<log, start>>,
           \A r \in Session : Given(r)' = Given(r),
           \A r \in Session : Awaits(r)' <=> Awaits(r),
           \A r \in Session : Awaits(r) => line'[holder'] = line[holder]
    PROVE  StreamInv'
<1>1. \A r \in Session : Room!Stream(r)' = Room!Stream(r)
  BY StreamIs
<1> QED
  BY <1>1 DEF StreamInv

LEMMA StreamElsewhere ==
    ASSUME TypeInv, LockInv, StreamInv, NEW s \in Session,
           Leave(s) \/ ReadLine(s) \/ Save(s) \/ WriteFails(s)
    PROVE  StreamInv'
<1>1. /\ gone \subseteq gone' /\ UNCHANGED <<log, start, holder, out>>
      /\ \A r \in Session : Given(r)' = Given(r)
  BY DEF Leave, ReadLine, Save, WriteFails, Given
<1>2. \A x \in Session : holder = x => line'[x] = line[x]
  BY DEF Leave, ReadLine, Save, WriteFails, LockInv, TypeInv, TypeOK
<1>3. holder \in Session \/ holder = NoSession
  BY DEF TypeInv, TypeOK
<1>4. ASSUME NEW r \in Session
      PROVE  (Awaits(r)' <=> Awaits(r)) /\ (Awaits(r) => line'[holder'] = line[holder])
  BY <1>1, <1>2, <1>3, AwaitsIs
<1> QED
  BY <1>1, <1>4, StreamKept

LEMMA StreamWrite ==
    ASSUME TypeInv, WriteInv, LockInv, StreamInv, NEW s \in Session, WriteDone(s)
    PROVE  StreamInv'
<1>1. \A r \in Session : Given(r)' = Given(r)
  BY GivenWritten
<1>2. UNCHANGED <<log, start, holder, out, line, gone>>
  BY DEF WriteDone
<1>3. \A r \in Session : Awaits(r)' <=> Awaits(r)
  BY <1>2 DEF Awaits
<1> QED
  BY <1>1, <1>2, <1>3, StreamKept

LEMMA StreamDone ==
    ASSUME TypeInv, LockInv, StreamInv, NEW s \in Session, Done(s)
    PROVE  StreamInv'
<1>1. /\ holder = s /\ out[s] = << >> /\ holder' = NoSession
      /\ UNCHANGED <<log, start, gone>>
      /\ \A r \in Session : Given(r)' = Given(r)
  BY DEF Done, LockInv, Given
<1>2. Targets(out[s]) = {}
  BY <1>1 DEF Targets
<1>3. \A r \in Session : ~Awaits(r) /\ ~Awaits(r)'
  BY <1>1, <1>2, AwaitsIs
<1> QED
  BY <1>1, <1>3, StreamKept

(* A newcomer has heard nothing and nothing of the log is for it.          *)
LEMMA StreamComeIn ==
    ASSUME TypeInv, LockInv, StartInv, StreamInv, NEW s \in Session, ComeIn(s)
    PROVE  StreamInv'
<1>1. /\ start' = [start EXCEPT ![s] = Len(log) + 1]
      /\ holder = NoSession /\ s \notin member \cup gone
      /\ UNCHANGED <<log, gone, holder>>
      /\ \A r \in Session : Given(r)' = Given(r)
  BY DEF ComeIn, Given
<1>2. \A r \in Session : ~Awaits(r) /\ ~Awaits(r)'
  BY <1>1, AwaitsIs
<1>3. ASSUME NEW r \in Session
      PROVE  Room!Stream(r)' = Room!Stream(r)
  <2>1. CASE r # s
    <3>1. start'[r] = start[r]
      BY <1>1, <2>1 DEF TypeInv, TypeOK
    <3> QED
      BY <1>1, <3>1, StreamIs
  <2>2. CASE r = s
    <3>1. start[s] = 0 /\ start'[s] = Len(log) + 1
      BY <1>1 DEF StartInv, TypeInv, TypeOK
    <3>2. StreamOf(log, start[s], s) = << >>
      BY <3>1 DEF StreamOf
    <3>3. StreamOf(log, start'[s], s) = << >>
      BY <3>1, StreamBegins DEF TypeInv, TypeOK
    <3> QED
      BY <1>1, <2>2, <3>2, <3>3, StreamIs
  <2> QED
    BY <2>1, <2>2
<1> QED
  BY <1>1, <1>2, <1>3 DEF StreamInv

(* A line enters the log and is awaited by everybody else in the room.     *)
LEMMA StreamLock ==
    ASSUME TypeInv, LockInv, StartInv, StreamInv, NEW s \in Session, Lock(s)
    PROVE  StreamInv'
<1>1. /\ holder = NoSession /\ holder' = s /\ line[s].from = s
      /\ UNCHANGED <<line, start, gone>>
      /\ \A r \in Session : Given(r)' = Given(r)
  BY DEF Lock, LockInv, Given
<1>2. \A r \in Session : ~Awaits(r)
  BY <1>1, AwaitsIs
<1>3. PICK o :
        /\ out' = [out EXCEPT ![s] = o]
        /\ \/ /\ line[s] \in Broadcast /\ log' = Append(log, line[s])
              /\ Targets(o) = member \ {s}
           \/ line[s] \notin Broadcast /\ log' = log
  BY LockOut
<1>4. out'[s] = o
  BY <1>3 DEF TypeInv, TypeOK
<1>5. CASE line[s] \notin Broadcast
  <2>1. log' = log /\ \A r \in Session : ~Awaits(r)'
    BY <1>1, <1>3, <1>5, AwaitsIs
  <2> QED
    BY <1>1, <1>2, <2>1, StreamKept
<1>6. CASE line[s] \in Broadcast
  <2>1. log' = Append(log, line[s]) /\ Targets(out'[s]) = member \ {s}
    BY <1>3, <1>4, <1>6
  <2>2. \A r \in Session : Awaits(r)' <=> r \in member \ {s}
    BY <1>1, <1>6, <2>1, AwaitsIs
  <2>3. SUFFICES ASSUME NEW r \in Session \ gone
                 PROVE  Room!Stream(r)' = IF r \in member \ {s}
                                          THEN Append(Room!Stream(r), line[s])
                                          ELSE Room!Stream(r)
    BY <1>1, <1>2, <2>2 DEF StreamInv
  <2>4. start[r] \in Nat /\ start[r] <= Len(log) + 1 /\ log \in Seq(Broadcast)
    BY DEF TypeInv, TypeOK, StartInv
  <2>5. Room!Stream(r) = StreamOf(log, start[r], r)
        /\ Room!Stream(r)' = StreamOf(log', start[r], r)
    BY <1>1, StreamIs
  <2>6. CASE start[r] = 0
    <3>1. r \notin member
      BY <2>6 DEF StartInv
    <3> QED
      BY <2>5, <2>6, <3>1 DEF StreamOf
  <2>7. CASE start[r] # 0
    <3>1. r \in member
      BY <2>7 DEF StartInv
    <3>2. StreamOf(Append(log, line[s]), start[r], r) =
             IF line[s].from = r THEN StreamOf(log, start[r], r)
             ELSE Append(StreamOf(log, start[r], r), line[s])
      BY <1>6, <2>4, <2>7, StreamGrows
    <3> QED
      BY <1>1, <2>1, <2>5, <3>1, <3>2
  <2> QED
    BY <2>6, <2>7
<1> QED
  BY <1>5, <1>6

(* What was awaited is in the queue.                                       *)
LEMMA StreamSend ==
    ASSUME TypeInv, LockInv, FanOutInv, StreamInv, NEW s \in Session, Send(s)
    PROVE  StreamInv'
<1>1. PICK r \in Session, m \in Message :
        /\ out[s] # << >> /\ Head(out[s]) = <<r, m>>
        /\ queue' = [queue EXCEPT ![r] = Append(@, m)]
  BY SendFacts
<1>2. /\ pc[s] = "send" /\ holder = s /\ out' = [out EXCEPT ![s] = Tail(@)]
      /\ UNCHANGED <<line, holder, gone, delivered, log, start>>
  BY DEF Send, LockInv
<1>3. out[s] \in Seq(Session \X Message) /\ out'[s] = Tail(out[s])
  BY <1>2 DEF TypeInv, TypeOK
<1>4. \A x \in Session : Given(x)' = IF x = r THEN Append(Given(x), m) ELSE Given(x)
  BY <1>1, <1>2, GivenPush
<1>5. Only(Append(Given(r), m), Broadcast) =
        IF m \in Broadcast THEN Append(Only(Given(r), Broadcast), m)
        ELSE Only(Given(r), Broadcast)
  BY GivenType, OnlyAppend
<1>6. \A x \in Session : Room!Stream(x)' = Room!Stream(x)
  BY <1>2, StreamIs
<1>7. Head(out[s])[1] = r /\ Head(out[s])[2] = m
  BY <1>1
<1>8. CASE line[s] \in Broadcast
  <2>1. /\ m = line[s] /\ r \in Targets(out[s])
        /\ Targets(out'[s]) = Targets(out[s]) \ {r}
    BY <1>1, <1>2, <1>3, <1>7, <1>8, TailFanOut DEF FanOutInv
  <2>2. \A x \in Session : /\ Awaits(x) <=> x \in Targets(out[s])
                           /\ Awaits(x)' <=> x \in Targets(out[s]) \ {r}
    BY <1>2, <1>8, <2>1, AwaitsIs
  <2>3. ASSUME NEW x \in Session \ gone
        PROVE  Room!Stream(x) = IF Awaits(x)'
                                THEN Append(Only(Given(x)', Broadcast), line[s])
                                ELSE Only(Given(x)', Broadcast)
    <3>1. CASE x = r
      BY <1>2, <1>4, <1>5, <1>8, <2>1, <2>2, <3>1 DEF StreamInv
    <3>2. CASE x # r
      BY <1>2, <1>4, <2>2, <3>2 DEF StreamInv
    <3> QED
      BY <3>1, <3>2
  <2> QED
    BY <1>2, <1>6, <2>3 DEF StreamInv
<1>9. CASE line[s] \notin Broadcast
  <2>1. m \notin Broadcast
    BY <1>1, <1>2, <1>3, <1>7, <1>9, TailFanOut DEF FanOutInv
  <2>2. \A x \in Session : ~Awaits(x) /\ ~Awaits(x)'
    BY <1>2, <1>9, AwaitsIs
  <2>3. \A x \in Session : Only(Given(x)', Broadcast) = Only(Given(x), Broadcast)
    BY <1>4, <1>5, <2>1
  <2> QED
    BY <1>2, <1>6, <2>2, <2>3 DEF StreamInv
<1> QED
  BY <1>8, <1>9

LEMMA RoomInductive ==
    ASSUME TypeInv, WriteInv, RoomInv, [Next]_vars
    PROVE  RoomInv'
<1>1. LockInv' /\ FanOutInv' /\ StartInv'
  BY LockInductive, FanOutInductive, StartInductive DEF RoomInv
<1>2. StreamInv'
  <2>1. CASE UNCHANGED vars
    <3>1. /\ gone \subseteq gone' /\ UNCHANGED <<log, start, line, holder, out>>
          /\ \A r \in Session : Given(r)' = Given(r)
      BY <2>1 DEF vars, Given
    <3>2. \A r \in Session : Awaits(r)' <=> Awaits(r)
      BY <3>1 DEF Awaits
    <3> QED
      BY <3>1, <3>2, StreamKept DEF RoomInv
  <2> QED
    BY <2>1, StreamElsewhere, StreamWrite, StreamDone, StreamComeIn, StreamLock,
       StreamSend DEF RoomInv, Next, Handler
<1> QED
  BY <1>1, <1>2 DEF RoomInv

LEMMA RoomInit == Init => RoomInv
<1> SUFFICES ASSUME Init PROVE RoomInv
  OBVIOUS
<1>1. LockInv /\ FanOutInv
  BY FlowAssumption DEF Init, LockInv, FanOutInv
<1>2. StartInv
  BY DEF Init, StartInv
<1>3. ASSUME NEW r \in Session
      PROVE  Room!Stream(r) = Only(Given(r), Broadcast) /\ ~Awaits(r)
  <2>1. Given(r) = << >>
    BY DEF Init, Given
  <2>2. Room!Stream(r) = << >>
    BY StreamIs DEF Init, StreamOf
  <2>3. ~Awaits(r)
    BY AwaitsIs DEF Init
  <2> QED
    BY <2>1, <2>2, <2>3, OnlyEmpty
<1>4. StreamInv
  BY <1>3 DEF StreamInv
<1> QED
  BY <1>1, <1>2, <1>4 DEF RoomInv

-----------------------------------------------------------------------------
(* The steps of ChatRoom *)

(* The peer receives the next message of its stream, if it is a broadcast. *)
LEMMA HearStep ==
    ASSUME TypeInv, WriteInv, RoomInv, NEW r \in Session, WriteDone(r)
    PROVE  Room!Hear(r) \/ UNCHANGED Room!vars
<1> DEFINE m == Head(queue[r])
<1>1. /\ m \in Message /\ UNCHANGED <<log, start>> /\ r \notin gone
      /\ delivered' = [delivered EXCEPT ![r] = Append(@, m)]
      /\ Begins(Append(delivered[r], m), Given(r))
  BY GivenWritten DEF WriteDone
<1>2. delivered[r] \in Seq(Message) /\ Given(r) \in Seq(Message)
  BY GivenType
<1> HIDE DEF m
<1> DEFINE longer == Append(delivered[r], m)
<1>3. longer \in Seq(Message)
  BY <1>1, <1>2, AppendElements
<1>4. Only(longer, Broadcast) = IF m \in Broadcast THEN Append(Heard(r), m)
                                ELSE Heard(r)
  BY <1>1, <1>2, OnlyAppend DEF Heard
<1>5. \A x \in Session : Heard(x)' = IF x = r THEN Only(longer, Broadcast)
                                     ELSE Heard(x)
  BY <1>1 DEF Heard, TypeInv, TypeOK
<1>6. Begins(Only(longer, Broadcast), Only(Given(r), Broadcast))
  BY <1>1, <1>2, <1>3, OnlyBegins
<1> HIDE DEF longer
<1>7. CASE m \in Broadcast
  <2> DEFINE stream == Room!Stream(r)
             all == Only(Given(r), Broadcast)
             n == Len(Heard(r))
  <2>1. /\ Heard(r) \in Seq(Message) /\ all \in Seq(Message)
    <3>1. /\ Heard(r) \in Seq(Message \cap Broadcast)
          /\ all \in Seq(Message \cap Broadcast)
      BY <1>2, OnlyType DEF Heard
    <3> QED
      BY <3>1
  <2>2. stream = all \/ \E b \in Message : stream = Append(all, b)
    <3>1. stream = IF Awaits(r) THEN Append(all, line[holder]) ELSE all
      BY <1>1 DEF RoomInv, StreamInv
    <3>2. Awaits(r) => line[holder] \in Message
      BY KindsTell DEF Awaits
    <3> QED
      BY <3>1, <3>2
  <2>3. Begins(Append(Heard(r), m), all)
    BY <1>4, <1>6, <1>7
  <2> HIDE DEF stream, all
  <2>4. n \in Nat /\ Len(Append(Heard(r), m)) = n + 1
        /\ Append(Heard(r), m)[n + 1] = m
    BY <1>1, <2>1, AppendProperties
  <2>5. n + 1 <= Len(all) /\ all[n + 1] = m
    BY <2>3, <2>4 DEF Begins
  <2>6. n < Len(stream) /\ stream[n + 1] = m
    BY <2>1, <2>2, <2>4, <2>5
  <2>7. [s \in Session |-> Heard(s)]' =
           [[s \in Session |-> Heard(s)] EXCEPT ![r] = Append(@, stream[Len(@) + 1])]
    BY <1>4, <1>5, <1>7, <2>6
  <2> QED
    BY <1>1, <2>6, <2>7 DEF Room!Hear, stream
<1>8. CASE m \notin Broadcast
  <2>1. \A x \in Session : Heard(x)' = Heard(x)
    BY <1>4, <1>5, <1>8
  <2> QED
    BY <1>1, <2>1 DEF Room!vars
<1> QED
  BY <1>7, <1>8

(* Every step is one of ChatRoom, or none.                                 *)
LEMMA RoomSteps ==
    ASSUME TypeInv, WriteInv, RoomInv, [Next]_vars
    PROVE  [Room!Next]_(Room!vars)
<1>1. ASSUME UNCHANGED <<log, start, delivered>>
      PROVE  UNCHANGED Room!vars
  BY <1>1 DEF Room!vars, Heard
<1>2. ASSUME NEW s \in Session, ComeIn(s)
      PROVE  Room!Enter(s)
  <2>1. start[s] = 0
    BY <1>2 DEF ComeIn, RoomInv, StartInv
  <2> QED
    BY <1>2, <2>1 DEF ComeIn, Heard, Room!Enter, Room!NotIn
<1>3. ASSUME NEW s \in Session, Lock(s)
      PROVE  Room!Next \/ UNCHANGED Room!vars
  <2>1. UNCHANGED <<start, delivered>>
    BY <1>3 DEF Lock
  <2>2. log' = log \/ (line[s] \in Broadcast /\ log' = Append(log, line[s]))
    BY <1>3, LockOut
  <2>3. line[s] \in Broadcast => line[s] \in Room!Said(Session)
    BY DEF Broadcast, Room!Said
  <2>4. log' = Append(log, line[s]) => Room!Say(line[s])
    BY <2>1 DEF Room!Say, Heard
  <2> QED
    BY <1>1, <2>1, <2>2, <2>3, <2>4 DEF Room!Next
<1>4. ASSUME NEW s \in Session, WriteDone(s)
      PROVE  Room!Next \/ UNCHANGED Room!vars
  BY <1>4, HearStep DEF Room!Next
<1>5. ASSUME NEW s \in Session,
             Leave(s) \/ ReadLine(s) \/ Save(s) \/ Send(s) \/ Done(s) \/ WriteFails(s)
      PROVE  UNCHANGED <<log, start, delivered>>
  BY <1>5 DEF Leave, ReadLine, Save, Send, Done, WriteFails
<1>6. UNCHANGED vars => UNCHANGED <<log, start, delivered>>
  BY DEF vars
<1> QED
  BY <1>1, <1>2, <1>3, <1>4, <1>5, <1>6 DEF Next, Handler, Room!Next

LEMMA RoomStarts == Init => Room!Init
  BY OnlyEmpty DEF Init, Heard, Room!Init, Room!NotIn

(* Broadcasting keeps the promise of ChatRoom: everybody hears, from when  *)
(* it comes in, what the others say, in one order, without gaps and without*)
(* repetition, however handlers and writes interleave (server.cpp:196-204, *)
(* session.cpp:271-299).                                                   *)
THEOREM FlowImplementsRoom == Spec => RoomSpec
<1>1. TypeInv /\ WriteInv /\ RoomInv /\ [Next]_vars
        => (TypeInv /\ WriteInv /\ RoomInv)'
  BY FlowInductive, RoomInductive
<1>2. TypeInv /\ WriteInv /\ RoomInv /\ [Next]_vars => [Room!Next]_(Room!vars)
  BY RoomSteps
<1> QED
  BY <1>1, <1>2, FlowInit, RoomInit, RoomStarts, PTL DEF Spec, RoomSpec, Room!Spec

-----------------------------------------------------------------------------
(* Private messages *)

(* The counts of texts and confirmations, as one more message is queued.   *)
LEMMA CountPush ==
    ASSUME TypeInv, NEW r \in Session, NEW m \in Message,
           queue' = [queue EXCEPT ![r] = Append(@, m)], UNCHANGED delivered,
           NEW s \in Session, NEW to \in Session
    PROVE  /\ Confirmed(s, to) \in Nat /\ Handed(s, to) \in Nat
           /\ Confirmed(s, to)' = IF s = r /\ m = Sent(to) THEN Confirmed(s, to) + 1
                                  ELSE Confirmed(s, to)
           /\ Handed(s, to)' = IF to = r /\ m \in Texts(s) THEN Handed(s, to) + 1
                               ELSE Handed(s, to)
<1>1. \A x \in Session : Given(x)' = IF x = r THEN Append(Given(x), m) ELSE Given(x)
  BY GivenPush
<1>2. \A x \in Session : Given(x) \in Seq(Message)
  BY GivenType
<1>3. \A T : \A x \in Session :
         /\ Len(Only(Given(x), T)) \in Nat
         /\ Len(Only(Append(Given(x), m), T)) =
              IF m \in T THEN Len(Only(Given(x), T)) + 1 ELSE Len(Only(Given(x), T))
  <2>1. SUFFICES ASSUME NEW T, NEW x \in Session
                 PROVE  /\ Len(Only(Given(x), T)) \in Nat
                        /\ Len(Only(Append(Given(x), m), T)) =
                             IF m \in T THEN Len(Only(Given(x), T)) + 1
                             ELSE Len(Only(Given(x), T))
    OBVIOUS
  <2>2. Only(Given(x), T) \in Seq(Message \cap T)
    BY <1>2, OnlyType
  <2>3. Only(Append(Given(x), m), T) = IF m \in T THEN Append(Only(Given(x), T), m)
                                       ELSE Only(Given(x), T)
    BY <1>2, OnlyAppend
  <2> DEFINE kept == Only(Given(x), T)
  <2> HIDE DEF kept
  <2>4. kept \in Seq(Message \cap T)
    BY <2>2 DEF kept
  <2>5. m \in T => Len(Append(kept, m)) = Len(kept) + 1
    BY <2>4, AppendProperties
  <2> QED
    BY <2>3, <2>4, <2>5 DEF kept
<1>4. m = Sent(to) <=> m \in Confirmations(to)
  BY DEF Sent, Confirmations
<1>5. /\ Confirmed(s, to)' = Len(Only(Given(s)', Confirmations(to)))
      /\ Handed(s, to)' = Len(Only(Given(to)', Texts(s)))
  BY DEF Confirmed, Handed, Confirmations, Texts
<1> QED
  BY <1>1, <1>3, <1>4, <1>5 DEF Confirmed, Handed

(* What Lock takes up: a broadcast, or a private message with its answer.  *)
LEMMA LockOutPrivate ==
    ASSUME TypeInv, LockInv, NEW s \in Session, Lock(s)
    PROVE  \E o : /\ out' = [out EXCEPT ![s] = o]
                  /\ \A i \in DOMAIN o : Mine(o[i][2], o[i][1])
                  /\ NoConfirmation(o) \/ TextFirst(s, o)
<1>1. line[s] \in Lined /\ line[s].from = s
  BY DEF Lock, TypeInv, LineInv, LockInv
<1>2. CASE FanOut(s)
  <2>1. PICK o : out' = [out EXCEPT ![s] = o] /\ IsFanOut(o, line[s], member \ {s})
    <3>1. PICK order \in SetToSeqs(member \ {s}) :
            out' = [out EXCEPT ![s] = [i \in DOMAIN order |-> <<order[i], line[s]>>]]
      BY <1>2 DEF FanOut
    <3>2. IsFiniteSet(member \ {s})
      BY FS_RemoveElement DEF TypeInv, LineInv
    <3> QED
      BY <3>1, <3>2, FanOutReaches
  <2>2. line[s].kind = "say"
    BY <1>2 DEF FanOut
  <2> QED
    BY <2>1, <2>2 DEF IsFanOut, Mine, NoConfirmation
<1>3. CASE Direct(s)
  <2> DEFINE to == line[s].to
             answer(kind) == <<s, [kind |-> kind, to |-> to]>>
             texts == <<<<to, line[s]>>, answer("sent")>>
             errors == <<answer("offline")>>
  <2>1. out' = [out EXCEPT ![s] = texts] \/ out' = [out EXCEPT ![s] = errors]
    BY <1>3 DEF Direct
  <2>2. line[s] \in PrivateText
    BY <1>1, <1>3, KindsTell DEF Direct
  <2>3. to \in Session /\ line[s] \in Texts(s)
    BY <1>1, <2>2 DEF PrivateText, Texts
  <2>4. TextFirst(s, texts)
    BY <2>3 DEF TextFirst, Sent
  <2>5. \A i \in DOMAIN texts : Mine(texts[i][2], texts[i][1])
    BY DEF Mine
  <2>6. /\ \A i \in DOMAIN errors : Mine(errors[i][2], errors[i][1])
        /\ NoConfirmation(errors)
    BY DEF Mine, NoConfirmation
  <2> HIDE DEF texts, errors
  <2> QED
    BY <2>1, <2>3, <2>4, <2>5, <2>6
<1> QED
  BY <1>2, <1>3 DEF Lock

LEMMA MineInductive ==
    ASSUME TypeInv, WriteInv, LockInv, MineInv, [Next]_vars
    PROVE  MineInv'
<1>1. ASSUME UNCHANGED <<out, queue, delivered>>
      PROVE  MineInv'
  BY <1>1 DEF MineInv
<1>2. ASSUME NEW s \in Session,
             ComeIn(s) \/ Leave(s) \/ ReadLine(s) \/ Save(s) \/ Done(s) \/ WriteFails(s)
      PROVE  UNCHANGED <<out, queue, delivered>>
  BY <1>2 DEF ComeIn, Leave, ReadLine, Save, Done, WriteFails
<1>3. UNCHANGED vars => UNCHANGED <<out, queue, delivered>>
  BY DEF vars
<1>4. ASSUME NEW s \in Session, Lock(s)
      PROVE  MineInv'
  <2>1. PICK o : /\ out' = [out EXCEPT ![s] = o]
                 /\ \A i \in DOMAIN o : Mine(o[i][2], o[i][1])
    BY <1>4, LockOutPrivate
  <2>2. \A x \in Session : out'[x] = IF x = s THEN o ELSE out[x]
    BY <2>1 DEF TypeInv, TypeOK
  <2>3. UNCHANGED <<queue, delivered>>
    BY <1>4 DEF Lock
  <2>4. \A x \in Session : \A i \in DOMAIN out'[x] : Mine(out'[x][i][2], out'[x][i][1])
    BY <2>1, <2>2 DEF MineInv
  <2> QED
    BY <2>3, <2>4 DEF MineInv
<1>5. ASSUME NEW s \in Session, Send(s)
      PROVE  MineInv'
  <2>1. PICK r \in Session, m \in Message :
          /\ out[s] # << >> /\ Head(out[s]) = <<r, m>>
          /\ queue' = [queue EXCEPT ![r] = Append(@, m)]
    BY <1>5, SendFacts
  <2>2. /\ \A x \in Session : out'[x] = IF x = s THEN Tail(out[x]) ELSE out[x]
        /\ \A x \in Session : queue'[x] = IF x = r THEN Append(queue[x], m)
                                          ELSE queue[x]
        /\ UNCHANGED delivered /\ out[s] \in Seq(Session \X Message)
        /\ queue[r] \in Seq(Message)
    BY <1>5, <2>1 DEF Send, TypeInv, TypeOK
  <2>3. /\ 1 \in DOMAIN out[s] /\ Head(out[s]) = out[s][1]
        /\ \A i \in DOMAIN Tail(out[s]) :
              i + 1 \in DOMAIN out[s] /\ Tail(out[s])[i] = out[s][i + 1]
    BY <2>1, <2>2, TailElements
  <2>4. Mine(m, r)
    BY <2>1, <2>3 DEF MineInv
  <2>5. \A i \in DOMAIN Append(queue[r], m) :
          Append(queue[r], m)[i] = m \/ (i \in DOMAIN queue[r]
                                          /\ Append(queue[r], m)[i] = queue[r][i])
    BY <2>2, AppendElements
  <2>6. \A i \in DOMAIN Append(queue[r], m) : Mine(Append(queue[r], m)[i], r)
    BY <2>4, <2>5 DEF MineInv
  <2>7. \A i \in DOMAIN Tail(out[s]) : Mine(Tail(out[s])[i][2], Tail(out[s])[i][1])
    BY <2>3 DEF MineInv
  <2>8. \A x \in Session : \A i \in DOMAIN out'[x] : Mine(out'[x][i][2], out'[x][i][1])
    BY <2>2, <2>7 DEF MineInv
  <2>9. \A x \in Session : \A i \in DOMAIN queue'[x] : Mine(queue'[x][i], x)
    BY <2>2, <2>6 DEF MineInv
  <2> QED
    BY <2>2, <2>8, <2>9 DEF MineInv
<1>6. ASSUME NEW r \in Session, WriteDone(r)
      PROVE  MineInv'
  <2> DEFINE m == Head(queue[r])
  <2>1. /\ queue[r] # << >> /\ m \in Message
        /\ delivered[r] \in Seq(Message) /\ queue[r] \in Seq(Message)
    BY <1>6, GivenWritten, GivenType
  <2>2. /\ \A x \in Session : queue'[x] = IF x = r THEN Tail(queue[x]) ELSE queue[x]
        /\ \A x \in Session : delivered'[x] = IF x = r THEN Append(delivered[x], m)
                                              ELSE delivered[x]
        /\ UNCHANGED out
    BY <1>6 DEF WriteDone, TypeInv, TypeOK
  <2>3. /\ 1 \in DOMAIN queue[r] /\ m = queue[r][1]
        /\ \A i \in DOMAIN Tail(queue[r]) :
              i + 1 \in DOMAIN queue[r] /\ Tail(queue[r])[i] = queue[r][i + 1]
    BY <2>1, TailElements
  <2>4. Mine(m, r)
    BY <2>3 DEF MineInv
  <2> HIDE DEF m
  <2>5. \A i \in DOMAIN Append(delivered[r], m) :
          Append(delivered[r], m)[i] = m \/ (i \in DOMAIN delivered[r]
                                       /\ Append(delivered[r], m)[i] = delivered[r][i])
    BY <2>1, AppendElements
  <2>6. \A i \in DOMAIN Append(delivered[r], m) : Mine(Append(delivered[r], m)[i], r)
    BY <2>4, <2>5 DEF MineInv
  <2>7. \A i \in DOMAIN Tail(queue[r]) : Mine(Tail(queue[r])[i], r)
    BY <2>3 DEF MineInv
  <2>8. /\ \A x \in Session : \A i \in DOMAIN queue'[x] : Mine(queue'[x][i], x)
        /\ \A x \in Session : \A i \in DOMAIN delivered'[x] : Mine(delivered'[x][i], x)
    BY <2>2, <2>6, <2>7 DEF MineInv
  <2> QED
    BY <2>2, <2>8 DEF MineInv
<1> QED
  BY <1>1, <1>2, <1>3, <1>4, <1>5, <1>6 DEF Next, Handler

LEMMA CountKept ==
    ASSUME TypeInv, CountInv, \A x \in Session : Given(x)' = Given(x), UNCHANGED out
    PROVE  CountInv'
<1>1. \A s, to \in Session : /\ Confirmed(s, to)' = Confirmed(s, to)
                             /\ Handed(s, to)' = Handed(s, to)
  BY DEF Confirmed, Handed, Confirmations, Texts
<1> QED
  BY <1>1 DEF CountInv, Sent

LEMMA CountLock ==
    ASSUME TypeInv, LockInv, CountInv, NEW s \in Session, Lock(s)
    PROVE  CountInv'
<1>1. PICK o : /\ out' = [out EXCEPT ![s] = o]
               /\ NoConfirmation(o) \/ TextFirst(s, o)
  BY LockOutPrivate
<1>2. \A x \in Session : out'[x] = IF x = s THEN o ELSE out[x]
  BY <1>1 DEF TypeInv, TypeOK
<1>3. \A x, to \in Session : /\ Confirmed(x, to)' = Confirmed(x, to)
                             /\ Handed(x, to)' = Handed(x, to)
  BY DEF Lock, Given, Confirmed, Handed, Confirmations, Texts
<1> QED
  BY <1>1, <1>2, <1>3 DEF CountInv, Sent

LEMMA CountSend ==
    ASSUME TypeInv, LockInv, CountInv, NEW s \in Session, Send(s)
    PROVE  CountInv'
<1>1. PICK r \in Session, m \in Message :
        /\ out[s] # << >> /\ Head(out[s]) = <<r, m>>
        /\ queue' = [queue EXCEPT ![r] = Append(@, m)]
  BY SendFacts
<1>2. /\ \A x \in Session : out'[x] = IF x = s THEN Tail(out[x]) ELSE out[x]
      /\ UNCHANGED delivered /\ out[s] \in Seq(Session \X Message)
  BY DEF Send, TypeInv, TypeOK
<1>3. \A x, to \in Session :
        /\ Confirmed(x, to) \in Nat /\ Handed(x, to) \in Nat
        /\ Confirmed(x, to)' = IF x = r /\ m = Sent(to) THEN Confirmed(x, to) + 1
                               ELSE Confirmed(x, to)
        /\ Handed(x, to)' = IF to = r /\ m \in Texts(x) THEN Handed(x, to) + 1
                            ELSE Handed(x, to)
  <2>1. /\ queue' = [queue EXCEPT ![r] = Append(@, m)]
        /\ UNCHANGED delivered
    BY <1>1, <1>2
  <2>2. SUFFICES ASSUME NEW x \in Session, NEW to \in Session
                 PROVE  /\ Confirmed(x, to) \in Nat /\ Handed(x, to) \in Nat
                        /\ Confirmed(x, to)' = IF x = r /\ m = Sent(to)
                                               THEN Confirmed(x, to) + 1
                                               ELSE Confirmed(x, to)
                        /\ Handed(x, to)' = IF to = r /\ m \in Texts(x)
                                            THEN Handed(x, to) + 1
                                            ELSE Handed(x, to)
    OBVIOUS
  <2> QED
    BY <2>1, CountPush
<1>4. /\ 1 \in DOMAIN out[s] /\ Head(out[s]) = out[s][1]
      /\ \A i \in DOMAIN Tail(out[s]) :
            i + 1 \in DOMAIN out[s] /\ Tail(out[s])[i] = out[s][i + 1]
  BY <1>1, <1>2, TailElements
<1>5. \A x \in Session : \/ NoConfirmation(out[x])
                         \/ TextFirst(x, out[x])
                         \/ \E to \in Session : /\ out[x] = <<<<x, Sent(to)>>>>
                                                /\ Confirmed(x, to) < Handed(x, to)
  BY DEF CountInv
<1>6. \A x, to \in Session : Confirmed(x, to) <= Handed(x, to)
  BY DEF CountInv
<1>7. \A x, to \in Session : \A t \in Texts(x) : t # Sent(to) /\ t.kind = "private"
  BY DEF Texts, Sent
(* A text or something else: nothing more is confirmed.                    *)
<1>8. ASSUME \A to \in Session : m # Sent(to),
             \/ NoConfirmation(Tail(out[s]))
             \/ \E to \in Session : /\ Tail(out[s]) = <<<<s, Sent(to)>>>>
                                    /\ Confirmed(s, to)' < Handed(s, to)'
      PROVE  CountInv'
  <2>1. \A x, to \in Session : /\ Confirmed(x, to)' = Confirmed(x, to)
                               /\ Handed(x, to) <= Handed(x, to)'
                               /\ Handed(x, to)' \in Nat
    <3>1. SUFFICES ASSUME NEW x \in Session, NEW to \in Session
                   PROVE  /\ Confirmed(x, to)' = Confirmed(x, to)
                          /\ Handed(x, to) <= Handed(x, to)'
                          /\ Handed(x, to)' \in Nat
      OBVIOUS
    <3>2. Confirmed(x, to)' = Confirmed(x, to)
      BY <1>3, <1>8
    <3>3. /\ Handed(x, to) \in Nat
          /\ Handed(x, to)' = Handed(x, to) + 1 \/ Handed(x, to)' = Handed(x, to)
      BY <1>3
    <3> QED
      BY <3>2, <3>3
  <2>2. \A x, to \in Session : Confirmed(x, to)' <= Handed(x, to)'
    BY <1>3, <1>6, <2>1
  <2>3. \A x, to \in Session :
          Confirmed(x, to) < Handed(x, to) => Confirmed(x, to)' < Handed(x, to)'
    BY <1>3, <2>1
  <2>4. \A x \in Session : \/ NoConfirmation(out'[x])
                           \/ TextFirst(x, out'[x])
                           \/ \E to \in Session : /\ out'[x] = <<<<x, Sent(to)>>>>
                                                  /\ Confirmed(x, to)' < Handed(x, to)'
    BY <1>2, <1>5, <1>8, <2>3
  <2> QED
    BY <2>2, <2>4 DEF CountInv, Sent, TextFirst, Texts
<1>9. CASE NoConfirmation(out[s])
  <2>1. m.kind # "sent"
    BY <1>1, <1>4, <1>9 DEF NoConfirmation
  <2>2. \A to \in Session : m # Sent(to)
    BY <2>1 DEF Sent
  <2>3. NoConfirmation(Tail(out[s]))
    BY <1>4, <1>9 DEF NoConfirmation
  <2> QED
    BY <1>8, <2>2, <2>3
<1>10. CASE TextFirst(s, out[s])
  <2>1. PICK to \in Session, t \in Texts(s) : out[s] = <<<<to, t>>, <<s, Sent(to)>>>>
    BY <1>10 DEF TextFirst
  <2>2. r = to /\ m = t /\ Tail(out[s]) = <<<<s, Sent(to)>>>>
    BY <1>1, <2>1
  <2>3. \A x \in Session : m # Sent(x)
    BY <1>7, <2>2
  <2>4. Confirmed(s, to)' < Handed(s, to)'
    BY <1>3, <1>6, <2>2, <2>3
  <2> QED
    BY <1>8, <2>2, <2>3, <2>4
<1>11. ASSUME NEW to \in Session, out[s] = <<<<s, Sent(to)>>>>,
              Confirmed(s, to) < Handed(s, to)
       PROVE  CountInv'
  <2>1. r = s /\ m = Sent(to) /\ Tail(out[s]) = << >>
    BY <1>1, <1>11
  <2>2. \A x \in Session : Sent(x) = Sent(to) => x = to
    BY DEF Sent
  <2>3. \A x, y \in Session : Handed(x, y)' = Handed(x, y)
    BY <1>3, <1>7, <2>1
  <2>4. \A x, y \in Session :
           Confirmed(x, y)' = IF x = s /\ y = to THEN Confirmed(x, y) + 1
                              ELSE Confirmed(x, y)
    BY <1>3, <2>1, <2>2
  <2>5. \A x, y \in Session : Confirmed(x, y)' <= Handed(x, y)'
    BY <1>3, <1>6, <1>11, <2>3, <2>4
  <2>6. \A x \in Session : \/ NoConfirmation(out'[x])
                           \/ TextFirst(x, out'[x])
                           \/ \E y \in Session : /\ out'[x] = <<<<x, Sent(y)>>>>
                                                 /\ Confirmed(x, y)' < Handed(x, y)'
    <3>1. SUFFICES ASSUME NEW x \in Session
                   PROVE  \/ NoConfirmation(out'[x])
                          \/ TextFirst(x, out'[x])
                          \/ \E y \in Session : /\ out'[x] = <<<<x, Sent(y)>>>>
                                                /\ Confirmed(x, y)' < Handed(x, y)'
      OBVIOUS
    <3>2. CASE x = s
      <4>1. out'[x] = << >>
        BY <1>2, <2>1, <3>2
      <4>2. NoConfirmation(<< >>)
        BY DEF NoConfirmation
      <4> QED
        BY <4>1, <4>2
    <3>3. CASE x # s
      BY <1>2, <1>5, <2>3, <2>4, <3>3
    <3> QED
      BY <3>2, <3>3
  <2> QED
    BY <2>5, <2>6 DEF CountInv, Sent, TextFirst, Texts
<1> QED
  BY <1>5, <1>9, <1>10, <1>11

LEMMA PrivateInductive ==
    ASSUME TypeInv, WriteInv, LockInv, PrivateInv, [Next]_vars
    PROVE  PrivateInv'
<1>1. MineInv'
  BY MineInductive DEF PrivateInv
<1>2. CountInv'
  <2>1. ASSUME NEW s \in Session,
               ComeIn(s) \/ Leave(s) \/ ReadLine(s) \/ Save(s) \/ Done(s) \/ WriteFails(s)
        PROVE  UNCHANGED out /\ \A x \in Session : Given(x)' = Given(x)
    BY <2>1 DEF ComeIn, Leave, ReadLine, Save, Done, WriteFails, Given
  <2>2. ASSUME NEW s \in Session, WriteDone(s)
        PROVE  UNCHANGED out /\ \A x \in Session : Given(x)' = Given(x)
    BY <2>2, GivenWritten DEF WriteDone
  <2>3. UNCHANGED vars => UNCHANGED out /\ \A x \in Session : Given(x)' = Given(x)
    BY DEF vars, Given
  <2> QED
    BY <2>1, <2>2, <2>3, CountKept, CountLock, CountSend DEF PrivateInv, Next, Handler
<1> QED
  BY <1>1, <1>2 DEF PrivateInv

LEMMA LockInit == Init => LockInv
  BY FlowAssumption DEF Init, LockInv

LEMMA PrivateInit == Init => PrivateInv
<1> SUFFICES ASSUME Init PROVE PrivateInv
  OBVIOUS
<1>1. MineInv
  BY DEF Init, MineInv
<1>2. \A s, to \in Session : Confirmed(s, to) = 0 /\ Handed(s, to) = 0
  BY OnlyEmpty DEF Init, Confirmed, Handed, Given
<1>3. CountInv
  BY <1>2 DEF Init, CountInv, NoConfirmation
<1> QED
  BY <1>1, <1>3 DEF PrivateInv

(* A private text reaches its recipient only, and is confirmed no more     *)
(* often than it was handed to the recipient, whoever leaves meanwhile     *)
(* (server.cpp:206-222).                                                   *)
THEOREM PrivateStaysPrivate == Spec => []PrivateIsPrivate
<1>1. TypeInv /\ WriteInv /\ LockInv /\ PrivateInv /\ [Next]_vars
        => (TypeInv /\ WriteInv /\ LockInv /\ PrivateInv)'
  BY FlowInductive, LockInductive, PrivateInductive
<1>2. PrivateInv => PrivateIsPrivate
  BY DEF PrivateInv, MineInv, CountInv, Mine, Confirmed, Handed, PrivateIsPrivate
<1> QED
  BY <1>1, <1>2, FlowInit, LockInit, PrivateInit, PTL DEF Spec
=============================================================================
