----------------------------- MODULE WireProofs -----------------------------
(***************************************************************************)
(* Theorems about Wire, for any persons, names and texts.                  *)
(*                                                                         *)
(* First what the readers make of a line that is put together of parts,    *)
(* then the invariant Inv: every queue holds only lines of the kinds that  *)
(* some writer writes, each with what it means, and those who wait for     *)
(* answers have at most the one question on the way.  The properties of    *)
(* Wire follow from it without a further look at the steps.                *)
(***************************************************************************)
EXTENDS Wire, SequenceTheorems, FiniteSetTheorems, TLAPS

-----------------------------------------------------------------------------
(* Texts: what is first, what is cut out, what is put together.            *)

Below == {ss \in Nat \X Nat : ss[1] < ss[2]}

LEMMA Least ==
    ASSUME NEW I, I \subseteq Nat, I # {}
    PROVE  \E i \in I : \A j \in I : i <= j
<1>1. IsWellFoundedOn(Below, Nat)
  BY NatLessThanWellFounded, Zenon DEF OpToRel, Below
<1>2. PICK i \in I : \A j \in I : <<j, i>> \notin Below
  BY <1>1, WFMin
<1>3. ASSUME NEW j \in I, ~(i <= j) PROVE FALSE
  <2>1. i \in Nat /\ j \in Nat /\ j < i
    BY <1>3
  <2>2. <<j, i>> \in Below
    BY <2>1 DEF Below
  <2> QED
    BY <1>2, <2>2
<1> QED
  BY <1>3

LEMMA FirstIs ==
    ASSUME NEW I, I \subseteq Nat, I # {}
    PROVE  First(I) \in I /\ \A j \in I : First(I) <= j
BY Least DEF First

LEMMA FirstAt ==
    ASSUME NEW I, I \subseteq Nat, NEW i \in I, \A j \in I : i <= j
    PROVE  First(I) = i
<1>1. First(I) \in I /\ First(I) <= i /\ i <= First(I)
  BY FirstIs
<1>2. First(I) \in Nat /\ i \in Nat
  BY <1>1
<1> QED
  BY <1>1, <1>2

LEMMA PlacesNat ==
    ASSUME NEW line \in Texts, NEW t, NEW f \in Nat
    PROVE  Places(line, t, f) \subseteq Nat
BY DEF Places, Texts

LEMMA SameText ==
    ASSUME NEW s \in Texts, NEW t \in Texts, Len(s) = Len(t),
           \A i \in 1 .. Len(s) : s[i] = t[i]
    PROVE  s = t
BY SeqEqual DEF Texts

LEMMA TextIs ==
    ASSUME NEW s \in Texts
    PROVE  /\ Len(s) \in Nat
           /\ DOMAIN s = 1 .. Len(s)
           /\ \A i \in 1 .. Len(s) : s[i] \in Word
BY DEF Texts

LEMMA BetweenIs ==
    ASSUME NEW line \in Texts, NEW i \in Nat, NEW j \in Nat,
           i < j, j <= Len(line) + 1
    PROVE  /\ Between(line, i, j) \in Texts
           /\ Len(Between(line, i, j)) = j - i - 1
           /\ \A k \in 1 .. j - i - 1 : Between(line, i, j)[k] = line[i + k]
<1>1. \A k \in i + 1 .. j - 1 : line[k] \in Word
  BY TextIs
<1> QED
  BY <1>1, SubSeqProperties DEF Between, Texts

LEMMA AfterIs ==
    ASSUME NEW line \in Texts, NEW i \in Nat, i <= Len(line)
    PROVE  /\ After(line, i) \in Texts
           /\ Len(After(line, i)) = Len(line) - i
           /\ \A k \in 1 .. Len(line) - i : After(line, i)[k] = line[i + k]
<1>1. \A k \in i + 1 .. Len(line) : line[k] \in Word
  BY TextIs
<1>2. Len(line) \in Nat
  BY TextIs
<1> QED
  BY <1>1, <1>2, SubSeqProperties DEF After, Texts

LEMMA Cat ==
    ASSUME NEW s \in Texts, NEW t \in Texts
    PROVE  /\ s \o t \in Texts
           /\ Len(s \o t) = Len(s) + Len(t)
           /\ \A i \in 1 .. Len(s) : (s \o t)[i] = s[i]
           /\ \A i \in 1 .. Len(t) : (s \o t)[Len(s) + i] = t[i]
BY ConcatProperties, TextIs DEF Texts

LEMMA CatCat ==
    ASSUME NEW s \in Texts, NEW t \in Texts, NEW u \in Texts
    PROVE  (s \o t) \o u = s \o (t \o u)
BY ConcatAssociative DEF Texts

LEMMA Words ==
    /\ \A x \in Word : <<x>> \in Texts
    /\ \A x, y \in Word : <<x, y>> \in Texts
    /\ Empty \in Texts
BY DEF Texts, Empty

LEMMA Vocabulary ==
    /\ "login" \in Word /\ "register" \in Word /\ "auth" \in Word
    /\ "users" \in Word /\ "error" \in Word /\ "system" \in Word
    /\ "private" \in Word /\ "private_sent" \in Word /\ "broadcast" \in Word
    /\ ":" \in Word /\ "@" \in Word /\ Comma \in Word /\ Space \in Word
    /\ "success" \in Word /\ "failed" \in Word /\ "wording" \in Word
    /\ "User" \in Word /\ "joined" \in Word /\ "offline" \in Word
BY WireAssumption DEF Mark, Keyword, Wording

(* w is put together of h, n, the character x and t.                       *)
Joins(w, h, n, x, t) ==
    /\ w \in Texts
    /\ Len(w) = Len(h) + Len(n) + 1 + Len(t)
    /\ \A i \in 1 .. Len(h) : w[i] = h[i]
    /\ \A i \in 1 .. Len(n) : w[Len(h) + i] = n[i]
    /\ w[Len(h) + Len(n) + 1] = x
    /\ \A i \in 1 .. Len(t) : w[Len(h) + Len(n) + 1 + i] = t[i]

LEMMA Parts ==
    ASSUME NEW h \in Texts, NEW n \in Texts, NEW x \in Word, NEW t \in Texts
    PROVE  Joins(h \o n \o <<x>> \o t, h, n, x, t)
<1> DEFINE a == h \o n
           b == a \o <<x>>
           w == b \o t
<1>1. Len(h) \in Nat /\ Len(n) \in Nat /\ Len(t) \in Nat
  BY TextIs
<1>2. <<x>> \in Texts /\ Len(<<x>>) = 1 /\ <<x>>[1] = x
  BY Words
<1>3. /\ a \in Texts /\ Len(a) = Len(h) + Len(n)
      /\ \A i \in 1 .. Len(h) : a[i] = h[i]
      /\ \A i \in 1 .. Len(n) : a[Len(h) + i] = n[i]
  BY Cat
<1> HIDE DEF a
<1>4. /\ b \in Texts /\ Len(b) = Len(a) + 1
      /\ \A i \in 1 .. Len(a) : b[i] = a[i]
      /\ b[Len(a) + 1] = x
  <2>1. /\ b \in Texts /\ Len(b) = Len(a) + Len(<<x>>)
        /\ \A i \in 1 .. Len(a) : b[i] = a[i]
        /\ \A i \in 1 .. Len(<<x>>) : b[Len(a) + i] = <<x>>[i]
    BY <1>2, <1>3, Cat
  <2> QED
    BY <1>2, <2>1
<1> HIDE DEF b
<1>5. /\ w \in Texts /\ Len(w) = Len(b) + Len(t)
      /\ \A i \in 1 .. Len(b) : w[i] = b[i]
      /\ \A i \in 1 .. Len(t) : w[Len(b) + i] = t[i]
  BY <1>4, Cat
<1> HIDE DEF w
<1>6. \A i \in 1 .. Len(h) : w[i] = h[i]
  BY <1>1, <1>3, <1>4, <1>5
<1>7. \A i \in 1 .. Len(n) : w[Len(h) + i] = n[i]
  <2>1. TAKE i \in 1 .. Len(n)
  <2>2. Len(h) + i \in 1 .. Len(a) /\ Len(h) + i \in 1 .. Len(b)
    BY <1>1, <1>3, <1>4
  <2> QED
    BY <1>3, <1>4, <1>5, <2>2
<1>8. w[Len(h) + Len(n) + 1] = x
  BY <1>1, <1>3, <1>4, <1>5
<1>9. \A i \in 1 .. Len(t) : w[Len(h) + Len(n) + 1 + i] = t[i]
  BY <1>3, <1>4, <1>5
<1>10. Joins(w, h, n, x, t)
  BY <1>1, <1>3, <1>4, <1>5, <1>6, <1>7, <1>8, <1>9 DEF Joins
<1> QED
  BY <1>10 DEF w, b, a

LEMMA JoinsOne ==
    ASSUME NEW h \in Texts, NEW n \in Texts, NEW x \in Word, NEW t \in Texts,
           NEW v, NEW w, Joins(v, h, n, x, t), Joins(w, h, n, x, t)
    PROVE  v = w
<1>1. Len(h) \in Nat /\ Len(n) \in Nat /\ Len(t) \in Nat
  BY TextIs
<1>2. v \in Texts /\ w \in Texts /\ Len(v) = Len(w)
      /\ Len(v) = Len(h) + Len(n) + 1 + Len(t)
  BY DEF Joins
<1>3. ASSUME NEW i \in 1 .. Len(v) PROVE v[i] = w[i]
  <2>1. CASE i <= Len(h)
    BY <1>1, <2>1 DEF Joins
  <2>2. CASE Len(h) < i /\ i < Len(h) + Len(n) + 1
    <3>1. i - Len(h) \in 1 .. Len(n) /\ Len(h) + (i - Len(h)) = i
      BY <1>1, <2>2
    <3> QED
      BY <3>1 DEF Joins
  <2>3. CASE i = Len(h) + Len(n) + 1
    BY <2>3 DEF Joins
  <2>4. CASE Len(h) + Len(n) + 1 < i
    <3> DEFINE j == i - (Len(h) + Len(n) + 1)
    <3>1. j \in 1 .. Len(t) /\ Len(h) + Len(n) + 1 + j = i
      BY <1>1, <1>2, <2>4
    <3> HIDE DEF j
    <3>2. v[Len(h) + Len(n) + 1 + j] = t[j] /\ w[Len(h) + Len(n) + 1 + j] = t[j]
      BY <3>1 DEF Joins
    <3> QED
      BY <3>1, <3>2
  <2> QED
    BY <1>1, <1>2, <2>1, <2>2, <2>3, <2>4
<1> QED
  BY <1>2, <1>3, SameText

LEMMA FirstPlace ==
    ASSUME NEW w \in Texts, NEW x, NEW f \in Nat, NEW k \in f .. Len(w),
           w[k] = x, \A i \in f .. k - 1 : w[i] # x
    PROVE  Places(w, x, f) # {} /\ First(Places(w, x, f)) = k
<1>1. Places(w, x, f) \subseteq Nat
  BY PlacesNat
<1>2. k \in Places(w, x, f)
  BY DEF Places
<1>3. \A j \in Places(w, x, f) : k <= j
  BY TextIs DEF Places
<1> QED
  BY <1>1, <1>2, <1>3, FirstAt

(* A line falls apart where it was put together, if the character it is    *)
(* parted by is not in what stands before.                                 *)
LEMMA Split ==
    ASSUME NEW h \in Texts, NEW n \in Texts, NEW x \in Word, NEW t \in Texts,
           NEW w, Joins(w, h, n, x, t), NEW f \in Nat, f <= Len(h) + 1,
           \A k \in f .. Len(h) + Len(n) : w[k] # x
    PROVE  /\ Places(w, x, f) # {}
           /\ First(Places(w, x, f)) = Len(h) + Len(n) + 1
           /\ Between(w, Len(h), Len(h) + Len(n) + 1) = n
           /\ After(w, Len(h) + Len(n) + 1) = t
<1> DEFINE k == Len(h) + Len(n) + 1
<1>1. Len(h) \in Nat /\ Len(n) \in Nat /\ Len(t) \in Nat
  BY TextIs
<1>2. /\ w \in Texts /\ Len(w) = k + Len(t) /\ w[k] = x
      /\ \A i \in 1 .. Len(n) : w[Len(h) + i] = n[i]
      /\ \A i \in 1 .. Len(t) : w[k + i] = t[i]
  BY DEF Joins
<1>3. k \in Nat /\ k = Len(h) + Len(n) + 1
  BY <1>1
<1> HIDE DEF k
<1>4. Places(w, x, f) # {} /\ First(Places(w, x, f)) = k
  <2>1. k \in f .. Len(w) /\ \A i \in f .. k - 1 : w[i] # x
    BY <1>1, <1>2, <1>3
  <2> QED
    BY <1>2, <2>1, FirstPlace
<1>5. Between(w, Len(h), k) = n
  <2>1. Len(h) < k /\ k <= Len(w) + 1 /\ k - Len(h) - 1 = Len(n)
    BY <1>1, <1>2, <1>3
  <2>2. /\ Between(w, Len(h), k) \in Texts
        /\ Len(Between(w, Len(h), k)) = k - Len(h) - 1
        /\ \A i \in 1 .. k - Len(h) - 1 : Between(w, Len(h), k)[i] = w[Len(h) + i]
    <3>1. w \in Texts /\ Len(h) \in Nat /\ k \in Nat
      BY <1>1, <1>2, <1>3
    <3>2. Len(h) < k /\ k <= Len(w) + 1
      BY <2>1
    <3> QED
      BY <3>1, <3>2, BetweenIs
  <2>3. Len(Between(w, Len(h), k)) = Len(n)
        /\ \A i \in 1 .. Len(n) : Between(w, Len(h), k)[i] = n[i]
    BY <1>2, <2>1, <2>2
  <2> QED
    BY <2>2, <2>3, SameText
<1>6. After(w, k) = t
  <2>1. k <= Len(w) /\ Len(w) - k = Len(t)
    BY <1>1, <1>2, <1>3
  <2>2. /\ After(w, k) \in Texts /\ Len(After(w, k)) = Len(w) - k
        /\ \A i \in 1 .. Len(w) - k : After(w, k)[i] = w[k + i]
    BY <1>2, <1>3, <2>1, AfterIs
  <2>3. Len(After(w, k)) = Len(t) /\ \A i \in 1 .. Len(t) : After(w, k)[i] = t[i]
    BY <1>2, <2>1, <2>2
  <2> QED
    BY <2>2, <2>3, SameText
<1> QED
  BY <1>3, <1>4, <1>5, <1>6

(* And what is cut apart can be put together again.                        *)
LEMMA Rejoin ==
    ASSUME NEW h \in Texts, NEW w \in Texts, NEW x \in Word,
           NEW k \in Len(h) + 1 .. Len(w), w[k] = x,
           \A i \in 1 .. Len(h) : w[i] = h[i]
    PROVE  /\ Between(w, Len(h), k) \in Texts /\ After(w, k) \in Texts
           /\ Joins(w, h, Between(w, Len(h), k), x, After(w, k))
<1> DEFINE n == Between(w, Len(h), k)
           t == After(w, k)
<1>1. Len(h) \in Nat /\ Len(w) \in Nat /\ k \in Nat
  BY TextIs
<1>2. /\ n \in Texts /\ Len(n) = k - Len(h) - 1
      /\ \A i \in 1 .. k - Len(h) - 1 : n[i] = w[Len(h) + i]
  BY <1>1, BetweenIs
<1>3. /\ t \in Texts /\ Len(t) = Len(w) - k
      /\ \A i \in 1 .. Len(w) - k : t[i] = w[k + i]
  BY <1>1, AfterIs
<1> HIDE DEF n, t
<1>4. Len(h) + Len(n) + 1 = k /\ Len(w) = k + Len(t)
  BY <1>1, <1>2, <1>3
<1>5. \A i \in 1 .. Len(t) : w[Len(h) + Len(n) + 1 + i] = t[i]
  BY <1>3, <1>4
<1>6. Joins(w, h, n, x, t)
  BY <1>2, <1>3, <1>4, <1>5 DEF Joins
<1> QED
  BY <1>2, <1>3, <1>6 DEF n, t

LEMMA Begins ==
    ASSUME NEW w \in Texts, NEW h \in Texts
    PROVE  IsPrefix(h, w) <=> /\ Len(h) <= Len(w)
                              /\ \A i \in 1 .. Len(h) : w[i] = h[i]
<1>1. Len(h) \in Nat /\ Len(w) \in Nat
  BY TextIs
<1>2. SubSeq(h, 1, Len(h)) = h
  BY SubSeqFull DEF Texts
<1>3. CASE Len(h) <= Len(w)
  <2>1. \A i \in 1 .. Len(h) : w[i] \in Word
    BY <1>1, <1>3, TextIs
  <2>2. /\ SubSeq(w, 1, Len(h)) \in Texts
        /\ Len(SubSeq(w, 1, Len(h))) = Len(h)
        /\ \A i \in 1 .. Len(h) : SubSeq(w, 1, Len(h))[i] = w[i]
    <3>1. /\ SubSeq(w, 1, Len(h)) \in Seq(Word)
          /\ Len(SubSeq(w, 1, Len(h))) = IF 1 <= Len(h) THEN Len(h) - 1 + 1 ELSE 0
          /\ \A i \in 1 .. Len(h) - 1 + 1 : SubSeq(w, 1, Len(h))[i] = w[1 + i - 1]
      BY <1>1, <2>1, SubSeqProperties
    <3> QED
      BY <1>1, <3>1 DEF Texts
  <2>3. SubSeq(w, 1, Len(h)) = h <=> \A i \in 1 .. Len(h) : w[i] = h[i]
    BY <2>2, SameText
  <2> QED
    BY <1>2, <1>3, <2>3 DEF IsPrefix
<1>4. CASE ~(Len(h) <= Len(w))
  BY <1>4 DEF IsPrefix
<1> QED
  BY <1>3, <1>4

LEMMA BeginsWith ==
    ASSUME NEW w \in Texts, NEW x \in Word, NEW y \in Word, NEW z \in Word
    PROVE  /\ IsPrefix(<<x>>, w) <=> Len(w) >= 1 /\ w[1] = x
           /\ IsPrefix(<<x, y>>, w) <=> Len(w) >= 2 /\ w[1] = x /\ w[2] = y
           /\ IsPrefix(<<x, y, z>>, w) <=>
                 Len(w) >= 3 /\ w[1] = x /\ w[2] = y /\ w[3] = z
<1>1. <<x>> \in Texts /\ <<x, y>> \in Texts /\ <<x, y, z>> \in Texts
  BY DEF Texts
<1>2. IsPrefix(<<x>>, w) <=> /\ Len(<<x>>) <= Len(w)
                             /\ \A i \in 1 .. Len(<<x>>) : w[i] = <<x>>[i]
  BY <1>1, Begins
<1>3. IsPrefix(<<x, y>>, w) <=>
        /\ Len(<<x, y>>) <= Len(w)
        /\ \A i \in 1 .. Len(<<x, y>>) : w[i] = <<x, y>>[i]
  BY <1>1, Begins
<1>4. IsPrefix(<<x, y, z>>, w) <=>
        /\ Len(<<x, y, z>>) <= Len(w)
        /\ \A i \in 1 .. Len(<<x, y, z>>) : w[i] = <<x, y, z>>[i]
  BY <1>1, Begins
<1>5. Len(w) \in Nat
  BY TextIs
<1>6. Len(<<x>>) = 1 /\ <<x>>[1] = x
  OBVIOUS
<1>7. Len(<<x, y>>) = 2 /\ <<x, y>>[1] = x /\ <<x, y>>[2] = y
  OBVIOUS
<1>8. Len(<<x, y, z>>) = 3 /\ <<x, y, z>>[1] = x /\ <<x, y, z>>[2] = y
      /\ <<x, y, z>>[3] = z
  OBVIOUS
<1>9. IsPrefix(<<x>>, w) <=> Len(w) >= 1 /\ w[1] = x
  BY <1>2, <1>5, <1>6
<1>10. IsPrefix(<<x, y>>, w) <=> Len(w) >= 2 /\ w[1] = x /\ w[2] = y
  <2>1. \A i \in 1 .. 2 : i = 1 \/ i = 2
    OBVIOUS
  <2> QED
    BY <1>3, <1>5, <1>7, <2>1
<1>11. IsPrefix(<<x, y, z>>, w) <=>
          Len(w) >= 3 /\ w[1] = x /\ w[2] = y /\ w[3] = z
  <2>1. \A i \in 1 .. 3 : i = 1 \/ i = 2 \/ i = 3
    OBVIOUS
  <2> QED
    BY <1>4, <1>5, <1>8, <2>1
<1> QED
  BY <1>9, <1>10, <1>11

-----------------------------------------------------------------------------
(* Words before a colon.                                                   *)

ColonFree(n) == n \in Texts /\ \A i \in 1 .. Len(n) : n[i] # ":"
Tagged(w, x) == Len(w) >= 2 /\ w[1] = x /\ w[2] = ":"

LEMMA TagPrefix ==
    ASSUME NEW w \in Texts, NEW x \in Word
    PROVE  IsPrefix(<<x, ":">>, w) <=> Tagged(w, x)
BY BeginsWith, Vocabulary DEF Tagged

LEMMA Tag ==
    ASSUME NEW x \in Word, NEW t \in Texts
    PROVE  /\ <<x, ":">> \o t \in Texts
           /\ Tagged(<<x, ":">> \o t, x)
           /\ After(<<x, ":">> \o t, 2) = t
<1> DEFINE h == <<x, ":">>
           w == h \o t
<1>1. h \in Texts /\ Len(h) = 2 /\ h[1] = x /\ h[2] = ":"
  BY Words, Vocabulary
<1> HIDE DEF h
<1>2. /\ w \in Texts /\ Len(w) = 2 + Len(t) /\ Len(t) \in Nat
      /\ w[1] = x /\ w[2] = ":"
      /\ \A i \in 1 .. Len(t) : w[2 + i] = t[i]
  <2>1. /\ w \in Texts /\ Len(w) = Len(h) + Len(t)
        /\ \A i \in 1 .. Len(h) : w[i] = h[i]
        /\ \A i \in 1 .. Len(t) : w[Len(h) + i] = t[i]
    BY <1>1, Cat
  <2>2. Len(t) \in Nat /\ 1 \in 1 .. Len(h) /\ 2 \in 1 .. Len(h)
    BY <1>1, TextIs
  <2> QED
    BY <1>1, <2>1, <2>2
<1> HIDE DEF w
<1>3. /\ After(w, 2) \in Texts /\ Len(After(w, 2)) = Len(w) - 2
      /\ \A i \in 1 .. Len(w) - 2 : After(w, 2)[i] = w[2 + i]
  <2>1. 2 \in Nat /\ 2 <= Len(w)
    BY <1>2
  <2> QED
    BY <1>2, <2>1, AfterIs
<1>4. Len(w) - 2 = Len(t)
  BY <1>2
<1>5. After(w, 2) = t
  BY <1>2, <1>3, <1>4, SameText
<1> QED
  BY <1>2, <1>5 DEF w, h, Tagged

LEMMA TwoTags ==
    ASSUME NEW w, NEW x, NEW y, Tagged(w, x), Tagged(w, y)
    PROVE  x = y
BY DEF Tagged

(* A line of three parts: a word, what is up to the next colon, the rest.  *)
LEMMA Three ==
    ASSUME NEW x \in Word, NEW n \in Texts, NEW t \in Texts
    PROVE  LET w == <<x, ":">> \o n \o <<":">> \o t
           IN Joins(w, <<x, ":">>, n, ":", t) /\ Tagged(w, x)
<1> DEFINE h == <<x, ":">>
           w == h \o n \o <<":">> \o t
<1>1. h \in Texts /\ Len(h) = 2 /\ h[1] = x /\ h[2] = ":"
  BY Words, Vocabulary
<1> HIDE DEF h
<1>2. Joins(w, h, n, ":", t)
  BY <1>1, Parts, Vocabulary
<1> HIDE DEF w
<1>3. Tagged(w, x)
  BY <1>1, <1>2, TextIs DEF Joins, Tagged
<1> QED
  BY <1>2, <1>3 DEF w, h

LEMMA ColonSplit ==
    ASSUME NEW h \in Texts, NEW n \in Texts, NEW t \in Texts, NEW w,
           Joins(w, h, n, ":", t), ColonFree(n)
    PROVE  /\ Places(w, ":", Len(h) + 1) # {}
           /\ First(Places(w, ":", Len(h) + 1)) = Len(h) + Len(n) + 1
           /\ Between(w, Len(h), Len(h) + Len(n) + 1) = n
           /\ After(w, Len(h) + Len(n) + 1) = t
<1>1. Len(n) \in Nat /\ Len(h) \in Nat
  BY TextIs
<1>2. ASSUME NEW k \in Len(h) + 1 .. Len(h) + Len(n) PROVE w[k] # ":"
  <2>1. k - Len(h) \in 1 .. Len(n) /\ Len(h) + (k - Len(h)) = k
    BY <1>1
  <2>2. w[Len(h) + (k - Len(h))] = n[k - Len(h)]
    BY <2>1 DEF Joins
  <2> QED
    BY <2>1, <2>2 DEF ColonFree
<1>3. Len(h) + 1 \in Nat /\ Len(h) + 1 <= Len(h) + 1
  BY <1>1
<1> QED
  <2>1. \A k \in Len(h) + 1 .. Len(h) + Len(n) : w[k] # ":"
    BY <1>2
  <2>2. ":" \in Word
    BY Vocabulary
  <2> QED
    BY <1>3, <2>1, <2>2, Split

LEMMA ThreeSplit ==
    ASSUME NEW x \in Word, NEW n \in Texts, NEW t \in Texts, NEW w,
           Joins(w, <<x, ":">>, n, ":", t), ColonFree(n)
    PROVE  /\ Places(w, ":", 3) # {}
           /\ First(Places(w, ":", 3)) = Len(n) + 3
           /\ Between(w, 2, First(Places(w, ":", 3))) = n
           /\ After(w, First(Places(w, ":", 3))) = t
<1> DEFINE h == <<x, ":">>
<1>0. h \in Texts
  BY Words, Vocabulary
<1>1. Len(h) = 2 /\ Len(n) \in Nat
  BY TextIs
<1>2. Joins(w, h, n, ":", t)
  OBVIOUS
<1> HIDE DEF h
<1>3. /\ Places(w, ":", Len(h) + 1) # {}
      /\ First(Places(w, ":", Len(h) + 1)) = Len(h) + Len(n) + 1
      /\ Between(w, Len(h), Len(h) + Len(n) + 1) = n
      /\ After(w, Len(h) + Len(n) + 1) = t
  BY <1>0, <1>2, ColonSplit
<1>4. Len(h) + 1 = 3 /\ Len(h) + Len(n) + 1 = Len(n) + 3
  BY <1>1
<1> QED
  BY <1>1, <1>3, <1>4, Zenon

-----------------------------------------------------------------------------
(* What the server reads.                                                  *)

IsEntry(command) ==
    \/ \E u, p \in Texts : ColonFree(u) /\ command = LoginRequest(u, p)
    \/ \E u, p, e \in Texts : ColonFree(u) /\ command = RegisterRequest(u, p, e)
    \/ command \in {Only("malformed"), Only("refused")}

(* What is before the first colon has none.                                *)
LEMMA BeforeColon ==
    ASSUME NEW w \in Texts, NEW f \in Nat, f >= 1,
           Places(w, ":", f) # {}
    PROVE  LET i == First(Places(w, ":", f))
           IN /\ i \in f .. Len(w) /\ w[i] = ":"
              /\ \A j \in Places(w, ":", f) : i <= j
              /\ ColonFree(Between(w, f - 1, i))
              /\ After(w, i) \in Texts
<1> DEFINE i == First(Places(w, ":", f))
<1>1. i \in Places(w, ":", f) /\ \A j \in Places(w, ":", f) : i <= j
  BY PlacesNat, FirstIs
<1> HIDE DEF i
<1>2. i \in f .. Len(w) /\ w[i] = ":" /\ Len(w) \in Nat
  BY <1>1, TextIs DEF Places
<1>3. /\ Between(w, f - 1, i) \in Texts
      /\ Len(Between(w, f - 1, i)) = i - (f - 1) - 1
      /\ \A k \in 1 .. i - (f - 1) - 1 : Between(w, f - 1, i)[k] = w[f - 1 + k]
  <2>1. f - 1 \in Nat /\ i \in Nat /\ f - 1 < i /\ i <= Len(w) + 1
    BY <1>2
  <2> QED
    BY <2>1, BetweenIs
<1>4. ASSUME NEW k \in 1 .. Len(Between(w, f - 1, i))
      PROVE  Between(w, f - 1, i)[k] # ":"
  <2>1. f - 1 + k \in f .. Len(w) /\ f - 1 + k < i
    BY <1>2, <1>3
  <2>2. f - 1 + k \notin Places(w, ":", f)
    BY <1>1, <1>2, <2>1
  <2>3. w[f - 1 + k] # ":"
    BY <2>1, <2>2 DEF Places
  <2> QED
    BY <1>3, <2>3
<1>5. After(w, i) \in Texts
  BY <1>2, AfterIs
<1> QED
  BY <1>1, <1>2, <1>3, <1>4, <1>5 DEF i, ColonFree

LEMMA FirstCommandBy ==
    ASSUME NEW w \in Texts
    PROVE  LET colons == Places(w, ":", 3)
               i == First(colons)
               j == First(colons \ {i})
           IN /\ Tagged(w, "login") /\ colons # {} =>
                    FirstCommand(w) = LoginRequest(Between(w, 2, i), After(w, i))
              /\ Tagged(w, "register") /\ colons = {i} =>
                    FirstCommand(w) =
                       RegisterRequest(Between(w, 2, i), After(w, i), Empty)
              /\ Tagged(w, "register") /\ colons # {} /\ colons # {i} =>
                    FirstCommand(w) =
                       RegisterRequest(Between(w, 2, i), Between(w, i, j),
                                       After(w, j))
              /\ colons = {} \/ ~(Tagged(w, "login") \/ Tagged(w, "register")) =>
                    FirstCommand(w) \in {Only("malformed"), Only("refused")}
<1> DEFINE colons == Places(w, ":", 3)
           i == First(colons)
           j == First(colons \ {i})
           log == LoginRequest(Between(w, 2, i), After(w, i))
           one == RegisterRequest(Between(w, 2, i), After(w, i), Empty)
           two == RegisterRequest(Between(w, 2, i), Between(w, i, j), After(w, j))
           login == Tagged(w, "login")
           register == Tagged(w, "register")
<1>1. /\ IsPrefix(<<"login", ":">>, w) <=> login
      /\ IsPrefix(<<"register", ":">>, w) <=> register
  BY TagPrefix, Vocabulary
<1>2. ~(login /\ register)
  BY TwoTags
<1>3. FirstCommand(w) =
        CASE (login \/ register) /\ colons = {} -> Only("malformed")
          [] login /\ colons # {} -> log
          [] register /\ colons # {} -> IF colons = {i} THEN one ELSE two
          [] OTHER -> Only("refused")
  BY <1>1, Zenon DEF FirstCommand
<1>4. colons = {i} => colons # {}
  OBVIOUS
<1> HIDE DEF colons, i, j, log, one, two, login, register
<1>5. /\ login /\ colons # {} => FirstCommand(w) = log
      /\ register /\ colons = {i} => FirstCommand(w) = one
      /\ register /\ colons # {} /\ colons # {i} => FirstCommand(w) = two
      /\ colons = {} \/ ~(login \/ register) =>
            FirstCommand(w) \in {Only("malformed"), Only("refused")}
  BY <1>2, <1>3, <1>4
<1> QED
  BY <1>5 DEF colons, i, j, log, one, two, login, register

LEMMA FirstCommandIs ==
    ASSUME NEW w \in Texts
    PROVE  IsEntry(FirstCommand(w))
<1> DEFINE colons == Places(w, ":", 3)
           i == First(colons)
           j == First(colons \ {i})
<1>1. CASE colons = {} \/ ~(Tagged(w, "login") \/ Tagged(w, "register"))
  BY <1>1, FirstCommandBy, Zenon DEF IsEntry
<1>2. CASE colons # {} /\ (Tagged(w, "login") \/ Tagged(w, "register"))
  <2>1. /\ i \in 3 .. Len(w) /\ w[i] = ":" /\ ColonFree(Between(w, 2, i))
        /\ \A k \in colons : i <= k
        /\ After(w, i) \in Texts
    <3>1. 3 \in Nat /\ 3 >= 1 /\ 3 - 1 = 2
      OBVIOUS
    <3> QED
      BY <1>2, <3>1, BeforeColon
  <2>2. Empty \in Texts
    BY Words
  <2>3. Between(w, 2, i) \in Texts /\ ColonFree(Between(w, 2, i))
    BY <2>1 DEF ColonFree
  <2>4. CASE Tagged(w, "login")
    <3>1. FirstCommand(w) = LoginRequest(Between(w, 2, i), After(w, i))
      BY <1>2, <2>4, FirstCommandBy, Zenon
    <3> QED
      BY <2>1, <2>3, <3>1, Zenon DEF IsEntry
  <2>5. CASE Tagged(w, "register") /\ colons = {i}
    <3>1. FirstCommand(w) = RegisterRequest(Between(w, 2, i), After(w, i), Empty)
      BY <2>5, FirstCommandBy, Zenon
    <3> QED
      BY <2>1, <2>2, <2>3, <3>1, Zenon DEF IsEntry
  <2>6. CASE Tagged(w, "register") /\ colons # {i}
    <3>1. FirstCommand(w) = RegisterRequest(Between(w, 2, i), Between(w, i, j),
                                            After(w, j))
      BY <1>2, <2>6, FirstCommandBy, Zenon
    <3>2. i \in colons /\ colons \subseteq Nat /\ Len(w) \in Nat
      BY <2>1, PlacesNat, TextIs DEF Places
    <3>3. j \in colons /\ j # i
      <4>1. colons \ {i} # {} /\ colons \ {i} \subseteq Nat
        BY <1>2, <2>6, <3>2
      <4> QED
        BY <4>1, FirstIs
    <3>4. i \in Nat /\ j \in Nat /\ i < j /\ j <= Len(w)
      BY <2>1, <3>2, <3>3 DEF Places
    <3>5. Between(w, i, j) \in Texts /\ After(w, j) \in Texts
      BY <3>2, <3>4, BetweenIs, AfterIs
    <3> QED
      BY <2>3, <3>1, <3>5, Zenon DEF IsEntry
  <2> QED
    BY <1>2, <2>4, <2>5, <2>6
<1> QED
  BY <1>1, <1>2

LEMMA LoginRead ==
    ASSUME NEW u \in Texts, NEW p \in Texts
    PROVE  /\ LoginText(u, p) \in Texts
           /\ FirstCommand(LoginText(u, p)).op = "login"
           /\ ColonFree(u) => FirstCommand(LoginText(u, p)) = LoginRequest(u, p)
<1> DEFINE w == LoginText(u, p)
<1>1. Joins(w, <<"login", ":">>, u, ":", p) /\ Tagged(w, "login")
  BY Three, Vocabulary DEF LoginText
<1> HIDE DEF w
<1>2. w \in Texts
  BY <1>1 DEF Joins
<1>3. Places(w, ":", 3) # {}
  <2>1. /\ Len(w) = 2 + Len(u) + 1 + Len(p)
        /\ w[2 + Len(u) + 1] = ":"
    BY <1>1 DEF Joins
  <2>2. 2 + Len(u) + 1 \in 3 .. Len(w)
    BY <2>1, TextIs
  <2> QED
    BY <2>1, <2>2 DEF Places
<1>4. FirstCommand(w) = LoginRequest(Between(w, 2, First(Places(w, ":", 3))),
                                     After(w, First(Places(w, ":", 3))))
  BY <1>1, <1>2, <1>3, FirstCommandBy, Zenon
<1>5. ASSUME ColonFree(u) PROVE FirstCommand(w) = LoginRequest(u, p)
  <2>1. "login" \in Word
    BY Vocabulary
  <2> QED
    BY <1>1, <1>4, <1>5, <2>1, ThreeSplit, Zenon
<1>6. FirstCommand(w).op = "login"
  BY <1>4 DEF LoginRequest
<1> QED
  BY <1>2, <1>5, <1>6 DEF w

LEMMA OneColon ==
    ASSUME NEW x \in Word, NEW u \in Texts, NEW p \in Texts, NEW w,
           Joins(w, <<x, ":">>, u, ":", p), ColonFree(u), ColonFree(p)
    PROVE  Places(w, ":", 3) = {First(Places(w, ":", 3))}
<1> DEFINE i == First(Places(w, ":", 3))
<1>1. i = Len(u) + 3 /\ Len(u) \in Nat /\ Len(p) \in Nat
  BY ThreeSplit, TextIs
<1>2. Places(w, ":", 3) # {} /\ w \in Texts
  BY ThreeSplit DEF Joins
<1>3. i \in Places(w, ":", 3) /\ \A j \in Places(w, ":", 3) : i <= j
  BY <1>2, PlacesNat, FirstIs
<1> HIDE DEF i
<1>4. Len(w) = 2 + Len(u) + 1 + Len(p)
      /\ \A k \in 1 .. Len(p) : w[2 + Len(u) + 1 + k] = p[k]
  BY DEF Joins
<1>5. ASSUME NEW j \in Places(w, ":", 3), j # i PROVE FALSE
  <2>1. j \in 3 .. Len(w) /\ w[j] = ":" /\ i <= j
    BY <1>3 DEF Places
  <2>2. j - i \in 1 .. Len(p) /\ 2 + Len(u) + 1 + (j - i) = j
    BY <1>1, <1>4, <1>5, <2>1
  <2>3. w[2 + Len(u) + 1 + (j - i)] = p[j - i]
    BY <1>4, <2>2
  <2>4. p[j - i] # ":"
    BY <2>2 DEF ColonFree
  <2> QED
    BY <2>1, <2>2, <2>3, <2>4
<1>6. Places(w, ":", 3) = {i}
  BY <1>3, <1>5
<1> QED
  BY <1>6 DEF i

LEMMA RegisterParts ==
    ASSUME NEW u \in Texts, NEW p \in Texts, NEW e \in Texts
    PROVE  LET w == RegisterText(u, p, e)
               q == IF e = Empty THEN p ELSE p \o (<<":">> \o e)
               g == <<"register", ":">> \o u \o <<":">>
           IN /\ w \in Texts /\ q \in Texts /\ g \in Texts
              /\ Len(g) = Len(u) + 3
              /\ Joins(w, <<"register", ":">>, u, ":", q)
              /\ Tagged(w, "register")
              /\ e # Empty => Joins(w, g, p, ":", e)
<1> DEFINE w == RegisterText(u, p, e)
           h == <<"register", ":">>
           g == h \o u \o <<":">>
           r == IF e = Empty THEN Empty ELSE <<":">> \o e
           q == IF e = Empty THEN p ELSE p \o (<<":">> \o e)
<1>1. h \in Texts /\ <<":">> \in Texts /\ Empty \in Texts /\ ":" \in Word
      /\ "register" \in Word
  BY Words, Vocabulary
<1>2. Len(h) = 2 /\ Len(<<":">>) = 1
  OBVIOUS
<1>3. w = (g \o p) \o r
  BY DEF RegisterText
<1> HIDE DEF h, w
<1>4. h \o u \in Texts /\ Len(h \o u) = Len(h) + Len(u)
  BY <1>1, Cat
<1>5. g \in Texts /\ Len(g) = Len(h \o u) + Len(<<":">>)
  BY <1>1, <1>4, Cat
<1>6. Len(g) = Len(u) + 3
  BY <1>2, <1>4, <1>5, TextIs
<1>7. <<":">> \o e \in Texts
  BY <1>1, Cat
<1>8. r \in Texts
  BY <1>1, <1>7
<1> HIDE DEF g
<1>9. (g \o p) \o r = g \o (p \o r)
  BY <1>5, <1>8, CatCat, Zenon
<1>10. p \o r = q
  <2>1. CASE e = Empty
    <3>1. p \o Empty = p
      BY ConcatEmptySeq DEF Texts, Empty
    <3> QED
      BY <2>1, <3>1
  <2>2. CASE e # Empty
    BY <2>2
  <2> QED
    BY <2>1, <2>2
<1>11. q \in Texts
  BY <1>8, <1>10, Cat
<1>12. w = g \o q
  BY <1>3, <1>9, <1>10, Zenon
<1> HIDE DEF q
<1>13. Joins(w, h, u, ":", q) /\ Tagged(w, "register")
  BY <1>1, <1>11, <1>12, Three, Zenon DEF g, h
<1>14. w \in Texts
  BY <1>13 DEF Joins
<1>15. ASSUME e # Empty PROVE Joins(w, g, p, ":", e)
  <2>1. r = <<":">> \o e
    BY <1>15
  <2>2. g \o p \in Texts
    BY <1>5, Cat
  <2>3. (g \o p) \o (<<":">> \o e) = ((g \o p) \o <<":">>) \o e
    BY <1>1, <2>2, CatCat, Zenon
  <2>4. w = g \o p \o <<":">> \o e
    BY <1>3, <2>1, <2>3, Zenon
  <2> QED
    BY <1>1, <1>5, <2>4, Parts, Zenon
<1> QED
  BY <1>5, <1>6, <1>11, <1>13, <1>14, <1>15 DEF w, g, h, q

LEMMA RegisterRead ==
    ASSUME NEW u \in Texts, NEW p \in Texts, NEW e \in Texts
    PROVE  /\ RegisterText(u, p, e) \in Texts
           /\ FirstCommand(RegisterText(u, p, e)).op = "register"
           /\ ColonFree(u) /\ ColonFree(p) =>
                 FirstCommand(RegisterText(u, p, e)) = RegisterRequest(u, p, e)
<1> DEFINE w == RegisterText(u, p, e)
           q == IF e = Empty THEN p ELSE p \o (<<":">> \o e)
           g == <<"register", ":">> \o u \o <<":">>
           colons == Places(w, ":", 3)
           i == First(colons)
           j == First(colons \ {i})
<1>1. /\ w \in Texts /\ q \in Texts /\ g \in Texts
      /\ Len(g) = Len(u) + 3
      /\ Joins(w, <<"register", ":">>, u, ":", q)
      /\ Tagged(w, "register")
      /\ e # Empty => Joins(w, g, p, ":", e)
  BY RegisterParts
<1>2. e = Empty => q = p
  OBVIOUS
<1> HIDE DEF w, q, g
<1>3. "register" \in Word
  BY Vocabulary
<1>4. colons # {}
  <2>1. /\ Len(w) = 2 + Len(u) + 1 + Len(q)
        /\ w[2 + Len(u) + 1] = ":"
    BY <1>1 DEF Joins
  <2>2. 2 + Len(u) + 1 \in 3 .. Len(w)
    BY <1>1, <2>1, TextIs
  <2> QED
    BY <2>1, <2>2 DEF Places
<1>5. /\ colons = {i} =>
            FirstCommand(w) =
               RegisterRequest(Between(w, 2, i), After(w, i), Empty)
      /\ colons # {i} =>
            FirstCommand(w) =
               RegisterRequest(Between(w, 2, i), Between(w, i, j), After(w, j))
  BY <1>1, <1>4, FirstCommandBy, Zenon
<1>6. FirstCommand(w).op = "register"
  BY <1>5 DEF RegisterRequest
<1>7. ASSUME ColonFree(u), ColonFree(p)
      PROVE  FirstCommand(w) = RegisterRequest(u, p, e)
  <2>1. i = Len(u) + 3 /\ Between(w, 2, i) = u /\ After(w, i) = q
    BY <1>1, <1>3, <1>7, ThreeSplit
  <2>2. CASE e = Empty
    <3>1. colons = {i}
      BY <1>1, <1>2, <1>3, <1>7, <2>2, OneColon
    <3> QED
      BY <1>2, <1>5, <2>1, <2>2, <3>1
  <2>3. CASE e # Empty
    <3>1. Joins(w, g, p, ":", e)
      BY <1>1, <2>3
    <3>2. /\ Places(w, ":", Len(g) + 1) # {}
          /\ First(Places(w, ":", Len(g) + 1)) = Len(g) + Len(p) + 1
          /\ Between(w, Len(g), Len(g) + Len(p) + 1) = p
          /\ After(w, Len(g) + Len(p) + 1) = e
      <4>1. g \in Texts
        BY <1>1
      <4> QED
        BY <1>7, <3>1, <4>1, ColonSplit
    <3>3. i = Len(g)
      BY <1>1, <2>1
    <3>4. colons \ {i} = Places(w, ":", Len(g) + 1)
      <4>1. i \in colons /\ \A k \in colons : i <= k
        BY <1>1, <1>4, PlacesNat, FirstIs
      <4>2. Len(g) >= 3 /\ Len(g) \in Nat /\ Len(w) \in Nat
        BY <1>1, TextIs
      <4> HIDE DEF i
      <4>3. \A k \in 3 .. Len(w) : k \in colons \ {i} <=>
               k \in Places(w, ":", Len(g) + 1)
        BY <3>3, <4>1, <4>2 DEF Places
      <4>4. colons \subseteq 3 .. Len(w)
            /\ Places(w, ":", Len(g) + 1) \subseteq 3 .. Len(w)
        BY <4>2 DEF Places
      <4> QED
        BY <4>3, <4>4
    <3>5. colons # {i}
      BY <3>2, <3>4
    <3>6. Between(w, i, j) = p /\ After(w, j) = e
      BY <3>2, <3>3, <3>4, Zenon
    <3> QED
      BY <1>5, <2>1, <3>5, <3>6, Zenon
  <2> QED
    BY <2>2, <2>3
<1> QED
  BY <1>1, <1>6, <1>7 DEF w

(* After the login.                                                        *)
IsChat(command, w) ==
    \/ \E t \in Texts : command = SayRequest(t)
    \/ \E to, t \in Texts : /\ ColonFree(to) /\ PrivateText(to, t) = w
                            /\ command = PrivateRequest(to, t)
    \/ command \in {Only("ignored"), Only("users"), Only("logout")}

LEMMA ChatCommandBy ==
    ASSUME NEW w \in Texts
    PROVE  LET colons == Places(w, ":", 1)
               i == First(colons)
               at == Len(w) >= 1 /\ w[1] = "@"
           IN /\ at /\ colons # {} /\ i > 2 =>
                    ChatCommand(w) = PrivateRequest(Between(w, 1, i), After(w, i))
              /\ at /\ ~(colons # {} /\ i > 2) => ChatCommand(w) = Only("ignored")
              /\ Tagged(w, "broadcast") => ChatCommand(w) = SayRequest(After(w, 2))
              /\ ~at /\ ~Tagged(w, "broadcast") =>
                    ChatCommand(w) = IF w = <<"users">> THEN Only("users")
                                     ELSE IF w = <<"logout">> THEN Only("logout")
                                     ELSE SayRequest(w)
<1> DEFINE colons == Places(w, ":", 1)
           i == First(colons)
           private == PrivateRequest(Between(w, 1, i), After(w, i))
           say == SayRequest(After(w, 2))
           at == Len(w) >= 1 /\ w[1] = "@"
           tagged == Tagged(w, "broadcast")
           users == w = <<"users">>
           logout == w = <<"logout">>
           whole == SayRequest(w)
<1>1. IsPrefix(<<"@">>, w) <=> at
  BY BeginsWith, Vocabulary
<1>2. IsPrefix(<<"broadcast", ":">>, w) <=> tagged
  BY TagPrefix, Vocabulary
<1>3. ~(at /\ tagged)
  BY DEF Tagged
<1> DEFINE at0 == IsPrefix(<<"@">>, w)
           tagged0 == IsPrefix(<<"broadcast", ":">>, w)
<1>4. ChatCommand(w) =
        CASE at0 -> IF colons # {} /\ i > 2 THEN private ELSE Only("ignored")
          [] tagged0 -> say
          [] users -> Only("users")
          [] logout -> Only("logout")
          [] OTHER -> whole
  BY Zenon DEF ChatCommand
<1>5. (at0 <=> at) /\ (tagged0 <=> tagged)
  BY <1>1, <1>2
<1>6. ChatCommand(w) =
        CASE at -> IF colons # {} /\ i > 2 THEN private ELSE Only("ignored")
          [] tagged -> say
          [] users -> Only("users")
          [] logout -> Only("logout")
          [] OTHER -> whole
  <2> HIDE DEF colons, i, private, say, at, tagged, users, logout, whole, at0, tagged0
  <2> QED
    BY <1>4, <1>5
<1>7. ~(at /\ users) /\ ~(at /\ logout) /\ ~(tagged /\ users)
      /\ ~(tagged /\ logout) /\ ~(users /\ logout)
  BY DEF Tagged
<1> HIDE DEF colons, private, say, at, tagged, users, logout, whole
<1>8. /\ at /\ colons # {} /\ i > 2 => ChatCommand(w) = private
      /\ at /\ ~(colons # {} /\ i > 2) => ChatCommand(w) = Only("ignored")
      /\ tagged => ChatCommand(w) = say
      /\ ~at /\ ~tagged => ChatCommand(w) = IF users THEN Only("users")
                                            ELSE IF logout THEN Only("logout")
                                            ELSE whole
  BY <1>3, <1>6, <1>7
<1> QED
  BY <1>8, Zenon DEF colons, private, say, at, tagged, users, logout, whole

LEMMA PlacesAfterAt ==
    ASSUME NEW w \in Texts, w[1] # ":"
    PROVE  Places(w, ":", 1) = Places(w, ":", 2)
<1>1. Len(w) \in Nat
  BY TextIs
<1>2. \A k \in 1 .. Len(w) : k \in Places(w, ":", 1) <=> k \in Places(w, ":", 2)
  BY <1>1 DEF Places
<1>3. Places(w, ":", 1) \subseteq 1 .. Len(w) /\ Places(w, ":", 2) \subseteq 1 .. Len(w)
  BY <1>1 DEF Places
<1> QED
  BY <1>2, <1>3

LEMMA PrivateParts ==
    ASSUME NEW to \in Texts, NEW t \in Texts
    PROVE  /\ Joins(PrivateText(to, t), <<"@">>, to, ":", t)
           /\ PrivateText(to, t) \in Texts
           /\ Len(PrivateText(to, t)) >= 1 /\ PrivateText(to, t)[1] = "@"
<1> DEFINE h == <<"@">>
           w == h \o to \o <<":">> \o t
<1>1. h \in Texts /\ ":" \in Word
  BY Words, Vocabulary
<1>2. Len(h) = 1 /\ h[1] = "@"
  OBVIOUS
<1> HIDE DEF h
<1>3. Joins(w, h, to, ":", t)
  BY <1>1, Parts
<1> HIDE DEF w
<1>4. w \in Texts /\ Len(w) >= 1 /\ w[1] = "@"
  BY <1>2, <1>3, TextIs DEF Joins
<1> QED
  BY <1>3, <1>4 DEF PrivateText, w, h

(* What is between the "@" and the first colon, and what is behind it.     *)
LEMMA PrivateCut ==
    ASSUME NEW w \in Texts, Len(w) >= 1, w[1] = "@", Places(w, ":", 1) # {}
    PROVE  LET i == First(Places(w, ":", 1))
               to == Between(w, 1, i)
               t == After(w, i)
           IN /\ i \in 2 .. Len(w) /\ ColonFree(to) /\ t \in Texts
              /\ Len(to) = i - 2
              /\ PrivateText(to, t) = w
<1> DEFINE i == First(Places(w, ":", 1))
           to == Between(w, 1, i)
           t == After(w, i)
           h == <<"@">>
<1>1. Places(w, ":", 1) = Places(w, ":", 2)
  BY PlacesAfterAt
<1>2. i \in 2 .. Len(w) /\ w[i] = ":" /\ ColonFree(to) /\ t \in Texts
  <2>1. 2 \in Nat /\ 2 >= 1 /\ 2 - 1 = 1
    OBVIOUS
  <2>2. Places(w, ":", 2) # {}
    BY <1>1
  <2>3. LET k == First(Places(w, ":", 2))
        IN /\ k \in 2 .. Len(w) /\ w[k] = ":"
           /\ ColonFree(Between(w, 1, k)) /\ After(w, k) \in Texts
    BY <2>1, <2>2, BeforeColon
  <2> QED
    BY <1>1, <2>3, Zenon
<1>3. h \in Texts /\ ":" \in Word
  BY Words, Vocabulary
<1>4. Len(h) = 1 /\ h[1] = "@"
  OBVIOUS
<1> HIDE DEF i, h
<1>5. Len(h) \in Nat /\ Len(w) \in Nat /\ Len(to) \in Nat
  BY <1>2, <1>3, TextIs DEF ColonFree
<1>6. Len(to) = i - 2
  BY <1>2, <1>5, BetweenIs
<1>7. i \in Len(h) + 1 .. Len(w) /\ \A k \in 1 .. Len(h) : w[k] = h[k]
  BY <1>2, <1>4
<1>8. Joins(w, h, Between(w, Len(h), i), ":", t)
  BY <1>2, <1>3, <1>7, Rejoin
<1>9. Joins(w, h, to, ":", t)
  BY <1>4, <1>8, Zenon
<1> HIDE DEF to, t
<1>10. to \in Texts
  BY <1>2 DEF ColonFree
<1>11. Joins(PrivateText(to, t), h, to, ":", t)
  BY <1>2, <1>10, PrivateParts, Zenon DEF h
<1>12. PrivateText(to, t) = w
  BY <1>2, <1>3, <1>9, <1>10, <1>11, JoinsOne, Zenon
<1> QED
  BY <1>2, <1>6, <1>12 DEF i, to, t

LEMMA ChatCommandIs ==
    ASSUME NEW w \in Texts
    PROVE  IsChat(ChatCommand(w), w)
<1> DEFINE colons == Places(w, ":", 1)
           i == First(colons)
           at == Len(w) >= 1 /\ w[1] = "@"
<1>1. CASE at /\ colons # {} /\ i > 2
  <2>1. ChatCommand(w) = PrivateRequest(Between(w, 1, i), After(w, i))
    BY <1>1, ChatCommandBy, Zenon
  <2>2. /\ ColonFree(Between(w, 1, i)) /\ After(w, i) \in Texts
        /\ PrivateText(Between(w, 1, i), After(w, i)) = w
    BY <1>1, PrivateCut, Zenon
  <2> QED
    BY <2>1, <2>2, Zenon DEF IsChat, ColonFree
<1>2. CASE at /\ ~(colons # {} /\ i > 2)
  BY <1>2, ChatCommandBy, Zenon DEF IsChat
<1>3. CASE Tagged(w, "broadcast")
  <2>1. After(w, 2) \in Texts
    BY <1>3, AfterIs, TextIs DEF Tagged
  <2> QED
    BY <1>3, <2>1, ChatCommandBy, Zenon DEF IsChat
<1>4. CASE ~at /\ ~Tagged(w, "broadcast")
  BY <1>4, ChatCommandBy, Zenon DEF IsChat
<1> QED
  BY <1>1, <1>2, <1>3, <1>4

LEMMA PrivateRead ==
    ASSUME NEW to \in Texts, NEW t \in Texts
    PROVE  LET command == ChatCommand(PrivateText(to, t))
           IN /\ command.op \in {"private", "ignored"}
              /\ ColonFree(to) /\ Len(to) >= 1 =>
                    command = PrivateRequest(to, t)
<1> DEFINE w == PrivateText(to, t)
           colons == Places(w, ":", 1)
           i == First(colons)
<1>1. Joins(w, <<"@">>, to, ":", t) /\ w \in Texts /\ Len(w) >= 1 /\ w[1] = "@"
  BY PrivateParts
<1> HIDE DEF w
<1>2. /\ colons # {} /\ i > 2 =>
            ChatCommand(w) = PrivateRequest(Between(w, 1, i), After(w, i))
      /\ ~(colons # {} /\ i > 2) => ChatCommand(w) = Only("ignored")
  BY <1>1, ChatCommandBy, Zenon
<1>3. ChatCommand(w).op \in {"private", "ignored"}
  BY <1>2 DEF PrivateRequest, Only
<1>4. ASSUME ColonFree(to), Len(to) >= 1
      PROVE  ChatCommand(w) = PrivateRequest(to, t)
  <2> DEFINE h == <<"@">>
  <2>1. h \in Texts
    BY Words, Vocabulary
  <2>2. Len(h) = 1
    OBVIOUS
  <2>3. Joins(w, h, to, ":", t)
    BY <1>1
  <2> HIDE DEF h
  <2>4. /\ Places(w, ":", Len(h) + 1) # {}
        /\ First(Places(w, ":", Len(h) + 1)) = Len(h) + Len(to) + 1
        /\ Between(w, Len(h), Len(h) + Len(to) + 1) = to
        /\ After(w, Len(h) + Len(to) + 1) = t
    BY <1>4, <2>1, <2>3, ColonSplit
  <2>5. Len(h) + 1 = 2 /\ Len(h) + Len(to) + 1 = Len(to) + 2 /\ Len(to) + 2 > 2
    BY <1>4, <2>2, TextIs
  <2>6. Places(w, ":", 1) = Places(w, ":", 2)
    BY <1>1, PlacesAfterAt
  <2>7. /\ colons # {} /\ i = Len(to) + 2
        /\ Between(w, 1, Len(to) + 2) = to /\ After(w, Len(to) + 2) = t
    BY <2>2, <2>4, <2>5, <2>6, Zenon
  <2>8. i > 2 /\ Between(w, 1, i) = to /\ After(w, i) = t
    BY <2>5, <2>7, Zenon
  <2> QED
    BY <1>2, <2>7, <2>8, Zenon
<1> QED
  BY <1>3, <1>4 DEF w

LEMMA SayRead ==
    ASSUME NEW t \in Texts
    PROVE  /\ BroadcastText(t) \in Texts
           /\ ChatCommand(BroadcastText(t)) = SayRequest(t)
<1> DEFINE w == BroadcastText(t)
<1>1. w \in Texts /\ Tagged(w, "broadcast") /\ After(w, 2) = t
  BY Tag, Vocabulary DEF BroadcastText
<1> QED
  BY <1>1, ChatCommandBy, Zenon

LEMMA UsersRead ==
    <<"users">> \in Texts /\ ChatCommand(<<"users">>) = Only("users")
<1> DEFINE w == <<"users">>
<1>1. w \in Texts
  BY Words, Vocabulary
<1>2. w[1] # "@" /\ ~Tagged(w, "broadcast")
  BY DEF Tagged
<1> QED
  BY <1>1, <1>2, ChatCommandBy, Zenon

-----------------------------------------------------------------------------
(* What the server writes, and what a client shows of it.                  *)

LEMMA ShownBy ==
    ASSUME NEW w \in Texts
    PROVE  LET colons == Places(w, ":", 3)
               i == First(colons)
           IN /\ Tagged(w, "auth") =>
                    Shown(w) = IF Len(w) >= 3 /\ w[3] = "success" THEN Welcome
                               ELSE Refusal
              /\ Tagged(w, "users") => Shown(w) = Listed(Names(After(w, 2)))
              /\ Tagged(w, "private") =>
                    Shown(w) = IF colons = {} THEN Nothing
                               ELSE Direct(Between(w, 2, i), After(w, i))
              /\ Tagged(w, "system") => Shown(w) = Notice(After(w, 2))
              /\ Tagged(w, "error") => Shown(w) = Fault(After(w, 2))
              /\ Tagged(w, "private_sent") => Shown(w) = Sent(After(w, 2))
              /\ (\A x \in {"auth", "users", "private", "system", "error",
                            "private_sent"} : ~Tagged(w, x)) =>
                    Shown(w) = IF w = Empty THEN Nothing ELSE Public(w)
<1> DEFINE colons == Places(w, ":", 3)
           i == First(colons)
           auth0 == IsPrefix(<<"auth", ":">>, w)
           success0 == IsPrefix(<<"auth", ":", "success">>, w)
           users0 == IsPrefix(<<"users", ":">>, w)
           private0 == IsPrefix(<<"private", ":">>, w)
           system0 == IsPrefix(<<"system", ":">>, w)
           error0 == IsPrefix(<<"error", ":">>, w)
           sent0 == IsPrefix(<<"private_sent", ":">>, w)
           private == IF colons = {} THEN Nothing
                      ELSE Direct(Between(w, 2, i), After(w, i))
           users == Listed(Names(After(w, 2)))
           system == Notice(After(w, 2))
           error == Fault(After(w, 2))
           sent == Sent(After(w, 2))
           other == IF w = Empty THEN Nothing ELSE Public(w)
           third == Len(w) >= 3 /\ w[3] = "success"
<1>1. Shown(w) =
        CASE auth0 -> IF success0 THEN Welcome ELSE Refusal
          [] users0 -> users
          [] private0 -> private
          [] system0 -> system
          [] error0 -> error
          [] sent0 -> sent
          [] OTHER -> other
  BY Zenon DEF Shown
<1>2. /\ auth0 <=> Tagged(w, "auth")
      /\ users0 <=> Tagged(w, "users")
      /\ private0 <=> Tagged(w, "private")
      /\ system0 <=> Tagged(w, "system")
      /\ error0 <=> Tagged(w, "error")
      /\ sent0 <=> Tagged(w, "private_sent")
  BY TagPrefix, Vocabulary
<1>3. auth0 => (success0 <=> third)
  <2>1. success0 <=> Len(w) >= 3 /\ w[1] = "auth" /\ w[2] = ":" /\ w[3] = "success"
    BY BeginsWith, Vocabulary
  <2> QED
    BY <1>2, <2>1 DEF Tagged
<1>4. \A x, y : Tagged(w, x) /\ Tagged(w, y) => x = y
  BY TwoTags
<1> HIDE DEF auth0, success0, users0, private0, system0, error0, sent0,
             private, users, system, error, sent, other, third
<1>5. /\ Tagged(w, "auth") => Shown(w) = IF third THEN Welcome ELSE Refusal
      /\ Tagged(w, "users") => Shown(w) = users
      /\ Tagged(w, "private") => Shown(w) = private
      /\ Tagged(w, "system") => Shown(w) = system
      /\ Tagged(w, "error") => Shown(w) = error
      /\ Tagged(w, "private_sent") => Shown(w) = sent
      /\ (\A x \in {"auth", "users", "private", "system", "error",
                    "private_sent"} : ~Tagged(w, x)) => Shown(w) = other
  BY <1>1, <1>2, <1>3, <1>4
<1> QED
  BY <1>5 DEF private, users, system, error, sent, other, third

LEMMA SayingParts ==
    ASSUME NEW n \in Texts, NEW t \in Texts
    PROVE  LET w == Saying(n, t)
           IN /\ w \in Texts
              /\ Len(w) = Len(n) + 2 + Len(t)
              /\ \A i \in 1 .. Len(n) : w[i] = n[i]
              /\ w[Len(n) + 1] = ":" /\ w[Len(n) + 2] = Space
              /\ After(w, Len(n) + 1) = <<Space>> \o t
              /\ After(w, Len(n) + 2) = t
<1> DEFINE m == <<":", Space>>
           g == n \o m
           w == g \o t
           space == <<Space>>
           s == space \o t
<1>1. m \in Texts /\ space \in Texts
  BY Words, Vocabulary
<1>2. Len(m) = 2 /\ m[1] = ":" /\ m[2] = Space /\ Len(space) = 1 /\ space[1] = Space
  OBVIOUS
<1> HIDE DEF m, space
<1>3. Len(n) \in Nat /\ Len(t) \in Nat /\ Len(m) \in Nat /\ Len(space) \in Nat
  BY <1>1, TextIs
<1>13. 1 \in 1 .. Len(m) /\ 2 \in 1 .. Len(m) /\ 1 \in 1 .. Len(space)
  BY <1>2, <1>3
<1>4. /\ g \in Texts /\ Len(g) = Len(n) + Len(m)
      /\ \A i \in 1 .. Len(n) : g[i] = n[i]
      /\ \A i \in 1 .. Len(m) : g[Len(n) + i] = m[i]
  BY <1>1, Cat
<1> HIDE DEF g
<1>5. /\ w \in Texts /\ Len(w) = Len(g) + Len(t)
      /\ \A i \in 1 .. Len(g) : w[i] = g[i]
      /\ \A i \in 1 .. Len(t) : w[Len(g) + i] = t[i]
  BY <1>4, Cat
<1>6. /\ s \in Texts /\ Len(s) = Len(space) + Len(t)
      /\ \A i \in 1 .. Len(space) : s[i] = space[i]
      /\ \A i \in 1 .. Len(t) : s[Len(space) + i] = t[i]
  BY <1>1, Cat
<1> HIDE DEF w, s
<1>7. Len(g) = Len(n) + 2 /\ Len(w) = Len(n) + 2 + Len(t)
  BY <1>2, <1>4, <1>5
<1>8. \A i \in 1 .. Len(n) : w[i] = n[i]
  BY <1>3, <1>4, <1>5, <1>7
<1>9. w[Len(n) + 1] = ":" /\ w[Len(n) + 2] = Space
  <2>2. g[Len(n) + 1] = ":" /\ g[Len(n) + 2] = Space
    BY <1>2, <1>4, <1>13
  <2>3. Len(n) + 1 \in 1 .. Len(g) /\ Len(n) + 2 \in 1 .. Len(g)
    BY <1>3, <1>7
  <2> QED
    BY <1>5, <2>2, <2>3
<1>10. \A i \in 1 .. Len(t) : w[Len(n) + 2 + i] = t[i]
  BY <1>5, <1>7
<1>11. After(w, Len(n) + 2) = t
  <2> DEFINE k == Len(n) + 2
  <2>1. k \in Nat /\ k <= Len(w) /\ Len(w) - k = Len(t)
        /\ \A i \in 1 .. Len(t) : w[k + i] = t[i]
    BY <1>3, <1>7, <1>10
  <2> HIDE DEF k
  <2>2. /\ After(w, k) \in Texts /\ Len(After(w, k)) = Len(w) - k
        /\ \A i \in 1 .. Len(w) - k : After(w, k)[i] = w[k + i]
    BY <1>5, <2>1, AfterIs
  <2>3. After(w, k) = t
    BY <2>1, <2>2, SameText
  <2> QED
    BY <2>3 DEF k
<1>12. After(w, Len(n) + 1) = s
  <2> DEFINE k == Len(n) + 1
  <2>1. k \in Nat /\ k <= Len(w) /\ Len(w) - k = Len(s)
    BY <1>2, <1>3, <1>6, <1>7
  <2>2. \A i \in 1 .. Len(s) : w[k + i] = s[i]
    <3>1. ASSUME NEW i \in 1 .. Len(s) PROVE w[k + i] = s[i]
      <4>1. CASE i = 1
        BY <1>2, <1>6, <1>9, <4>1
      <4>2. CASE i > 1
        <5>1. i - 1 \in 1 .. Len(t) /\ k + i = Len(n) + 2 + (i - 1)
              /\ i = 1 + (i - 1)
          BY <1>2, <1>3, <1>6, <4>2
        <5>2. s[1 + (i - 1)] = t[i - 1]
          BY <1>2, <1>6, <5>1
        <5>3. w[Len(n) + 2 + (i - 1)] = t[i - 1]
          BY <1>10, <5>1
        <5> QED
          BY <5>1, <5>2, <5>3
      <4> QED
        BY <1>3, <1>6, <4>1, <4>2
    <3> QED
      BY <3>1
  <2> HIDE DEF k
  <2>3. /\ After(w, k) \in Texts /\ Len(After(w, k)) = Len(w) - k
        /\ \A i \in 1 .. Len(w) - k : After(w, k)[i] = w[k + i]
    BY <1>5, <2>1, AfterIs
  <2>4. After(w, k) = s
    BY <1>6, <2>1, <2>2, <2>3, SameText
  <2> QED
    BY <2>4 DEF k
<1> QED
  BY <1>5, <1>7, <1>8, <1>9, <1>11, <1>12 DEF w, g, m, s, space, Saying

(* A public line is parted at its author's colon.                          *)
LEMMA SayingSplit ==
    ASSUME NEW n, ColonFree(n), NEW t \in Texts
    PROVE  LET w == Saying(n, t)
           IN /\ Places(w, ":", 1) # {}
              /\ First(Places(w, ":", 1)) = Len(n) + 1
              /\ Author(w) = n /\ Rest(w) = t
<1> DEFINE w == Saying(n, t)
           k == Len(n) + 1
<1>1. n \in Texts /\ Len(n) \in Nat /\ Len(t) \in Nat
  BY TextIs DEF ColonFree
<1>2. /\ w \in Texts /\ Len(w) = Len(n) + 2 + Len(t)
      /\ \A i \in 1 .. Len(n) : w[i] = n[i]
      /\ w[Len(n) + 1] = ":"
      /\ After(w, Len(n) + 2) = t
  BY <1>1, SayingParts
<1> HIDE DEF w
<1>3. Places(w, ":", 1) # {} /\ First(Places(w, ":", 1)) = k
  <2>1. k \in 1 .. Len(w) /\ w[k] = ":" /\ \A i \in 1 .. k - 1 : w[i] # ":"
    BY <1>1, <1>2 DEF ColonFree
  <2> HIDE DEF k
  <2>2. 1 \in Nat
    OBVIOUS
  <2> QED
    BY <1>2, <2>1, <2>2, FirstPlace
<1>4. Between(w, 0, k) = n
  <2>1. 0 \in Nat /\ k \in Nat /\ 0 < k /\ k <= Len(w) + 1 /\ k - 0 - 1 = Len(n)
        /\ \A i \in Nat : 0 + i = i
    BY <1>1, <1>2
  <2> HIDE DEF k
  <2>2. /\ Between(w, 0, k) \in Texts /\ Len(Between(w, 0, k)) = k - 0 - 1
        /\ \A i \in 1 .. k - 0 - 1 : Between(w, 0, k)[i] = w[0 + i]
    BY <1>2, <2>1, BetweenIs
  <2>3. Len(Between(w, 0, k)) = Len(n)
        /\ \A i \in 1 .. Len(n) : Between(w, 0, k)[i] = n[i]
    BY <1>2, <2>1, <2>2
  <2> QED
    BY <1>1, <2>2, <2>3, SameText
<1>5. k + 1 = Len(n) + 2
  BY <1>1
<1>6. Author(w) = n /\ Rest(w) = t
  BY <1>2, <1>3, <1>4, <1>5, Zenon DEF Author, Rest
<1> QED
  BY <1>3, <1>6 DEF w

(* It can be taken for another kind of line only if its author's name is   *)
(* the word that such a line begins with.                                  *)
LEMMA SayingTagged ==
    ASSUME NEW n, ColonFree(n), NEW t \in Texts, NEW x, x # ":",
           Tagged(Saying(n, t), x)
    PROVE  Len(n) = 1 /\ n[1] = x
<1> DEFINE w == Saying(n, t)
<1>1. n \in Texts /\ Len(n) \in Nat
  BY TextIs DEF ColonFree
<1>2. /\ \A i \in 1 .. Len(n) : w[i] = n[i]
      /\ w[Len(n) + 1] = ":" /\ w[Len(n) + 2] = Space
  BY <1>1, SayingParts
<1>3. w[1] = x /\ w[2] = ":"
  BY DEF Tagged
<1> HIDE DEF w
<1>4. Space # ":"
  BY DEF Space
<1>5. Len(n) # 0
  <2>1. ASSUME Len(n) = 0 PROVE FALSE
    <3>1. w[1] = ":"
      BY <1>2, <2>1
    <3> QED
      BY <1>3, <3>1
  <2> QED
    BY <2>1
<1>6. ~(Len(n) >= 2)
  <2>1. ASSUME Len(n) >= 2 PROVE FALSE
    <3>1. 2 \in 1 .. Len(n)
      BY <1>1, <2>1
    <3>2. n[2] = ":"
      BY <1>2, <1>3, <3>1
    <3> QED
      BY <3>1, <3>2 DEF ColonFree
  <2> QED
    BY <2>1
<1>7. Len(n) = 1
  <2> DEFINE k == Len(n)
  <2>1. k \in Nat /\ k # 0 /\ ~(k >= 2)
    BY <1>1, <1>5, <1>6
  <2> HIDE DEF k
  <2>2. k = 1
    BY <2>1
  <2> QED
    BY <2>2 DEF k
<1>8. n[1] = x
  BY <1>2, <1>3, <1>7
<1> QED
  BY <1>7, <1>8

LEMMA ShownSaying ==
    ASSUME NEW n, ColonFree(n), NEW t \in Texts
    PROVE  LET w == Saying(n, t)
           IN /\ Plain(n) => Shown(w) = Public(w)
              /\ Shown(w) # Welcome
              /\ Shown(w).kind = "public" => Shown(w) = Public(w)
              /\ Shown(w).kind = "private" => ~Plain(Shown(w).from)
<1> DEFINE w == Saying(n, t)
           colons == Places(w, ":", 3)
           i == First(colons)
           others == {"auth", "users", "private", "system", "error",
                      "private_sent"}
<1>1. n \in Texts /\ Len(n) \in Nat /\ Len(t) \in Nat
  BY TextIs DEF ColonFree
<1>2. /\ w \in Texts
      /\ Len(w) = Len(n) + 2 + Len(t)
      /\ w[Len(n) + 2] = Space
  BY <1>1, SayingParts
<1>3. \A x \in others : Tagged(w, x) => Len(n) = 1 /\ n[1] = x
  BY SayingTagged
<1>4. w # Empty
  BY <1>1, <1>2 DEF Empty
<1> HIDE DEF w
<1>5. (\A x \in others : ~Tagged(w, x)) => Shown(w) = Public(w)
  BY <1>2, <1>4, ShownBy, Zenon
<1>6. ASSUME Tagged(w, "auth") PROVE Shown(w) = Refusal
  <2>1. w[3] = Space
    <3>0. Len(n) = 1
      BY <1>3, <1>6, Zenon
    <3>1. Len(n) + 2 = 3
      BY <3>0
    <3> QED
      BY <1>2, <3>1, Zenon
  <2>2. ~(Len(w) >= 3 /\ w[3] = "success")
    BY <2>1 DEF Space
  <2> QED
    BY <1>2, <1>6, <2>2, ShownBy, Zenon
<1>7. ASSUME Tagged(w, "private")
      PROVE  /\ Shown(w) # Welcome /\ Shown(w).kind # "public"
             /\ Shown(w).kind = "private" => ~Plain(Shown(w).from)
  <2>1. w[3] = Space /\ Len(w) >= 3
    <3>0. Len(n) = 1
      BY <1>3, <1>7, Zenon
    <3>1. Len(n) + 2 = 3
      BY <3>0
    <3>2. w[3] = Space
      BY <1>2, <3>1, Zenon
    <3>3. Len(w) = 3 + Len(t)
      BY <1>2, <3>1
    <3> QED
      BY <1>1, <3>2, <3>3
  <2>2. CASE colons = {}
    <3>1. Shown(w) = Nothing
      BY <1>2, <1>7, <2>2, ShownBy, Zenon
    <3> QED
      BY <3>1 DEF Nothing, Welcome
  <2>3. CASE colons # {}
    <3>1. Shown(w) = Direct(Between(w, 2, i), After(w, i))
      BY <1>2, <1>7, <2>3, ShownBy, Zenon
    <3>2. i \in 3 .. Len(w) /\ w[i] = ":"
      <4>1. 3 \in Nat /\ 3 >= 1
        OBVIOUS
      <4> QED
        BY <1>2, <2>3, <4>1, BeforeColon, Zenon
    <3>3. i # 3
      BY <2>1, <3>2 DEF Space
    <3>4. Between(w, 2, i)[1] = Space
      <4>1. i \in Nat /\ 2 < i /\ i <= Len(w) + 1 /\ 1 \in 1 .. i - 2 - 1
        BY <1>1, <1>2, <3>2, <3>3
      <4> HIDE DEF i
      <4>2. \A k \in 1 .. i - 2 - 1 : Between(w, 2, i)[k] = w[2 + k]
        BY <1>2, <4>1, BetweenIs
      <4>3. Between(w, 2, i)[1] = w[2 + 1]
        BY <4>1, <4>2
      <4> QED
        BY <2>1, <4>3
    <3>5. ~Plain(Between(w, 2, i))
      BY <3>4 DEF Plain, Mark
    <3> QED
      BY <3>1, <3>5 DEF Direct, Welcome
  <2> QED
    BY <2>2, <2>3
<1>8. ASSUME Tagged(w, "users") \/ Tagged(w, "system") \/ Tagged(w, "error")
             \/ Tagged(w, "private_sent")
      PROVE  /\ Shown(w) # Welcome /\ Shown(w).kind # "public"
             /\ Shown(w).kind # "private"
  <2>1. \/ Shown(w) = Listed(Names(After(w, 2))) \/ Shown(w) = Notice(After(w, 2))
        \/ Shown(w) = Fault(After(w, 2)) \/ Shown(w) = Sent(After(w, 2))
    BY <1>2, <1>8, ShownBy, Zenon
  <2> QED
    BY <2>1 DEF Listed, Notice, Fault, Sent, Welcome
<1>9. ASSUME Plain(n) PROVE \A x \in others : ~Tagged(w, x)
  BY <1>3, <1>9 DEF Plain, Keyword
<1>10. /\ Public(w) # Welcome /\ Public(w).kind # "private"
       /\ Refusal # Welcome /\ Refusal.kind # "public" /\ Refusal.kind # "private"
  BY DEF Public, Welcome, Refusal
<1>11. /\ Plain(n) => Shown(w) = Public(w)
       /\ Shown(w) # Welcome
       /\ Shown(w).kind = "public" => Shown(w) = Public(w)
       /\ Shown(w).kind = "private" => ~Plain(Shown(w).from)
  <2>1. CASE \A x \in others : ~Tagged(w, x)
    BY <1>5, <1>10, <2>1
  <2>2. CASE ~\A x \in others : ~Tagged(w, x)
    BY <1>6, <1>7, <1>8, <1>9, <1>10, <2>2
  <2> QED
    BY <2>1, <2>2
<1> QED
  BY <1>11 DEF w

(* A list of names: what the recursion of FlattenSeq computes.             *)
LEMMA Induction ==
    ASSUME NEW S, 0 \in S, \A n \in Nat : n \in S => n + 1 \in S
    PROVE  Nat \subseteq S
<1> DEFINE left == Nat \ S
<1>1. SUFFICES ASSUME left # {} PROVE FALSE
  OBVIOUS
<1>2. PICK x \in left : \A y \in left : x <= y
  BY <1>1, Least
<1>3. x \in Nat /\ x \notin S /\ x # 0
  BY <1>2
<1>4. x - 1 \in Nat /\ x - 1 + 1 = x
  BY <1>3
<1>5. x - 1 \notin S
  BY <1>3, <1>4
<1> QED
  BY <1>2, <1>3, <1>4, <1>5

Flattens(f, s, n) ==
    \A i \in 1 .. n : f[i] = IF i = 1 THEN s[i] ELSE f[i - 1] \o s[i]

LEMMA FlattensExists ==
    ASSUME NEW s
    PROVE  \A n \in Nat : \E f : Flattens(f, s, n)
<1> DEFINE S == {n \in Nat : \E f : Flattens(f, s, n)}
<1>1. 0 \in S
  BY DEF Flattens
<1>2. ASSUME NEW n \in Nat, n \in S PROVE n + 1 \in S
  <2>1. PICK f : Flattens(f, s, n)
    BY <1>2
  <2> DEFINE last == IF n = 0 THEN s[n + 1] ELSE f[n] \o s[n + 1]
             g == [i \in 1 .. n + 1 |-> IF i = n + 1 THEN last ELSE f[i]]
  <2>2. \A i \in 1 .. n : g[i] = f[i]
    OBVIOUS
  <2>3. g[n + 1] = last
    OBVIOUS
  <2> HIDE DEF g
  <2>4. ASSUME NEW i \in 1 .. n + 1
        PROVE  g[i] = IF i = 1 THEN s[i] ELSE g[i - 1] \o s[i]
    <3>1. CASE i \in 1 .. n
      <4>1. i # 1 => i - 1 \in 1 .. n
        BY <3>1
      <4>2. f[i] = IF i = 1 THEN s[i] ELSE f[i - 1] \o s[i]
        BY <2>1, <3>1 DEF Flattens
      <4>3. g[i] = f[i] /\ (i # 1 => g[i - 1] = f[i - 1])
        BY <2>2, <3>1, <4>1
      <4> HIDE DEF last
      <4> QED
        BY <4>2, <4>3
    <3>2. CASE i = n + 1
      <4>1. (i = 1 <=> n = 0) /\ i - 1 = n /\ (n # 0 => n \in 1 .. n)
        BY <3>2
      <4>2. n # 0 => g[n] = f[n]
        BY <2>2, <4>1
      <4> QED
        BY <2>3, <3>2, <4>1, <4>2
    <3> QED
      BY <3>1, <3>2
  <2>5. Flattens(g, s, n + 1)
    BY <2>4 DEF Flattens
  <2> QED
    BY <2>5
<1> HIDE DEF S
<1>3. Nat \subseteq S
  BY <1>1, <1>2, Induction
<1> QED
  BY <1>3 DEF S

LEMMA FlattenIs ==
    ASSUME NEW s, Len(s) \in Nat, Len(s) # 0
    PROVE  \E f : Flattens(f, s, Len(s)) /\ FlattenSeq(s) = f[Len(s)]
<1> DEFINE n == Len(s)
           step(f, i) == IF i = 1 THEN s[i] ELSE f[i - 1] \o s[i]
           g == CHOOSE f : f = [i \in 1 .. n |-> step(f, i)]
<1>1. n \in Nat /\ n # 0
  OBVIOUS
<1>2. FlattenSeq(s) = g[n]
  BY <1>1 DEF FlattenSeq
<1> HIDE DEF n
<1>3. PICK f0 : Flattens(f0, s, n)
  BY <1>1, FlattensExists
<1> DEFINE f1 == [i \in 1 .. n |-> f0[i]]
<1>4. ASSUME NEW i \in 1 .. n PROVE f1[i] = step(f1, i)
  <2>1. i # 1 => i - 1 \in 1 .. n
    BY <1>1
  <2>2. f1[i] = f0[i] /\ (i # 1 => f1[i - 1] = f0[i - 1])
    BY <2>1
  <2>3. f0[i] = IF i = 1 THEN s[i] ELSE f0[i - 1] \o s[i]
    BY <1>3 DEF Flattens
  <2> HIDE DEF f1
  <2> QED
    BY <2>2, <2>3
<1>5. f1 = [i \in 1 .. n |-> step(f1, i)]
  <2>1. \A i \in 1 .. n : f1[i] = step(f1, i)
    BY <1>4
  <2>2. f1 = [i \in 1 .. n |-> f1[i]]
    OBVIOUS
  <2> HIDE DEF f1, step
  <2> QED
    BY <2>1, <2>2
<1> HIDE DEF f1
<1>6. g = [i \in 1 .. n |-> step(g, i)]
  BY <1>5
<1> HIDE DEF g
<1>7. \A i \in 1 .. n : g[i] = step(g, i)
  <2> HIDE DEF step
  <2> QED
    BY <1>6
<1>8. Flattens(g, s, n)
  BY <1>7 DEF Flattens
<1> QED
  BY <1>2, <1>8 DEF n

Piece(names, i) == IF i = 1 THEN names[i] ELSE <<Comma>> \o names[i]

LEMMA JoinedIs ==
    ASSUME NEW names \in Seq(Texts)
    PROVE  /\ Len(names) \in Nat
           /\ names = << >> => Joined(names) = Empty
           /\ names # << >> =>
                 \E f : /\ \A i \in 1 .. Len(names) :
                              f[i] = IF i = 1 THEN Piece(names, i)
                                     ELSE f[i - 1] \o Piece(names, i)
                        /\ Joined(names) = f[Len(names)]
<1> DEFINE s == [i \in DOMAIN names |-> Piece(names, i)]
           n == Len(names)
<1>1. n \in Nat /\ DOMAIN names = 1 .. n
  OBVIOUS
<1>2. Len(s) = n
  BY <1>1
<1>3. \A i \in 1 .. n : s[i] = Piece(names, i)
  BY <1>1
<1>4. Joined(names) = FlattenSeq(s)
  BY DEF Joined, Piece
<1>5. ASSUME names = << >> PROVE Joined(names) = Empty
  <2>1. n = 0 /\ s = << >>
    BY <1>5
  <2> HIDE DEF s
  <2> QED
    BY <1>2, <1>4, <2>1 DEF FlattenSeq, Empty
<1>6. ASSUME names # << >>
      PROVE  \E f : /\ \A i \in 1 .. n : f[i] = IF i = 1 THEN Piece(names, i)
                                              ELSE f[i - 1] \o Piece(names, i)
                    /\ Joined(names) = f[n]
  <2>1. n # 0
    BY <1>6, EmptySeq
  <2> HIDE DEF s, n
  <2>2. PICK f : Flattens(f, s, Len(s)) /\ FlattenSeq(s) = f[Len(s)]
    BY <1>1, <1>2, <2>1, FlattenIs
  <2>3. Flattens(f, s, n) /\ Joined(names) = f[n]
    BY <1>2, <1>4, <2>2
  <2>4. \A i \in 1 .. n : f[i] = IF i = 1 THEN s[i] ELSE f[i - 1] \o s[i]
    BY <2>3 DEF Flattens
  <2> QED
    BY <1>3, <2>3, <2>4
<1> QED
  BY <1>1, <1>5, <1>6

LEMMA JoinedText ==
    ASSUME NEW names \in Seq(Texts)
    PROVE  Joined(names) \in Texts
<1>1. CASE names = << >>
  BY <1>1, JoinedIs, Words, Zenon
<1>2. CASE names # << >>
  <2> DEFINE n == Len(names)
  <2>1. PICK f : /\ \A i \in 1 .. n : f[i] = IF i = 1 THEN Piece(names, i)
                                           ELSE f[i - 1] \o Piece(names, i)
                 /\ Joined(names) = f[n]
    BY <1>2, JoinedIs, Zenon
  <2>2. n \in Nat /\ n # 0
    BY <1>2, EmptySeq, LenProperties
  <2>3. \A i \in 1 .. n : names[i] \in Texts
    BY ElementOfSeq
  <2> HIDE DEF n
  <2>4. \A i \in 1 .. n : Piece(names, i) \in Texts
    <3>1. <<Comma>> \in Texts
      BY Words, Vocabulary
    <3>2. \A i \in 1 .. n : <<Comma>> \o names[i] \in Texts
      BY <2>3, <3>1, Cat
    <3> QED
      BY <2>3, <3>2 DEF Piece
  <2>8. \A i \in 1 .. n : i # 1 => f[i] = f[i - 1] \o Piece(names, i)
    BY <2>1
  <2> DEFINE S == {i \in Nat : i \in 1 .. n => f[i] \in Texts}
  <2>5. 0 \in S
    OBVIOUS
  <2>6. ASSUME NEW i \in Nat, i \in S PROVE i + 1 \in S
    <3>1. SUFFICES ASSUME i + 1 \in 1 .. n PROVE f[i + 1] \in Texts
      OBVIOUS
    <3>2. CASE i = 0
      <4>1. f[1] = Piece(names, 1) /\ 1 \in 1 .. n
        BY <2>1, <3>1, <3>2
      <4> QED
        BY <2>4, <3>2, <4>1
    <3>3. CASE i # 0
      <4>1. i \in 1 .. n /\ i + 1 # 1 /\ i + 1 - 1 = i
        BY <2>2, <3>1, <3>3
      <4>2. f[i + 1] = f[i] \o Piece(names, i + 1)
        <5>1. PICK k \in 1 .. n : k = i + 1
          BY <3>1
        <5>2. k # 1 /\ k - 1 = i
          BY <4>1, <5>1
        <5>3. f[k] = f[k - 1] \o Piece(names, k)
          BY <2>8, <5>2, Zenon
        <5> QED
          BY <5>1, <5>2, <5>3, Zenon
      <4>3. f[i] \in Texts
        BY <2>6, <4>1
      <4> QED
        BY <2>4, <3>1, <4>2, <4>3, Cat
    <3> QED
      BY <3>2, <3>3
  <2> HIDE DEF S
  <2>7. Nat \subseteq S
    BY <2>5, <2>6, Induction
  <2> QED
    BY <2>1, <2>2, <2>7 DEF S
<1> QED
  BY <1>1, <1>2

(* Names of one word each, parted by commas: n of them in w.               *)
Spells(w, names, n) ==
    /\ w \in Texts /\ Len(w) = 2 * n - 1
    /\ \A j \in 1 .. n : w[2 * j - 1] = names[j][1]
    /\ \A j \in 1 .. n - 1 : w[2 * j] = Comma

LEMMA SpellsMore ==
    ASSUME NEW names, NEW n \in Nat, n >= 1, NEW w, Spells(w, names, n),
           names[n + 1] \in Texts, Len(names[n + 1]) = 1
    PROVE  Spells(w \o (<<Comma>> \o names[n + 1]), names, n + 1)
<1> DEFINE comma == <<Comma>>
           last == names[n + 1]
           p == comma \o last
           v == w \o p
<1>1. /\ w \in Texts /\ Len(w) = 2 * n - 1
      /\ \A j \in 1 .. n : w[2 * j - 1] = names[j][1]
      /\ \A j \in 1 .. n - 1 : w[2 * j] = Comma
  BY DEF Spells
<1>2. comma \in Texts
  BY Words, Vocabulary
<1>3. Len(comma) = 1 /\ comma[1] = Comma
  OBVIOUS
<1>4. last \in Texts /\ Len(last) = 1
  OBVIOUS
<1> HIDE DEF comma
<1>5. /\ p \in Texts /\ Len(p) = Len(comma) + Len(last)
      /\ \A i \in 1 .. Len(comma) : p[i] = comma[i]
      /\ \A i \in 1 .. Len(last) : p[Len(comma) + i] = last[i]
  BY <1>2, <1>4, Cat
<1>6. Len(p) = 2 /\ p[1] = Comma /\ p[2] = last[1]
  <2>1. 1 \in 1 .. Len(comma) /\ 1 \in 1 .. Len(last) /\ Len(comma) + 1 = 2
    BY <1>3, <1>4
  <2> HIDE DEF last, p
  <2>2. Len(p) = 2
    BY <1>3, <1>4, <1>5
  <2>3. p[1] = Comma
    BY <1>3, <1>5, <2>1
  <2>4. p[Len(comma) + 1] = last[1]
    BY <1>5, <2>1
  <2> QED
    BY <2>1, <2>2, <2>3, <2>4, Zenon
<1> HIDE DEF p
<1>7. /\ v \in Texts /\ Len(v) = Len(w) + Len(p)
      /\ \A i \in 1 .. Len(w) : v[i] = w[i]
      /\ \A i \in 1 .. Len(p) : v[Len(w) + i] = p[i]
  BY <1>1, <1>5, Cat
<1> HIDE DEF v, last
<1>8. Len(v) = 2 * n + 1 /\ Len(w) = 2 * n - 1
  BY <1>1, <1>6, <1>7
<1>9. v[2 * n] = Comma /\ v[2 * n + 1] = last[1]
  <2>1. 1 \in 1 .. Len(p) /\ 2 \in 1 .. Len(p)
    BY <1>6
  <2>2. Len(w) + 1 = 2 * n /\ Len(w) + 2 = 2 * n + 1
    BY <1>8
  <2>3. v[Len(w) + 1] = p[1] /\ v[Len(w) + 2] = p[2]
    BY <1>7, <2>1
  <2> QED
    BY <1>6, <2>2, <2>3, Zenon
<1>10. ASSUME NEW j \in 1 .. n + 1 PROVE v[2 * j - 1] = names[j][1]
  <2>1. CASE j = n + 1
    <3>1. 2 * j - 1 = 2 * n + 1
      BY <2>1
    <3> QED
      BY <1>9, <2>1, <3>1, Zenon DEF last
  <2>2. CASE j # n + 1
    <3>1. j \in 1 .. n /\ 2 * j - 1 \in 1 .. Len(w)
      BY <1>8, <2>2
    <3> QED
      BY <1>1, <1>7, <3>1, Zenon
  <2> QED
    BY <2>1, <2>2
<1>11. ASSUME NEW j \in 1 .. n PROVE v[2 * j] = Comma
  <2>1. CASE j = n
    BY <1>9, <2>1, Zenon
  <2>2. CASE j # n
    <3>1. j \in 1 .. n - 1 /\ 2 * j \in 1 .. Len(w)
      BY <1>8, <2>2
    <3> QED
      BY <1>1, <1>7, <3>1, Zenon
  <2> QED
    BY <2>1, <2>2
<1>12. Spells(v, names, n + 1)
  <2>1. 2 * (n + 1) - 1 = 2 * n + 1 /\ n + 1 - 1 = n
    OBVIOUS
  <2>2. Len(v) = 2 * (n + 1) - 1
    BY <1>8, <2>1
  <2>3. \A j \in 1 .. n + 1 - 1 : v[2 * j] = Comma
    BY <1>11, <2>1
  <2> QED
    BY <1>7, <1>10, <2>2, <2>3 DEF Spells
<1> QED
  BY <1>12 DEF v, p, comma, last

LEMMA JoinedSpells ==
    ASSUME NEW names \in Seq(Texts), names # << >>,
           \A i \in 1 .. Len(names) : Len(names[i]) = 1
    PROVE  Spells(Joined(names), names, Len(names))
<1> DEFINE n == Len(names)
<1>1. PICK f : /\ \A i \in 1 .. n : f[i] = IF i = 1 THEN Piece(names, i)
                                         ELSE f[i - 1] \o Piece(names, i)
               /\ Joined(names) = f[n]
  BY JoinedIs, Zenon
<1>2. n \in Nat /\ n # 0
  BY EmptySeq, LenProperties
<1>3. \A i \in 1 .. n : names[i] \in Texts /\ Len(names[i]) = 1
  BY ElementOfSeq
<1> HIDE DEF n
<1>4. \A i \in 1 .. n : i # 1 => f[i] = f[i - 1] \o (<<Comma>> \o names[i])
  BY <1>1 DEF Piece
<1>5. Spells(f[1], names, 1)
  <2>1. 1 \in 1 .. n
    BY <1>2
  <2>2. f[1] = names[1] /\ names[1] \in Texts /\ Len(names[1]) = 1
    BY <1>1, <1>3, <2>1 DEF Piece
  <2>3. \A j \in 1 .. 1 : j = 1 /\ 2 * j - 1 = 1
    OBVIOUS
  <2>4. 2 * 1 - 1 = 1 /\ 1 .. 1 - 1 = {}
    OBVIOUS
  <2>5. \A j \in 1 .. 1 : f[1][2 * j - 1] = names[j][1]
    BY <2>2, <2>3, Zenon
  <2>6. Len(f[1]) = 2 * 1 - 1
    BY <2>2, <2>4, Zenon
  <2>7. \A j \in 1 .. 1 - 1 : f[1][2 * j] = Comma
    BY <2>4
  <2> QED
    BY <2>2, <2>5, <2>6, <2>7, Zenon DEF Spells
<1> DEFINE S == {i \in Nat : i \in 1 .. n => Spells(f[i], names, i)}
<1>6. 0 \in S
  OBVIOUS
<1>7. ASSUME NEW i \in Nat, i \in S PROVE i + 1 \in S
  <2>1. SUFFICES ASSUME i + 1 \in 1 .. n PROVE Spells(f[i + 1], names, i + 1)
    OBVIOUS
  <2>2. CASE i = 0
    <3>1. i + 1 = 1
      BY <2>2
    <3> QED
      BY <1>5, <3>1, Zenon
  <2>3. CASE i # 0
    <3>1. i \in 1 .. n /\ i + 1 # 1 /\ i >= 1
      BY <1>2, <2>1, <2>3
    <3>2. Spells(f[i], names, i)
      BY <1>7, <3>1
    <3>3. names[i + 1] \in Texts /\ Len(names[i + 1]) = 1
      BY <1>3, <2>1, Zenon
    <3>4. PICK k \in 1 .. n : k = i + 1
      BY <2>1
    <3>5. k # 1 /\ k - 1 = i
      BY <3>1, <3>4
    <3>6. f[k] = f[k - 1] \o (<<Comma>> \o names[k])
      BY <1>4, <3>5, Zenon
    <3>7. f[i + 1] = f[i] \o (<<Comma>> \o names[i + 1])
      BY <3>4, <3>5, <3>6, Zenon
    <3>8. Spells(f[i] \o (<<Comma>> \o names[i + 1]), names, i + 1)
      BY <3>1, <3>2, <3>3, SpellsMore
    <3> QED
      BY <3>7, <3>8, Zenon
  <2> QED
    BY <2>2, <2>3
<1> HIDE DEF S
<1>8. Nat \subseteq S
  BY <1>6, <1>7, Induction
<1>9. Spells(f[n], names, n)
  <2>1. n \in S /\ n \in 1 .. n
    BY <1>2, <1>8
  <2> QED
    BY <2>1 DEF S
<1> QED
  BY <1>1, <1>9, Zenon DEF n

LEMMA EvenOrOdd ==
    \A k \in Nat : \E j \in Nat : k = 2 * j \/ k = 2 * j + 1
<1> DEFINE S == {k \in Nat : \E j \in Nat : k = 2 * j \/ k = 2 * j + 1}
<1>1. 0 \in S
  <2>1. 0 \in Nat /\ 0 = 2 * 0
    OBVIOUS
  <2> QED
    BY <2>1
<1>2. ASSUME NEW k \in Nat, k \in S PROVE k + 1 \in S
  <2>1. PICK j \in Nat : k = 2 * j \/ k = 2 * j + 1
    BY <1>2
  <2>2. CASE k = 2 * j
    BY <2>2
  <2>3. CASE k = 2 * j + 1
    <3> DEFINE i == j + 1
    <3>1. k + 1 = 2 * i /\ i \in Nat
      BY <2>3
    <3> HIDE DEF i
    <3> QED
      BY <3>1
  <2> QED
    BY <2>1, <2>2, <2>3
<1> HIDE DEF S
<1>3. Nat \subseteq S
  BY <1>1, <1>2, Induction
<1> QED
  BY <1>3 DEF S

Cuts(w) == {0, Len(w) + 1} \cup Places(w, Comma, 1)
NextCut(w, i) == First({j \in Cuts(w) : j > i})

LEMMA NamesBy ==
    ASSUME NEW w
    PROVE  Names(w) = {Between(w, i, NextCut(w, i)) : i \in Cuts(w) \ {Len(w) + 1}}
                      \ {Empty}
BY DEF Names, Cuts, NextCut

LEMMA CutsIs ==
    ASSUME NEW names, NEW n \in Nat, n >= 1, NEW w, Spells(w, names, n),
           \A j \in 1 .. n : names[j][1] # Comma
    PROVE  Cuts(w) = {2 * j : j \in 0 .. n}
<1>1. /\ w \in Texts /\ Len(w) = 2 * n - 1
      /\ \A j \in 1 .. n : w[2 * j - 1] = names[j][1]
      /\ \A j \in 1 .. n - 1 : w[2 * j] = Comma
  BY DEF Spells
<1>2. ASSUME NEW j \in 0 .. n PROVE 2 * j \in Cuts(w)
  <2>1. CASE j = 0
    BY <2>1 DEF Cuts
  <2>2. CASE j = n
    <3>1. 2 * j = Len(w) + 1
      BY <1>1, <2>2
    <3> QED
      BY <3>1, Zenon DEF Cuts
  <2>3. CASE j # 0 /\ j # n
    <3>1. j \in 1 .. n - 1 /\ 2 * j \in 1 .. Len(w)
      BY <1>1, <2>3
    <3>2. w[2 * j] = Comma
      BY <1>1, <3>1, Zenon
    <3>3. 2 * j \in Places(w, Comma, 1)
      BY <3>1, <3>2, Zenon DEF Places
    <3> QED
      BY <3>3, Zenon DEF Cuts
  <2> QED
    BY <2>1, <2>2, <2>3
<1>3. ASSUME NEW k \in Cuts(w) PROVE \E j \in 0 .. n : k = 2 * j
  <2>1. CASE k = 0
    BY <2>1
  <2>2. CASE k = Len(w) + 1
    <3>1. k = 2 * n /\ n \in 0 .. n
      BY <1>1, <2>2
    <3> QED
      BY <3>1, Zenon
  <2>3. CASE k \in Places(w, Comma, 1)
    <3>1. k \in 1 .. Len(w) /\ w[k] = Comma
      BY <2>3 DEF Places
    <3>2. k \in Nat
      BY <1>1, <3>1
    <3>3. PICK i \in Nat : k = 2 * i \/ k = 2 * i + 1
      BY <3>2, EvenOrOdd
    <3>4. CASE k = 2 * i
      <4>1. i \in 0 .. n
        BY <1>1, <3>1, <3>4
      <4> QED
        BY <3>4, <4>1
    <3>5. CASE k = 2 * i + 1
      <4>1. PICK j \in 1 .. n : k = 2 * j - 1
        <5>1. i + 1 \in 1 .. n /\ k = 2 * (i + 1) - 1
          BY <1>1, <3>1, <3>5
        <5> QED
          BY <5>1
      <4>2. w[k] = names[j][1]
        BY <1>1, <4>1, Zenon
      <4> QED
        BY <3>1, <4>2
    <3> QED
      BY <3>3, <3>4, <3>5
  <2> QED
    BY <2>1, <2>2, <2>3 DEF Cuts
<1> QED
  BY <1>2, <1>3

LEMMA NamesOfSpelt ==
    ASSUME NEW names, NEW n \in Nat, n >= 1, NEW w, Spells(w, names, n),
           \A j \in 1 .. n : names[j] \in Texts /\ Len(names[j]) = 1,
           \A j \in 1 .. n : names[j][1] # Comma
    PROVE  Names(w) = {names[j] : j \in 1 .. n}
<1>1. /\ w \in Texts /\ Len(w) = 2 * n - 1
      /\ \A j \in 1 .. n : w[2 * j - 1] = names[j][1]
  BY DEF Spells
<1>2. Cuts(w) = {2 * j : j \in 0 .. n}
  BY CutsIs
<1>3. Len(w) + 1 = 2 * n
  BY <1>1
<1>4. ASSUME NEW j \in 1 .. n
      PROVE  Between(w, 2 * (j - 1), NextCut(w, 2 * (j - 1))) = names[j]
  <2> DEFINE a == 2 * (j - 1)
             b == 2 * j
             later == {k \in Cuts(w) : k > a}
  <2>1. a \in Nat /\ b \in Nat /\ a < b /\ b <= Len(w) + 1 /\ b - a - 1 = 1
        /\ a + 1 = 2 * j - 1
    BY <1>3
  <2>2. First(later) = b
    <3>1. later \subseteq Nat
      BY <1>2
    <3>2. b \in later
      BY <1>2, <2>1
    <3>3. \A k \in later : b <= k
      BY <1>2
    <3> HIDE DEF later, b
    <3> QED
      BY <3>1, <3>2, <3>3, FirstAt
  <2>3. NextCut(w, a) = b
    BY <2>2, Zenon DEF NextCut
  <2> HIDE DEF a, b, later
  <2>4. /\ Between(w, a, b) \in Texts /\ Len(Between(w, a, b)) = b - a - 1
        /\ \A k \in 1 .. b - a - 1 : Between(w, a, b)[k] = w[a + k]
    BY <1>1, <2>1, BetweenIs
  <2>5. Len(Between(w, a, b)) = 1 /\ Between(w, a, b)[1] = w[a + 1]
    <3>1. 1 \in 1 .. b - a - 1
      BY <2>1
    <3> QED
      BY <2>1, <2>4, <3>1
  <2>6. Between(w, a, b)[1] = names[j][1]
    BY <1>1, <2>1, <2>5, Zenon
  <2>7. Between(w, a, b) = names[j]
    <3> DEFINE s == Between(w, a, b)
               t == names[j]
    <3>1. s \in Texts /\ t \in Texts /\ Len(s) = 1 /\ Len(t) = 1 /\ s[1] = t[1]
      BY <2>4, <2>5, <2>6
    <3> HIDE DEF s, t
    <3>2. \A i \in 1 .. Len(s) : s[i] = t[i]
      BY <3>1
    <3>3. s = t
      BY <3>1, <3>2, SameText
    <3> QED
      BY <3>3 DEF s, t
  <2> QED
    BY <2>3, <2>7, Zenon DEF a
<1>5. \A k : k \in Cuts(w) \ {Len(w) + 1} <=> \E j \in 1 .. n : k = 2 * (j - 1)
  <2>1. \A k : k \in Cuts(w) \ {2 * n} => \E j \in 1 .. n : k = 2 * (j - 1)
    <3>1. ASSUME NEW k \in Cuts(w), k # 2 * n PROVE \E j \in 1 .. n : k = 2 * (j - 1)
      <4>1. PICK i \in 0 .. n : k = 2 * i
        BY <1>2
      <4>2. i + 1 \in 1 .. n /\ k = 2 * ((i + 1) - 1)
        BY <3>1, <4>1
      <4> QED
        BY <4>2
    <3> QED
      BY <3>1
  <2>2. \A j \in 1 .. n : 2 * (j - 1) \in Cuts(w) /\ 2 * (j - 1) # 2 * n
    <3>1. ASSUME NEW j \in 1 .. n
          PROVE  2 * (j - 1) \in Cuts(w) /\ 2 * (j - 1) # 2 * n
      <4>1. j - 1 \in 0 .. n
        OBVIOUS
      <4> QED
        BY <1>2, <4>1
    <3> QED
      BY <3>1
  <2> QED
    BY <1>3, <2>1, <2>2
<1>6. \A j \in 1 .. n : names[j] # Empty
  BY DEF Empty
<1>7. Names(w) = {Between(w, i, NextCut(w, i)) : i \in Cuts(w) \ {Len(w) + 1}}
                 \ {Empty}
  BY NamesBy
<1> DEFINE piece(i) == Between(w, i, NextCut(w, i))
           cut(j) == 2 * (j - 1)
<1>8. \A j \in 1 .. n : piece(cut(j)) = names[j]
  BY <1>4
<1>9. \A k : k \in Cuts(w) \ {Len(w) + 1} <=> \E j \in 1 .. n : k = cut(j)
  BY <1>5
<1>10. Names(w) = {piece(i) : i \in Cuts(w) \ {Len(w) + 1}} \ {Empty}
  BY <1>7
<1> HIDE DEF piece, cut
<1>11. {piece(i) : i \in Cuts(w) \ {Len(w) + 1}} = {names[j] : j \in 1 .. n}
  <2>1. \A j \in 1 .. n : cut(j) \in Cuts(w) \ {Len(w) + 1}
    BY <1>9, Zenon
  <2>2. \A k \in Cuts(w) \ {Len(w) + 1} : \E j \in 1 .. n : piece(k) = names[j]
    BY <1>8, <1>9, Zenon
  <2>3. \A j \in 1 .. n : \E k \in Cuts(w) \ {Len(w) + 1} : piece(k) = names[j]
    BY <1>8, <2>1, Zenon
  <2> DEFINE C == Cuts(w) \ {Len(w) + 1}
  <2> HIDE DEF C
  <2>4. /\ \A k \in C : \E j \in 1 .. n : piece(k) = names[j]
        /\ \A j \in 1 .. n : \E k \in C : piece(k) = names[j]
    BY <2>2, <2>3 DEF C
  <2>5. {piece(i) : i \in C} = {names[j] : j \in 1 .. n}
    BY <2>4
  <2> QED
    BY <2>5 DEF C
<1> QED
  BY <1>6, <1>10, <1>11

LEMMA Sequenced ==
    ASSUME NEW N, IsFiniteSet(N)
    PROVE  LET s == SetToSeq(N)
           IN /\ s \in Seq(N)
              /\ N = {s[j] : j \in 1 .. Len(s)}
              /\ s = << >> <=> N = {}
<1> DEFINE s == SetToSeq(N)
           n == Cardinality(N)
<1>1. n \in Nat /\ ExistsBijection(1 .. n, N)
  BY FS_CardinalityType
<1>2. s = CHOOSE f \in [1 .. n -> N] : IsInjective(f)
  BY DEF SetToSeq
<1> HIDE DEF s, n
<1>3. \E f \in [1 .. n -> N] : IsInjective(f)
  BY <1>1 DEF ExistsBijection, Bijection, Injection
<1>4. s \in [1 .. n -> N] /\ IsInjective(s)
  BY <1>2, <1>3
<1>5. s \in Injection(1 .. n, N)
  BY <1>4 DEF Injection
<1>6. IsFiniteSet(1 .. n) /\ Cardinality(1 .. n) = n
  BY <1>1, FS_Interval
<1>7. s \in Surjection(1 .. n, N)
  BY <1>5, <1>6, FS_Injection DEF n
<1>8. s \in Seq(N) /\ Len(s) = n /\ DOMAIN s = 1 .. n
  BY <1>1, <1>4
<1>9. N = {s[j] : j \in 1 .. Len(s)}
  BY <1>4, <1>7, <1>8 DEF Surjection
<1>10. s = << >> <=> N = {}
  <2>1. s = << >> => N = {}
    BY <1>9
  <2>2. N = {} => s = << >>
    <3>1. ASSUME N = {} PROVE s = << >>
      <4>1. ASSUME NEW i \in 1 .. n PROVE FALSE
        BY <1>4, <3>1, <4>1
      <4>2. n = 0
        BY <1>1, <4>1
      <4> QED
        BY <1>8, <4>2, EmptySeq
    <3> QED
      BY <3>1
  <2> QED
    BY <2>1, <2>2
<1> QED
  BY <1>8, <1>9, <1>10 DEF s

LEMMA ListText ==
    ASSUME NEW N, N \subseteq Texts, IsFiniteSet(N)
    PROVE  Joined(SetToSeq(N)) \in Texts
<1>1. SetToSeq(N) \in Seq(N)
  BY Sequenced
<1>2. SetToSeq(N) \in Seq(Texts)
  BY <1>1, SeqMonotonic
<1> QED
  BY <1>2, JoinedText

(* Plain names come out of a list as they went in.                         *)
LEMMA ListRead ==
    ASSUME NEW N, N \subseteq Texts, IsFiniteSet(N), \A n \in N : Plain(n)
    PROVE  Names(Joined(SetToSeq(N))) = N
<1> DEFINE s == SetToSeq(N)
<1>1. /\ s \in Seq(N) /\ N = {s[j] : j \in 1 .. Len(s)}
      /\ s = << >> <=> N = {}
  BY Sequenced
<1> HIDE DEF s
<1>2. s \in Seq(Texts) /\ Len(s) \in Nat
  BY <1>1, SeqMonotonic
<1>3. \A j \in 1 .. Len(s) : s[j] \in N
  BY <1>1
<1>4. \A j \in 1 .. Len(s) : s[j] \in Texts /\ Len(s[j]) = 1 /\ s[j][1] # Comma
  BY <1>3 DEF Plain, Mark
<1>5. CASE s = << >>
  <2>1. Joined(s) = Empty /\ N = {}
    BY <1>1, <1>2, <1>5, JoinedIs
  <2>2. Names(Empty) = {}
    <3>1. Empty = << >> /\ Len(Empty) = 0
      BY DEF Empty
    <3>2. Cuts(Empty) = {0, 1}
      BY <3>1 DEF Cuts, Places
    <3>3. NextCut(Empty, 0) = 1
      <4>1. {j \in Cuts(Empty) : j > 0} = {1}
        BY <3>2
      <4>2. First({1}) = 1
        BY FirstAt
      <4> QED
        BY <4>1, <4>2 DEF NextCut
    <3>4. Between(Empty, 0, 1) = Empty
      <4>1. Len(Between(Empty, 0, 1)) = 1 - 0 - 1 /\ Between(Empty, 0, 1) \in Texts
        BY <3>1, Words, BetweenIs
      <4> QED
        BY <4>1, EmptySeq DEF Texts, Empty
    <3>5. Cuts(Empty) \ {Len(Empty) + 1} = {0}
      BY <3>1, <3>2
    <3>6. Names(Empty) = {Between(Empty, i, NextCut(Empty, i)) : i \in {0}} \ {Empty}
      BY <3>5, NamesBy
    <3> QED
      BY <3>3, <3>4, <3>6
  <2> QED
    BY <2>1, <2>2 DEF s
<1>6. CASE s # << >>
  <2>1. Spells(Joined(s), s, Len(s))
    BY <1>2, <1>4, <1>6, JoinedSpells
  <2>2. Len(s) >= 1
    BY <1>2, <1>6, EmptySeq
  <2>3. Names(Joined(s)) = {s[j] : j \in 1 .. Len(s)}
    BY <1>2, <1>4, <2>1, <2>2, NamesOfSpelt
  <2> QED
    BY <1>1, <2>3 DEF s
<1> QED
  BY <1>5, <1>6

LEMMA Texting ==
    /\ Text(Welcome) = <<"auth", ":", "success", ":", "wording">>
    /\ Text(Refusal) = <<"auth", ":", "failed", ":", "wording">>
    /\ \A N : Text(Listed(N)) = <<"users", ":">> \o Joined(SetToSeq(N))
    /\ \A t : Text(Notice(t)) = <<"system", ":">> \o t
    /\ \A t : Text(Fault(t)) = <<"error", ":">> \o t
    /\ \A n, t : Text(Direct(n, t)) = <<"private", ":">> \o n \o <<":">> \o t
    /\ \A n : Text(Sent(n)) = <<"private_sent", ":">> \o n
    /\ \A t : Text(Public(t)) = t
<1>1. Text(Welcome) = <<"auth", ":", "success", ":", "wording">>
  BY DEF Text, Welcome
<1>2. Text(Refusal) = <<"auth", ":", "failed", ":", "wording">>
  BY DEF Text, Refusal
<1>3. \A N : Text(Listed(N)) = <<"users", ":">> \o Joined(SetToSeq(N))
  <2>1. TAKE N
  <2> DEFINE m == Listed(N)
  <2>2. m.kind = "list" /\ m.names = N
    BY DEF Listed
  <2> HIDE DEF m
  <2>3. Text(m) = <<"users", ":">> \o Joined(SetToSeq(m.names))
    BY <2>2 DEF Text
  <2> QED
    BY <2>2, <2>3, Zenon DEF m
<1>4. \A t : Text(Notice(t)) = <<"system", ":">> \o t
  <2>1. TAKE t
  <2> DEFINE m == Notice(t)
  <2>2. m.kind = "notice" /\ m.text = t
    BY DEF Notice
  <2> HIDE DEF m
  <2>3. Text(m) = <<"system", ":">> \o m.text
    BY <2>2 DEF Text
  <2> QED
    BY <2>2, <2>3, Zenon DEF m
<1>5. \A t : Text(Fault(t)) = <<"error", ":">> \o t
  <2>1. TAKE t
  <2> DEFINE m == Fault(t)
  <2>2. m.kind = "error" /\ m.text = t
    BY DEF Fault
  <2> HIDE DEF m
  <2>3. Text(m) = <<"error", ":">> \o m.text
    BY <2>2 DEF Text
  <2> QED
    BY <2>2, <2>3, Zenon DEF m
<1>6. \A n, t : Text(Direct(n, t)) = <<"private", ":">> \o n \o <<":">> \o t
  <2>1. TAKE n, t
  <2> DEFINE m == Direct(n, t)
  <2>2. m.kind = "private" /\ m.from = n /\ m.text = t
    BY DEF Direct
  <2> HIDE DEF m
  <2>3. Text(m) = <<"private", ":">> \o m.from \o <<":">> \o m.text
    BY <2>2 DEF Text
  <2> QED
    BY <2>2, <2>3, Zenon DEF m
<1>7. \A n : Text(Sent(n)) = <<"private_sent", ":">> \o n
  <2>1. TAKE n
  <2> DEFINE m == Sent(n)
  <2>2. m.kind = "sent" /\ m.to = n
    BY DEF Sent
  <2> HIDE DEF m
  <2>3. Text(m) = <<"private_sent", ":">> \o m.to
    BY <2>2 DEF Text
  <2> QED
    BY <2>2, <2>3, Zenon DEF m
<1>8. \A t : Text(Public(t)) = t
  <2>1. TAKE t
  <2> DEFINE m == Public(t)
  <2>2. m.kind = "public" /\ m.text = t
    BY DEF Public
  <2> HIDE DEF m
  <2>3. Text(m) = m.text
    BY <2>2 DEF Text
  <2> QED
    BY <2>2, <2>3, Zenon DEF m
<1> QED
  BY <1>1, <1>2, <1>3, <1>4, <1>5, <1>6, <1>7, <1>8, Zenon

LEMMA AuthText ==
    /\ Text(Welcome) \in Texts /\ Tagged(Text(Welcome), "auth")
    /\ Shown(Text(Welcome)) = Welcome
    /\ Text(Refusal) \in Texts /\ Tagged(Text(Refusal), "auth")
    /\ Shown(Text(Refusal)) = Refusal
<1> DEFINE w == Text(Welcome)
           r == Text(Refusal)
<1>1. w \in Texts /\ r \in Texts
  BY Texting, Vocabulary DEF Texts
<1>2. Tagged(w, "auth") /\ Len(w) >= 3 /\ w[3] = "success"
  BY Texting DEF Tagged
<1>3. Tagged(r, "auth") /\ ~(Len(r) >= 3 /\ r[3] = "success")
  BY Texting DEF Tagged
<1> HIDE DEF w, r
<1>4. Shown(w) = Welcome
  BY <1>1, <1>2, ShownBy, Zenon
<1>5. Shown(r) = Refusal
  BY <1>1, <1>3, ShownBy, Zenon
<1> QED
  BY <1>1, <1>2, <1>3, <1>4, <1>5 DEF w, r

LEMMA TaggedText ==
    ASSUME NEW t \in Texts
    PROVE  /\ Text(Notice(t)) \in Texts /\ Tagged(Text(Notice(t)), "system")
           /\ After(Text(Notice(t)), 2) = t /\ Shown(Text(Notice(t))) = Notice(t)
           /\ Text(Fault(t)) \in Texts /\ Tagged(Text(Fault(t)), "error")
           /\ After(Text(Fault(t)), 2) = t /\ Shown(Text(Fault(t))) = Fault(t)
           /\ Text(Sent(t)) \in Texts /\ Shown(Text(Sent(t))) = Sent(t)
<1>1. /\ Text(Notice(t)) \in Texts /\ Tagged(Text(Notice(t)), "system")
      /\ After(Text(Notice(t)), 2) = t
  <2>1. Text(Notice(t)) = <<"system", ":">> \o t
    BY Texting, Zenon
  <2>2. "system" \in Word
    BY Vocabulary
  <2> QED
    BY <2>1, <2>2, Tag, Zenon
<1>2. /\ Text(Fault(t)) \in Texts /\ Tagged(Text(Fault(t)), "error")
      /\ After(Text(Fault(t)), 2) = t
  <2>1. Text(Fault(t)) = <<"error", ":">> \o t
    BY Texting, Zenon
  <2>2. "error" \in Word
    BY Vocabulary
  <2> QED
    BY <2>1, <2>2, Tag, Zenon
<1>3. /\ Text(Sent(t)) \in Texts /\ Tagged(Text(Sent(t)), "private_sent")
      /\ After(Text(Sent(t)), 2) = t
  <2>1. Text(Sent(t)) = <<"private_sent", ":">> \o t
    BY Texting, Zenon
  <2>2. "private_sent" \in Word
    BY Vocabulary
  <2> QED
    BY <2>1, <2>2, Tag, Zenon
<1>4. Shown(Text(Notice(t))) = Notice(t)
  BY <1>1, ShownBy, Zenon
<1>5. Shown(Text(Fault(t))) = Fault(t)
  BY <1>2, ShownBy, Zenon
<1>6. Shown(Text(Sent(t))) = Sent(t)
  BY <1>3, ShownBy, Zenon
<1> QED
  BY <1>1, <1>2, <1>3, <1>4, <1>5, <1>6, Zenon

LEMMA ListedText ==
    ASSUME NEW N, N \subseteq Texts, IsFiniteSet(N)
    PROVE  LET w == Text(Listed(N))
           IN /\ w \in Texts /\ Tagged(w, "users")
              /\ Shown(w) = Listed(Names(After(w, 2)))
              /\ (\A n \in N : Plain(n)) => Shown(w) = Listed(N)
<1> DEFINE w == Text(Listed(N))
           t == Joined(SetToSeq(N))
<1>1. t \in Texts
  BY ListText
<1>2. (\A n \in N : Plain(n)) => Names(t) = N
  BY ListRead
<1>3. w = <<"users", ":">> \o t
  BY Texting
<1> HIDE DEF w, t
<1>4. w \in Texts /\ Tagged(w, "users") /\ After(w, 2) = t
  BY <1>1, <1>3, Tag, Vocabulary
<1>5. Shown(w) = Listed(Names(After(w, 2)))
  BY <1>4, ShownBy, Zenon
<1> QED
  BY <1>2, <1>4, <1>5, Zenon DEF w

LEMMA DirectText ==
    ASSUME NEW n, ColonFree(n), NEW t \in Texts
    PROVE  LET w == Text(Direct(n, t))
           IN /\ w \in Texts /\ Tagged(w, "private")
              /\ Places(w, ":", 3) # {}
              /\ Between(w, 2, First(Places(w, ":", 3))) = n
              /\ After(w, First(Places(w, ":", 3))) = t
              /\ Shown(w) = Direct(n, t)
<1> DEFINE w == Text(Direct(n, t))
<1>1. w = <<"private", ":">> \o n \o <<":">> \o t
  BY Texting
<1>2. n \in Texts /\ "private" \in Word
  BY Vocabulary DEF ColonFree
<1>3. Joins(w, <<"private", ":">>, n, ":", t) /\ Tagged(w, "private")
  BY <1>1, <1>2, Three, Zenon
<1> HIDE DEF w
<1>4. w \in Texts
  BY <1>3 DEF Joins
<1>5. /\ Places(w, ":", 3) # {}
      /\ Between(w, 2, First(Places(w, ":", 3))) = n
      /\ After(w, First(Places(w, ":", 3))) = t
  BY <1>2, <1>3, ThreeSplit, Zenon
<1>6. Shown(w) = Direct(n, t)
  BY <1>3, <1>4, <1>5, ShownBy, Zenon
<1> QED
  BY <1>3, <1>4, <1>5, <1>6 DEF w

LEMMA AboutText ==
    ASSUME NEW n \in Texts, NEW what \in Word
    PROVE  About(n, what) \in Texts
<1> DEFINE h == <<"User", Space>>
           e == <<Space, what>>
<1>1. h \in Texts /\ e \in Texts
  BY Words, Vocabulary
<1> HIDE DEF h, e
<1>2. h \o n \in Texts
  BY <1>1, Cat
<1>3. (h \o n) \o e \in Texts
  BY <1>1, <1>2, Cat
<1> QED
  BY <1>3 DEF h, e, About

-----------------------------------------------------------------------------
(* What MessageParser reads, and writes again.                             *)

LEMMA ParseBy ==
    ASSUME NEW w \in Texts
    PROVE  LET colons == Places(w, ":", 1)
               i == First(colons)
               rest == Places(w, ":", 3)
               j == First(rest)
           IN /\ Tagged(w, "auth") =>
                    Parse(w) = ChatMessage("AUTH", Empty, Empty, w)
              /\ Tagged(w, "users") =>
                    Parse(w) = ChatMessage("USER_LIST", Empty, Empty, w)
              /\ Tagged(w, "error") =>
                    Parse(w) = ChatMessage("ERROR", Empty, Empty, After(w, 2))
              /\ Tagged(w, "system") =>
                    Parse(w) = ChatMessage("SYSTEM", Empty, Empty, After(w, 2))
              /\ Tagged(w, "private") /\ rest # {} =>
                    Parse(w) = ChatMessage("PRIVATE", Between(w, 2, j), Empty,
                                           After(w, j))
              /\ (\A x \in Keyword : ~Tagged(w, x)) /\ w[1] # "@" /\ colons # {} =>
                    Parse(w) = ChatMessage("BROADCAST", Between(w, 0, i), Empty,
                                           Chopped(After(w, i)))
<1> DEFINE colons == Places(w, ":", 1)
           i == First(colons)
           rest == Places(w, ":", 3)
           j == First(rest)
           auth0 == \E k \in {"login", "register", "auth"} : IsPrefix(<<k, ":">>, w)
           users0 == IsPrefix(<<"users", ":">>, w)
           error0 == IsPrefix(<<"error", ":">>, w)
           system0 == IsPrefix(<<"system", ":">>, w)
           private0 == IsPrefix(<<"private", ":">>, w)
           at0 == IsPrefix(<<"@">>, w)
           auth == ChatMessage("AUTH", Empty, Empty, w)
           users == ChatMessage("USER_LIST", Empty, Empty, w)
           error == ChatMessage("ERROR", Empty, Empty, After(w, 2))
           system == ChatMessage("SYSTEM", Empty, Empty, After(w, 2))
           none == ChatMessage("PRIVATE", Empty, Empty, Empty)
           private == ChatMessage("PRIVATE", Between(w, 2, j), Empty, After(w, j))
           sent == ChatMessage("PRIVATE", Empty, Between(w, 1, i), After(w, i))
           whole == ChatMessage("BROADCAST", Empty, Empty, w)
           said == ChatMessage("BROADCAST", Between(w, 0, i), Empty,
                               Chopped(After(w, i)))
<1>1. Parse(w) =
        CASE auth0 -> auth
          [] users0 -> users
          [] error0 -> error
          [] system0 -> system
          [] private0 -> IF rest = {} THEN none ELSE private
          [] at0 -> IF colons = {} THEN none ELSE sent
          [] OTHER -> IF colons = {} THEN whole ELSE said
  BY Zenon DEF Parse
<1>2. auth0 <=> Tagged(w, "login") \/ Tagged(w, "register") \/ Tagged(w, "auth")
  BY TagPrefix, Vocabulary
<1>3. /\ users0 <=> Tagged(w, "users")
      /\ private0 <=> Tagged(w, "private")
      /\ system0 <=> Tagged(w, "system")
      /\ error0 <=> Tagged(w, "error")
  BY TagPrefix, Vocabulary
<1>4. at0 => w[1] = "@"
  BY BeginsWith, Vocabulary
<1>6. (\A x \in Keyword : ~Tagged(w, x)) =>
        /\ ~auth0 /\ ~users0 /\ ~private0 /\ ~system0 /\ ~error0
  BY <1>2, <1>3 DEF Keyword
<1>7. \A x : Tagged(w, x) => w[1] = x
  BY DEF Tagged
<1> HIDE DEF colons, rest, auth0, users0, error0, system0, private0, at0,
             auth, users, error, system, none, private, sent, whole, said
<1>8. /\ Tagged(w, "auth") => Parse(w) = auth
      /\ Tagged(w, "users") => Parse(w) = users
      /\ Tagged(w, "error") => Parse(w) = error
      /\ Tagged(w, "system") => Parse(w) = system
      /\ Tagged(w, "private") /\ rest # {} => Parse(w) = private
      /\ (\A x \in Keyword : ~Tagged(w, x)) /\ w[1] # "@" /\ colons # {} =>
            Parse(w) = said
  <2>1. /\ Tagged(w, "auth") => Parse(w) = auth
        /\ Tagged(w, "users") => Parse(w) = users
        /\ Tagged(w, "error") => Parse(w) = error
        /\ Tagged(w, "system") => Parse(w) = system
        /\ Tagged(w, "private") /\ rest # {} => Parse(w) = private
    <3>1. /\ auth0 => w[1] \in {"login", "register", "auth"}
          /\ users0 => w[1] = "users"
          /\ error0 => w[1] = "error"
          /\ system0 => w[1] = "system"
          /\ private0 => w[1] = "private"
      BY <1>2, <1>3, <1>7
    <3>2. /\ Tagged(w, "auth") => auth0 /\ ~users0 /\ ~error0 /\ ~system0
                                   /\ ~private0 /\ ~at0
          /\ Tagged(w, "users") => users0 /\ ~auth0 /\ ~error0 /\ ~system0
                                   /\ ~private0 /\ ~at0
          /\ Tagged(w, "error") => error0 /\ ~auth0 /\ ~users0 /\ ~system0
                                   /\ ~private0 /\ ~at0
          /\ Tagged(w, "system") => system0 /\ ~auth0 /\ ~users0 /\ ~error0
                                   /\ ~private0 /\ ~at0
          /\ Tagged(w, "private") => private0 /\ ~auth0 /\ ~users0 /\ ~error0
                                   /\ ~system0 /\ ~at0
      BY <1>2, <1>3, <1>4, <1>7, <3>1
    <3>3. Tagged(w, "auth") => Parse(w) = auth
      BY <1>1, <3>2
    <3>4. Tagged(w, "users") => Parse(w) = users
      BY <1>1, <3>2
    <3>5. Tagged(w, "error") => Parse(w) = error
      BY <1>1, <3>2
    <3>6. Tagged(w, "system") => Parse(w) = system
      BY <1>1, <3>2
    <3>7. Tagged(w, "private") /\ rest # {} => Parse(w) = private
      BY <1>1, <3>2
    <3> QED
      BY <3>3, <3>4, <3>5, <3>6, <3>7
  <2>2. (\A x \in Keyword : ~Tagged(w, x)) /\ w[1] # "@" /\ colons # {} =>
            Parse(w) = said
    BY <1>1, <1>4, <1>6
  <2> QED
    BY <2>1, <2>2
<1> QED
  BY <1>8 DEF colons, rest, auth, users, error, system, private, said

LEMMA ChoppedSpace ==
    ASSUME NEW t \in Texts
    PROVE  Chopped(<<Space>> \o t) = t
<1> DEFINE space == <<Space>>
           s == space \o t
<1>1. space \in Texts
  BY Words, Vocabulary
<1>2. Len(space) = 1 /\ space[1] = Space
  OBVIOUS
<1> HIDE DEF space
<1>3. /\ s \in Texts /\ Len(s) = Len(space) + Len(t)
      /\ \A i \in 1 .. Len(space) : s[i] = space[i]
      /\ \A i \in 1 .. Len(t) : s[Len(space) + i] = t[i]
  BY <1>1, Cat
<1> HIDE DEF s
<1>4. s[1] = Space
  BY <1>2, <1>3
<1>5. Len(t) \in Nat /\ Len(s) = 1 + Len(t)
  BY <1>2, <1>3, TextIs
<1>6. s # << >>
  BY <1>5
<1>7. /\ Tail(s) \in Texts /\ Len(Tail(s)) = Len(s) - 1
      /\ \A i \in 1 .. Len(Tail(s)) : Tail(s)[i] = s[i + 1]
  BY <1>3, <1>6, HeadTailProperties DEF Texts
<1>8. Len(Tail(s)) = Len(t)
  BY <1>5, <1>7
<1>9. \A i \in 1 .. Len(Tail(s)) : Tail(s)[i] = t[i]
  BY <1>2, <1>3, <1>5, <1>7
<1>10. Tail(s) = t
  BY <1>7, <1>8, <1>9, SameText
<1>11. s[1] \in Mark
  BY <1>4 DEF Mark
<1>12. Chopped(s) = t
  BY <1>10, <1>11, Zenon DEF Chopped
<1> QED
  BY <1>12 DEF s, space

LEMMA Serializing ==
    ASSUME NEW s, NEW t
    PROVE  /\ Serialize(ChatMessage("AUTH", Empty, Empty, t)) = t
           /\ Serialize(ChatMessage("USER_LIST", Empty, Empty, t)) = t
           /\ Serialize(ChatMessage("ERROR", Empty, Empty, t)) =
                 <<"error", ":">> \o t
           /\ Serialize(ChatMessage("SYSTEM", Empty, Empty, t)) =
                 <<"system", ":">> \o t
           /\ s # Empty => Serialize(ChatMessage("PRIVATE", s, Empty, t)) =
                 <<"private", ":">> \o s \o <<":">> \o t
           /\ s # Empty => Serialize(ChatMessage("BROADCAST", s, Empty, t)) =
                 Saying(s, t)
<1> DEFINE is(m, type, sender) ==
             /\ m.type = type /\ m.sender = sender /\ m.content = t
<1>1. \A type, sender : is(ChatMessage(type, sender, Empty, t), type, sender)
  BY DEF ChatMessage
<1> DEFINE said == Saying(s, t)
           private == <<"private", ":">> \o s \o <<":">> \o t
           error == <<"error", ":">> \o t
           system == <<"system", ":">> \o t
<1>2. ASSUME NEW m, is(m, "AUTH", Empty) \/ is(m, "USER_LIST", Empty)
      PROVE  Serialize(m) = t
  BY <1>2 DEF Serialize
<1>3. ASSUME NEW m, is(m, "ERROR", Empty) PROVE Serialize(m) = error
  <2>1. m.type = "ERROR" /\ m.content = t
    BY <1>3
  <2>2. Serialize(m) = <<"error", ":">> \o m.content
    BY <2>1 DEF Serialize
  <2> QED
    BY <2>1, <2>2, Zenon
<1>4. ASSUME NEW m, is(m, "SYSTEM", Empty) PROVE Serialize(m) = system
  <2>1. m.type = "SYSTEM" /\ m.content = t
    BY <1>4
  <2>2. Serialize(m) = <<"system", ":">> \o m.content
    BY <2>1 DEF Serialize
  <2> QED
    BY <2>1, <2>2, Zenon
<1>5. ASSUME NEW m, is(m, "PRIVATE", s), s # Empty PROVE Serialize(m) = private
  <2>1. m.type = "PRIVATE" /\ m.sender = s /\ m.content = t
    BY <1>5
  <2>2. Serialize(m) = <<"private", ":">> \o m.sender \o <<":">> \o m.content
    BY <1>5, <2>1 DEF Serialize
  <2> QED
    BY <2>1, <2>2, Zenon
<1>6. ASSUME NEW m, is(m, "BROADCAST", s), s # Empty PROVE Serialize(m) = said
  <2>1. m.type = "BROADCAST" /\ m.sender = s /\ m.content = t
    BY <1>6
  <2>2. Serialize(m) = Saying(m.sender, m.content)
    BY <1>6, <2>1 DEF Serialize
  <2> QED
    BY <2>1, <2>2, Zenon
<1> QED
  BY <1>1, <1>2, <1>3, <1>4, <1>5, <1>6, Zenon

-----------------------------------------------------------------------------
(* What can be on the way: to the server, from each client,                *)

Entries ==
    {[line |-> LoginText(u, p), meant |-> LoginRequest(u, p)] :
        u \in Texts, p \in Texts}
    \cup {[line |-> RegisterText(u, p, e), meant |-> RegisterRequest(u, p, e)] :
             u \in Texts, p \in Texts, e \in Texts}
UsersLine == [line |-> <<"users">>, meant |-> Only("users")]
SaidLine(x) == [line |-> BroadcastText(x.text), meant |-> SayRequest(x.text)]
PrivateLine(x) ==
    [line |-> PrivateText(x.to, x.text), meant |-> PrivateRequest(x.to, x.text)]
By(a) == {x \in typed : x.by = a}
Requests(a) ==
    Entries \cup {UsersLine}
       \cup {SaidLine(x) : x \in {y \in By(a) : y.to = Everybody}}
       \cup {PrivateLine(x) : x \in By(a)}

(* and from it, to each client.                                            *)
AnyAnswer ==
    {Welcome, Refusal} \cup {Listed(N) : N \in SUBSET Texts}
       \cup {Notice(t) : t \in Texts} \cup {Fault(t) : t \in Texts}
       \cup {Sent(t) : t \in Texts} \cup {Public(t) : t \in Texts}
       \cup {Direct(n, t) : n \in Texts, t \in Texts}
IsAnswer(d, m) ==
    \/ m \in {Welcome, Refusal}
    \/ \E N \in SUBSET Texts : IsFiniteSet(N) /\ m = Listed(N)
    \/ \E t \in Texts : m \in {Notice(t), Fault(t), Sent(t)}
    \/ \E n, t \in Texts :
          /\ ColonFree(n) /\ user[d] # NoName /\ TypedTo(n, user[d], t)
          /\ m = Direct(n, t)
    \/ \E e \in Client, t \in Texts :
          /\ user[e] # NoName
          /\ e \in Patient => Typed(user[e], Everybody, t)
          /\ m = Public(Saying(user[e], t))
Answers(d) == {m \in AnyAnswer : IsAnswer(d, m)}
Written(m) == [line |-> Text(m), meant |-> m]
Served(d) == {Written(m) : m \in Answers(d)}

AccountsOK ==
    /\ accounts \subseteq [name : Texts, password : Texts, email : Texts]
    /\ \A x, y \in accounts : x.name = y.name => x = y
UsersOK ==
    /\ user \in [Client -> Texts]
    /\ \A a \in Client : user[a] # NoName =>
          ColonFree(user[a]) /\ \E x \in accounts : x.name = user[a]
    /\ \A a, b \in Client : user[a] = user[b] /\ user[a] # NoName => a = b
TypedOK == typed \subseteq [by : Client, to : Texts, text : Texts]
UpOK ==
    up = [a \in Client |-> up[a]] /\ \A a \in Client : up[a] \in Seq(Requests(a))
DownOK ==
    down = [a \in Client |-> down[a]] /\ \A a \in Client : down[a] \in Seq(Served(a))

LEMMA NameNot ==
    NoName \in Texts /\ ~ColonFree(NoName) /\ ~Plain(NoName)
<1>1. NoName \in Texts
  BY Words, Vocabulary DEF NoName
<1>2. NoName[1] = ":" /\ Len(NoName) = 1
  BY DEF NoName
<1> QED
  BY <1>1, <1>2 DEF ColonFree, Plain, Mark

LEMMA PlainIsColonFree ==
    ASSUME NEW n \in Texts, Plain(n)
    PROVE  ColonFree(n) /\ n # NoName
BY NameNot DEF Plain, ColonFree, Mark

LEMMA RequestIs ==
    ASSUME TypedOK, NEW a \in Client, NEW r \in Requests(a)
    PROVE  /\ \/ r \in Entries
              \/ r = UsersLine
              \/ \E x \in By(a) : x.to = Everybody /\ r = SaidLine(x)
              \/ \E x \in By(a) : r = PrivateLine(x)
           /\ r.line \in Texts
           /\ r.meant.op \in {"login", "register", "users", "say", "private"}
           /\ r.meant.op \in {"login", "register"} <=> r \in Entries
<1>1. \/ r \in Entries
      \/ r = UsersLine
      \/ \E x \in By(a) : x.to = Everybody /\ r = SaidLine(x)
      \/ \E x \in By(a) : r = PrivateLine(x)
  BY DEF Requests
<1>2. \A x \in By(a) : x.text \in Texts /\ x.to \in Texts
  BY DEF By, TypedOK
<1>3. CASE r \in Entries
  <2>1. CASE \E u, p \in Texts : r = [line |-> LoginText(u, p),
                                      meant |-> LoginRequest(u, p)]
    <3>1. PICK u \in Texts, p \in Texts : r = [line |-> LoginText(u, p),
                                               meant |-> LoginRequest(u, p)]
      BY <2>1
    <3>2. r.line = LoginText(u, p) /\ r.meant.op = "login"
      BY <3>1 DEF LoginRequest
    <3> QED
      BY <1>1, <1>3, <3>2, LoginRead
  <2>2. CASE \E u, p, e \in Texts : r = [line |-> RegisterText(u, p, e),
                                         meant |-> RegisterRequest(u, p, e)]
    <3>1. PICK u \in Texts, p \in Texts, e \in Texts :
             r = [line |-> RegisterText(u, p, e), meant |-> RegisterRequest(u, p, e)]
      BY <2>2
    <3>2. r.line = RegisterText(u, p, e) /\ r.meant.op = "register"
      BY <3>1 DEF RegisterRequest
    <3>3. r.line \in Texts
      BY <3>2, RegisterRead
    <3> QED
      BY <1>1, <1>3, <3>2, <3>3
  <2> QED
    BY <1>3, <2>1, <2>2 DEF Entries
<1>4. \A e \in Entries : e.meant.op \in {"login", "register"}
  BY DEF Entries, LoginRequest, RegisterRequest
<1>5. CASE r = UsersLine
  <2>1. r.line \in Texts /\ r.meant.op = "users"
    BY <1>5, Words, Vocabulary DEF UsersLine, Only
  <2> QED
    BY <1>1, <1>4, <2>1
<1>6. CASE \E x \in By(a) : x.to = Everybody /\ r = SaidLine(x)
  <2>1. PICK x \in By(a) : r = SaidLine(x)
    BY <1>6
  <2>2. r.line = BroadcastText(x.text) /\ r.meant.op = "say"
    BY <2>1 DEF SaidLine, SayRequest
  <2>3. r.line \in Texts
    BY <1>2, <2>2, SayRead
  <2> QED
    BY <1>1, <1>4, <2>2, <2>3
<1>7. CASE \E x \in By(a) : r = PrivateLine(x)
  <2>1. PICK x \in By(a) : r = PrivateLine(x)
    BY <1>7
  <2>2. r.line = PrivateText(x.to, x.text) /\ r.meant.op = "private"
    BY <2>1 DEF PrivateLine, PrivateRequest
  <2>3. r.line \in Texts
    BY <1>2, <2>2, PrivateParts
  <2> QED
    BY <1>1, <1>4, <2>2, <2>3
<1> QED
  BY <1>1, <1>3, <1>5, <1>6, <1>7

LEMMA AnswerText ==
    ASSUME UsersOK, NEW d \in Client, NEW m \in Answers(d)
    PROVE  Text(m) \in Texts
<1>1. IsAnswer(d, m)
  BY DEF Answers
<1>2. CASE m \in {Welcome, Refusal}
  BY <1>2, AuthText
<1>3. CASE \E N \in SUBSET Texts : IsFiniteSet(N) /\ m = Listed(N)
  <2>1. PICK N \in SUBSET Texts : IsFiniteSet(N) /\ m = Listed(N)
    BY <1>3
  <2> QED
    BY <2>1, ListedText
<1>4. CASE \E t \in Texts : m \in {Notice(t), Fault(t), Sent(t)}
  BY <1>4, TaggedText
<1>5. CASE \E n, t \in Texts : ColonFree(n) /\ m = Direct(n, t)
  <2>1. PICK n \in Texts, t \in Texts : ColonFree(n) /\ m = Direct(n, t)
    BY <1>5
  <2> QED
    BY <2>1, DirectText
<1>6. CASE \E e \in Client, t \in Texts : m = Public(Saying(user[e], t))
  <2>1. PICK e \in Client, t \in Texts : m = Public(Saying(user[e], t))
    BY <1>6
  <2>2. user[e] \in Texts
    BY DEF UsersOK
  <2>3. Saying(user[e], t) \in Texts
    BY <2>2, SayingParts
  <2> QED
    BY <2>1, <2>3, Texting
<1> QED
  BY <1>1, <1>2, <1>3, <1>4, <1>5, <1>6 DEF IsAnswer

(* Names stay and what was typed stays: so does all that follows from them. *)
UserStays == \A a \in Client : user[a] # NoName => user'[a] = user[a]

LEMMA TypedStays ==
    ASSUME TypedOK, UserStays, typed \subseteq typed',
           NEW n, n # NoName, NEW to, NEW text
    PROVE  /\ Typed(n, to, text) => Typed(n, to, text)'
           /\ TypedTo(n, to, text) => TypedTo(n, to, text)'
<1>1. \A t \in typed : user[t.by] = n => t \in typed' /\ user'[t.by] = n
  BY DEF TypedOK, UserStays
<1> QED
  BY <1>1, Zenon DEF Typed, TypedTo

LEMMA RequestsStay ==
    ASSUME typed \subseteq typed', NEW d
    PROVE  Requests(d) \subseteq Requests(d)'
BY DEF Requests, By

LEMMA AnswersStay ==
    ASSUME UsersOK, TypedOK, UserStays, typed \subseteq typed', NEW d \in Client
    PROVE  Served(d) \subseteq Served(d)'
<1>1. ASSUME NEW m, IsAnswer(d, m) PROVE IsAnswer(d, m)'
  <2>1. CASE m \in {Welcome, Refusal}
    BY <2>1, Zenon DEF IsAnswer
  <2>2. CASE \E N \in SUBSET Texts : IsFiniteSet(N) /\ m = Listed(N)
    BY <2>2, Zenon DEF IsAnswer
  <2>3. CASE \E t \in Texts : m \in {Notice(t), Fault(t), Sent(t)}
    BY <2>3, Zenon DEF IsAnswer
  <2>4. CASE \E n, t \in Texts :
               /\ ColonFree(n) /\ user[d] # NoName /\ TypedTo(n, user[d], t)
               /\ m = Direct(n, t)
    <3>1. PICK n \in Texts, t \in Texts :
             /\ ColonFree(n) /\ user[d] # NoName /\ TypedTo(n, user[d], t)
             /\ m = Direct(n, t)
      BY <2>4
    <3>2. n # NoName /\ user'[d] = user[d]
      BY <3>1, NameNot DEF UserStays
    <3>3. \E x \in typed' :
             user'[x.by] = n /\ PrivateText(x.to, x.text) = PrivateText(user[d], t)
      BY <3>1, <3>2, TypedStays DEF TypedTo
    <3> QED
      BY <3>1, <3>2, <3>3, Zenon DEF IsAnswer, TypedTo
  <2>5. CASE \E e \in Client, t \in Texts :
               /\ user[e] # NoName
               /\ e \in Patient => Typed(user[e], Everybody, t)
               /\ m = Public(Saying(user[e], t))
    <3>1. PICK e \in Client, t \in Texts :
               /\ user[e] # NoName
               /\ e \in Patient => Typed(user[e], Everybody, t)
               /\ m = Public(Saying(user[e], t))
      BY <2>5
    <3>2. user'[e] = user[e]
      BY <3>1 DEF UserStays
    <3>3. e \in Patient => \E x \in typed' : /\ user'[x.by] = user[e]
                                            /\ x.to = Everybody /\ x.text = t
      BY <3>1, TypedStays DEF Typed
    <3> QED
      BY <3>1, <3>2, <3>3, Zenon DEF IsAnswer, Typed
  <2> QED
    BY <1>1, <2>1, <2>2, <2>3, <2>4, <2>5, Zenon DEF IsAnswer
<1> QED
  BY <1>1 DEF Served, Answers

LEMMA IsOneOf ==
    ASSUME UsersOK', NEW d \in Client, NEW m, IsAnswer(d, m)'
    PROVE  m \in Answers(d)'
<1>1. CASE \E e \in Client, t \in Texts : m = Public(Saying(user'[e], t))
  <2>1. PICK e \in Client, t \in Texts : m = Public(Saying(user'[e], t))
    BY <1>1
  <2>2. Saying(user'[e], t) \in Texts
    BY SayingParts DEF UsersOK
  <2>3. m \in AnyAnswer
    BY <2>1, <2>2 DEF AnyAnswer
  <2> QED
    BY <2>3 DEF Answers
<1>2. CASE ~\E e \in Client, t \in Texts : m = Public(Saying(user'[e], t))
  <2>1. m \in AnyAnswer
    BY <1>2 DEF IsAnswer, AnyAnswer
  <2> QED
    BY <2>1 DEF Answers
<1> QED
  BY <1>1, <1>2

(* Queues.                                                                 *)
(* w holds what q and r hold.                                              *)
OfBoth(w, q, r) ==
    /\ \A i \in DOMAIN w : \/ \E j \in DOMAIN q : w[i] = q[j]
                          \/ \E j \in DOMAIN r : w[i] = r[j]
    /\ \A j \in DOMAIN q : \E i \in DOMAIN w : w[i] = q[j]
    /\ \A j \in DOMAIN r : \E i \in DOMAIN w : w[i] = r[j]

LEMMA RangeConcat ==
    ASSUME NEW S, NEW q \in Seq(S), NEW r \in Seq(S)
    PROVE  q \o r \in Seq(S) /\ OfBoth(q \o r, q, r)
<1> DEFINE w == q \o r
<1>1. /\ Len(q) \in Nat /\ DOMAIN q = 1 .. Len(q)
      /\ Len(r) \in Nat /\ DOMAIN r = 1 .. Len(r)
  BY LenProperties
<1>2. /\ w \in Seq(S) /\ Len(w) = Len(q) + Len(r)
      /\ \A i \in 1 .. Len(q) + Len(r) :
            w[i] = IF i <= Len(q) THEN q[i] ELSE r[i - Len(q)]
  BY ConcatProperties
<1> HIDE DEF w
<1>3. DOMAIN w = 1 .. Len(q) + Len(r)
  BY <1>2
<1>4. ASSUME NEW i \in DOMAIN w
      PROVE  (\E j \in DOMAIN q : w[i] = q[j]) \/ (\E j \in DOMAIN r : w[i] = r[j])
  <2>1. CASE i <= Len(q)
    BY <1>1, <1>2, <1>3, <2>1
  <2>2. CASE ~(i <= Len(q))
    <3>1. i - Len(q) \in DOMAIN r /\ w[i] = r[i - Len(q)]
      BY <1>1, <1>2, <1>3, <2>2
    <3> QED
      BY <3>1
  <2> QED
    BY <2>1, <2>2
<1>5. ASSUME NEW j \in DOMAIN q PROVE \E i \in DOMAIN w : w[i] = q[j]
  BY <1>1, <1>2, <1>3
<1>6. ASSUME NEW j \in DOMAIN r PROVE \E i \in DOMAIN w : w[i] = r[j]
  <2> DEFINE i == Len(q) + j
  <2>1. i \in DOMAIN w /\ i - Len(q) = j /\ ~(i <= Len(q))
    BY <1>1, <1>3
  <2> HIDE DEF i
  <2>2. w[i] = r[j]
    BY <1>2, <1>3, <2>1
  <2> QED
    BY <2>1, <2>2
<1>7. OfBoth(w, q, r)
  BY <1>4, <1>5, <1>6, Zenon DEF OfBoth
<1> QED
  BY <1>2, <1>7 DEF w

LEMMA RangeTail ==
    ASSUME NEW S, NEW q \in Seq(S), q # << >>
    PROVE  /\ Tail(q) \in Seq(S) /\ Head(q) \in S /\ Head(q) = q[1]
           /\ 1 \in DOMAIN q
           /\ \A i \in DOMAIN Tail(q) : \E j \in DOMAIN q : Tail(q)[i] = q[j]
           /\ \A j \in DOMAIN q : j # 1 =>
                 \E i \in DOMAIN Tail(q) : Tail(q)[i] = q[j]
           /\ Len(q) = 1 => Tail(q) = << >>
<1>1. /\ Len(q) \in Nat /\ DOMAIN q = 1 .. Len(q) /\ Len(q) # 0
  BY LenProperties, EmptySeq
<1>2. /\ Head(q) \in S /\ Tail(q) \in Seq(S) /\ Len(Tail(q)) = Len(q) - 1
      /\ \A i \in 1 .. Len(Tail(q)) : Tail(q)[i] = q[i + 1]
  BY HeadTailProperties
<1>3. Head(q) = q[1] /\ 1 \in DOMAIN q
  BY <1>1
<1>4. DOMAIN Tail(q) = 1 .. Len(q) - 1
  BY <1>2, LenProperties
<1>5. ASSUME NEW i \in DOMAIN Tail(q) PROVE \E j \in DOMAIN q : Tail(q)[i] = q[j]
  <2>1. i + 1 \in DOMAIN q /\ Tail(q)[i] = q[i + 1]
    BY <1>1, <1>2, <1>4
  <2> QED
    BY <2>1
<1>6. ASSUME NEW j \in DOMAIN q, j # 1
      PROVE  \E i \in DOMAIN Tail(q) : Tail(q)[i] = q[j]
  <2> DEFINE i == j - 1
  <2>1. i \in DOMAIN Tail(q) /\ i + 1 = j /\ i \in 1 .. Len(Tail(q))
    BY <1>1, <1>2, <1>4, <1>6
  <2> HIDE DEF i
  <2>2. Tail(q)[i] = q[j]
    BY <1>2, <2>1
  <2> QED
    BY <2>1, <2>2
<1>7. Len(q) = 1 => Tail(q) = << >>
  <2>1. Len(q) = 1 => Len(Tail(q)) = 0
    BY <1>2
  <2> QED
    BY <1>2, <2>1, EmptySeq
<1> QED
  BY <1>2, <1>3, <1>5, <1>6, <1>7

LEMMA ShortSeqs ==
    ASSUME NEW S
    PROVE  /\ << >> \in Seq(S) /\ DOMAIN << >> = {}
           /\ \A x \in S : <<x>> \in Seq(S) /\ DOMAIN <<x>> = {1} /\ <<x>>[1] = x
           /\ \A x, y \in S : /\ <<x, y>> \in Seq(S) /\ DOMAIN <<x, y>> = {1, 2}
                              /\ <<x, y>>[1] = x /\ <<x, y>>[2] = y
OBVIOUS

(* Who waits for answers has sent a login or a registration and nothing    *)
(* else as long as the session has no name, and none once it has; and does *)
(* not come to chat mode before.                                           *)
Entering(a, op) == Len(up[a]) = 1 /\ up[a][1].meant.op = op
PatientAt(a) ==
    IF user[a] = NoName
    THEN /\ ui[a] # "chat"
         /\ \/ up[a] = << >>
            \/ /\ Entering(a, "login") \/ Entering(a, "register")
               /\ \A m \in OnTheWay(a) : m.meant.kind \notin {"welcome", "refusal"}
         /\ ui[a] = "login" =>
               \/ Entering(a, "login")
               \/ /\ up[a] = << >>
                  /\ \A m \in OnTheWay(a) : m.meant.kind # "welcome"
                  /\ flag[a] => \E m \in OnTheWay(a) : m.meant.kind = "refusal"
    ELSE \A i \in DOMAIN up[a] : up[a][i].meant.op \notin {"login", "register"}
PatientOK == \A a \in Patient : PatientAt(a)

LEMMA EntriesAre ==
    ASSUME NEW r \in Entries
    PROVE  \/ \E u, p \in Texts : r = [line |-> LoginText(u, p),
                                       meant |-> LoginRequest(u, p)]
           \/ \E u, p, e \in Texts : r = [line |-> RegisterText(u, p, e),
                                          meant |-> RegisterRequest(u, p, e)]
BY DEF Entries

LEMMA EntryRead ==
    ASSUME NEW r \in Entries
    PROVE  /\ FirstCommand(r.line).op = r.meant.op
           /\ r.line[1] # "@"
           /\ r.meant.op \in {"login", "register"}
<1>1. CASE \E u, p \in Texts : r = [line |-> LoginText(u, p),
                                    meant |-> LoginRequest(u, p)]
  <2>1. PICK u \in Texts, p \in Texts : r = [line |-> LoginText(u, p),
                                             meant |-> LoginRequest(u, p)]
    BY <1>1
  <2>2. r.line = LoginText(u, p) /\ r.meant.op = "login"
    BY <2>1 DEF LoginRequest
  <2>3. LoginText(u, p)[1] = "login"
    BY Three, Vocabulary DEF LoginText, Tagged
  <2> QED
    BY <2>2, <2>3, LoginRead
<1>2. CASE \E u, p, e \in Texts : r = [line |-> RegisterText(u, p, e),
                                       meant |-> RegisterRequest(u, p, e)]
  <2>1. PICK u \in Texts, p \in Texts, e \in Texts :
           r = [line |-> RegisterText(u, p, e), meant |-> RegisterRequest(u, p, e)]
    BY <1>2
  <2>2. r.line = RegisterText(u, p, e) /\ r.meant.op = "register"
    BY <2>1 DEF RegisterRequest
  <2>3. RegisterText(u, p, e)[1] = "register"
    <3>1. Tagged(RegisterText(u, p, e), "register")
      BY RegisterParts, Zenon
    <3> QED
      BY <3>1 DEF Tagged
  <2>4. FirstCommand(RegisterText(u, p, e)).op = "register"
    BY RegisterRead
  <2> QED
    BY <2>2, <2>3, <2>4
<1> QED
  BY <1>1, <1>2, EntriesAre

LEMMA AtLine ==
    ASSUME TypedOK, NEW a \in Client, NEW r \in Requests(a), r.line[1] = "@"
    PROVE  \E x \in By(a) : r = PrivateLine(x)
<1>1. r \notin Entries
  BY EntryRead
<1>2. r # UsersLine
  BY DEF UsersLine
<1>3. ASSUME NEW x \in By(a), r = SaidLine(x) PROVE FALSE
  <2>1. x.text \in Texts
    BY DEF By, TypedOK
  <2>2. r.line = BroadcastText(x.text)
    BY <1>3 DEF SaidLine
  <2>3. BroadcastText(x.text)[1] = "broadcast"
    BY <2>1, Tag, Vocabulary DEF BroadcastText, Tagged
  <2> QED
    BY <2>2, <2>3
<1> QED
  BY <1>1, <1>2, <1>3, RequestIs

LEMMA HandleIs ==
    ASSUME UsersOK, TypedOK, UpOK, NEW a \in Client, up[a] # << >>
    PROVE  LET r == Head(up[a])
           IN /\ r \in Requests(a) /\ r = up[a][1]
              /\ user[a] = NoName =>
                    Handle(a) = FirstCommand(r.line) /\ IsEntry(Handle(a))
              /\ user[a] # NoName =>
                    Handle(a) = ChatCommand(r.line) /\ IsChat(Handle(a), r.line)
<1> DEFINE r == Head(up[a])
<1>1. r \in Requests(a) /\ r = up[a][1]
  BY RangeTail DEF UpOK
<1>2. r.line \in Texts
  BY <1>1, RequestIs
<1>3. Handle(a) = IF user[a] = NoName THEN FirstCommand(r.line)
                  ELSE ChatCommand(r.line)
  BY DEF Handle, Command
<1> HIDE DEF r
<1>4. IsEntry(FirstCommand(r.line)) /\ IsChat(ChatCommand(r.line), r.line)
  BY <1>2, FirstCommandIs, ChatCommandIs
<1> QED
  BY <1>1, <1>3, <1>4, Zenon DEF r

LEMMA EntryOps ==
    ASSUME NEW h, IsEntry(h)
    PROVE  /\ h.op \in {"login", "register", "malformed", "refused"}
           /\ h.op = "login" => ColonFree(h.name) /\ h.password \in Texts
           /\ h.op = "register" => /\ ColonFree(h.name) /\ h.password \in Texts
                                   /\ h.email \in Texts
<1>1. CASE \E u, p \in Texts : ColonFree(u) /\ h = LoginRequest(u, p)
  BY <1>1 DEF LoginRequest
<1>2. CASE \E u, p, e \in Texts : ColonFree(u) /\ h = RegisterRequest(u, p, e)
  BY <1>2 DEF RegisterRequest
<1>3. CASE h \in {Only("malformed"), Only("refused")}
  BY <1>3 DEF Only
<1> QED
  BY <1>1, <1>2, <1>3 DEF IsEntry

LEMMA ChatOps ==
    ASSUME NEW w, NEW h, IsChat(h, w)
    PROVE  /\ h.op \in {"say", "private", "ignored", "users", "logout"}
           /\ h.op = "say" => h.text \in Texts
           /\ h.op = "private" => /\ ColonFree(h.to) /\ h.text \in Texts
                                  /\ PrivateText(h.to, h.text) = w
<1>1. CASE \E t \in Texts : h = SayRequest(t)
  BY <1>1 DEF SayRequest
<1>2. CASE \E to, t \in Texts : /\ ColonFree(to) /\ PrivateText(to, t) = w
                                /\ h = PrivateRequest(to, t)
  BY <1>2 DEF PrivateRequest
<1>3. CASE h \in {Only("ignored"), Only("users"), Only("logout")}
  BY <1>3 DEF Only
<1> QED
  BY <1>1, <1>2, <1>3 DEF IsChat

LEMMA Handles ==
    ASSUME UsersOK, TypedOK, UpOK, PatientOK, NEW a \in Client, up[a] # << >>
    PROVE  LET h == Handle(a)
           IN /\ h.op \in {"login", "register", "malformed", "refused"} <=>
                    user[a] = NoName
              /\ h.op \in {"login", "register"} =>
                    /\ ColonFree(h.name) /\ h.name \in Texts
                    /\ h.password \in Texts
              /\ h.op = "register" => h.email \in Texts
              /\ h.op = "say" =>
                    /\ h.text \in Texts
                    /\ a \in Patient => Typed(user[a], Everybody, h.text)
              /\ h.op = "private" =>
                    /\ ColonFree(h.to) /\ h.to \in Texts /\ h.text \in Texts
                    /\ TypedTo(user[a], h.to, h.text)
<1> DEFINE h == Handle(a)
           r == Head(up[a])
<1>1. /\ r \in Requests(a) /\ r = up[a][1]
      /\ user[a] = NoName => h = FirstCommand(r.line) /\ IsEntry(h)
      /\ user[a] # NoName => h = ChatCommand(r.line) /\ IsChat(h, r.line)
  BY HandleIs
<1> HIDE DEF h, r
<1>2. /\ h.op \in {"login", "register", "malformed", "refused"} <=>
            user[a] = NoName
      /\ h.op \in {"login", "register"} =>
            ColonFree(h.name) /\ h.name \in Texts /\ h.password \in Texts
      /\ h.op = "register" => h.email \in Texts
  <2>1. CASE user[a] = NoName
    BY <1>1, <2>1, EntryOps DEF ColonFree
  <2>2. CASE user[a] # NoName
    <3>1. h.op \in {"say", "private", "ignored", "users", "logout"}
      BY <1>1, <2>2, ChatOps
    <3> QED
      BY <2>2, <3>1
  <2> QED
    BY <2>1, <2>2
<1>3. ASSUME h.op = "private"
      PROVE  /\ ColonFree(h.to) /\ h.to \in Texts /\ h.text \in Texts
             /\ TypedTo(user[a], h.to, h.text)
  <2>1. user[a] # NoName
    BY <1>2, <1>3
  <2>2. ColonFree(h.to) /\ h.text \in Texts /\ PrivateText(h.to, h.text) = r.line
    BY <1>1, <1>3, <2>1, ChatOps
  <2>3. h.to \in Texts
    BY <2>2 DEF ColonFree
  <2>4. r.line[1] = "@"
    BY <2>2, <2>3, PrivateParts
  <2>5. PICK x \in By(a) : r = PrivateLine(x)
    BY <1>1, <2>4, AtLine
  <2>6. r.line = PrivateText(x.to, x.text) /\ x \in typed /\ x.by = a
    BY <2>5 DEF PrivateLine, By
  <2> QED
    BY <2>2, <2>3, <2>6, Zenon DEF TypedTo
<1>4. ASSUME h.op = "say"
      PROVE  h.text \in Texts /\ (a \in Patient => Typed(user[a], Everybody, h.text))
  <2>1. user[a] # NoName
    BY <1>2, <1>4
  <2>2. h.text \in Texts
    BY <1>1, <1>4, <2>1, ChatOps
  <2>3. ASSUME a \in Patient PROVE Typed(user[a], Everybody, h.text)
    <3>1. r \notin Entries
      <4>1. 1 \in DOMAIN up[a]
        BY RangeTail DEF UpOK
      <4>2. r.meant.op \notin {"login", "register"}
        BY <1>1, <2>1, <2>3, <4>1 DEF PatientOK, PatientAt
      <4> QED
        BY <4>2, EntryRead
    <3>2. r # UsersLine
      BY <1>1, <1>4, <2>1, UsersRead DEF UsersLine, Only
    <3>3. ASSUME NEW x \in By(a), r = PrivateLine(x) PROVE FALSE
      <4>1. x.text \in Texts /\ x.to \in Texts
        BY DEF By, TypedOK
      <4>2. r.line = PrivateText(x.to, x.text)
        BY <3>3 DEF PrivateLine
      <4>3. h.op \in {"private", "ignored"}
        BY <1>1, <2>1, <4>1, <4>2, PrivateRead
      <4> QED
        BY <1>4, <4>3
    <3>4. PICK x \in By(a) : x.to = Everybody /\ r = SaidLine(x)
      BY <1>1, <3>1, <3>2, <3>3, RequestIs
    <3>5. x.text \in Texts /\ x \in typed /\ x.by = a
      BY DEF By, TypedOK
    <3>6. r.line = BroadcastText(x.text)
      BY <3>4 DEF SaidLine
    <3>7. h = SayRequest(x.text)
      BY <1>1, <2>1, <3>5, <3>6, SayRead
    <3>8. h.text = x.text
      BY <3>7 DEF SayRequest
    <3> QED
      BY <3>4, <3>5, <3>8, Zenon DEF Typed
  <2> QED
    BY <2>2, <2>3
<1> QED
  BY <1>2, <1>3, <1>4 DEF h

LEMMA Writing ==
    ASSUME DownOK, NEW answers, Write(answers),
           \A d \in Client : Served(d) \subseteq Served(d)',
           \A d \in Client : answers[d] \in Seq(Answers(d)')
    PROVE  /\ DownOK'
           /\ \A d \in Client : \A m :
                 m \in OnTheWay(d)' <=>
                    \/ m \in OnTheWay(d)
                    \/ \E i \in DOMAIN answers[d] : m = Written(answers[d][i])
<1> DEFINE new(d) == [i \in DOMAIN answers[d] |-> Written(answers[d][i])]
<1>1. down' = [d \in Client |-> down[d] \o new(d)]
  BY DEF Write, Written
<1>2. ASSUME NEW d \in Client PROVE new(d) \in Seq(Served(d)')
  <2>1. \A m \in Answers(d)' : Written(m) \in Served(d)'
    BY DEF Served
  <2>2. answers[d] \in Seq(Answers(d)')
    OBVIOUS
  <2>3. /\ Len(answers[d]) \in Nat /\ DOMAIN answers[d] = 1 .. Len(answers[d])
        /\ \A i \in DOMAIN answers[d] : answers[d][i] \in Answers(d)'
    BY <2>2, LenProperties, ElementOfSeq
  <2>4. \A i \in 1 .. Len(answers[d]) : Written(answers[d][i]) \in Served(d)'
    BY <2>1, <2>3
  <2> QED
    BY <2>3, <2>4, IsASeq
<1>3. \A d \in Client : /\ DOMAIN new(d) = DOMAIN answers[d]
                        /\ \A i \in DOMAIN answers[d] :
                              new(d)[i] = Written(answers[d][i])
  OBVIOUS
<1> HIDE DEF new
<1>4. \A d \in Client : down[d] \in Seq(Served(d)')
  BY SeqMonotonic DEF DownOK
<1>5. \A d \in Client : down'[d] = down[d] \o new(d)
  BY <1>1
<1>6. ASSUME NEW d \in Client PROVE down'[d] \in Seq(Served(d)')
  <2> DEFINE S == Served(d)'
             q == down[d]
             r == new(d)
  <2>1. q \in Seq(S) /\ r \in Seq(S) /\ down'[d] = q \o r
    BY <1>2, <1>4, <1>5
  <2> HIDE DEF S, q, r
  <2>2. down'[d] \in Seq(S)
    BY <2>1, RangeConcat
  <2> QED
    BY <2>2 DEF S
<1>7. DownOK'
  <2>1. down' = [d \in Client |-> down'[d]]
    BY <1>1
  <2> QED
    BY <1>6, <2>1, Zenon DEF DownOK
<1>8. ASSUME NEW d \in Client, NEW m
      PROVE  m \in OnTheWay(d)' <=>
                    \/ m \in OnTheWay(d)
                    \/ \E i \in DOMAIN answers[d] : m = Written(answers[d][i])
  <2> DEFINE q == down[d]
             r == new(d)
             w == q \o r
             S == Served(d)'
  <2>1. q \in Seq(S) /\ r \in Seq(S) /\ down'[d] = w
    BY <1>2, <1>4, <1>5
  <2> HIDE DEF q, r, S
  <2>2. OfBoth(w, q, r)
    BY <2>1, RangeConcat
  <2>3. m \in OnTheWay(d)' <=> \E i \in DOMAIN w : m = w[i]
    BY <2>1 DEF OnTheWay
  <2>4. m \in OnTheWay(d) <=> \E i \in DOMAIN q : m = q[i]
    BY DEF OnTheWay, q
  <2>5. (\E i \in DOMAIN r : m = r[i]) <=>
        \E i \in DOMAIN answers[d] : m = Written(answers[d][i])
    BY <1>3 DEF r
  <2> HIDE DEF w
  <2> QED
    BY <2>2, <2>3, <2>4, <2>5 DEF OfBoth
<1> QED
  BY <1>7, <1>8

LEMMA Replying ==
    ASSUME NEW a \in Client, NEW m, m \in Answers(a)'
    PROVE  \A d \in Client : (IF d = a THEN <<m>> ELSE << >>) \in Seq(Answers(d)')
BY ShortSeqs, Zenon

LEMMA Taking ==
    ASSUME UpOK, NEW a \in Client, up[a] # << >>,
           up' = [up EXCEPT ![a] = Tail(@)], typed' = typed
    PROVE  /\ UpOK'
           /\ \A d \in Client : d # a => up'[d] = up[d]
           /\ up'[a] = Tail(up[a])
           /\ \A i \in DOMAIN up'[a] : \E j \in DOMAIN up[a] : up'[a][i] = up[a][j]
           /\ Len(up[a]) = 1 => up'[a] = << >>
<1>1. \A d : Requests(d)' = Requests(d)
  BY DEF Requests, By
<1>2. up' = [d \in Client |-> IF d = a THEN Tail(up[a]) ELSE up[d]]
  BY DEF UpOK
<1>3. up[a] \in Seq(Requests(a))
  BY DEF UpOK
<1>4. up'[a] = Tail(up[a]) /\ \A d \in Client : d # a => up'[d] = up[d]
  BY <1>2
<1>5. /\ Tail(up[a]) \in Seq(Requests(a))
      /\ \A i \in DOMAIN Tail(up[a]) : \E j \in DOMAIN up[a] : Tail(up[a])[i] = up[a][j]
      /\ Len(up[a]) = 1 => Tail(up[a]) = << >>
  BY <1>3, RangeTail
<1>6. up' = [d \in Client |-> up'[d]]
  BY <1>2
<1>7. \A d \in Client : up'[d] \in Seq(Requests(d)')
  BY <1>1, <1>4, <1>5 DEF UpOK
<1>8. UpOK'
  BY <1>6, <1>7, Zenon DEF UpOK
<1> QED
  BY <1>4, <1>5, <1>8

LEMMA Asking ==
    ASSUME UpOK, NEW a \in Client, NEW r \in Requests(a)', typed \subseteq typed',
           up' = [up EXCEPT ![a] = Append(@, r)]
    PROVE  /\ UpOK'
           /\ \A d \in Client : d # a => up'[d] = up[d]
           /\ \A i \in DOMAIN up'[a] :
                 up'[a][i] = r \/ \E j \in DOMAIN up[a] : up'[a][i] = up[a][j]
           /\ up[a] = << >> => Len(up'[a]) = 1 /\ up'[a][1] = r
<1>1. \A d : Requests(d) \subseteq Requests(d)'
  BY RequestsStay
<1>2. up' = [d \in Client |-> IF d = a THEN Append(up[a], r) ELSE up[d]]
  BY DEF UpOK
<1>3. up[a] \in Seq(Requests(a)')
  BY <1>1, SeqMonotonic DEF UpOK
<1>4. up'[a] = Append(up[a], r) /\ \A d \in Client : d # a => up'[d] = up[d]
  BY <1>2
<1>5. /\ Append(up[a], r) \in Seq(Requests(a)')
      /\ \A i \in DOMAIN Append(up[a], r) :
            \/ Append(up[a], r)[i] = r
            \/ \E j \in DOMAIN up[a] : Append(up[a], r)[i] = up[a][j]
      /\ up[a] = << >> => Len(Append(up[a], r)) = 1 /\ Append(up[a], r)[1] = r
  <2> DEFINE q == up[a]
             S == Requests(a)'
  <2>1. q \in Seq(S) /\ r \in S
    BY <1>3
  <2> HIDE DEF q, S
  <2>2. /\ Append(q, r) \in Seq(S)
        /\ Len(Append(q, r)) = Len(q) + 1
        /\ \A i \in 1 .. Len(q) : Append(q, r)[i] = q[i]
        /\ Append(q, r)[Len(q) + 1] = r
    BY <2>1, AppendProperties
  <2>3. Len(q) \in Nat /\ DOMAIN q = 1 .. Len(q)
        /\ DOMAIN Append(q, r) = 1 .. Len(q) + 1
    BY <2>1, <2>2, LenProperties
  <2>4. q = << >> => Len(q) = 0
    OBVIOUS
  <2>5. \A i \in DOMAIN Append(q, r) :
            Append(q, r)[i] = r \/ \E j \in DOMAIN q : Append(q, r)[i] = q[j]
    BY <2>2, <2>3
  <2>6. q = << >> => Len(Append(q, r)) = 1 /\ Append(q, r)[1] = r
    BY <2>2, <2>4
  <2> QED
    BY <2>2, <2>5, <2>6 DEF q, S
<1>6. up' = [d \in Client |-> up'[d]]
  BY <1>2
<1>7. \A d \in Client : d # a => up'[d] \in Seq(Requests(d)')
  BY <1>1, <1>4, SeqMonotonic DEF UpOK
<1>8. UpOK'
  BY <1>4, <1>5, <1>6, <1>7, Zenon DEF UpOK
<1> QED
  BY <1>4, <1>5, <1>8

(* A patient that the step does not concern.                               *)
LEMMA PatientStays ==
    ASSUME NEW a \in Patient, PatientAt(a), user'[a] = user[a], up'[a] = up[a],
           ui'[a] = ui[a], flag'[a] = flag[a],
           \A m \in OnTheWay(a) : m \in OnTheWay(a)',
           \A m \in OnTheWay(a)' :
              m \in OnTheWay(a) \/ m.meant.kind \notin {"welcome", "refusal"}
    PROVE  PatientAt(a)'
<1>1. \A op : Entering(a, op)' <=> Entering(a, op)
  BY DEF Entering
<1>2. CASE user[a] = NoName
  BY <1>1, <1>2 DEF PatientAt
<1>3. CASE user[a] # NoName
  BY <1>3 DEF PatientAt
<1> QED
  BY <1>2, <1>3

LEMMA OnlineIs ==
    ASSUME UsersOK
    PROVE  /\ Online \subseteq Texts /\ IsFiniteSet(Online)
           /\ NoName \notin Online
<1> DEFINE all == {user[a] : a \in Client}
<1>1. user \in [Client -> Texts] /\ IsFiniteSet(Client)
  BY WireAssumption DEF UsersOK
<1>2. user \in Surjection(Client, all)
  BY <1>1 DEF Surjection
<1>3. IsFiniteSet(all) /\ all \subseteq Texts
  BY <1>1, <1>2, FS_Surjection
<1> HIDE DEF all
<1>4. Online = all \ {NoName}
  BY DEF Online, all
<1>5. IsFiniteSet(Online)
  BY <1>3, <1>4, FS_Subset
<1> QED
  BY <1>3, <1>4, <1>5

(* What is shown of what the server wrote.                                 *)
LEMMA ServedIs ==
    ASSUME UsersOK, NEW d \in Client, NEW r \in Served(d)
    PROVE  /\ r.line = Text(r.meant) /\ r.meant \in Answers(d)
           /\ r.line \in Texts
           /\ \/ r.meant \in {Welcome, Refusal} /\ Shown(r.line) = r.meant
              \/ \E N \in SUBSET Texts :
                    /\ IsFiniteSet(N) /\ r.meant = Listed(N)
                    /\ Tagged(r.line, "users")
                    /\ Shown(r.line) = Listed(Names(After(r.line, 2)))
                    /\ (\A n \in N : Plain(n)) => Shown(r.line) = r.meant
              \/ \E t \in Texts : /\ r.meant \in {Notice(t), Fault(t), Sent(t)}
                                  /\ Shown(r.line) = r.meant
              \/ \E n, t \in Texts :
                    /\ ColonFree(n) /\ user[d] # NoName /\ TypedTo(n, user[d], t)
                    /\ r.meant = Direct(n, t) /\ Shown(r.line) = r.meant
              \/ \E e \in Client, t \in Texts :
                    /\ user[e] # NoName /\ ColonFree(user[e])
                    /\ e \in Patient => Typed(user[e], Everybody, t)
                    /\ r.meant = Public(Saying(user[e], t))
                    /\ r.line = Saying(user[e], t)
<1>1. PICK m \in Answers(d) : r = Written(m)
  BY DEF Served
<1>2. r.line = Text(m) /\ r.meant = m
  BY <1>1 DEF Written
<1>3. IsAnswer(d, m) /\ Text(m) \in Texts
  BY AnswerText DEF Answers
<1>4. CASE m \in {Welcome, Refusal}
  BY <1>2, <1>3, <1>4, AuthText
<1>5. CASE \E N \in SUBSET Texts : IsFiniteSet(N) /\ m = Listed(N)
  <2>1. PICK N \in SUBSET Texts : IsFiniteSet(N) /\ m = Listed(N)
    BY <1>5
  <2>2. /\ Tagged(Text(m), "users")
        /\ Shown(Text(m)) = Listed(Names(After(Text(m), 2)))
        /\ (\A n \in N : Plain(n)) => Shown(Text(m)) = m
    BY <2>1, ListedText
  <2> QED
    BY <1>2, <1>3, <2>1, <2>2, Zenon
<1>6. CASE \E t \in Texts : m \in {Notice(t), Fault(t), Sent(t)}
  <2>1. PICK t \in Texts : m \in {Notice(t), Fault(t), Sent(t)}
    BY <1>6
  <2>2. Shown(Text(m)) = m
    BY <2>1, TaggedText
  <2> QED
    BY <1>2, <1>3, <2>1, <2>2, Zenon
<1>7. CASE \E n, t \in Texts :
             /\ ColonFree(n) /\ user[d] # NoName /\ TypedTo(n, user[d], t)
             /\ m = Direct(n, t)
  <2>1. PICK n \in Texts, t \in Texts :
             /\ ColonFree(n) /\ user[d] # NoName /\ TypedTo(n, user[d], t)
             /\ m = Direct(n, t)
    BY <1>7
  <2>2. Shown(Text(m)) = m
    BY <2>1, DirectText
  <2> QED
    BY <1>2, <1>3, <2>1, <2>2, Zenon
<1>8. CASE \E e \in Client, t \in Texts :
             /\ user[e] # NoName
             /\ e \in Patient => Typed(user[e], Everybody, t)
             /\ m = Public(Saying(user[e], t))
  <2>1. PICK e \in Client, t \in Texts :
             /\ user[e] # NoName
             /\ e \in Patient => Typed(user[e], Everybody, t)
             /\ m = Public(Saying(user[e], t))
    BY <1>8
  <2>2. ColonFree(user[e])
    BY <2>1 DEF UsersOK
  <2>3. Text(m) = Saying(user[e], t)
    BY <2>1, Texting, Zenon
  <2> QED
    BY <1>2, <1>3, <2>1, <2>2, <2>3, Zenon
<1> QED
  BY <1>3, <1>4, <1>5, <1>6, <1>7, <1>8, Zenon DEF IsAnswer

LEMMA Kinds ==
    /\ Welcome.kind = "welcome" /\ Refusal.kind = "refusal"
    /\ \A N : Listed(N).kind = "list" /\ Listed(N).names = N
    /\ \A t : /\ Notice(t).kind = "notice" /\ Notice(t).text = t
              /\ Fault(t).kind = "error" /\ Fault(t).text = t
              /\ Sent(t).kind = "sent"
              /\ Public(t).kind = "public" /\ Public(t).text = t
    /\ \A n, t : /\ Direct(n, t).kind = "private"
                 /\ Direct(n, t).from = n /\ Direct(n, t).text = t
BY DEF Welcome, Refusal, Listed, Notice, Fault, Sent, Public, Direct

LEMMA AuthShown ==
    ASSUME UsersOK, NEW d \in Client, NEW r \in Served(d)
    PROVE  /\ Shown(r.line) = Welcome => r.meant.kind = "welcome"
           /\ r.meant.kind = "refusal" => Shown(r.line) = Refusal
<1>1. CASE r.meant \in {Welcome, Refusal} /\ Shown(r.line) = r.meant
  BY <1>1, Kinds
<1>2. CASE \E N : r.meant = Listed(N) /\ Shown(r.line) = Listed(Names(After(r.line, 2)))
  BY <1>2, Kinds
<1>3. CASE \E t : /\ r.meant \in {Notice(t), Fault(t), Sent(t)}
                  /\ Shown(r.line) = r.meant
  BY <1>3, Kinds
<1>4. CASE \E n, t : r.meant = Direct(n, t) /\ Shown(r.line) = r.meant
  BY <1>4, Kinds
<1>5. CASE \E e \in Client, t \in Texts :
             /\ ColonFree(user[e]) /\ r.meant = Public(Saying(user[e], t))
             /\ r.line = Saying(user[e], t)
  <2>1. PICK e \in Client, t \in Texts :
             /\ ColonFree(user[e]) /\ r.meant = Public(Saying(user[e], t))
             /\ r.line = Saying(user[e], t)
    BY <1>5
  <2>2. Shown(r.line) # Welcome
    BY <2>1, ShownSaying
  <2> QED
    BY <2>1, <2>2, Kinds
<1> QED
  BY <1>1, <1>2, <1>3, <1>4, <1>5, ServedIs

-----------------------------------------------------------------------------
(* The invariant.                                                          *)

RestOK ==
    /\ flag \in [Client -> BOOLEAN]
    /\ ui \in [Client -> {"menu", "login", "chat"}]
    /\ asked \in [Client -> Nat]
    /\ \A a \in Client : asked[a] <= MaxRequests[a]
Inv ==
    /\ AccountsOK /\ UsersOK /\ TypedOK
    /\ UpOK /\ DownOK /\ PatientOK /\ RestOK

LEMMA InitInv ==
    ASSUME Init
    PROVE  Inv
<1>1. AccountsOK
  BY WireAssumption DEF Init, AccountsOK
<1>2. UsersOK
  BY NameNot DEF Init, UsersOK
<1>3. TypedOK
  BY DEF Init, TypedOK
<1>4. UpOK
  <2>1. \A S : << >> \in Seq(S)
    BY ShortSeqs
  <2> QED
    BY <2>1 DEF Init, UpOK
<1>5. DownOK
  <2>1. \A S : << >> \in Seq(S)
    BY ShortSeqs
  <2> QED
    BY <2>1 DEF Init, DownOK
<1>6. PatientOK
  <2>1. ASSUME NEW a \in Patient PROVE PatientAt(a)
    <3>1. a \in Client
      BY WireAssumption
    <3>2. user[a] = NoName /\ ui[a] = "menu" /\ up[a] = << >>
      BY <3>1 DEF Init
    <3> QED
      BY <3>2 DEF PatientAt
  <2> QED
    BY <2>1 DEF PatientOK
<1>7. RestOK
  BY WireAssumption DEF Init, RestOK
<1> QED
  BY <1>1, <1>2, <1>3, <1>4, <1>5, <1>6, <1>7 DEF Inv

-----------------------------------------------------------------------------
(* The server's steps.                                                     *)

ButPatient(a) ==
    /\ AccountsOK /\ UsersOK /\ TypedOK /\ UpOK /\ DownOK /\ RestOK
    /\ \A d \in Patient \ {a} : PatientAt(d)

LEMMA ServerStep ==
    ASSUME Inv, NEW a \in Client, NEW op, Take(a, op),
           AccountsOK', UsersOK', UserStays,
           \A d \in Client \ {a} : user'[d] = user[d],
           NEW answers, Write(answers),
           \A d \in Client : answers[d] \in Seq(Answers(d)'),
           \A d \in Client \ {a} : \A i \in DOMAIN answers[d] :
              answers[d][i].kind \notin {"welcome", "refusal"}
    PROVE  /\ ButPatient(a)'
           /\ \A m : m \in OnTheWay(a)' <=>
                 \/ m \in OnTheWay(a)
                 \/ \E i \in DOMAIN answers[a] : m = Written(answers[a][i])
           /\ \A i \in DOMAIN up'[a] : \E j \in DOMAIN up[a] : up'[a][i] = up[a][j]
           /\ Len(up[a]) = 1 => up'[a] = << >>
           /\ ui'[a] = ui[a]
<1>1. /\ up[a] # << >> /\ up' = [up EXCEPT ![a] = Tail(@)]
      /\ flag' = flag /\ ui' = ui /\ typed' = typed /\ asked' = asked
  BY DEF Take
<1>2. TypedOK' /\ RestOK'
  BY <1>1 DEF Inv, TypedOK, RestOK
<1>3. /\ UpOK'
      /\ \A d \in Client : d # a => up'[d] = up[d]
      /\ \A i \in DOMAIN up'[a] : \E j \in DOMAIN up[a] : up'[a][i] = up[a][j]
      /\ Len(up[a]) = 1 => up'[a] = << >>
  BY <1>1, Taking DEF Inv
<1>4. \A d \in Client : Served(d) \subseteq Served(d)'
  BY <1>1, AnswersStay DEF Inv
<1>5. /\ DownOK'
      /\ \A d \in Client : \A m :
            m \in OnTheWay(d)' <=>
               \/ m \in OnTheWay(d)
               \/ \E i \in DOMAIN answers[d] : m = Written(answers[d][i])
  BY <1>4, Writing DEF Inv
<1>6. ASSUME NEW d \in Patient \ {a} PROVE PatientAt(d)'
  <2>1. d \in Client /\ PatientAt(d)
    BY WireAssumption DEF Inv, PatientOK
  <2>2. user'[d] = user[d] /\ up'[d] = up[d] /\ ui'[d] = ui[d] /\ flag'[d] = flag[d]
    BY <1>1, <1>3, <2>1
  <2>3. \A m \in OnTheWay(d) : m \in OnTheWay(d)'
    BY <1>5, <2>1
  <2>4. ASSUME NEW m, m \in OnTheWay(d)', m \notin OnTheWay(d)
        PROVE  m.meant.kind \notin {"welcome", "refusal"}
    <3>1. PICK i \in DOMAIN answers[d] : m = Written(answers[d][i])
      BY <1>5, <2>1, <2>4
    <3>2. m.meant = answers[d][i]
      BY <3>1 DEF Written
    <3> QED
      BY <2>1, <3>2
  <2> QED
    BY <2>1, <2>2, <2>3, <2>4, PatientStays
<1>7. ButPatient(a)'
  BY <1>2, <1>3, <1>5, <1>6, Zenon DEF ButPatient
<1> QED
  BY <1>1, <1>3, <1>5, <1>7

LEMMA ReplyStep ==
    ASSUME Inv, NEW a \in Client, NEW op, Take(a, op),
           AccountsOK', UNCHANGED user, accounts \subseteq accounts',
           NEW m, IsAnswer(a, m)', Reply(a, m)
    PROVE  /\ ButPatient(a)'
           /\ \A r : r \in OnTheWay(a)' <=> r \in OnTheWay(a) \/ r = Written(m)
           /\ \A i \in DOMAIN up'[a] : \E j \in DOMAIN up[a] : up'[a][i] = up[a][j]
           /\ Len(up[a]) = 1 => up'[a] = << >>
           /\ ui'[a] = ui[a]
<1> DEFINE answers == [d \in Client |-> IF d = a THEN <<m>> ELSE << >>]
<1>1. Write(answers)
  BY DEF Reply
<1>2. UsersOK' /\ UserStays /\ \A d \in Client \ {a} : user'[d] = user[d]
  BY DEF Inv, UsersOK, UserStays
<1>3. m \in Answers(a)'
  <2>1. \A x : IsAnswer(a, x)' => x \in Answers(a)'
    BY <1>2, IsOneOf
  <2> QED
    BY <2>1
<1>4. \A d \in Client : answers[d] \in Seq(Answers(d)')
  BY <1>3, Replying
<1>5. \A d \in Client \ {a} : DOMAIN answers[d] = {}
  BY ShortSeqs
<1>6. DOMAIN answers[a] = {1} /\ answers[a][1] = m
  BY ShortSeqs
<1> HIDE DEF answers
<1>7. \A d \in Client \ {a} : \A i \in DOMAIN answers[d] :
              answers[d][i].kind \notin {"welcome", "refusal"}
  BY <1>5
<1>8. /\ ButPatient(a)'
      /\ \A r : r \in OnTheWay(a)' <=>
            \/ r \in OnTheWay(a)
            \/ \E i \in DOMAIN answers[a] : r = Written(answers[a][i])
      /\ \A i \in DOMAIN up'[a] : \E j \in DOMAIN up[a] : up'[a][i] = up[a][j]
      /\ Len(up[a]) = 1 => up'[a] = << >>
      /\ ui'[a] = ui[a]
  BY <1>1, <1>2, <1>4, <1>7, ServerStep
<1>9. \A r : r \in OnTheWay(a)' <=> r \in OnTheWay(a) \/ r = Written(m)
  BY <1>6, <1>8
<1> QED
  BY <1>8, <1>9

(* A session with a name: only the queue gets shorter.                     *)
LEMMA NamedPatient ==
    ASSUME NEW a \in Patient, PatientAt(a), user[a] # NoName, user'[a] = user[a],
           \A i \in DOMAIN up'[a] : \E j \in DOMAIN up[a] : up'[a][i] = up[a][j]
    PROVE  PatientAt(a)'
BY DEF PatientAt

(* One without: what it handles is what was meant.                         *)
LEMMA EnteringPatient ==
    ASSUME Inv, NEW a \in Patient, user[a] = NoName, up[a] # << >>
    PROVE  /\ Handle(a).op \in {"login", "register"}
           /\ Entering(a, Handle(a).op)
           /\ \A m \in OnTheWay(a) : m.meant.kind \notin {"welcome", "refusal"}
           /\ ui[a] # "chat" /\ (ui[a] = "login" => Handle(a).op = "login")
<1>1. a \in Client /\ PatientAt(a)
  BY WireAssumption DEF Inv, PatientOK
<1>2. /\ Entering(a, "login") \/ Entering(a, "register")
      /\ \A m \in OnTheWay(a) : m.meant.kind \notin {"welcome", "refusal"}
      /\ ui[a] # "chat" /\ (ui[a] = "login" => Entering(a, "login"))
  BY <1>1 DEF PatientAt
<1>3. /\ Head(up[a]) \in Requests(a) /\ Head(up[a]) = up[a][1]
      /\ Handle(a) = FirstCommand(Head(up[a]).line)
  BY <1>1, HandleIs DEF Inv
<1>4. up[a][1].meant.op \in {"login", "register"}
  BY <1>2 DEF Entering
<1>5. Head(up[a]) \in Entries
  BY <1>1, <1>3, <1>4, RequestIs DEF Inv
<1>6. Handle(a).op = up[a][1].meant.op
  BY <1>3, <1>5, EntryRead
<1> QED
  BY <1>2, <1>4, <1>6 DEF Entering

LEMMA TakeIs ==
    ASSUME Inv, NEW a \in Client, NEW op, Take(a, op)
    PROVE  /\ up[a] # << >> /\ Handle(a).op = op
           /\ op \in {"login", "register", "malformed", "refused"} <=>
                 user[a] = NoName
           /\ op \in {"login", "register"} =>
                 /\ ColonFree(Handle(a).name) /\ Handle(a).name \in Texts
                 /\ Handle(a).password \in Texts
           /\ op = "register" => Handle(a).email \in Texts
           /\ op = "say" =>
                 /\ Handle(a).text \in Texts
                 /\ a \in Patient => Typed(user[a], Everybody, Handle(a).text)
           /\ op = "private" =>
                 /\ ColonFree(Handle(a).to) /\ Handle(a).to \in Texts
                 /\ Handle(a).text \in Texts
                 /\ TypedTo(user[a], Handle(a).to, Handle(a).text)
<1>1. up[a] # << >> /\ Handle(a).op = op
  BY DEF Take
<1> QED
  BY <1>1, Handles, Zenon DEF Inv

LEMMA LoginRefusedInv ==
    ASSUME Inv, NEW a \in Client, LoginRefused(a)
    PROVE  Inv'
<1>1. Take(a, "login") /\ Reply(a, Refusal) /\ UNCHANGED <<accounts, user>>
  BY DEF LoginRefused
<1>2. IsAnswer(a, Refusal)' /\ AccountsOK'
  BY <1>1 DEF IsAnswer, Inv, AccountsOK
<1>3. /\ ButPatient(a)'
      /\ \A r : r \in OnTheWay(a)' <=> r \in OnTheWay(a) \/ r = Written(Refusal)
      /\ Len(up[a]) = 1 => up'[a] = << >>
      /\ ui'[a] = ui[a]
  BY <1>1, <1>2, ReplyStep
<1>4. ASSUME a \in Patient PROVE PatientAt(a)'
  <2>1. up[a] # << >> /\ Handle(a).op = "login" /\ user[a] = NoName
    BY <1>1, TakeIs
  <2>2. /\ Entering(a, "login")
        /\ \A m \in OnTheWay(a) : m.meant.kind \notin {"welcome", "refusal"}
        /\ ui[a] # "chat"
    BY <1>4, <2>1, EnteringPatient
  <2>3. up'[a] = << >> /\ ui'[a] # "chat" /\ user'[a] = NoName
    BY <1>1, <1>3, <2>1, <2>2 DEF Entering
  <2>4. Written(Refusal).meant.kind = "refusal"
    BY Kinds DEF Written
  <2>5. \A m \in OnTheWay(a)' : m.meant.kind # "welcome"
    BY <1>3, <2>2, <2>4
  <2>6. \E m \in OnTheWay(a)' : m.meant.kind = "refusal"
    BY <1>3, <2>4
  <2> QED
    BY <2>3, <2>5, <2>6 DEF PatientAt
<1>5. Inv'
  BY <1>3, <1>4 DEF ButPatient, Inv, PatientOK
<1> QED
  BY <1>5

LEMMA RegisteredInv ==
    ASSUME Inv, NEW a \in Client, Registered(a)
    PROVE  Inv'
<1> DEFINE h == Handle(a)
<1>1. /\ Take(a, "register") /\ UNCHANGED user
      /\ accounts' = IF Free(h.name)
                     THEN accounts \cup {[name |-> h.name, password |-> h.password,
                                          email |-> h.email]}
                     ELSE accounts
      /\ Reply(a, Welcome) \/ Reply(a, Refusal)
  BY Zenon DEF Registered
<1>2. /\ up[a] # << >> /\ h.op = "register" /\ user[a] = NoName
      /\ h.name \in Texts /\ h.password \in Texts /\ h.email \in Texts
  BY <1>1, TakeIs
<1>3. PICK m \in {Welcome, Refusal} : Reply(a, m)
  BY <1>1
<1> HIDE DEF h
<1>4. AccountsOK' /\ accounts \subseteq accounts'
  BY <1>1, <1>2 DEF Inv, AccountsOK, Free
<1>5. IsAnswer(a, m)'
  BY DEF IsAnswer
<1>6. /\ ButPatient(a)'
      /\ Len(up[a]) = 1 => up'[a] = << >>
      /\ ui'[a] = ui[a]
  BY <1>1, <1>3, <1>4, <1>5, ReplyStep
<1>7. ASSUME a \in Patient PROVE PatientAt(a)'
  <2>1. Entering(a, "register") /\ ui[a] # "chat" /\ ui[a] # "login"
    BY <1>2, <1>7, EnteringPatient DEF h
  <2>2. up'[a] = << >> /\ ui'[a] # "chat" /\ ui'[a] # "login" /\ user'[a] = NoName
    BY <1>1, <1>2, <1>6, <2>1 DEF Entering
  <2> QED
    BY <2>2 DEF PatientAt
<1> QED
  BY <1>6, <1>7 DEF ButPatient, Inv, PatientOK

LEMMA UserListInv ==
    ASSUME Inv, NEW a \in Client, UserList(a)
    PROVE  Inv'
<1>1. /\ Take(a, "users") /\ Reply(a, Listed(Online \ {user[a]}))
      /\ UNCHANGED <<accounts, user>>
  BY DEF UserList
<1>2. user[a] # NoName
  BY <1>1, TakeIs
<1>3. PICK N \in SUBSET Texts : IsFiniteSet(N) /\ Reply(a, Listed(N))
  <2>1. Online \ {user[a]} \subseteq Texts /\ IsFiniteSet(Online \ {user[a]})
    BY OnlineIs, FS_Subset DEF Inv
  <2> QED
    BY <1>1, <2>1
<1>4. IsAnswer(a, Listed(N))'
  BY <1>3, Zenon DEF IsAnswer
<1>5. AccountsOK'
  BY <1>1 DEF Inv, AccountsOK
<1>6. /\ ButPatient(a)'
      /\ \A i \in DOMAIN up'[a] : \E j \in DOMAIN up[a] : up'[a][i] = up[a][j]
  BY <1>1, <1>3, <1>4, <1>5, ReplyStep
<1>7. a \in Patient => PatientAt(a)'
  BY <1>1, <1>2, <1>6, NamedPatient DEF Inv, PatientOK
<1> QED
  BY <1>6, <1>7 DEF ButPatient, Inv, PatientOK

LEMMA OtherInv ==
    ASSUME Inv, NEW a \in Client, Other(a)
    PROVE  Inv'
<1>1. CASE Take(a, "ignored") /\ UNCHANGED <<accounts, user, down>>
  <2> DEFINE answers == [d \in Client |-> << >>]
  <2>1. user[a] # NoName
    BY <1>1, TakeIs
  <2>2. Write(answers)
    <3>1. ASSUME NEW d \in Client
          PROVE  down[d] \o [i \in DOMAIN answers[d] |->
                    [line |-> Text(answers[d][i]), meant |-> answers[d][i]]] = down[d]
      <4>1. DOMAIN answers[d] = {}
        BY ShortSeqs
      <4>2. [i \in DOMAIN answers[d] |->
                [line |-> Text(answers[d][i]), meant |-> answers[d][i]]] = << >>
        BY <4>1
      <4>3. down[d] \in Seq(Served(d))
        BY DEF Inv, DownOK
      <4> HIDE DEF answers
      <4> QED
        BY <4>2, <4>3, ConcatEmptySeq
    <3>2. down = [d \in Client |-> down[d]] /\ down' = down
      BY <1>1 DEF Inv, DownOK
    <3> HIDE DEF answers
    <3> QED
      BY <3>1, <3>2 DEF Write
  <2>3. \A d \in Client : answers[d] \in Seq(Answers(d)') /\ DOMAIN answers[d] = {}
    BY ShortSeqs
  <2>4. AccountsOK' /\ UsersOK' /\ UserStays
        /\ \A d \in Client \ {a} : user'[d] = user[d]
    BY <1>1 DEF Inv, AccountsOK, UsersOK, UserStays
  <2> HIDE DEF answers
  <2>5. /\ ButPatient(a)'
        /\ \A i \in DOMAIN up'[a] : \E j \in DOMAIN up[a] : up'[a][i] = up[a][j]
    BY <1>1, <2>2, <2>3, <2>4, ServerStep
  <2>6. a \in Patient => PatientAt(a)'
    BY <1>1, <2>1, <2>5, NamedPatient DEF Inv, PatientOK
  <2> QED
    BY <2>5, <2>6 DEF ButPatient, Inv, PatientOK
<1>2. ASSUME NEW op \in {"malformed", "refused"}, Take(a, op),
             Reply(a, IF Handle(a).op = "malformed" THEN Refusal
                      ELSE Fault(<<"wording">>)),
             UNCHANGED <<accounts, user>>
      PROVE  Inv'
  <2>1. up[a] # << >> /\ Handle(a).op = op /\ user[a] = NoName
    BY <1>2, TakeIs
  <2>2. PICK m \in {Refusal, Fault(<<"wording">>)} : Reply(a, m)
    BY <1>2
  <2>3. IsAnswer(a, m)'
    <3>1. <<"wording">> \in Texts
      BY Words, Vocabulary
    <3> QED
      BY <3>1 DEF IsAnswer
  <2>4. AccountsOK'
    BY <1>2 DEF Inv, AccountsOK
  <2>5. ButPatient(a)'
    BY <1>2, <2>2, <2>3, <2>4, ReplyStep
  <2>6. a \notin Patient
    BY <2>1, EnteringPatient
  <2> QED
    BY <2>5, <2>6 DEF ButPatient, Inv, PatientOK
<1> QED
  BY <1>1, <1>2 DEF Other

LEMMA BroadcastInv ==
    ASSUME Inv, NEW a \in Client, Broadcast(a)
    PROVE  Inv'
<1>1. Take(a, "say") /\ UNCHANGED <<accounts, user>>
  BY DEF Broadcast
<1>2. /\ user[a] # NoName /\ Handle(a).text \in Texts
      /\ a \in Patient => Typed(user[a], Everybody, Handle(a).text)
  BY <1>1, TakeIs
<1>3. PICK t \in Texts : t = Handle(a).text
  BY <1>2
<1>4. PICK n : n = user[a]
  OBVIOUS
<1> DEFINE m == Public(Saying(n, t))
           answers == [d \in Client |->
                         IF d # a /\ user[d] # NoName THEN <<m>> ELSE << >>]
<1>5. PICK sent : sent = answers
  OBVIOUS
<1>6. Write(sent)
  BY <1>3, <1>4, <1>5 DEF Broadcast
<1>7. UsersOK' /\ UserStays /\ AccountsOK' /\ typed' = typed
      /\ \A d \in Client \ {a} : user'[d] = user[d]
  BY <1>1 DEF Inv, UsersOK, AccountsOK, UserStays, Take
<1>8. ASSUME NEW d \in Client PROVE m \in Answers(d)'
  <2>1. user'[a] = n /\ n # NoName
    BY <1>1, <1>2, <1>4
  <2>2. a \in Patient => Typed(n, Everybody, t)
    BY <1>2, <1>3, <1>4
  <2>3. Typed(n, Everybody, t) => Typed(n, Everybody, t)'
    BY <1>7, <2>1, TypedStays DEF Inv
  <2>4. IsAnswer(d, m)'
    BY <2>1, <2>2, <2>3, Zenon DEF IsAnswer
  <2> QED
    BY <1>7, <2>4, IsOneOf
<1>9. \A d \in Client : sent[d] \in Seq(Answers(d)')
  BY <1>5, <1>8, ShortSeqs, Zenon
<1>10. \A d \in Client : \A i \in DOMAIN sent[d] : sent[d][i] = m
  <2>1. \A d \in Client : sent[d] = << >> \/ sent[d] = <<m>>
    BY <1>5
  <2> QED
    BY <2>1, ShortSeqs
<1>11. m.kind = "public"
  BY Kinds
<1> HIDE DEF answers, m
<1>12. /\ ButPatient(a)'
       /\ \A i \in DOMAIN up'[a] : \E j \in DOMAIN up[a] : up'[a][i] = up[a][j]
  BY <1>1, <1>6, <1>7, <1>9, <1>10, <1>11, ServerStep
<1>13. a \in Patient => PatientAt(a)'
  BY <1>1, <1>2, <1>12, NamedPatient DEF Inv, PatientOK
<1> QED
  BY <1>12, <1>13 DEF ButPatient, Inv, PatientOK

LEMMA PrivateInv ==
    ASSUME Inv, NEW a \in Client, Private(a)
    PROVE  Inv'
<1>1. Take(a, "private") /\ UNCHANGED <<accounts, user>>
  BY DEF Private
<1>2. /\ user[a] # NoName /\ ColonFree(Handle(a).to) /\ Handle(a).to \in Texts
      /\ Handle(a).text \in Texts
      /\ TypedTo(user[a], Handle(a).to, Handle(a).text)
  BY <1>1, TakeIs
<1>3. PICK n \in Texts, to \in Texts, t \in Texts :
         n = user[a] /\ to = Handle(a).to /\ t = Handle(a).text
  BY <1>2 DEF Inv, UsersOK
<1>4. UsersOK' /\ UserStays /\ AccountsOK' /\ typed' = typed
      /\ \A d \in Client \ {a} : user'[d] = user[d]
  BY <1>1 DEF Inv, UsersOK, AccountsOK, UserStays, Take
<1>5. ASSUME a \in Patient,
             \A i \in DOMAIN up'[a] : \E j \in DOMAIN up[a] : up'[a][i] = up[a][j]
      PROVE  PatientAt(a)'
  BY <1>1, <1>2, <1>5, NamedPatient DEF Inv, PatientOK
<1>6. CASE to \in Online
  <2> DEFINE m == Direct(n, t)
             r == Sent(to)
             answers == [d \in Client |->
                           (IF user[d] = to THEN <<m>> ELSE << >>)
                           \o (IF d = a THEN <<r>> ELSE << >>)]
  <2>1. PICK sent : sent = answers
    OBVIOUS
  <2>2. Write(sent)
    BY <1>3, <1>6, <2>1 DEF Private
  <2>3. to # NoName
    BY <1>6, OnlineIs DEF Inv
  <2>4. ASSUME NEW d \in Client, user[d] = to PROVE m \in Answers(d)'
    <3>1. user'[d] = to /\ n \in Texts /\ n # NoName /\ ColonFree(n)
      BY <1>1, <1>2, <1>3, <2>4 DEF Inv, UsersOK
    <3>2. TypedTo(n, to, t)
      BY <1>2, <1>3
    <3>3. TypedTo(n, to, t)'
      BY <1>4, <3>1, <3>2, TypedStays DEF Inv
    <3>4. IsAnswer(d, m)'
      BY <2>3, <3>1, <3>3, Zenon DEF IsAnswer
    <3> QED
      BY <1>4, <3>4, IsOneOf
  <2>5. \A d \in Client : r \in Answers(d)'
    <3>1. \A d \in Client : IsAnswer(d, r)'
      BY DEF IsAnswer
    <3> QED
      BY <1>4, <3>1, IsOneOf
  <2>6. r.kind = "sent" /\ m.kind = "private"
    BY Kinds
  <2> HIDE DEF m, r
  <2>7. ASSUME NEW d \in Client
        PROVE  /\ sent[d] \in Seq(Answers(d)')
               /\ \A i \in DOMAIN sent[d] : sent[d][i] \in {m, r}
    <3> DEFINE p == IF user[d] = to THEN <<m>> ELSE << >>
               q == IF d = a THEN <<r>> ELSE << >>
               S == Answers(d)'
    <3>1. sent[d] = p \o q
      BY <2>1
    <3>2. p \in Seq(S) /\ \A i \in DOMAIN p : p[i] = m
      <4> HIDE DEF S
      <4>1. user[d] = to => m \in S
        BY <2>4 DEF S
      <4> QED
        BY <4>1, ShortSeqs
    <3>3. q \in Seq(S) /\ \A i \in DOMAIN q : q[i] = r
      <4>1. r \in S
        BY <2>5
      <4> HIDE DEF S
      <4> QED
        BY <4>1, ShortSeqs
    <3> HIDE DEF p, q, S
    <3>4. p \o q \in Seq(S) /\ OfBoth(p \o q, p, q)
      BY <3>2, <3>3, RangeConcat
    <3>5. \A i \in DOMAIN (p \o q) : (p \o q)[i] \in {m, r}
      BY <3>2, <3>3, <3>4, Zenon DEF OfBoth
    <3> QED
      BY <3>1, <3>4, <3>5 DEF S
  <2> HIDE DEF answers
  <2>8. /\ ButPatient(a)'
        /\ \A i \in DOMAIN up'[a] : \E j \in DOMAIN up[a] : up'[a][i] = up[a][j]
    BY <1>1, <1>4, <2>2, <2>6, <2>7, ServerStep
  <2> QED
    BY <1>5, <2>8 DEF ButPatient, Inv, PatientOK
<1>7. CASE to \notin Online
  <2>1. PICK s \in Texts : s = About(to, "offline")
    BY AboutText, Vocabulary
  <2>2. Reply(a, Fault(s))
    BY <1>3, <1>7, <2>1 DEF Private
  <2>3. IsAnswer(a, Fault(s))'
    BY DEF IsAnswer
  <2>4. /\ ButPatient(a)'
        /\ \A i \in DOMAIN up'[a] : \E j \in DOMAIN up[a] : up'[a][i] = up[a][j]
    BY <1>1, <1>4, <2>2, <2>3, ReplyStep
  <2> QED
    BY <1>5, <2>4 DEF ButPatient, Inv, PatientOK
<1> QED
  BY <1>6, <1>7

LEMMA LoginAcceptedInv ==
    ASSUME Inv, NEW a \in Client, LoginAccepted(a)
    PROVE  Inv'
<1>1. /\ Take(a, "login") /\ UNCHANGED accounts
      /\ Handle(a).name \notin Online
      /\ \E x \in accounts : x.name = Handle(a).name
                             /\ x.password = Handle(a).password
      /\ user' = [user EXCEPT ![a] = Handle(a).name]
  BY DEF LoginAccepted, Admitted
<1>2. /\ up[a] # << >> /\ Handle(a).op = "login" /\ user[a] = NoName
      /\ ColonFree(Handle(a).name) /\ Handle(a).name \in Texts
  BY <1>1, TakeIs
<1>3. PICK u \in Texts : u = Handle(a).name
  BY <1>2
<1>4. PICK N : N = Online \cup {u}
  OBVIOUS
<1>5. PICK s \in Texts : s = About(u, "joined")
  BY AboutText, Vocabulary
<1> DEFINE mine == <<Listed(N), Welcome>>
           others == <<Notice(s), Listed(N)>>
<1>6. PICK sent : sent = [d \in Client |->
                CASE d = a -> mine
                  [] user[d] # NoName -> others
                  [] OTHER -> << >>]
  OBVIOUS
<1>7. Write(sent)
  BY <1>3, <1>4, <1>5, <1>6 DEF LoginAccepted
<1>8. u # NoName /\ ColonFree(u)
  BY <1>2, <1>3, NameNot
<1>9. AccountsOK' /\ UserStays /\ user'[a] = u
      /\ \A d \in Client \ {a} : user'[d] = user[d]
  BY <1>1, <1>2, <1>3 DEF Inv, AccountsOK, UsersOK, UserStays
<1>10. UsersOK'
  <2>1. \A d \in Client : user[d] # u
    BY <1>1, <1>3, <1>8 DEF Online
  <2>2. user' \in [Client -> Texts]
    BY <1>1, <1>3 DEF Inv, UsersOK
  <2>3. \A d \in Client : user'[d] # NoName =>
           ColonFree(user'[d]) /\ \E x \in accounts' : x.name = user'[d]
    BY <1>1, <1>3, <1>8, <1>9 DEF Inv, UsersOK
  <2>4. \A d, e \in Client :
           user'[d] = user'[e] /\ user'[d] # NoName => d = e
    BY <1>8, <1>9, <2>1 DEF Inv, UsersOK
  <2> QED
    BY <2>2, <2>3, <2>4 DEF UsersOK
<1>11. ASSUME NEW d \in Client
       PROVE  {Listed(N), Welcome, Notice(s)} \subseteq Answers(d)'
  <2>1. N \in SUBSET Texts /\ IsFiniteSet(N)
    BY <1>4, OnlineIs, FS_AddElement DEF Inv
  <2>2. IsAnswer(d, Listed(N))'
    BY <2>1, Zenon DEF IsAnswer
  <2>3. IsAnswer(d, Welcome)' /\ IsAnswer(d, Notice(s))'
    BY Zenon DEF IsAnswer
  <2> QED
    BY <1>10, <2>2, <2>3, IsOneOf
<1>12. \A d \in Client : sent[d] = << >> \/ sent[d] = mine \/ sent[d] = others
  BY <1>6
<1>13. \A d \in Client \ {a} : sent[d] = << >> \/ sent[d] = others
  BY <1>6
<1>14. ASSUME NEW d \in Client PROVE sent[d] \in Seq(Answers(d)')
  <2> DEFINE S == Answers(d)'
  <2>1. Listed(N) \in S /\ Welcome \in S /\ Notice(s) \in S
    BY <1>11
  <2> HIDE DEF S
  <2>2. mine \in Seq(S) /\ others \in Seq(S) /\ << >> \in Seq(S)
    BY <2>1, ShortSeqs
  <2> QED
    BY <1>12, <2>2 DEF S
<1>15. \A i \in DOMAIN others : others[i].kind \notin {"welcome", "refusal"}
  <2>1. \A i \in DOMAIN others : others[i] = Notice(s) \/ others[i] = Listed(N)
    BY ShortSeqs
  <2> QED
    BY <2>1, Kinds
<1> HIDE DEF mine, others
<1>16. \A d \in Client \ {a} : \A i \in DOMAIN sent[d] :
          sent[d][i].kind \notin {"welcome", "refusal"}
  BY <1>13, <1>15, ShortSeqs
<1>17. ButPatient(a)' /\ (Len(up[a]) = 1 => up'[a] = << >>)
  BY <1>1, <1>7, <1>9, <1>10, <1>14, <1>16, ServerStep
<1>18. ASSUME a \in Patient PROVE PatientAt(a)'
  <2>1. Entering(a, "login")
    BY <1>2, <1>18, EnteringPatient
  <2>2. up'[a] = << >> /\ user'[a] # NoName
    BY <1>8, <1>9, <1>17, <2>1 DEF Entering
  <2> QED
    BY <2>2 DEF PatientAt
<1> QED
  BY <1>17, <1>18 DEF ButPatient, Inv, PatientOK

-----------------------------------------------------------------------------
(* The steps of the persons and their clients.                             *)

LEMMA ClientStep ==
    ASSUME Inv, NEW a \in Client, UNCHANGED <<accounts, user, down>>,
           typed \subseteq typed', TypedOK', UpOK', RestOK',
           \A d \in Client : d # a =>
              up'[d] = up[d] /\ ui'[d] = ui[d] /\ flag'[d] = flag[d]
    PROVE  ButPatient(a)' /\ \A d \in Client : OnTheWay(d)' = OnTheWay(d)
<1>1. AccountsOK' /\ UsersOK' /\ UserStays
  BY DEF Inv, AccountsOK, UsersOK, UserStays
<1>2. \A d \in Client : Served(d) \subseteq Served(d)'
  BY <1>1, AnswersStay DEF Inv
<1>3. DownOK'
  BY <1>2 DEF Inv, DownOK
<1>4. \A d \in Client : OnTheWay(d)' = OnTheWay(d)
  BY DEF OnTheWay
<1>5. ASSUME NEW d \in Patient \ {a} PROVE PatientAt(d)'
  <2>1. d \in Client /\ PatientAt(d)
    BY WireAssumption DEF Inv, PatientOK
  <2>2. user'[d] = user[d] /\ up'[d] = up[d] /\ ui'[d] = ui[d] /\ flag'[d] = flag[d]
    BY <2>1
  <2> QED
    BY <1>4, <2>1, <2>2, PatientStays
<1> QED
  BY <1>1, <1>3, <1>4, <1>5, Zenon DEF ButPatient

LEMMA AskStep ==
    ASSUME Inv, NEW a \in Client, NEW line, NEW meant, Ask(a, line, meant),
           [line |-> line, meant |-> meant] \in Requests(a)',
           typed \subseteq typed', TypedOK',
           UNCHANGED <<accounts, user, flag, down>>,
           ui' \in [Client -> {"menu", "login", "chat"}],
           \A d \in Client : d # a => ui'[d] = ui[d]
    PROVE  /\ ButPatient(a)' /\ OnTheWay(a)' = OnTheWay(a)
           /\ \A i \in DOMAIN up'[a] :
                 \/ up'[a][i].meant = meant
                 \/ \E j \in DOMAIN up[a] : up'[a][i] = up[a][j]
           /\ up[a] = << >> => Len(up'[a]) = 1 /\ up'[a][1].meant = meant
<1>1. PICK r : r = [line |-> line, meant |-> meant]
  OBVIOUS
<1>2. r \in Requests(a)' /\ r.meant = meant /\ up' = [up EXCEPT ![a] = Append(@, r)]
  BY <1>1 DEF Ask
<1>3. /\ UpOK'
      /\ \A d \in Client : d # a => up'[d] = up[d]
      /\ \A i \in DOMAIN up'[a] :
            up'[a][i] = r \/ \E j \in DOMAIN up[a] : up'[a][i] = up[a][j]
      /\ up[a] = << >> => Len(up'[a]) = 1 /\ up'[a][1] = r
  BY <1>2, Asking DEF Inv
<1>4. RestOK'
  <2>1. /\ asked \in [Client -> Nat] /\ asked[a] < MaxRequests[a]
        /\ asked' = [asked EXCEPT ![a] = asked[a] + 1]
        /\ MaxRequests \in [Client -> Nat]
        /\ \A d \in Client : asked[d] <= MaxRequests[d]
    BY WireAssumption DEF Inv, RestOK, Ask
  <2>2. asked' \in [Client -> Nat] /\ \A d \in Client : asked'[d] <= MaxRequests[d]
    BY <2>1
  <2>3. flag' \in [Client -> BOOLEAN]
    BY DEF Inv, RestOK
  <2> QED
    BY <2>2, <2>3 DEF RestOK
<1>5. ButPatient(a)' /\ OnTheWay(a)' = OnTheWay(a)
  BY <1>3, <1>4, ClientStep
<1> QED
  BY <1>2, <1>3, <1>5

(* What keeps who waits from asking.                                       *)
LEMMA MayNotAsk ==
    ASSUME Inv, NEW a \in Patient, user[a] = NoName, ~Unanswered(a)
    PROVE  /\ up[a] = << >>
           /\ \A m \in OnTheWay(a) : m.meant.kind \notin {"welcome", "refusal"}
<1>1. PatientAt(a) /\ a \in Client
  BY WireAssumption DEF Inv, PatientOK
<1>2. \A m \in OnTheWay(a) : m.meant.kind \notin {"welcome", "refusal"}
  BY DEF Unanswered, OnTheWay
<1>3. ~Entering(a, "login") /\ ~Entering(a, "register")
  <2>1. Len(up[a]) = 1 => 1 \in DOMAIN up[a]
    BY <1>1 DEF Inv, UpOK
  <2> QED
    BY <2>1 DEF Unanswered, Entering
<1> QED
  BY <1>1, <1>2, <1>3 DEF PatientAt

LEMMA LoginInv ==
    ASSUME Inv, NEW a \in Client, NEW u \in Name, NEW p \in Password, Login(a, u, p)
    PROVE  Inv'
<1>1. /\ MayAsk(a) /\ Ask(a, LoginText(u, p), LoginRequest(u, p))
      /\ ui' = [ui EXCEPT ![a] = "login"]
      /\ UNCHANGED <<accounts, user, flag, down, typed>>
  BY DEF Login
<1>2. [line |-> LoginText(u, p), meant |-> LoginRequest(u, p)] \in Requests(a)'
  BY WireAssumption DEF Requests, Entries
<1>3. LoginRequest(u, p).op = "login"
  BY DEF LoginRequest
<1>4. ui' \in [Client -> {"menu", "login", "chat"}] /\ ui'[a] = "login"
      /\ \A d \in Client : d # a => ui'[d] = ui[d]
  BY <1>1 DEF Inv, RestOK
<1>5. TypedOK'
  BY <1>1 DEF Inv, TypedOK
<1>6. /\ ButPatient(a)' /\ OnTheWay(a)' = OnTheWay(a)
      /\ up[a] = << >> => Len(up'[a]) = 1 /\ up'[a][1].meant = LoginRequest(u, p)
  BY <1>1, <1>2, <1>4, <1>5, AskStep
<1>7. ASSUME a \in Patient PROVE PatientAt(a)'
  <2>1. user[a] = NoName /\ ~Unanswered(a)
    BY <1>1, <1>7 DEF MayAsk
  <2>2. /\ up[a] = << >>
        /\ \A m \in OnTheWay(a) : m.meant.kind \notin {"welcome", "refusal"}
    BY <1>7, <2>1, MayNotAsk
  <2>3. Entering(a, "login")'
    BY <1>3, <1>6, <2>2 DEF Entering
  <2> QED
    BY <1>1, <1>4, <1>6, <2>1, <2>2, <2>3 DEF PatientAt
<1> QED
  BY <1>6, <1>7 DEF ButPatient, Inv, PatientOK

LEMMA RegisterInv ==
    ASSUME Inv, NEW a \in Client, NEW u \in Name, NEW p \in Password,
           NEW e \in Email, Register(a, u, p, e)
    PROVE  Inv'
<1>1. /\ MayAsk(a) /\ Ask(a, RegisterText(u, p, e), RegisterRequest(u, p, e))
      /\ UNCHANGED <<accounts, user, flag, ui, down, typed>>
  BY DEF Register
<1>2. [line |-> RegisterText(u, p, e), meant |-> RegisterRequest(u, p, e)]
         \in Requests(a)'
  BY WireAssumption DEF Requests, Entries
<1>3. RegisterRequest(u, p, e).op = "register"
  BY DEF RegisterRequest
<1>4. ui' \in [Client -> {"menu", "login", "chat"}]
      /\ \A d \in Client : d # a => ui'[d] = ui[d]
  BY <1>1 DEF Inv, RestOK
<1>5. TypedOK'
  BY <1>1 DEF Inv, TypedOK
<1>6. /\ ButPatient(a)' /\ OnTheWay(a)' = OnTheWay(a)
      /\ up[a] = << >> => Len(up'[a]) = 1 /\ up'[a][1].meant = RegisterRequest(u, p, e)
  BY <1>1, <1>2, <1>4, <1>5, AskStep
<1>7. ASSUME a \in Patient PROVE PatientAt(a)'
  <2>1. user[a] = NoName /\ ~Unanswered(a) /\ ui[a] = "menu"
    BY <1>1, <1>7 DEF MayAsk
  <2>2. /\ up[a] = << >>
        /\ \A m \in OnTheWay(a) : m.meant.kind \notin {"welcome", "refusal"}
    BY <1>7, <2>1, MayNotAsk
  <2>3. Entering(a, "register")'
    BY <1>3, <1>6, <2>2 DEF Entering
  <2> QED
    BY <1>1, <1>6, <2>1, <2>2, <2>3 DEF PatientAt
<1> QED
  BY <1>6, <1>7 DEF ButPatient, Inv, PatientOK

LEMMA WakeInv ==
    ASSUME Inv, NEW a \in Client, Wake(a)
    PROVE  Inv'
<1>1. /\ ui[a] = "login" /\ (a \in Patient => ~Unanswered(a))
      /\ UNCHANGED <<accounts, user, flag, down, typed, asked>>
      /\ IF flag[a]
         THEN /\ ui' = [ui EXCEPT ![a] = "chat"]
              /\ up' = [up EXCEPT ![a] = Append(@, UsersLine)]
         ELSE ui' = [ui EXCEPT ![a] = "menu"] /\ UNCHANGED up
  BY DEF Wake, UsersLine
<1>2. /\ UpOK' /\ \A d \in Client : d # a => up'[d] = up[d]
      /\ \A i \in DOMAIN up'[a] :
            \/ up'[a][i] = UsersLine
            \/ \E j \in DOMAIN up[a] : up'[a][i] = up[a][j]
  <2>1. CASE flag[a]
    <3>1. UsersLine \in Requests(a)'
      BY DEF Requests, UsersLine
    <3> QED
      BY <1>1, <2>1, <3>1, Asking DEF Inv
  <2>2. CASE ~flag[a]
    <3>1. \A d \in Client : Requests(d)' = Requests(d)
      BY <1>1 DEF Requests, By
    <3>2. up' = up
      BY <1>1, <2>2
    <3> QED
      BY <3>1, <3>2 DEF Inv, UpOK
  <2> QED
    BY <2>1, <2>2
<1>3. TypedOK'
  BY <1>1 DEF Inv, TypedOK
<1>4. RestOK' /\ \A d \in Client : d # a => ui'[d] = ui[d]
  BY <1>1 DEF Inv, RestOK
<1>5. ButPatient(a)' /\ OnTheWay(a)' = OnTheWay(a)
  BY <1>1, <1>2, <1>3, <1>4, ClientStep
<1>6. ASSUME a \in Patient PROVE PatientAt(a)'
  <2>1. PatientAt(a)
    BY <1>6 DEF Inv, PatientOK
  <2>2. CASE user[a] = NoName
    <3>1. /\ up[a] = << >>
          /\ \A m \in OnTheWay(a) : m.meant.kind \notin {"welcome", "refusal"}
      BY <1>1, <1>6, <2>2, MayNotAsk
    <3>2. ~Entering(a, "login")
      BY <3>1 DEF Entering
    <3>3. ~flag[a]
      BY <1>1, <2>1, <2>2, <3>1, <3>2 DEF PatientAt
    <3>4. ui'[a] = "menu" /\ up'[a] = << >> /\ user'[a] = NoName
      BY <1>1, <2>2, <3>1, <3>3 DEF Inv, RestOK
    <3> QED
      BY <3>4 DEF PatientAt
  <2>3. CASE user[a] # NoName
    <3>1. UsersLine.meant.op \notin {"login", "register"}
      BY DEF UsersLine, Only
    <3> QED
      BY <1>1, <1>2, <2>1, <2>3, <3>1 DEF PatientAt
  <2> QED
    BY <2>2, <2>3
<1> QED
  BY <1>5, <1>6 DEF ButPatient, Inv, PatientOK

LEMMA ToMenuInv ==
    ASSUME Inv, NEW a \in Client, ToMenu(a)
    PROVE  Inv'
<1>1. /\ ui[a] = "chat" /\ ui' = [ui EXCEPT ![a] = "menu"]
      /\ UNCHANGED <<accounts, user, flag, up, down, typed, asked>>
  BY DEF ToMenu
<1>2. UpOK'
  <2>1. \A d \in Client : Requests(d)' = Requests(d)
    BY <1>1 DEF Requests, By
  <2> QED
    BY <1>1, <2>1 DEF Inv, UpOK
<1>3. TypedOK'
  BY <1>1 DEF Inv, TypedOK
<1>4. RestOK' /\ \A d \in Client : d # a => ui'[d] = ui[d]
  BY <1>1 DEF Inv, RestOK
<1>5. ButPatient(a)'
  BY <1>1, <1>2, <1>3, <1>4, ClientStep
<1>6. ASSUME a \in Patient PROVE PatientAt(a)'
  <2>1. PatientAt(a)
    BY <1>6 DEF Inv, PatientOK
  <2>2. user[a] # NoName
    BY <1>1, <2>1 DEF PatientAt
  <2> QED
    BY <1>1, <2>1, <2>2 DEF PatientAt
<1> QED
  BY <1>5, <1>6 DEF ButPatient, Inv, PatientOK

LEMMA TypeInv ==
    ASSUME Inv, NEW a \in Client, NEW t \in Line, Type(a, t)
    PROVE  Inv'
<1>1. ui[a] = "chat" /\ UNCHANGED <<accounts, user, flag, ui, down>>
  BY DEF Type
<1>2. t \in Texts /\ t # Empty
  BY WireAssumption
<1>3. PICK line, meant :
         /\ Ask(a, line, meant)
         /\ [line |-> line, meant |-> meant] \in Requests(a)'
         /\ typed \subseteq typed' /\ TypedOK'
         /\ meant.op \notin {"login", "register"}
  <2> DEFINE i == First(Places(t, Space, 1))
             to == Between(t, 1, i)
             x == [by |-> a, to |-> to, text |-> After(t, i)]
             y == [by |-> a, to |-> Everybody, text |-> t]
  <2>1. CASE t = <<"users">> /\ Ask(a, <<"users">>, Only("users")) /\ UNCHANGED typed
    <3>1. UsersLine \in Requests(a)'
      BY DEF Requests, UsersLine
    <3>2. TypedOK'
      BY <2>1 DEF Inv, TypedOK
    <3>3. Only("users").op = "users"
      BY DEF Only
    <3> QED
      BY <2>1, <3>1, <3>2, <3>3 DEF UsersLine
  <2>2. CASE /\ t[1] = "@" /\ Places(t, Space, 1) # {}
             /\ Ask(a, PrivateText(to, After(t, i)), PrivateRequest(to, After(t, i)))
             /\ typed' = typed \cup {x}
    <3>1. to \in Texts /\ After(t, i) \in Texts
      <4>1. Places(t, Space, 1) \subseteq Nat
        BY <1>2, PlacesNat
      <4>2. i \in Places(t, Space, 1)
        BY <2>2, <4>1, FirstIs
      <4>3. i \in 1 .. Len(t) /\ t[i] = Space /\ Len(t) \in Nat
        BY <1>2, <4>2 DEF Places, Texts
      <4> HIDE DEF i
      <4>4. i # 1
        BY <2>2, <4>3 DEF Space
      <4>5. i \in Nat /\ 1 < i /\ i <= Len(t)
        BY <4>3, <4>4
      <4> QED
        BY <1>2, <4>5, BetweenIs, AfterIs
    <3> HIDE DEF to, i
    <3>2. x \in By(a)' /\ TypedOK'
      BY <2>2, <3>1 DEF By, Inv, TypedOK
    <3>3. PrivateLine(x) \in Requests(a)'
      BY <3>2 DEF Requests, PrivateLine
    <3>4. PrivateLine(x) = [line |-> PrivateText(to, After(t, i)),
                            meant |-> PrivateRequest(to, After(t, i))]
      BY DEF PrivateLine
    <3>5. PrivateRequest(to, After(t, i)).op = "private"
      BY DEF PrivateRequest
    <3> QED
      BY <2>2, <3>2, <3>3, <3>4, <3>5
  <2>3. CASE /\ Ask(a, BroadcastText(t), SayRequest(t))
             /\ typed' = typed \cup {y}
    <3>1. Everybody \in Texts
      BY Words, Vocabulary DEF Everybody
    <3>2. y \in By(a)' /\ TypedOK' /\ y.to = Everybody
      BY <1>2, <2>3, <3>1 DEF By, Inv, TypedOK
    <3>3. SaidLine(y) \in Requests(a)'
      BY <3>2 DEF Requests, SaidLine
    <3>4. SaidLine(y) = [line |-> BroadcastText(t), meant |-> SayRequest(t)]
      BY DEF SaidLine
    <3>5. SayRequest(t).op = "say"
      BY DEF SayRequest
    <3> QED
      BY <2>3, <3>2, <3>3, <3>4, <3>5
  <2> QED
    BY <2>1, <2>2, <2>3 DEF Type
<1>4. ui' \in [Client -> {"menu", "login", "chat"}]
  BY <1>1 DEF Inv, RestOK
<1>5. /\ ButPatient(a)'
      /\ \A i \in DOMAIN up'[a] :
            \/ up'[a][i].meant = meant
            \/ \E j \in DOMAIN up[a] : up'[a][i] = up[a][j]
  BY <1>1, <1>3, <1>4, AskStep
<1>6. ASSUME a \in Patient PROVE PatientAt(a)'
  <2>1. PatientAt(a)
    BY <1>6 DEF Inv, PatientOK
  <2>2. user[a] # NoName
    BY <1>1, <2>1 DEF PatientAt
  <2> QED
    BY <1>1, <1>3, <1>5, <2>1, <2>2 DEF PatientAt
<1> QED
  BY <1>5, <1>6 DEF ButPatient, Inv, PatientOK

LEMMA ReadInv ==
    ASSUME Inv, NEW a \in Client, Read(a)
    PROVE  Inv'
<1> DEFINE shown == Shown(Head(down[a]).line)
<1>1. /\ down[a] # << >>
      /\ flag' = [flag EXCEPT ![a] = (shown = Welcome \/ flag[a]) /\ shown # Refusal]
      /\ down' = [down EXCEPT ![a] = Tail(@)]
      /\ UNCHANGED <<accounts, user, ui, up, typed, asked>>
  BY DEF Read
<1> HIDE DEF shown
<1>2. AccountsOK' /\ UsersOK' /\ UserStays
  BY <1>1 DEF Inv, AccountsOK, UsersOK, UserStays
<1>3. TypedOK'
  BY <1>1 DEF Inv, TypedOK
<1>4. UpOK'
  <2>1. \A d \in Client : Requests(d)' = Requests(d)
    BY <1>1 DEF Requests, By
  <2> QED
    BY <1>1, <2>1 DEF Inv, UpOK
<1>5. RestOK'
  BY <1>1 DEF Inv, RestOK
<1>6. down[a] \in Seq(Served(a))
  BY DEF Inv, DownOK
<1>7. /\ Tail(down[a]) \in Seq(Served(a)) /\ Head(down[a]) \in Served(a)
      /\ Head(down[a]) = down[a][1]
      /\ \A i \in DOMAIN Tail(down[a]) :
            \E j \in DOMAIN down[a] : Tail(down[a])[i] = down[a][j]
      /\ \A j \in DOMAIN down[a] : j # 1 =>
            \E i \in DOMAIN Tail(down[a]) : Tail(down[a])[i] = down[a][j]
  BY <1>1, <1>6, RangeTail
<1>8. down'[a] = Tail(down[a]) /\ \A d \in Client \ {a} : down'[d] = down[d]
  BY <1>1 DEF Inv, DownOK
<1>9. DownOK'
  <2>1. \A d \in Client : Served(d) \subseteq Served(d)'
    BY <1>1, <1>2, AnswersStay DEF Inv
  <2>2. \A d \in Client : down'[d] \in Seq(Served(d))
    BY <1>7, <1>8 DEF Inv, DownOK
  <2>3. \A d \in Client : down'[d] \in Seq(Served(d)')
    BY <2>1, <2>2
  <2>4. down' = [d \in Client |-> down'[d]]
    BY <1>1 DEF Inv, DownOK
  <2> QED
    BY <2>3, <2>4 DEF DownOK
<1>10. ASSUME NEW d \in Patient \ {a} PROVE PatientAt(d)'
  <2>1. d \in Client /\ PatientAt(d)
    BY WireAssumption DEF Inv, PatientOK
  <2>2. OnTheWay(d)' = OnTheWay(d)
    BY <1>8, <2>1 DEF OnTheWay
  <2>3. user'[d] = user[d] /\ up'[d] = up[d] /\ ui'[d] = ui[d] /\ flag'[d] = flag[d]
    BY <1>1, <2>1 DEF Inv, RestOK
  <2> QED
    BY <2>1, <2>2, <2>3, PatientStays
<1>11. ASSUME a \in Patient PROVE PatientAt(a)'
  <2>1. PatientAt(a)
    BY <1>11 DEF Inv, PatientOK
  <2>2. \A m \in OnTheWay(a)' : m \in OnTheWay(a)
    BY <1>7, <1>8 DEF OnTheWay
  <2>3. \A m \in OnTheWay(a) : m = Head(down[a]) \/ m \in OnTheWay(a)'
    BY <1>7, <1>8 DEF OnTheWay
  <2>4. Head(down[a]) \in OnTheWay(a)
    BY <1>1, <1>6, RangeTail DEF OnTheWay
  <2>5. /\ shown = Welcome => Head(down[a]).meant.kind = "welcome"
        /\ Head(down[a]).meant.kind = "refusal" => shown = Refusal
    BY <1>7, AuthShown DEF shown, Inv
  <2>6. flag'[a] <=> (shown = Welcome \/ flag[a]) /\ shown # Refusal
    BY <1>1 DEF Inv, RestOK
  <2>7. /\ user'[a] = user[a] /\ up'[a] = up[a] /\ ui'[a] = ui[a]
        /\ \A op : Entering(a, op)' <=> Entering(a, op)
    BY <1>1 DEF Entering
  <2> QED
    BY <2>1, <2>2, <2>3, <2>4, <2>5, <2>6, <2>7, Zenon DEF PatientAt
<1> QED
  BY <1>2, <1>3, <1>4, <1>5, <1>9, <1>10, <1>11 DEF Inv, PatientOK

LEMMA StutterInv ==
    ASSUME Inv, UNCHANGED vars
    PROVE  Inv'
<1>1. \A d : Requests(d)' = Requests(d)
  BY DEF Requests, By, vars
<1>2. \A d, m : IsAnswer(d, m)' <=> IsAnswer(d, m)
  BY DEF IsAnswer, Typed, TypedTo, vars
<1>3. \A d : Served(d)' = Served(d)
  BY <1>2 DEF Served, Answers
<1>4. \A d : OnTheWay(d)' = OnTheWay(d) /\ \A op : Entering(d, op)' <=> Entering(d, op)
  BY DEF OnTheWay, Entering, vars
<1>5. PatientOK'
  BY <1>4 DEF Inv, PatientOK, PatientAt, vars
<1>6. UpOK' /\ DownOK'
  BY <1>1, <1>3 DEF Inv, UpOK, DownOK, vars
<1> QED
  BY <1>5, <1>6 DEF Inv, AccountsOK, UsersOK, TypedOK, RestOK, vars

-----------------------------------------------------------------------------
(* The theorems.                                                          *)

LEMMA NextInv ==
    ASSUME Inv, [Next]_vars
    PROVE  Inv'
<1>1. CASE UNCHANGED vars
  BY <1>1, StutterInv
<1>2. ASSUME NEW a \in Client,
             \/ \E u \in Name, p \in Password : Login(a, u, p)
             \/ \E u \in Name, p \in Password, e \in Email : Register(a, u, p, e)
             \/ Wake(a) \/ ToMenu(a) \/ Read(a)
             \/ \E t \in Line : Type(a, t)
      PROVE  Inv'
  <2>1. CASE \E u \in Name, p \in Password : Login(a, u, p)
    BY <2>1, LoginInv
  <2>2. CASE \E u \in Name, p \in Password, e \in Email : Register(a, u, p, e)
    BY <2>2, RegisterInv
  <2>3. CASE Wake(a)
    BY <2>3, WakeInv
  <2>4. CASE ToMenu(a)
    BY <2>4, ToMenuInv
  <2>5. CASE Read(a)
    BY <2>5, ReadInv
  <2>6. CASE \E t \in Line : Type(a, t)
    BY <2>6, TypeInv
  <2> QED
    BY <1>2, <2>1, <2>2, <2>3, <2>4, <2>5, <2>6
<1>3. ASSUME NEW a \in Client,
             \/ LoginRefused(a) \/ LoginAccepted(a) \/ Registered(a)
             \/ Broadcast(a) \/ Private(a) \/ UserList(a) \/ Other(a)
      PROVE  Inv'
  <2>1. CASE LoginRefused(a)
    BY <2>1, LoginRefusedInv
  <2>2. CASE LoginAccepted(a)
    BY <2>2, LoginAcceptedInv
  <2>3. CASE Registered(a)
    BY <2>3, RegisteredInv
  <2>4. CASE Broadcast(a)
    BY <2>4, BroadcastInv
  <2>5. CASE Private(a)
    BY <2>5, PrivateInv
  <2>6. CASE UserList(a)
    BY <2>6, UserListInv
  <2>7. CASE Other(a)
    BY <2>7, OtherInv
  <2> QED
    BY <1>3, <2>1, <2>2, <2>3, <2>4, <2>5, <2>6, <2>7
<1> QED
  BY <1>1, <1>2, <1>3, Zenon DEF Next

(* The queues hold what was asked and what answers it, and who waits for   *)
(* answers is where the protocol expects: the invariant of all that        *)
(* follows (session.cpp:67-139, client.cpp:206-287).                       *)
THEOREM LinesAreServed == Spec => []Inv
<1>1. Init => Inv
  BY InitInv
<1>2. Inv /\ [Next]_vars => Inv'
  BY NextInv
<1> QED
  BY <1>1, <1>2, PTL DEF Spec

LEMMA InvTypeOK ==
    ASSUME Inv
    PROVE  TypeOK
<1>1. ASSUME NEW c \in Client, NEW i \in DOMAIN up[c]
      PROVE  up[c][i].line \in Texts /\ up[c][i].meant.op # "refused"
  <2>1. up[c][i] \in Requests(c)
    BY DEF Inv, UpOK
  <2> QED
    BY <2>1, RequestIs DEF Inv
<1>2. ASSUME NEW c \in Client, NEW i \in DOMAIN down[c]
      PROVE  down[c][i].line \in Texts
  <2>1. down[c][i] \in Served(c)
    BY DEF Inv, DownOK
  <2> QED
    BY <2>1, ServedIs DEF Inv
<1>3. user \in [Client -> {NoName} \cup {x.name : x \in accounts}]
  BY DEF Inv, UsersOK
<1>4. \A c \in Client : asked[c] \in 0 .. MaxRequests[c]
  BY WireAssumption DEF Inv, RestOK
<1> QED
  BY <1>1, <1>2, <1>3, <1>4 DEF TypeOK, Inv, AccountsOK, TypedOK, RestOK

LEMMA OnTheWayIs ==
    ASSUME Inv, NEW c \in Client, NEW m \in OnTheWay(c)
    PROVE  m \in Served(c)
BY DEF OnTheWay, Inv, DownOK

(* What the server makes of the first line of one who waits.               *)
LEMMA InvHandled ==
    ASSUME Inv, NEW c \in Patient, up[c] # << >>, WellFormed(Head(up[c]).meant)
    PROVE  Handle(c) = Head(up[c]).meant
<1> DEFINE r == Head(up[c])
<1>1. c \in Client /\ PatientAt(c)
  BY WireAssumption DEF Inv, PatientOK
<1>2. /\ r \in Requests(c) /\ r = up[c][1]
      /\ user[c] = NoName => Handle(c) = FirstCommand(r.line)
      /\ user[c] # NoName => Handle(c) = ChatCommand(r.line)
  BY <1>1, HandleIs DEF Inv
<1>3. 1 \in DOMAIN up[c]
  BY <1>1, RangeTail DEF Inv, UpOK
<1>4. WellFormed(r.meant)
  OBVIOUS
<1> HIDE DEF r
<1>5. r.meant.op \in {"login", "register"} <=> r \in Entries
  BY <1>1, <1>2, RequestIs DEF Inv
<1>6. r.meant.op \in {"login", "register"} <=> user[c] = NoName
  BY <1>1, <1>2, <1>3 DEF PatientAt, Entering
<1>7. CASE user[c] = NoName
  <2>1. r \in Entries
    BY <1>5, <1>6, <1>7
  <2>2. CASE \E u, p \in Texts : r = [line |-> LoginText(u, p),
                                      meant |-> LoginRequest(u, p)]
    <3>1. PICK u \in Texts, p \in Texts :
             r.line = LoginText(u, p) /\ r.meant = LoginRequest(u, p)
      BY <2>2
    <3>2. Plain(u)
      BY <1>4, <3>1 DEF WellFormed, LoginRequest
    <3> QED
      BY <1>2, <1>7, <3>1, <3>2, PlainIsColonFree, LoginRead DEF r
  <2>3. CASE \E u, p, e \in Texts : r = [line |-> RegisterText(u, p, e),
                                         meant |-> RegisterRequest(u, p, e)]
    <3>1. PICK u \in Texts, p \in Texts, e \in Texts :
             r.line = RegisterText(u, p, e) /\ r.meant = RegisterRequest(u, p, e)
      BY <2>3
    <3>2. Plain(u) /\ Places(p, ":", 1) = {}
      BY <1>4, <3>1 DEF WellFormed, RegisterRequest
    <3>3. ColonFree(p)
      BY <3>2 DEF ColonFree, Places
    <3> QED
      BY <1>2, <1>7, <3>1, <3>2, <3>3, PlainIsColonFree, RegisterRead DEF r
  <2> QED
    BY <2>1, <2>2, <2>3, EntriesAre
<1>8. CASE user[c] # NoName
  <2>1. r \notin Entries
    BY <1>5, <1>6, <1>8
  <2>2. CASE r = UsersLine
    <3>1. r.line = <<"users">> /\ r.meant = Only("users")
      BY <2>2 DEF UsersLine
    <3> QED
      BY <1>2, <1>8, <3>1, UsersRead DEF r
  <2>3. CASE \E x \in By(c) : r = SaidLine(x)
    <3>1. PICK x \in By(c) : r = SaidLine(x)
      BY <2>3
    <3>2. r.line = BroadcastText(x.text) /\ r.meant = SayRequest(x.text)
      BY <3>1 DEF SaidLine
    <3>3. x.text \in Texts
      BY DEF By, Inv, TypedOK
    <3> QED
      BY <1>2, <1>8, <3>2, <3>3, SayRead DEF r
  <2>4. CASE \E x \in By(c) : r = PrivateLine(x)
    <3>1. PICK x \in By(c) : r = PrivateLine(x)
      BY <2>4
    <3>2. /\ r.line = PrivateText(x.to, x.text)
          /\ r.meant = PrivateRequest(x.to, x.text)
      BY <3>1 DEF PrivateLine
    <3>3. x.text \in Texts /\ x.to \in Texts
      BY DEF By, Inv, TypedOK
    <3>4. Plain(x.to)
      BY <1>4, <3>2 DEF WellFormed, PrivateRequest
    <3>5. ColonFree(x.to) /\ Len(x.to) >= 1
      BY <3>3, <3>4, PlainIsColonFree DEF Plain
    <3> QED
      BY <1>2, <1>8, <3>2, <3>3, <3>5, PrivateRead DEF r
  <2> QED
    BY <1>1, <1>2, <2>1, <2>2, <2>3, <2>4, RequestIs DEF Inv
<1> QED
  BY <1>7, <1>8

LEMMA SayingPrefix ==
    ASSUME NEW n \in Texts, NEW t \in Texts
    PROVE  IsPrefix(Saying(n, Empty), Saying(n, t))
<1>1. Empty \in Texts /\ Len(Empty) = 0
  BY Words DEF Empty
<1>2. Len(n) \in Nat /\ Len(t) \in Nat
  BY TextIs
<1> DEFINE p == Saying(n, Empty)
           w == Saying(n, t)
<1>3. /\ p \in Texts /\ Len(p) = Len(n) + 2
      /\ \A i \in 1 .. Len(n) : p[i] = n[i]
      /\ p[Len(n) + 1] = ":" /\ p[Len(n) + 2] = Space
  <2>1. /\ p \in Texts /\ Len(p) = Len(n) + 2 + Len(Empty)
        /\ \A i \in 1 .. Len(n) : p[i] = n[i]
        /\ p[Len(n) + 1] = ":" /\ p[Len(n) + 2] = Space
    BY <1>1, SayingParts, Zenon
  <2> HIDE DEF p
  <2> QED
    BY <1>1, <1>2, <2>1
<1>4. /\ w \in Texts /\ Len(w) = Len(n) + 2 + Len(t)
      /\ \A i \in 1 .. Len(n) : w[i] = n[i]
      /\ w[Len(n) + 1] = ":" /\ w[Len(n) + 2] = Space
  BY SayingParts
<1> HIDE DEF p, w
<1>5. Len(p) <= Len(w)
  BY <1>2, <1>3, <1>4
<1>6. \A i \in 1 .. Len(p) : p[i] = w[i]
  BY <1>2, <1>3, <1>4
<1>7. IsPrefix(p, w)
  BY <1>3, <1>4, <1>5, <1>6, Begins
<1> QED
  BY <1>7 DEF p, w

LEMMA InvShown ==
    ASSUME Inv, NEW c \in Client, NEW m \in OnTheWay(c)
    PROVE  \/ Shown(m.line) = m.meant
           \/ m.meant.kind = "list" /\ \E n \in m.meant.names : ~Plain(n)
           \/ m.meant.kind = "public" /\ \E d \in Client :
                 /\ user[d] # NoName /\ ~Plain(user[d])
                 /\ IsPrefix(Saying(user[d], Empty), m.line)
<1>1. m \in Served(c) /\ UsersOK
  BY OnTheWayIs DEF Inv
<1>2. CASE \E N \in SUBSET Texts :
              /\ m.meant = Listed(N)
              /\ (\A n \in N : Plain(n)) => Shown(m.line) = m.meant
  BY <1>2, Kinds
<1>3. CASE \E e \in Client, t \in Texts :
              /\ user[e] # NoName /\ ColonFree(user[e])
              /\ m.meant = Public(Saying(user[e], t))
              /\ m.line = Saying(user[e], t)
  <2>1. PICK e \in Client, t \in Texts :
              /\ user[e] # NoName /\ ColonFree(user[e])
              /\ m.meant = Public(Saying(user[e], t))
              /\ m.line = Saying(user[e], t)
    BY <1>3
  <2>2. Plain(user[e]) => Shown(m.line) = m.meant
    BY <2>1, ShownSaying
  <2>3. IsPrefix(Saying(user[e], Empty), m.line)
    BY <2>1, SayingPrefix DEF ColonFree
  <2>4. m.meant.kind = "public"
    BY <2>1, Kinds
  <2> QED
    BY <2>1, <2>2, <2>3, <2>4
<1> QED
  BY <1>1, <1>2, <1>3, ServedIs

(* Whatever was asked and answered, the queues hold texts, accounts have   *)
(* names of their own and sessions names of accounts (session.cpp:67-139,  *)
(* server.cpp:91-188).                                                     *)
THEOREM TypesOfLines == Spec => []TypeOK
<1>1. Inv => TypeOK
  BY InvTypeOK
<1> QED
  BY <1>1, LinesAreServed, PTL

(* Who reads a line makes of it what its writer meant: the server of the   *)
(* lines of those who wait, every client of those with plain names         *)
(* (session.cpp:67-139, client.cpp:206-287).                               *)
THEOREM LinesAreUnderstood == Spec => []Understood
<1>1. ASSUME Inv PROVE Understood
  BY <1>1, InvHandled, InvShown DEF Understood
<1> QED
  BY <1>1, LinesAreServed, PTL

LEMMA InvPrivateAttribution ==
    ASSUME Inv, NEW c \in Client, NEW m \in OnTheWay(c),
           Shown(m.line).kind = "private", Plain(Shown(m.line).from)
    PROVE  TypedTo(Shown(m.line).from, user[c], Shown(m.line).text)
<1>1. m \in Served(c) /\ UsersOK
  BY OnTheWayIs DEF Inv
<1>2. CASE \E n, t \in Texts : /\ TypedTo(n, user[c], t)
                               /\ m.meant = Direct(n, t) /\ Shown(m.line) = m.meant
  BY <1>2, Kinds
<1>3. CASE \E e \in Client, t \in Texts :
              ColonFree(user[e]) /\ m.line = Saying(user[e], t)
  BY <1>3, ShownSaying
<1>4. ~(m.meant \in {Welcome, Refusal} /\ Shown(m.line) = m.meant)
  BY Kinds
<1>5. ~\E N \in SUBSET Texts : Shown(m.line) = Listed(Names(After(m.line, 2)))
  BY Kinds
<1>6. ~\E t \in Texts : /\ m.meant \in {Notice(t), Fault(t), Sent(t)}
                        /\ Shown(m.line) = m.meant
  BY Kinds
<1> QED
  BY <1>1, <1>2, <1>3, <1>4, <1>5, <1>6, ServedIs

LEMMA InvPublic ==
    ASSUME Inv, NEW c \in Client, NEW m \in OnTheWay(c),
           Shown(m.line).kind = "public"
    PROVE  \E e \in Client, t \in Texts :
              /\ user[e] # NoName /\ ColonFree(user[e])
              /\ e \in Patient => Typed(user[e], Everybody, t)
              /\ m.meant = Public(Saying(user[e], t))
              /\ m.line = Saying(user[e], t)
              /\ Shown(m.line) = Public(m.line)
<1>1. m \in Served(c) /\ UsersOK
  BY OnTheWayIs DEF Inv
<1>2. ~(m.meant \in {Welcome, Refusal} /\ Shown(m.line) = m.meant)
  BY Kinds
<1>3. ~\E N \in SUBSET Texts : Shown(m.line) = Listed(Names(After(m.line, 2)))
  BY Kinds
<1>4. ~\E t \in Texts : /\ m.meant \in {Notice(t), Fault(t), Sent(t)}
                        /\ Shown(m.line) = m.meant
  BY Kinds
<1>5. ~\E n, t \in Texts : m.meant = Direct(n, t) /\ Shown(m.line) = m.meant
  BY Kinds
<1>6. PICK e \in Client, t \in Texts :
         /\ user[e] # NoName /\ ColonFree(user[e])
         /\ e \in Patient => Typed(user[e], Everybody, t)
         /\ m.meant = Public(Saying(user[e], t))
         /\ m.line = Saying(user[e], t)
  BY <1>1, <1>2, <1>3, <1>4, <1>5, ServedIs
<1>7. Shown(m.line) = Public(m.line)
  BY <1>6, ShownSaying
<1> QED
  BY <1>6, <1>7

(* No name or text can be taken for that of another who has a plain name:  *)
(* what is shown as from that name was typed by its user, to the one who   *)
(* sees it or, if the user waits for the answers, to everybody             *)
(* (server.cpp:213, session.cpp:265, client.cpp:247-286).                  *)
THEOREM LinesAreAttributed == Spec => []Attribution
<1>1. ASSUME Inv, NEW c \in Client, NEW m \in OnTheWay(c),
             Shown(m.line).kind = "public", NEW d \in Patient,
             Author(Shown(m.line).text) = user[d], Plain(user[d])
      PROVE  Typed(user[d], Everybody, Rest(Shown(m.line).text))
  <2>1. PICK e \in Client, t \in Texts :
              /\ user[e] # NoName /\ ColonFree(user[e])
              /\ e \in Patient => Typed(user[e], Everybody, t)
              /\ m.line = Saying(user[e], t)
              /\ Shown(m.line) = Public(m.line)
    BY <1>1, InvPublic
  <2>2. Author(m.line) = user[e] /\ Rest(m.line) = t
    BY <2>1, SayingSplit
  <2>3. Shown(m.line).text = m.line
    BY <2>1, Kinds
  <2>4. d = e
    BY <1>1, <2>1, <2>2, <2>3, WireAssumption DEF Inv, UsersOK
  <2> QED
    BY <2>1, <2>2, <2>3, <2>4
<1>2. ASSUME Inv PROVE Attribution
  BY <1>1, <1>2, InvPrivateAttribution DEF Attribution
<1> QED
  BY <1>2, LinesAreServed, PTL

LEMMA ParsedPublic ==
    ASSUME NEW n, Plain(n), ColonFree(n), NEW t \in Texts
    PROVE  LET p == Parse(Saying(n, t))
           IN /\ Serialize(p) = Saying(n, t)
              /\ p.type = "BROADCAST" /\ p.sender = n
<1> DEFINE w == Saying(n, t)
           i == First(Places(w, ":", 1))
<1>1. n \in Texts /\ Len(n) = 1 /\ n[1] \notin Keyword \cup Mark
  BY DEF Plain, ColonFree
<1>2. /\ w \in Texts /\ w[1] = n[1]
      /\ After(w, Len(n) + 1) = <<Space>> \o t
  <2>1. /\ w \in Texts /\ \A k \in 1 .. Len(n) : w[k] = n[k]
        /\ After(w, Len(n) + 1) = <<Space>> \o t
    BY <1>1, SayingParts, Zenon
  <2>2. 1 \in 1 .. Len(n)
    BY <1>1
  <2> QED
    BY <2>1, <2>2, Zenon
<1>3. /\ Places(w, ":", 1) # {} /\ i = Len(n) + 1 /\ Between(w, 0, i) = n
  BY SayingSplit DEF Author
<1>4. w[1] # "@"
  BY <1>1, <1>2 DEF Mark
<1>5. ASSUME NEW x \in Keyword, Tagged(w, x) PROVE FALSE
  <2>1. x # ":"
    BY DEF Keyword
  <2>2. n[1] = x
    BY <1>5, <2>1, SayingTagged
  <2> QED
    BY <1>1, <2>2
<1>6. Chopped(After(w, i)) = t
  BY <1>2, <1>3, ChoppedSpace
<1>7. Parse(w) = ChatMessage("BROADCAST", Between(w, 0, i), Empty,
                             Chopped(After(w, i)))
  BY <1>2, <1>3, <1>4, <1>5, ParseBy
<1>8. Parse(w) = ChatMessage("BROADCAST", n, Empty, t)
  BY <1>3, <1>6, <1>7, Zenon
<1>9. n # Empty
  BY <1>1 DEF Empty
<1> HIDE DEF w, i
<1>10. Serialize(Parse(w)) = Saying(n, t)
  BY <1>8, <1>9, Serializing
<1>11. Parse(w).type = "BROADCAST" /\ Parse(w).sender = n
  BY <1>8 DEF ChatMessage
<1> QED
  BY <1>10, <1>11 DEF w

LEMMA ParsedPrivate ==
    ASSUME NEW n, Plain(n), ColonFree(n), NEW t \in Texts
    PROVE  LET p == Parse(Text(Direct(n, t)))
           IN /\ Serialize(p) = Text(Direct(n, t))
              /\ p.type = "PRIVATE" /\ p.sender = n /\ p.content = t
<1> DEFINE w == Text(Direct(n, t))
           j == First(Places(w, ":", 3))
<1>1. /\ w \in Texts /\ Tagged(w, "private") /\ Places(w, ":", 3) # {}
      /\ Between(w, 2, j) = n /\ After(w, j) = t
  BY DirectText
<1>2. w = <<"private", ":">> \o n \o <<":">> \o t
  BY Texting
<1>3. n # Empty
  BY DEF Plain, Empty
<1>4. Parse(w) = ChatMessage("PRIVATE", Between(w, 2, j), Empty, After(w, j))
  BY <1>1, ParseBy
<1> HIDE DEF w, j
<1>5. Parse(w) = ChatMessage("PRIVATE", n, Empty, t)
  BY <1>1, <1>4
<1>6. Serialize(Parse(w)) = w
  BY <1>2, <1>3, <1>5, Serializing
<1>7. Parse(w).type = "PRIVATE" /\ Parse(w).sender = n /\ Parse(w).content = t
  BY <1>5 DEF ChatMessage
<1> QED
  BY <1>6, <1>7 DEF w

LEMMA ParsedTagged ==
    ASSUME NEW t \in Texts
    PROVE  LET p == Parse(Text(Notice(t)))
               q == Parse(Text(Fault(t)))
           IN /\ Serialize(p) = Text(Notice(t))
              /\ p.type = "SYSTEM" /\ p.content = t
              /\ Serialize(q) = Text(Fault(t))
              /\ q.type = "ERROR" /\ q.content = t
<1>1. Parse(Text(Notice(t))) = ChatMessage("SYSTEM", Empty, Empty, t)
  BY TaggedText, ParseBy
<1>2. Parse(Text(Fault(t))) = ChatMessage("ERROR", Empty, Empty, t)
  BY TaggedText, ParseBy
<1>3. /\ Serialize(Parse(Text(Notice(t)))) = Text(Notice(t))
      /\ Serialize(Parse(Text(Fault(t)))) = Text(Fault(t))
  <2>1. /\ Serialize(ChatMessage("SYSTEM", Empty, Empty, t)) = <<"system", ":">> \o t
        /\ Serialize(ChatMessage("ERROR", Empty, Empty, t)) = <<"error", ":">> \o t
    BY Serializing
  <2>2. /\ Text(Notice(t)) = <<"system", ":">> \o t
        /\ Text(Fault(t)) = <<"error", ":">> \o t
    BY Texting, Zenon
  <2> QED
    BY <1>1, <1>2, <2>1, <2>2, Zenon
<1>4. /\ Parse(Text(Notice(t))).type = "SYSTEM" /\ Parse(Text(Notice(t))).content = t
      /\ Parse(Text(Fault(t))).type = "ERROR" /\ Parse(Text(Fault(t))).content = t
  BY <1>1, <1>2 DEF ChatMessage
<1> QED
  BY <1>3, <1>4

LEMMA ParsedWhole ==
    ASSUME NEW w \in Texts
    PROVE  /\ Tagged(w, "auth") => Serialize(Parse(w)) = w /\ Parse(w).type = "AUTH"
           /\ Tagged(w, "users") =>
                 /\ Serialize(Parse(w)) = w
                 /\ Parse(w).type = "USER_LIST" /\ Parse(w).content = w
<1>1. /\ Tagged(w, "auth") => Parse(w) = ChatMessage("AUTH", Empty, Empty, w)
      /\ Tagged(w, "users") => Parse(w) = ChatMessage("USER_LIST", Empty, Empty, w)
  BY ParseBy
<1>2. /\ Serialize(ChatMessage("AUTH", Empty, Empty, w)) = w
      /\ Serialize(ChatMessage("USER_LIST", Empty, Empty, w)) = w
  BY Serializing
<1>3. /\ ChatMessage("AUTH", Empty, Empty, w).type = "AUTH"
      /\ ChatMessage("USER_LIST", Empty, Empty, w).type = "USER_LIST"
      /\ ChatMessage("USER_LIST", Empty, Empty, w).content = w
  BY DEF ChatMessage
<1> QED
  BY <1>1, <1>2, <1>3, Zenon

(* What ParserFaithful says of one line.                                   *)
Faithful(m) ==
    LET p == Parse(m.line)
    IN /\ Serialize(p) = m.line
       /\ CASE m.meant.kind \in {"welcome", "refusal"} -> p.type = "AUTH"
            [] m.meant.kind = "list" ->
                 p.type = "USER_LIST" /\ Names(After(p.content, 2)) = m.meant.names
            [] m.meant.kind = "notice" ->
                 p.type = "SYSTEM" /\ p.content = m.meant.text
            [] m.meant.kind = "error" ->
                 p.type = "ERROR" /\ p.content = m.meant.text
            [] m.meant.kind = "private" ->
                 p.type = "PRIVATE" /\ p.sender = m.meant.from
                 /\ p.content = m.meant.text
            [] m.meant.kind = "public" ->
                 p.type = "BROADCAST" /\ p.sender = Author(m.line)

LEMMA InvParsed ==
    ASSUME Inv, NEW c \in Client, NEW m \in OnTheWay(c),
           m.meant.kind # "sent", Shown(m.line) = m.meant,
           m.meant.kind = "public" => Plain(Author(m.line)),
           m.meant.kind = "private" => Plain(m.meant.from)
    PROVE  Faithful(m)
<1>1. m \in Served(c) /\ UsersOK
  BY OnTheWayIs DEF Inv
<1>2. m.line = Text(m.meant) /\ m.line \in Texts
  BY <1>1, ServedIs
<1>3. CASE m.meant \in {Welcome, Refusal}
  <2>1. Tagged(m.line, "auth") /\ m.meant.kind \in {"welcome", "refusal"}
    BY <1>2, <1>3, AuthText, Kinds
  <2>2. Serialize(Parse(m.line)) = m.line /\ Parse(m.line).type = "AUTH"
    BY <1>2, <2>1, ParsedWhole
  <2> QED
    BY <2>1, <2>2 DEF Faithful
<1>4. CASE \E N \in SUBSET Texts :
              /\ m.meant = Listed(N) /\ Tagged(m.line, "users")
              /\ Shown(m.line) = Listed(Names(After(m.line, 2)))
  <2>1. m.meant = Listed(Names(After(m.line, 2))) /\ Tagged(m.line, "users")
    BY <1>4
  <2>2. m.meant.kind = "list" /\ m.meant.names = Names(After(m.line, 2))
    BY <2>1, Kinds
  <2>3. /\ Serialize(Parse(m.line)) = m.line
        /\ Parse(m.line).type = "USER_LIST" /\ Parse(m.line).content = m.line
    BY <1>2, <2>1, ParsedWhole
  <2> QED
    BY <2>2, <2>3 DEF Faithful
<1>5. CASE \E t \in Texts : m.meant \in {Notice(t), Fault(t), Sent(t)}
  <2>1. PICK t \in Texts : m.meant \in {Notice(t), Fault(t)}
    BY <1>5, Kinds
  <2>2. CASE m.meant = Notice(t)
    <3>1. m.meant.kind = "notice" /\ m.meant.text = t
      BY <2>2, Kinds
    <3>2. /\ Serialize(Parse(m.line)) = m.line
          /\ Parse(m.line).type = "SYSTEM" /\ Parse(m.line).content = t
      BY <1>2, <2>2, ParsedTagged
    <3> QED
      BY <3>1, <3>2 DEF Faithful
  <2>3. CASE m.meant = Fault(t)
    <3>1. m.meant.kind = "error" /\ m.meant.text = t
      BY <2>3, Kinds
    <3>2. /\ Serialize(Parse(m.line)) = m.line
          /\ Parse(m.line).type = "ERROR" /\ Parse(m.line).content = t
      BY <1>2, <2>3, ParsedTagged
    <3> QED
      BY <3>1, <3>2 DEF Faithful
  <2> QED
    BY <2>1, <2>2, <2>3
<1>6. CASE \E n, t \in Texts : ColonFree(n) /\ m.meant = Direct(n, t)
  <2>1. PICK n \in Texts, t \in Texts : ColonFree(n) /\ m.meant = Direct(n, t)
    BY <1>6
  <2>2. m.meant.kind = "private" /\ m.meant.from = n /\ m.meant.text = t
    BY <2>1, Kinds
  <2>3. /\ Serialize(Parse(m.line)) = m.line
        /\ Parse(m.line).type = "PRIVATE" /\ Parse(m.line).sender = n
        /\ Parse(m.line).content = t
    BY <1>2, <2>1, <2>2, ParsedPrivate
  <2> QED
    BY <2>2, <2>3 DEF Faithful
<1>7. CASE \E e \in Client, t \in Texts :
              /\ ColonFree(user[e]) /\ m.meant = Public(Saying(user[e], t))
              /\ m.line = Saying(user[e], t)
  <2>1. PICK e \in Client, t \in Texts :
              /\ ColonFree(user[e]) /\ m.meant = Public(Saying(user[e], t))
              /\ m.line = Saying(user[e], t)
    BY <1>7
  <2>2. m.meant.kind = "public"
    BY <2>1, Kinds
  <2>3. Author(m.line) = user[e] /\ Plain(user[e])
    BY <2>1, <2>2, SayingSplit
  <2>4. /\ Serialize(Parse(m.line)) = m.line
        /\ Parse(m.line).type = "BROADCAST" /\ Parse(m.line).sender = user[e]
    BY <2>1, <2>3, ParsedPublic
  <2> QED
    BY <2>2, <2>3, <2>4 DEF Faithful
<1> QED
  BY <1>1, <1>3, <1>4, <1>5, <1>6, <1>7, ServedIs

(* The server's lines are of the parser's language: it takes each that a   *)
(* client understands for what it is, and writes it again as it was        *)
(* (message.cpp:7-105).                                                    *)
THEOREM LinesAreParsed == Spec => []ParserFaithful
<1>1. ASSUME Inv, NEW c \in Client, NEW m \in OnTheWay(c),
             m.meant.kind # "sent", Shown(m.line) = m.meant,
             m.meant.kind = "public" => Plain(Author(m.line)),
             m.meant.kind = "private" => Plain(m.meant.from)
      PROVE  Faithful(m)
  BY <1>1, InvParsed
<1>2. ASSUME Inv PROVE ParserFaithful
  BY <1>1, <1>2, Zenon DEF ParserFaithful, Faithful
<1> QED
  BY <1>2, LinesAreServed, PTL

=============================================================================
