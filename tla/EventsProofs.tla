----------------------------- MODULE EventsProofs -----------------------------
(***************************************************************************)
(* What is proved about the event scheduler for every set of events and    *)
(* lists, every counter width and every set of delays.                     *)
(***************************************************************************)
EXTENDS Events, SequenceTheorems, TLAPS

-----------------------------------------------------------------------------
(* The two list operations, element by element.                            *)

LEMMA InsertAtElements ==
    ASSUME NEW S, NEW s \in Seq(S), NEW e \in S, NEW i \in 1..(Len(s) + 1)
    PROVE  /\ InsertAt(s, i, e) \in Seq(S)
           /\ Len(InsertAt(s, i, e)) = Len(s) + 1
           /\ \A j \in 1..(Len(s) + 1) : InsertAt(s, i, e)[j] =
                 IF j < i THEN s[j] ELSE IF j = i THEN e ELSE s[j - 1]
  <1> DEFINE a == SubSeq(s, 1, i - 1)
             b == SubSeq(s, i, Len(s))
  <1>1. a \in Seq(S) /\ Len(a) = i - 1 /\ \A j \in 1..(i - 1) : a[j] = s[j]
    BY SubSeqProperties
  <1>2. /\ b \in Seq(S) /\ Len(b) = Len(s) - i + 1
        /\ \A j \in 1..(Len(s) - i + 1) : b[j] = s[i + j - 1]
    BY SubSeqProperties
  <1> HIDE DEF a, b
  <1>3. <<e>> \in Seq(S) /\ Len(<<e>>) = 1 /\ <<e>>[1] = e
    OBVIOUS
  <1>4. /\ a \o <<e>> \in Seq(S) /\ Len(a \o <<e>>) = i
        /\ \A j \in 1..i : (a \o <<e>>)[j] = IF j < i THEN s[j] ELSE e
    BY <1>1, <1>3, ConcatProperties
  <1> DEFINE c == a \o <<e>>
  <1> HIDE DEF c
  <1>5. /\ c \o b \in Seq(S) /\ Len(c \o b) = Len(s) + 1
        /\ \A j \in 1..(Len(s) + 1) : (c \o b)[j] = IF j <= i THEN c[j] ELSE b[j - i]
    <2>1. c \in Seq(S) /\ Len(c) = i
      BY <1>4 DEF c
    <2>2. /\ c \o b \in Seq(S)
          /\ Len(c \o b) = Len(c) + Len(b)
          /\ \A j \in 1..(Len(c) + Len(b)) : (c \o b)[j] =
                IF j <= Len(c) THEN c[j] ELSE b[j - Len(c)]
      BY <1>2, <2>1, ConcatProperties
    <2>3. Len(s) \in Nat
      BY LenProperties
    <2> QED
      BY <1>2, <2>1, <2>2, <2>3
  <1>6. ASSUME NEW j \in 1..(Len(s) + 1), j > i
        PROVE  b[j - i] = s[j - 1]
    BY <1>2, <1>6
  <1>7. InsertAt(s, i, e) = c \o b
    BY DEF InsertAt, a, b, c
  <1> QED
    BY <1>4, <1>5, <1>6, <1>7 DEF c

LEMMA RemoveAtElements ==
    ASSUME NEW S, NEW s \in Seq(S), NEW i \in 1..Len(s)
    PROVE  /\ RemoveAt(s, i) \in Seq(S)
           /\ Len(RemoveAt(s, i)) = Len(s) - 1
           /\ \A j \in 1..(Len(s) - 1) : RemoveAt(s, i)[j] =
                 IF j < i THEN s[j] ELSE s[j + 1]
  <1> DEFINE a == SubSeq(s, 1, i - 1)
             b == SubSeq(s, i + 1, Len(s))
  <1>1. a \in Seq(S) /\ Len(a) = i - 1 /\ \A j \in 1..(i - 1) : a[j] = s[j]
    BY SubSeqProperties
  <1>2. /\ b \in Seq(S) /\ Len(b) = Len(s) - i
        /\ \A j \in 1..(Len(s) - i) : b[j] = s[i + j]
    BY SubSeqProperties
  <1> HIDE DEF a, b
  <1>3. /\ a \o b \in Seq(S) /\ Len(a \o b) = Len(s) - 1
        /\ \A j \in 1..(Len(s) - 1) : (a \o b)[j] = IF j < i THEN s[j] ELSE b[j - i + 1]
    <2>1. /\ a \o b \in Seq(S)
          /\ Len(a \o b) = Len(a) + Len(b)
          /\ \A j \in 1..(Len(a) + Len(b)) : (a \o b)[j] =
                IF j <= Len(a) THEN a[j] ELSE b[j - Len(a)]
      BY <1>1, <1>2, ConcatProperties
    <2>2. Len(s) \in Nat
      BY LenProperties
    <2> QED
      BY <1>1, <1>2, <2>1, <2>2
  <1>4. ASSUME NEW j \in 1..(Len(s) - 1), j >= i
        PROVE  b[j - i + 1] = s[j + 1]
    BY <1>2, <1>4
  <1>5. RemoveAt(s, i) = a \o b
    BY DEF RemoveAt, a, b
  <1> QED
    BY <1>3, <1>4, <1>5

-----------------------------------------------------------------------------
(* A list s of l is sound for the queued events Q, their ticks to go d and *)
(* the queueing order b.  LinkedIffQueued and Ordered say so of every list.*)

Sound(s, l, Q, d, b) ==
    /\ \A i, j \in DOMAIN s : s[i] = s[j] => i = j
    /\ \A i \in DOMAIN s : s[i] \in Q /\ Home[s[i]] = l
    /\ \A e \in Q : Home[e] = l => \E i \in DOMAIN s : s[i] = e
    /\ \A i, j \in DOMAIN s : i < j =>
          d[s[i]] < d[s[j]] \/ (d[s[i]] = d[s[j]] /\ <<s[i], s[j]>> \in b)

\* Soundness depends on the events of l only, and only on the order of their ticks.
LEMMA SoundDepends ==
    ASSUME NEW s \in Seq(Ev), NEW l, NEW Q \in SUBSET Ev, NEW Q2 \in SUBSET Ev,
           NEW d \in [Ev -> Int], NEW d2 \in [Ev -> Int], NEW b, NEW b2,
           Sound(s, l, Q, d, b),
           \A e \in Ev : Home[e] = l => (e \in Q <=> e \in Q2),
           \A e, f \in Q : Home[e] = l /\ Home[f] = l => d2[e] - d2[f] = d[e] - d[f],
           \A e, f \in Q : Home[e] = l /\ Home[f] = l => (<<e, f>> \in b => <<e, f>> \in b2)
    PROVE  Sound(s, l, Q2, d2, b2)
  <1>1. ASSUME NEW i \in DOMAIN s, NEW j \in DOMAIN s, i < j
        PROVE  d2[s[i]] < d2[s[j]] \/ (d2[s[i]] = d2[s[j]] /\ <<s[i], s[j]>> \in b2)
    <2>1. /\ s[i] \in Q /\ s[j] \in Q /\ Home[s[i]] = l /\ Home[s[j]] = l
          /\ s[i] \in Ev /\ s[j] \in Ev
      BY DEF Sound
    <2>2. d[s[i]] < d[s[j]] \/ (d[s[i]] = d[s[j]] /\ <<s[i], s[j]>> \in b)
      BY <1>1 DEF Sound
    <2>3. d2[s[i]] - d2[s[j]] = d[s[i]] - d[s[j]]
      BY <2>1
    <2>4. /\ d[s[i]] \in Int /\ d[s[j]] \in Int
          /\ d2[s[i]] \in Int /\ d2[s[j]] \in Int
      BY <2>1
    <2> QED
      BY <2>1, <2>2, <2>3, <2>4
  <1> QED
    BY <1>1 DEF Sound

LEMMA UnlinkSound ==
    ASSUME NEW s \in Seq(Ev), NEW l, NEW Q \in SUBSET Ev, NEW d \in [Ev -> Int], NEW b,
           Sound(s, l, Q, d, b), NEW e \in Q, Home[e] = l
    PROVE  /\ Unlink(s, e) \in Seq(Ev)
           /\ Sound(Unlink(s, e), l, Q \ {e}, d, b)
  <1> DEFINE k == CHOOSE i \in DOMAIN s : s[i] = e
             r == RemoveAt(s, k)
  <1>1. k \in 1..Len(s) /\ s[k] = e
    BY DEF Sound
  <1> HIDE DEF k
  <1>2. /\ r \in Seq(Ev) /\ Len(r) = Len(s) - 1
        /\ \A j \in 1..(Len(s) - 1) : r[j] = IF j < k THEN s[j] ELSE s[j + 1]
    BY <1>1, RemoveAtElements
  <1>3. Unlink(s, e) = r
    BY DEF Unlink, k
  <1> HIDE DEF r
  <1>4. Len(s) \in Nat /\ DOMAIN s = 1..Len(s) /\ DOMAIN r = 1..(Len(s) - 1)
    BY <1>2, LenProperties
  \* Position j of the shorter list is position From(j) of the longer one.
  <1> DEFINE From(j) == IF j < k THEN j ELSE j + 1
  <1>5. \A j \in DOMAIN r : From(j) \in DOMAIN s /\ From(j) # k /\ r[j] = s[From(j)]
    <2> SUFFICES ASSUME NEW j \in 1..(Len(s) - 1)
                 PROVE  From(j) \in DOMAIN s /\ From(j) # k /\ r[j] = s[From(j)]
      BY <1>4
    <2>1. From(j) \in DOMAIN s /\ From(j) # k
      BY <1>1, <1>4
    <2>2. r[j] = IF j < k THEN s[j] ELSE s[j + 1]
      BY <1>2
    <2> QED
      BY <2>1, <2>2
  <1>6. \A i, j \in DOMAIN r : (From(i) = From(j) => i = j) /\ (i < j => From(i) < From(j))
    BY <1>1, <1>4
  <1>7. \A m \in DOMAIN s : m # k => \E j \in DOMAIN r : From(j) = m
    <2> SUFFICES ASSUME NEW m \in DOMAIN s, m # k
                 PROVE  \E j \in DOMAIN r : From(j) = m
      OBVIOUS
    <2>1. CASE m < k
      BY <1>1, <1>4, <2>1
    <2>2. CASE m > k
      <3>1. m - 1 \in DOMAIN r /\ From(m - 1) = m
        BY <1>1, <1>4, <2>2
      <3> QED
        BY <3>1
    <2> QED
      BY <1>1, <1>4, <2>1, <2>2
  <1> HIDE DEF From
  <1>8. \A i, j \in DOMAIN r : r[i] = r[j] => i = j
    BY <1>5, <1>6 DEF Sound
  <1>9. \A i \in DOMAIN r : r[i] \in Q \ {e} /\ Home[r[i]] = l
    BY <1>1, <1>4, <1>5 DEF Sound
  <1>10. \A f \in Q \ {e} : Home[f] = l => \E i \in DOMAIN r : r[i] = f
    BY <1>1, <1>5, <1>7 DEF Sound
  <1>11. \A i, j \in DOMAIN r : i < j =>
            d[r[i]] < d[r[j]] \/ (d[r[i]] = d[r[j]] /\ <<r[i], r[j]>> \in b)
    BY <1>5, <1>6 DEF Sound
  <1> QED
    BY <1>2, <1>3, <1>8, <1>9, <1>10, <1>11 DEF Sound

LEMMA InsertSound ==
    ASSUME NEW s \in Seq(Ev), NEW l, NEW Q \in SUBSET Ev, NEW d \in [Ev -> Int], NEW b,
           Sound(s, l, Q, d, b), NEW e \in Ev \ Q, Home[e] = l,
           NEW k \in 1..(Len(s) + 1),
           \A j \in 1..(k - 1) : d[s[j]] <= d[e],
           k <= Len(s) => d[e] < d[s[k]],
           \A f \in Q : Home[f] = l => <<f, e>> \in b
    PROVE  /\ InsertAt(s, k, e) \in Seq(Ev)
           /\ Sound(InsertAt(s, k, e), l, Q \union {e}, d, b)
  <1> DEFINE r == InsertAt(s, k, e)
  <1>1. /\ r \in Seq(Ev) /\ Len(r) = Len(s) + 1
        /\ \A j \in 1..(Len(s) + 1) : r[j] =
              IF j < k THEN s[j] ELSE IF j = k THEN e ELSE s[j - 1]
    BY InsertAtElements
  <1> HIDE DEF r
  <1>2. Len(s) \in Nat /\ DOMAIN s = 1..Len(s) /\ DOMAIN r = 1..(Len(s) + 1)
    BY <1>1, LenProperties
  \* Position j # k of the longer list is position From(j) of the shorter one.
  <1> DEFINE From(j) == IF j < k THEN j ELSE j - 1
  <1>3. \A j \in DOMAIN r : j # k => From(j) \in DOMAIN s /\ r[j] = s[From(j)]
    <2> SUFFICES ASSUME NEW j \in 1..(Len(s) + 1), j # k
                 PROVE  From(j) \in DOMAIN s /\ r[j] = s[From(j)]
      BY <1>2
    <2>1. From(j) \in DOMAIN s
      BY <1>2
    <2>2. r[j] = IF j < k THEN s[j] ELSE s[j - 1]
      BY <1>1
    <2> QED
      BY <2>1, <2>2
  <1>4. k \in DOMAIN r /\ r[k] = e
    BY <1>1, <1>2
  <1>5. \A i, j \in DOMAIN r : i # k /\ j # k =>
           (From(i) = From(j) => i = j) /\ (i < j => From(i) < From(j))
    BY <1>2
  <1>6. \A m \in DOMAIN s : \E j \in DOMAIN r : j # k /\ From(j) = m
    <2> SUFFICES ASSUME NEW m \in DOMAIN s
                 PROVE  \E j \in DOMAIN r : j # k /\ From(j) = m
      OBVIOUS
    <2>1. CASE m < k
      BY <1>2, <2>1
    <2>2. CASE m >= k
      <3>1. m + 1 \in DOMAIN r /\ m + 1 # k /\ From(m + 1) = m
        BY <1>2, <2>2
      <3> QED
        BY <3>1
    <2> QED
      BY <1>2, <2>1, <2>2
  <1>7. \A j \in DOMAIN r : (j < k => From(j) \in 1..(k - 1)) /\ (j > k => From(j) >= k)
    BY <1>2
  <1> HIDE DEF From
  <1>8. \A i \in DOMAIN s : s[i] \in Q /\ Home[s[i]] = l /\ s[i] # e /\ d[s[i]] \in Int
    BY DEF Sound
  <1>9. \A i, j \in DOMAIN r : r[i] = r[j] => i = j
    BY <1>3, <1>4, <1>5, <1>8 DEF Sound
  <1>10. \A i \in DOMAIN r : r[i] \in Q \union {e} /\ Home[r[i]] = l
    BY <1>3, <1>4, <1>8
  <1>11. \A f \in Q \union {e} : Home[f] = l => \E i \in DOMAIN r : r[i] = f
    BY <1>3, <1>4, <1>6 DEF Sound
  <1>12. \A m \in DOMAIN s : m >= k => d[e] < d[s[m]]
    <2> SUFFICES ASSUME NEW m \in DOMAIN s, m >= k
                 PROVE  d[e] < d[s[m]]
      OBVIOUS
    <2>1. k \in DOMAIN s /\ d[e] < d[s[k]]
      BY <1>2
    <2>2. m = k \/ d[s[k]] <= d[s[m]]
      <3>1. m = k \/ k < m
        BY <1>2, <2>1
      <3>2. k < m => d[s[k]] < d[s[m]] \/ d[s[k]] = d[s[m]]
        BY <2>1 DEF Sound
      <3>3. d[s[k]] \in Int /\ d[s[m]] \in Int
        BY <1>8, <2>1
      <3> QED
        BY <3>1, <3>2, <3>3
    <2> QED
      BY <1>8, <2>1, <2>2
  <1>13. ASSUME NEW i \in DOMAIN r, NEW j \in DOMAIN r, i < j
         PROVE  d[r[i]] < d[r[j]] \/ (d[r[i]] = d[r[j]] /\ <<r[i], r[j]>> \in b)
    <2>1. CASE i # k /\ j # k
      BY <1>3, <1>5, <1>13, <2>1 DEF Sound
    <2>2. CASE j = k
      <3>1. From(i) \in 1..(k - 1) /\ From(i) \in DOMAIN s /\ r[i] = s[From(i)]
        BY <1>2, <1>3, <1>7, <1>13, <2>2
      <3>2. d[r[i]] <= d[e] /\ d[r[i]] \in Int /\ <<r[i], e>> \in b
        BY <1>8, <3>1
      <3> QED
        BY <1>4, <2>2, <3>2
    <2>3. CASE i = k
      BY <1>2, <1>3, <1>4, <1>7, <1>12, <1>13, <2>3
    <2> QED
      BY <2>1, <2>2, <2>3
  <1>14. Sound(r, l, Q \union {e}, d, b)
    BY <1>9, <1>10, <1>11, <1>13 DEF Sound
  <1> QED
    BY <1>1, <1>14 DEF r

LEMMA TailSound ==
    ASSUME NEW s \in Seq(Ev), NEW l, NEW Q \in SUBSET Ev, NEW d \in [Ev -> Int], NEW b,
           Sound(s, l, Q, d, b), s # <<>>
    PROVE  /\ Tail(s) \in Seq(Ev)
           /\ Head(s) \in Q /\ Home[Head(s)] = l
           /\ Sound(Tail(s), l, Q \ {Head(s)}, d, b)
           /\ \A f \in Q : Home[f] = l => d[Head(s)] <= d[f]
  <1>1. /\ Len(s) \in Nat \ {0} /\ DOMAIN s = 1..Len(s)
        /\ Tail(s) \in Seq(Ev) /\ Head(s) = s[1]
        /\ DOMAIN Tail(s) = 1..(Len(s) - 1)
        /\ \A i \in 1..(Len(s) - 1) : Tail(s)[i] = s[i + 1]
    BY HeadTailProperties, LenProperties, EmptySeq
  <1>2. Head(s) \in Q /\ Home[Head(s)] = l
    BY <1>1 DEF Sound
  <1>3. \A f \in Q : Home[f] = l => d[Head(s)] <= d[f]
    <2> SUFFICES ASSUME NEW f \in Q, Home[f] = l PROVE d[Head(s)] <= d[f]
      OBVIOUS
    <2>1. PICK i \in DOMAIN s : s[i] = f
      BY DEF Sound
    <2>2. i = 1 \/ d[s[1]] <= d[f]
      <3>1. i = 1 \/ (1 < i /\ 1 \in DOMAIN s)
        BY <1>1, <2>1
      <3>2. 1 < i /\ 1 \in DOMAIN s => d[s[1]] < d[s[i]] \/ d[s[1]] = d[s[i]]
        BY <2>1 DEF Sound
      <3>3. d[s[1]] \in Int /\ d[f] \in Int
        BY <1>1, <1>2
      <3> QED
        BY <2>1, <3>1, <3>2, <3>3
    <2> QED
      BY <1>1, <1>2, <2>1, <2>2
  <1>4. \A f \in Q \ {Head(s)} : Home[f] = l => \E i \in DOMAIN Tail(s) : Tail(s)[i] = f
    <2> SUFFICES ASSUME NEW f \in Q \ {Head(s)}, Home[f] = l
                 PROVE  \E i \in DOMAIN Tail(s) : Tail(s)[i] = f
      OBVIOUS
    <2>1. PICK i \in DOMAIN s : s[i] = f
      BY DEF Sound
    <2>2. i - 1 \in DOMAIN Tail(s) /\ Tail(s)[i - 1] = f
      BY <1>1, <2>1
    <2> QED
      BY <2>2
  <1>5. \A i \in DOMAIN Tail(s) : i + 1 \in DOMAIN s /\ i + 1 # 1 /\ Tail(s)[i] = s[i + 1]
    BY <1>1
  <1>6. \A i, j \in DOMAIN Tail(s) : (i + 1 = j + 1 => i = j) /\ (i < j => i + 1 < j + 1)
    BY <1>1
  <1>7. \A i, j \in DOMAIN Tail(s) : Tail(s)[i] = Tail(s)[j] => i = j
    BY <1>5, <1>6 DEF Sound
  <1>8. 1 \in DOMAIN s
    BY <1>1
  <1>9. \A i \in DOMAIN Tail(s) : Tail(s)[i] \in Q \ {Head(s)} /\ Home[Tail(s)[i]] = l
    BY <1>1, <1>5, <1>8 DEF Sound
  <1>10. \A i, j \in DOMAIN Tail(s) : i < j =>
            \/ d[Tail(s)[i]] < d[Tail(s)[j]]
            \/ d[Tail(s)[i]] = d[Tail(s)[j]] /\ <<Tail(s)[i], Tail(s)[j]>> \in b
    BY <1>5, <1>6 DEF Sound
  <1>11. Sound(Tail(s), l, Q \ {Head(s)}, d, b)
    BY <1>4, <1>7, <1>9, <1>10 DEF Sound
  <1> QED
    BY <1>1, <1>2, <1>3, <1>11

-----------------------------------------------------------------------------
(* Tick arithmetic: the difference of two ticks is a number of half the    *)
(* range, a tick queued d from now is d away, and differences from the     *)
(* same tick may be subtracted as long as the result stays in range.       *)

LEMMA TickDeltaType ==
    ASSUME NEW t \in Ticks, NEW u \in Ticks
    PROVE  TickDelta(t, u) \in (-Half)..(Half - 1)
  BY HalfAssumption DEF Ticks, TickDelta

LEMMA WrapAddDelta ==
    ASSUME NEW t \in Ticks, NEW d \in 0..(Half - 1)
    PROVE  WrapAdd(t, d) \in Ticks /\ TickDelta(WrapAdd(t, d), t) = d
  BY HalfAssumption DEF Ticks, WrapAdd, TickDelta

LEMMA DeltaChain ==
    ASSUME NEW t \in Ticks, NEW u \in Ticks, NEW w \in Ticks,
           Within(TickDelta(t, w), TickDelta(u, w))
    PROVE  TickDelta(t, u) = TickDelta(t, w) - TickDelta(u, w)
  BY HalfAssumption DEF Ticks, TickDelta, Within

-----------------------------------------------------------------------------
(* The inductive invariant.  Ordered alone is not inductive: moving the    *)
(* clock keeps the signs of wrapped differences only while every tick      *)
(* stays in the window, and a dispatch takes the right event off the right *)
(* list only while the lists agree with the flags.                         *)

Lefts == [e \in Ev |-> Left(e)]

IInv ==
    /\ TypeOK
    /\ \A l \in Lists : Sound(list[l], l, QueuedSet, Lefts, before)
    /\ Window

LEMMA IInvImplies == IInv => TypeOK /\ LinkedIffQueued /\ Ordered /\ Window
  <1> SUFFICES ASSUME IInv PROVE TypeOK /\ LinkedIffQueued /\ Ordered /\ Window
    OBVIOUS
  <1>1. LinkedIffQueued
    BY ListsAssumption DEF IInv, Sound, LinkedIffQueued, QueuedSet
  <1>2. Ordered
    <2> SUFFICES ASSUME NEW l \in Lists, NEW i \in DOMAIN list[l], NEW j \in DOMAIN list[l],
                        i < j
                 PROVE  \/ Left(list[l][i]) < Left(list[l][j])
                        \/ /\ Left(list[l][i]) = Left(list[l][j])
                           /\ <<list[l][i], list[l][j]>> \in before
      BY DEF Ordered
    <2>1. list[l][i] \in Ev /\ list[l][j] \in Ev
      BY DEF IInv, Sound, QueuedSet
    <2>2. \/ Lefts[list[l][i]] < Lefts[list[l][j]]
          \/ /\ Lefts[list[l][i]] = Lefts[list[l][j]]
             /\ <<list[l][i], list[l][j]>> \in before
      BY DEF IInv, Sound
    <2>3. Lefts[list[l][i]] = Left(list[l][i]) /\ Lefts[list[l][j]] = Left(list[l][j])
      BY <2>1 DEF Lefts
    <2> QED
      BY <2>2, <2>3
  <1> QED
    BY <1>1, <1>2 DEF IInv

LEMMA LeftsType == TypeOK => /\ Lefts \in [Ev -> Int]
                             /\ \A e \in Ev : Lefts[e] = Left(e) /\ Left(e) \in Int
                             /\ QueuedSet \in SUBSET Ev
  BY TickDeltaType, HalfAssumption DEF TypeOK, Lefts, Left, QueuedSet

LEMMA LeftsTypeNext == TypeOK' => /\ Lefts' \in [Ev -> Int]
                                  /\ \A e \in Ev : Lefts'[e] = Left(e)' /\ Left(e)' \in Int
                                  /\ QueuedSet' \in SUBSET Ev
  BY TickDeltaType, HalfAssumption DEF TypeOK, Lefts, Left, QueuedSet

LEMMA RemType == TypeOK => Rem \in Int
  BY TickDeltaType, HalfAssumption DEF TypeOK, Rem

LEMMA InitIInv == Init => IInv
  <1> SUFFICES ASSUME Init PROVE IInv
    OBVIOUS
  <1>1. TypeOK
    BY DEF Init, TypeOK
  <1>2. QueuedSet = {} /\ Rem = 0
    BY DEF Init, QueuedSet, Rem
  <1>3. \A l \in Lists : list[l] = <<>>
    BY DEF Init
  <1>4. Window
    BY <1>2, HalfAssumption DEF Window
  <1>5. \A l \in Lists : Sound(list[l], l, QueuedSet, Lefts, before)
    BY <1>2, <1>3 DEF Sound
  <1> QED
    BY <1>1, <1>4, <1>5 DEF IInv

LEMMA QueueDtIInv ==
    ASSUME IInv, NEW e \in Ev, NEW d \in Dts, QueueDt(e, d)
    PROVE  IInv'
  <1> DEFINE l == Home[e]
             s == IF queued[e] THEN Unlink(list[l], e) ELSE list[l]
             Q == QueuedSet \ {e}
  <1>1. l \in Lists /\ d \in 0..(Half - 1)
    BY ListsAssumption, DtsAssumption
  <1>2. /\ at' \in [Ev -> Ticks] /\ at'[e] = WrapAdd(cur, d)
        /\ \A f \in Ev \ {e} : at'[f] = at[f]
    BY <1>1, WrapAddDelta DEF IInv, TypeOK, QueueDt
  <1>3. /\ Lefts \in [Ev -> Int] /\ Lefts' \in [Ev -> Int]
        /\ Lefts'[e] = d /\ Left(e)' = d
        /\ \A f \in Ev \ {e} : Lefts'[f] = Lefts[f] /\ Left(f)' = Left(f) /\ Lefts[f] = Left(f)
    <2>1. cur' = cur /\ cur \in Ticks
      BY DEF QueueDt, IInv, TypeOK
    <2>2. Lefts \in [Ev -> Int] /\ \A f \in Ev : Lefts[f] = Left(f)
      BY LeftsType DEF IInv
    <2>3. \A f \in Ev : Left(f)' = TickDelta(at'[f], cur) /\ Left(f)' \in Int
      BY <1>2, <2>1, TickDeltaType, HalfAssumption DEF Left
    <2>4. Lefts' = [f \in Ev |-> Left(f)']
      BY DEF Lefts
    <2>5. Left(e)' = d
      BY <1>1, <1>2, <2>1, <2>3, WrapAddDelta
    <2>6. \A f \in Ev \ {e} : Left(f)' = Left(f)
      BY <1>2, <2>3 DEF Left
    <2> QED
      BY <2>2, <2>3, <2>4, <2>5, <2>6
  <1>4. Q \in SUBSET Ev /\ QueuedSet' = Q \union {e} /\ e \notin Q /\ QueuedSet \in SUBSET Ev
    BY DEF QueueDt, QueuedSet, IInv, TypeOK
  <1>5. /\ \A f, g \in Q : <<f, g>> \in before => <<f, g>> \in before'
        /\ \A f \in Q : Home[f] = l => <<f, e>> \in before'
        /\ before' \in SUBSET (Ev \X Ev)
    BY <1>4 DEF QueueDt, Forget, IInv, TypeOK
  <1>6. s \in Seq(Ev) /\ Sound(s, l, Q, Lefts, before)
    <2>1. list[l] \in Seq(Ev) /\ Sound(list[l], l, QueuedSet, Lefts, before)
      BY <1>1 DEF IInv, TypeOK
    <2>2. CASE queued[e]
      <3>1. e \in QueuedSet
        BY <2>2 DEF QueuedSet
      <3> QED
        BY <1>3, <1>4, <2>1, <2>2, <3>1, UnlinkSound
    <2>3. CASE ~queued[e]
      <3>1. Q = QueuedSet
        BY <2>3 DEF QueuedSet
      <3> QED
        BY <2>1, <2>3, <3>1
    <2> QED
      BY <2>2, <2>3
  <1>7. PICK k \in 1..(Len(s) + 1) : /\ IsSlot(s, k, at'[e])
                                     /\ list' = [list EXCEPT ![l] = InsertAt(s, k, e)]
    BY DEF QueueDt
  <1> HIDE DEF s, Q
  <1>8. Sound(s, l, Q, Lefts', before')
    <2>1. \A f, g \in Q : Home[f] = l /\ Home[g] = l => Lefts'[f] - Lefts'[g] = Lefts[f] - Lefts[g]
      BY <1>3, <1>4
    <2>2. \A f, g \in Q : Home[f] = l /\ Home[g] = l => (<<f, g>> \in before => <<f, g>> \in before')
      BY <1>5
    <2>3. Lefts \in [Ev -> Int] /\ Lefts' \in [Ev -> Int] /\ Q \in SUBSET Ev
      BY <1>3, <1>4
    <2> HIDE DEF l
    <2> QED
      BY <1>6, <2>1, <2>2, <2>3, SoundDepends
  <1>9. \A f \in Q : TickDelta(at'[e], at[f]) = d - Left(f) /\ f \in Ev /\ f # e
    <2> SUFFICES ASSUME NEW f \in Q
                 PROVE  TickDelta(at'[e], at[f]) = d - Left(f)
      BY <1>4
    <2>1. f \in QueuedSet \ {e} /\ f \in Ev
      BY <1>4 DEF Q
    <2>2. Within(d, Left(f))
      BY <2>1 DEF QueueDt, Near
    <2>3. at'[e] \in Ticks /\ at[f] \in Ticks /\ cur \in Ticks /\ TickDelta(at'[e], cur) = d
      BY <1>1, <1>2, <2>1, WrapAddDelta DEF IInv, TypeOK
    <2> QED
      BY <2>2, <2>3, DeltaChain DEF Left
  <1>10. \A j \in DOMAIN s : s[j] \in Q
    BY <1>8 DEF Sound
  <1>11. /\ \A j \in 1..(k - 1) : Lefts'[s[j]] <= Lefts'[e]
         /\ k <= Len(s) => Lefts'[e] < Lefts'[s[k]]
    <2>0. Len(s) \in Nat /\ DOMAIN s = 1..Len(s) /\ d \in Int
      BY <1>1, <1>6, LenProperties, HalfAssumption
    <2>1. ASSUME NEW j \in 1..(k - 1) PROVE Lefts'[s[j]] <= Lefts'[e]
      <3>1. j \in DOMAIN s
        BY <2>0
      <3>2. TickDelta(at'[e], at[s[j]]) >= 0
        BY <1>7 DEF IsSlot
      <3>3. Lefts'[s[j]] \in Int /\ Lefts'[s[j]] = Left(s[j])
        BY <1>3, <1>9, <1>10, <3>1
      <3> QED
        BY <1>3, <1>9, <1>10, <2>0, <3>1, <3>2, <3>3
    <2>2. ASSUME k <= Len(s) PROVE Lefts'[e] < Lefts'[s[k]]
      <3>1. k \in DOMAIN s
        BY <2>0, <2>2
      <3>2. TickDelta(at'[e], at[s[k]]) < 0
        BY <1>7, <2>2 DEF IsSlot
      <3>3. Lefts'[s[k]] \in Int /\ Lefts'[s[k]] = Left(s[k])
        BY <1>3, <1>9, <1>10, <3>1
      <3> QED
        BY <1>3, <1>9, <1>10, <2>0, <3>1, <3>2, <3>3
    <2> QED
      BY <2>1, <2>2
  <1>12. /\ InsertAt(s, k, e) \in Seq(Ev)
         /\ Sound(InsertAt(s, k, e), l, QueuedSet', Lefts', before')
    <2>1. e \in Ev \ Q /\ Home[e] = l /\ Q \in SUBSET Ev /\ Lefts' \in [Ev -> Int]
      BY <1>3, <1>4
    <2>2. \A f \in Q : Home[f] = l => <<f, e>> \in before'
      BY <1>5
    <2>3. s \in Seq(Ev) /\ k \in 1..(Len(s) + 1)
      BY <1>6, <1>7
    <2> HIDE DEF l
    <2>4. /\ InsertAt(s, k, e) \in Seq(Ev)
          /\ Sound(InsertAt(s, k, e), l, Q \union {e}, Lefts', before')
      BY <1>8, <1>11, <2>1, <2>2, <2>3, InsertSound
    <2> QED
      BY <1>4, <2>4
  <1>13. list \in [Lists -> Seq(Ev)]
    BY DEF IInv, TypeOK
  <1>14. \A m \in Lists : Sound(list'[m], m, QueuedSet', Lefts', before')
    <2> SUFFICES ASSUME NEW m \in Lists
                 PROVE  Sound(list'[m], m, QueuedSet', Lefts', before')
      OBVIOUS
    <2>1. CASE m = l
      BY <1>1, <1>7, <1>12, <1>13, <2>1
    <2>2. CASE m # l
      <3>1. list'[m] = list[m] /\ list[m] \in Seq(Ev)
        BY <1>7, <1>13, <2>2
      <3>2. Sound(list[m], m, QueuedSet, Lefts, before)
        BY DEF IInv
      <3>3. \A f \in Ev : Home[f] = m => f # e /\ (f \in QueuedSet <=> f \in QueuedSet')
        BY <1>4, <2>2 DEF Q
      <3>4. \A f, g \in QueuedSet : Home[f] = m /\ Home[g] = m =>
               Lefts'[f] - Lefts'[g] = Lefts[f] - Lefts[g]
        BY <1>3, <1>4, <3>3
      <3>5. \A f, g \in QueuedSet : Home[f] = m /\ Home[g] = m =>
               (<<f, g>> \in before => <<f, g>> \in before')
        BY <1>4, <1>5, <3>3 DEF Q
      <3>6. QueuedSet' \in SUBSET Ev /\ QueuedSet \in SUBSET Ev
        BY <1>4
      <3>7. Lefts \in [Ev -> Int] /\ Lefts' \in [Ev -> Int]
        BY <1>3
      <3>8. \A f \in Ev : Home[f] = m => (f \in QueuedSet <=> f \in QueuedSet')
        BY <3>3
      <3>9. Sound(list[m], m, QueuedSet', Lefts', before')
        BY <3>1, <3>2, <3>4, <3>5, <3>6, <3>7, <3>8, SoundDepends
      <3> QED
        BY <3>1, <3>9
    <2> QED
      BY <2>1, <2>2
  <1>15. TypeOK'
    <2>1. list' \in [Lists -> Seq(Ev)]
      BY <1>1, <1>7, <1>12, <1>13
    <2> QED
      BY <1>2, <1>5, <2>1 DEF TypeOK, IInv, QueueDt
  <1>16. Window'
    <2>1. Rem' = Rem /\ Rem \in Int
      BY RemType DEF QueueDt, Rem, IInv
    <2>2. \A f \in QueuedSet' : f # e => f \in QueuedSet \ {e} /\ Left(f)' = Left(f) /\ Left(f) \in Int
      BY <1>3, <1>4 DEF Q
    <2>3. /\ \A f \in QueuedSet \ {e} : Within(d, Left(f))
          /\ Within(d, Rem) /\ Within(d, 0) /\ d \in Int
      BY <1>1, HalfAssumption DEF QueueDt, Near, Within
    <2>4. Left(e)' = d
      BY <1>3
    <2>5. \A f \in QueuedSet' : Within(Left(f)', 0) /\ Within(Left(f)', Rem')
      BY <2>1, <2>2, <2>3, <2>4 DEF IInv, Window
    <2>6. \A f, g \in QueuedSet' : Within(Left(f)', Left(g)')
      <3> SUFFICES ASSUME NEW f \in QueuedSet', NEW g \in QueuedSet'
                   PROVE  Within(Left(f)', Left(g)')
        OBVIOUS
      <3>1. CASE f # e /\ g # e
        BY <2>2, <3>1 DEF IInv, Window
      <3>2. CASE f = e /\ g # e
        BY <2>2, <2>3, <2>4, <3>2
      <3>3. CASE f # e /\ g = e
        BY <2>2, <2>3, <2>4, <3>3 DEF Within
      <3>4. CASE f = e /\ g = e
        BY <2>3, <2>4, <3>4, HalfAssumption DEF Within
      <3> QED
        BY <3>1, <3>2, <3>3, <3>4
    <2>7. Rem' \in 0..(Half - 1)
      BY <2>1 DEF IInv, Window
    <2> QED
      BY <2>5, <2>6, <2>7 DEF Window
  <1> QED
    BY <1>14, <1>15, <1>16 DEF IInv

LEMMA DequeueIInv ==
    ASSUME IInv, NEW e \in Ev, Dequeue(e)
    PROVE  IInv'
  <1> DEFINE l == Home[e]
             r == Unlink(list[l], e)
  <1>1. l \in Lists /\ e \in QueuedSet /\ QueuedSet \in SUBSET Ev
    BY ListsAssumption DEF Dequeue, QueuedSet
  <1>2. /\ Lefts' = Lefts /\ Lefts \in [Ev -> Int] /\ Rem' = Rem
        /\ \A f \in Ev : Left(f)' = Left(f)
    BY LeftsType DEF Dequeue, Lefts, Left, Rem, IInv
  <1>3. QueuedSet' = QueuedSet \ {e}
    BY DEF Dequeue, QueuedSet, IInv, TypeOK
  <1>4. /\ \A f, g \in QueuedSet \ {e} : <<f, g>> \in before => <<f, g>> \in before'
        /\ before' \in SUBSET (Ev \X Ev)
    BY DEF Dequeue, Forget, IInv, TypeOK
  <1>5. list \in [Lists -> Seq(Ev)] /\ list' = [list EXCEPT ![l] = r]
    BY DEF IInv, TypeOK, Dequeue
  <1>6. r \in Seq(Ev) /\ Sound(r, l, QueuedSet \ {e}, Lefts, before)
    <2>1. list[l] \in Seq(Ev) /\ Sound(list[l], l, QueuedSet, Lefts, before)
      BY <1>1, <1>5 DEF IInv
    <2> QED
      BY <1>1, <1>2, <2>1, UnlinkSound
  <1> HIDE DEF r
  <1>7. \A m \in Lists : Sound(list'[m], m, QueuedSet', Lefts', before')
    <2> SUFFICES ASSUME NEW m \in Lists
                 PROVE  Sound(list'[m], m, QueuedSet', Lefts', before')
      OBVIOUS
    <2> DEFINE Q == QueuedSet \ {e}
    <2>1. list'[m] \in Seq(Ev) /\ list'[m] = IF m = l THEN r ELSE list[m]
      BY <1>1, <1>5, <1>6
    <2>2. \A f, g \in Q : Home[f] = m /\ Home[g] = m => (<<f, g>> \in before => <<f, g>> \in before')
      BY <1>4
    <2>3. Q \in SUBSET Ev
      BY <1>1
    <2>4. CASE m = l
      <3>1. Sound(list'[m], m, Q, Lefts, before)
        BY <1>6, <2>1, <2>4
      <3> HIDE DEF Q
      <3>2. Sound(list'[m], m, Q, Lefts, before')
        BY <1>2, <2>1, <2>2, <2>3, <3>1, SoundDepends
      <3> QED
        BY <1>2, <1>3, <3>2 DEF Q
    <2>5. CASE m # l
      <3>1. Sound(list'[m], m, QueuedSet, Lefts, before)
        BY <2>1, <2>5 DEF IInv
      <3>2. \A f \in Ev : Home[f] = m => (f \in QueuedSet <=> f \in Q)
        BY <2>5
      <3>3. \A f, g \in QueuedSet : Home[f] = m /\ Home[g] = m => (<<f, g>> \in before => <<f, g>> \in before')
        BY <1>1, <2>2, <2>5
      <3> HIDE DEF Q
      <3>4. Sound(list'[m], m, Q, Lefts, before')
        BY <1>1, <1>2, <2>1, <2>3, <3>1, <3>2, <3>3, SoundDepends
      <3> QED
        BY <1>2, <1>3, <3>4 DEF Q
    <2> QED
      BY <2>4, <2>5
  <1>8. TypeOK'
    BY <1>1, <1>4, <1>5, <1>6 DEF IInv, TypeOK, Dequeue
  <1>9. Window'
    BY <1>1, <1>2, <1>3 DEF IInv, Window
  <1> QED
    BY <1>7, <1>8, <1>9 DEF IInv

\* The steps that leave lists, flags and clock alone.
LEMMA RunQueueIInv ==
    ASSUME IInv, NEW l \in Lists, NEW d \in RunDts[l], RunQueue(l, d)
    PROVE  IInv'
  <1>1. d \in 0..(Half - 1)
    BY DtsAssumption
  <1>2. /\ QueuedSet' = QueuedSet /\ Lefts' = Lefts /\ \A e \in Ev : Left(e)' = Left(e)
        /\ QueuedSet \in SUBSET Ev /\ \A e \in Ev : Left(e) \in Int
    BY LeftsType DEF RunQueue, QueuedSet, Lefts, Left, IInv
  <1>3. WrapAdd(cur, d) \in Ticks /\ Rem' = d
    BY <1>1, WrapAddDelta DEF RunQueue, Rem, IInv, TypeOK
  <1>4. TypeOK'
    BY <1>3 DEF RunQueue, IInv, TypeOK
  <1>5. \A m \in Lists : Sound(list'[m], m, QueuedSet', Lefts', before')
    BY <1>2 DEF RunQueue, IInv
  <1>6. \A e \in QueuedSet : Within(Left(e), d)
    BY <1>1, <1>2, HalfAssumption DEF RunQueue, Near, Within
  <1>7. Window'
    BY <1>1, <1>2, <1>3, <1>6 DEF IInv, Window
  <1> QED
    BY <1>4, <1>5, <1>7 DEF IInv

LEMMA DrainOrReturnIInv ==
    ASSUME IInv, (\E l \in DrainLists : DrainQueue(l)) \/ DelegateReturns \/ UNCHANGED vars
    PROVE  IInv'
  <1>1. /\ QueuedSet' = QueuedSet /\ Lefts' = Lefts /\ \A e \in Ev : Left(e)' = Left(e)
        /\ QueuedSet \in SUBSET Ev
    BY DEF DrainQueue, DelegateReturns, vars, QueuedSet, Lefts, Left
  <1>2. Rem' = Rem
    BY DEF DrainQueue, DelegateReturns, vars, Rem, IInv, TypeOK
  <1>3. TypeOK'
    BY ListsAssumption DEF DrainQueue, DelegateReturns, vars, IInv, TypeOK
  <1>4. \A m \in Lists : Sound(list'[m], m, QueuedSet', Lefts', before')
    BY <1>1 DEF DrainQueue, DelegateReturns, vars, IInv
  <1>5. Window'
    BY <1>1, <1>2 DEF IInv, Window
  <1> QED
    BY <1>3, <1>4, <1>5 DEF IInv

-----------------------------------------------------------------------------
(* The two steps that move the clock: by an amount less than half the      *)
(* range from every queued event, so that every tick to go changes by it.  *)

LEMMA DispatchNextShift ==
    ASSUME IInv, DispatchNext
    PROVE  LET e == Head(list[active])
           IN  /\ list[active] # <<>> /\ active \in Lists
               /\ e \in QueuedSet /\ Home[e] = active /\ Left(e) \in Int
               /\ QueuedSet' = QueuedSet \ {e}
               /\ \A f \in QueuedSet : Home[f] = active => Left(e) <= Left(f)
               /\ \A f \in QueuedSet : Left(f)' = Left(f) - Left(e)
               /\ timed => Left(e) <= Rem
               /\ Rem' = IF timed THEN Rem - Left(e) ELSE 0
               /\ Tail(list[active]) \in Seq(Ev)
               /\ Sound(Tail(list[active]), active, QueuedSet', Lefts, before)
  <1> DEFINE s == list[active]
             e == Head(s)
  <1>1. /\ s # <<>> /\ active \in Lists /\ s \in Seq(Ev)
        /\ Sound(s, active, QueuedSet, Lefts, before)
        /\ QueuedSet \in SUBSET Ev /\ Lefts \in [Ev -> Int]
    BY LeftsType DEF DispatchNext, Pending, IInv, TypeOK
  <1> HIDE DEF s
  <1>2. /\ Tail(s) \in Seq(Ev) /\ e \in QueuedSet /\ Home[e] = active
        /\ Sound(Tail(s), active, QueuedSet \ {e}, Lefts, before)
        /\ \A f \in QueuedSet : Home[f] = active => Lefts[e] <= Lefts[f]
    BY <1>1, TailSound
  <1>3. /\ cur' = at[e] /\ at' = at /\ QueuedSet' = QueuedSet \ {e}
        /\ cur \in Ticks /\ at \in [Ev -> Ticks] /\ target \in Ticks
        /\ target' = target /\ timed' = timed /\ phase # "idle" /\ phase' # "idle"
    BY DEF DispatchNext, QueuedSet, IInv, TypeOK, s
  <1> HIDE DEF e
  <1>4. \A f \in Ev : Lefts[f] = Left(f) /\ Left(f) \in Int
    BY LeftsType DEF IInv
  <1>5. ASSUME NEW f \in QueuedSet PROVE Left(f)' = Left(f) - Left(e)
    <2>1. Within(Left(f), Left(e)) /\ e \in Ev /\ f \in Ev
      BY <1>1, <1>2 DEF IInv, Window
    <2> QED
      BY <1>3, <2>1, DeltaChain DEF Left
  <1>6. ASSUME timed PROVE Rem' = Rem - Left(e) /\ Left(e) <= Rem
    <2>1. Within(Left(e), Rem) /\ e \in Ev /\ Left(e) \in Int /\ Rem \in Int
      BY <1>1, <1>2, <1>4, RemType DEF IInv, Window
    <2>2. Rem = TickDelta(target, cur) /\ Rem' = TickDelta(target, at[e])
      BY <1>3, <1>6 DEF Rem
    <2>3. TickDelta(target, at[e]) >= 0
      BY <1>6 DEF DispatchNext, Pending, e, s
    <2>4. TickDelta(target, at[e]) = Rem - Left(e)
      <3>1. Within(TickDelta(target, cur), TickDelta(at[e], cur))
        BY <2>1, <2>2 DEF Left, Within
      <3> QED
        BY <1>3, <2>1, <2>2, <3>1, DeltaChain DEF Left
    <2> QED
      BY <2>1, <2>2, <2>3, <2>4
  <1>7. ~timed => Rem' = 0
    BY <1>3 DEF Rem
  <1>8. \A f \in QueuedSet : Home[f] = active => Left(e) <= Left(f)
    BY <1>1, <1>2, <1>4
  <1>9. e \in Ev /\ Left(e) \in Int
    BY <1>1, <1>2, <1>4
  <1> QED
    BY <1>1, <1>2, <1>3, <1>5, <1>6, <1>7, <1>8, <1>9 DEF s, e

LEMMA DispatchNextIInv ==
    ASSUME IInv, DispatchNext
    PROVE  IInv'
  <1> DEFINE e == Head(list[active])
  <1>1. /\ active \in Lists /\ e \in QueuedSet /\ Home[e] = active /\ Left(e) \in Int
        /\ QueuedSet' = QueuedSet \ {e}
        /\ \A f \in QueuedSet : Left(f)' = Left(f) - Left(e)
        /\ timed => Left(e) <= Rem
        /\ Rem' = IF timed THEN Rem - Left(e) ELSE 0
        /\ Tail(list[active]) \in Seq(Ev)
        /\ Sound(Tail(list[active]), active, QueuedSet', Lefts, before)
    BY DispatchNextShift
  <1>2. /\ list' = [list EXCEPT ![active] = Tail(@)]
        /\ list \in [Lists -> Seq(Ev)]
        /\ before' = Forget(e)
    BY DEF DispatchNext, IInv, TypeOK
  <1>3. TypeOK'
    <2>1. list' \in [Lists -> Seq(Ev)]
      BY <1>1, <1>2
    <2>2. e \in Ev
      BY <1>1 DEF QueuedSet
    <2> QED
      BY <1>2, <2>1, <2>2 DEF DispatchNext, IInv, TypeOK, Forget
  <1> HIDE DEF e
  <1>4. \A f, g \in QueuedSet' : <<f, g>> \in before => <<f, g>> \in before'
    BY <1>1, <1>2 DEF Forget
  <1>5. /\ Lefts \in [Ev -> Int] /\ Lefts' \in [Ev -> Int]
        /\ QueuedSet \in SUBSET Ev /\ QueuedSet' \in SUBSET Ev
        /\ \A f \in Ev : Left(f) \in Int /\ Lefts[f] = Left(f) /\ Lefts'[f] = Left(f)'
    BY <1>3, LeftsType, LeftsTypeNext DEF IInv
  <1>6. \A f, g \in QueuedSet : Lefts'[f] - Lefts'[g] = Lefts[f] - Lefts[g]
    BY <1>1, <1>5
  <1>7. \A m \in Lists : Sound(list'[m], m, QueuedSet', Lefts', before')
    <2> SUFFICES ASSUME NEW m \in Lists
                 PROVE  Sound(list'[m], m, QueuedSet', Lefts', before')
      OBVIOUS
    <2>1. list'[m] \in Seq(Ev) /\ list'[m] = IF m = active THEN Tail(list[m]) ELSE list[m]
      BY <1>1, <1>2
    <2>2. CASE m = active
      <3>1. Sound(list'[m], m, QueuedSet', Lefts, before)
        BY <1>1, <2>1, <2>2
      <3>2. \A f, g \in QueuedSet' : Home[f] = m /\ Home[g] = m => Lefts'[f] - Lefts'[g] = Lefts[f] - Lefts[g]
        BY <1>1, <1>6
      <3> QED
        BY <1>4, <1>5, <2>1, <3>1, <3>2, SoundDepends
    <2>3. CASE m # active
      <3>1. Sound(list'[m], m, QueuedSet, Lefts, before)
        BY <2>1, <2>3 DEF IInv
      <3>2. \A f \in Ev : Home[f] = m => (f \in QueuedSet <=> f \in QueuedSet')
        BY <1>1, <2>3
      <3>3. \A f, g \in QueuedSet : Home[f] = m /\ Home[g] = m => (<<f, g>> \in before => <<f, g>> \in before')
        BY <1>4, <1>5, <3>2
      <3>4. \A f, g \in QueuedSet : Home[f] = m /\ Home[g] = m => Lefts'[f] - Lefts'[g] = Lefts[f] - Lefts[g]
        BY <1>6
      <3>5. /\ Lefts \in [Ev -> Int] /\ Lefts' \in [Ev -> Int]
            /\ QueuedSet \in SUBSET Ev /\ QueuedSet' \in SUBSET Ev /\ list'[m] \in Seq(Ev)
        BY <1>5, <2>1
      <3> QED
        BY <3>1, <3>2, <3>3, <3>4, <3>5, SoundDepends
    <2> QED
      BY <2>2, <2>3
  <1>8. Window'
    <2>1. /\ \A f \in QueuedSet' : f \in QueuedSet /\ Left(f)' = Left(f) - Left(e) /\ Left(f) \in Int
          /\ Left(e) \in Int /\ Rem \in Int
      BY <1>1, <1>5, RemType DEF IInv
    <2>2. \A f \in QueuedSet' : Within(Left(f)', 0) /\ Within(Left(f)', Rem')
      BY <1>1, <2>1, HalfAssumption DEF IInv, Window, Within
    <2>3. \A f, g \in QueuedSet' : Within(Left(f)', Left(g)')
      BY <2>1, HalfAssumption DEF IInv, Window, Within
    <2>4. Rem' \in 0..(Half - 1)
      BY <1>1, <2>1, HalfAssumption DEF IInv, Window, Within
    <2> QED
      BY <2>2, <2>3, <2>4 DEF Window
  <1> QED
    BY <1>3, <1>7, <1>8 DEF IInv

LEMMA RunEndsShift ==
    ASSUME IInv, RunEnds
    PROVE  /\ QueuedSet' = QueuedSet /\ Rem' = 0
           /\ \A f \in QueuedSet : Left(f)' = Left(f) - Rem
  <1>1. QueuedSet' = QueuedSet /\ at' = at /\ phase = "run" /\ phase' = "idle"
    BY DEF RunEnds, QueuedSet
  <1>2. Rem' = 0
    BY <1>1 DEF Rem
  <1>3. ASSUME NEW f \in QueuedSet PROVE Left(f)' = Left(f) - Rem
    <2>1. /\ Within(Left(f), Rem) /\ f \in Ev /\ Left(f) \in Int
          /\ at[f] \in Ticks /\ cur \in Ticks /\ target \in Ticks
      BY LeftsType DEF IInv, Window, TypeOK, QueuedSet
    <2>2. CASE timed
      <3>1. cur' = target /\ Rem = TickDelta(target, cur)
        BY <1>1, <2>2 DEF RunEnds, Rem
      <3> QED
        BY <1>1, <2>1, <3>1, DeltaChain DEF Left
    <2>3. CASE ~timed
      <3>1. cur' = cur /\ Rem = 0
        BY <1>1, <2>3 DEF RunEnds, Rem
      <3> QED
        BY <1>1, <2>1, <3>1 DEF Left
    <2> QED
      BY <2>2, <2>3
  <1> QED
    BY <1>1, <1>2, <1>3

LEMMA RunEndsIInv ==
    ASSUME IInv, RunEnds
    PROVE  IInv'
  <1>1. QueuedSet' = QueuedSet /\ Rem' = 0 /\ \A f \in QueuedSet : Left(f)' = Left(f) - Rem
    BY RunEndsShift
  <1>2. TypeOK' /\ list' = list /\ before' = before
    BY DEF RunEnds, IInv, TypeOK
  <1>3. /\ Lefts \in [Ev -> Int] /\ Lefts' \in [Ev -> Int] /\ QueuedSet \in SUBSET Ev
        /\ \A f \in Ev : Left(f) \in Int /\ Lefts[f] = Left(f) /\ Lefts'[f] = Left(f)'
    BY <1>2, LeftsType, LeftsTypeNext DEF IInv
  <1>4. Rem \in Int
    BY RemType DEF IInv
  <1>5. \A m \in Lists : Sound(list'[m], m, QueuedSet', Lefts', before')
    <2> SUFFICES ASSUME NEW m \in Lists
                 PROVE  Sound(list[m], m, QueuedSet, Lefts', before)
      BY <1>1, <1>2
    <2>1. Sound(list[m], m, QueuedSet, Lefts, before) /\ list[m] \in Seq(Ev)
      BY DEF IInv, TypeOK
    <2>2. \A f, g \in QueuedSet : Home[f] = m /\ Home[g] = m => Lefts'[f] - Lefts'[g] = Lefts[f] - Lefts[g]
      BY <1>1, <1>3, <1>4
    <2> QED
      BY <1>3, <2>1, <2>2, SoundDepends
  <1>6. Window'
    BY <1>1, <1>3, <1>4, HalfAssumption DEF IInv, Window, Within
  <1> QED
    BY <1>2, <1>5, <1>6 DEF IInv

-----------------------------------------------------------------------------
LEMMA NextIInv == IInv /\ [Next]_vars => IInv'
  <1> SUFFICES ASSUME IInv, [Next]_vars PROVE IInv'
    OBVIOUS
  <1>1. ASSUME NEW e \in Ev, Dequeue(e) PROVE IInv'
    BY <1>1, DequeueIInv
  <1>2. ASSUME NEW e \in Ev, NEW d \in Dts, QueueDt(e, d) PROVE IInv'
    BY <1>2, QueueDtIInv
  <1>3. ASSUME NEW l \in Lists, NEW d \in RunDts[l], RunQueue(l, d) PROVE IInv'
    BY <1>3, RunQueueIInv
  <1>4. ASSUME NEW l \in DrainLists, DrainQueue(l) PROVE IInv'
    BY <1>4, DrainOrReturnIInv
  <1>5. CASE DispatchNext
    BY <1>5, DispatchNextIInv
  <1>6. CASE DelegateReturns
    BY <1>6, DrainOrReturnIInv
  <1>7. CASE RunEnds
    BY <1>7, RunEndsIInv
  <1>8. CASE UNCHANGED vars
    BY <1>8, DrainOrReturnIInv
  <1> QED
    BY <1>1, <1>2, <1>3, <1>4, <1>5, <1>6, <1>7, <1>8 DEF Next

LEMMA Invariance == Spec => []IInv
  <1>1. Init => IInv
    BY InitIInv
  <1>2. IInv /\ [Next]_vars => IInv'
    BY NextIInv
  <1> QED
    BY <1>1, <1>2, PTL DEF Spec

\* Every reachable state of the scheduler is well typed.
THEOREM TypeCorrect == Spec => []TypeOK
  BY Invariance, IInvImplies, PTL

\* The lists and the queued flags never disagree (event_dequeue and event_queue
\* rely on each other for it).
THEOREM ListsAgree == Spec => []LinkedIffQueued
  BY Invariance, IInvImplies, PTL

\* The guarantee of events.h:66-67 on every list, in every reachable state,
\* wherever the counter has wrapped.
THEOREM InOrder == Spec => []Ordered
  BY Invariance, IInvImplies, PTL

\* Callers that queue and run within the window keep every comparison the
\* scheduler will ever make within it.
THEOREM WindowKept == Spec => []Window
  BY Invariance, IInvImplies, PTL

-----------------------------------------------------------------------------
\* event_run_queue looks only at the head of its list, yet when it returns no
\* event of the list is due (events.h:109-130).
THEOREM RunComplete == Spec => NoneLeftBehind
  <1>1. ASSUME IInv, [Next]_vars, phase = "run", phase' = "idle", timed,
               NEW e \in QueuedSet, Home[e] = active
        PROVE  TickDelta(at[e], cur') > 0
    <2> DEFINE s == list[active]
    <2>1. RunEnds
      BY <1>1 DEF Next, vars, Dequeue, QueueDt, RunQueue, DrainQueue, DispatchNext, DelegateReturns
    <2>2. /\ cur' = target /\ target \in Ticks /\ active \in Lists /\ s \in Seq(Ev)
          /\ Sound(s, active, QueuedSet, Lefts, before)
          /\ QueuedSet \in SUBSET Ev /\ Lefts \in [Ev -> Int]
          /\ \A f \in Ev : Left(f) \in Int /\ Lefts[f] = Left(f)
      BY <1>1, <2>1, LeftsType DEF RunEnds, IInv, TypeOK
    <2> HIDE DEF s
    <2>3. s # <<>>
      BY <1>1, <2>2, EmptySeq DEF Sound
    <2>4. /\ Head(s) \in QueuedSet /\ Lefts[Head(s)] <= Lefts[e]
      BY <1>1, <2>2, <2>3, TailSound
    <2>5. TickDelta(target, at[Head(s)]) < 0
      <3>1. ~(TickDelta(target, at[Head(s)]) >= 0)
        BY <1>1, <2>1, <2>3 DEF RunEnds, Pending, s
      <3>2. TickDelta(target, at[Head(s)]) \in (-Half)..(Half - 1)
        BY <2>2, <2>4, <1>1, TickDeltaType DEF IInv, TypeOK
      <3> QED
        BY <3>1, <3>2, HalfAssumption
    <2>6. Rem = TickDelta(target, cur) /\ Rem \in Int
      BY <1>1, RemType DEF Rem, IInv
    <2>7. \A f \in QueuedSet :
             /\ TickDelta(target, at[f]) = Rem - Left(f)
             /\ TickDelta(at[f], target) = Left(f) - Rem
      <3> SUFFICES ASSUME NEW f \in QueuedSet
                   PROVE  /\ TickDelta(target, at[f]) = Rem - Left(f)
                          /\ TickDelta(at[f], target) = Left(f) - Rem
        OBVIOUS
      <3>1. Within(Left(f), Rem) /\ Within(Rem, Left(f)) /\ at[f] \in Ticks /\ cur \in Ticks
        BY <1>1, <2>2 DEF IInv, Window, TypeOK, Within
      <3> QED
        BY <2>2, <2>6, <3>1, DeltaChain DEF Left
    <2>8. Left(Head(s)) <= Left(e) /\ Left(Head(s)) \in Int /\ Left(e) \in Int
      BY <2>2, <2>4
    <2> QED
      BY <2>2, <2>4, <2>5, <2>6, <2>7, <2>8
  <1>2. IInv /\ [Next]_vars =>
           [phase = "run" /\ phase' = "idle" /\ timed =>
              \A e \in QueuedSet : Home[e] = active => TickDelta(at[e], cur') > 0]_vars
    BY <1>1
  <1> QED
    BY <1>2, Invariance, PTL DEF Spec, NoneLeftBehind

-----------------------------------------------------------------------------
(* The scheduler implements its promise: each of its steps is a step of    *)
(* EventsAbs under the refinement mapping of Events.                       *)

AbsLeft == [e \in Ev |-> IF queued[e] THEN Left(e) ELSE 0]

LEMMA QueueDtAbs ==
    ASSUME IInv, NEW e \in Ev, NEW d \in Dts, QueueDt(e, d)
    PROVE  Abs!Schedule(e, d)
  <1>1. QueuedSet' = QueuedSet \union {e}
    BY DEF QueueDt, QueuedSet, IInv, TypeOK
  <1>2. AbsLeft' = [AbsLeft EXCEPT ![e] = d]
    <2>1. cur' = cur /\ cur \in Ticks /\ d \in 0..(Half - 1)
      BY DtsAssumption DEF QueueDt, IInv, TypeOK
    <2>2. /\ at' = [at EXCEPT ![e] = WrapAdd(cur, d)] /\ at \in [Ev -> Ticks]
          /\ queued' = [queued EXCEPT ![e] = TRUE] /\ queued \in [Ev -> BOOLEAN]
      BY DEF QueueDt, IInv, TypeOK
    <2>3. Left(e)' = d /\ queued'[e]
      BY <2>1, <2>2, WrapAddDelta DEF Left
    <2>4. \A f \in Ev \ {e} : Left(f)' = Left(f) /\ queued'[f] = queued[f]
      BY <2>1, <2>2 DEF Left
    <2>5. AbsLeft' = [f \in Ev |-> IF queued'[f] THEN Left(f)' ELSE 0]
      BY DEF AbsLeft
    <2> QED
      BY <2>3, <2>4, <2>5 DEF AbsLeft
  <1>3. Rem' = Rem
    BY DEF QueueDt, Rem
  <1>4. before' = Abs!Forget(e) \union {<<f, e>> : f \in Abs!Waiting(Home[e]) \ {e}}
    <2>1. {g \in QueuedSet \ {e} : Home[g] = Home[e]} = Abs!Waiting(Home[e]) \ {e}
      BY DEF Abs!Waiting
    <2>2. Forget(e) = Abs!Forget(e)
      BY DEF Forget, Abs!Forget
    <2> QED
      BY <2>1, <2>2 DEF QueueDt
  <1> QED
    BY <1>1, <1>2, <1>3, <1>4 DEF Abs!Schedule, QueueDt, AbsLeft

LEMMA DequeueAbs ==
    ASSUME IInv, NEW e \in Ev, Dequeue(e)
    PROVE  Abs!Cancel(e)
  <1>1. QueuedSet' = QueuedSet \ {e} /\ Rem' = Rem
    BY DEF Dequeue, QueuedSet, IInv, TypeOK, Rem
  <1>2. AbsLeft' = [AbsLeft EXCEPT ![e] = 0]
    BY DEF Dequeue, AbsLeft, Left, IInv, TypeOK
  <1>3. before' = Abs!Forget(e)
    BY DEF Dequeue, Forget, Abs!Forget
  <1> QED
    BY <1>1, <1>2, <1>3 DEF Abs!Cancel, Dequeue, AbsLeft

LEMMA RunQueueAbs ==
    ASSUME IInv, NEW l \in Lists, NEW d \in RunDts[l], RunQueue(l, d)
    PROVE  Abs!Begin(l, d)
  <1>1. QueuedSet' = QueuedSet /\ AbsLeft' = AbsLeft
    BY DEF RunQueue, QueuedSet, AbsLeft, Left
  <1>2. Rem' = d
    <2>1. d \in 0..(Half - 1)
      BY DtsAssumption
    <2> QED
      BY <2>1, WrapAddDelta DEF RunQueue, Rem, IInv, TypeOK
  <1> QED
    BY <1>1, <1>2 DEF Abs!Begin, RunQueue, AbsLeft

LEMMA DrainQueueAbs ==
    ASSUME IInv, NEW l \in DrainLists, DrainQueue(l)
    PROVE  Abs!BeginDrain(l)
  <1>1. QueuedSet' = QueuedSet /\ AbsLeft' = AbsLeft /\ Rem' = 0
    BY DEF DrainQueue, QueuedSet, AbsLeft, Left, Rem
  <1> QED
    BY <1>1 DEF Abs!BeginDrain, DrainQueue, AbsLeft

LEMMA DispatchNextAbs ==
    ASSUME IInv, DispatchNext
    PROVE  \E e \in Ev : Abs!Fire(e)
  <1> DEFINE s == list[active]
             e == Head(s)
  <1>1. /\ s # <<>> /\ active \in Lists
        /\ e \in QueuedSet /\ Home[e] = active /\ Left(e) \in Int
        /\ QueuedSet' = QueuedSet \ {e}
        /\ \A f \in QueuedSet : Left(f)' = Left(f) - Left(e)
        /\ timed => Left(e) <= Rem
        /\ Rem' = IF timed THEN Rem - Left(e) ELSE 0
    BY DispatchNextShift
  <1>2. /\ s \in Seq(Ev) /\ Sound(s, active, QueuedSet, Lefts, before)
        /\ Lefts \in [Ev -> Int] /\ QueuedSet \in SUBSET Ev
        /\ \A f \in Ev : Lefts[f] = Left(f)
    BY <1>1, LeftsType DEF IInv, TypeOK
  <1>3. queued' = [queued EXCEPT ![e] = FALSE] /\ before' = Abs!Forget(e)
    BY DEF DispatchNext, Forget, Abs!Forget
  <1>4. s[1] = e /\ 1 \in DOMAIN s
    <2>1. Len(s) \in Nat /\ DOMAIN s = 1..Len(s) /\ Len(s) # 0
      BY <1>1, <1>2, LenProperties, EmptySeq
    <2> QED
      BY <1>2, <2>1
  <1> HIDE DEF s, e
  <1>5. e \in Ev
    BY <1>1, <1>2
  <1>6. ASSUME NEW f \in QueuedSet, Home[f] = active, f # e
        PROVE  Left(e) < Left(f) \/ (Left(e) = Left(f) /\ <<e, f>> \in before)
    <2>1. PICK i \in DOMAIN s : s[i] = f
      BY <1>2, <1>6 DEF Sound
    <2>2. 1 < i
      BY <1>2, <1>4, <1>6, <2>1, LenProperties
    <2>3. Lefts[e] < Lefts[f] \/ (Lefts[e] = Lefts[f] /\ <<e, f>> \in before)
      BY <1>2, <1>4, <2>1, <2>2 DEF Sound
    <2> QED
      BY <1>2, <1>5, <2>3
  <1>7. \A f \in QueuedSet : AbsLeft[f] = Left(f)
    BY <1>2 DEF AbsLeft, QueuedSet
  <1>8. Abs!First(active, e)
    BY <1>1, <1>6, <1>7 DEF Abs!First, Abs!Waiting, Abs!RunsAfter, AbsLeft
  <1>9. AbsLeft' = [f \in Ev |-> IF f \in QueuedSet' THEN AbsLeft[f] - AbsLeft[e] ELSE 0]
    <2>1. \A f \in Ev : queued'[f] <=> f \in QueuedSet'
      BY DEF QueuedSet
    <2>2. AbsLeft' = [f \in Ev |-> IF queued'[f] THEN Left(f)' ELSE 0]
      BY DEF AbsLeft
    <2> QED
      BY <1>1, <1>7, <2>1, <2>2
  <1>10. Abs!Fire(e)
    BY <1>1, <1>3, <1>7, <1>8, <1>9 DEF Abs!Fire, Abs!Shift, DispatchNext, AbsLeft
  <1> QED
    BY <1>5, <1>10

LEMMA RunEndsAbs ==
    ASSUME IInv, RunEnds
    PROVE  Abs!Finish
  <1> DEFINE s == list[active]
  <1>1. QueuedSet' = QueuedSet /\ Rem' = 0 /\ \A f \in QueuedSet : Left(f)' = Left(f) - Rem
    BY RunEndsShift
  <1>2. /\ s \in Seq(Ev) /\ active \in Lists /\ Sound(s, active, QueuedSet, Lefts, before)
        /\ Lefts \in [Ev -> Int] /\ QueuedSet \in SUBSET Ev
        /\ \A f \in Ev : Lefts[f] = Left(f) /\ Left(f) \in Int
    BY LeftsType DEF IInv, TypeOK
  <1>3. \A f \in QueuedSet : AbsLeft[f] = Left(f)
    BY <1>2 DEF AbsLeft, QueuedSet
  <1>4. AbsLeft' = [f \in Ev |-> IF f \in QueuedSet THEN AbsLeft[f] - Rem ELSE 0]
    <2>1. \A f \in Ev : queued'[f] <=> f \in QueuedSet'
      BY DEF QueuedSet
    <2>2. AbsLeft' = [f \in Ev |-> IF queued'[f] THEN Left(f)' ELSE 0]
      BY DEF AbsLeft
    <2> QED
      BY <1>1, <1>3, <2>1, <2>2
  <1> HIDE DEF s
  <1>5. ASSUME NEW f \in QueuedSet, Home[f] = active
        PROVE  timed /\ Left(f) > Rem
    <2>1. s # <<>>
      BY <1>2, <1>5, EmptySeq DEF Sound
    <2>2. Head(s) \in QueuedSet /\ Lefts[Head(s)] <= Lefts[f]
      BY <1>2, <1>5, <2>1, TailSound
    <2>3. timed /\ ~(TickDelta(target, at[Head(s)]) >= 0)
      BY <2>1 DEF RunEnds, Pending, s
    <2>4. /\ Rem = TickDelta(target, cur) /\ Rem \in Int
          /\ Within(Rem, Left(Head(s)))
          /\ at[Head(s)] \in Ticks /\ cur \in Ticks /\ target \in Ticks
      BY <1>2, <2>2, <2>3, RemType DEF Rem, RunEnds, IInv, Window, TypeOK, Within
    <2>5. TickDelta(target, at[Head(s)]) = Rem - Left(Head(s))
      BY <2>4, DeltaChain DEF Left
    <2>6. Left(Head(s)) \in Int /\ Left(f) \in Int /\ Left(Head(s)) <= Left(f)
      BY <1>2, <2>2
    <2> QED
      BY <2>3, <2>4, <2>5, <2>6
  <1>6. \A f \in Abs!Waiting(active) : timed /\ AbsLeft[f] > Rem
    BY <1>3, <1>5 DEF Abs!Waiting
  <1> QED
    BY <1>1, <1>4, <1>6 DEF Abs!Finish, Abs!Shift, RunEnds, AbsLeft

LEMMA StutterAbs ==
    ASSUME UNCHANGED vars
    PROVE  UNCHANGED Abs!vars
  BY DEF vars, Abs!vars, QueuedSet, Left, Rem

\* Whatever the counter width and the events, the linked lists and the wrapping
\* counter keep the promise of events.h: due events run in true order of time,
\* simultaneous ones first come first served, and none is left behind.
THEOREM Refinement == Spec => Implements
  <1>1. Init => Abs!Init
    BY DEF Init, Abs!Init, QueuedSet, Rem
  <1>2. IInv /\ [Next]_vars => [Abs!Next]_Abs!vars
    <2> SUFFICES ASSUME IInv, [Next]_vars PROVE [Abs!Next]_Abs!vars
      OBVIOUS
    <2>1. ASSUME NEW e \in Ev, Dequeue(e) PROVE Abs!Next
      BY <2>1, DequeueAbs DEF Abs!Next
    <2>2. ASSUME NEW e \in Ev, NEW d \in Dts, QueueDt(e, d) PROVE Abs!Next
      BY <2>2, QueueDtAbs DEF Abs!Next
    <2>3. ASSUME NEW l \in Lists, NEW d \in RunDts[l], RunQueue(l, d) PROVE Abs!Next
      BY <2>3, RunQueueAbs DEF Abs!Next
    <2>4. ASSUME NEW l \in DrainLists, DrainQueue(l) PROVE Abs!Next
      BY <2>4, DrainQueueAbs DEF Abs!Next
    <2>5. CASE DispatchNext
      BY <2>5, DispatchNextAbs DEF Abs!Next
    <2>6. CASE DelegateReturns
      <3>1. Abs!Return
        BY <2>6 DEF DelegateReturns, Abs!Return, QueuedSet, Left, Rem
      <3> QED
        BY <3>1 DEF Abs!Next
    <2>7. CASE RunEnds
      BY <2>7, RunEndsAbs DEF Abs!Next
    <2>8. CASE UNCHANGED vars
      BY <2>8, StutterAbs
    <2> QED
      BY <2>1, <2>2, <2>3, <2>4, <2>5, <2>6, <2>7, <2>8 DEF Next
  <1> QED
    BY <1>1, <1>2, Invariance, PTL DEF Spec, Implements, Abs!Spec
=============================================================================
