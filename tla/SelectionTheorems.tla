-------------------------- MODULE SelectionTheorems --------------------------
(***************************************************************************)
(* Facts about Selection.  The induction they need is that of the smallest *)
(* counterexample.                                                         *)
(***************************************************************************)
EXTENDS Selection, WellFoundedInduction, TLAPS

Less == {p \in Nat \X Nat : p[1] < p[2]}

\* A set of natural numbers that is not empty has a smallest element.
LEMMA SmallestElement ==
    ASSUME NEW S \in SUBSET Nat, S # {}
    PROVE  \E m \in S : \A k \in S : ~(k < m)
<1>1. S \subseteq Nat
  OBVIOUS
<1>2. IsWellFoundedOn(Less, Nat)
  BY NatLessThanWellFounded, Zenon DEF OpToRel, Less
<1>3. PICK m \in S : \A k \in S : <<k, m>> \notin Less
  BY <1>1, <1>2, WFMin, Zenon
<1>4. \A k \in S : ~(k < m)
  BY <1>3 DEF Less
<1> QED BY <1>4

\* One step of the recursion.
Step(seq, wanted, f, n) ==
    IF n = 0 THEN <<>>
    ELSE IF seq[n] \in wanted THEN Append(f[n - 1], seq[n])
    ELSE f[n - 1]

\* The recursive function exists.
LEMMA SelectedExists ==
    ASSUME NEW S, NEW seq \in Seq(S), NEW wanted
    PROVE  \A n \in 0..Len(seq) : \E f : f = [i \in 0..n |-> Step(seq, wanted, f, i)]
<1> DEFINE Bad == {n \in 0..Len(seq) : ~\E f : f = [i \in 0..n |-> Step(seq, wanted, f, i)]}
<1>1. SUFFICES ASSUME Bad # {} PROVE FALSE
  OBVIOUS
<1>2. PICK m \in Bad : \A k \in Bad : ~(k < m)
  <2>1. Bad \in SUBSET Nat
    OBVIOUS
  <2> QED BY <1>1, <2>1, SmallestElement
<1>3. CASE m = 0
  <2> DEFINE f == [i \in 0..0 |-> <<>>]
  <2>1. f = [i \in 0..m |-> Step(seq, wanted, f, i)]
    BY <1>3 DEF Step
  <2> QED BY <2>1
<1>4. CASE m # 0
  <2>1. m \in 1..Len(seq) /\ m - 1 \in 0..Len(seq) /\ m - 1 \notin Bad
    BY <1>2, <1>4
  <2>2. PICK h : h = [i \in 0..(m - 1) |-> Step(seq, wanted, h, i)]
    BY <2>1
  <2> DEFINE f == [i \in 0..m |-> IF i = m THEN Step(seq, wanted, h, m) ELSE h[i]]
  <2>3. ASSUME NEW i \in 0..m PROVE f[i] = Step(seq, wanted, f, i)
    <3>1. CASE i = m
      BY <2>1, <3>1 DEF Step
    <3>2. CASE i # m
      <4>1. i \in 0..(m - 1)
        BY <2>1, <3>2
      <4>2. h[i] = Step(seq, wanted, h, i)
        BY <2>2, <4>1
      <4>3. f[i] = h[i] /\ (i # 0 => f[i - 1] = h[i - 1])
        BY <2>1, <3>2
      <4> QED BY <4>2, <4>3 DEF Step
    <3> QED BY <3>1, <3>2
  <2>4. f = [i \in 0..m |-> Step(seq, wanted, f, i)]
    BY <2>3
  <2> QED BY <2>4
<1> QED BY <1>3, <1>4

\* What the recursive function computes, place by place.
LEMMA SelectedRecursion ==
    ASSUME NEW S, NEW seq \in Seq(S), NEW wanted
    PROVE  /\ SelectedUpTo(seq, wanted)[0] = <<>>
           /\ \A n \in 1..Len(seq) :
                 SelectedUpTo(seq, wanted)[n] =
                     IF seq[n] \in wanted
                     THEN Append(SelectedUpTo(seq, wanted)[n - 1], seq[n])
                     ELSE SelectedUpTo(seq, wanted)[n - 1]
<1> DEFINE f == SelectedUpTo(seq, wanted)
<1>1. \E g : g = [i \in 0..Len(seq) |-> Step(seq, wanted, g, i)]
  BY SelectedExists
<1>2. f = CHOOSE g : g = [i \in 0..Len(seq) |-> Step(seq, wanted, g, i)]
  BY DEF SelectedUpTo, Step
<1>3. f = [i \in 0..Len(seq) |-> Step(seq, wanted, f, i)]
  BY <1>1, <1>2
<1> HIDE DEF f
<1>4. f[0] = <<>>
  BY <1>3 DEF Step
<1>5. \A n \in 1..Len(seq) : f[n] = Step(seq, wanted, f, n)
  BY <1>3
<1> QED BY <1>4, <1>5 DEF Step, f

\* Induction up to a number, for a set instead of a predicate.
LEMMA InductionUpTo ==
    ASSUME NEW N \in Nat, NEW G, 0 \in G, \A n \in 1..N : n - 1 \in G => n \in G
    PROVE  0..N \subseteq G
<1> DEFINE Bad == {n \in 0..N : n \notin G}
<1>1. SUFFICES ASSUME Bad # {} PROVE FALSE
  OBVIOUS
<1>2. Bad \in SUBSET Nat
  OBVIOUS
<1>3. PICK m \in Bad : \A k \in Bad : ~(k < m)
  BY <1>1, <1>2, SmallestElement
<1>4. m \in 1..N /\ m - 1 \in 0..N /\ m - 1 < m
  BY <1>3
<1>5. m - 1 \in G
  BY <1>3, <1>4
<1> QED BY <1>3, <1>4, <1>5

\* x is one of the first n elements of a sequence.
Among(x, seq, n) == \E i \in 1..n : seq[i] = x

\* What the selection holds: the wanted elements, each as it was, and no more of them.
LEMMA SelectedElements ==
    ASSUME NEW S, NEW seq \in Seq(S), NEW wanted
    PROVE  /\ Selected(seq, wanted) \in Seq(S)
           /\ Len(Selected(seq, wanted)) <= Len(seq)
           /\ \A x : Among(x, Selected(seq, wanted), Len(Selected(seq, wanted)))
                        <=> x \in wanted /\ Among(x, seq, Len(seq))
<1> DEFINE f == SelectedUpTo(seq, wanted)
           Good(n) == /\ f[n] \in Seq(S)
                      /\ Len(f[n]) <= n
                      /\ \A x : Among(x, f[n], Len(f[n])) <=> x \in wanted /\ Among(x, seq, n)
           G == {n \in 0..Len(seq) : Good(n)}
<1>1. /\ f[0] = <<>>
      /\ \A n \in 1..Len(seq) : f[n] = IF seq[n] \in wanted THEN Append(f[n - 1], seq[n])
                                       ELSE f[n - 1]
  BY SelectedRecursion
<1> HIDE DEF f
<1>2. 0 \in G
  <2>1. f[0] \in Seq(S) /\ Len(f[0]) = 0
    BY <1>1
  <2>2. \A x : ~Among(x, f[0], 0) /\ ~Among(x, seq, 0)
    BY DEF Among
  <2>3. 0 \in 0..Len(seq)
    OBVIOUS
  <2> QED BY <2>1, <2>2, <2>3
<1>3. ASSUME NEW n \in 1..Len(seq), n - 1 \in G
      PROVE  n \in G
  <2>1. /\ f[n - 1] \in Seq(S) /\ Len(f[n - 1]) <= n - 1 /\ Len(f[n - 1]) \in Nat
        /\ \A x : Among(x, f[n - 1], Len(f[n - 1])) <=> x \in wanted /\ Among(x, seq, n - 1)
        /\ seq[n] \in S
    BY <1>3
  <2>2. \A x : Among(x, seq, n) <=> Among(x, seq, n - 1) \/ x = seq[n]
    BY DEF Among
  <2>3. CASE seq[n] \in wanted
    <3>1. f[n] = Append(f[n - 1], seq[n])
      BY <1>1, <2>3
    <3>2. f[n] \in Seq(S) /\ Len(f[n]) = Len(f[n - 1]) + 1
      BY <2>1, <3>1
    <3>3. ASSUME NEW x
          PROVE  Among(x, f[n], Len(f[n])) <=> Among(x, f[n - 1], Len(f[n - 1])) \/ x = seq[n]
      BY <2>1, <3>1, <3>2 DEF Among
    <3> QED BY <2>1, <2>2, <2>3, <3>2, <3>3
  <2>4. CASE seq[n] \notin wanted
    <3>1. f[n] = f[n - 1]
      BY <1>1, <2>4
    <3>2. f[n] \in Seq(S) /\ Len(f[n]) <= n
      BY <2>1, <3>1
    <3>3. \A x : Among(x, f[n], Len(f[n])) <=> x \in wanted /\ Among(x, seq, n)
      BY <2>1, <2>2, <2>4, <3>1
    <3> QED BY <3>2, <3>3
  <2> QED BY <2>3, <2>4
<1>4. Len(seq) \in Nat
  OBVIOUS
<1>5. 0..Len(seq) \subseteq G
  BY <1>2, <1>3, <1>4, InductionUpTo
<1>6. Good(Len(seq))
  BY <1>4, <1>5
<1> QED BY <1>6 DEF Selected, f

-----------------------------------------------------------------------------
(* Selecting from parts of a sequence.                                     *)

LEMMA SelectedIsSeq ==
    ASSUME NEW S, NEW seq \in Seq(S), NEW wanted, NEW n \in 0..Len(seq)
    PROVE  SelectedUpTo(seq, wanted)[n] \in Seq(S)
<1> DEFINE f == SelectedUpTo(seq, wanted)
           G == {k \in 0..Len(seq) : f[k] \in Seq(S)}
<1>1. /\ f[0] = <<>>
      /\ \A k \in 1..Len(seq) : f[k] = IF seq[k] \in wanted THEN Append(f[k - 1], seq[k])
                                       ELSE f[k - 1]
  BY SelectedRecursion
<1> HIDE DEF f
<1>4. Len(seq) \in Nat /\ 0 \in 0..Len(seq)
  OBVIOUS
<1>2. 0 \in G
  <2>1. <<>> \in Seq(S)
    OBVIOUS
  <2> QED BY <1>1, <1>4, <2>1, Zenon
<1>3. ASSUME NEW k \in 1..Len(seq), k - 1 \in G
      PROVE  k \in G
  <2>1. seq[k] \in S /\ f[k - 1] \in Seq(S) /\ k \in 0..Len(seq)
    BY <1>3
  <2>2. f[k] = Append(f[k - 1], seq[k]) \/ f[k] = f[k - 1]
    BY <1>1
  <2>4. Append(f[k - 1], seq[k]) \in Seq(S)
    BY <2>1
  <2>3. f[k] \in Seq(S)
    BY <2>1, <2>2, <2>4, Zenon
  <2> QED BY <2>1, <2>3
<1> HIDE DEF G
<1>5. 0..Len(seq) \subseteq G
  BY <1>2, <1>3, <1>4, InductionUpTo
<1> QED BY <1>5 DEF G, f

\* What is selected depends on nothing but which elements are wanted.
LEMMA SelectedAgree ==
    ASSUME NEW S, NEW seq \in Seq(S), NEW v, NEW w,
           \A i \in 1..Len(seq) : seq[i] \in v <=> seq[i] \in w
    PROVE  Selected(seq, v) = Selected(seq, w)
<1> DEFINE f == SelectedUpTo(seq, v)
           g == SelectedUpTo(seq, w)
           G == {k \in 0..Len(seq) : f[k] = g[k]}
<1>1. /\ f[0] = <<>>
      /\ \A k \in 1..Len(seq) : f[k] = IF seq[k] \in v THEN Append(f[k - 1], seq[k])
                                       ELSE f[k - 1]
  BY SelectedRecursion
<1>2. /\ g[0] = <<>>
      /\ \A k \in 1..Len(seq) : g[k] = IF seq[k] \in w THEN Append(g[k - 1], seq[k])
                                       ELSE g[k - 1]
  BY SelectedRecursion
<1> HIDE DEF f, g
<1>3. 0 \in G
  BY <1>1, <1>2
<1>4. ASSUME NEW k \in 1..Len(seq), k - 1 \in G
      PROVE  k \in G
  BY <1>1, <1>2, <1>4
<1>5. Len(seq) \in Nat
  OBVIOUS
<1> HIDE DEF G
<1>6. 0..Len(seq) \subseteq G
  BY <1>3, <1>4, <1>5, InductionUpTo
<1>7. Len(seq) \in G
  BY <1>5, <1>6
<1> QED BY <1>7 DEF G, f, g, Selected

\* The concatenation, under a name: the provers simplify Append of \o into what no lemma
\* about it matches.
Joined(s, t) == s \o t

LEMMA AppendJoined ==
    ASSUME NEW S, NEW s \in Seq(S), NEW t \in Seq(S), NEW x \in S
    PROVE  Append(Joined(s, t), x) = Joined(s, Append(t, x))
<1> DEFINE st == Joined(s, t)
           tx == Append(t, x)
<1>1. /\ Len(s) \in Nat /\ Len(t) \in Nat /\ st \in Seq(S) /\ Len(st) = Len(s) + Len(t)
      /\ \A i \in 1..Len(s) : st[i] = s[i]
      /\ \A i \in 1..Len(t) : st[Len(s) + i] = t[i]
  BY DEF Joined
<1>2. /\ tx \in Seq(S) /\ Len(tx) = Len(t) + 1 /\ tx[Len(t) + 1] = x
      /\ \A i \in 1..Len(t) : tx[i] = t[i]
  OBVIOUS
<1> DEFINE a == Append(st, x)
           b == Joined(s, tx)
<1> HIDE DEF st, tx
<1>3. /\ a \in Seq(S) /\ Len(a) = Len(s) + Len(t) + 1 /\ a[Len(s) + Len(t) + 1] = x
      /\ \A i \in 1..(Len(s) + Len(t)) : a[i] = st[i]
  <2>1. a \in Seq(S) /\ Len(a) = Len(st) + 1 /\ a[Len(st) + 1] = x
    BY <1>1
  <2>2. \A i \in 1..Len(st) : a[i] = st[i]
    BY <1>1
  <2> HIDE DEF a
  <2> QED BY <1>1, <2>1, <2>2
<1>4. /\ b \in Seq(S) /\ Len(b) = Len(s) + Len(t) + 1
      /\ \A i \in 1..Len(s) : b[i] = s[i]
      /\ \A i \in 1..(Len(t) + 1) : b[Len(s) + i] = tx[i]
  <2>1. b \in Seq(S) /\ Len(b) = Len(s) + Len(tx)
    BY <1>2 DEF Joined
  <2>2. \A i \in 1..Len(s) : b[i] = s[i]
    BY <1>2 DEF Joined
  <2>3. \A i \in 1..Len(tx) : b[Len(s) + i] = tx[i]
    BY <1>2 DEF Joined
  <2> HIDE DEF b
  <2> QED BY <1>1, <1>2, <2>1, <2>2, <2>3
<1> HIDE DEF a, b
<1>5. ASSUME NEW i \in 1..(Len(s) + Len(t) + 1)
      PROVE  a[i] = b[i]
  <2>1. CASE i \in 1..Len(s)
    BY <1>1, <1>3, <1>4, <2>1
  <2>2. CASE i \in (Len(s) + 1)..(Len(s) + Len(t))
    <3>1. i - Len(s) \in 1..Len(t) /\ i = Len(s) + (i - Len(s))
      BY <1>1, <2>2
    <3>2. i - Len(s) \in 1..(Len(t) + 1) /\ i \in 1..(Len(s) + Len(t))
      BY <1>1, <2>2
    <3>3. a[i] = st[i] /\ st[i] = t[i - Len(s)]
      BY <1>1, <1>3, <3>1, <3>2
    <3>4. b[i] = tx[i - Len(s)] /\ tx[i - Len(s)] = t[i - Len(s)]
      BY <1>2, <1>4, <3>1, <3>2
    <3> QED BY <3>3, <3>4
  <2>3. CASE i = Len(s) + Len(t) + 1
    <3>1. Len(t) + 1 \in 1..(Len(t) + 1) /\ Len(s) + (Len(t) + 1) = i
      BY <1>1, <2>3
    <3> QED BY <1>2, <1>3, <1>4, <2>3, <3>1
  <2> QED BY <1>1, <2>1, <2>2, <2>3
<1>6. a = b
  BY <1>1, <1>3, <1>4, <1>5
<1> QED BY <1>6 DEF a, b, st, tx

\* Selecting from a sequence is selecting from its parts.
LEMMA SelectedConcat ==
    ASSUME NEW S, NEW seq \in Seq(S), NEW more \in Seq(S), NEW wanted
    PROVE  Selected(seq \o more, wanted) = Selected(seq, wanted) \o Selected(more, wanted)
<1> DEFINE all == seq \o more
           f == SelectedUpTo(all, wanted)
           g == SelectedUpTo(seq, wanted)
           h == SelectedUpTo(more, wanted)
           G == {k \in 0..Len(seq) : f[k] = g[k]}
           H == {k \in 0..Len(more) : f[Len(seq) + k] = Joined(g[Len(seq)], h[k])}
<1>1. /\ all \in Seq(S) /\ Len(all) = Len(seq) + Len(more)
      /\ Len(seq) \in Nat /\ Len(more) \in Nat
      /\ \A k \in 1..Len(seq) : all[k] = seq[k]
      /\ \A k \in 1..Len(more) : all[Len(seq) + k] = more[k]
  OBVIOUS
<1> HIDE DEF all
<1>2. /\ f[0] = <<>>
      /\ \A k \in 1..Len(all) : f[k] = IF all[k] \in wanted THEN Append(f[k - 1], all[k])
                                       ELSE f[k - 1]
  BY <1>1, SelectedRecursion
<1>3. /\ g[0] = <<>>
      /\ \A k \in 1..Len(seq) : g[k] = IF seq[k] \in wanted THEN Append(g[k - 1], seq[k])
                                       ELSE g[k - 1]
  BY SelectedRecursion
<1>4. /\ h[0] = <<>>
      /\ \A k \in 1..Len(more) : h[k] = IF more[k] \in wanted THEN Append(h[k - 1], more[k])
                                        ELSE h[k - 1]
  BY SelectedRecursion
<1>5. g[Len(seq)] \in Seq(S) /\ \A k \in 0..Len(more) : h[k] \in Seq(S)
  BY <1>1, SelectedIsSeq
<1> HIDE DEF f, g, h
<1>6. Len(seq) \in G
  <2>1. 0 \in G
    BY <1>1, <1>2, <1>3
  <2>2. ASSUME NEW k \in 1..Len(seq), k - 1 \in G
        PROVE  k \in G
    BY <1>1, <1>2, <1>3, <2>2
  <2> HIDE DEF G
  <2>3. 0..Len(seq) \subseteq G
    BY <1>1, <2>1, <2>2, InductionUpTo
  <2> QED BY <1>1, <2>3
<1>7. Len(more) \in H
  <2>1. 0 \in H
    <3>1. Joined(g[Len(seq)], <<>>) = g[Len(seq)]
      BY <1>5 DEF Joined
    <3>2. Len(seq) + 0 = Len(seq) /\ 0 \in 0..Len(more)
      BY <1>1
    <3> QED BY <1>4, <1>6, <3>1, <3>2
  <2>2. ASSUME NEW k \in 1..Len(more), k - 1 \in H
        PROVE  k \in H
    <3>1. /\ Len(seq) + k \in 1..Len(all) /\ Len(seq) + k - 1 = Len(seq) + (k - 1)
          /\ k - 1 \in 0..Len(more) /\ k \in 0..Len(more)
      BY <1>1
    <3>2. f[Len(seq) + (k - 1)] = Joined(g[Len(seq)], h[k - 1])
      BY <2>2
    <3>3. more[k] \in S /\ h[k - 1] \in Seq(S) /\ all[Len(seq) + k] = more[k]
      BY <1>1, <1>5, <3>1
    <3>6. f[Len(seq) + k] = IF more[k] \in wanted THEN Append(f[Len(seq) + (k - 1)], more[k])
                            ELSE f[Len(seq) + (k - 1)]
      BY <1>2, <3>1, <3>3
    <3>4. CASE more[k] \in wanted
      <4>1. h[k] = Append(h[k - 1], more[k])
        BY <1>4, <3>4
      <4>2. f[Len(seq) + k] = Append(Joined(g[Len(seq)], h[k - 1]), more[k])
        BY <3>2, <3>4, <3>6
      <4>3. Append(Joined(g[Len(seq)], h[k - 1]), more[k])
               = Joined(g[Len(seq)], Append(h[k - 1], more[k]))
        <5> DEFINE a == g[Len(seq)]
                   b == h[k - 1]
                   c == more[k]
        <5>1. a \in Seq(S) /\ b \in Seq(S) /\ c \in S
          BY <1>5, <3>3
        <5> HIDE DEF a, b, c
        <5>2. Append(Joined(a, b), c) = Joined(a, Append(b, c))
          BY <5>1, AppendJoined
        <5> QED BY <5>2 DEF a, b, c
      <4> QED BY <3>1, <4>1, <4>2, <4>3
    <3>5. CASE more[k] \notin wanted
      <4>1. h[k] = h[k - 1]
        BY <1>4, <3>5
      <4>2. f[Len(seq) + k] = Joined(g[Len(seq)], h[k - 1])
        BY <3>2, <3>5, <3>6
      <4> QED BY <3>1, <4>1, <4>2
    <3> QED BY <3>4, <3>5
  <2> HIDE DEF H
  <2>3. 0..Len(more) \subseteq H
    BY <1>1, <2>1, <2>2, InductionUpTo
  <2> QED BY <1>1, <2>3
<1> QED BY <1>1, <1>7 DEF f, g, h, all, Joined, Selected

LEMMA SelectedJoined ==
    ASSUME NEW S, NEW seq \in Seq(S), NEW more \in Seq(S), NEW wanted
    PROVE  Selected(Joined(seq, more), wanted) = Joined(Selected(seq, wanted), Selected(more, wanted))
  BY SelectedConcat DEF Joined

\* Nothing is selected when nothing is wanted.
LEMMA SelectedNone ==
    ASSUME NEW S, NEW seq \in Seq(S), NEW wanted, \A i \in 1..Len(seq) : seq[i] \notin wanted
    PROVE  Selected(seq, wanted) = <<>>
<1> DEFINE found == Selected(seq, wanted)
<1>1. /\ found \in Seq(S)
      /\ \A x : Among(x, found, Len(found)) <=> x \in wanted /\ Among(x, seq, Len(seq))
  BY SelectedElements
<1> HIDE DEF found
<1>2. \A x \in wanted : ~Among(x, seq, Len(seq))
  BY DEF Among
<1>3. \A i \in 1..Len(found) : Among(found[i], found, Len(found))
  BY DEF Among
<1>4. Len(found) \in Nat /\ 1..Len(found) = {}
  BY <1>1, <1>2, <1>3
<1>5. Len(found) = 0
  BY <1>4
<1> QED BY <1>1, <1>5 DEF found

\* Everything is selected when everything is wanted.
LEMMA SelectedAll ==
    ASSUME NEW S, NEW seq \in Seq(S), NEW wanted, \A i \in 1..Len(seq) : seq[i] \in wanted
    PROVE  Selected(seq, wanted) = seq
<1> DEFINE f == SelectedUpTo(seq, wanted)
           G == {k \in 0..Len(seq) : f[k] = SubSeq(seq, 1, k)}
<1>1. /\ f[0] = <<>>
      /\ \A k \in 1..Len(seq) : f[k] = Append(f[k - 1], seq[k])
  BY SelectedRecursion
<1>2. Len(seq) \in Nat /\ 0 \in 0..Len(seq)
  OBVIOUS
<1> HIDE DEF f
<1>3. 0 \in G
  <2>1. SubSeq(seq, 1, 0) = <<>>
    OBVIOUS
  <2> QED BY <1>1, <1>2, <2>1
<1>4. ASSUME NEW k \in 1..Len(seq), k - 1 \in G
      PROVE  k \in G
  <2>1. k - 1 \in 0..Len(seq) /\ f[k - 1] = SubSeq(seq, 1, k - 1)
    BY <1>4
  <2>2. Append(SubSeq(seq, 1, k - 1), seq[k]) = SubSeq(seq, 1, k)
    <3>1. seq[k] \in S /\ \A i \in 1..k : i \in 1..Len(seq)
      BY <1>2
    <3>2. SubSeq(seq, 1, k - 1) \in Seq(S) /\ SubSeq(seq, 1, k) \in Seq(S)
      BY <1>2
    <3>3. Len(SubSeq(seq, 1, k - 1)) = k - 1 /\ Len(SubSeq(seq, 1, k)) = k
      BY <1>2
    <3>4. /\ \A i \in 1..(k - 1) : SubSeq(seq, 1, k - 1)[i] = seq[i]
          /\ \A i \in 1..k : SubSeq(seq, 1, k)[i] = seq[i]
      BY <1>2
    <3> DEFINE a == SubSeq(seq, 1, k - 1)
               b == SubSeq(seq, 1, k)
    <3> HIDE DEF a, b
    <3>5. Append(a, seq[k]) \in Seq(S) /\ Len(Append(a, seq[k])) = k
      BY <3>1, <3>2, <3>3 DEF a
    <3>6. \A i \in 1..k : Append(a, seq[k])[i] = b[i]
      BY <3>1, <3>2, <3>3, <3>4 DEF a, b
    <3>7. Append(a, seq[k]) = b
      BY <3>2, <3>3, <3>5, <3>6 DEF b
    <3> QED BY <3>7 DEF a, b
  <2>3. f[k] = SubSeq(seq, 1, k)
    BY <1>1, <2>1, <2>2, Zenon
  <2>4. k \in 0..Len(seq)
    OBVIOUS
  <2> QED BY <2>3, <2>4
<1> HIDE DEF G
<1>5. 0..Len(seq) \subseteq G
  BY <1>2, <1>3, <1>4, InductionUpTo
<1>6. f[Len(seq)] = SubSeq(seq, 1, Len(seq))
  BY <1>2, <1>5 DEF G
<1>7. SubSeq(seq, 1, Len(seq)) = seq
  OBVIOUS
<1> QED BY <1>6, <1>7 DEF f, Selected

\* One element more.
LEMMA SelectedAppend ==
    ASSUME NEW S, NEW seq \in Seq(S), NEW x \in S, NEW wanted
    PROVE  Selected(Append(seq, x), wanted) =
               IF x \in wanted THEN Append(Selected(seq, wanted), x) ELSE Selected(seq, wanted)
<1> DEFINE one == <<x>>
           some == Selected(seq, wanted)
<1>1. /\ one \in Seq(S) /\ Len(one) = 1 /\ \A i \in 1..Len(one) : one[i] = x
      /\ Append(seq, x) = seq \o one
  OBVIOUS
<1>2. some \in Seq(S)
  BY SelectedElements
<1>3. some \o <<>> = some /\ some \o one = Append(some, x)
  BY <1>2
<1> HIDE DEF one, some
<1>4. Selected(seq \o one, wanted) = some \o Selected(one, wanted)
  BY <1>1, SelectedConcat DEF some
<1>5. x \in wanted => Selected(one, wanted) = one
  BY <1>1, SelectedAll
<1>6. x \notin wanted => Selected(one, wanted) = <<>>
  BY <1>1, SelectedNone
<1> QED BY <1>1, <1>3, <1>4, <1>5, <1>6 DEF some
=============================================================================
