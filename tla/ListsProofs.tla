----------------------------- MODULE ListsProofs -----------------------------
(***************************************************************************)
(* Induction, and what a list comprehension keeps: facts about natural     *)
(* numbers and sequences that the other proof modules cite.                *)
(***************************************************************************)
EXTENDS Lists, Functions, SequenceTheorems, FiniteSetTheorems,
        WellFoundedInduction, TLAPS

(***************************************************************************)
(* Induction as a statement about sets: it is applied to the set of        *)
(* counterexamples, which no prover has to guess.                          *)
(***************************************************************************)
(* A set of naturals that is not empty has a least element.                *)
LEMMA LeastNat ==
    ASSUME NEW T, T \subseteq Nat, T # {}
    PROVE  \E n \in T : \A m \in T : n <= m
<1>1. IsWellFoundedOn(OpToRel(<, Nat), Nat)
  BY NatLessThanWellFounded
<1>2. PICK n \in T : \A m \in T : ~ (<<m, n>> \in OpToRel(<, Nat))
  BY <1>1, WFMin
<1>3. \A m \in T : ~ (m < n)
  BY <1>2 DEF OpToRel
<1> QED
  BY <1>3

(* A set that has 0, and n + 1 with every n, has all numbers up to m.      *)
LEMMA UpTo ==
    ASSUME NEW P, NEW m \in Nat, 0 \in P,
           \A n \in 0 .. m : n \in P /\ n < m => n + 1 \in P
    PROVE  0 .. m \subseteq P
<1> SUFFICES ASSUME NEW k \in 0 .. m, k \notin P
             PROVE  FALSE
  OBVIOUS
<1> DEFINE T == {n \in 0 .. m : n \notin P}
<1>1. PICK n \in T : \A i \in T : n <= i
  <2>1. T \subseteq Nat /\ T # {}
    OBVIOUS
  <2> HIDE DEF T
  <2> QED
    BY <2>1, LeastNat
<1>2. n # 0 /\ n - 1 \in 0 .. m /\ n - 1 < n
  BY <1>1
<1>3. n - 1 \in P
  BY <1>1, <1>2
<1> QED
  BY <1>1, <1>2, <1>3

(* A set that has the empty sequence, and with a sequence every sequence   *)
(* that is one longer, has them all.                                       *)
LEMMA BySequence ==
    ASSUME NEW T, NEW P, <<>> \in P,
           \A s \in Seq(T), e \in T : s \in P => Append(s, e) \in P
    PROVE  Seq(T) \subseteq P
<1> SUFFICES ASSUME NEW seq \in Seq(T)
             PROVE  seq \in P
  OBVIOUS
<1> DEFINE Q == {n \in 0 .. Len(seq) : SubSeq(seq, 1, n) \in P}
<1>0. Len(seq) \in Nat
  OBVIOUS
<1>1. 0 \in Q
  <2>1. SubSeq(seq, 1, 0) = <<>>
    OBVIOUS
  <2>2. 0 \in 0 .. Len(seq)
    BY <1>0
  <2> QED
    BY <2>1, <2>2, Zenon
<1>2. ASSUME NEW n \in 0 .. Len(seq), n \in Q, n < Len(seq)
      PROVE  n + 1 \in Q
  <2>1. n + 1 \in 0 .. Len(seq) /\ seq[n + 1] \in T
    BY <1>0, <1>2
  <2>2. SubSeq(seq, 1, n) \in Seq(T)
    BY <1>0, <1>2
  <2>3. SubSeq(seq, 1, n + 1) = Append(SubSeq(seq, 1, n), seq[n + 1])
    BY <1>0, <1>2
  <2> QED
    BY <1>2, <2>1, <2>2, <2>3
<1>3. Len(seq) \in Q
  <2> HIDE DEF Q
  <2>1. 0 .. Len(seq) \subseteq Q
    BY <1>0, <1>1, <1>2, UpTo
  <2> QED
    BY <1>0, <2>1
<1>4. SubSeq(seq, 1, Len(seq)) = seq
  BY <1>0
<1> QED
  BY <1>3, <1>4

(* A recursion that goes up to m has a solution.                           *)
LEMMA Iterates ==
    ASSUME NEW X, NEW a \in X, NEW m \in Nat, NEW D \in [1 .. m -> [X -> X]]
    PROVE  \E g \in [0 .. m -> X] :
              g[0] = a /\ \A n \in 1 .. m : g[n] = D[n][g[n - 1]]
<1> DEFINE Good(g, k) == /\ g \in [0 .. k -> X]
                         /\ g[0] = a
                         /\ \A n \in 1 .. k : g[n] = D[n][g[n - 1]]
           P == {k \in 0 .. m : \E g : Good(g, k)}
<1>1. 0 \in P
  <2>1. Good([n \in 0 .. 0 |-> a], 0)
    OBVIOUS
  <2>2. 0 \in 0 .. m
    OBVIOUS
  <2> HIDE DEF Good
  <2> QED
    BY <2>1, <2>2
<1>2. ASSUME NEW k \in 0 .. m, k \in P /\ k < m
      PROVE  k + 1 \in P
  <2>1. PICK g : Good(g, k)
    BY <1>2
  <2>2. k + 1 \in 1 .. m /\ k + 1 \in 0 .. m /\ k \in 0 .. k
    BY <1>2
  <2> DEFINE last == D[k + 1][g[k]]
             h == [n \in 0 .. k + 1 |-> IF n = k + 1 THEN last ELSE g[n]]
  <2>3. g[k] \in X /\ last \in X
    BY <2>1, <2>2
  <2>4. ASSUME NEW n \in 0 .. k + 1
        PROVE  h[n] \in X
    <3>1. CASE n = k + 1
      BY <2>3, <3>1
    <3>2. CASE n # k + 1
      <4>1. n \in 0 .. k
        BY <3>2
      <4> QED
        BY <2>1, <3>2, <4>1
    <3> QED
      BY <3>1, <3>2
  <2>5. h \in [0 .. k + 1 -> X] /\ h[0] = a
    <3>1. 0 # k + 1 /\ 0 \in 0 .. k + 1
      OBVIOUS
    <3> QED
      BY <2>1, <2>4, <3>1
  <2>6. ASSUME NEW n \in 1 .. k + 1
        PROVE  h[n] = D[n][h[n - 1]]
    <3>1. n - 1 \in 0 .. k + 1 /\ n - 1 # k + 1 /\ h[n - 1] = g[n - 1] /\ n \in 0 .. k + 1
      OBVIOUS
    <3>2. CASE n = k + 1
      <4>1. n - 1 = k /\ h[n] = last
        BY <3>1, <3>2
      <4> QED
        BY <3>1, <3>2, <4>1
    <3>3. CASE n # k + 1
      <4>1. n \in 1 .. k /\ h[n] = g[n]
        BY <3>1, <3>3
      <4> QED
        BY <2>1, <3>1, <4>1
    <3> QED
      BY <3>2, <3>3
  <2>7. Good(h, k + 1)
    <3> HIDE DEF h
    <3> QED
      BY <2>5, <2>6
  <2> HIDE DEF Good
  <2> QED
    BY <2>2, <2>7
<1>3. m \in P
  <2>1. 0 .. m \subseteq P
    <3> HIDE DEF P
    <3> QED
      BY <1>1, <1>2, UpTo
  <2> QED
    BY <2>1
<1> QED
  BY <1>3

(* The same, with names for what is given and what there is.               *)
StepsOn(D, m, X) == \A n \in 1 .. m : D[n] \in [X -> X]
Iterated(g, X, a, m, D) ==
    /\ g \in [0 .. m -> X]
    /\ g[0] = a
    /\ \A n \in 1 .. m : g[n] = D[n][g[n - 1]]

LEMMA IteratesBy ==
    ASSUME NEW X, NEW a \in X, NEW m \in Nat, NEW D, StepsOn(D, m, X)
    PROVE  \E g : Iterated(g, X, a, m, D)
<1> DEFINE E == [n \in 1 .. m |-> D[n]]
<1>1. E \in [1 .. m -> [X -> X]] /\ \A n \in 1 .. m : E[n] = D[n]
  BY DEF StepsOn
<1> HIDE DEF E
<1>2. E \in [1 .. m -> [X -> X]]
  BY <1>1
<1>3. \E g \in [0 .. m -> X] : g[0] = a /\ \A n \in 1 .. m : g[n] = E[n][g[n - 1]]
  BY <1>2, Iterates
<1> QED
  BY <1>1, <1>3 DEF Iterated

(* Sequences joined one after the other.                                   *)
SeqsOf(seqs, m, T) == \A n \in 1 .. m : seqs[n] \in Seq(T)
Concatenation(g, seqs, m, T) ==
    /\ g \in [0 .. m -> Seq(T)]
    /\ g[0] = << >>
    /\ \A n \in 1 .. m : g[n] = g[n - 1] \o seqs[n]

LEMMA JoinsUp ==
    ASSUME NEW T, NEW m \in Nat, NEW seqs, SeqsOf(seqs, m, T)
    PROVE  \E g : Concatenation(g, seqs, m, T)
<1> DEFINE D == [n \in 1 .. m |-> [s \in Seq(T) |-> s \o seqs[n]]]
<1>1. << >> \in Seq(T)
  OBVIOUS
<1>2. \A n \in 1 .. m : [s \in Seq(T) |-> s \o seqs[n]] \in [Seq(T) -> Seq(T)]
  BY DEF SeqsOf
<1>3. \A n \in 1 .. m : D[n] \in [Seq(T) -> Seq(T)]
  BY <1>2
<1>4. \A n \in 1 .. m : \A s \in Seq(T) : D[n][s] = s \o seqs[n]
  OBVIOUS
<1> DEFINE X == Seq(T)
           a == << >>
<1> HIDE DEF D, X, a
<1>5. \E g : Iterated(g, X, a, m, D)
  <2>1. a \in X
    BY <1>1 DEF X, a
  <2>2. StepsOn(D, m, X)
    BY <1>3 DEF X, StepsOn
  <2> QED
    BY <2>1, <2>2, IteratesBy
<1>6. PICK g \in [0 .. m -> Seq(T)] : g[0] = << >> /\ \A n \in 1 .. m : g[n] = D[n][g[n - 1]]
  BY <1>5 DEF Iterated, X, a
<1>7. \A n \in 1 .. m : g[n - 1] \in Seq(T)
  OBVIOUS
<1>8. \A n \in 1 .. m : g[n] = g[n - 1] \o seqs[n]
  BY <1>4, <1>6, <1>7
<1> QED
  BY <1>6, <1>8 DEF Concatenation

(***************************************************************************)
(* Keep.                                                                   *)
(***************************************************************************)
(* What a prefix of seq keeps, as the recursion has it.                    *)
Kept(seq, S) ==
    CHOOSE kept : kept = [n \in 0 .. Len(seq) |->
                            IF n = 0 THEN <<>>
                            ELSE IF seq[n] \in S THEN Append(kept[n - 1], seq[n])
                            ELSE kept[n - 1]]

LEMMA KeepIsKept ==
    ASSUME NEW seq, NEW S
    PROVE  Keep(seq, S) = Kept(seq, S)[Len(seq)]
BY DEF Keep, Kept

(* The recursion has a solution on every prefix.                           *)
Solves(g, seq, S, m) ==
    /\ DOMAIN g = 0 .. m
    /\ g[0] = <<>>
    /\ \A n \in 1 .. m :
          g[n] = IF seq[n] \in S THEN Append(g[n - 1], seq[n]) ELSE g[n - 1]

LEMMA KeepSolvable ==
    ASSUME NEW T, NEW seq \in Seq(T), NEW S
    PROVE  \E g : Solves(g, seq, S, Len(seq))
<1> DEFINE P == {m \in 0 .. Len(seq) : \E g : Solves(g, seq, S, m)}
<1>0. Len(seq) \in Nat
  OBVIOUS
<1>1. 0 \in P
  <2>1. Solves([n \in 0 .. 0 |-> <<>>], seq, S, 0)
    BY DEF Solves
  <2>2. 0 \in 0 .. Len(seq)
    BY <1>0
  <2> QED
    BY <2>1, <2>2, Zenon
<1>2. ASSUME NEW m \in 0 .. Len(seq), m \in P, m < Len(seq)
      PROVE  m + 1 \in P
  <2>1. PICK g : Solves(g, seq, S, m)
    BY <1>2
  <2> DEFINE last == IF seq[m + 1] \in S THEN Append(g[m], seq[m + 1]) ELSE g[m]
             h == [n \in 0 .. m + 1 |-> IF n <= m THEN g[n] ELSE last]
  <2>2. m + 1 \in 0 .. Len(seq)
    BY <1>0, <1>2
  <2>3. Solves(h, seq, S, m + 1)
    <3>1. DOMAIN h = 0 .. m + 1 /\ h[0] = <<>>
      BY <2>1 DEF Solves
    <3>2. h[m + 1] = last /\ h[m] = g[m]
      OBVIOUS
    <3>3. ASSUME NEW n \in 1 .. m + 1
          PROVE  h[n] = IF seq[n] \in S THEN Append(h[n - 1], seq[n]) ELSE h[n - 1]
      <4>1. CASE n = m + 1
        <5>1. n - 1 = m
          BY <4>1
        <5> QED
          BY <3>2, <4>1, <5>1
      <4>2. CASE n # m + 1
        <5>1. n \in 1 .. m /\ h[n] = g[n] /\ h[n - 1] = g[n - 1]
          BY <4>2
        <5> QED
          BY <2>1, <5>1 DEF Solves
      <4> QED
        BY <4>1, <4>2
    <3> HIDE DEF h
    <3> QED
      BY <3>1, <3>3 DEF Solves
  <2> HIDE DEF h
  <2> QED
    BY <2>2, <2>3
<1>3. Len(seq) \in P
  <2> HIDE DEF P
  <2>1. 0 .. Len(seq) \subseteq P
    BY <1>0, <1>1, <1>2, UpTo
  <2> QED
    BY <1>0, <2>1
<1> QED
  BY <1>3

LEMMA KeptSolves ==
    ASSUME NEW T, NEW seq \in Seq(T), NEW S
    PROVE  Solves(Kept(seq, S), seq, S, Len(seq))
<1>0. Len(seq) \in Nat
  OBVIOUS
<1>1. PICK g : Solves(g, seq, S, Len(seq))
  BY KeepSolvable
<1> DEFINE F(k) == [n \in 0 .. Len(seq) |->
                      IF n = 0 THEN <<>>
                      ELSE IF seq[n] \in S THEN Append(k[n - 1], seq[n])
                      ELSE k[n - 1]]
           r == [n \in 0 .. Len(seq) |-> g[n]]
<1>2. r = F(r)
  <2>1. ASSUME NEW n \in 0 .. Len(seq)
        PROVE  r[n] = F(r)[n]
    <3>1. CASE n = 0
      BY <1>1, <3>1 DEF Solves
    <3>2. CASE n # 0
      <4>1. n \in 1 .. Len(seq) /\ n - 1 \in 0 .. Len(seq)
        BY <1>0, <3>2
      <4>2. r[n - 1] = g[n - 1] /\ r[n] = g[n]
        BY <4>1
      <4>3. g[n] = IF seq[n] \in S THEN Append(g[n - 1], seq[n]) ELSE g[n - 1]
        BY <1>1, <4>1 DEF Solves
      <4> HIDE DEF r
      <4>4. F(r)[n] = IF seq[n] \in S THEN Append(r[n - 1], seq[n]) ELSE r[n - 1]
        BY <3>2
      <4> QED
        BY <4>2, <4>3, <4>4
    <3> QED
      BY <3>1, <3>2
  <2> QED
    BY <2>1
<1>3. Kept(seq, S) = F(Kept(seq, S))
  BY <1>2 DEF Kept
<1> HIDE DEF r
<1>4. \A n \in 1 .. Len(seq) : n # 0 /\ n \in 0 .. Len(seq)
  BY <1>0
<1>5. 0 \in 0 .. Len(seq)
  BY <1>0
<1> QED
  BY <1>3, <1>4, <1>5 DEF Solves

(* Two solutions on the same prefix agree at its end.                      *)
LEMMA SolvedOnce ==
    ASSUME NEW s, NEW t, NEW S, NEW m \in Nat, NEW n \in 0 .. m, NEW g, NEW h,
           NEW k \in Nat,
           Solves(g, s, S, m), Solves(h, t, S, k), m <= k,
           \A i \in 1 .. m : s[i] = t[i]
    PROVE  g[n] = h[n]
<1> DEFINE P == {i \in 0 .. m : g[i] = h[i]}
<1>1. 0 \in P
  BY DEF Solves
<1>2. ASSUME NEW i \in 0 .. m, i \in P, i < m
      PROVE  i + 1 \in P
  <2>1. i + 1 \in 1 .. m /\ i + 1 \in 1 .. k /\ (i + 1) - 1 = i
    BY <1>2
  <2>2. g[i + 1] = IF s[i + 1] \in S THEN Append(g[i], s[i + 1]) ELSE g[i]
    BY <2>1 DEF Solves
  <2>3. h[i + 1] = IF t[i + 1] \in S THEN Append(h[i], t[i + 1]) ELSE h[i]
    BY <2>1 DEF Solves
  <2>4. i + 1 \in 0 .. m
    BY <2>1
  <2> QED
    BY <1>2, <2>1, <2>2, <2>3, <2>4
<1> HIDE DEF P
<1>3. 0 .. m \subseteq P
  BY <1>1, <1>2, UpTo
<1> QED
  BY <1>3 DEF P

(* Keep, element by element.                                               *)
LEMMA KeepEmpty ==
    ASSUME NEW S
    PROVE  Keep(<<>>, S) = <<>>
<1>1. <<>> \in Seq({}) /\ Len(<<>>) = 0
  OBVIOUS
<1>2. Solves(Kept(<<>>, S), <<>>, S, 0)
  BY <1>1, KeptSolves
<1>3. Keep(<<>>, S) = Kept(<<>>, S)[0]
  BY <1>1, KeepIsKept
<1> QED
  BY <1>2, <1>3 DEF Solves

LEMMA KeepAppend ==
    ASSUME NEW T, NEW seq \in Seq(T), NEW e \in T, NEW S
    PROVE  Keep(Append(seq, e), S) =
              IF e \in S THEN Append(Keep(seq, S), e) ELSE Keep(seq, S)
<1> DEFINE more == Append(seq, e)
           m    == Len(seq)
<1>1. more \in Seq(T) /\ Len(more) = m + 1 /\ m \in Nat /\ more[m + 1] = e
  OBVIOUS
<1>2. \A i \in 1 .. m : seq[i] = more[i]
  OBVIOUS
<1> HIDE DEF more
<1>3. Solves(Kept(seq, S), seq, S, m)
  BY KeptSolves
<1>4. Solves(Kept(more, S), more, S, m + 1)
  BY <1>1, KeptSolves
<1> HIDE DEF m
<1>5. Kept(seq, S)[m] = Kept(more, S)[m]
  <2>1. m \in Nat /\ m \in 0 .. m /\ m <= m + 1 /\ m + 1 \in Nat
    BY <1>1
  <2> DEFINE g == Kept(seq, S)
             h == Kept(more, S)
  <2>2. Solves(g, seq, S, m) /\ Solves(h, more, S, m + 1)
    BY <1>3, <1>4
  <2> HIDE DEF g, h
  <2>3. g[m] = h[m]
    BY <1>2, <2>1, <2>2, SolvedOnce
  <2> QED
    BY <2>3 DEF g, h
<1>6. Kept(more, S)[m + 1] =
         IF e \in S THEN Append(Kept(more, S)[m], e) ELSE Kept(more, S)[m]
  <2>1. m + 1 \in 1 .. m + 1 /\ (m + 1) - 1 = m
    BY <1>1
  <2> QED
    BY <1>1, <1>4, <2>1 DEF Solves
<1>7. Keep(seq, S) = Kept(seq, S)[m]
  BY KeepIsKept DEF m
<1>8. Keep(more, S) = Kept(more, S)[m + 1]
  BY <1>1, KeepIsKept
<1> QED
  BY <1>5, <1>6, <1>7, <1>8 DEF more

(* What is kept are elements of seq that are in S, at most as many as seq  *)
(* has.                                                                    *)
LEMMA KeepType ==
    ASSUME NEW T, NEW seq \in Seq(T), NEW S
    PROVE  /\ Keep(seq, S) \in Seq(T \cap S)
           /\ Len(Keep(seq, S)) <= Len(seq)
<1> DEFINE P == {s \in Seq(T) : /\ Keep(s, S) \in Seq(T \cap S)
                                /\ Len(Keep(s, S)) <= Len(s)}
<1>1. <<>> \in P
  <2>1. <<>> \in Seq(T) /\ <<>> \in Seq(T \cap S)
    OBVIOUS
  <2>2. Keep(<<>>, S) = <<>> /\ Len(<<>>) <= Len(<<>>)
    BY KeepEmpty
  <2> QED
    BY <2>1, <2>2
<1>2. ASSUME NEW s \in Seq(T), NEW e \in T, s \in P
      PROVE  Append(s, e) \in P
  <2> DEFINE k == Keep(s, S)
  <2>1. Keep(Append(s, e), S) = IF e \in S THEN Append(k, e) ELSE k
    BY KeepAppend
  <2>2. k \in Seq(T \cap S) /\ Len(k) <= Len(s)
    BY <1>2
  <2>3. Append(s, e) \in Seq(T) /\ Len(Append(s, e)) = Len(s) + 1
    OBVIOUS
  <2>4. Len(k) \in Nat /\ Len(s) \in Nat
    BY <2>2
  <2> DEFINE k2 == Keep(Append(s, e), S)
  <2>5. k2 \in Seq(T \cap S) /\ Len(k2) <= Len(Append(s, e))
    <3> HIDE DEF k
    <3>1. CASE e \in S
      BY <2>1, <2>2, <2>3, <2>4, <3>1
    <3>2. CASE e \notin S
      BY <2>1, <2>2, <2>3, <2>4, <3>2
    <3> QED
      BY <3>1, <3>2
  <2> QED
    BY <2>3, <2>5
<1>3. Seq(T) \subseteq P
  <2> HIDE DEF P
  <2> QED
    BY <1>1, <1>2, BySequence
<1> QED
  BY <1>3

(***************************************************************************)
(* Where in seq the elements kept come from.                               *)
(***************************************************************************)
KeepsAt(f, seq, S) ==
    /\ DOMAIN f = 1 .. Len(Keep(seq, S))
    /\ \A i \in DOMAIN f : /\ f[i] \in 1 .. Len(seq) /\ i <= f[i]
                           /\ Keep(seq, S)[i] = seq[f[i]] /\ seq[f[i]] \in S
    /\ \A i, j \in DOMAIN f : i < j => f[i] < f[j]
    /\ \A k \in 1 .. Len(seq) : seq[k] \in S => \E i \in DOMAIN f : f[i] = k

(* They come from increasing positions, and all that are in S are kept.    *)
LEMMA KeepPositions ==
    ASSUME NEW T, NEW seq \in Seq(T), NEW S
    PROVE  \E f : KeepsAt(f, seq, S)
<1> DEFINE P == {s \in Seq(T) : \E f : KeepsAt(f, s, S)}
<1>1. <<>> \in P
  <2>1. <<>> \in Seq(T) /\ Keep(<<>>, S) = <<>> /\ Len(<<>>) = 0 /\ 1 .. 0 = {}
    BY KeepEmpty
  <2>2. KeepsAt([i \in 1 .. 0 |-> i], <<>>, S)
    BY <2>1 DEF KeepsAt
  <2> QED
    BY <2>1, <2>2
<1>2. ASSUME NEW s \in Seq(T), NEW e \in T, s \in P
      PROVE  Append(s, e) \in P
  <2> DEFINE k == Keep(s, S)
             t == Append(s, e)
  <2>1. PICK f : KeepsAt(f, s, S)
    BY <1>2
  <2>2. Keep(t, S) = IF e \in S THEN Append(k, e) ELSE k
    BY KeepAppend
  <2>3. k \in Seq(T \cap S) /\ Len(k) <= Len(s) /\ Len(k) \in Nat
    BY KeepType
  <2>4. /\ t \in Seq(T) /\ Len(t) = Len(s) + 1 /\ Len(s) \in Nat
        /\ t[Len(s) + 1] = e /\ \A i \in 1 .. Len(s) : t[i] = s[i]
    OBVIOUS
  <2> HIDE DEF k, t
  <2>5. CASE e \notin S
    <3>1. Keep(t, S) = k
      BY <2>2, <2>5
    <3>2. \A j \in 1 .. Len(t) : t[j] \in S => j \in 1 .. Len(s) /\ s[j] \in S
      BY <2>4, <2>5
    <3>3. \A i \in 1 .. Len(s) : i \in 1 .. Len(t)
      BY <2>4
    <3>4. KeepsAt(f, t, S)
      BY <2>1, <2>4, <3>1, <3>2, <3>3 DEF KeepsAt, k
    <3> QED
      BY <2>4, <3>4 DEF t
  <2>6. CASE e \in S
    <3> DEFINE m == Len(k) + 1
               g == [i \in 1 .. m |-> IF i < m THEN f[i] ELSE Len(s) + 1]
    <3>1. /\ Keep(t, S) = Append(k, e) /\ Len(Keep(t, S)) = m
          /\ Append(k, e)[m] = e /\ \A i \in 1 .. Len(k) : Append(k, e)[i] = k[i]
      BY <2>2, <2>3, <2>6
    <3>2. DOMAIN f = 1 .. Len(k)
      BY <2>1 DEF KeepsAt, k
    <3>3. \A i \in 1 .. m : \/ i \in 1 .. Len(k) /\ i < m /\ g[i] = f[i]
                            \/ i = m /\ g[i] = Len(s) + 1
      BY <2>3
    <3>4. DOMAIN g = 1 .. m /\ m \in 1 .. m /\ \A i \in 1 .. Len(k) : i \in 1 .. m
      BY <2>3
    <3> HIDE DEF g, m
    <3>5. ASSUME NEW i \in 1 .. m
          PROVE  /\ g[i] \in 1 .. Len(t) /\ i <= g[i]
                 /\ Keep(t, S)[i] = t[g[i]] /\ t[g[i]] \in S
      <4>1. CASE i \in 1 .. Len(k) /\ g[i] = f[i]
        <5>1. /\ f[i] \in 1 .. Len(s) /\ i <= f[i]
              /\ k[i] = s[f[i]] /\ s[f[i]] \in S
          BY <2>1, <3>2, <4>1 DEF KeepsAt, k
        <5> QED
          BY <2>4, <3>1, <4>1, <5>1
      <4>2. CASE i = m /\ g[i] = Len(s) + 1
        BY <2>3, <2>4, <2>6, <3>1, <4>2 DEF m
      <4> QED
        BY <3>3, <4>1, <4>2
    <3>6. ASSUME NEW i \in 1 .. m, NEW j \in 1 .. m, i < j
          PROVE  g[i] < g[j]
      <4>1. i \in 1 .. Len(k) /\ g[i] = f[i] /\ f[i] \in 1 .. Len(s)
        <5>1. i # m
          BY <3>6, <2>3 DEF m
        <5>2. i \in 1 .. Len(k) /\ g[i] = f[i]
          BY <3>3, <5>1
        <5> QED
          BY <2>1, <3>2, <5>2 DEF KeepsAt
      <4>2. CASE j = m
        BY <2>4, <3>3, <4>1, <4>2
      <4>3. CASE j # m
        <5>1. j \in 1 .. Len(k) /\ g[j] = f[j]
          BY <3>3, <4>3
        <5> QED
          BY <2>1, <3>2, <3>6, <4>1, <5>1 DEF KeepsAt
      <4> QED
        BY <4>2, <4>3
    <3>7. ASSUME NEW j \in 1 .. Len(t), t[j] \in S
          PROVE  \E i \in 1 .. m : g[i] = j
      <4>1. CASE j = Len(s) + 1
        <5>1. g[m] = Len(s) + 1
          BY <2>3, <3>3, <3>4 DEF m
        <5> QED
          BY <3>4, <4>1, <5>1
      <4>2. CASE j # Len(s) + 1
        <5>1. j \in 1 .. Len(s) /\ s[j] \in S
          BY <2>4, <3>7, <4>2
        <5>2. PICK i \in 1 .. Len(k) : f[i] = j
          BY <2>1, <3>2, <5>1 DEF KeepsAt
        <5>3. i # m
          BY <2>3, <5>2 DEF m
        <5> QED
          BY <3>3, <3>4, <5>2, <5>3
      <4> QED
        BY <4>1, <4>2
    <3>8. KeepsAt(g, t, S)
      BY <3>1, <3>4, <3>5, <3>6, <3>7 DEF KeepsAt
    <3> QED
      BY <2>4, <3>8 DEF t
  <2> QED
    BY <2>5, <2>6 DEF t
<1> HIDE DEF P
<1>3. Seq(T) \subseteq P
  BY <1>1, <1>2, BySequence
<1> QED
  BY <1>3 DEF P

(* So the elements kept are those of seq that are in S, ...                *)
LEMMA KeepHolds ==
    ASSUME NEW T, NEW seq \in Seq(T), NEW S
    PROVE  /\ \A i \in DOMAIN Keep(seq, S) :
                 Keep(seq, S)[i] \in S /\ \E k \in DOMAIN seq : seq[k] = Keep(seq, S)[i]
           /\ \A k \in DOMAIN seq :
                 seq[k] \in S => \E i \in DOMAIN Keep(seq, S) : Keep(seq, S)[i] = seq[k]
<1>1. PICK f : KeepsAt(f, seq, S)
  BY KeepPositions
<1>2. Keep(seq, S) \in Seq(T \cap S)
  BY KeepType
<1>3. DOMAIN Keep(seq, S) = DOMAIN f /\ DOMAIN seq = 1 .. Len(seq)
  BY <1>1, <1>2 DEF KeepsAt
<1> QED
  BY <1>1, <1>3 DEF KeepsAt

(* ... in the same order.                                                  *)
LEMMA KeepAscends ==
    ASSUME NEW seq \in Seq(Nat), NEW S,
           \A i, j \in DOMAIN seq : i < j => seq[i] < seq[j]
    PROVE  \A i, j \in DOMAIN Keep(seq, S) :
              i < j => Keep(seq, S)[i] < Keep(seq, S)[j]
<1>1. PICK f : KeepsAt(f, seq, S)
  BY KeepPositions
<1>2. Keep(seq, S) \in Seq(Nat \cap S)
  BY KeepType
<1>3. DOMAIN Keep(seq, S) = DOMAIN f /\ DOMAIN seq = 1 .. Len(seq)
  BY <1>1, <1>2 DEF KeepsAt
<1> QED
  BY <1>1, <1>3 DEF KeepsAt

(* Keeping twice is keeping what is in both sets; ...                      *)
LEMMA KeepBoth ==
    ASSUME NEW T, NEW seq \in Seq(T), NEW R, NEW S
    PROVE  Keep(Keep(seq, R), S) = Keep(seq, R \cap S)
<1> DEFINE P == {s \in Seq(T) : Keep(Keep(s, R), S) = Keep(s, R \cap S)}
<1>1. <<>> \in P
  <2>1. <<>> \in Seq(T) /\ Keep(<<>>, R) = <<>> /\ Keep(<<>>, S) = <<>>
        /\ Keep(<<>>, R \cap S) = <<>>
    BY KeepEmpty
  <2> QED
    BY <2>1
<1>2. ASSUME NEW s \in Seq(T), NEW e \in T, s \in P
      PROVE  Append(s, e) \in P
  <2> DEFINE k == Keep(s, R)
             both == R \cap S
  <2>1. k \in Seq(T)
    <3>1. k \in Seq(T \cap R)
      BY KeepType
    <3> QED
      BY <3>1
  <2>2. Keep(Append(s, e), R) = IF e \in R THEN Append(k, e) ELSE k
    BY KeepAppend
  <2>3. Keep(k, S) = Keep(s, both)
    BY <1>2
  <2>4. e \in both <=> e \in R /\ e \in S
    OBVIOUS
  <2> HIDE DEF k, both
  <2>5. Keep(Append(k, e), S) = IF e \in S THEN Append(Keep(k, S), e) ELSE Keep(k, S)
    BY <2>1, KeepAppend
  <2>6. Keep(Append(s, e), both) = IF e \in both THEN Append(Keep(s, both), e) ELSE Keep(s, both)
    BY KeepAppend
  <2>7. Append(s, e) \in Seq(T)
    OBVIOUS
  <2>8. Keep(Keep(Append(s, e), R), S) = Keep(Append(s, e), both)
    BY <2>2, <2>3, <2>4, <2>5, <2>6
  <2> QED
    BY <2>7, <2>8 DEF both
<1> HIDE DEF P
<1>3. Seq(T) \subseteq P
  BY <1>1, <1>2, BySequence
<1> QED
  BY <1>3 DEF P

(* ... and a list that keeps its length stays as it is.                    *)
LEMMA KeepSame ==
    ASSUME NEW T, NEW seq \in Seq(T), NEW S, Len(Keep(seq, S)) >= Len(seq)
    PROVE  Keep(seq, S) = seq
<1> DEFINE P == {s \in Seq(T) : Len(Keep(s, S)) >= Len(s) => Keep(s, S) = s}
<1>1. <<>> \in P
  <2>1. <<>> \in Seq(T) /\ Keep(<<>>, S) = <<>>
    BY KeepEmpty
  <2> QED
    BY <2>1
<1>2. ASSUME NEW s \in Seq(T), NEW e \in T, s \in P
      PROVE  Append(s, e) \in P
  <2> DEFINE k == Keep(s, S)
  <2>1. k \in Seq(T \cap S) /\ Len(k) <= Len(s)
    BY KeepType
  <2>2. Keep(Append(s, e), S) = IF e \in S THEN Append(k, e) ELSE k
    BY KeepAppend
  <2>3. Len(k) >= Len(s) => k = s
    BY <1>2
  <2> HIDE DEF k
  <2>4. k \in Seq(T)
    BY <2>1
  <2>5. Append(s, e) \in Seq(T) /\ Len(Append(s, e)) = Len(s) + 1 /\ Len(s) \in Nat
    OBVIOUS
  <2>6. Len(Append(k, e)) = Len(k) + 1 /\ Len(k) \in Nat
    BY <2>4
  <2>7. Len(Keep(Append(s, e), S)) >= Len(Append(s, e)) => Keep(Append(s, e), S) = Append(s, e)
    BY <2>1, <2>2, <2>3, <2>5, <2>6
  <2> QED
    BY <2>5, <2>7
<1> HIDE DEF P
<1>3. Seq(T) \subseteq P
  BY <1>1, <1>2, BySequence
<1> QED
  BY <1>3 DEF P

(* What is kept depends on a set's elements in the list only; ...          *)
LEMMA KeepAgree ==
    ASSUME NEW T, NEW seq \in Seq(T), NEW R, NEW S,
           \A k \in DOMAIN seq : seq[k] \in R <=> seq[k] \in S
    PROVE  Keep(seq, R) = Keep(seq, S)
<1> DEFINE P == {s \in Seq(T) : (\A k \in DOMAIN s : s[k] \in R <=> s[k] \in S)
                                   => Keep(s, R) = Keep(s, S)}
<1>1. <<>> \in P
  <2>1. <<>> \in Seq(T) /\ Keep(<<>>, R) = <<>> /\ Keep(<<>>, S) = <<>>
    BY KeepEmpty
  <2> QED
    BY <2>1
<1>2. ASSUME NEW s \in Seq(T), NEW e \in T, s \in P
      PROVE  Append(s, e) \in P
  <2> DEFINE more == Append(s, e)
             n == Len(s)
  <2>1. /\ more \in Seq(T) /\ n \in Nat /\ DOMAIN s = 1 .. n /\ DOMAIN more = 1 .. n + 1
        /\ more[n + 1] = e /\ \A k \in 1 .. n : more[k] = s[k]
    OBVIOUS
  <2>2. Keep(more, R) = IF e \in R THEN Append(Keep(s, R), e) ELSE Keep(s, R)
    BY KeepAppend
  <2>3. Keep(more, S) = IF e \in S THEN Append(Keep(s, S), e) ELSE Keep(s, S)
    BY KeepAppend
  <2>4. (\A k \in DOMAIN s : s[k] \in R <=> s[k] \in S) => Keep(s, R) = Keep(s, S)
    BY <1>2
  <2> HIDE DEF more, n
  <2>5. ASSUME \A k \in DOMAIN more : more[k] \in R <=> more[k] \in S
        PROVE  Keep(more, R) = Keep(more, S)
    <3>1. \A k \in DOMAIN s : s[k] \in R <=> s[k] \in S
      <4>1. \A k \in 1 .. n : k \in 1 .. n + 1
        BY <2>1
      <4> QED
        BY <2>1, <2>5, <4>1
    <3>2. e \in R <=> e \in S
      <4>1. n + 1 \in 1 .. n + 1
        BY <2>1
      <4> QED
        BY <2>1, <2>5, <4>1
    <3> QED
      BY <2>2, <2>3, <2>4, <3>1, <3>2
  <2> QED
    BY <2>1, <2>5 DEF more
<1> HIDE DEF P
<1>3. Seq(T) \subseteq P
  BY <1>1, <1>2, BySequence
<1> QED
  BY <1>3 DEF P

(* ... of a list that ends in another, what is kept of the two; ...        *)
LEMMA KeepConcat ==
    ASSUME NEW T, NEW seq \in Seq(T), NEW end \in Seq(T), NEW S
    PROVE  Keep(seq \o end, S) = Keep(seq, S) \o Keep(end, S)
<1> DEFINE k == Keep(seq, S)
           P == {t \in Seq(T) : Keep(seq \o t, S) = k \o Keep(t, S)}
<1>0. k \in Seq(T)
  <2>1. k \in Seq(T \cap S)
    BY KeepType
  <2> QED
    BY <2>1
<1>1. <<>> \in P
  <2>1. <<>> \in Seq(T) /\ Keep(<<>>, S) = <<>>
    BY KeepEmpty
  <2>2. seq \o <<>> = seq
    OBVIOUS
  <2> HIDE DEF k
  <2>3. k \o <<>> = k
    BY <1>0
  <2>4. Keep(seq, S) = k
    BY DEF k
  <2> QED
    BY <2>1, <2>2, <2>3, <2>4
<1>2. ASSUME NEW t \in Seq(T), NEW e \in T, t \in P
      PROVE  Append(t, e) \in P
  <2> DEFINE kt == Keep(t, S)
             both == seq \o t
  <2>1. kt \in Seq(T)
    <3>1. kt \in Seq(T \cap S)
      BY KeepType
    <3> QED
      BY <3>1
  <2>2. both \in Seq(T) /\ seq \o Append(t, e) = Append(both, e) /\ Append(t, e) \in Seq(T)
    OBVIOUS
  <2>3. Keep(Append(t, e), S) = IF e \in S THEN Append(kt, e) ELSE kt
    BY KeepAppend
  <2>4. Keep(both, S) = k \o kt
    BY <1>2
  <2> HIDE DEF both, kt, k
  <2>5. Keep(Append(both, e), S) = IF e \in S THEN Append(Keep(both, S), e) ELSE Keep(both, S)
    BY <2>2, KeepAppend
  <2>6. k \o Append(kt, e) = Append(k \o kt, e)
    BY <1>0, <2>1
  <2>7. Keep(seq \o Append(t, e), S) = k \o Keep(Append(t, e), S)
    BY <2>2, <2>3, <2>4, <2>5, <2>6
  <2> QED
    BY <2>2, <2>7
<1> HIDE DEF P
<1>3. Seq(T) \subseteq P
  BY <1>1, <1>2, BySequence
<1> QED
  BY <1>3 DEF P

(* ... nothing where nothing is in the set, and the one element where one  *)
(* is.                                                                     *)
LEMMA KeepNone ==
    ASSUME NEW T, NEW seq \in Seq(T), NEW S, \A k \in DOMAIN seq : seq[k] \notin S
    PROVE  Keep(seq, S) = <<>>
<1>1. Keep(seq, S) \in Seq(T)
  <2>1. Keep(seq, S) \in Seq(T \cap S)
    BY KeepType
  <2> QED
    BY <2>1
<1>2. \A i \in DOMAIN Keep(seq, S) : FALSE
  BY KeepHolds
<1>3. \A s \in Seq(T) : (\A i \in DOMAIN s : FALSE) => s = <<>>
  <2>1. ASSUME NEW s \in Seq(T), s # <<>> PROVE 1 \in DOMAIN s
    BY <2>1
  <2> QED
    BY <2>1
<1> QED
  BY <1>1, <1>2, <1>3

LEMMA KeepOne ==
    ASSUME NEW T, NEW seq \in Seq(T), NEW S, NEW i \in DOMAIN seq,
           \A k \in DOMAIN seq : seq[k] \in S <=> k = i
    PROVE  Keep(seq, S) = <<seq[i]>>
<1> DEFINE P == {s \in Seq(T) : \A j \in DOMAIN s :
                    (\A k \in DOMAIN s : s[k] \in S <=> k = j) => Keep(s, S) = <<s[j]>>}
<1>1. <<>> \in P
  OBVIOUS
<1>2. ASSUME NEW s \in Seq(T), NEW e \in T, s \in P
      PROVE  Append(s, e) \in P
  <2> DEFINE more == Append(s, e)
             n == Len(s)
  <2>1. /\ more \in Seq(T) /\ n \in Nat /\ DOMAIN s = 1 .. n /\ DOMAIN more = 1 .. n + 1
        /\ more[n + 1] = e /\ \A k \in 1 .. n : more[k] = s[k]
    OBVIOUS
  <2>2. Keep(more, S) = IF e \in S THEN Append(Keep(s, S), e) ELSE Keep(s, S)
    BY KeepAppend
  <2>3. Append(<<>>, e) = <<e>>
    OBVIOUS
  <2> HIDE DEF more, n
  <2>4. ASSUME NEW j \in 1 .. n + 1, \A k \in 1 .. n + 1 : more[k] \in S <=> k = j
        PROVE  Keep(more, S) = <<more[j]>>
    <3>1. \A k \in 1 .. n : k \in 1 .. n + 1 /\ (s[k] \in S <=> k = j)
      BY <2>1, <2>4
    <3>2. e \in S <=> n + 1 = j
      BY <2>1, <2>4
    <3>3. CASE j = n + 1
      <4>1. \A k \in DOMAIN s : s[k] \notin S
        BY <2>1, <3>1, <3>3
      <4>2. Keep(s, S) = <<>>
        BY <4>1, KeepNone
      <4> QED
        BY <2>1, <2>2, <2>3, <3>2, <3>3, <4>2
    <3>4. CASE j # n + 1
      <4>1. j \in DOMAIN s /\ e \notin S
        BY <2>1, <3>2, <3>4
      <4>2. \A k \in DOMAIN s : s[k] \in S <=> k = j
        BY <2>1, <3>1
      <4>3. Keep(s, S) = <<s[j]>>
        BY <1>2, <4>1, <4>2
      <4> QED
        BY <2>1, <2>2, <4>1, <4>3
    <3> QED
      BY <3>3, <3>4
  <2>5. \A j \in DOMAIN more :
           (\A k \in DOMAIN more : more[k] \in S <=> k = j) => Keep(more, S) = <<more[j]>>
    BY <2>1, <2>4
  <2> QED
    BY <2>1, <2>5 DEF more
<1> HIDE DEF P
<1>3. Seq(T) \subseteq P
  BY <1>1, <1>2, BySequence
<1> QED
  BY <1>3 DEF P

(***************************************************************************)
(* Sums.  SumFunction adds up a function over its domain, one element      *)
(* after the other, in an order of its own.                                *)
(***************************************************************************)
AnyOf(s) == CHOOSE x \in s : TRUE

(* Induction over finite sets along that order.                            *)
LEMMA BySubset ==
    ASSUME NEW S, IsFiniteSet(S), NEW P, {} \in P,
           \A s \in SUBSET S : s # {} /\ s \ {AnyOf(s)} \in P => s \in P
    PROVE  SUBSET S \subseteq P
<1> DEFINE N == Cardinality(S)
           Q == {n \in 0 .. N : \A s \in SUBSET S : Cardinality(s) = n => s \in P}
<1>1. ASSUME NEW s \in SUBSET S
      PROVE  IsFiniteSet(s) /\ Cardinality(s) \in 0 .. N
  <2>1. IsFiniteSet(s) /\ Cardinality(s) <= N
    BY FS_Subset
  <2>2. Cardinality(s) \in Nat /\ N \in Nat
    BY <2>1, FS_CardinalityType
  <2> QED
    BY <2>1, <2>2
<1>2. N \in Nat
  BY FS_CardinalityType
<1>3. 0 \in Q
  <2>1. \A s \in SUBSET S : Cardinality(s) = 0 => s = {}
    BY <1>1, FS_EmptySet
  <2>2. \A s \in SUBSET S : Cardinality(s) = 0 => s \in P
    BY <2>1
  <2>3. 0 \in 0 .. N
    BY <1>2
  <2> HIDE DEF N
  <2> QED
    BY <2>2, <2>3
<1>4. ASSUME NEW n \in 0 .. N, n \in Q /\ n < N
      PROVE  n + 1 \in Q
  <2>1. n + 1 \in 0 .. N
    BY <1>2, <1>4
  <2>2. ASSUME NEW s \in SUBSET S, Cardinality(s) = n + 1
        PROVE  s \in P
    <3>1. s # {} /\ IsFiniteSet(s)
      BY <1>1, <2>2, FS_EmptySet
    <3> DEFINE t == s \ {AnyOf(s)}
    <3>2. AnyOf(s) \in s
      BY <3>1 DEF AnyOf
    <3>3. Cardinality(t) = n /\ t \in SUBSET S
      <4>1. Cardinality(t) = Cardinality(s) - 1
        BY <3>1, <3>2, FS_RemoveElement
      <4>2. n \in Nat
        BY <1>2
      <4> QED
        BY <2>2, <4>1, <4>2
    <3>4. t \in P
      BY <1>4, <3>3
    <3> QED
      BY <3>1, <3>4
  <2> QED
    BY <2>1, <2>2
<1>5. 0 .. N \subseteq Q
  <2> HIDE DEF Q, N
  <2> QED
    BY <1>2, <1>3, <1>4, UpTo
<1> QED
  BY <1>1, <1>5

(* g has the sum of f over every part of S.                                *)
SumsUp(g, f, S) ==
    /\ g \in [SUBSET S -> Nat]
    /\ g[{}] = 0
    /\ \A s \in SUBSET S : s # {} => g[s] = f[AnyOf(s)] + g[s \ {AnyOf(s)}]

(* A sum counts marks, as many on each element as the function says.       *)
MarksOn(f, x) == {x} \X (1 .. f[x])
Marks(f, s) == UNION {MarksOn(f, x) : x \in s}

LEMMA MarksOnOne ==
    ASSUME NEW S, NEW f \in [S -> Nat], NEW x \in S
    PROVE  IsFiniteSet(MarksOn(f, x)) /\ Cardinality(MarksOn(f, x)) = f[x]
<1>1. f[x] \in Nat /\ 1 \in Int /\ f[x] \in Int
  OBVIOUS
<1>2. IsFiniteSet(1 .. f[x]) /\ Cardinality(1 .. f[x]) = IF 1 > f[x] THEN 0 ELSE f[x] - 1 + 1
  BY <1>1, FS_Interval
<1>3. Cardinality(1 .. f[x]) = f[x]
  BY <1>1, <1>2
<1>4. IsFiniteSet({x}) /\ Cardinality({x}) = 1
  BY FS_Singleton
<1>5. /\ IsFiniteSet({x} \X (1 .. f[x]))
      /\ Cardinality({x} \X (1 .. f[x])) = Cardinality({x}) * Cardinality(1 .. f[x])
  BY <1>2, <1>4, FS_Product
<1> QED
  BY <1>1, <1>3, <1>4, <1>5 DEF MarksOn

LEMMA MarksAdd ==
    ASSUME NEW S, NEW f \in [S -> Nat], NEW s \in SUBSET S, NEW x \in s,
           IsFiniteSet(Marks(f, s \ {x}))
    PROVE  /\ IsFiniteSet(Marks(f, s))
           /\ Cardinality(Marks(f, s)) = f[x] + Cardinality(Marks(f, s \ {x}))
<1> DEFINE A == MarksOn(f, x)
           B == Marks(f, s \ {x})
<1>1. Marks(f, s) = A \cup B
  <2>1. {MarksOn(f, y) : y \in s} = {A} \cup {MarksOn(f, y) : y \in s \ {x}}
    OBVIOUS
  <2> HIDE DEF A
  <2> QED
    BY <2>1 DEF Marks
<1>2. A \cap B = {}
  BY DEF Marks, MarksOn
<1>3. IsFiniteSet(A) /\ Cardinality(A) = f[x] /\ f[x] \in Nat
  BY MarksOnOne
<1>4. IsFiniteSet(B) /\ Cardinality(B) \in Nat
  BY FS_CardinalityType
<1> HIDE DEF A, B
<1>5. IsFiniteSet(A \cup B)
      /\ Cardinality(A \cup B) = Cardinality(A) + Cardinality(B) - Cardinality(A \cap B)
  BY <1>3, <1>4, FS_Union
<1>6. Cardinality(A \cap B) = 0
  BY <1>2, FS_EmptySet
<1>7. Cardinality(A \cup B) = f[x] + Cardinality(B)
  BY <1>3, <1>4, <1>5, <1>6
<1> QED
  BY <1>1, <1>5, <1>7 DEF B

LEMMA SumSolvable ==
    ASSUME NEW S, IsFiniteSet(S), NEW f \in [S -> Nat]
    PROVE  \E g : SumsUp(g, f, S)
<1> DEFINE P == {s \in SUBSET S : IsFiniteSet(Marks(f, s))}
<1>1. Marks(f, {}) = {}
  BY DEF Marks
<1>2. \A s \in SUBSET S : s # {} => AnyOf(s) \in s
  BY DEF AnyOf
<1>3. SUBSET S \subseteq P
  <2>1. {} \in P
    BY <1>1, FS_EmptySet
  <2>2. ASSUME NEW s \in SUBSET S, s # {}, s \ {AnyOf(s)} \in P
        PROVE  s \in P
    BY <1>2, <2>2, MarksAdd
  <2> HIDE DEF P
  <2> QED
    BY <2>1, <2>2, BySubset
<1>4. ASSUME NEW s \in SUBSET S
      PROVE  IsFiniteSet(Marks(f, s)) /\ Cardinality(Marks(f, s)) \in Nat
  BY <1>3, FS_CardinalityType
<1> DEFINE g == [s \in SUBSET S |-> Cardinality(Marks(f, s))]
<1>5. g \in [SUBSET S -> Nat]
  BY <1>4
<1>6. g[{}] = 0
  BY <1>1, FS_EmptySet
<1>7. ASSUME NEW s \in SUBSET S, s # {}
      PROVE  g[s] = f[AnyOf(s)] + g[s \ {AnyOf(s)}]
  <2>1. s \ {AnyOf(s)} \in SUBSET S /\ AnyOf(s) \in s
    BY <1>2, <1>7
  <2>2. IsFiniteSet(Marks(f, s \ {AnyOf(s)}))
    BY <1>4, <2>1
  <2>3. Cardinality(Marks(f, s)) = f[AnyOf(s)] + Cardinality(Marks(f, s \ {AnyOf(s)}))
    BY <2>1, <2>2, MarksAdd
  <2> QED
    BY <2>1, <2>3
<1> HIDE DEF g
<1> QED
  BY <1>5, <1>6, <1>7 DEF SumsUp

LEMMA SumIsSummed ==
    ASSUME NEW S, IsFiniteSet(S), NEW f \in [S -> Nat]
    PROVE  \E g : SumsUp(g, f, S) /\ SumFunction(f) = g[S]
<1> DEFINE F(k) == [s \in SUBSET S |->
                      IF s = {} THEN 0 ELSE f[AnyOf(s)] + k[s \ {AnyOf(s)}]]
           g == CHOOSE k : k = F(k)
<1>1. SumFunction(f) = g[S]
  BY DEF SumFunction, SumFunctionOnSet, FoldFunctionOnSet, MapThenFoldSet, AnyOf
<1>2. PICK r : SumsUp(r, f, S)
  BY SumSolvable
<1>3. r = F(r)
  BY <1>2 DEF SumsUp
<1>4. g = F(g)
  BY <1>3
<1> HIDE DEF g
<1>5. DOMAIN g = SUBSET S /\ g[{}] = 0
      /\ \A s \in SUBSET S : s # {} => g[s] = f[AnyOf(s)] + g[s \ {AnyOf(s)}]
  BY <1>4
<1>6. \A s \in SUBSET S : s # {} => AnyOf(s) \in s
  BY DEF AnyOf
<1>7. \A s \in SUBSET S : g[s] \in Nat
  <2> DEFINE P == {s \in SUBSET S : g[s] \in Nat}
  <2>1. {} \in P
    BY <1>5
  <2>2. ASSUME NEW s \in SUBSET S, s # {}, s \ {AnyOf(s)} \in P
        PROVE  s \in P
    BY <1>5, <1>6, <2>2
  <2>3. SUBSET S \subseteq P
    <3> HIDE DEF P
    <3> QED
      BY <2>1, <2>2, BySubset
  <2> QED
    BY <2>3
<1> QED
  BY <1>1, <1>4, <1>5, <1>7 DEF SumsUp

LEMMA SumType ==
    ASSUME NEW S, IsFiniteSet(S), NEW f \in [S -> Nat]
    PROVE  SumFunction(f) \in Nat
<1>1. PICK g : SumsUp(g, f, S) /\ SumFunction(f) = g[S]
  BY SumIsSummed
<1> QED
  BY <1>1 DEF SumsUp

(* The sum of a pointwise sum.                                             *)
LEMMA SumAdds ==
    ASSUME NEW S, IsFiniteSet(S), NEW f \in [S -> Nat], NEW g \in [S -> Nat],
           NEW h \in [S -> Nat], \A x \in S : h[x] = f[x] + g[x]
    PROVE  SumFunction(h) = SumFunction(f) + SumFunction(g)
<1>1. PICK sf : SumsUp(sf, f, S) /\ SumFunction(f) = sf[S]
  BY SumIsSummed
<1>2. PICK sg : SumsUp(sg, g, S) /\ SumFunction(g) = sg[S]
  BY SumIsSummed
<1>3. PICK sh : SumsUp(sh, h, S) /\ SumFunction(h) = sh[S]
  BY SumIsSummed
<1> DEFINE P == {s \in SUBSET S : sh[s] = sf[s] + sg[s]}
<1>4. {} \in P
  BY <1>1, <1>2, <1>3 DEF SumsUp
<1>5. ASSUME NEW s \in SUBSET S, s # {}, s \ {AnyOf(s)} \in P
      PROVE  s \in P
  <2> DEFINE x == AnyOf(s)
             t == s \ {x}
  <2>1. x \in S /\ t \in SUBSET S
    BY <1>5 DEF AnyOf
  <2>2. sf[s] = f[x] + sf[t] /\ sg[s] = g[x] + sg[t] /\ sh[s] = h[x] + sh[t]
    BY <1>1, <1>2, <1>3, <1>5 DEF SumsUp
  <2>3. sh[t] = sf[t] + sg[t]
    BY <1>5
  <2>4. sf[t] \in Nat /\ sg[t] \in Nat /\ f[x] \in Nat /\ g[x] \in Nat /\ h[x] = f[x] + g[x]
    BY <1>1, <1>2, <2>1 DEF SumsUp
  <2>5. sh[s] = sf[s] + sg[s]
    <3> HIDE DEF x, t
    <3> QED
      BY <2>2, <2>3, <2>4
  <2> QED
    BY <2>5
<1>6. SUBSET S \subseteq P
  <2> HIDE DEF P
  <2> QED
    BY <1>4, <1>5, BySubset
<1> QED
  BY <1>1, <1>2, <1>3, <1>6

(* The sum of ones.                                                        *)
Ones(S, M) == [x \in S |-> IF x \in M THEN 1 ELSE 0]

LEMMA SumOfOnes ==
    ASSUME NEW S, IsFiniteSet(S), NEW M \in SUBSET S
    PROVE  SumFunction(Ones(S, M)) = Cardinality(M)
<1>1. Ones(S, M) \in [S -> Nat] /\ \A x \in S : Ones(S, M)[x] = IF x \in M THEN 1 ELSE 0
  BY DEF Ones
<1>2. PICK g : SumsUp(g, Ones(S, M), S) /\ SumFunction(Ones(S, M)) = g[S]
  BY <1>1, SumIsSummed
<1> DEFINE P == {s \in SUBSET S : g[s] = Cardinality(s \cap M)}
<1>3. {} \in P
  <2>1. {} \cap M = {} /\ Cardinality({}) = 0
    BY FS_EmptySet
  <2> QED
    BY <1>2, <2>1 DEF SumsUp
<1>4. ASSUME NEW s \in SUBSET S, s # {}, s \ {AnyOf(s)} \in P
      PROVE  s \in P
  <2> DEFINE x == AnyOf(s)
             t == s \ {x}
  <2>1. x \in s /\ x \in S /\ t \in SUBSET S
    BY <1>4 DEF AnyOf
  <2>2. g[s] = Ones(S, M)[x] + g[t] /\ g[t] = Cardinality(t \cap M)
    BY <1>2, <1>4 DEF SumsUp
  <2> HIDE DEF x
  <2>3. IsFiniteSet(t \cap M) /\ Cardinality(t \cap M) \in Nat
    <3>1. t \cap M \in SUBSET S
      OBVIOUS
    <3>2. IsFiniteSet(t \cap M)
      BY <3>1, FS_Subset
    <3> QED
      BY <3>2, FS_CardinalityType
  <2>4. CASE x \in M
    <3>1. s \cap M = (t \cap M) \cup {x} /\ x \notin t \cap M
      BY <2>1, <2>4
    <3>2. Cardinality((t \cap M) \cup {x}) = Cardinality(t \cap M) + 1
      BY <2>3, <3>1, FS_AddElement
    <3>3. Ones(S, M)[x] = 1
      BY <1>1, <2>1, <2>4
    <3> DEFINE m == Cardinality(t \cap M)
               n == Cardinality(s \cap M)
    <3>4. m \in Nat /\ g[t] = m /\ n = m + 1
      BY <2>2, <2>3, <3>1, <3>2
    <3>5. g[s] = n
      <4> HIDE DEF m, n, t
      <4> QED
        BY <2>2, <3>3, <3>4
    <3> QED
      BY <3>5
  <2>5. CASE x \notin M
    <3>1. s \cap M = t \cap M
      BY <2>1, <2>5
    <3>2. Ones(S, M)[x] = 0
      BY <1>1, <2>1, <2>5
    <3> DEFINE m == Cardinality(t \cap M)
               n == Cardinality(s \cap M)
    <3>3. m \in Nat /\ g[t] = m /\ n = m
      BY <2>2, <2>3, <3>1
    <3>4. g[s] = n
      <4> HIDE DEF m, n, t
      <4> QED
        BY <2>2, <3>2, <3>3
    <3> QED
      BY <3>4
  <2> QED
    BY <2>4, <2>5
<1>5. SUBSET S \subseteq P
  <2> HIDE DEF P
  <2> QED
    BY <1>3, <1>4, BySubset
<1>6. S \cap M = M
  OBVIOUS
<1> QED
  BY <1>2, <1>5, <1>6

LEMMA SumOfZeros ==
    ASSUME NEW S, IsFiniteSet(S)
    PROVE  SumFunction([x \in S |-> 0]) = 0
<1>1. [x \in S |-> 0] = Ones(S, {})
  BY DEF Ones
<1>2. {} \in SUBSET S
  OBVIOUS
<1> QED
  BY <1>1, <1>2, SumOfOnes, FS_EmptySet

(* One value grows by one.                                                 *)
LEMMA SumGrows ==
    ASSUME NEW S, IsFiniteSet(S), NEW f \in [S -> Nat], NEW g \in [S -> Nat], NEW x \in S,
           g[x] = f[x] + 1, \A y \in S \ {x} : g[y] = f[y]
    PROVE  SumFunction(g) = SumFunction(f) + 1
<1> DEFINE one == Ones(S, {x})
<1>1. one \in [S -> Nat] /\ {x} \in SUBSET S
  BY DEF Ones
<1>2. \A y \in S : g[y] = f[y] + one[y]
  BY DEF Ones
<1>3. SumFunction(one) = 1
  <2>1. SumFunction(Ones(S, {x})) = Cardinality({x})
    BY <1>1, SumOfOnes
  <2>2. Cardinality({x}) = 1
    BY FS_Singleton
  <2> QED
    BY <2>1, <2>2
<1>4. SumFunction(g) = SumFunction(f) + SumFunction(one)
  <2> HIDE DEF one
  <2> QED
    BY <1>1, <1>2, SumAdds
<1> QED
  BY <1>3, <1>4
==============================================================================
