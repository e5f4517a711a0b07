---------------------------- MODULE SequenceLemmas ----------------------------
(***************************************************************************)
(* What the operators on sequences return, step by step: Only, which keeps *)
(* some items of a sequence, and FlattenSeq, which joins sequences.  Both  *)
(* are defined by recursive functions, so the lemmas rest on two facts     *)
(* about such functions: there is one, and two of them agree.              *)
(***************************************************************************)
EXTENDS SequenceFilter, Integers, SequencesExt, SequenceTheorems, WellFoundedInduction, TLAPS

-----------------------------------------------------------------------------
(* Recursive functions *)

\* The least number of a set.
LEMMA Smallest ==
    ASSUME NEW S, S \subseteq Nat, S # {}
    PROVE  \E x \in S : \A y \in S : x <= y
<1> DEFINE R == OpToRel(<, Nat)
<1>1. IsWellFoundedOn(R, Nat)
    BY NatLessThanWellFounded
<1>2. \A x, y \in Nat : x < y => <<x, y>> \in R
    BY DEF OpToRel
<1> HIDE DEF R
<1>3. PICK x \in S : \A y \in S : ~ (<<y, x>> \in R)
    BY <1>1, WFMin
<1>4. \A y \in S : ~ (y < x)
    BY <1>2, <1>3
<1> QED BY <1>3, <1>4

\* The first and the last of some places in a sequence.
LEMMA Extremes ==
    ASSUME NEW n \in Nat, NEW S, S \subseteq 1..n, S # {}
    PROVE  /\ (CHOOSE k \in S : \A i \in S : k <= i) \in S
           /\ \A i \in S : (CHOOSE k \in S : \A j \in S : k <= j) <= i
           /\ (CHOOSE k \in S : \A i \in S : i <= k) \in S
           /\ \A i \in S : i <= CHOOSE k \in S : \A j \in S : j <= k
<1>1. \E k \in S : \A i \in S : k <= i
    <2>1. S \subseteq Nat
        OBVIOUS
    <2> QED BY <2>1, Smallest
<1>2. \E k \in S : \A i \in S : i <= k
    <2> DEFINE M == {n - k : k \in S}
    <2>1. M \subseteq Nat /\ M # {}
        <3>1. \A k \in S : n - k \in Nat
            OBVIOUS
        <3>2. PICK k \in S : TRUE
            OBVIOUS
        <3>3. n - k \in M
            OBVIOUS
        <3> QED BY <3>1, <3>3
    <2>2. \E x \in M : \A y \in M : x <= y
        <3> HIDE DEF M
        <3> QED BY <2>1, Smallest
    <2>3. PICK x \in M : \A y \in M : x <= y
        BY <2>2
    <2>4. PICK k \in S : x = n - k
        OBVIOUS
    <2>5. ASSUME NEW i \in S PROVE i <= k
        <3>1. n - i \in M
            OBVIOUS
        <3>2. x <= n - i
            BY <2>3, <3>1
        <3> QED BY <2>4, <3>2
    <2> QED BY <2>5
<1>3. (CHOOSE k \in S : \A i \in S : k <= i) \in S
      /\ \A i \in S : (CHOOSE k \in S : \A j \in S : k <= j) <= i
    BY <1>1
<1>4. (CHOOSE k \in S : \A i \in S : i <= k) \in S
      /\ \A i \in S : i <= CHOOSE k \in S : \A j \in S : j <= k
    BY <1>2
<1> QED BY <1>3, <1>4

\* Induction, for a set in place of a predicate.
LEMMA Induction ==
    ASSUME NEW S, 0 \in S, \A n \in Nat : n \in S => n + 1 \in S
    PROVE  \A n \in Nat : n \in S
<1> DEFINE others == {n \in Nat : n \notin S}
<1> SUFFICES ASSUME others # {} PROVE FALSE
    OBVIOUS
<1>1. PICK x \in others : \A y \in others : x <= y
    BY Smallest
<1>2. x # 0 /\ x - 1 \in Nat
    BY <1>1
<1>3. x - 1 \in S
    BY <1>1, <1>2
<1>4. (x - 1) + 1 \in S
    BY <1>2, <1>3
<1> QED BY <1>1, <1>2, <1>4

\* A function may be defined by its first value and a step from each value to
\* the next.
Runs(f, first, step, n) == f[0] = first /\ \A k \in 1..n : f[k] = step[k][f[k - 1]]

LEMMA Recursion ==
    ASSUME NEW V, NEW first \in V, NEW n \in Nat, NEW step \in [1..n -> [V -> V]]
    PROVE  \E f \in [0..n -> V] : Runs(f, first, step, n)
<1> DEFINE Goes(f, m) == f[0] = first /\ \A k \in 1..m : f[k] = step[k][f[k - 1]]
           S == {m \in Nat : m <= n => \E f \in [0..m -> V] : Goes(f, m)}
<1>1. 0 \in S
    <2>1. [k \in 0..0 |-> first] \in [0..0 -> V] /\ Goes([k \in 0..0 |-> first], 0)
        OBVIOUS
    <2> QED BY <2>1
<1>2. ASSUME NEW m \in Nat, m \in S PROVE m + 1 \in S
    <2> SUFFICES ASSUME m + 1 <= n PROVE \E f \in [0 .. m + 1 -> V] : Goes(f, m + 1)
        OBVIOUS
    <2>1. PICK f \in [0..m -> V] : Goes(f, m)
        BY <1>2
    <2> DEFINE g == [k \in 0 .. m + 1 |-> IF k = m + 1 THEN step[k][f[m]] ELSE f[k]]
    <2>2. m \in 0..m /\ f[m] \in V /\ m + 1 \in 1..n
        OBVIOUS
    <2>3. step[m + 1] \in [V -> V]
        BY <2>2
    <2>4. step[m + 1][f[m]] \in V
        BY <2>2, <2>3
    <2>5. g \in [0 .. m + 1 -> V]
        BY <2>4
    <2>6. /\ g[m + 1] = step[m + 1][f[m]] /\ g[m] = f[m]
          /\ \A k \in 0..m : g[k] = f[k]
        OBVIOUS
    <2> HIDE DEF g
    <2>7. g[0] = first
        BY <2>1, <2>6
    <2>8. ASSUME NEW k \in 1 .. m + 1 PROVE g[k] = step[k][g[k - 1]]
        <3>1. CASE k = m + 1
            BY <2>6, <3>1
        <3>2. CASE k # m + 1
            <4>1. k \in 1..m /\ k \in 0..m /\ k - 1 \in 0..m
                BY <3>2
            <4>2. f[k] = step[k][f[k - 1]] /\ g[k] = f[k] /\ g[k - 1] = f[k - 1]
                BY <2>1, <2>6, <4>1
            <4> QED BY <4>2
        <3> QED BY <3>1, <3>2
    <2> QED BY <2>5, <2>7, <2>8
<1>3. n \in S
    <2> HIDE DEF S
    <2> QED BY <1>1, <1>2, Induction
<1> QED BY <1>3 DEF Runs

\* Two such functions agree as far as they take the same steps.
SameSteps(f, g, n) ==
    f[0] = g[0] /\ \A k \in 1..n : f[k - 1] = g[k - 1] => f[k] = g[k]

LEMMA SameFunctions ==
    ASSUME NEW f, NEW g, NEW n \in Nat, SameSteps(f, g, n)
    PROVE  \A k \in 0..n : f[k] = g[k]
<1> DEFINE S == {m \in Nat : m <= n => f[m] = g[m]}
<1>1. 0 \in S
    BY DEF SameSteps
<1>2. ASSUME NEW m \in Nat, m \in S PROVE m + 1 \in S
    <2> SUFFICES ASSUME m + 1 <= n PROVE f[m + 1] = g[m + 1]
        OBVIOUS
    <2>1. m + 1 \in 1..n /\ (m + 1) - 1 = m /\ f[m] = g[m]
        BY <1>2
    <2> QED BY <2>1 DEF SameSteps
<1> HIDE DEF S
<1>3. \A m \in Nat : m \in S
    BY <1>1, <1>2, Induction
<1> QED BY <1>3 DEF S

\* A part of a sequence, and the same part with the next item.
LEMMA Parts ==
    ASSUME NEW T, NEW seq \in Seq(T), NEW a \in Nat, NEW b \in Nat, a <= b, b <= Len(seq)
    PROVE  /\ SubSeq(seq, a + 1, b) \in Seq(T) /\ Len(SubSeq(seq, a + 1, b)) = b - a
           /\ \A i \in 1 .. b - a : SubSeq(seq, a + 1, b)[i] = seq[a + i]
<1>1. Len(seq) \in Nat /\ \A i \in a + 1 .. b : seq[i] \in T
    OBVIOUS
<1>2. a + 1 \in Int /\ b \in Int
    OBVIOUS
<1>3. /\ SubSeq(seq, a + 1, b) \in Seq(T)
      /\ Len(SubSeq(seq, a + 1, b)) = IF a + 1 <= b THEN b - (a + 1) + 1 ELSE 0
      /\ \A i \in 1 .. b - (a + 1) + 1 : SubSeq(seq, a + 1, b)[i] = seq[(a + 1) + i - 1]
    BY <1>1, <1>2, SubSeqProperties
<1>4. \A i \in 1 .. b - a : (a + 1) + i - 1 = a + i /\ i \in 1 .. b - (a + 1) + 1
    OBVIOUS
<1>5. (IF a + 1 <= b THEN b - (a + 1) + 1 ELSE 0) = b - a
    OBVIOUS
<1> QED BY <1>3, <1>4, <1>5

LEMMA PartsGrow ==
    ASSUME NEW T, NEW seq \in Seq(T), NEW a \in Nat, NEW k \in Nat, a <= k, k < Len(seq)
    PROVE  /\ seq[k + 1] \in T
           /\ SubSeq(seq, a + 1, k + 1) = Append(SubSeq(seq, a + 1, k), seq[k + 1])
<1> DEFINE part == SubSeq(seq, a + 1, k)
           more == SubSeq(seq, a + 1, k + 1)
<1>1. Len(seq) \in Nat /\ k + 1 \in 1 .. Len(seq) /\ k + 1 <= Len(seq) /\ k + 1 \in Nat
    OBVIOUS
<1>2. seq[k + 1] \in T
    BY <1>1
<1>3. /\ part \in Seq(T) /\ Len(part) = k - a
      /\ \A i \in 1 .. k - a : part[i] = seq[a + i]
    BY <1>1, Parts
<1>4. /\ more \in Seq(T) /\ Len(more) = k + 1 - a
      /\ \A i \in 1 .. k + 1 - a : more[i] = seq[a + i]
    BY <1>1, Parts
<1> HIDE DEF part, more
<1>5. /\ Append(part, seq[k + 1]) \in Seq(T) /\ Len(Append(part, seq[k + 1])) = k + 1 - a
      /\ \A i \in 1 .. k - a : Append(part, seq[k + 1])[i] = part[i]
      /\ Append(part, seq[k + 1])[k + 1 - a] = seq[k + 1]
    BY <1>2, <1>3
<1>6. ASSUME NEW i \in 1 .. k + 1 - a PROVE more[i] = Append(part, seq[k + 1])[i]
    <2>1. CASE i = k + 1 - a
        BY <1>4, <1>5, <2>1
    <2>2. CASE i # k + 1 - a
        BY <1>3, <1>4, <1>5, <2>2
    <2> QED BY <2>1, <2>2
<1>7. more = Append(part, seq[k + 1])
    BY <1>4, <1>5, <1>6, SeqEqual
<1> QED BY <1>2, <1>7 DEF part, more

\* A sequence without its last item.
LEMMA Fronts ==
    ASSUME NEW T, NEW seq \in Seq(T), NEW k \in 0 .. Len(seq) - 1
    PROVE  /\ SubSeq(seq, 1, k) \in Seq(T) /\ Len(SubSeq(seq, 1, k)) = k
           /\ seq[k + 1] \in T
           /\ SubSeq(seq, 1, k + 1) = Append(SubSeq(seq, 1, k), seq[k + 1])
<1>1. k \in Nat /\ 0 <= k /\ k < Len(seq) /\ k <= Len(seq) /\ 0 \in Nat
    OBVIOUS
<1>2. 0 + 1 = 1 /\ k - 0 = k
    OBVIOUS
<1>3. SubSeq(seq, 0 + 1, k) \in Seq(T) /\ Len(SubSeq(seq, 0 + 1, k)) = k - 0
    BY <1>1, Parts
<1>4. /\ seq[k + 1] \in T
      /\ SubSeq(seq, 0 + 1, k + 1) = Append(SubSeq(seq, 0 + 1, k), seq[k + 1])
    BY <1>1, PartsGrow
<1> QED BY <1>2, <1>3, <1>4

\* Two parts that meet.
LEMMA PartsMeet ==
    ASSUME NEW T, NEW seq \in Seq(T), NEW a \in Nat, NEW b \in Nat, a <= b, b <= Len(seq)
    PROVE  SubSeq(seq, 1, b) = SubSeq(seq, 1, a) \o SubSeq(seq, a + 1, b)
<1> DEFINE u == SubSeq(seq, 1, a)
           v == SubSeq(seq, a + 1, b)
           w == SubSeq(seq, 1, b)
<1>1. 0 + 1 = 1 /\ 0 \in Nat /\ 0 <= a /\ 0 <= b /\ a <= Len(seq)
    OBVIOUS
<1>2. /\ u \in Seq(T) /\ Len(u) = a - 0
      /\ \A i \in 1 .. a - 0 : u[i] = seq[0 + i]
    BY <1>1, Parts
<1>3. /\ w \in Seq(T) /\ Len(w) = b - 0
      /\ \A i \in 1 .. b - 0 : w[i] = seq[0 + i]
    BY <1>1, Parts
<1>4. /\ v \in Seq(T) /\ Len(v) = b - a
      /\ \A i \in 1 .. b - a : v[i] = seq[a + i]
    BY Parts
<1> HIDE DEF u, v, w
<1>5. /\ u \o v \in Seq(T) /\ Len(u \o v) = Len(u) + Len(v)
      /\ \A i \in 1 .. Len(u) + Len(v) :
            (u \o v)[i] = IF i <= Len(u) THEN u[i] ELSE v[i - Len(u)]
    BY <1>2, <1>4, ConcatProperties
<1>6. Len(w) = Len(u \o v) /\ Len(u) + Len(v) = b /\ Len(u) = a
    BY <1>2, <1>3, <1>4, <1>5
<1>7. ASSUME NEW i \in 1..b PROVE w[i] = (u \o v)[i]
    <2>1. CASE i <= a
        <3>1. i \in 1 .. a - 0 /\ i \in 1 .. b - 0 /\ 0 + i = i
            BY <2>1
        <3>2. w[i] = seq[i] /\ u[i] = seq[i]
            BY <1>2, <1>3, <3>1
        <3>3. (u \o v)[i] = u[i]
            BY <1>5, <1>6, <2>1
        <3> QED BY <3>2, <3>3
    <2>2. CASE ~(i <= a)
        <3>1. i - a \in 1 .. b - a /\ a + (i - a) = i /\ 0 + i = i /\ i \in 1 .. b - 0
            BY <2>2
        <3>2. w[i] = seq[i] /\ v[i - a] = seq[i]
            BY <1>3, <1>4, <3>1
        <3>3. (u \o v)[i] = v[i - a]
            BY <1>5, <1>6, <2>2
        <3> QED BY <3>2, <3>3
    <2> QED BY <2>1, <2>2
<1>8. \A i \in 1 .. Len(w) : w[i] = (u \o v)[i]
    <2>1. 1 .. Len(w) = 1..b
        BY <1>3
    <2> QED BY <1>7, <2>1
<1>9. w = u \o v
    BY <1>3, <1>5, <1>6, <1>8, SeqEqual
<1> QED BY <1>9 DEF u, v, w

-----------------------------------------------------------------------------
(* Filtering a sequence *)

Filters(f, seq, S) ==
    /\ f[0] = <<>>
    /\ \A k \in 1 .. Len(seq) :
          f[k] = IF seq[k] \in S THEN Append(f[k - 1], seq[k]) ELSE f[k - 1]

LEMMA OnlySteps ==
    ASSUME NEW T, NEW seq \in Seq(T), NEW S
    PROVE  \E f \in [0 .. Len(seq) -> Seq(T)] :
              Filters(f, seq, S) /\ Only(seq, S) = f[Len(seq)]
<1> DEFINE n == Len(seq)
           V == Seq(T)
           step == [k \in 1..n |-> [v \in V |-> IF seq[k] \in S THEN Append(v, seq[k]) ELSE v]]
           Kept(f) == f = [k \in 0..n |->
                              IF k = 0 THEN <<>>
                              ELSE IF seq[k] \in S THEN Append(f[k - 1], seq[k]) ELSE f[k - 1]]
<1>1. n \in Nat /\ \A k \in 1..n : seq[k] \in T
    OBVIOUS
<1>2. step \in [1..n -> [V -> V]]
    BY <1>1
<1>3. <<>> \in V
    OBVIOUS
<1>4. PICK f \in [0..n -> V] : f[0] = <<>> /\ \A k \in 1..n : f[k] = step[k][f[k - 1]]
    <2> DEFINE first == <<>>
    <2> HIDE DEF step, V, n, first
    <2>1. first \in V
        BY <1>3 DEF first
    <2>2. n \in Nat
        BY <1>1
    <2>3. \E f \in [0..n -> V] : Runs(f, first, step, n)
        BY <1>2, <2>1, <2>2, Recursion
    <2> QED BY <2>3 DEF first, Runs
<1>5. Filters(f, seq, S)
    <2> SUFFICES ASSUME NEW k \in 1..n
                 PROVE  f[k] = IF seq[k] \in S THEN Append(f[k - 1], seq[k]) ELSE f[k - 1]
        BY <1>4 DEF Filters
    <2>1. k - 1 \in 0..n
        BY <1>1
    <2>2. f[k - 1] \in V
        BY <2>1
    <2>3. f[k] = step[k][f[k - 1]]
        BY <1>4
    <2> HIDE DEF V
    <2> QED BY <2>2, <2>3
<1>6. ASSUME NEW g, Kept(g) PROVE g = f
    <2>1. g[0] = <<>>
        BY <1>1, <1>6
    <2>2. ASSUME NEW k \in 1..n
          PROVE  g[k] = IF seq[k] \in S THEN Append(g[k - 1], seq[k]) ELSE g[k - 1]
        <3>1. k \in 0..n /\ k # 0
            BY <1>1
        <3> QED BY <1>6, <3>1
    <2>3. SameSteps(f, g, n)
        BY <1>5, <2>1, <2>2 DEF SameSteps, Filters
    <2>4. \A k \in 0..n : f[k] = g[k]
        <3> HIDE DEF Kept, n
        <3> QED BY <1>1, <2>3, SameFunctions
    <2>5. g = [k \in 0..n |-> g[k]] /\ f = [k \in 0..n |-> f[k]]
        BY <1>6
    <2> QED BY <2>4, <2>5
<1>7. Kept(f)
    <2> DEFINE g == [k \in 0..n |->
                        IF k = 0 THEN <<>>
                        ELSE IF seq[k] \in S THEN Append(f[k - 1], seq[k]) ELSE f[k - 1]]
    <2>1. ASSUME NEW k \in 0..n PROVE f[k] = g[k]
        <3>1. k = 0 \/ k \in 1 .. Len(seq)
            BY <1>1
        <3> QED BY <1>5, <3>1 DEF Filters
    <2>2. f = [k \in 0..n |-> f[k]]
        OBVIOUS
    <2> QED BY <2>1, <2>2
<1>8. (CHOOSE g : Kept(g)) = f
    <2> HIDE DEF Kept
    <2> QED BY <1>6, <1>7
<1>9. Only(seq, S) = (CHOOSE g : Kept(g))[n]
    BY DEF Only
<1> QED BY <1>5, <1>8, <1>9

\* What is left of no items, and of one more.
LEMMA OnlyNone ==
    ASSUME NEW S PROVE Only(<<>>, S) = <<>>
<1>1. <<>> \in Seq({}) /\ Len(<<>>) = 0
    OBVIOUS
<1>2. PICK f \in [0 .. Len(<<>>) -> Seq({})] :
          Filters(f, <<>>, S) /\ Only(<<>>, S) = f[Len(<<>>)]
    BY <1>1, OnlySteps
<1> QED BY <1>1, <1>2 DEF Filters

LEMMA OnlyAppend ==
    ASSUME NEW T, NEW S, NEW seq \in Seq(T), NEW x \in T
    PROVE  Only(Append(seq, x), S) = IF x \in S THEN Append(Only(seq, S), x)
                                     ELSE Only(seq, S)
<1> DEFINE more == Append(seq, x)
           n == Len(seq)
<1>1. /\ more \in Seq(T) /\ Len(more) = n + 1 /\ n \in Nat
      /\ more[n + 1] = x /\ \A k \in 1..n : more[k] = seq[k]
    OBVIOUS
<1> HIDE DEF more
<1>2. PICK f \in [0 .. Len(seq) -> Seq(T)] : Filters(f, seq, S) /\ Only(seq, S) = f[Len(seq)]
    BY OnlySteps
<1>3. PICK g \in [0 .. Len(more) -> Seq(T)] :
          Filters(g, more, S) /\ Only(more, S) = g[Len(more)]
    BY <1>1, OnlySteps
<1>4. SameSteps(f, g, n)
    <2>1. ASSUME NEW k \in 1..n, f[k - 1] = g[k - 1] PROVE f[k] = g[k]
        <3>1. k \in 1 .. Len(more) /\ more[k] = seq[k]
            BY <1>1
        <3> QED BY <1>2, <1>3, <2>1, <3>1 DEF Filters
    <2> QED BY <1>2, <1>3, <2>1 DEF SameSteps, Filters
<1>5. \A k \in 0..n : f[k] = g[k]
    BY <1>1, <1>4, SameFunctions
<1>6. f[n] = g[n] /\ n + 1 \in 1 .. Len(more) /\ (n + 1) - 1 = n
    BY <1>1, <1>5
<1>7. g[n + 1] = IF x \in S THEN Append(g[n], x) ELSE g[n]
    BY <1>1, <1>3, <1>6 DEF Filters
<1> QED BY <1>1, <1>2, <1>3, <1>6, <1>7 DEF more

LEMMA OnlyType ==
    ASSUME NEW T, NEW seq \in Seq(T), NEW S
    PROVE  Only(seq, S) \in Seq(T)
<1>1. PICK f \in [0 .. Len(seq) -> Seq(T)] : Filters(f, seq, S) /\ Only(seq, S) = f[Len(seq)]
    BY OnlySteps
<1> QED BY <1>1

\* The items of the first sequence, then those of the second, and below:
\* concatenation is associative; as predicates, to instantiate.
OneThenOther(T, s, t) ==
    /\ s \o t \in Seq(T) /\ Len(s \o t) = Len(s) + Len(t)
    /\ \A j \in 1 .. Len(s) : (s \o t)[j] = s[j]
    /\ \A j \in 1 .. Len(t) : (s \o t)[Len(s) + j] = t[j]

LEMMA Concats ==
    ASSUME NEW T, NEW s \in Seq(T), NEW t \in Seq(T)
    PROVE  OneThenOther(T, s, t)
<1>1. /\ s \o t \in Seq(T) /\ Len(s \o t) = Len(s) + Len(t)
      /\ Len(s) \in Nat /\ Len(t) \in Nat
    OBVIOUS
<1>2. \A j \in 1 .. Len(s) : (s \o t)[j] = s[j]
    OBVIOUS
<1>3. \A j \in 1 .. Len(t) : (s \o t)[Len(s) + j] = t[j]
    OBVIOUS
<1> QED BY <1>1, <1>2, <1>3 DEF OneThenOther

Agree(s, t, u) == (s \o t) \o u = s \o (t \o u)

LEMMA ConcatsAgree ==
    ASSUME NEW T, NEW s \in Seq(T), NEW t \in Seq(T), NEW u \in Seq(T)
    PROVE  Agree(s, t, u)
BY ConcatAssociative DEF Agree

\* Two parts are filtered one by one.
OneByOne(S, s, t) == Only(s \o t, S) = Only(s, S) \o Only(t, S)

LEMMA OnlyConcat ==
    ASSUME NEW T, NEW S, NEW s \in Seq(T), NEW t \in Seq(T)
    PROVE  OneByOne(S, s, t)
<1> DEFINE Good == {n \in Nat : \A u \in Seq(T) : Len(u) = n =>
                        Only(s \o u, S) = Only(s, S) \o Only(u, S)}
<1>1. 0 \in Good
    <2> SUFFICES ASSUME NEW u \in Seq(T), Len(u) = 0
                 PROVE  Only(s \o u, S) = Only(s, S) \o Only(u, S)
        OBVIOUS
    <2>1. u = <<>>
        OBVIOUS
    <2>2. s \o u = s
        BY <2>1, ConcatEmptySeq
    <2>3. Only(s, S) \in Seq(T) /\ Only(u, S) = <<>>
        BY <2>1, OnlyType, OnlyNone
    <2>4. Only(s, S) \o <<>> = Only(s, S)
        BY <2>3, ConcatEmptySeq
    <2> QED BY <2>2, <2>3, <2>4
<1>2. ASSUME NEW n \in Nat, n \in Good PROVE n + 1 \in Good
    <2> SUFFICES ASSUME NEW u \in Seq(T), Len(u) = n + 1
                 PROVE  Only(s \o u, S) = Only(s, S) \o Only(u, S)
        OBVIOUS
    <2> DEFINE v == SubSeq(u, 1, n)
               x == u[n + 1]
    <2>1. n \in 0 .. Len(u) - 1
        OBVIOUS
    <2>2. v \in Seq(T) /\ Len(v) = n /\ x \in T /\ SubSeq(u, 1, n + 1) = Append(v, x)
        BY <2>1, Fronts
    <2>3. u = Append(v, x)
        BY <2>2, SubSeqFull
    <2> HIDE DEF v, x
    <2> DEFINE sv == s \o v
    <2>4. s \o u = Append(sv, x) /\ sv \in Seq(T)
        BY <2>2, <2>3
    <2>5. Only(s \o v, S) = Only(s, S) \o Only(v, S)
        BY <1>2, <2>2
    <2>6. v \in Seq(T) /\ x \in T
        BY <2>2
    <2> HIDE DEF sv
    <2>7. Only(u, S) = IF x \in S THEN Append(Only(v, S), x) ELSE Only(v, S)
        BY <2>3, <2>6, OnlyAppend
    <2>8. Only(Append(sv, x), S) = IF x \in S THEN Append(Only(sv, S), x) ELSE Only(sv, S)
        BY <2>4, <2>6, OnlyAppend
    <2> DEFINE a == Only(s, S)
               b == Only(v, S)
    <2>9. a \in Seq(T) /\ b \in Seq(T)
        BY <2>6, OnlyType
    <2>10. Only(sv, S) = a \o b
        BY <2>5 DEF sv
    <2> HIDE DEF a, b
    <2>11. Append(a \o b, x) = a \o Append(b, x)
        <3>1. a \o b \in Seq(T) /\ <<x>> \in Seq(T)
            BY <2>6, <2>9
        <3>2. Append(a \o b, x) = (a \o b) \o <<x>>
            BY <2>6, <3>1, AppendIsConcat
        <3>3. Append(b, x) = b \o <<x>>
            BY <2>6, <2>9, AppendIsConcat
        <3>5. Agree(a, b, <<x>>)
            BY <2>9, <3>1, ConcatsAgree
        <3>4. (a \o b) \o <<x>> = a \o (b \o <<x>>)
            BY <3>5 DEF Agree
        <3> QED BY <3>2, <3>3, <3>4
    <2>12. Only(u, S) = IF x \in S THEN Append(b, x) ELSE b
        BY <2>7 DEF b
    <2>13. Only(s \o u, S) = a \o Only(u, S)
        BY <2>4, <2>8, <2>10, <2>11, <2>12
    <2> QED BY <2>13 DEF a
<1>3. Len(t) \in Nat
    OBVIOUS
<1>4. \A n \in Nat : n \in Good
    <2> HIDE DEF Good
    <2> QED BY <1>1, <1>2, Induction
<1> QED BY <1>3, <1>4 DEF OneByOne

\* Items that are not in the set leave nothing.
LEMMA OnlySkips ==
    ASSUME NEW T, NEW S, NEW seq \in Seq(T), NEW a \in Nat, NEW b \in Nat, a <= b,
           b <= Len(seq), \A k \in a + 1 .. b : seq[k] \notin S
    PROVE  Only(SubSeq(seq, 1, b), S) = Only(SubSeq(seq, 1, a), S)
<1> DEFINE To(n) == Only(SubSeq(seq, 1, n), S)
           Good == {n \in Nat : a + n <= b => To(a + n) = To(a)}
<1>1. 0 \in Good
    OBVIOUS
<1>2. ASSUME NEW n \in Nat, n \in Good PROVE n + 1 \in Good
    <2> SUFFICES ASSUME a + n + 1 <= b PROVE To(a + n + 1) = To(a)
        OBVIOUS
    <2>1. a + n \in 0 .. Len(seq) - 1 /\ a + n + 1 \in a + 1 .. b
        OBVIOUS
    <2>2. /\ SubSeq(seq, 1, a + n) \in Seq(T) /\ seq[a + n + 1] \in T
          /\ SubSeq(seq, 1, a + n + 1) = Append(SubSeq(seq, 1, a + n), seq[a + n + 1])
        BY <2>1, Fronts
    <2> DEFINE front == SubSeq(seq, 1, a + n)
               x == seq[a + n + 1]
    <2>3. x \notin S /\ front \in Seq(T) /\ x \in T
        BY <2>1, <2>2
    <2> HIDE DEF front, x
    <2>4. Only(Append(front, x), S) = IF x \in S THEN Append(Only(front, S), x)
                                     ELSE Only(front, S)
        BY <2>3, OnlyAppend
    <2>5. To(a + n + 1) = To(a + n)
        BY <2>2, <2>3, <2>4 DEF front, x
    <2> QED BY <1>2, <2>5
<1>3. \A n \in Nat : n \in Good
    <2> HIDE DEF Good
    <2> QED BY <1>1, <1>2, Induction
<1>4. b - a \in Nat /\ a + (b - a) = b
    OBVIOUS
<1> HIDE DEF To
<1> QED BY <1>3, <1>4 DEF To

\* Nothing or everything is kept.
LEMMA OnlyNothing ==
    ASSUME NEW T, NEW S, NEW seq \in Seq(T), \A k \in DOMAIN seq : seq[k] \notin S
    PROVE  Only(seq, S) = <<>>
<1>1. Len(seq) \in Nat /\ \A k \in 0 + 1 .. Len(seq) : seq[k] \notin S
    OBVIOUS
<1>2. 0 <= Len(seq) /\ Len(seq) <= Len(seq) /\ 0 \in Nat
    BY <1>1
<1>3. Only(SubSeq(seq, 1, Len(seq)), S) = Only(SubSeq(seq, 1, 0), S)
    BY <1>1, <1>2, OnlySkips
<1>4. SubSeq(seq, 1, 0) = <<>> /\ SubSeq(seq, 1, Len(seq)) = seq
    BY <1>1, SubSeqEmpty, SubSeqFull
<1> QED BY <1>3, <1>4, OnlyNone

LEMMA OnlyAll ==
    ASSUME NEW T, NEW S, NEW seq \in Seq(T), \A k \in DOMAIN seq : seq[k] \in S
    PROVE  Only(seq, S) = seq
<1> DEFINE Good == {n \in Nat : n <= Len(seq) => Only(SubSeq(seq, 1, n), S) = SubSeq(seq, 1, n)}
<1>1. 0 \in Good
    <2>1. SubSeq(seq, 1, 0) = <<>>
        BY SubSeqEmpty
    <2> QED BY <2>1, OnlyNone
<1>2. ASSUME NEW n \in Nat, n \in Good PROVE n + 1 \in Good
    <2> SUFFICES ASSUME n + 1 <= Len(seq)
                 PROVE  Only(SubSeq(seq, 1, n + 1), S) = SubSeq(seq, 1, n + 1)
        OBVIOUS
    <2>1. n \in 0 .. Len(seq) - 1 /\ n + 1 \in DOMAIN seq
        OBVIOUS
    <2> DEFINE front == SubSeq(seq, 1, n)
               x == seq[n + 1]
    <2>2. front \in Seq(T) /\ x \in T /\ SubSeq(seq, 1, n + 1) = Append(front, x)
        BY <2>1, Fronts
    <2>3. x \in S /\ Only(front, S) = front
        BY <1>2, <2>1
    <2> HIDE DEF front, x
    <2>4. Only(Append(front, x), S) = IF x \in S THEN Append(Only(front, S), x)
                                     ELSE Only(front, S)
        BY <2>2, OnlyAppend
    <2> QED BY <2>2, <2>3, <2>4
<1>3. \A n \in Nat : n \in Good
    <2> HIDE DEF Good
    <2> QED BY <1>1, <1>2, Induction
<1>4. Len(seq) \in Nat /\ SubSeq(seq, 1, Len(seq)) = seq
    BY SubSeqFull
<1>5. Len(seq) \in Good
    <2> HIDE DEF Good
    <2> QED BY <1>3, <1>4
<1>6. Only(SubSeq(seq, 1, Len(seq)), S) = SubSeq(seq, 1, Len(seq))
    BY <1>4, <1>5
<1> QED BY <1>4, <1>6

-----------------------------------------------------------------------------
(* Joining sequences *)

Joins(f, seqs) == f[0] = <<>> /\ \A k \in 1 .. Len(seqs) : f[k] = f[k - 1] \o seqs[k]

LEMMA FlattenSteps ==
    ASSUME NEW T, NEW seqs \in Seq(Seq(T))
    PROVE  \E f \in [0 .. Len(seqs) -> Seq(T)] :
              Joins(f, seqs) /\ FlattenSeq(seqs) = f[Len(seqs)]
<1> DEFINE n == Len(seqs)
           V == Seq(T)
           step == [k \in 1..n |-> [v \in V |-> v \o seqs[k]]]
           Flat(f) == f = [k \in 1..n |-> IF k = 1 THEN seqs[k] ELSE f[k - 1] \o seqs[k]]
<1>1. n \in Nat /\ \A k \in 1..n : seqs[k] \in V
    OBVIOUS
<1>2. step \in [1..n -> [V -> V]]
    BY <1>1, ConcatProperties
<1>3. <<>> \in V
    OBVIOUS
<1>4. PICK f \in [0..n -> V] : f[0] = <<>> /\ \A k \in 1..n : f[k] = step[k][f[k - 1]]
    <2> DEFINE first == <<>>
    <2> HIDE DEF step, V, n, first
    <2>1. first \in V
        BY <1>3 DEF first
    <2>2. n \in Nat
        BY <1>1
    <2>3. \E f \in [0..n -> V] : Runs(f, first, step, n)
        BY <1>2, <2>1, <2>2, Recursion
    <2> QED BY <2>3 DEF first, Runs
<1>5. Joins(f, seqs)
    <2> SUFFICES ASSUME NEW k \in 1..n PROVE f[k] = f[k - 1] \o seqs[k]
        BY <1>4 DEF Joins
    <2>1. k - 1 \in 0..n
        BY <1>1
    <2>2. f[k - 1] \in V
        BY <2>1
    <2>3. f[k] = step[k][f[k - 1]]
        BY <1>4
    <2> HIDE DEF V
    <2> QED BY <2>2, <2>3
<1>6. CASE n = 0
    <2>1. seqs = <<>>
        BY <1>6
    <2>2. FlattenSeq(seqs) = <<>>
        BY <1>6, <2>1 DEF FlattenSeq
    <2> QED BY <1>5, <1>6, <2>2 DEF Joins
<1>7. CASE n # 0
    <2> DEFINE h == [k \in 1..n |-> f[k]]
    <2>1. f[1] = seqs[1]
        <3>1. 1 \in 1 .. Len(seqs)
            BY <1>1, <1>7
        <3>2. f[1] = f[1 - 1] \o seqs[1]
            BY <1>5, <3>1 DEF Joins
        <3>3. f[1 - 1] = <<>>
            BY <1>5 DEF Joins
        <3>4. seqs[1] \in Seq(T)
            BY <1>1, <3>1
        <3>5. <<>> \o seqs[1] = seqs[1]
            BY <3>4, ConcatEmptySeq
        <3> QED BY <3>2, <3>3, <3>5
    <2>2. Flat(h)
        <3> DEFINE g == [k \in 1..n |-> IF k = 1 THEN seqs[k] ELSE h[k - 1] \o seqs[k]]
        <3>1. ASSUME NEW k \in 1..n PROVE h[k] = g[k]
            <4>1. CASE k = 1
                BY <2>1, <4>1
            <4>2. CASE k # 1
                <5>1. k - 1 \in 1..n
                    BY <1>1, <4>2
                <5>2. f[k] = f[k - 1] \o seqs[k]
                    BY <1>5 DEF Joins
                <5> QED BY <4>2, <5>1, <5>2
            <4> QED BY <4>1, <4>2
        <3> QED BY <3>1
    <2>3. ASSUME NEW g, Flat(g) PROVE g = h
        <3> DEFINE G == [k \in 0..n |-> IF k = 0 THEN <<>> ELSE g[k]]
        <3>1. ASSUME NEW k \in 1..n
              PROVE  G[k] = g[k] /\ g[k] = IF k = 1 THEN seqs[k] ELSE g[k - 1] \o seqs[k]
            <4>1. k \in 0..n /\ k # 0
                BY <1>1
            <4> QED BY <2>3, <4>1
        <3>2. G[0] = <<>>
            BY <1>1
        <3> HIDE DEF G
        <3>3. ASSUME NEW k \in 1..n, f[k - 1] = G[k - 1] PROVE f[k] = G[k]
            <4>1. CASE k = 1
                BY <2>1, <3>1, <4>1
            <4>2. CASE k # 1
                <5>1. k - 1 \in 1..n
                    BY <1>1, <4>2
                <5>2. G[k - 1] = g[k - 1]
                    BY <3>1, <5>1
                <5>3. f[k] = f[k - 1] \o seqs[k] /\ G[k] = g[k - 1] \o seqs[k]
                    BY <1>5, <3>1, <4>2 DEF Joins
                <5> QED BY <3>3, <5>2, <5>3
            <4> QED BY <4>1, <4>2
        <3>4. SameSteps(f, G, n)
            BY <1>4, <3>2, <3>3 DEF SameSteps
        <3>5. \A k \in 0..n : f[k] = G[k]
            <4> HIDE DEF n
            <4> QED BY <1>1, <3>4, SameFunctions
        <3>6. \A k \in 1..n : g[k] = h[k]
            <4> SUFFICES ASSUME NEW k \in 1..n PROVE g[k] = f[k]
                OBVIOUS
            <4>1. k \in 0..n
                BY <1>1
            <4> QED BY <3>1, <3>5, <4>1
        <3>7. g = [k \in 1..n |-> g[k]] /\ h = [k \in 1..n |-> h[k]]
            BY <2>3
        <3> QED BY <3>6, <3>7
    <2>4. FlattenSeq(seqs) = (CHOOSE g : Flat(g))[n]
        BY <1>7, Zenon DEF FlattenSeq
    <2>5. (CHOOSE g : Flat(g)) = h
        <3> HIDE DEF Flat, h
        <3> QED BY <2>2, <2>3
    <2>6. n \in 1..n
        BY <1>1, <1>7
    <2> QED BY <1>5, <2>4, <2>5, <2>6
<1> QED BY <1>6, <1>7

LEMMA FlattenType ==
    ASSUME NEW T, NEW seqs \in Seq(Seq(T))
    PROVE  FlattenSeq(seqs) \in Seq(T)
<1>1. PICK f \in [0 .. Len(seqs) -> Seq(T)] : Joins(f, seqs) /\ FlattenSeq(seqs) = f[Len(seqs)]
    BY FlattenSteps
<1> QED BY <1>1

LEMMA FlattenNone == FlattenSeq(<<>>) = <<>>
BY DEF FlattenSeq

LEMMA FlattenAppend ==
    ASSUME NEW T, NEW seqs \in Seq(Seq(T)), NEW s \in Seq(T)
    PROVE  FlattenSeq(Append(seqs, s)) = FlattenSeq(seqs) \o s
<1> DEFINE more == Append(seqs, s)
           n == Len(seqs)
<1>1. /\ more \in Seq(Seq(T)) /\ Len(more) = n + 1 /\ n \in Nat
      /\ more[n + 1] = s /\ \A k \in 1..n : more[k] = seqs[k]
    OBVIOUS
<1> HIDE DEF more
<1>2. PICK f \in [0 .. Len(seqs) -> Seq(T)] :
          Joins(f, seqs) /\ FlattenSeq(seqs) = f[Len(seqs)]
    BY FlattenSteps
<1>3. PICK g \in [0 .. Len(more) -> Seq(T)] :
          Joins(g, more) /\ FlattenSeq(more) = g[Len(more)]
    BY <1>1, FlattenSteps
<1>4. SameSteps(f, g, n)
    <2>1. ASSUME NEW k \in 1..n, f[k - 1] = g[k - 1] PROVE f[k] = g[k]
        <3>1. k \in 1 .. Len(more) /\ more[k] = seqs[k]
            BY <1>1
        <3>2. f[k] = f[k - 1] \o seqs[k] /\ g[k] = g[k - 1] \o more[k]
            BY <1>2, <1>3, <3>1 DEF Joins
        <3> QED BY <2>1, <3>1, <3>2
    <2> QED BY <1>2, <1>3, <2>1 DEF SameSteps, Joins
<1>5. \A k \in 0..n : f[k] = g[k]
    BY <1>1, <1>4, SameFunctions
<1>6. f[n] = g[n] /\ n + 1 \in 1 .. Len(more) /\ (n + 1) - 1 = n
    BY <1>1, <1>5
<1>7. g[n + 1] = g[(n + 1) - 1] \o more[n + 1]
    BY <1>3, <1>6 DEF Joins
<1> QED BY <1>1, <1>2, <1>3, <1>6, <1>7 DEF more

LEMMA FlattenOne ==
    ASSUME NEW T, NEW s \in Seq(T)
    PROVE  FlattenSeq(<<s>>) = s
<1>1. <<>> \in Seq(Seq(T)) /\ Append(<<>>, s) = <<s>>
    OBVIOUS
<1>2. FlattenSeq(Append(<<>>, s)) = FlattenSeq(<<>>) \o s
    BY <1>1, FlattenAppend
<1>3. <<>> \o s = s
    BY ConcatEmptySeq
<1> QED BY <1>1, <1>2, <1>3, FlattenNone

\* The first sequences joined, and the next one behind them.
LEMMA FlattenTo ==
    ASSUME NEW T, NEW seqs \in Seq(Seq(T)), NEW k \in 0 .. Len(seqs) - 1
    PROVE  /\ seqs[k + 1] \in Seq(T) /\ FlattenSeq(SubSeq(seqs, 1, k)) \in Seq(T)
           /\ FlattenSeq(SubSeq(seqs, 1, k + 1)) = FlattenSeq(SubSeq(seqs, 1, k)) \o seqs[k + 1]
<1> DEFINE front == SubSeq(seqs, 1, k)
           s == seqs[k + 1]
<1>1. front \in Seq(Seq(T)) /\ s \in Seq(T) /\ SubSeq(seqs, 1, k + 1) = Append(front, s)
    BY Fronts
<1> HIDE DEF front, s
<1>2. FlattenSeq(front) \in Seq(T) /\ FlattenSeq(Append(front, s)) = FlattenSeq(front) \o s
    BY <1>1, FlattenType, FlattenAppend
<1> QED BY <1>1, <1>2 DEF front, s
=============================================================================
