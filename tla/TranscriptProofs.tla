--------------------------- MODULE TranscriptProofs ---------------------------
(***************************************************************************)
(* What the service put before the model, its hotwords and their prompt,   *)
(* does not reach the client, and what was said does, for lists of         *)
(* hotwords of any length with any repetitions, for any texts, and         *)
(* whatever becomes of the pool.  The prompt is described by Marked: it    *)
(* begins with its header, and behind every sign come two of the hotwords  *)
(* with their separator, or the last hotword; so a reply that says back    *)
(* the prompt from a word on begins as the filter expects.                 *)
(***************************************************************************)
EXTENDS Transcript, SequenceLemmas, FiniteSetTheorems

-----------------------------------------------------------------------------
(* Hotwords *)

Word == Seq(Letters)

\* A list without empty and repeated words.
Clean(list) ==
    /\ list \in Seq(Word)
    /\ \A i \in DOMAIN list : list[i] # <<>>
    /\ \A i, j \in DOMAIN list : list[i] = list[j] => i = j

LEMMA CleanAppend ==
    ASSUME NEW list, Clean(list), NEW w \in Word, w # <<>>, w \notin Range(list)
    PROVE  Clean(Append(list, w))
<1> DEFINE n == Len(list)
           more == Append(list, w)
<1>1. list \in Seq(Word) /\ n \in Nat /\ DOMAIN list = 1..n
    BY DEF Clean
<1>2. /\ more \in Seq(Word) /\ Len(more) = n + 1 /\ DOMAIN more = 1 .. n + 1
      /\ \A i \in 1..n : more[i] = list[i]
      /\ more[n + 1] = w
    BY <1>1
<1> HIDE DEF more
<1>3. \A i \in 1..n : list[i] # w
    BY <1>1 DEF Range
<1>4. ASSUME NEW i \in 1 .. n + 1 PROVE more[i] # <<>>
    <2>1. i \in 1..n \/ i = n + 1
        BY <1>1
    <2> QED BY <1>1, <1>2, <2>1 DEF Clean
<1>5. ASSUME NEW i \in 1 .. n + 1, NEW j \in 1 .. n + 1, more[i] = more[j] PROVE i = j
    <2>1. (i \in 1..n \/ i = n + 1) /\ (j \in 1..n \/ j = n + 1)
        BY <1>1
    <2>2. CASE i \in 1..n /\ j \in 1..n
        BY <1>1, <1>2, <1>5, <2>2 DEF Clean
    <2>3. CASE i \in 1..n /\ j = n + 1
        BY <1>2, <1>3, <1>5, <2>3
    <2>4. CASE i = n + 1 /\ j \in 1..n
        BY <1>2, <1>3, <1>5, <2>4
    <2> QED BY <2>1, <2>2, <2>3, <2>4
<1> QED BY <1>2, <1>4, <1>5 DEF Clean, more

\* Distinct, word by word.
Seen(f, list) ==
    /\ f[0] = <<>>
    /\ \A k \in 1 .. Len(list) :
          f[k] = IF list[k] = <<>> \/ list[k] \in Range(f[k - 1]) THEN f[k - 1]
                 ELSE Append(f[k - 1], list[k])

LEMMA DistinctSteps ==
    ASSUME NEW list \in Seq(Word)
    PROVE  \E f \in [0 .. Len(list) -> Seq(Word)] :
              Seen(f, list) /\ Distinct(list) = f[Len(list)]
<1> DEFINE n == Len(list)
           V == Seq(Word)
           Next1(v, k) == IF list[k] = <<>> \/ list[k] \in Range(v) THEN v ELSE Append(v, list[k])
           step == [k \in 1..n |-> [v \in V |-> Next1(v, k)]]
           Kept(f) == f = [k \in 0..n |-> IF k = 0 THEN <<>> ELSE Next1(f[k - 1], k)]
<1>1. n \in Nat /\ \A k \in 1..n : list[k] \in Word
    OBVIOUS
<1>2. step \in [1..n -> [V -> V]]
    BY <1>1
<1>3. <<>> \in V
    OBVIOUS
<1>4. PICK f \in [0..n -> V] : f[0] = <<>> /\ \A k \in 1..n : f[k] = step[k][f[k - 1]]
    <2> DEFINE first == <<>>
    <2> HIDE DEF step, V, n, first
    <2>1. first \in V
        BY <1>3 DEF first
    <2>2. n \in Nat
        BY <1>1
    <2>3. \E f \in [0..n -> V] : Runs(f, first, step, n)
        BY <1>2, <2>1, <2>2, Recursion
    <2> QED BY <2>3 DEF first, Runs
<1>5. Seen(f, list)
    <2> SUFFICES ASSUME NEW k \in 1..n PROVE f[k] = Next1(f[k - 1], k)
        BY <1>4 DEF Seen
    <2>1. k - 1 \in 0..n
        BY <1>1
    <2>2. f[k - 1] \in V
        BY <2>1
    <2>3. f[k] = step[k][f[k - 1]]
        BY <1>4
    <2> HIDE DEF V
    <2> QED BY <2>2, <2>3
<1>6. ASSUME NEW g, Kept(g) PROVE g = f
    <2>1. g[0] = <<>>
        BY <1>1, <1>6
    <2>2. ASSUME NEW k \in 1..n PROVE g[k] = Next1(g[k - 1], k)
        <3>1. k \in 0..n /\ k # 0
            BY <1>1
        <3> HIDE DEF Next1
        <3> QED BY <1>6, <3>1
    <2>3. SameSteps(f, g, n)
        BY <1>5, <2>1, <2>2 DEF SameSteps, Seen
    <2>4. \A k \in 0..n : f[k] = g[k]
        <3> HIDE DEF Kept, n
        <3> QED BY <1>1, <2>3, SameFunctions
    <2>5. g = [k \in 0..n |-> g[k]] /\ f = [k \in 0..n |-> f[k]]
        BY <1>6
    <2> QED BY <2>4, <2>5
<1>7. Kept(f)
    <2> DEFINE g == [k \in 0..n |-> IF k = 0 THEN <<>> ELSE Next1(f[k - 1], k)]
    <2>1. ASSUME NEW k \in 0..n PROVE f[k] = g[k]
        <3>1. k = 0 \/ k \in 1 .. Len(list)
            BY <1>1
        <3> QED BY <1>5, <3>1 DEF Seen
    <2>2. f = [k \in 0..n |-> f[k]]
        OBVIOUS
    <2> QED BY <2>1, <2>2
<1>8. (CHOOSE g : Kept(g)) = f
    <2> HIDE DEF Kept
    <2> QED BY <1>6, <1>7
<1>9. Distinct(list) = (CHOOSE g : Kept(g))[n]
    BY DEF Distinct
<1> QED BY <1>5, <1>8, <1>9

\* What is merged is clean, and merging it again changes nothing.
LEMMA DistinctIsClean ==
    ASSUME NEW list \in Seq(Word)
    PROVE  Clean(Distinct(list))
<1>1. PICK f \in [0 .. Len(list) -> Seq(Word)] :
          Seen(f, list) /\ Distinct(list) = f[Len(list)]
    BY DistinctSteps
<1> DEFINE Good == {k \in Nat : k <= Len(list) => Clean(f[k])}
<1>2. 0 \in Good
    BY <1>1 DEF Seen, Clean
<1>3. ASSUME NEW k \in Nat, k \in Good PROVE k + 1 \in Good
    <2> SUFFICES ASSUME k + 1 <= Len(list) PROVE Clean(f[k + 1])
        OBVIOUS
    <2>1. k + 1 \in 1 .. Len(list) /\ (k + 1) - 1 = k /\ Clean(f[k]) /\ list[k + 1] \in Word
        BY <1>3
    <2>2. f[k + 1] = IF list[k + 1] = <<>> \/ list[k + 1] \in Range(f[k]) THEN f[k]
                     ELSE Append(f[k], list[k + 1])
        <3>1. f[k + 1] = IF list[k + 1] = <<>> \/ list[k + 1] \in Range(f[(k + 1) - 1])
                         THEN f[(k + 1) - 1] ELSE Append(f[(k + 1) - 1], list[k + 1])
            BY <1>1, <2>1 DEF Seen
        <3> QED BY <2>1, <3>1
    <2> QED BY <2>1, <2>2, CleanAppend
<1>4. \A k \in Nat : k \in Good
    <2> HIDE DEF Good
    <2> QED BY <1>2, <1>3, Induction
<1>5. Len(list) \in Nat
    OBVIOUS
<1> QED BY <1>1, <1>4, <1>5

LEMMA DistinctOfClean ==
    ASSUME NEW list, Clean(list)
    PROVE  Distinct(list) = list
<1>0. list \in Seq(Word) /\ Len(list) \in Nat /\ DOMAIN list = 1 .. Len(list)
    BY DEF Clean
<1>1. PICK f \in [0 .. Len(list) -> Seq(Word)] :
          Seen(f, list) /\ Distinct(list) = f[Len(list)]
    BY <1>0, DistinctSteps
<1> DEFINE Good == {k \in Nat : k <= Len(list) => f[k] = SubSeq(list, 1, k)}
<1>2. 0 \in Good
    <2>1. SubSeq(list, 1, 0) = <<>>
        BY SubSeqEmpty
    <2> QED BY <1>1, <2>1 DEF Seen
<1>3. ASSUME NEW k \in Nat, k \in Good PROVE k + 1 \in Good
    <2> SUFFICES ASSUME k + 1 <= Len(list) PROVE f[k + 1] = SubSeq(list, 1, k + 1)
        OBVIOUS
    <2> DEFINE front == SubSeq(list, 1, k)
    <2>1. k + 1 \in 1 .. Len(list) /\ (k + 1) - 1 = k /\ k \in 0 .. Len(list) - 1
        BY <1>0
    <2>2. f[k] = front
        BY <1>3, <2>1, <1>0
    <2>3. SubSeq(list, 1, k + 1) = Append(front, list[k + 1])
        BY <1>0, <2>1, Fronts
    <2>4. list[k + 1] \notin Range(front)
        <3>1. 0 + 1 = 1 /\ 0 \in Nat /\ 0 <= k /\ k <= Len(list) /\ k - 0 = k
            BY <2>1
        <3>2. /\ SubSeq(list, 0 + 1, k) \in Seq(Word) /\ Len(SubSeq(list, 0 + 1, k)) = k - 0
              /\ \A i \in 1 .. k - 0 : SubSeq(list, 0 + 1, k)[i] = list[0 + i]
            BY <1>0, <3>1, Parts
        <3>3. DOMAIN front = 1..k /\ \A i \in 1..k : front[i] = list[i]
            BY <3>1, <3>2
        <3> HIDE DEF front
        <3> SUFFICES ASSUME NEW i \in 1..k, front[i] = list[k + 1] PROVE FALSE
            BY <3>3 DEF Range
        <3>4. i \in 1 .. Len(list) /\ i # k + 1 /\ list[i] = list[k + 1]
            BY <2>1, <3>3
        <3> QED BY <1>0, <2>1, <3>4 DEF Clean
    <2>5. list[k + 1] # <<>>
        BY <1>0, <2>1 DEF Clean
    <2>6. f[k + 1] = IF list[k + 1] = <<>> \/ list[k + 1] \in Range(f[(k + 1) - 1])
                     THEN f[(k + 1) - 1] ELSE Append(f[(k + 1) - 1], list[k + 1])
        BY <1>1, <2>1 DEF Seen
    <2> HIDE DEF front
    <2> QED BY <2>1, <2>2, <2>3, <2>4, <2>5, <2>6
<1>4. \A k \in Nat : k \in Good
    <2> HIDE DEF Good
    <2> QED BY <1>2, <1>3, Induction
<1>5. f[Len(list)] = SubSeq(list, 1, Len(list))
    <2>1. Len(list) \in Good
        BY <1>0, <1>4
    <2> QED BY <1>0, <2>1
<1>6. SubSeq(list, 1, Len(list)) = list
    BY <1>0, SubSeqFull
<1> QED BY <1>1, <1>5, <1>6

LEMMA CleanCounts ==
    ASSUME NEW list, Clean(list)
    PROVE  Cardinality(Range(list) \ {<<>>}) = Len(list)
<1> DEFINE n == Len(list)
           S == 1..n
           T == Range(list) \ {<<>>}
<1>1. list \in Seq(Word) /\ n \in Nat /\ DOMAIN list = S
    BY DEF Clean
<1>2. T = {list[i] : i \in S}
    BY <1>1 DEF Range, Clean
<1>3. list \in Bijection(S, T)
    <2>1. list \in [S -> T]
        BY <1>1, <1>2
    <2>2. \A i, j \in S : list[i] = list[j] => i = j
        BY <1>1 DEF Clean
    <2>3. \A t \in T : \E i \in S : list[i] = t
        BY <1>2
    <2> QED BY <2>1, <2>2, <2>3 DEF Bijection, Injection, Surjection, IsInjective
<1>4. ExistsBijection(S, T)
    BY <1>3 DEF ExistsBijection
<1>5. IsFiniteSet(S) /\ Cardinality(S) = n
    <2>1. 1 \in Int /\ n \in Int /\ (IF 1 > n THEN 0 ELSE n - 1 + 1) = n
        BY <1>1
    <2> HIDE DEF n
    <2> QED BY <2>1, FS_Interval
<1> HIDE DEF S, T
<1> QED BY <1>4, <1>5, FS_Bijection DEF T

-----------------------------------------------------------------------------
(* The prompt *)

Signs == {Header, Sep}
Plain == Token \ {Tag}

LEMMA SignsAreNoLetters ==
    /\ Signs \cap Letters = {} /\ Letters \cup Signs \subseteq Plain
    /\ Header # Sep /\ Header \in Signs /\ Sep \in Signs /\ Tag \notin Plain
BY TranscriptAssumption DEF Signs, Plain, Token, Header, Sep, Tag, Punct

\* A text stands in another one, behind the k-th place.
Occurs(part, text, k) ==
    k + Len(part) <= Len(text) /\ \A j \in 1 .. Len(part) : text[k + j] = part[j]

\* Behind each sign of a prompt stand two words of the list that follow each
\* other, or the last word and nothing more.
Marked(list, n, text) ==
    /\ text \in Seq(Letters \cup Signs) /\ Len(text) >= 1 /\ text[1] = Header
    /\ \A k \in DOMAIN text : text[k] \in Signs =>
          \/ \E i \in 1 .. n - 1 : Occurs(Adjacent(list, i), text, k)
          \/ Len(text) = k + Len(list[n]) /\ Occurs(list[n], text, k)

LEMMA AdjacentWords ==
    ASSUME NEW list \in Seq(Word), NEW i \in 1 .. Len(list) - 1
    PROVE  /\ list[i] \in Word /\ list[i + 1] \in Word
           /\ Adjacent(list, i) \in Seq(Letters \cup Signs)
           /\ Len(Adjacent(list, i)) = Len(list[i]) + 1 + Len(list[i + 1])
           /\ \A j \in 1 .. Len(list[i]) : Adjacent(list, i)[j] = list[i][j]
           /\ Adjacent(list, i)[Len(list[i]) + 1] = Sep
           /\ \A j \in 1 .. Len(list[i + 1]) :
                 Adjacent(list, i)[Len(list[i]) + 1 + j] = list[i + 1][j]
<1> DEFINE L == Letters \cup Signs
           u == list[i]
           v == list[i + 1]
           us == u \o <<Sep>>
<1>1. u \in Word /\ v \in Word
    OBVIOUS
<1> HIDE DEF u, v
<1>2. u \in Seq(Letters) /\ v \in Seq(Letters) /\ Len(u) \in Nat /\ Len(v) \in Nat
    BY <1>1 DEF Word
<1>3. u \in Seq(L) /\ v \in Seq(L) /\ <<Sep>> \in Seq(L)
    BY <1>2 DEF Signs
<1> HIDE DEF L
<1>4. us \in Seq(L) /\ Len(us) = Len(u) + 1 /\ us[Len(u) + 1] = Sep
      /\ \A j \in 1 .. Len(u) : us[j] = u[j]
    BY <1>2, <1>3
<1> HIDE DEF us
<1>5. /\ us \o v \in Seq(L) /\ Len(us \o v) = Len(u) + 1 + Len(v)
      /\ \A j \in 1 .. Len(u) + 1 : (us \o v)[j] = us[j]
      /\ \A j \in 1 .. Len(v) : (us \o v)[Len(u) + 1 + j] = v[j]
    <2>1. /\ us \o v \in Seq(L) /\ Len(us \o v) = Len(us) + Len(v)
          /\ \A j \in 1 .. Len(us) : (us \o v)[j] = us[j]
          /\ \A j \in 1 .. Len(v) : (us \o v)[Len(us) + j] = v[j]
        <3>1. OneThenOther(L, us, v)
            BY <1>3, <1>4, Concats
        <3> QED BY <3>1 DEF OneThenOther
    <2> QED BY <1>4, <2>1
<1>6. Adjacent(list, i) = us \o v
    BY DEF Adjacent, us, u, v
<1> HIDE DEF Adjacent
<1>7. \A j \in 1 .. Len(u) : Adjacent(list, i)[j] = u[j]
    BY <1>2, <1>4, <1>5, <1>6
<1>8. Adjacent(list, i)[Len(u) + 1] = Sep
    BY <1>2, <1>4, <1>5, <1>6
<1> QED BY <1>1, <1>5, <1>6, <1>7, <1>8 DEF u, v, L

LEMMA MarkedFirst ==
    ASSUME NEW list \in Seq(Word), Len(list) >= 1
    PROVE  Marked(list, 1, <<Header>> \o list[1])
<1> DEFINE w == list[1]
           text == <<Header>> \o w
           L == Letters \cup Signs
<1>1. w \in Seq(Letters) /\ Len(w) \in Nat
    BY DEF Word
<1> HIDE DEF w
<1>2. w \in Seq(L) /\ <<Header>> \in Seq(L)
    BY <1>1, SignsAreNoLetters
<1> HIDE DEF L
<1>3. /\ text \in Seq(L) /\ Len(text) = 1 + Len(w) /\ text[1] = Header
      /\ \A j \in 1 .. Len(w) : text[1 + j] = w[j]
    BY <1>1, <1>2
<1> HIDE DEF text
<1>4. ASSUME NEW k \in DOMAIN text, text[k] \in Signs
      PROVE  Len(text) = k + Len(w) /\ Occurs(w, text, k)
    <2>1. CASE k = 1
        BY <1>1, <1>3, <2>1 DEF Occurs
    <2>2. CASE k # 1
        <3>1. k - 1 \in 1 .. Len(w) /\ 1 + (k - 1) = k
            BY <1>1, <1>3, <2>2
        <3>2. text[k] = w[k - 1] /\ w[k - 1] \in Letters
            BY <1>1, <1>3, <3>1
        <3> QED BY <1>4, <3>2, SignsAreNoLetters
    <2> QED BY <2>1, <2>2
<1>5. Len(text) >= 1
    BY <1>1, <1>3
<1> QED BY <1>3, <1>4, <1>5 DEF Marked, text, w, L

LEMMA MarkedNext ==
    ASSUME NEW list \in Seq(Word), NEW n \in 1 .. Len(list) - 1, NEW text,
           Marked(list, n, text)
    PROVE  Marked(list, n + 1, text \o (<<Sep>> \o list[n + 1]))
<1> DEFINE L == Letters \cup Signs
           w == list[n + 1]
           more == text \o (<<Sep>> \o w)
           m == Len(text)
<1>1. /\ text \in Seq(L) /\ m \in Nat /\ m >= 1 /\ text[1] = Header /\ DOMAIN text = 1..m
      /\ n \in Nat
    BY DEF Marked
<1>2. /\ list[n] \in Word /\ w \in Word /\ Len(list[n]) \in Nat /\ Len(w) \in Nat
      /\ w \in Seq(Letters)
    BY AdjacentWords DEF Word
<1> HIDE DEF w
<1>3. w \in Seq(L) /\ <<Sep>> \in Seq(L)
    BY <1>2, SignsAreNoLetters
<1> HIDE DEF L
<1> DEFINE sw == <<Sep>> \o w
<1>4. /\ sw \in Seq(L) /\ Len(sw) = 1 + Len(w) /\ sw[1] = Sep
      /\ \A j \in 1 .. Len(w) : sw[1 + j] = w[j]
    BY <1>2, <1>3
<1> HIDE DEF sw
<1>5. /\ text \o sw \in Seq(L) /\ Len(text \o sw) = m + 1 + Len(w)
      /\ \A j \in 1..m : (text \o sw)[j] = text[j]
      /\ \A j \in 1 .. 1 + Len(w) : (text \o sw)[m + j] = sw[j]
    <2>1. /\ text \o sw \in Seq(L) /\ Len(text \o sw) = Len(text) + Len(sw)
          /\ \A j \in 1 .. Len(text) : (text \o sw)[j] = text[j]
          /\ \A j \in 1 .. Len(sw) : (text \o sw)[Len(text) + j] = sw[j]
        <3>1. OneThenOther(L, text, sw)
            BY <1>1, <1>4, Concats
        <3> QED BY <3>1 DEF OneThenOther
    <2>2. Len(sw) = 1 + Len(w) /\ m + (1 + Len(w)) = m + 1 + Len(w)
        BY <1>1, <1>2, <1>4
    <2> QED BY <2>1, <2>2
<1>6. more = text \o sw
    BY DEF sw
<1> HIDE DEF more, m
<1>7. /\ more \in Seq(L) /\ Len(more) = m + 1 + Len(w) /\ DOMAIN more = 1 .. m + 1 + Len(w)
      /\ \A j \in 1..m : more[j] = text[j]
      /\ \A j \in 1 .. 1 + Len(w) : more[m + j] = sw[j]
    <2>1. more \in Seq(L) /\ Len(more) = m + 1 + Len(w)
        BY <1>5, <1>6
    <2>2. \A j \in 1..m : more[j] = text[j]
        BY <1>5, <1>6
    <2>3. \A j \in 1 .. 1 + Len(w) : more[m + j] = sw[j]
        BY <1>5, <1>6
    <2>4. DOMAIN more = 1 .. m + 1 + Len(w)
        BY <2>1
    <2> QED BY <2>1, <2>2, <2>3, <2>4
<1>8. /\ more[m + 1] = Sep
      /\ \A j \in 1 .. Len(w) : more[m + 1 + j] = w[j]
    <2>1. more[m + 1] = sw[1]
        BY <1>2, <1>7
    <2>2. ASSUME NEW j \in 1 .. Len(w) PROVE more[m + 1 + j] = w[j]
        <3>1. 1 + j \in 1 .. 1 + Len(w) /\ m + (1 + j) = m + 1 + j
            BY <1>1, <1>2
        <3>2. more[m + (1 + j)] = sw[1 + j]
            BY <1>7, <3>1
        <3> QED BY <1>4, <3>1, <3>2
    <2> QED BY <1>4, <2>1, <2>2
<1>9. ASSUME NEW k \in 1..m, text[k] \in Signs
      PROVE  \E i \in 1..n : Occurs(Adjacent(list, i), more, k)
    <2>1. CASE \E i \in 1 .. n - 1 : Occurs(Adjacent(list, i), text, k)
        <3>1. PICK i \in 1 .. n - 1 : Occurs(Adjacent(list, i), text, k)
            BY <2>1
        <3> DEFINE a == Adjacent(list, i)
        <3>2. Len(a) \in Nat
            <4>1. i \in 1 .. Len(list) - 1
                BY <1>1
            <4> QED BY <4>1, AdjacentWords
        <3> HIDE DEF a
        <3>3. k + Len(a) <= m /\ \A j \in 1 .. Len(a) : text[k + j] = a[j]
            BY <3>1 DEF Occurs, a, m
        <3>4. \A j \in 1 .. Len(a) : k + j \in 1..m
            BY <1>1, <3>2, <3>3
        <3>5. k + Len(a) <= Len(more) /\ \A j \in 1 .. Len(a) : more[k + j] = a[j]
            BY <1>1, <1>2, <1>7, <3>2, <3>3, <3>4
        <3>6. i \in 1..n
            BY <1>1
        <3> QED BY <3>5, <3>6 DEF Occurs, a
    <2>2. CASE m = k + Len(list[n]) /\ Occurs(list[n], text, k)
        <3> DEFINE u == list[n]
                   a == Adjacent(list, n)
        <3>1. /\ Len(a) = Len(u) + 1 + Len(w)
              /\ \A j \in 1 .. Len(u) : a[j] = u[j]
              /\ a[Len(u) + 1] = Sep
              /\ \A j \in 1 .. Len(w) : a[Len(u) + 1 + j] = w[j]
            BY AdjacentWords DEF w
        <3>2. m = k + Len(u) /\ Len(u) \in Nat /\ \A j \in 1 .. Len(u) : text[k + j] = u[j]
            BY <1>2, <2>2 DEF Occurs
        <3> HIDE DEF a, u
        <3>3. k + Len(a) = Len(more)
            BY <1>1, <1>2, <1>7, <3>1, <3>2
        <3>4. ASSUME NEW j \in 1 .. Len(a) PROVE more[k + j] = a[j]
            <4>1. CASE j \in 1 .. Len(u)
                <5>1. k + j \in 1..m
                    BY <1>1, <3>2, <4>1
                <5> QED BY <1>7, <3>1, <3>2, <4>1, <5>1
            <4>2. CASE j = Len(u) + 1
                <5>1. k + j = m + 1
                    BY <3>2, <4>2
                <5> QED BY <1>8, <3>1, <4>2, <5>1
            <4>3. CASE j > Len(u) + 1
                <5> DEFINE l == j - (Len(u) + 1)
                <5>1. l \in 1 .. Len(w) /\ j = Len(u) + 1 + l /\ k + j = m + 1 + l
                    BY <1>2, <3>1, <3>2, <4>3
                <5> HIDE DEF l
                <5>2. more[m + 1 + l] = w[l] /\ a[Len(u) + 1 + l] = w[l]
                    BY <1>8, <3>1, <5>1
                <5> QED BY <5>1, <5>2
            <4>4. j \in Int /\ 1 <= j /\ Len(u) \in Int
                BY <1>2, <3>1, <3>2
            <4>5. j \in 1 .. Len(u) \/ j = Len(u) + 1 \/ j > Len(u) + 1
                BY <4>4
            <4> QED BY <4>1, <4>2, <4>3, <4>5
        <3>5. n \in 1..n /\ k + Len(a) <= Len(more)
            BY <1>1, <1>2, <1>7, <3>3
        <3> QED BY <3>4, <3>5 DEF Occurs, a
    <2> QED BY <1>1, <1>9, <2>1, <2>2 DEF Marked, m
<1>10. ASSUME NEW k \in DOMAIN more, more[k] \in Signs
       PROVE  \/ \E i \in 1 .. (n + 1) - 1 : Occurs(Adjacent(list, i), more, k)
              \/ Len(more) = k + Len(w) /\ Occurs(w, more, k)
    <2>1. CASE k \in 1..m
        <3>1. text[k] \in Signs /\ (n + 1) - 1 = n
            BY <1>1, <1>7, <1>10, <2>1
        <3> QED BY <1>9, <2>1, <3>1
    <2>2. CASE k = m + 1
        <3>1. k + Len(w) <= Len(more) /\ Len(more) = k + Len(w)
            BY <1>1, <1>2, <1>7, <2>2
        <3> QED BY <1>8, <2>2, <3>1 DEF Occurs
    <2>3. CASE k > m + 1
        <3>1. k - (m + 1) \in 1 .. Len(w) /\ m + 1 + (k - (m + 1)) = k
            BY <1>1, <1>2, <1>7, <2>3
        <3>2. more[k] = w[k - (m + 1)] /\ w[k - (m + 1)] \in Letters
            BY <1>2, <1>8, <3>1
        <3> QED BY <1>10, <3>2, SignsAreNoLetters
    <2> QED BY <1>1, <1>2, <1>7, <2>1, <2>2, <2>3
<1>11. Len(more) >= 1 /\ more[1] = Header
    BY <1>1, <1>2, <1>7
<1>12. Marked(list, n + 1, more)
    BY <1>7, <1>10, <1>11 DEF Marked, w, L
<1> QED BY <1>12 DEF more, w

\* The prompt of a list that holds no word twice.
LEMMA PromptIsMarked ==
    ASSUME NEW list, Clean(list), list # <<>>
    PROVE  Marked(list, Len(list), HotwordContext(list))
<1> DEFINE n == Len(list)
           L == Letters \cup Signs
           first == <<Header>> \o list[1]
           seps == [i \in 1 .. n - 1 |-> <<Sep>> \o list[i + 1]]
           To(m) == first \o FlattenSeq(SubSeq(seps, 1, m))
<1>1. list \in Seq(Word) /\ n \in Nat /\ n >= 1
    BY DEF Clean
<1>2. HotwordContext(list) = first \o FlattenSeq(seps)
    BY DistinctOfClean DEF HotwordContext
<1>3. Marked(list, 1, first) /\ first \in Seq(L)
    BY <1>1, MarkedFirst DEF Marked
<1> HIDE DEF first
<1>4. \A i \in 1 .. n - 1 : <<Sep>> \o list[i + 1] \in Seq(L)
    <2> SUFFICES ASSUME NEW i \in 1 .. n - 1 PROVE <<Sep>> \o list[i + 1] \in Seq(L)
        OBVIOUS
    <2>1. list[i + 1] \in Seq(Letters)
        BY <1>1 DEF Word
    <2>2. list[i + 1] \in Seq(L) /\ <<Sep>> \in Seq(L)
        BY <2>1, SignsAreNoLetters
    <2> HIDE DEF L
    <2> QED BY <2>2, ConcatProperties
<1> HIDE DEF n, L
<1>5. seps \in [1 .. n - 1 -> Seq(L)] /\ \A i \in 1 .. n - 1 : seps[i] = <<Sep>> \o list[i + 1]
    BY <1>4
<1> HIDE DEF seps
<1>6. seps \in Seq(Seq(L)) /\ Len(seps) = n - 1
    BY <1>1, <1>5
<1> DEFINE Good == {m \in Nat : m <= n - 1 => Marked(list, m + 1, To(m))}
<1>7. 0 \in Good
    <2>1. SubSeq(seps, 1, 0) = <<>> /\ first \o <<>> = first /\ 0 + 1 = 1
        BY <1>3, SubSeqEmpty, ConcatEmptySeq
    <2> QED BY <1>3, <2>1, FlattenNone
<1>8. ASSUME NEW m \in Nat, m \in Good PROVE m + 1 \in Good
    <2> SUFFICES ASSUME m + 1 <= n - 1 PROVE Marked(list, (m + 1) + 1, To(m + 1))
        OBVIOUS
    <2>1. m \in 0 .. Len(seps) - 1 /\ m + 1 \in 1 .. n - 1 /\ m + 1 \in 1 .. Len(list) - 1
        BY <1>1, <1>6 DEF n
    <2> DEFINE flat == FlattenSeq(SubSeq(seps, 1, m))
               sep == <<Sep>> \o list[(m + 1) + 1]
    <2>2. flat \in Seq(L) /\ FlattenSeq(SubSeq(seps, 1, m + 1)) = flat \o seps[m + 1]
        BY <1>6, <2>1, FlattenTo
    <2>3. seps[m + 1] = sep /\ sep \in Seq(L)
        BY <1>4, <1>5, <2>1
    <2>4. Marked(list, m + 1, first \o flat)
        BY <1>1, <1>8, <2>1
    <2>5. Marked(list, (m + 1) + 1, (first \o flat) \o sep)
        BY <1>1, <2>1, <2>4, MarkedNext
    <2>6. To(m + 1) = first \o (flat \o sep)
        BY <2>2, <2>3
    <2> HIDE DEF flat, sep, To
    <2>7. Agree(first, flat, sep)
        BY <1>3, <2>2, <2>3, ConcatsAgree
    <2>8. To(m + 1) = (first \o flat) \o sep
        BY <2>6, <2>7 DEF Agree
    <2> QED BY <2>5, <2>8
<1>9. Marked(list, (n - 1) + 1, To(n - 1))
    <2>1. \A m \in Nat : m \in Good
        <3> HIDE DEF Good
        <3> QED BY <1>7, <1>8, Induction
    <2>2. n - 1 \in Nat /\ n - 1 <= n - 1
        BY <1>1
    <2> HIDE DEF To
    <2> QED BY <2>1, <2>2
<1>10. SubSeq(seps, 1, n - 1) = seps /\ (n - 1) + 1 = n
    BY <1>1, <1>6, SubSeqFull
<1> QED BY <1>2, <1>9, <1>10 DEF n

-----------------------------------------------------------------------------
(* The reply *)

LEMMA PrefixOf ==
    ASSUME NEW T, NEW a \in Seq(T), NEW t \in Seq(T)
    PROVE  IsPrefix(a, t) <=> Len(a) <= Len(t) /\ \A j \in 1 .. Len(a) : t[j] = a[j]
<1> DEFINE n == Len(a)
<1>1. n \in Nat /\ Len(t) \in Nat /\ SubSeq(a, 1, n) = a
    BY SubSeqFull
<1>2. IsPrefix(a, t) <=> n <= Len(t) /\ a = SubSeq(t, 1, n)
    BY <1>1 DEF IsPrefix
<1>3. ASSUME n <= Len(t)
      PROVE  a = SubSeq(t, 1, n) <=> \A j \in 1..n : t[j] = a[j]
    <2> DEFINE p == SubSeq(t, 1, n)
    <2>1. 0 + 1 = 1 /\ 0 \in Nat /\ 0 <= n
        BY <1>1
    <2>2. /\ SubSeq(t, 0 + 1, n) \in Seq(T) /\ Len(SubSeq(t, 0 + 1, n)) = n - 0
          /\ \A i \in 1 .. n - 0 : SubSeq(t, 0 + 1, n)[i] = t[0 + i]
        BY <1>1, <1>3, <2>1, Parts
    <2>3. p \in Seq(T) /\ Len(p) = n /\ \A i \in 1..n : p[i] = t[i]
        BY <1>1, <2>1, <2>2
    <2> HIDE DEF p
    <2>4. CASE \A j \in 1..n : t[j] = a[j]
        <3>1. \A j \in 1 .. Len(a) : a[j] = p[j]
            BY <2>3, <2>4
        <3>2. a = p
            BY <2>3, <3>1, SeqEqual
        <3> QED BY <2>4, <3>2 DEF p
    <2>5. CASE ~\A j \in 1..n : t[j] = a[j]
        <3>1. a # p
            BY <2>3, <2>5
        <3> QED BY <2>5, <3>1 DEF p
    <2> QED BY <2>4, <2>5
<1> QED BY <1>2, <1>3

\* A prompt that is said back from its header or from a word on, and beyond the
\* word it began with, is told by its beginning.
LEMMA EchoIsCaught ==
    ASSUME NEW list, Clean(list), NEW echo \in WordStarts(HotwordContext(list)),
           NEW speech \in Seq(Plain),
           Range(SubSeq(HotwordContext(list), echo, Len(HotwordContext(list)))) \cap Signs # {}
    PROVE  FilterHallucination(SubSeq(HotwordContext(list), echo, Len(HotwordContext(list)))
                                   \o speech, list) = <<>>
<1> DEFINE p == HotwordContext(list)
           n == Len(p)
           a == echo - 1
           said == SubSeq(p, echo, n)
           text == said \o speech
<1>1. list # <<>>
    <2> SUFFICES ASSUME list = <<>> PROVE FALSE
        OBVIOUS
    <2>1. p = <<>>
        BY DistinctOfClean DEF HotwordContext
    <2>2. n = 0 /\ echo = 1
        BY <2>1 DEF WordStarts
    <2>3. said = <<>>
        BY <2>2, SubSeqEmpty
    <2>4. Range(<<>>) = {}
        BY DEF Range
    <2> QED BY <2>3, <2>4
<1>2. Marked(list, Len(list), p) /\ list \in Seq(Word)
    BY <1>1, PromptIsMarked DEF Clean
<1>3. p \in Seq(Letters \cup Signs) /\ n \in Nat /\ DOMAIN p = 1..n /\ p[1] = Header
    BY <1>2 DEF Marked
<1>4. p \in Seq(Plain)
    <2>1. \A k \in 1..n : p[k] \in Plain
        BY <1>3, SignsAreNoLetters
    <2>2. p = [k \in 1..n |-> p[k]]
        BY <1>3
    <2> HIDE DEF p
    <2> QED BY <1>3, <2>1, <2>2
<1>5. (echo \in 1..n /\ (echo = 1 \/ p[echo - 1] \in Signs)) \/ echo = n + 1
    BY <1>3 DEF WordStarts, Signs
<1> HIDE DEF p
<1>6. echo \in 1..n /\ (echo = 1 \/ p[a] \in Signs)
    <2> SUFFICES ASSUME echo = n + 1 PROVE FALSE
        BY <1>5
    <2>1. said = <<>>
        BY <1>3, SubSeqEmpty
    <2>2. Range(<<>>) = {}
        BY DEF Range
    <2> QED BY <2>1, <2>2 DEF p
<1>7. a \in Nat /\ a + 1 = echo /\ a <= n
    BY <1>3, <1>6
<1>8. /\ said \in Seq(Plain) /\ Len(said) = n - a /\ \A i \in 1 .. n - a : said[i] = p[a + i]
    <2>1. /\ SubSeq(p, a + 1, n) \in Seq(Plain) /\ Len(SubSeq(p, a + 1, n)) = n - a
          /\ \A i \in 1 .. n - a : SubSeq(p, a + 1, n)[i] = p[a + i]
        <3>1. n <= Len(p)
            BY <1>3
        <3> HIDE DEF n, a
        <3> QED BY <1>3, <1>4, <1>7, <3>1, Parts
    <2> QED BY <1>7, <2>1
<1>9. Range(said) \cap Signs # {}
    BY DEF p
<1> HIDE DEF said
<1>10. OneThenOther(Plain, said, speech)
    BY <1>8, Concats
<1>11. /\ text \in Seq(Plain) /\ Len(text) = (n - a) + Len(speech) /\ Len(speech) \in Nat
       /\ \A j \in 1 .. n - a : text[j] = p[a + j]
    BY <1>8, <1>10 DEF OneThenOther
<1> HIDE DEF text, n, a
<1>12. CASE echo = 1
    <2>1. a = 0 /\ 1 \in 1 .. n - a /\ a + 1 = 1
        BY <1>3, <1>6, <1>7, <1>12
    <2>2. text[1] = Header
        BY <1>3, <1>11, <2>1
    <2>3. <<Header>> \in Seq(Plain) /\ Len(<<Header>>) = 1 /\ <<Header>>[1] = Header
        BY SignsAreNoLetters
    <2>4. Len(<<Header>>) <= Len(text) /\ \A j \in 1 .. Len(<<Header>>) : text[j] = <<Header>>[j]
        BY <1>3, <1>11, <2>1, <2>2, <2>3
    <2>5. IsPrefix(<<Header>>, text)
        BY <1>11, <2>3, <2>4, PrefixOf
    <2>6. FilterHallucination(text, list) = <<>>
        BY <1>1, <2>5 DEF FilterHallucination
    <2> QED BY <2>6 DEF text, said, p, n
<1>13. CASE echo # 1
    <2>1. a \in 1..n /\ p[a] \in Signs
        BY <1>3, <1>6, <1>7, <1>13
    <2>2. CASE \E i \in 1 .. Len(list) - 1 : Occurs(Adjacent(list, i), p, a)
        <3>1. PICK i \in 1 .. Len(list) - 1 : Occurs(Adjacent(list, i), p, a)
            BY <2>2
        <3> DEFINE w == Adjacent(list, i)
        <3>2. w \in Seq(Letters \cup Signs) /\ Len(w) \in Nat
            <4>1. Adjacent(list, i) \in Seq(Letters \cup Signs)
                BY <1>2, AdjacentWords
            <4> HIDE DEF Adjacent
            <4> QED BY <4>1
        <3> HIDE DEF w
        <3>3. w \in Seq(Plain)
            <4>1. \A k \in 1 .. Len(w) : w[k] \in Plain
                BY <3>2, SignsAreNoLetters
            <4>2. w = [k \in 1 .. Len(w) |-> w[k]]
                BY <3>2
            <4> QED BY <3>2, <4>1, <4>2
        <3>4. a + Len(w) <= n /\ \A j \in 1 .. Len(w) : p[a + j] = w[j]
            BY <3>1 DEF Occurs, w, n
        <3>5. Len(w) <= Len(text) /\ \A j \in 1 .. Len(w) : text[j] = w[j]
            <4>1. 1 .. Len(w) \subseteq 1 .. n - a
                BY <1>3, <1>7, <3>2, <3>4
            <4>2. \A j \in 1 .. Len(w) : text[j] = w[j]
                BY <1>11, <3>4, <4>1
            <4>3. n \in Nat /\ Len(text) = (n - a) + Len(speech) /\ Len(speech) \in Nat
                BY <1>3, <1>11
            <4>4. Len(w) \in Nat /\ a + Len(w) <= n
                BY <3>2, <3>4
            <4>5. Len(w) <= Len(text)
                BY <1>7, <4>3, <4>4
            <4> QED BY <4>2, <4>5
        <3>6. IsPrefix(w, text)
            BY <1>11, <3>3, <3>5, PrefixOf
        <3>7. FilterHallucination(text, list) = <<>>
            BY <1>1, <3>6 DEF FilterHallucination, w
        <3> QED BY <3>7 DEF text, said, p, n
    <2>3. CASE n = a + Len(list[Len(list)]) /\ Occurs(list[Len(list)], p, a)
        <3> DEFINE w == list[Len(list)]
        <3>1. w \in Seq(Letters)
            <4>1. Len(list) \in 1 .. Len(list)
                BY <1>1, <1>2
            <4>2. w \in Word
                BY <1>2, <4>1
            <4> QED BY <4>2 DEF Word
        <3> HIDE DEF w
        <3>2. Len(w) = n - a /\ \A j \in 1 .. Len(w) : p[a + j] = w[j]
            <4>1. n = a + Len(w) /\ Occurs(w, p, a)
                BY <2>3 DEF w
            <4>2. Len(w) \in Nat
                BY <3>1
            <4>3. \A j \in 1 .. Len(w) : p[a + j] = w[j]
                BY <4>1 DEF Occurs
            <4> QED BY <1>3, <1>7, <4>1, <4>2, <4>3
        <3>3. ASSUME NEW j \in DOMAIN said PROVE said[j] \notin Signs
            <4>1. j \in 1 .. n - a /\ j \in 1 .. Len(w)
                BY <1>8, <3>2, <3>3
            <4>2. said[j] = w[j] /\ w[j] \in Letters
                BY <1>8, <3>1, <3>2, <4>1
            <4> QED BY <4>2, SignsAreNoLetters
        <3> QED BY <1>9, <3>3 DEF Range
    <2> QED BY <1>2, <1>3, <2>1, <2>2, <2>3 DEF Marked, n
<1> QED BY <1>12, <1>13

\* What is said reaches the client unless it begins like two hotwords.
LEMMA SpeechPasses ==
    ASSUME NEW list \in Seq(Word), NEW speech \in Speech,
           \A i \in 1 .. Len(list) - 1 : ~IsPrefix(Adjacent(list, i), speech)
    PROVE  FilterHallucination(speech, list) = speech
<1>1. speech \in Seq(Letters \cup {Sep, Punct})
    BY TranscriptAssumption
<1>2. Header \notin Letters \cup {Sep, Punct}
    BY TranscriptAssumption DEF Header, Sep, Punct
<1> DEFINE T == Token
<1>3. speech \in Seq(T) /\ <<Header>> \in Seq(T)
    <2>1. Letters \cup {Sep, Punct} \subseteq T /\ Header \in T
        BY DEF Token
    <2>2. /\ Len(speech) \in Nat /\ DOMAIN speech = 1 .. Len(speech)
          /\ \A k \in 1 .. Len(speech) : speech[k] \in T
        BY <1>1, <2>1
    <2>3. speech = [k \in 1 .. Len(speech) |-> speech[k]]
        BY <1>1
    <2> HIDE DEF T
    <2> QED BY <2>1, <2>2, <2>3
<1> HIDE DEF T
<1>4. ~IsPrefix(<<Header>>, speech)
    <2> SUFFICES ASSUME IsPrefix(<<Header>>, speech) PROVE FALSE
        OBVIOUS
    <2> DEFINE h == <<Header>>
    <2>1. Len(h) = 1 /\ h[1] = Header /\ h \in Seq(T) /\ IsPrefix(h, speech)
        BY <1>3
    <2> HIDE DEF h
    <2>2. Len(h) <= Len(speech) /\ \A j \in 1 .. Len(h) : speech[j] = h[j]
        BY <1>3, <2>1, PrefixOf
    <2>3. 1 \in 1 .. Len(speech) /\ speech[1] = Header
        BY <1>1, <2>1, <2>2
    <2> QED BY <1>1, <1>2, <2>3
<1> QED BY <1>4 DEF FilterHallucination

LEMMA SpeechIsPlain == Speech \subseteq Seq(Plain)
<1> SUFFICES ASSUME NEW speech \in Speech PROVE speech \in Seq(Plain)
    OBVIOUS
<1>1. speech \in Seq(Letters \cup {Sep, Punct})
    BY TranscriptAssumption
<1>2. Letters \cup {Sep, Punct} \subseteq Plain
    BY SignsAreNoLetters DEF Plain, Token, Punct, Tag
<1>3. /\ Len(speech) \in Nat /\ DOMAIN speech = 1 .. Len(speech)
      /\ \A k \in 1 .. Len(speech) : speech[k] \in Plain
    BY <1>1, <1>2
<1>4. speech = [k \in 1 .. Len(speech) |-> speech[k]]
    BY <1>1
<1> QED BY <1>3, <1>4

\* The tags go, wherever they are.
Parsed(t1, said, t2, speech, t3) ==
    ParseResponse(t1 \o said \o t2 \o speech \o t3) = said \o speech

LEMMA ParseDropsTags ==
    ASSUME NEW t1 \in {<<>>, <<Tag>>}, NEW t2 \in {<<>>, <<Tag>>}, NEW t3 \in {<<>>, <<Tag>>},
           NEW said \in Seq(Plain), NEW speech \in Seq(Plain)
    PROVE  Parsed(t1, said, t2, speech, t3)
<1> DEFINE T == Token
           P(s) == Only(s, Plain)
<1>1. \A s : ParseResponse(s) = P(s)
    BY DEF ParseResponse, Plain
<1>2. /\ t1 \in Seq(T) /\ t2 \in Seq(T) /\ t3 \in Seq(T)
    <2>1. Tag \in T
        BY DEF Token
    <2> HIDE DEF T
    <2>2. <<>> \in Seq(T) /\ <<Tag>> \in Seq(T)
        BY <2>1
    <2> QED BY <2>2
<1>3. said \in Seq(T) /\ speech \in Seq(T)
    <2>1. Plain \subseteq T
        BY DEF Plain
    <2>2. ASSUME NEW s \in Seq(Plain) PROVE s \in Seq(T)
        <3>1. /\ Len(s) \in Nat /\ DOMAIN s = 1 .. Len(s) /\ \A k \in 1 .. Len(s) : s[k] \in T
            BY <2>1
        <3>2. s = [k \in 1 .. Len(s) |-> s[k]]
            OBVIOUS
        <3> HIDE DEF T
        <3> QED BY <3>1, <3>2
    <2> QED BY <2>2
<1>4. ASSUME NEW t \in {<<>>, <<Tag>>} PROVE P(t) = <<>>
    <2>1. CASE t = <<>>
        BY <2>1, OnlyNone
    <2>2. CASE t = <<Tag>>
        <3>1. t \in Seq({Tag}) /\ DOMAIN t = {1} /\ t[1] = Tag
            BY <2>2
        <3>2. \A k \in DOMAIN t : t[k] \notin Plain
            BY <3>1 DEF Plain
        <3> QED BY <3>1, <3>2, OnlyNothing
    <2> QED BY <2>1, <2>2
<1>5. ASSUME NEW s \in Seq(Plain) PROVE P(s) = s
    <2>1. \A k \in DOMAIN s : s[k] \in Plain
        OBVIOUS
    <2> QED BY <2>1, OnlyAll
<1> HIDE DEF T
<1> DEFINE s1 == t1 \o said
           s2 == s1 \o t2
           s3 == s2 \o speech
<1>6. s1 \in Seq(T) /\ P(s1) = said
    <2>1. P(s1) = P(t1) \o P(said)
        <3>1. OneByOne(Plain, t1, said)
            BY <1>2, <1>3, OnlyConcat
        <3> QED BY <3>1 DEF OneByOne, s1
    <2>2. <<>> \o said = said
        BY ConcatEmptySeq
    <2>3. P(t1) = <<>> /\ P(said) = said
        BY <1>4, <1>5
    <2> QED BY <1>2, <1>3, <2>1, <2>2, <2>3, ConcatProperties
<1> HIDE DEF s1
<1>7. s2 \in Seq(T) /\ P(s2) = said
    <2>1. P(s2) = P(s1) \o P(t2)
        <3>1. OneByOne(Plain, s1, t2)
            BY <1>2, <1>6, OnlyConcat
        <3> QED BY <3>1 DEF OneByOne, s2
    <2>2. said \o <<>> = said
        BY ConcatEmptySeq
    <2>3. P(t2) = <<>>
        BY <1>4
    <2> QED BY <1>2, <1>6, <2>1, <2>2, <2>3, ConcatProperties
<1> HIDE DEF s2
<1>8. s3 \in Seq(T) /\ P(s3) = said \o speech
    <2>1. P(s3) = P(s2) \o P(speech)
        <3>1. OneByOne(Plain, s2, speech)
            BY <1>3, <1>7, OnlyConcat
        <3> QED BY <3>1 DEF OneByOne, s3
    <2>2. P(speech) = speech
        BY <1>5
    <2> QED BY <1>3, <1>7, <2>1, <2>2, ConcatProperties
<1> HIDE DEF s3
<1>9. P(s3 \o t3) = P(s3) \o P(t3)
    <2>1. OneByOne(Plain, s3, t3)
        BY <1>2, <1>8, OnlyConcat
    <2> QED BY <2>1 DEF OneByOne
<1>10. (said \o speech) \o <<>> = said \o speech
    <2>1. said \o speech \in Seq(Plain)
        BY ConcatProperties
    <2> HIDE DEF P
    <2> QED BY <2>1, ConcatEmptySeq
<1>11. P(t3) = <<>>
    BY <1>4
<1>12. P(s3 \o t3) = said \o speech
    BY <1>8, <1>9, <1>10, <1>11
<1> QED BY <1>1, <1>12 DEF s1, s2, s3, Parsed

\* Punctuation is stripped from the end only.
LEMMA StripIsPlain ==
    ASSUME NEW text \in Seq(Plain)
    PROVE  StripTrailingPunct(text) \in Seq(Plain)
<1> DEFINE said == {k \in DOMAIN text : text[k] # Punct}
           last == CHOOSE k \in said : \A i \in said : i <= k
<1>1. StripTrailingPunct(text) = IF said = {} THEN <<>> ELSE SubSeq(text, 1, last)
    BY DEF StripTrailingPunct
<1>2. CASE said = {}
    BY <1>1, <1>2
<1>3. CASE said # {}
    <2>1. said \subseteq 1 .. Len(text) /\ Len(text) \in Nat
        OBVIOUS
    <2> HIDE DEF said
    <2>2. last \in said
        BY <1>3, <2>1, Extremes
    <2> HIDE DEF last
    <2>3. last \in 1 .. Len(text)
        BY <2>1, <2>2
    <2>4. \A i \in 1 .. last : text[i] \in Plain
        BY <2>1, <2>3
    <2>5. SubSeq(text, 1, last) \in Seq(Plain)
        BY <2>3, <2>4, SubSeqProperties
    <2> QED BY <1>1, <1>3, <2>5
<1> QED BY <1>2, <1>3

-----------------------------------------------------------------------------
(* The requests *)

CallType ==
    [state : {"none", "asked", "queued", "running", "done", "failed"},
     echo : Nat, said : Speech \cup {<<>>}, text : Seq(Plain), itn : BOOLEAN]

\* What NoPromptLeak and SpeechKept say of one reply, to a request of the
\* offline model or not, that had a list of hotwords and its prompt.
Heard(offline, list, context, q) ==
    /\ Range(SubSeq(context, q.echo, Len(context))) \cap Signs # {} => q.text = <<>>
    /\ /\ q.echo > Len(context)
       /\ \A i \in 1 .. Len(list) - 1 : ~IsPrefix(Adjacent(list, i), q.said)
       => IF offline THEN q.text = q.said ELSE StripTrailingPunct(q.said) = q.text

CallOK(c, list, context, q) ==
    /\ q \in CallType
    /\ q.state \in {"none", "asked", "failed"} => q.text = <<>>
    /\ q.state \in {"queued", "running", "done"} =>
          IF c \in Offline THEN Heard(TRUE, list, context, q)
          ELSE Heard(FALSE, <<>>, <<>>, q)

\* The hotwords are clean, their prompt is theirs, and every reply was heard
\* rightly.
TranscriptInv ==
    /\ Clean(words) /\ prompt = HotwordContext(words)
    /\ executor \in {"up", "broken", "gone"}
    /\ call \in [Calls -> CallType]
    /\ \A c \in Calls : CallOK(c, words, prompt, call[c])

LEMMA TranscriptInit == Init => TranscriptInv
<1> SUFFICES ASSUME Init PROVE TranscriptInv
    OBVIOUS
<1>1. PICK user \in Users : words = MergeHotwords(Default, user)
    BY DEF Init
<1>2. Default \in Seq(Word) /\ user \in Seq(Word)
    BY TranscriptAssumption DEF Word
<1>3. Default \o user \in Seq(Word)
    BY <1>2, ConcatProperties
<1>4. Clean(words)
    BY <1>1, <1>3, DistinctIsClean DEF MergeHotwords
<1>5. NoCall \in CallType /\ NoCall.state = "none" /\ NoCall.text = <<>>
    BY DEF NoCall, CallType
<1> HIDE DEF NoCall
<1>6. \A c \in Calls : CallOK(c, words, prompt, NoCall)
    BY <1>5 DEF CallOK
<1> QED BY <1>4, <1>5, <1>6 DEF Init, TranscriptInv

\* A step of one request.
LEMMA CallChanged ==
    ASSUME TranscriptInv, NEW c \in Calls, NEW q, CallOK(c, words, prompt, q),
           UNCHANGED session, executor' = executor, call' = [call EXCEPT ![c] = q]
    PROVE  TranscriptInv'
<1>1. q \in CallType /\ call \in [Calls -> CallType] /\ words' = words /\ prompt' = prompt
    BY DEF TranscriptInv, CallOK, session
<1>2. \A d \in Calls : call'[d] = IF d = c THEN q ELSE call[d]
    BY <1>1
<1>3. call' \in [Calls -> CallType]
    BY <1>1
<1>4. \A d \in Calls : CallOK(d, words', prompt', call'[d])
    BY <1>1, <1>2 DEF TranscriptInv
<1> QED BY <1>1, <1>3, <1>4 DEF TranscriptInv

\* Steps that keep what was heard.
LEMMA StaysHeard ==
    ASSUME NEW c, NEW list, NEW context, NEW q, NEW p, CallOK(c, list, context, p),
           q \in CallType, q.echo = p.echo, q.said = p.said, q.text = p.text,
           \/ q.state \in {"asked", "failed"} /\ p.state \in {"none", "asked"}
           \/ q.state \in {"running", "done"} /\ p.state \in {"queued", "running"}
    PROVE  CallOK(c, list, context, q)
<1>1. CASE q.state \in {"asked", "failed"} /\ p.state \in {"none", "asked"}
    BY <1>1 DEF CallOK
<1>2. CASE q.state \in {"running", "done"} /\ p.state \in {"queued", "running"}
    BY <1>2 DEF CallOK, Heard
<1> QED BY <1>1, <1>2

LEMMA AskKeeps ==
    ASSUME TranscriptInv, NEW c \in Calls, Ask(c) \/ RequestFails(c)
    PROVE  TranscriptInv'
<1> DEFINE p == call[c]
<1>1. p \in CallType /\ CallOK(c, words, prompt, p) /\ UNCHANGED session /\ executor' = executor
    BY DEF TranscriptInv, Ask, RequestFails
<1>2. PICK s \in {"asked", "failed"} : call' = [call EXCEPT ![c].state = s]
    BY DEF Ask, RequestFails
<1>3. p.state \in {"none", "asked"}
    BY DEF Ask, RequestFails
<1> DEFINE q == [p EXCEPT !.state = s]
<1>4. call' = [call EXCEPT ![c] = q]
    BY <1>2
<1> HIDE DEF p
<1>5. q \in CallType /\ q.state = s /\ q.echo = p.echo /\ q.said = p.said /\ q.text = p.text
    BY <1>1 DEF CallType
<1> HIDE DEF q
<1>6. CallOK(c, words, prompt, q)
    BY <1>1, <1>3, <1>5, StaysHeard
<1> QED BY <1>1, <1>4, <1>6, CallChanged

LEMMA WorkerKeeps ==
    ASSUME TranscriptInv, NEW c \in Calls, WorkerTakes(c) \/ WorkerReturns(c)
    PROVE  TranscriptInv'
<1> DEFINE p == call[c]
<1>1. /\ p \in CallType /\ CallOK(c, words, prompt, p) /\ UNCHANGED session
      /\ executor' = executor
    BY DEF TranscriptInv, WorkerTakes, WorkerReturns
<1>2. p.state \in {"queued", "running"}
    BY DEF WorkerTakes, WorkerReturns
<1>3. PICK s \in {"running", "done"}, done \in BOOLEAN :
          call' = [call EXCEPT ![c] = [p EXCEPT !.state = s, !.itn = done]]
    <2>1. CASE WorkerTakes(c)
        <3>1. call' = [call EXCEPT ![c] = [p EXCEPT !.state = "running"]]
            BY <2>1 DEF WorkerTakes
        <3>2. p.itn \in BOOLEAN
            BY <1>1 DEF CallType
        <3>3. [p EXCEPT !.state = "running"] = [p EXCEPT !.state = "running", !.itn = p.itn]
            BY <1>1 DEF CallType
        <3> QED BY <3>1, <3>2, <3>3
    <2>2. CASE WorkerReturns(c)
        BY <2>2 DEF WorkerReturns
    <2> QED BY <2>1, <2>2
<1> DEFINE q == [p EXCEPT !.state = s, !.itn = done]
<1> HIDE DEF p
<1>4. q \in CallType /\ q.state = s /\ q.echo = p.echo /\ q.said = p.said /\ q.text = p.text
    BY <1>1 DEF CallType
<1>5. call' = [call EXCEPT ![c] = q]
    BY <1>3
<1> HIDE DEF q
<1>6. CallOK(c, words, prompt, q)
    BY <1>1, <1>2, <1>4, StaysHeard
<1> QED BY <1>1, <1>5, <1>6, CallChanged

LEMMA WorkerDeathKeeps ==
    ASSUME TranscriptInv, WorkerDies
    PROVE  TranscriptInv'
<1>1. words' = words /\ prompt' = prompt /\ executor' \in {"up", "broken", "gone"}
    BY DEF WorkerDies, session, TranscriptInv
<1>2. call' = [c \in Calls |-> IF Pending(c) THEN Refused(call[c]) ELSE call[c]]
    BY DEF WorkerDies
<1>3. ASSUME NEW c \in Calls PROVE CallOK(c, words, prompt, call'[c])
    <2> DEFINE p == call[c]
               q == [p EXCEPT !.state = "done"]
    <2>1. p \in CallType /\ CallOK(c, words, prompt, p)
        BY DEF TranscriptInv
    <2>2. call'[c] = IF Pending(c) THEN q ELSE p
        BY <1>2 DEF Refused
    <2>3. Pending(c) => p.state \in {"queued", "running"}
        BY DEF Pending
    <2> HIDE DEF p
    <2>4. q \in CallType /\ q.state = "done" /\ q.echo = p.echo /\ q.said = p.said
          /\ q.text = p.text
        BY <2>1 DEF CallType
    <2> HIDE DEF q
    <2>5. p.state \in {"queued", "running"} => CallOK(c, words, prompt, q)
        BY <2>1, <2>4, StaysHeard
    <2> QED BY <2>1, <2>2, <2>3, <2>5
<1>4. \A c \in Calls : call'[c] \in CallType
    BY <1>3 DEF CallOK
<1>5. call' \in [Calls -> CallType]
    BY <1>2, <1>4
<1> QED BY <1>1, <1>3, <1>5 DEF TranscriptInv

\* The places from which an online request, which has no prompt, says it back.
LEMMA NoPrompt ==
    /\ WordStarts(<<>>) = {1} /\ Len(<<>>) = 0
    /\ SubSeq(<<>>, 1, 0) = <<>> /\ Range(<<>>) = {}
<1>1. Len(<<>>) = 0 /\ DOMAIN <<>> = {}
    OBVIOUS
<1>2. SubSeq(<<>>, 1, 0) = <<>>
    BY SubSeqEmpty
<1> QED BY <1>1, <1>2 DEF WordStarts, Range

LEMMA ReplyKeeps ==
    ASSUME TranscriptInv, NEW c \in Calls, ModelReplies(c)
    PROVE  TranscriptInv'
<1> DEFINE tag(i, tags) == IF i \in tags THEN <<Tag>> ELSE <<>>
           reply(tags, echo, speech) ==
               tag(1, tags) \o Repeated(c, echo) \o tag(2, tags) \o speech \o tag(3, tags)
           text(tags, echo, speech) == Transcribed(c, reply(tags, echo, speech))
           rec(tags, echo, speech) ==
               [state |-> Submitted(c, text(tags, echo, speech)), echo |-> echo, said |-> speech,
                text |-> IF c \in Online THEN StripTrailingPunct(text(tags, echo, speech))
                         ELSE text(tags, echo, speech),
                itn |-> FALSE]
<1>1. PICK echo \in WordStarts(PromptOf(c)), speech \in Speech, tags \in SUBSET (1..3) :
          call' = [call EXCEPT ![c] = rec(tags, echo, speech)]
    BY DEF ModelReplies
<1>2. UNCHANGED session /\ executor' = executor
    BY DEF ModelReplies
<1> DEFINE said == Repeated(c, echo)
           heard == text(tags, echo, speech)
           q == rec(tags, echo, speech)
<1>3. speech \in Seq(Plain)
    BY SpeechIsPlain
<1>4. /\ Clean(words) /\ prompt = HotwordContext(words) /\ words \in Seq(Word)
      /\ HotwordContext(words) \in Seq(Plain)
    <2>1. Clean(words) /\ prompt = HotwordContext(words) /\ words \in Seq(Word)
        BY DEF TranscriptInv, Clean
    <2>2. CASE words = <<>>
        <3>1. HotwordContext(words) = <<>>
            BY <2>1, <2>2, DistinctOfClean DEF HotwordContext
        <3> QED BY <2>1, <3>1
    <2>3. CASE words # <<>>
        <3> DEFINE context == HotwordContext(words)
        <3>1. context \in Seq(Letters \cup Signs)
            BY <2>1, <2>3, PromptIsMarked DEF Marked
        <3> HIDE DEF context
        <3>2. \A k \in 1 .. Len(context) : context[k] \in Plain
            BY <3>1, SignsAreNoLetters
        <3>3. context = [k \in 1 .. Len(context) |-> context[k]] /\ Len(context) \in Nat
            BY <3>1
        <3>4. context \in Seq(Plain)
            BY <3>2, <3>3
        <3> QED BY <2>1, <3>4 DEF context
    <2> QED BY <2>1, <2>2, <2>3
<1>5. PromptOf(c) \in Seq(Plain)
    BY <1>4 DEF PromptOf
<1>6. echo \in Nat /\ echo >= 1 /\ said \in Seq(Plain)
    <2> DEFINE context == PromptOf(c)
    <2>1. context \in Seq(Plain) /\ Len(context) \in Nat /\ DOMAIN context = 1 .. Len(context)
        BY <1>5
    <2>2. said = SubSeq(context, echo, Len(context))
        BY DEF Repeated
    <2>3. echo \in 1 .. Len(context) \/ echo = Len(context) + 1
        BY <2>1 DEF WordStarts
    <2> HIDE DEF context, said
    <2>4. \A i \in echo .. Len(context) : context[i] \in Plain
        BY <2>1, <2>3
    <2>5. echo \in Nat /\ echo >= 1
        BY <2>1, <2>3
    <2>6. SubSeq(context, echo, Len(context)) \in Seq(Plain)
        BY <2>1, <2>4, <2>5, SubSeqProperties
    <2> QED BY <2>2, <2>5, <2>6 DEF said
<1>7. heard = FilterHallucination(said \o speech, HotwordsOf(c))
    <2> DEFINE t1 == tag(1, tags)
               t2 == tag(2, tags)
               t3 == tag(3, tags)
    <2>1. t1 \in {<<>>, <<Tag>>} /\ t2 \in {<<>>, <<Tag>>} /\ t3 \in {<<>>, <<Tag>>}
        OBVIOUS
    <2>2. heard = FilterHallucination(ParseResponse(t1 \o said \o t2 \o speech \o t3), HotwordsOf(c))
        BY DEF Transcribed
    <2> HIDE DEF t1, t2, t3, said, heard
    <2>3. ParseResponse(t1 \o said \o t2 \o speech \o t3) = said \o speech
        <3>1. Parsed(t1, said, t2, speech, t3)
            BY <1>3, <1>6, <2>1, ParseDropsTags
        <3> QED BY <3>1 DEF Parsed
    <2> QED BY <2>2, <2>3
<1>8. /\ q.state \in {"queued", "done"} /\ q.echo = echo /\ q.said = speech /\ q.itn = FALSE
      /\ q.text = IF c \in Online THEN StripTrailingPunct(heard) ELSE heard
    BY DEF Submitted
<1>9. /\ q = [state |-> q.state, echo |-> q.echo, said |-> q.said, text |-> q.text, itn |-> q.itn]
      /\ call' = [call EXCEPT ![c] = q]
    BY <1>1
<1>10. said = SubSeq(PromptOf(c), echo, Len(PromptOf(c)))
    BY DEF Repeated
<1> HIDE DEF rec, q, heard, said
<1>11. said \o speech \in Seq(Plain)
    BY <1>3, <1>6, ConcatProperties
<1>12. heard \in Seq(Plain)
    BY <1>7, <1>11 DEF FilterHallucination
<1>13. q.text \in Seq(Plain)
    BY <1>8, <1>12, StripIsPlain
<1>14. q \in CallType
    BY <1>6, <1>8, <1>9, <1>13 DEF CallType
<1>15. CASE c \in Offline
    <2>1. /\ c \notin Online /\ HotwordsOf(c) = words /\ PromptOf(c) = HotwordContext(words)
          /\ prompt = HotwordContext(words)
        BY <1>4, <1>15, TranscriptAssumption DEF HotwordsOf, PromptOf
    <2> DEFINE context == HotwordContext(words)
    <2>2. q.text = FilterHallucination(said \o speech, words)
        BY <1>7, <1>8, <2>1
    <2>3. ASSUME Range(SubSeq(context, echo, Len(context))) \cap Signs # {} PROVE q.text = <<>>
        <3>1. said = SubSeq(HotwordContext(words), echo, Len(HotwordContext(words)))
            BY <1>10, <2>1
        <3>2. FilterHallucination(SubSeq(HotwordContext(words), echo, Len(HotwordContext(words)))
                                      \o speech, words) = <<>>
            <4>1. echo \in WordStarts(HotwordContext(words))
                BY <2>1
            <4> QED BY <1>3, <1>4, <2>3, <4>1, EchoIsCaught
        <3> QED BY <2>2, <3>1, <3>2
    <2>4. ASSUME echo > Len(context),
                 \A i \in 1 .. Len(words) - 1 : ~IsPrefix(Adjacent(words, i), speech)
          PROVE  q.text = speech
        <3>1. said = <<>>
            <4>1. Len(context) \in Nat
                BY <1>4
            <4>2. Len(context) < echo
                BY <1>6, <2>4, <4>1
            <4> HIDE DEF context
            <4>3. SubSeq(context, echo, Len(context)) = <<>>
                BY <1>6, <4>1, <4>2, SubSeqEmpty
            <4> QED BY <1>10, <2>1, <4>3 DEF context
        <3>2. <<>> \o speech = speech
            BY <1>3, ConcatEmptySeq
        <3>3. FilterHallucination(speech, words) = speech
            BY <1>4, <2>4, SpeechPasses
        <3> QED BY <2>2, <3>1, <3>2, <3>3
    <2>5. Heard(TRUE, words, context, q)
        BY <1>8, <2>3, <2>4 DEF Heard
    <2>6. CallOK(c, words, prompt, q)
        BY <1>8, <1>14, <1>15, <2>1, <2>5 DEF CallOK
    <2> QED BY <1>2, <1>9, <2>6, CallChanged
<1>16. CASE c \notin Offline
    <2>1. /\ c \in Online /\ HotwordsOf(c) = <<>> /\ PromptOf(c) = <<>>
        BY <1>16 DEF HotwordsOf, PromptOf, Calls
    <2>2. echo = 1 /\ said = <<>>
        BY <1>10, <2>1, NoPrompt
    <2>3. <<>> \o speech = speech
        BY <1>3, ConcatEmptySeq
    <2>4. heard = speech
        BY <1>7, <2>1, <2>2, <2>3 DEF FilterHallucination
    <2>5. q.text = StripTrailingPunct(speech)
        BY <1>8, <2>1, <2>4
    <2>6. Heard(FALSE, <<>>, <<>>, q)
        BY <1>8, <2>2, <2>5, NoPrompt DEF Heard
    <2>7. CallOK(c, words, prompt, q)
        BY <1>8, <1>14, <1>16, <2>6 DEF CallOK
    <2> QED BY <1>2, <1>9, <2>7, CallChanged
<1> QED BY <1>15, <1>16

LEMMA TranscriptAlways == TranscriptInv /\ [Next]_vars => TranscriptInv'
<1> SUFFICES ASSUME TranscriptInv, [Next]_vars PROVE TranscriptInv'
    OBVIOUS
<1>1. CASE Shutdown \/ UNCHANGED vars
    <2>1. words' = words /\ prompt' = prompt /\ call' = call
          /\ executor' \in {"up", "broken", "gone"}
        BY <1>1 DEF Shutdown, vars, session, TranscriptInv
    <2> QED BY <2>1 DEF TranscriptInv
<1>2. ASSUME NEW c \in Calls,
             Ask(c) \/ ModelReplies(c) \/ RequestFails(c) \/ WorkerTakes(c) \/ WorkerReturns(c)
      PROVE  TranscriptInv'
    BY <1>2, AskKeeps, ReplyKeeps, WorkerKeeps
<1> QED BY <1>1, <1>2, WorkerDeathKeeps DEF Next

\* The texts that the workers have in hand.
Running == {c \in Calls : call[c].state = "running"}

PoolInv == Cardinality(Running) <= Workers

LEMMA PoolInit == Init => PoolInv
<1> SUFFICES ASSUME Init PROVE PoolInv
    OBVIOUS
<1>1. Running = {}
    BY DEF Init, NoCall, Running
<1>2. Workers \in Nat /\ Cardinality({}) = 0
    BY TranscriptAssumption, FS_EmptySet
<1> QED BY <1>1, <1>2 DEF PoolInv

\* No more texts than before are running.
LEMMA PoolShrinks ==
    ASSUME PoolInv, Running' \subseteq Running
    PROVE  PoolInv'
<1>1. IsFiniteSet(Running)
    BY TranscriptAssumption, FS_Subset DEF Running
<1>2. Cardinality(Running') <= Cardinality(Running)
    BY <1>1, FS_Subset
<1>3. Cardinality(Running) \in Nat /\ IsFiniteSet(Running')
    BY <1>1, FS_CardinalityType, FS_Subset
<1>4. Cardinality(Running') \in Nat /\ Workers \in Nat
    BY <1>3, FS_CardinalityType, TranscriptAssumption
<1> QED BY <1>2, <1>3, <1>4 DEF PoolInv

LEMMA PoolAlways == TranscriptInv /\ PoolInv /\ [Next]_vars => PoolInv'
<1> SUFFICES ASSUME TranscriptInv, PoolInv, [Next]_vars PROVE PoolInv'
    OBVIOUS
<1>1. call \in [Calls -> CallType] /\ \A c \in Calls : call[c] \in CallType
    BY DEF TranscriptInv
<1>2. CASE Shutdown \/ UNCHANGED vars
    <2>1. Running' = Running
        BY <1>2 DEF Shutdown, vars, Running
    <2> QED BY <2>1, PoolShrinks
<1>3. CASE WorkerDies
    <2>1. \A c \in Calls : call'[c].state = "running" => call[c].state = "running"
        <3> SUFFICES ASSUME NEW c \in Calls, call'[c].state = "running"
                     PROVE  call[c].state = "running"
            OBVIOUS
        <3>1. call'[c] = IF Pending(c) THEN Refused(call[c]) ELSE call[c]
            BY <1>3 DEF WorkerDies
        <3>2. Refused(call[c]).state = "done"
            BY <1>1 DEF Refused, CallType
        <3> QED BY <3>1, <3>2
    <2> QED BY <2>1, PoolShrinks DEF Running
<1>4. ASSUME NEW c \in Calls, Ask(c) \/ RequestFails(c) \/ ModelReplies(c) \/ WorkerReturns(c)
      PROVE  PoolInv'
    <2>1. PICK q : call' = [call EXCEPT ![c] = q] /\ q.state # "running"
        <3>1. CASE Ask(c)
            <4>1. call' = [call EXCEPT ![c] = [call[c] EXCEPT !.state = "asked"]]
                BY <3>1 DEF Ask
            <4>2. [call[c] EXCEPT !.state = "asked"].state = "asked"
                BY <1>1 DEF CallType
            <4> QED BY <4>1, <4>2
        <3>2. CASE RequestFails(c)
            <4>1. call' = [call EXCEPT ![c] = [call[c] EXCEPT !.state = "failed"]]
                BY <3>2 DEF RequestFails
            <4>2. [call[c] EXCEPT !.state = "failed"].state = "failed"
                BY <1>1 DEF CallType
            <4> QED BY <4>1, <4>2
        <3>3. CASE ModelReplies(c)
            <4> DEFINE tag(i, tags) == IF i \in tags THEN <<Tag>> ELSE <<>>
                       text(tags, echo, speech) ==
                           Transcribed(c, tag(1, tags) \o Repeated(c, echo) \o tag(2, tags)
                                              \o speech \o tag(3, tags))
                       rec(tags, echo, speech) ==
                           [state |-> Submitted(c, text(tags, echo, speech)), echo |-> echo,
                            said |-> speech,
                            text |-> IF c \in Online
                                     THEN StripTrailingPunct(text(tags, echo, speech))
                                     ELSE text(tags, echo, speech),
                            itn |-> FALSE]
            <4>1. PICK echo \in WordStarts(PromptOf(c)), speech \in Speech,
                       tags \in SUBSET (1..3) :
                      call' = [call EXCEPT ![c] = rec(tags, echo, speech)]
                BY <3>3 DEF ModelReplies
            <4> DEFINE q == rec(tags, echo, speech)
            <4>2. q.state = Submitted(c, text(tags, echo, speech)) /\ call' = [call EXCEPT ![c] = q]
                BY <4>1
            <4> HIDE DEF q, text
            <4>3. q.state # "running"
                BY <4>2 DEF Submitted
            <4> QED BY <4>2, <4>3
        <3>4. CASE WorkerReturns(c)
            <4>1. PICK done \in BOOLEAN :
                    call' = [call EXCEPT ![c] = [call[c] EXCEPT !.state = "done", !.itn = done]]
                BY <3>4 DEF WorkerReturns
            <4>2. [call[c] EXCEPT !.state = "done", !.itn = done].state = "done"
                BY <1>1 DEF CallType
            <4> QED BY <4>1, <4>2
        <3> QED BY <1>4, <3>1, <3>2, <3>3, <3>4
    <2>2. \A d \in Calls : call'[d].state = "running" => call[d].state = "running"
        BY <1>1, <2>1
    <2> QED BY <2>2, PoolShrinks DEF Running
<1>5. ASSUME NEW c \in Calls, WorkerTakes(c) PROVE PoolInv'
    <2>1. call' = [call EXCEPT ![c] = [call[c] EXCEPT !.state = "running"]]
          /\ Cardinality(Running) < Workers
        BY <1>5 DEF WorkerTakes, Running
    <2>2. [call[c] EXCEPT !.state = "running"].state = "running"
        BY <1>1 DEF CallType
    <2>3. \A d \in Calls : call'[d] = IF d = c THEN [call[c] EXCEPT !.state = "running"] ELSE call[d]
        BY <1>1, <2>1
    <2>4. Running' = Running \cup {c}
        BY <2>2, <2>3 DEF Running
    <2>5. IsFiniteSet(Running)
        BY TranscriptAssumption, FS_Subset DEF Running
    <2>6. /\ Cardinality(Running \cup {c}) = IF c \in Running THEN Cardinality(Running)
                                             ELSE Cardinality(Running) + 1
          /\ Cardinality(Running) \in Nat /\ Workers \in Nat
        BY <2>5, FS_AddElement, FS_CardinalityType, TranscriptAssumption
    <2> QED BY <2>1, <2>4, <2>6 DEF PoolInv
<1> QED BY <1>2, <1>3, <1>4, <1>5 DEF Next

\* A reply that says back the prompt from its header or from a word on, and two
\* words or more of it, has no text (_filter_hallucination), also when the lists
\* of the service and the client overlap; no tag reaches the client wherever in
\* the reply it stood; and the pool never has more texts than workers.
THEOREM PromptStaysInside == Spec => []NoPromptLeak
<1>1. TranscriptInv /\ PoolInv => NoPromptLeak
    <2> SUFFICES ASSUME TranscriptInv, PoolInv PROVE NoPromptLeak
        OBVIOUS
    <2>1. Plain \subseteq Token /\ Tag \notin Plain /\ Signs = {Header, Sep}
        BY DEF Plain, Signs
    <2>2. ASSUME NEW s \in Seq(Plain) PROVE s \in Seq(Token) /\ Tag \notin Range(s)
        <3>1. /\ Len(s) \in Nat /\ DOMAIN s = 1 .. Len(s)
              /\ \A k \in 1 .. Len(s) : s[k] \in Token /\ s[k] # Tag
            BY <2>1
        <3>2. s = [k \in 1 .. Len(s) |-> s[k]]
            OBVIOUS
        <3> QED BY <3>1, <3>2 DEF Range
    <2>3. \A c \in Calls : call[c] \in CallType /\ CallOK(c, words, prompt, call[c])
        BY DEF TranscriptInv
    <2>4. call \in [Calls -> [state : {"none", "asked", "queued", "running", "done", "failed"},
                              echo : Nat, said : Speech \cup {<<>>}, text : Seq(Token),
                              itn : BOOLEAN]]
        <3>1. Seq(Plain) \subseteq Seq(Token)
            BY <2>2
        <3>2. call \in [Calls -> CallType]
            BY DEF TranscriptInv
        <3> QED BY <3>1, <3>2 DEF CallType
    <2>5. prompt \in Seq(Token)
        <3>1. CASE words = <<>>
            <4>1. prompt = <<>>
                BY <3>1, DistinctOfClean DEF TranscriptInv, HotwordContext
            <4> QED BY <4>1
        <3>2. CASE words # <<>>
            <4>1. prompt \in Seq(Letters \cup Signs)
                BY <3>2, PromptIsMarked DEF TranscriptInv, Marked
            <4>2. /\ Len(prompt) \in Nat /\ \A k \in 1 .. Len(prompt) : prompt[k] \in Token
                  /\ prompt = [k \in 1 .. Len(prompt) |-> prompt[k]]
                BY <2>1, <4>1, SignsAreNoLetters
            <4> QED BY <4>2
        <3> QED BY <3>1, <3>2
    <2>6. words \in Seq(Seq(Letters)) /\ Cardinality(Range(words) \ {<<>>}) = Len(words)
        BY CleanCounts DEF TranscriptInv, Clean, Word
    <2>7. TypeOK
        BY <2>4, <2>5, <2>6 DEF TypeOK, TranscriptInv, PoolInv, Running
    <2>8. ASSUME NEW c \in Calls PROVE Tag \notin Range(call[c].text)
        <3>1. call[c].text \in Seq(Plain)
            BY <2>3 DEF CallType
        <3> QED BY <2>2, <3>1
    <2>9. ASSUME NEW c \in Calls, Replied(c),
                 Range(Repeated(c, call[c].echo)) \cap {Header, Sep} # {}
          PROVE  call[c].text = <<>>
        <3>1. call[c].state \in {"queued", "running", "done"}
            BY <2>9 DEF Replied
        <3>2. CASE c \in Offline
            BY <2>1, <2>3, <2>9, <3>1, <3>2 DEF CallOK, Heard, Repeated, PromptOf
        <3>3. CASE c \notin Offline
            BY <2>1, <2>3, <2>9, <3>1, <3>3 DEF CallOK, Heard, Repeated, PromptOf
        <3> QED BY <3>2, <3>3
    <2> QED BY <2>7, <2>8, <2>9 DEF NoPromptLeak
<1>2. PoolInv /\ TranscriptInv /\ [Next]_vars => PoolInv'
    BY PoolAlways
<1> QED BY <1>1, <1>2, TranscriptInit, TranscriptAlways, PoolInit, PTL DEF Spec

\* What was said reaches the client, unless it begins like two hotwords of the
\* list: a pool that breaks or is shut down returns the texts it was given, and
\* no punctuation but the last of an online text is lost.
THEOREM SpeechReachesClient == Spec => []SpeechKept
<1>1. TranscriptInv => SpeechKept
    <2> SUFFICES ASSUME TranscriptInv, NEW c \in Calls, Replied(c),
                        call[c].echo > Len(PromptOf(c)),
                        \A i \in 1 .. Len(HotwordsOf(c)) - 1 :
                            ~IsPrefix(Adjacent(words, i), call[c].said)
                 PROVE  IF c \in Offline THEN call[c].text = call[c].said
                        ELSE StripTrailingPunct(call[c].said) = call[c].text
        BY DEF SpeechKept
    <2>1. CallOK(c, words, prompt, call[c]) /\ call[c].state \in {"queued", "running", "done"}
        BY DEF TranscriptInv, Replied
    <2>2. CASE c \in Offline
        BY <2>1, <2>2 DEF CallOK, Heard, PromptOf, HotwordsOf
    <2>3. CASE c \notin Offline
        <3>1. 1 .. Len(<<>>) - 1 = {}
            BY NoPrompt
        <3> QED BY <2>1, <2>3, <3>1 DEF CallOK, Heard, PromptOf, HotwordsOf
    <2> QED BY <2>2, <2>3
<1> QED BY <1>1, TranscriptInit, TranscriptAlways, PTL DEF Spec
===============================================================================
