------------------------ MODULE TranslationProxyProofs ------------------------
(***************************************************************************)
(* The translation proxy does not leave its child running when it ends;    *)
(* cutting a text into sentences loses nothing of it, and every text gets  *)
(* the translations of its own sentences, for any number of requests and   *)
(* whatever texts they carry.                                              *)
(***************************************************************************)
EXTENDS TranslationProxy, SequenceLemmas, FiniteSetTheorems

-----------------------------------------------------------------------------
(* The child *)

\* The handle is held from the start of the child on, until it was stopped.
ChildInv ==
    /\ lifespan = "starting" => vllm = "none" /\ ~handle
    /\ NoChildLeft

LEMMA ChildInit == Init => ChildInv
  BY DEF Init, ChildInv, NoChildLeft

LEMMA ChildStep == ChildInv /\ [Next]_vars => ChildInv'
<1> SUFFICES ASSUME ChildInv, [Next]_vars PROVE ChildInv'
    OBVIOUS
<1> USE DEF ChildInv, NoChildLeft
<1>1. CASE LifespanStep
    BY <1>1 DEF LifespanStep, StartVllm, WaitExited, WaitReady, WaitTimeout, StopGone,
                StopExits, StopKills
<1>2. CASE Shutdown \/ Poll \/ VllmListens \/ VllmDies
    BY <1>2 DEF Shutdown, Poll, VllmListens, VllmDies
<1>3. ASSUME NEW r \in Requests,
             RequestStep(r) \/ Reject(r) \/ \E p \in Payloads : Arrive(r, p)
      PROVE  UNCHANGED childVars
    BY <1>3 DEF RequestStep, TranslateSingle, Answer, Reject, Arrive
<1>4. CASE UNCHANGED childVars
    BY <1>4 DEF childVars
<1>5. CASE UNCHANGED vars
    BY <1>5 DEF vars
<1> QED BY <1>1, <1>2, <1>3, <1>4, <1>5 DEF Next

\* However the start and the stop interleave with the child's own end: when the
\* lifespan of the proxy is over, stop_vllm has seen the child exit or killed it.
THEOREM ChildIsStopped == Spec => []NoChildLeft
<1>1. ChildInv => NoChildLeft
    BY DEF ChildInv
<1> QED BY <1>1, ChildInit, ChildStep, PTL DEF Spec

-----------------------------------------------------------------------------
(* Sentences *)

Char == {Letter, Mark, Dot, Blank}

\* Nothing inside a sentence ends one.
Whole(text) == \A k \in 1 .. Len(text) - 1 : ~EndsSentence(text, k)

\* What is stripped of its blanks lies between two of its characters.
LEMMA Strips ==
    ASSUME NEW text \in Seq(Char), ~IsBlank(text)
    PROVE  \E a \in DOMAIN text, b \in DOMAIN text :
              /\ a <= b /\ Strip(text) = SubSeq(text, a, b)
              /\ \A k \in DOMAIN text : text[k] # Blank => a <= k /\ k <= b
<1> DEFINE said == {k \in DOMAIN text : text[k] # Blank}
           a == CHOOSE k \in said : \A i \in said : k <= i
           b == CHOOSE k \in said : \A i \in said : i <= k
<1>1. Len(text) \in Nat /\ DOMAIN text = 1 .. Len(text)
    OBVIOUS
<1>2. said \subseteq 1 .. Len(text) /\ said # {}
    BY <1>1 DEF IsBlank
<1>3. Strip(text) = SubSeq(text, a, b)
    BY DEF Strip
<1>4. \A k : k \in said <=> k \in DOMAIN text /\ text[k] # Blank
    OBVIOUS
<1> HIDE DEF said
<1>5. a \in said /\ b \in said /\ \A i \in said : a <= i /\ i <= b
    BY <1>1, <1>2, Extremes
<1> HIDE DEF a, b
<1>6. a \in DOMAIN text /\ b \in DOMAIN text /\ a <= b
    BY <1>4, <1>5
<1> QED BY <1>3, <1>4, <1>5, <1>6

\* Stripping loses nothing that is said.
LEMMA StripSaid ==
    ASSUME NEW text \in Seq(Char)
    PROVE  Strip(text) \in Seq(Char) /\ Said(Strip(text)) = Said(text)
<1> DEFINE S == {Letter, Mark, Dot}
<1>0. \A s : Said(s) = Only(s, S)
    BY DEF Said
<1>1. Len(text) \in Nat /\ DOMAIN text = 1 .. Len(text)
      /\ \A k \in DOMAIN text : text[k] \in S \/ text[k] = Blank
    BY DEF Char
<1>2. Blank \notin S
    BY DEF Letter, Mark, Dot, Blank
<1> HIDE DEF S
<1>3. CASE IsBlank(text)
    <2>1. Strip(text) = <<>>
        BY <1>3 DEF Strip
    <2>2. \A k \in DOMAIN text : text[k] \notin S
        BY <1>2, <1>3 DEF IsBlank
    <2>3. Only(text, S) = <<>>
        BY <2>2, OnlyNothing
    <2> QED BY <1>0, <2>1, <2>3, OnlyNone
<1>4. CASE ~IsBlank(text)
    <2>1. PICK a \in DOMAIN text, b \in DOMAIN text :
              /\ a <= b /\ Strip(text) = SubSeq(text, a, b)
              /\ \A k \in DOMAIN text : text[k] # Blank => a <= k /\ k <= b
        BY <1>4, Strips
    <2> DEFINE c == a - 1
    <2>2. c \in Nat /\ b \in Nat /\ c <= b /\ b <= Len(text) /\ c <= Len(text) /\ c + 1 = a
        BY <1>1, <2>1
    <2>3. /\ \A k \in 0 + 1 .. c : text[k] \notin S
          /\ \A k \in b + 1 .. Len(text) : text[k] \notin S
        <3>1. ASSUME NEW k \in DOMAIN text, k < a \/ b < k PROVE text[k] \notin S
            <4>1. text[k] = Blank
                BY <1>1, <2>1, <3>1
            <4> QED BY <1>2, <4>1
        <3>2. \A k \in 0 + 1 .. c : k \in DOMAIN text /\ k < a
            BY <1>1, <2>2
        <3>3. \A k \in b + 1 .. Len(text) : k \in DOMAIN text /\ b < k
            BY <1>1, <2>2
        <3> QED BY <3>1, <3>2, <3>3
    <2> HIDE DEF c
    <2>4. Only(SubSeq(text, 1, c), S) = <<>>
        <3>1. 0 \in Nat /\ 0 <= c
            BY <2>2
        <3>2. Only(SubSeq(text, 1, c), S) = Only(SubSeq(text, 1, 0), S)
            BY <2>2, <2>3, <3>1, OnlySkips
        <3>3. SubSeq(text, 1, 0) = <<>>
            BY SubSeqEmpty
        <3> QED BY <3>2, <3>3, OnlyNone
    <2>5. Only(SubSeq(text, 1, Len(text)), S) = Only(SubSeq(text, 1, b), S)
        BY <1>1, <2>2, <2>3, OnlySkips
    <2>6. SubSeq(text, 1, Len(text)) = text
        BY SubSeqFull
    <2> DEFINE u == SubSeq(text, 1, c)
               v == SubSeq(text, c + 1, b)
    <2>7. v \in Seq(Char) /\ SubSeq(text, 1, b) = u \o v
        BY <2>2, Parts, PartsMeet
    <2>8. u \in Seq(Char)
        <3>1. 0 \in Nat /\ 0 <= c /\ 0 + 1 = 1
            BY <2>2
        <3>2. SubSeq(text, 0 + 1, c) \in Seq(Char)
            BY <2>2, <3>1, Parts
        <3> QED BY <3>1, <3>2
    <2>9. Only(u, S) = <<>>
        BY <2>4
    <2>10. Strip(text) = v
        BY <2>1, <2>2
    <2> HIDE DEF u, v
    <2>11. Only(u \o v, S) = Only(u, S) \o Only(v, S)
        <3>1. OneByOne(S, u, v)
            BY <2>7, <2>8, OnlyConcat
        <3> QED BY <3>1 DEF OneByOne
    <2>12. Only(v, S) \in Seq(Char)
        BY <2>7, OnlyType
    <2>13. <<>> \o Only(v, S) = Only(v, S)
        BY <2>12, ConcatEmptySeq
    <2> QED BY <1>0, <2>5, <2>6, <2>7, <2>9, <2>10, <2>11, <2>13
<1> QED BY <1>3, <1>4

\* A part in which no sentence ends before its last character is one sentence.
LEMMA PartsAreWhole ==
    ASSUME NEW text \in Seq(Char), NEW a \in Nat, NEW b \in Nat, a <= b, b <= Len(text),
           \A k \in a + 1 .. b - 1 : ~EndsSentence(text, k)
    PROVE  Whole(SubSeq(text, a + 1, b))
<1> DEFINE part == SubSeq(text, a + 1, b)
<1>1. part \in Seq(Char) /\ Len(part) = b - a /\ \A i \in 1 .. b - a : part[i] = text[a + i]
    BY Parts
<1> HIDE DEF part
<1>2. ASSUME NEW k \in 1 .. Len(part) - 1 PROVE ~EndsSentence(part, k)
    <2>1. /\ k \in 1 .. b - a /\ k + 1 \in 1 .. b - a /\ a + k \in a + 1 .. b - 1
          /\ k # Len(part) /\ a + k # Len(text) /\ a + (k + 1) = (a + k) + 1
        BY <1>1
    <2>2. part[k] = text[a + k]
        BY <1>1, <2>1
    <2>3. part[k + 1] = text[a + (k + 1)]
        BY <1>1, <2>1
    <2>4. ~EndsSentence(text, a + k)
        BY <2>1
    <2>5. part[k + 1] = text[(a + k) + 1]
        BY <2>1, <2>3
    <2> QED BY <2>1, <2>2, <2>4, <2>5 DEF EndsSentence
<1> QED BY <1>2 DEF Whole, part

\* So is the same part without its blanks.
LEMMA StripsAreWhole ==
    ASSUME NEW text \in Seq(Char), Whole(text)
    PROVE  Whole(Strip(text))
<1>1. CASE IsBlank(text)
    <2>1. Strip(text) = <<>>
        BY <1>1 DEF Strip
    <2>2. Len(<<>>) = 0
        OBVIOUS
    <2> QED BY <2>1, <2>2 DEF Whole
<1>2. CASE ~IsBlank(text)
    <2>1. PICK a \in DOMAIN text, b \in DOMAIN text :
              a <= b /\ Strip(text) = SubSeq(text, a, b)
        BY <1>2, Strips
    <2> DEFINE c == a - 1
    <2>2. Len(text) \in Nat /\ DOMAIN text = 1 .. Len(text)
        OBVIOUS
    <2>3. c \in Nat /\ b \in Nat /\ c <= b /\ b <= Len(text) /\ c + 1 = a
        BY <2>1, <2>2
    <2>4. \A k \in c + 1 .. b - 1 : k \in 1 .. Len(text) - 1
        BY <2>2, <2>3
    <2>5. \A k \in c + 1 .. b - 1 : ~EndsSentence(text, k)
        BY <2>4 DEF Whole
    <2> HIDE DEF c
    <2>6. Whole(SubSeq(text, c + 1, b))
        BY <2>3, <2>5, PartsAreWhole
    <2> QED BY <2>1, <2>3, <2>6
<1> QED BY <1>1, <1>2

\* What the scan knows at the k-th character: all that is said up to the last
\* cut is in the sentences, each of them is whole, and no cut was passed since.
ScanInv(text, scan, k) ==
    /\ scan \in [cut : Nat, sentences : Seq(Seq(Char))]
    /\ scan.cut \in 0..k
    /\ Said(FlattenSeq(scan.sentences)) = Said(SubSeq(text, 1, scan.cut))
    /\ \A j \in DOMAIN scan.sentences : Whole(scan.sentences[j])
    /\ \A j \in scan.cut + 1 .. k : j \notin Cuts(text)

NoScan == [cut |-> 0, sentences |-> <<>>]

LEMMA ScanStarts ==
    ASSUME NEW text \in Seq(Char)
    PROVE  ScanInv(text, NoScan, 0)
<1>1. NoScan \in [cut : Nat, sentences : Seq(Seq(Char))] /\ NoScan.cut \in 0..0
    BY DEF NoScan
<1>2. FlattenSeq(<<>>) = <<>> /\ SubSeq(text, 1, 0) = <<>>
    BY FlattenNone, SubSeqEmpty
<1>3. NoScan.cut = 0 /\ NoScan.sentences = <<>>
    BY DEF NoScan
<1>4. DOMAIN <<>> = {} /\ 0 + 1 .. 0 = {}
    OBVIOUS
<1> QED BY <1>1, <1>2, <1>3, <1>4 DEF ScanInv

LEMMA ScanStep ==
    ASSUME NEW text \in Seq(Char), NEW k \in 1 .. Len(text), NEW scan, ScanInv(text, scan, k - 1)
    PROVE  ScanInv(text, Scanned(text, scan, k), k)
<1> DEFINE c == scan.cut
           flat == FlattenSeq(scan.sentences)
           S == {Letter, Mark, Dot}
<1>0. \A s : Said(s) = Only(s, S)
    BY DEF Said
<1> HIDE DEF S
<1>1. /\ Len(text) \in Nat /\ k \in Nat /\ c \in Nat /\ c <= k - 1 /\ c <= k
      /\ k <= Len(text) /\ c <= Len(text)
    BY DEF ScanInv
<1>2. CASE k \notin Cuts(text)
    <2>1. Scanned(text, scan, k) = scan
        BY <1>2 DEF Scanned
    <2>2. scan.cut \in 0..k
        BY <1>1
    <2>3. \A j \in scan.cut + 1 .. k : j \in scan.cut + 1 .. k - 1 \/ j = k
        BY <1>1
    <2>4. \A j \in scan.cut + 1 .. k : j \notin Cuts(text)
        BY <1>2, <2>3 DEF ScanInv
    <2> QED BY <2>1, <2>2, <2>4 DEF ScanInv
<1>3. CASE k \in Cuts(text)
    <2> DEFINE front == SubSeq(text, 1, c)
               piece == SubSeq(text, c + 1, k)
               sent == Strip(piece)
               next == IF sent = <<>> THEN scan.sentences ELSE Append(scan.sentences, sent)
    <2>1. Scanned(text, scan, k) = [cut |-> k, sentences |-> next]
        BY <1>3 DEF Scanned
    <2>2. piece \in Seq(Char) /\ SubSeq(text, 1, k) = front \o piece
        BY <1>1, Parts, PartsMeet
    <2>3. front \in Seq(Char)
        <3>1. 0 \in Nat /\ 0 <= c /\ 0 + 1 = 1
            BY <1>1
        <3>2. SubSeq(text, 0 + 1, c) \in Seq(Char)
            BY <1>1, <3>1, Parts
        <3> QED BY <3>1, <3>2
    <2>4. Whole(piece)
        <3>1. ASSUME NEW j \in c + 1 .. k - 1 PROVE ~EndsSentence(text, j)
            <4>1. j \notin Cuts(text) /\ j \in DOMAIN text
                BY <1>1 DEF ScanInv
            <4> QED BY <4>1 DEF Cuts
        <3> HIDE DEF c
        <3> QED BY <1>1, <3>1, PartsAreWhole
    <2> HIDE DEF piece, front
    <2>5. sent \in Seq(Char) /\ Said(sent) = Said(piece) /\ Whole(sent)
        BY <2>2, <2>4, StripSaid, StripsAreWhole
    <2> HIDE DEF sent
    <2>6. /\ scan.sentences \in Seq(Seq(Char)) /\ Said(flat) = Said(front)
          /\ \A j \in DOMAIN scan.sentences : Whole(scan.sentences[j])
        BY DEF ScanInv, front
    <2>7. flat \in Seq(Char)
        BY <2>6, FlattenType
    <2>8. Said(front \o piece) = Said(front) \o Said(piece)
        <3>1. OneByOne(S, front, piece)
            BY <2>2, <2>3, OnlyConcat
        <3> QED BY <1>0, <3>1 DEF OneByOne
    <2>9. CASE sent = <<>>
        <3>1. Said(piece) = <<>>
            BY <1>0, <2>5, <2>9, OnlyNone
        <3>2. Said(front) \in Seq(Char)
            BY <1>0, <2>3, OnlyType
        <3>3. Said(front) \o <<>> = Said(front)
            BY <3>2, ConcatEmptySeq
        <3>4. Said(FlattenSeq(next)) = Said(SubSeq(text, 1, k))
            BY <2>2, <2>6, <2>8, <2>9, <3>1, <3>3
        <3>5. next = scan.sentences
            BY <2>9
        <3> QED BY <1>1, <2>1, <2>6, <3>4, <3>5 DEF ScanInv
    <2>10. CASE sent # <<>>
        <3> DEFINE old == scan.sentences
        <3>1. next = Append(old, sent)
            BY <2>10
        <3> HIDE DEF next, old
        <3>2. /\ old \in Seq(Seq(Char)) /\ flat = FlattenSeq(old)
              /\ \A j \in DOMAIN old : Whole(old[j])
            BY <2>6 DEF old
        <3>3. FlattenSeq(Append(old, sent)) = flat \o sent
            BY <2>5, <3>2, FlattenAppend
        <3> HIDE DEF flat
        <3>4. Said(flat \o sent) = Said(flat) \o Said(sent)
            <4>1. OneByOne(S, flat, sent)
                BY <2>5, <2>7, OnlyConcat
            <4> QED BY <1>0, <4>1 DEF OneByOne
        <3>5. Said(FlattenSeq(next)) = Said(SubSeq(text, 1, k))
            BY <2>2, <2>5, <2>6, <2>8, <3>1, <3>3, <3>4
        <3>6. next \in Seq(Seq(Char)) /\ \A j \in DOMAIN next : Whole(next[j])
            <4>1. /\ Append(old, sent) \in Seq(Seq(Char))
                  /\ Len(Append(old, sent)) = Len(old) + 1
                  /\ \A j \in 1 .. Len(old) : Append(old, sent)[j] = old[j]
                  /\ Append(old, sent)[Len(old) + 1] = sent
                BY <2>5, <3>2, AppendProperties
            <4>2. /\ DOMAIN Append(old, sent) = 1 .. Len(old) + 1 /\ Len(old) \in Nat
                  /\ DOMAIN old = 1 .. Len(old)
                BY <3>2, <4>1
            <4>3. ASSUME NEW j \in 1 .. Len(old) + 1 PROVE Whole(Append(old, sent)[j])
                <5>1. CASE j \in 1 .. Len(old)
                    BY <3>2, <4>1, <4>2, <5>1
                <5>2. CASE j = Len(old) + 1
                    BY <2>5, <4>1, <5>2
                <5> QED BY <4>2, <5>1, <5>2
            <4> QED BY <3>1, <4>1, <4>2, <4>3
        <3> QED BY <1>1, <2>1, <3>5, <3>6 DEF ScanInv
    <2> QED BY <2>9, <2>10
<1> QED BY <1>2, <1>3

\* The scan, from its start to the end of the text.
Scans(f, text) ==
    f[0] = NoScan /\ \A k \in 1 .. Len(text) : f[k] = Scanned(text, f[k - 1], k)

LEMMA ScanGoesOn ==
    ASSUME NEW text \in Seq(Char), NEW f, Scans(f, text)
    PROVE  \A k \in 0 .. Len(text) : ScanInv(text, f[k], k)
<1> DEFINE Good == {k \in Nat : k <= Len(text) => ScanInv(text, f[k], k)}
<1>1. 0 \in Good
    BY ScanStarts DEF Scans
<1>2. ASSUME NEW k \in Nat, k \in Good PROVE k + 1 \in Good
    <2> SUFFICES ASSUME k + 1 <= Len(text) PROVE ScanInv(text, f[k + 1], k + 1)
        OBVIOUS
    <2>1. k + 1 \in 1 .. Len(text) /\ (k + 1) - 1 = k /\ ScanInv(text, f[k], k)
        BY <1>2
    <2>2. ScanInv(text, f[(k + 1) - 1], (k + 1) - 1)
        BY <2>1
    <2>3. ScanInv(text, Scanned(text, f[(k + 1) - 1], k + 1), k + 1)
        BY <2>1, <2>2, ScanStep
    <2>4. f[k + 1] = Scanned(text, f[(k + 1) - 1], k + 1)
        BY <2>1 DEF Scans
    <2> QED BY <2>3, <2>4
<1>3. \A k \in Nat : k \in Good
    <2> HIDE DEF Good
    <2> QED BY <1>1, <1>2, Induction
<1> QED BY <1>3

LEMMA SplitScans ==
    ASSUME NEW text \in Seq(Char), ~(text # <<>> /\ IsBlank(text))
    PROVE  \E f : Scans(f, text) /\ SplitSentences(text) = f[Len(text)].sentences
<1> DEFINE n == Len(text)
           V == [cut : Nat, sentences : Seq(Seq(Char))]
           step == [k \in 1..n |-> [v \in V |-> Scanned(text, v, k)]]
           Scan(f) == f = [k \in 0..n |-> IF k = 0 THEN [cut |-> 0, sentences |-> <<>>]
                                          ELSE Scanned(text, f[k - 1], k)]
<1>1. n \in Nat /\ NoScan \in V
    BY DEF NoScan
<1>2. ASSUME NEW k \in 1..n, NEW v \in V PROVE Scanned(text, v, k) \in V
    <2> DEFINE sent == Strip(SubSeq(text, v.cut + 1, k))
    <2>1. /\ v.cut \in Nat /\ v.sentences \in Seq(Seq(Char)) /\ k \in Nat
          /\ \A i \in v.cut + 1 .. k : text[i] \in Char
        OBVIOUS
    <2>2. SubSeq(text, v.cut + 1, k) \in Seq(Char)
        BY <2>1, SubSeqProperties
    <2>3. sent \in Seq(Char)
        BY <2>2, StripSaid
    <2>4. Scanned(text, v, k) = IF k \notin Cuts(text) THEN v
                                ELSE [cut |-> k, sentences |-> IF sent = <<>> THEN v.sentences
                                                               ELSE Append(v.sentences, sent)]
        BY DEF Scanned
    <2> HIDE DEF sent
    <2>5. Append(v.sentences, sent) \in Seq(Seq(Char))
        BY <2>1, <2>3
    <2> QED BY <2>1, <2>4, <2>5
<1>3. step \in [1..n -> [V -> V]]
    BY <1>2
<1>4. PICK f \in [0..n -> V] : f[0] = NoScan /\ \A k \in 1..n : f[k] = step[k][f[k - 1]]
    <2> HIDE DEF step, V, n
    <2>1. \E f \in [0..n -> V] : Runs(f, NoScan, step, n)
        BY <1>1, <1>3, Recursion
    <2> QED BY <2>1 DEF Runs
<1>5. Scans(f, text)
    <2> SUFFICES ASSUME NEW k \in 1..n PROVE f[k] = Scanned(text, f[k - 1], k)
        BY <1>4 DEF Scans
    <2>1. k - 1 \in 0..n
        BY <1>1
    <2>2. f[k - 1] \in V
        BY <2>1
    <2>3. f[k] = step[k][f[k - 1]]
        BY <1>4
    <2> HIDE DEF V
    <2> QED BY <2>2, <2>3
<1>6. ASSUME NEW g, Scan(g) PROVE g = f
    <2>1. g[0] = NoScan
        BY <1>1, <1>6 DEF NoScan
    <2>2. ASSUME NEW k \in 1..n PROVE g[k] = Scanned(text, g[k - 1], k)
        <3>1. k \in 0..n /\ k # 0
            BY <1>1
        <3> QED BY <1>6, <3>1
    <2>3. SameSteps(f, g, n)
        BY <1>5, <2>1, <2>2 DEF SameSteps, Scans
    <2>4. \A k \in 0..n : f[k] = g[k]
        <3> HIDE DEF Scan, n
        <3> QED BY <1>1, <2>3, SameFunctions
    <2>5. g = [k \in 0..n |-> g[k]] /\ f = [k \in 0..n |-> f[k]]
        BY <1>6
    <2> QED BY <2>4, <2>5
<1>7. Scan(f)
    <2> DEFINE g == [k \in 0..n |-> IF k = 0 THEN [cut |-> 0, sentences |-> <<>>]
                                    ELSE Scanned(text, f[k - 1], k)]
    <2>1. ASSUME NEW k \in 0..n PROVE f[k] = g[k]
        <3>1. k = 0 \/ k \in 1 .. Len(text)
            BY <1>1
        <3> QED BY <1>5, <3>1 DEF Scans, NoScan
    <2>2. f = [k \in 0..n |-> f[k]]
        OBVIOUS
    <2> QED BY <2>1, <2>2
<1>8. (CHOOSE g : Scan(g)) = f
    <2> HIDE DEF Scan
    <2> QED BY <1>6, <1>7
<1>9. SplitSentences(text) = (CHOOSE g : Scan(g))[n].sentences
    BY DEF SplitSentences
<1> QED BY <1>5, <1>8, <1>9

\* What SplitKeepsText says of one text and its sentences.
Split(text, sentences, cut) ==
    /\ sentences \in Seq(Text)
    /\ Said(FlattenSeq(sentences)) = Said(text)
    /\ cut => \A j \in DOMAIN sentences : Whole(sentences[j])

LEMMA SplitIsRight ==
    ASSUME NEW text \in Text
    PROVE  Split(text, SplitSentences(text), TRUE) /\ Split(text, <<text>>, FALSE)
<1>1. text \in Seq(Char) /\ Text = Seq(Char)
    BY DEF Text, Char
<1>2. FlattenSeq(<<text>>) = text /\ <<text>> \in Seq(Text)
    BY <1>1, FlattenOne
<1>3. Split(text, <<text>>, FALSE)
    BY <1>2 DEF Split
<1>4. CASE text # <<>> /\ IsBlank(text)
    <2>1. SplitSentences(text) = <<text>>
        BY <1>4 DEF SplitSentences
    <2>2. \A k \in 1 .. Len(text) - 1 : text[k] = Blank
        BY <1>1, <1>4 DEF IsBlank
    <2>3. Whole(text)
        BY <2>2 DEF Whole, EndsSentence, Blank, Mark, Dot
    <2>4. \A j \in DOMAIN <<text>> : <<text>>[j] = text
        OBVIOUS
    <2> QED BY <1>2, <1>3, <2>1, <2>3, <2>4 DEF Split
<1>5. CASE ~(text # <<>> /\ IsBlank(text))
    <2>1. PICK f : Scans(f, text) /\ SplitSentences(text) = f[Len(text)].sentences
        BY <1>1, <1>5, SplitScans
    <2>2. Len(text) \in 0 .. Len(text) /\ Len(text) \in Nat
        BY <1>1
    <2>3. ScanInv(text, f[Len(text)], Len(text))
        BY <1>1, <2>1, <2>2, ScanGoesOn
    <2> DEFINE scan == f[Len(text)]
    <2>4. scan.cut = Len(text)
        <3>1. Len(text) \in Cuts(text)
            BY DEF Cuts
        <3>2. scan.cut \in 0 .. Len(text) /\ Len(text) \notin scan.cut + 1 .. Len(text)
            BY <2>3, <3>1 DEF ScanInv
        <3> QED BY <2>2, <3>2
    <2>5. SubSeq(text, 1, Len(text)) = text
        BY <1>1, SubSeqFull
    <2>6. Said(FlattenSeq(scan.sentences)) = Said(text)
        BY <2>3, <2>4, <2>5 DEF ScanInv
    <2>7. scan.sentences \in Seq(Text) /\ \A j \in DOMAIN scan.sentences : Whole(scan.sentences[j])
        BY <1>1, <2>3 DEF ScanInv
    <2> QED BY <1>3, <2>1, <2>6, <2>7 DEF Split
<1> QED BY <1>4, <1>5

-----------------------------------------------------------------------------
(* Regrouping *)

\* The place of the last sentence of the first i texts.
End(sentences, i) == Len(FlattenSeq(SubSeq(sentences, 1, i)))

LEMMA EndsStep ==
    ASSUME NEW T, NEW sentences \in Seq(Seq(T))
    PROVE  /\ End(sentences, 0) = 0
           /\ End(sentences, Len(sentences)) = Len(FlattenSeq(sentences))
           /\ \A i \in 0 .. Len(sentences) : End(sentences, i) \in Nat
           /\ \A i \in 1 .. Len(sentences) :
                 /\ Len(sentences[i]) \in Nat
                 /\ End(sentences, i) = End(sentences, i - 1) + Len(sentences[i])
<1>1. SubSeq(sentences, 1, 0) = <<>> /\ Len(<<>>) = 0
    BY SubSeqEmpty
<1>2. SubSeq(sentences, 1, Len(sentences)) = sentences
    BY SubSeqFull
<1>3. ASSUME NEW i \in 1 .. Len(sentences)
      PROVE  /\ Len(sentences[i]) \in Nat /\ End(sentences, i) \in Nat
             /\ End(sentences, i) = End(sentences, i - 1) + Len(sentences[i])
    <2> DEFINE k == i - 1
               u == FlattenSeq(SubSeq(sentences, 1, k))
               v == sentences[k + 1]
    <2>1. k \in 0 .. Len(sentences) - 1 /\ k + 1 = i
        OBVIOUS
    <2> HIDE DEF k
    <2>2. v \in Seq(T) /\ u \in Seq(T) /\ FlattenSeq(SubSeq(sentences, 1, k + 1)) = u \o v
        BY <2>1, FlattenTo
    <2>3. End(sentences, k + 1) = Len(u \o v) /\ End(sentences, k) = Len(u)
        BY <2>2 DEF End
    <2> HIDE DEF u, v
    <2>4. Len(u \o v) = Len(u) + Len(v) /\ Len(u) \in Nat /\ Len(v) \in Nat
        BY <2>2, ConcatProperties
    <2> QED BY <2>1, <2>3, <2>4 DEF v, k
<1>4. ASSUME NEW i \in 0 .. Len(sentences) PROVE End(sentences, i) \in Nat
    <2>1. i = 0 \/ i \in 1 .. Len(sentences)
        OBVIOUS
    <2> QED BY <1>1, <1>3, <2>1, FlattenNone DEF End
<1> QED BY <1>1, <1>2, <1>3, <1>4, FlattenNone DEF End

LEMMA EndsGrow ==
    ASSUME NEW T, NEW sentences \in Seq(Seq(T)), NEW i \in 0 .. Len(sentences),
           NEW j \in 0 .. Len(sentences), i <= j
    PROVE  End(sentences, i) <= End(sentences, j)
<1> DEFINE Good == {n \in Nat : i + n <= Len(sentences) =>
                                    End(sentences, i) <= End(sentences, i + n)}
<1>1. /\ \A k \in 0 .. Len(sentences) : End(sentences, k) \in Nat
      /\ \A k \in 1 .. Len(sentences) :
            /\ Len(sentences[k]) \in Nat
            /\ End(sentences, k) = End(sentences, k - 1) + Len(sentences[k])
    BY EndsStep
<1>2. 0 \in Good
    BY <1>1
<1>3. ASSUME NEW n \in Nat, n \in Good PROVE n + 1 \in Good
    <2> SUFFICES ASSUME i + n + 1 <= Len(sentences)
                 PROVE  End(sentences, i) <= End(sentences, i + n + 1)
        OBVIOUS
    <2>1. /\ i + n \in 0 .. Len(sentences) /\ i + n + 1 \in 1 .. Len(sentences)
          /\ (i + n + 1) - 1 = i + n /\ i + n <= Len(sentences)
        OBVIOUS
    <2>2. End(sentences, i) <= End(sentences, i + n)
        BY <1>3, <2>1
    <2>3. /\ Len(sentences[i + n + 1]) \in Nat
          /\ End(sentences, i + n + 1) = End(sentences, (i + n + 1) - 1) + Len(sentences[i + n + 1])
        BY <1>1, <2>1
    <2>4. End(sentences, (i + n + 1) - 1) = End(sentences, i + n)
        BY <2>1
    <2>5. End(sentences, i) \in Nat /\ End(sentences, i + n) \in Nat
        BY <1>1, <2>1
    <2> QED BY <2>2, <2>3, <2>4, <2>5
<1>4. \A n \in Nat : n \in Good
    <2> HIDE DEF Good
    <2> QED BY <1>2, <1>3, Induction
<1>5. j - i \in Nat /\ i + (j - i) = j /\ i + (j - i) <= Len(sentences)
    OBVIOUS
<1>6. End(sentences, i) <= End(sentences, i + (j - i))
    BY <1>4, <1>5
<1> QED BY <1>5, <1>6

\* Every sentence is between the ends of two texts.
LEMMA SentenceHasText ==
    ASSUME NEW T, NEW sentences \in Seq(Seq(T)), NEW k \in 1 .. Len(FlattenSeq(sentences))
    PROVE  \E i \in 1 .. Len(sentences) : End(sentences, i - 1) < k /\ k <= End(sentences, i)
<1> DEFINE n == Len(sentences)
           S == {i \in 0..n : k <= End(sentences, i)}
<1>1. /\ n \in Nat /\ End(sentences, 0) = 0 /\ k <= End(sentences, n) /\ k \in Nat /\ 1 <= k
      /\ \A i \in 0..n : End(sentences, i) \in Nat
    <2>1. n \in Nat
        OBVIOUS
    <2>2. /\ End(sentences, 0) = 0 /\ \A i \in 0..n : End(sentences, i) \in Nat
          /\ End(sentences, n) = Len(FlattenSeq(sentences))
        BY EndsStep
    <2>3. End(sentences, n) \in Nat
        BY <2>1, <2>2
    <2> QED BY <2>1, <2>2, <2>3
<1>2. S \subseteq Nat /\ S # {}
    BY <1>1
<1>3. \E i \in S : \A j \in S : i <= j
    <2> HIDE DEF S
    <2> QED BY <1>2, Smallest
<1>4. PICK i \in S : \A j \in S : i <= j
    BY <1>3
<1>5. i # 0 /\ i - 1 \in 0..n /\ i \in 1..n
    BY <1>1, <1>4
<1>6. ~(k <= End(sentences, i - 1))
    BY <1>1, <1>4, <1>5
<1>7. End(sentences, i - 1) \in Nat
    BY <1>1, <1>5
<1> QED BY <1>1, <1>4, <1>5, <1>6, <1>7

\* And of two texts only.
LEMMA TextOfSentence ==
    ASSUME NEW T, NEW sentences \in Seq(Seq(T)), NEW k \in 1 .. Len(FlattenSeq(sentences)),
           NEW i \in 1 .. Len(sentences)
    PROVE  TextOf(sentences, k) = i <=> End(sentences, i - 1) < k /\ k <= End(sentences, i)
<1> DEFINE In(j) == End(sentences, j - 1) < k /\ k <= End(sentences, j)
<1>1. DOMAIN sentences = 1 .. Len(sentences) /\ k \in Nat
    <2>1. Len(FlattenSeq(sentences)) = End(sentences, Len(sentences)) /\ Len(sentences) \in Nat
        BY EndsStep
    <2> QED OBVIOUS
<1>2. TextOf(sentences, k) = CHOOSE j \in 1 .. Len(sentences) :
                                /\ k > Len(FlattenSeq(SubSeq(sentences, 1, j - 1)))
                                /\ k <= Len(FlattenSeq(SubSeq(sentences, 1, j)))
    BY <1>1 DEF TextOf
<1>3. TextOf(sentences, k) = CHOOSE j \in 1 .. Len(sentences) :
                                k > End(sentences, j - 1) /\ k <= End(sentences, j)
    BY <1>2 DEF End
<1>4. \E j \in 1 .. Len(sentences) : k > End(sentences, j - 1) /\ k <= End(sentences, j)
    <2>1. PICK j \in 1 .. Len(sentences) : In(j)
        BY SentenceHasText
    <2>2. j - 1 \in 0 .. Len(sentences)
        OBVIOUS
    <2>3. End(sentences, j - 1) \in Nat
        BY <2>2, EndsStep
    <2> QED BY <1>1, <2>1, <2>3
<1>5. /\ TextOf(sentences, k) \in 1 .. Len(sentences)
      /\ k > End(sentences, TextOf(sentences, k) - 1) /\ k <= End(sentences, TextOf(sentences, k))
    BY <1>3, <1>4
<1>6. ASSUME NEW j \in 1 .. Len(sentences), k > End(sentences, j - 1), k <= End(sentences, j)
      PROVE  End(sentences, j - 1) < k
    <2>1. j - 1 \in 0 .. Len(sentences)
        OBVIOUS
    <2>2. End(sentences, j - 1) \in Nat
        BY <2>1, EndsStep
    <2> QED BY <1>1, <1>6, <2>2
<1>7. ASSUME NEW j \in 1 .. Len(sentences), NEW l \in 1 .. Len(sentences), In(j), In(l), j < l
      PROVE  FALSE
    <2>1. j \in 0 .. Len(sentences) /\ l - 1 \in 0 .. Len(sentences) /\ j <= l - 1
        BY <1>7
    <2>2. End(sentences, j) <= End(sentences, l - 1)
        BY <2>1, EndsGrow
    <2>3. End(sentences, j) \in Nat /\ End(sentences, l - 1) \in Nat
        BY <2>1, EndsStep
    <2> QED BY <1>1, <1>7, <2>2, <2>3
<1> DEFINE t == TextOf(sentences, k)
<1>8. t \in 1 .. Len(sentences) /\ In(t)
    BY <1>5, <1>6
<1> HIDE DEF t, In
<1>9. In(i) => t = i
    <2>1. i \in Int /\ t \in Int /\ (i < t \/ t < i \/ t = i)
        BY <1>8
    <2> QED BY <1>7, <1>8, <2>1
<1> QED BY <1>8, <1>9 DEF t, In

\* The translations between two ends, joined, are those of the sentences that
\* succeeded there.
LEMMA WindowIsFiltered ==
    ASSUME NEW outcomes \in Seq(Nat), NEW a \in Nat, NEW b \in Nat,
           a <= b, b <= Len(outcomes)
    PROVE  FlattenSeq(SubSeq([k \in DOMAIN outcomes |-> Translation(k, outcomes[k])], a + 1, b)) =
               Only([k \in DOMAIN outcomes |-> k],
                    {k \in DOMAIN outcomes : a < k /\ k <= b /\ outcomes[k] = Translated})
<1> DEFINE n == Len(outcomes)
           tr == [k \in DOMAIN outcomes |-> Translation(k, outcomes[k])]
           id == [k \in DOMAIN outcomes |-> k]
           S == {k \in DOMAIN outcomes : a < k /\ k <= b /\ outcomes[k] = Translated}
<1>1. n \in Nat /\ DOMAIN outcomes = 1..n
    OBVIOUS
<1>2. id \in Seq(Nat) /\ Len(id) = n /\ \A k \in 1..n : id[k] = k
    BY <1>1
<1>3. tr \in Seq(Seq(Nat)) /\ Len(tr) = n
    <2>1. \A k \in 1..n : Translation(k, outcomes[k]) \in Seq(Nat)
        BY DEF Translation
    <2> QED BY <1>1, <2>1
<1>4. \A k \in 1..n : tr[k] = IF outcomes[k] = Translated THEN <<k>> ELSE <<>>
    BY <1>1 DEF Translation
<1>5. \A k : k \in S <=> k \in 1..n /\ a < k /\ k <= b /\ outcomes[k] = Translated
    BY <1>1
<1> HIDE DEF tr, id, S
<1> DEFINE To(m) == Only(SubSeq(id, 1, m), S)
           Good == {m \in Nat : a + m <= b => FlattenSeq(SubSeq(tr, a + 1, a + m)) = To(a + m)}
<1>6. To(a) = <<>>
    <2>1. 0 \in Nat /\ 0 <= a /\ a <= n
        BY <1>1
    <2>2. \A k \in 0 + 1 .. a : id[k] \notin S
        <3>1. \A k \in 0 + 1 .. a : k \in 1..n /\ ~(a < k)
            BY <1>1
        <3>2. \A k \in 0 + 1 .. a : id[k] = k
            BY <1>2, <3>1
        <3> QED BY <1>5, <3>1, <3>2
    <2>3. To(a) = To(0)
        BY <1>2, <2>1, <2>2, OnlySkips
    <2>4. SubSeq(id, 1, 0) = <<>>
        BY SubSeqEmpty
    <2> QED BY <2>3, <2>4, OnlyNone
<1>7. 0 \in Good
    <2>1. SubSeq(tr, a + 1, a + 0) = <<>>
        BY SubSeqEmpty
    <2>2. a + 0 = a
        OBVIOUS
    <2> QED BY <1>6, <2>1, <2>2, FlattenNone
<1>8. ASSUME NEW m \in Nat, m \in Good PROVE m + 1 \in Good
    <2> SUFFICES ASSUME a + (m + 1) <= b
                 PROVE  FlattenSeq(SubSeq(tr, a + 1, a + (m + 1))) = To(a + (m + 1))
        OBVIOUS
    <2> DEFINE k == a + m
               u == SubSeq(tr, a + 1, k)
               v == SubSeq(id, 1, k)
               x == tr[k + 1]
               y == id[k + 1]
    <2>1. /\ k \in Nat /\ a <= k /\ k < Len(tr) /\ k <= Len(tr) /\ k + 1 = a + (m + 1)
          /\ k \in 0 .. Len(id) - 1 /\ k + 1 \in 1..n /\ a < k + 1 /\ k + 1 <= b /\ k <= b
        BY <1>1, <1>2, <1>3
    <2>2. FlattenSeq(u) = To(k)
        BY <1>8, <2>1
    <2> HIDE DEF k, To
    <2>3. x \in Seq(Nat) /\ SubSeq(tr, a + 1, k + 1) = Append(u, x)
        BY <1>3, <2>1, PartsGrow
    <2>4. u \in Seq(Seq(Nat))
        BY <1>3, <2>1, Parts
    <2>5. v \in Seq(Nat) /\ y \in Nat /\ SubSeq(id, 1, k + 1) = Append(v, y)
        <3>1. id \in Seq(Nat) /\ k \in 0 .. Len(id) - 1
            BY <1>2, <2>1
        <3> HIDE DEF id
        <3> QED BY <3>1, Fronts
    <2>6. y = k + 1 /\ (y \in S <=> outcomes[k + 1] = Translated)
        BY <1>2, <1>5, <2>1
    <2>7. x = IF y \in S THEN <<y>> ELSE <<>>
        BY <1>4, <2>1, <2>6
    <2> HIDE DEF u, v, x, y
    <2>8. FlattenSeq(Append(u, x)) = FlattenSeq(u) \o x /\ FlattenSeq(u) \in Seq(Nat)
        BY <2>3, <2>4, FlattenAppend, FlattenType
    <2>9. Only(Append(v, y), S) = IF y \in S THEN Append(Only(v, S), y) ELSE Only(v, S)
        BY <2>5, OnlyAppend
    <2>10. FlattenSeq(u) = Only(v, S)
        BY <2>2 DEF To, v
    <2> DEFINE w == Only(v, S)
    <2>11. w \in Seq(Nat)
        BY <2>8, <2>10
    <2> HIDE DEF w
    <2>12. w \o <<>> = w /\ Append(w, y) = w \o <<y>>
        BY <2>5, <2>11, ConcatEmptySeq, AppendIsConcat
    <2>13. FlattenSeq(Append(u, x)) = w \o x
        BY <2>8, <2>10 DEF w
    <2>14. Only(Append(v, y), S) = IF y \in S THEN Append(w, y) ELSE w
        BY <2>9 DEF w
    <2>15. FlattenSeq(Append(u, x)) = Only(Append(v, y), S)
        BY <2>7, <2>12, <2>13, <2>14
    <2>16. FlattenSeq(SubSeq(tr, a + 1, k + 1)) = Only(SubSeq(id, 1, k + 1), S)
        BY <2>3, <2>5, <2>15
    <2> QED BY <2>1, <2>16 DEF To
<1>9. FlattenSeq(SubSeq(tr, a + 1, b)) = To(b)
    <2>1. \A m \in Nat : m \in Good
        <3> HIDE DEF Good
        <3> QED BY <1>7, <1>8, Induction
    <2>2. b - a \in Nat /\ a + (b - a) = b
        OBVIOUS
    <2> HIDE DEF To
    <2> QED BY <2>1, <2>2
<1>10. To(n) = To(b)
    <2>1. n <= n /\ b <= n
        BY <1>1
    <2>2. \A k \in b + 1 .. n : id[k] \notin S
        BY <1>1, <1>2, <1>5
    <2> QED BY <1>1, <1>2, <2>1, <2>2, OnlySkips
<1>11. SubSeq(id, 1, n) = id
    BY <1>2, SubSeqFull
<1>12. FlattenSeq(SubSeq(tr, a + 1, b)) = Only(id, S)
    BY <1>9, <1>10, <1>11
<1> QED BY <1>12 DEF tr, id, S

\* Every text gets what was translated of its own sentences.
Aligned(sentences, outcomes, result) ==
    /\ Len(result) = Len(sentences)
    /\ \A i \in DOMAIN sentences :
          result[i] = Only([k \in DOMAIN outcomes |-> k],
                           {k \in DOMAIN outcomes : /\ TextOf(sentences, k) = i
                                                    /\ outcomes[k] = Translated})

LEMMA RegroupAligns ==
    ASSUME NEW T, NEW sentences \in Seq(Seq(T)), NEW outcomes \in Seq(Nat),
           Len(outcomes) = Len(FlattenSeq(sentences))
    PROVE  LET result == Regrouped(sentences, [k \in DOMAIN outcomes |->
                                                 Translation(k, outcomes[k])])
           IN  result \in Seq(Seq(Nat)) /\ Aligned(sentences, outcomes, result)
<1> DEFINE tr == [k \in DOMAIN outcomes |-> Translation(k, outcomes[k])]
           n == Len(sentences)
           window(i) == FlattenSeq(SubSeq(tr, End(sentences, i - 1) + 1,
                                          End(sentences, i - 1) + Len(sentences[i])))
           own(i) == {k \in DOMAIN outcomes : TextOf(sentences, k) = i /\ outcomes[k] = Translated}
           id == [k \in DOMAIN outcomes |-> k]
<1>1. n \in Nat /\ DOMAIN sentences = 1..n /\ DOMAIN outcomes = 1 .. Len(outcomes)
      /\ Len(outcomes) \in Nat
    OBVIOUS
<1>2. Regrouped(sentences, tr) = [i \in 1..n |-> window(i)]
    <2> HIDE DEF tr
    <2> QED BY <1>1 DEF Regrouped, End
<1>3. ASSUME NEW i \in 1..n PROVE window(i) = Only(id, own(i)) /\ window(i) \in Seq(Nat)
    <2> DEFINE a == End(sentences, i - 1)
               b == End(sentences, i)
    <2>1. i \in 0..n /\ i - 1 \in 0..n /\ i - 1 <= i /\ n \in 0..n /\ i <= n
        BY <1>1
    <2>2. /\ a \in Nat /\ b \in Nat /\ Len(sentences[i]) \in Nat
          /\ b = a + Len(sentences[i]) /\ End(sentences, n) = Len(outcomes)
        BY <2>1, EndsStep
    <2>3. b <= End(sentences, n)
        BY <2>1, EndsGrow
    <2>4. a <= b /\ b <= Len(outcomes)
        BY <2>2, <2>3
    <2>5. own(i) = {k \in DOMAIN outcomes : a < k /\ k <= b /\ outcomes[k] = Translated}
        <3>1. ASSUME NEW k \in DOMAIN outcomes
              PROVE  TextOf(sentences, k) = i <=> a < k /\ k <= b
            <4>1. k \in 1 .. Len(FlattenSeq(sentences))
                BY <1>1
            <4> QED BY <4>1, TextOfSentence
        <3> HIDE DEF a, b
        <3> QED BY <3>1
    <2>6. window(i) = FlattenSeq(SubSeq(tr, a + 1, b))
        BY <2>2
    <2> HIDE DEF a, b
    <2>7. FlattenSeq(SubSeq(tr, a + 1, b)) =
              Only(id, {k \in DOMAIN outcomes : a < k /\ k <= b /\ outcomes[k] = Translated})
        BY <2>2, <2>4, WindowIsFiltered
    <2>8. window(i) = Only(id, own(i))
        BY <2>5, <2>6, <2>7
    <2>9. id \in Seq(Nat)
        BY <1>1
    <2> HIDE DEF id, own, window
    <2>10. Only(id, own(i)) \in Seq(Nat)
        BY <2>9, OnlyType
    <2> QED BY <2>8, <2>10
<1> DEFINE result == Regrouped(sentences, tr)
<1>4. result = [i \in 1..n |-> window(i)]
    BY <1>2
<1>5. result \in Seq(Seq(Nat)) /\ Len(result) = n /\ \A i \in 1..n : result[i] = window(i)
    <2> HIDE DEF result, window
    <2>1. \A i \in 1..n : window(i) \in Seq(Nat)
        BY <1>3
    <2>2. result \in [1..n -> Seq(Nat)]
        BY <1>4, <2>1
    <2>3. \A i \in 1..n : result[i] = window(i)
        BY <1>4
    <2>4. result \in Seq(Seq(Nat)) /\ Len(result) = n
        <3> HIDE DEF n
        <3>1. n \in Nat
            BY <1>1
        <3> QED BY <2>2, <3>1
    <2> QED BY <2>3, <2>4
<1>6. ASSUME NEW i \in DOMAIN sentences PROVE result[i] = Only(id, own(i))
    <2> HIDE DEF result, window, own, id
    <2> QED BY <1>1, <1>3, <1>5
<1>7. Aligned(sentences, outcomes, result)
    <2> HIDE DEF result
    <2> QED BY <1>5, <1>6 DEF Aligned
<1> QED BY <1>5, <1>7

-----------------------------------------------------------------------------
(* Requests *)

Outcome == {Pending, Translated, NoText} \cup Errors
Status  == {0, Translated, 400} \cup Errors

RequestType ==
    [state : {"none", "open", "answered", "rejected"}, texts : Seq(Text),
     sentences : Seq(Seq(Text)), outcomes : Seq(Outcome),
     status : Status, result : Seq(Seq(Nat))]

\* A request has the sentences of its texts and one outcome for each of them,
\* and every text of an answered one the translations of its own sentences.
IsRequest(q, cut) ==
    /\ q \in RequestType
    /\ Len(q.sentences) = Len(q.texts)
    /\ \A i \in DOMAIN q.texts : Split(q.texts[i], q.sentences[i], cut)
    /\ Len(q.outcomes) = Len(FlattenSeq(q.sentences))
    /\ q.state = "answered" => Aligned(q.sentences, q.outcomes, q.result)

LEMMA OutcomesAreCodes == \A outcomes \in Seq(Outcome) : outcomes \in Seq(Nat)
<1>1. Outcome \subseteq Nat
    BY DEF Outcome, Pending, Translated, NoText, Errors
<1> SUFFICES ASSUME NEW outcomes \in Seq(Outcome) PROVE outcomes \in Seq(Nat)
    OBVIOUS
<1>2. /\ Len(outcomes) \in Nat /\ DOMAIN outcomes = 1 .. Len(outcomes)
      /\ \A k \in 1 .. Len(outcomes) : outcomes[k] \in Outcome
    OBVIOUS
<1>3. \A k \in 1 .. Len(outcomes) : outcomes[k] \in Nat
    BY <1>1, <1>2
<1>4. outcomes = [k \in 1 .. Len(outcomes) |-> outcomes[k]]
    BY <1>2
<1> QED BY <1>2, <1>3, <1>4

RequestInv ==
    /\ split \in BOOLEAN
    /\ request \in [Requests -> RequestType]
    /\ \A r \in Requests : IsRequest(request[r], split)

LEMMA RequestInit == Init => RequestInv
<1>1. NoRequest \in RequestType
    BY DEF NoRequest, RequestType, Status
<1>2. Len(<<>>) = 0 /\ DOMAIN <<>> = {}
    OBVIOUS
<1>3. \A cut : IsRequest(NoRequest, cut)
    BY <1>1, <1>2, FlattenNone DEF IsRequest, NoRequest
<1> HIDE DEF NoRequest
<1> QED BY <1>1, <1>3 DEF Init, RequestInv

\* A step that changes one request, keeping that request's invariant.
LEMMA RequestChanged ==
    ASSUME RequestInv, NEW r \in Requests, NEW q, IsRequest(q, split),
           split' = split, request' = [request EXCEPT ![r] = q]
    PROVE  RequestInv'
<1>1. q \in RequestType /\ request \in [Requests -> RequestType]
    BY DEF RequestInv, IsRequest
<1>2. \A s \in Requests : request'[s] = IF s = r THEN q ELSE request[s]
    BY <1>1
<1>3. request' \in [Requests -> RequestType]
    BY <1>1
<1>4. \A s \in Requests : IsRequest(request'[s], split')
    BY <1>2 DEF RequestInv
<1> QED BY <1>3, <1>4 DEF RequestInv

\* The sentences of the texts, one by one.
LEMMA SentencesSplit ==
    ASSUME NEW texts \in Seq(Text), NEW cut \in BOOLEAN
    PROVE  /\ Sentences(texts, cut) \in Seq(Seq(Text))
           /\ Len(Sentences(texts, cut)) = Len(texts)
           /\ \A i \in DOMAIN texts : Split(texts[i], Sentences(texts, cut)[i], cut)
<1> DEFINE of(i) == IF cut THEN SplitSentences(texts[i]) ELSE <<texts[i]>>
           n == Len(texts)
           all == [i \in 1..n |-> of(i)]
<1>1. n \in Nat /\ DOMAIN texts = 1..n
    OBVIOUS
<1>2. ASSUME NEW i \in 1..n PROVE Split(texts[i], of(i), cut) /\ of(i) \in Seq(Text)
    <2>1. texts[i] \in Text
        BY <1>1
    <2>2. Split(texts[i], SplitSentences(texts[i]), TRUE) /\ Split(texts[i], <<texts[i]>>, FALSE)
        BY <2>1, SplitIsRight
    <2>3. CASE cut
        BY <2>2, <2>3 DEF Split
    <2>4. CASE ~cut
        BY <2>2, <2>4 DEF Split
    <2> QED BY <2>3, <2>4
<1>3. Sentences(texts, cut) = all
    BY <1>1 DEF Sentences
<1> HIDE DEF of, n
<1>4. all \in [1..n -> Seq(Text)]
    BY <1>2
<1>5. \A i \in 1..n : all[i] = of(i)
    OBVIOUS
<1> HIDE DEF all
<1>6. all \in Seq(Seq(Text)) /\ Len(all) = n
    <2>1. n \in Nat
        BY <1>1
    <2> QED BY <1>4, <2>1
<1> QED BY <1>1, <1>2, <1>3, <1>5, <1>6 DEF n

LEMMA ArriveKeeps ==
    ASSUME RequestInv, NEW r \in Requests, NEW texts \in Payloads, Arrive(r, texts)
    PROVE  RequestInv'
<1> DEFINE sentences == Sentences(texts, split)
           n == Len(FlattenSeq(sentences))
           outcomes == [k \in 1 .. n |-> Pending]
           q == [NoRequest EXCEPT !.state = "open", !.texts = texts,
                                  !.sentences = sentences, !.outcomes = outcomes]
<1>1. request' = [request EXCEPT ![r] = q] /\ split' = split
    BY DEF Arrive
<1>2. texts \in Seq(Text)
    BY PayloadsAssumption
<1>3. /\ sentences \in Seq(Seq(Text)) /\ Len(sentences) = Len(texts)
      /\ \A i \in DOMAIN texts : Split(texts[i], sentences[i], split)
    BY <1>2, SentencesSplit DEF RequestInv
<1> HIDE DEF sentences
<1>4. n \in Nat
    <2>1. sentences \in Seq(Seq(Seq(Char)))
        BY <1>3 DEF Text, Char
    <2>2. FlattenSeq(sentences) \in Seq(Seq(Char))
        BY <2>1, FlattenType
    <2> QED BY <2>2
<1>5. outcomes \in Seq(Outcome) /\ Len(outcomes) = n
    <2> HIDE DEF n
    <2> QED BY <1>4 DEF Outcome
<1> HIDE DEF outcomes
<1>6. /\ q.state = "open" /\ q.texts = texts /\ q.sentences = sentences
      /\ q.outcomes = outcomes
    BY DEF NoRequest
<1>7. q \in RequestType
    <2>1. NoRequest \in RequestType
        BY DEF NoRequest, RequestType, Status
    <2>2. sentences \in Seq(Seq(Text)) /\ outcomes \in Seq(Outcome)
        BY <1>3, <1>5
    <2> HIDE DEF NoRequest
    <2> QED BY <1>2, <2>1, <2>2 DEF RequestType
<1> HIDE DEF q
<1>8. IsRequest(q, split)
    BY <1>3, <1>5, <1>6, <1>7 DEF IsRequest
<1> QED BY <1>1, <1>8, RequestChanged

LEMMA TranslateKeeps ==
    ASSUME RequestInv, NEW r \in Requests, NEW k \in DOMAIN request[r].outcomes,
           TranslateSingle(r, k)
    PROVE  RequestInv'
<1> DEFINE old == request[r]
<1>1. IsRequest(old, split) /\ old \in RequestType
    BY DEF RequestInv
<1>2. PICK o \in Outcomes : request' = [request EXCEPT ![r].outcomes[k] = o]
    BY DEF TranslateSingle
<1>3. o \in Outcome
    BY DEF Outcomes, Outcome, Errors
<1> DEFINE more == [old.outcomes EXCEPT ![k] = o]
           q == [old EXCEPT !.outcomes = more]
<1>4. request' = [request EXCEPT ![r] = q] /\ split' = split /\ old.state = "open"
    BY <1>2 DEF TranslateSingle
<1>5. old.outcomes \in Seq(Outcome)
    BY <1>1 DEF RequestType
<1>6. more \in Seq(Outcome) /\ Len(more) = Len(old.outcomes)
    BY <1>3, <1>5
<1> HIDE DEF more
<1>7. /\ q.state = "open" /\ q.texts = old.texts /\ q.sentences = old.sentences
      /\ q.outcomes = more /\ q \in RequestType
    BY <1>1, <1>4, <1>6 DEF RequestType
<1> HIDE DEF q
<1>8. IsRequest(q, split)
    BY <1>1, <1>6, <1>7 DEF IsRequest
<1> QED BY <1>4, <1>8, RequestChanged

\* The status of an answer is 200 or the code of an error.
LEMMA FirstErrorType ==
    ASSUME NEW outcomes \in Seq(Nat)
    PROVE  FirstError(outcomes) \in {Translated} \cup Errors
<1> DEFINE failed == {k \in DOMAIN outcomes : outcomes[k] \in Errors}
           first == CHOOSE k \in failed : \A i \in failed : k <= i
<1>1. FirstError(outcomes) = IF failed = {} THEN Translated ELSE outcomes[first]
    BY DEF FirstError
<1>2. failed # {} => first \in failed
    <2>1. failed \subseteq 1 .. Len(outcomes) /\ Len(outcomes) \in Nat
        OBVIOUS
    <2> HIDE DEF failed
    <2> QED BY <2>1, Extremes
<1>3. \A k \in failed : outcomes[k] \in Errors
    OBVIOUS
<1> HIDE DEF failed, first
<1> QED BY <1>1, <1>2, <1>3

LEMMA AnswerKeeps ==
    ASSUME RequestInv, NEW r \in Requests, Answer(r)
    PROVE  RequestInv'
<1> DEFINE old == request[r]
           status == FirstError(old.outcomes)
           result == Regrouped(old.sentences, [k \in DOMAIN old.outcomes |->
                                                  Translation(k, old.outcomes[k])])
           q == [old EXCEPT !.state = "answered", !.status = status, !.result = result]
<1>1. IsRequest(old, split) /\ old \in RequestType
    BY DEF RequestInv
<1>2. request' = [request EXCEPT ![r] = q] /\ split' = split
    BY DEF Answer, Answered
<1>3. old.outcomes \in Seq(Nat) /\ old.sentences \in Seq(Seq(Seq(Char)))
    <2>1. old.outcomes \in Seq(Outcome) /\ old.sentences \in Seq(Seq(Text))
        BY <1>1 DEF RequestType
    <2>2. old.outcomes \in Seq(Nat)
        BY <2>1, OutcomesAreCodes
    <2> QED BY <2>1, <2>2 DEF Text, Char
<1>4. status \in {Translated} \cup Errors
    BY <1>3, FirstErrorType
<1>5. result \in Seq(Seq(Nat)) /\ Aligned(old.sentences, old.outcomes, result)
    <2>1. Len(old.outcomes) = Len(FlattenSeq(old.sentences))
        BY <1>1 DEF IsRequest
    <2> QED BY <1>3, <2>1, RegroupAligns
<1> HIDE DEF status, result
<1>6. /\ q.state = "answered" /\ q.texts = old.texts /\ q.sentences = old.sentences
      /\ q.outcomes = old.outcomes /\ q.status = status /\ q.result = result
      /\ q \in RequestType
    <2>1. status \in Status
        BY <1>4 DEF Status
    <2> HIDE DEF old
    <2> QED BY <1>1, <1>5, <2>1 DEF RequestType
<1> HIDE DEF q
<1>7. IsRequest(q, split)
    BY <1>1, <1>5, <1>6 DEF IsRequest
<1> QED BY <1>2, <1>7, RequestChanged

LEMMA RejectKeeps ==
    ASSUME RequestInv, NEW r \in Requests, Reject(r)
    PROVE  RequestInv'
<1> DEFINE old == request[r]
<1>1. IsRequest(old, split) /\ old \in RequestType
    BY DEF RequestInv
<1>2. PICK code \in {400, 500} :
          request' = [request EXCEPT ![r] = [@ EXCEPT !.state = "rejected", !.status = code]]
    BY DEF Reject
<1> DEFINE q == [old EXCEPT !.state = "rejected", !.status = code]
<1>3. request' = [request EXCEPT ![r] = q] /\ split' = split
    BY <1>2 DEF Reject
<1>4. /\ q.state = "rejected" /\ q.texts = old.texts /\ q.sentences = old.sentences
      /\ q.outcomes = old.outcomes /\ q \in RequestType
    <2>1. code \in Status
        BY DEF Status, Errors
    <2> HIDE DEF old
    <2> QED BY <1>1, <2>1 DEF RequestType
<1> HIDE DEF q
<1>5. IsRequest(q, split)
    BY <1>1, <1>4 DEF IsRequest
<1> QED BY <1>3, <1>5, RequestChanged

LEMMA RequestAlways == RequestInv /\ [Next]_vars => RequestInv'
<1> SUFFICES ASSUME RequestInv, [Next]_vars PROVE RequestInv'
    OBVIOUS
<1>1. CASE LifespanStep \/ Shutdown \/ Poll \/ VllmListens \/ VllmDies \/ UNCHANGED vars
    <2>1. request' = request /\ split' = split
        BY <1>1 DEF LifespanStep, StartVllm, WaitExited, WaitReady, WaitTimeout, StopGone,
                    StopExits, StopKills, Shutdown, Poll, VllmListens, VllmDies,
                    requestVars, vars
    <2> QED BY <2>1 DEF RequestInv
<1>2. ASSUME NEW r \in Requests,
             RequestStep(r) \/ Reject(r) \/ \E p \in Payloads : Arrive(r, p)
      PROVE  RequestInv'
    BY <1>2, TranslateKeeps, AnswerKeeps, RejectKeeps, ArriveKeeps DEF RequestStep
<1> QED BY <1>1, <1>2 DEF Next

\* Whatever a text is made of, cutting it into sentences (split_sentences) loses,
\* doubles and moves nothing but blanks, also what follows its last mark; no
\* sentence goes on behind a mark, and a dot inside a number cuts nothing.
THEOREM TextIsKept == Spec => []SplitKeepsText
<1>1. RequestInv => SplitKeepsText
    <2> SUFFICES ASSUME RequestInv, NEW r \in Requests, NEW i \in DOMAIN request[r].texts
                 PROVE  LET sentences == request[r].sentences[i]
                        IN  /\ Said(FlattenSeq(sentences)) = Said(request[r].texts[i])
                            /\ split => \A j \in DOMAIN sentences :
                                           \A k \in 1 .. Len(sentences[j]) - 1 :
                                               ~EndsSentence(sentences[j], k)
        BY DEF SplitKeepsText
    <2>1. Split(request[r].texts[i], request[r].sentences[i], split)
        BY DEF RequestInv, IsRequest
    <2> QED BY <2>1 DEF Split, Whole
<1> QED BY <1>1, RequestInit, RequestAlways, PTL DEF Spec

-----------------------------------------------------------------------------
(* The counters *)

Done == {r \in Requests : request[r].state = "answered"}

\* Every answer was counted, and the proxy's own variables have their types.
CountInv ==
    /\ lifespan \in {"starting", "waiting", "serving", "stopping", "stopped"}
    /\ vllm \in {"none", "running", "dead", "reaped"}
    /\ listening \in BOOLEAN /\ handle \in BOOLEAN
    /\ total_requests = Cardinality(Done)
    /\ total_texts \in Nat

LEMMA CountInit == Init => CountInv
<1> SUFFICES ASSUME Init PROVE CountInv
    OBVIOUS
<1>1. Done = {}
    BY DEF Init, Done, NoRequest
<1>2. Cardinality({}) = 0
    BY FS_EmptySet
<1> QED BY <1>1, <1>2 DEF Init, CountInv

\* Steps that answer no request.
LEMMA DoneStays ==
    ASSUME \A s \in Requests : request'[s].state = "answered" <=> request[s].state = "answered"
    PROVE  Done' = Done
BY DEF Done

LEMMA CountAlways == RequestInv /\ CountInv /\ [Next]_vars => CountInv'
<1> SUFFICES ASSUME RequestInv, CountInv, [Next]_vars PROVE CountInv'
    OBVIOUS
<1>1. request \in [Requests -> RequestType]
      /\ \A s \in Requests : request[s] \in RequestType
    BY DEF RequestInv
<1>2. CASE LifespanStep
    <2>1. UNCHANGED <<request, total_requests, total_texts>>
        BY <1>2 DEF LifespanStep, StartVllm, WaitExited, WaitReady, WaitTimeout, StopGone,
                    StopExits, StopKills, requestVars
    <2>2. /\ lifespan' \in {"starting", "waiting", "serving", "stopping", "stopped"}
          /\ vllm' \in {"none", "running", "dead", "reaped"}
          /\ listening' \in BOOLEAN /\ handle' \in BOOLEAN
        BY <1>2 DEF CountInv, LifespanStep, StartVllm, WaitExited, WaitReady, WaitTimeout,
                    StopGone, StopExits, StopKills
    <2> QED BY <2>1, <2>2 DEF CountInv, Done
<1>3. CASE Shutdown \/ Poll \/ VllmListens \/ VllmDies \/ UNCHANGED vars
    <2>1. UNCHANGED <<request, total_requests, total_texts>>
        BY <1>3 DEF Shutdown, Poll, VllmListens, VllmDies, requestVars, vars
    <2>2. /\ lifespan' \in {"starting", "waiting", "serving", "stopping", "stopped"}
          /\ vllm' \in {"none", "running", "dead", "reaped"}
          /\ listening' \in BOOLEAN /\ handle' \in BOOLEAN
        BY <1>3 DEF CountInv, Shutdown, Poll, VllmListens, VllmDies, vars
    <2> QED BY <2>1, <2>2 DEF CountInv, Done
<1>4. ASSUME NEW r \in Requests, Reject(r) \/ \E p \in Payloads : Arrive(r, p)
      PROVE  CountInv'
    <2>1. PICK q : request' = [request EXCEPT ![r] = q] /\ q.state \in {"open", "rejected"}
        <3>1. CASE Reject(r)
            <4>1. PICK code \in {400, 500} :
                    request' = [request EXCEPT ![r] = [@ EXCEPT !.state = "rejected",
                                                              !.status = code]]
                BY <3>1 DEF Reject
            <4>2. [request[r] EXCEPT !.state = "rejected", !.status = code].state = "rejected"
                BY <1>1 DEF RequestType
            <4> QED BY <4>1, <4>2
        <3>2. ASSUME NEW p \in Payloads, Arrive(r, p)
              PROVE  \E q : request' = [request EXCEPT ![r] = q] /\ q.state \in {"open", "rejected"}
            <4> DEFINE sentences == Sentences(p, split)
                       outcomes == [k \in 1 .. Len(FlattenSeq(sentences)) |-> Pending]
                       q == [NoRequest EXCEPT !.state = "open", !.texts = p,
                                              !.sentences = sentences, !.outcomes = outcomes]
            <4>1. request' = [request EXCEPT ![r] = q]
                BY <3>2 DEF Arrive
            <4> HIDE DEF outcomes, sentences
            <4>2. q.state = "open"
                BY DEF NoRequest
            <4> QED BY <4>1, <4>2
        <3> QED BY <1>4, <3>1, <3>2
    <2>2. request[r].state = "none"
        BY <1>4 DEF Reject, Arrive
    <2>3. \A s \in Requests : request'[s].state = "answered" <=> request[s].state = "answered"
        BY <1>1, <2>1, <2>2
    <2>4. UNCHANGED <<childVars, total_requests, total_texts>>
        BY <1>4 DEF Reject, Arrive
    <2> QED BY <2>3, <2>4, DoneStays DEF CountInv, childVars
<1>5. ASSUME NEW r \in Requests, NEW k \in DOMAIN request[r].outcomes, TranslateSingle(r, k)
      PROVE  CountInv'
    <2>1. PICK o : request' = [request EXCEPT ![r].outcomes[k] = o]
        BY <1>5 DEF TranslateSingle
    <2>2. request[r] \in RequestType
        BY <1>1
    <2> DEFINE more == [request[r].outcomes EXCEPT ![k] = o]
               q == [request[r] EXCEPT !.outcomes = more]
    <2>3. request' = [request EXCEPT ![r] = q]
        BY <2>1
    <2> HIDE DEF more
    <2>4. q.state = request[r].state
        BY <2>2 DEF RequestType
    <2> HIDE DEF q
    <2>5. \A s \in Requests : request'[s].state = "answered" <=> request[s].state = "answered"
        BY <1>1, <2>3, <2>4
    <2>6. UNCHANGED <<childVars, total_requests, total_texts>>
        BY <1>5 DEF TranslateSingle
    <2> QED BY <2>5, <2>6, DoneStays DEF CountInv, childVars
<1>6. ASSUME NEW r \in Requests, Answer(r) PROVE CountInv'
    <2>1. /\ request' = [request EXCEPT ![r] = Answered(request[r])]
          /\ request[r].state = "open" /\ UNCHANGED childVars
          /\ total_requests' = total_requests + 1
          /\ total_texts' = total_texts + Len(request[r].texts)
        BY <1>6 DEF Answer
    <2>2. request[r] \in RequestType
        BY <1>1
    <2>3. Answered(request[r]).state = "answered"
        BY <2>2 DEF RequestType, Answered
    <2>4. \A s \in Requests : request'[s] = IF s = r THEN Answered(request[r]) ELSE request[s]
        BY <1>1, <2>1
    <2>5. Done' = Done \cup {r} /\ r \notin Done
        BY <2>1, <2>3, <2>4 DEF Done
    <2>6. IsFiniteSet(Done)
        BY RequestsAssumption, FS_Subset DEF Done
    <2>7. Cardinality(Done \cup {r}) = Cardinality(Done) + 1
        BY <2>5, <2>6, FS_AddElement
    <2>8. Len(request[r].texts) \in Nat
        BY <2>2 DEF RequestType
    <2> QED BY <2>1, <2>5, <2>7, <2>8 DEF CountInv, childVars
<1> QED BY <1>2, <1>3, <1>4, <1>5, <1>6 DEF Next, RequestStep

\* The answers are counted out to the texts again as the sentences were counted
\* in (seg_counts): whatever texts were empty, cut or failed, the i-th result is
\* made of the translations of the i-th text's sentences, all of them that
\* succeeded, in their order; and every answer is counted.
THEOREM AnswersAreAligned == Spec => []AlignedAnswer
<1>1. RequestInv /\ CountInv => AlignedAnswer
    <2> SUFFICES ASSUME RequestInv, CountInv PROVE AlignedAnswer
        OBVIOUS
    <2>1. TypeOK
        BY DEF RequestInv, CountInv, TypeOK, RequestType, Outcome, Status, Done
    <2>2. ASSUME NEW r \in Requests, request[r].state = "answered"
          PROVE  /\ Len(request[r].result) = Len(request[r].texts)
                 /\ \A i \in DOMAIN request[r].texts :
                       request[r].result[i] =
                           Only([k \in DOMAIN request[r].outcomes |-> k],
                                {k \in DOMAIN request[r].outcomes :
                                    /\ TextOf(request[r].sentences, k) = i
                                    /\ request[r].outcomes[k] = Translated})
        <3>1. /\ request[r] \in RequestType
              /\ Len(request[r].sentences) = Len(request[r].texts)
              /\ Aligned(request[r].sentences, request[r].outcomes, request[r].result)
            BY <2>2 DEF RequestInv, IsRequest
        <3>2. DOMAIN request[r].sentences = DOMAIN request[r].texts
            BY <3>1 DEF RequestType
        <3> QED BY <3>1, <3>2 DEF Aligned
    <2> QED BY <2>1, <2>2 DEF AlignedAnswer
<1>2. CountInv /\ RequestInv /\ [Next]_vars => CountInv'
    BY CountAlways
<1> QED BY <1>1, <1>2, RequestInit, RequestAlways, CountInit, PTL DEF Spec
=============================================================================
