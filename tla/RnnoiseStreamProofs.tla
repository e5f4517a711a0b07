-------------------------- MODULE RnnoiseStreamProofs --------------------------
(***************************************************************************)
(* The windows of the denoiser meet, what was returned stays as it is and  *)
(* flush() returns the rest, for any size of the frames and any chunks.    *)
(* The processor is described by two predicates: Aligned, for the window   *)
(* and the output, which every frame keeps, and Streamed, for the samples  *)
(* that are kept until their frame is whole.                               *)
(***************************************************************************)
EXTENDS RnnoiseStream, SequenceLemmas

-----------------------------------------------------------------------------
(* Positions *)

\* The sample of a stream of total samples at a position, silence elsewhere.
In(total, x) == IF x \in 0 .. total - 1 THEN x ELSE None

\* Where the frames of the processor end.
End(p) == p.frame_idx * FRAME_SIZE

Window == [1..WINDOW_SIZE -> Sample]

ProcessorType ==
    [analysis_buf : Window, output : Seq(Seq(Sample)), frame_idx : Nat, cursor : Nat,
     leftover : Seq(Sample)]

LEMMA FrameSize ==
    /\ FRAME_SIZE \in Nat /\ FRAME_SIZE >= 1
    /\ WINDOW_SIZE \in Nat /\ WINDOW_SIZE = FRAME_SIZE + FRAME_SIZE
BY FrameSizeAssumption DEF WINDOW_SIZE

LEMMA Times ==
    ASSUME NEW k \in Nat
    PROVE  /\ k * FRAME_SIZE \in Nat /\ (k + 1) * FRAME_SIZE = k * FRAME_SIZE + FRAME_SIZE
           /\ k > 0 => k * FRAME_SIZE >= FRAME_SIZE
           /\ 0 * FRAME_SIZE = 0
<1>1. FRAME_SIZE \in Nat /\ FRAME_SIZE >= 1
    BY FrameSize
<1>2. k * FRAME_SIZE \in Nat /\ (k + 1) * FRAME_SIZE = k * FRAME_SIZE + FRAME_SIZE
    BY <1>1
<1>3. ASSUME k > 0 PROVE k * FRAME_SIZE >= FRAME_SIZE
    <2>1. k - 1 \in Nat /\ k * FRAME_SIZE = (k - 1) * FRAME_SIZE + FRAME_SIZE
        BY <1>1, <1>3
    <2>2. (k - 1) * FRAME_SIZE \in Nat
        BY <1>1, <2>1
    <2> QED BY <1>1, <2>1, <2>2
<1> QED BY <1>1, <1>2, <1>3

LEMMA InType ==
    ASSUME NEW total \in 0..MaxSamples, NEW x \in Int
    PROVE  In(total, x) \in Sample
BY MaxSamplesAssumption DEF In, Sample, None

-----------------------------------------------------------------------------
(* One frame *)

\* A function on an interval from one is a sequence.
LEMMA IntervalSeq ==
    ASSUME NEW T, NEW n \in Nat, NEW s, s = [i \in 1..n |-> s[i]], \A i \in 1..n : s[i] \in T
    PROVE  s \in Seq(T) /\ Len(s) = n /\ s \in [1..n -> T]
<1>1. s \in [1..n -> T]
    OBVIOUS
<1> QED BY <1>1

LEMMA SlidIs ==
    ASSUME NEW window \in Window, NEW frame \in Seq(Sample), Len(frame) = FRAME_SIZE
    PROVE  /\ Slid(window, frame) \in Window
           /\ \A i \in 1 .. FRAME_SIZE : Slid(window, frame)[i] = window[FRAME_SIZE + i]
           /\ \A i \in 1 .. FRAME_SIZE : Slid(window, frame)[FRAME_SIZE + i] = frame[i]
<1> DEFINE n == FRAME_SIZE
           w == WINDOW_SIZE
           half == SubSeq(window, n + 1, w)
           slid == half \o frame
           T == Sample
<1>1. n \in Nat /\ n >= 1 /\ w \in Nat /\ w = n + n
    BY FrameSize
<1>2. window \in Seq(T) /\ Len(window) = w
    BY <1>1 DEF Window
<1> HIDE DEF T, n, w
<1>3. /\ half \in Seq(T) /\ Len(half) = w - n
      /\ \A i \in 1 .. w - n : half[i] = window[n + i]
    <2>1. n <= w /\ w <= Len(window)
        BY <1>1, <1>2
    <2> QED BY <1>1, <1>2, <2>1, Parts
<1>4. frame \in Seq(T) /\ Len(frame) = n /\ Len(half) = n
    BY <1>1, <1>3 DEF n, T
<1> HIDE DEF half
<1>5. /\ slid \in Seq(T) /\ Len(slid) = n + n
      /\ \A i \in 1..n : slid[i] = half[i]
      /\ \A i \in 1..n : slid[n + i] = frame[i]
    <2>1. OneThenOther(T, half, frame)
        BY <1>3, <1>4, Concats
    <2> QED BY <1>4, <2>1 DEF OneThenOther
<1> HIDE DEF slid
<1>6. slid \in [1..w -> T]
    BY <1>1, <1>5
<1>7. \A i \in 1..n : slid[i] = window[n + i]
    BY <1>1, <1>3, <1>5
<1>8. Slid(window, frame) = slid
    BY DEF Slid, slid, half, n, w
<1> QED BY <1>5, <1>6, <1>7, <1>8 DEF Window, n, w, T

\* What one more window does to the output.
Before(output, q) == IF q <= Len(output) THEN output[q] ELSE <<>>

Grown(more, output, offset, window) ==
    /\ more \in Seq(Seq(Sample)) /\ Len(more) = offset + WINDOW_SIZE
    /\ \A q \in 1 .. offset + WINDOW_SIZE :
          more[q] = IF q > offset THEN Append(Before(output, q), window[q - offset])
                    ELSE Before(output, q)

LEMMA AddedIs ==
    ASSUME NEW output \in Seq(Seq(Sample)), NEW offset \in Nat, NEW window \in Window
    PROVE  Grown(Added(output, offset, window), output, offset, window)
<1> DEFINE n == offset + WINDOW_SIZE
           T == Seq(Sample)
           before(q) == IF q <= Len(output) THEN output[q] ELSE <<>>
           item(q) == IF q > offset THEN Append(before(q), window[q - offset]) ELSE before(q)
           s == [q \in 1..n |-> item(q)]
<1>1. n \in Nat /\ WINDOW_SIZE \in Nat /\ Len(output) \in Nat
    BY FrameSize
<1>2. ASSUME NEW q \in 1..n PROVE item(q) \in T
    <2>1. before(q) \in T
        <3>1. q <= Len(output) => q \in DOMAIN output
            BY <1>1
        <3> QED BY <3>1
    <2>2. q > offset => window[q - offset] \in Sample
        BY <1>1 DEF Window
    <2> HIDE DEF before
    <2> QED BY <2>1, <2>2
<1>3. s \in [1..n -> T]
    <2> HIDE DEF item, T, n
    <2> QED BY <1>2
<1>4. s \in Seq(T) /\ Len(s) = n /\ \A q \in 1..n : s[q] = item(q)
    <2> HIDE DEF T, n, item
    <2> QED BY <1>1, <1>3
<1>5. Added(output, offset, window) = s
    BY DEF Added
<1> HIDE DEF s
<1> QED BY <1>4, <1>5 DEF Grown, Before

LEMMA FrameType ==
    ASSUME NEW p \in ProcessorType, NEW frame \in Seq(Sample), Len(frame) = FRAME_SIZE
    PROVE  /\ ProcessOneFrame(p, frame) \in ProcessorType
           /\ ProcessOneFrame(p, frame).analysis_buf = Slid(p.analysis_buf, frame)
           /\ ProcessOneFrame(p, frame).output =
                 Added(p.output, End(p), Slid(p.analysis_buf, frame))
           /\ ProcessOneFrame(p, frame).frame_idx = p.frame_idx + 1
           /\ ProcessOneFrame(p, frame).cursor = p.cursor
           /\ ProcessOneFrame(p, frame).leftover = p.leftover
<1> DEFINE window == Slid(p.analysis_buf, frame)
           output == Added(p.output, End(p), window)
           r == [p EXCEPT !.analysis_buf = window, !.output = output,
                          !.frame_idx = p.frame_idx + 1]
<1>1. ProcessOneFrame(p, frame) = r
    BY DEF ProcessOneFrame, ProcessorType, End
<1>2. p.analysis_buf \in Window /\ p.output \in Seq(Seq(Sample)) /\ p.frame_idx \in Nat
    BY DEF ProcessorType
<1>3. window \in Window
    BY <1>2, SlidIs
<1>4. End(p) \in Nat
    BY <1>2, Times DEF End
<1> HIDE DEF window
<1>5. output \in Seq(Seq(Sample))
    BY <1>2, <1>3, <1>4, AddedIs DEF Grown
<1> HIDE DEF output
<1>6. /\ r \in ProcessorType /\ r.analysis_buf = window /\ r.output = output
      /\ r.frame_idx = p.frame_idx + 1 /\ r.cursor = p.cursor /\ r.leftover = p.leftover
    <2> DEFINE T == Seq(Sample)
               next == p.frame_idx + 1
    <2>1. next \in Nat
        BY <1>2
    <2>2. p \in [analysis_buf : Window, output : Seq(T), frame_idx : Nat, cursor : Nat,
                 leftover : T]
        BY DEF ProcessorType
    <2> HIDE DEF T, next
    <2>3. output \in Seq(T)
        BY <1>5 DEF T
    <2>4. r = [p EXCEPT !.analysis_buf = window, !.output = output, !.frame_idx = next]
        BY DEF next
    <2> HIDE DEF r
    <2>5. r \in [analysis_buf : Window, output : Seq(T), frame_idx : Nat, cursor : Nat,
                 leftover : T]
        BY <1>3, <2>1, <2>2, <2>3, <2>4
    <2>6. /\ r.analysis_buf = window /\ r.output = output /\ r.frame_idx = next
          /\ r.cursor = p.cursor /\ r.leftover = p.leftover
        BY <2>2, <2>4
    <2> QED BY <2>5, <2>6 DEF ProcessorType, T, next
<1> HIDE DEF r
<1> QED BY <1>1, <1>6 DEF window, output

\* The window ends where the frames end, and all that was added to a sample of
\* the output is the sample one frame before it.
Aligned(p, total) ==
    /\ \A i \in 1..WINDOW_SIZE : p.analysis_buf[i] = In(total, End(p) - WINDOW_SIZE + i - 1)
    /\ Len(p.output) = IF p.frame_idx = 0 THEN 0 ELSE End(p) + FRAME_SIZE
    /\ \A q \in 1 .. Len(p.output) :
          /\ Len(p.output[q]) >= 1
          /\ \A k \in 1 .. Len(p.output[q]) : p.output[q][k] = In(total, q - 1 - FRAME_SIZE)

\* r comes after p, and nothing that was settled has changed.
Follows(r, p) ==
    /\ End(p) <= End(r)
    /\ r.cursor = p.cursor
    /\ \A q \in 1 .. End(p) : r.output[q] = p.output[q]

LEMMA EndType ==
    ASSUME NEW p \in ProcessorType
    PROVE  /\ End(p) \in Nat /\ p.frame_idx \in Nat
           /\ p.frame_idx = 0 => End(p) = 0
           /\ p.frame_idx # 0 => End(p) >= FRAME_SIZE
<1>1. p.frame_idx \in Nat
    BY DEF ProcessorType
<1> QED BY <1>1, Times DEF End

\* One frame of the stream.
LEMMA FrameAligned ==
    ASSUME NEW p \in ProcessorType, NEW total, Aligned(p, total),
           NEW frame \in Seq(Sample), Len(frame) = FRAME_SIZE,
           \A i \in 1 .. FRAME_SIZE : frame[i] = In(total, End(p) + i - 1)
    PROVE  /\ Aligned(ProcessOneFrame(p, frame), total)
           /\ End(ProcessOneFrame(p, frame)) = End(p) + FRAME_SIZE
           /\ Follows(ProcessOneFrame(p, frame), p)
<1> DEFINE n == FRAME_SIZE
           w == WINDOW_SIZE
           e == End(p)
           r == ProcessOneFrame(p, frame)
           window == Slid(p.analysis_buf, frame)
           old == p.output
           new == r.output
<1>1. n \in Nat /\ n >= 1 /\ w \in Nat /\ w = n + n /\ e \in Nat
    BY FrameSize, EndType
<1>2. p.analysis_buf \in Window /\ old \in Seq(Seq(Sample)) /\ p.frame_idx \in Nat
    BY DEF ProcessorType
<1>3. /\ window \in Window
      /\ \A i \in 1..n : window[i] = p.analysis_buf[n + i]
      /\ \A i \in 1..n : window[n + i] = frame[i]
    BY <1>2, SlidIs
<1>4. /\ r \in ProcessorType /\ r.analysis_buf = window /\ r.frame_idx = p.frame_idx + 1
      /\ r.cursor = p.cursor /\ new = Added(old, e, window)
    BY FrameType
<1>5. /\ \A i \in 1..w : p.analysis_buf[i] = In(total, e - w + i - 1)
      /\ Len(old) = IF p.frame_idx = 0 THEN 0 ELSE e + n
      /\ \A q \in 1 .. Len(old) :
            /\ Len(old[q]) >= 1
            /\ \A k \in 1 .. Len(old[q]) : old[q][k] = In(total, q - 1 - n)
    BY DEF Aligned
<1>6. End(r) = e + n
    BY <1>2, <1>4, Times DEF End
<1>7. p.frame_idx = 0 => e = 0
    BY EndType
<1>8. /\ new \in Seq(Seq(Sample)) /\ Len(new) = e + w
      /\ \A q \in 1 .. e + w :
            new[q] = IF q > e THEN Append(Before(old, q), window[q - e]) ELSE Before(old, q)
    <2> HIDE DEF e, window, old, new, r
    <2>1. Grown(Added(old, e, window), old, e, window)
        BY <1>1, <1>2, <1>3, AddedIs
    <2>2. Grown(new, old, e, window)
        BY <1>4, <2>1
    <2> QED BY <2>2 DEF Grown, w
<1>9. \A i \in 1..n : frame[i] = In(total, e + i - 1)
    OBVIOUS
<1> HIDE DEF n, w, e, r, window, old, new
<1>10. ASSUME NEW i \in 1..w PROVE window[i] = In(total, e + n - w + i - 1)
    <2>1. CASE i \in 1..n
        <3>1. n + i \in 1..w /\ e - w + (n + i) - 1 = e + n - w + i - 1
            BY <1>1, <2>1
        <3>2. window[i] = p.analysis_buf[n + i]
            BY <1>3, <2>1
        <3> QED BY <1>5, <3>1, <3>2
    <2>2. CASE i \notin 1..n
        <3>1. i - n \in 1..n /\ n + (i - n) = i /\ e + (i - n) - 1 = e + n - w + i - 1
            BY <1>1, <2>2
        <3>2. window[n + (i - n)] = frame[i - n]
            BY <1>3, <3>1
        <3> QED BY <1>9, <3>1, <3>2
    <2> QED BY <2>1, <2>2
<1>11. Len(old) \in Nat /\ Len(old) >= e /\ Len(old) <= e + n
    BY <1>1, <1>2, <1>5, <1>7
<1>12. ASSUME NEW q \in 1..e PROVE new[q] = old[q]
    <2>1. q \in 1 .. e + w /\ ~(q > e) /\ q <= Len(old)
        BY <1>1, <1>11
    <2> QED BY <1>8, <2>1 DEF Before
<1>13. ASSUME NEW q \in 1 .. e + w
       PROVE  /\ Len(new[q]) >= 1
              /\ \A k \in 1 .. Len(new[q]) : new[q][k] = In(total, q - 1 - n)
    <2> DEFINE before == Before(old, q)
               x == In(total, q - 1 - n)
    <2>1. before \in Seq(Sample) /\ \A k \in 1 .. Len(before) : before[k] = x
        <3>1. CASE q <= Len(old)
            <4>1. q \in 1 .. Len(old)
                BY <1>1, <1>11, <3>1
            <4>2. old[q] \in Seq(Sample)
                BY <1>2, <4>1
            <4>3. before = old[q]
                BY <3>1 DEF Before
            <4> QED BY <1>5, <4>1, <4>2, <4>3
        <3>2. CASE ~(q <= Len(old))
            <4>1. before = <<>>
                BY <3>2 DEF Before
            <4>2. <<>> \in Seq(Sample) /\ \A k \in 1 .. Len(<<>>) : <<>>[k] = x
                OBVIOUS
            <4> QED BY <4>1, <4>2
        <3> QED BY <3>1, <3>2
    <2>2. new[q] = IF q > e THEN Append(before, window[q - e]) ELSE before
        BY <1>8
    <2>3. CASE q > e
        <3>1. q - e \in 1..w /\ e + n - w + (q - e) - 1 = q - 1 - n
            BY <1>1, <2>3
        <3>2. window[q - e] = x
            BY <1>10, <3>1
        <3> HIDE DEF before, x
        <3>3. new[q] = Append(before, x)
            BY <2>2, <2>3, <3>2
        <3>4. /\ Len(Append(before, x)) = Len(before) + 1
              /\ Len(before) \in Nat
              /\ \A k \in 1 .. Len(before) : Append(before, x)[k] = before[k]
              /\ Append(before, x)[Len(before) + 1] = x
            BY <2>1
        <3>5. \A k \in 1 .. Len(before) + 1 : k \in 1 .. Len(before) \/ k = Len(before) + 1
            BY <3>4
        <3>6. \A k \in 1 .. Len(before) + 1 : Append(before, x)[k] = x
            BY <2>1, <3>4, <3>5
        <3>7. Len(new[q]) = Len(before) + 1 /\ Len(new[q]) >= 1
            BY <3>3, <3>4
        <3> QED BY <3>3, <3>6, <3>7 DEF x
    <2>4. CASE ~(q > e)
        <3>1. q \in 1..e /\ q \in 1 .. Len(old)
            BY <1>1, <1>11, <2>4
        <3> QED BY <1>5, <1>12, <3>1
    <2> QED BY <2>3, <2>4
<1>14. p.frame_idx + 1 # 0 /\ e + w = (e + n) + n
    BY <1>1, <1>2
<1>15. Aligned(r, total)
    <2>1. \A i \in 1..w : r.analysis_buf[i] = In(total, End(r) - w + i - 1)
        <3>1. e + n - w = End(r) - w /\ r.analysis_buf = window
            BY <1>1, <1>4, <1>6
        <3> QED BY <1>10, <3>1
    <2>2. Len(new) = IF r.frame_idx = 0 THEN 0 ELSE End(r) + n
        BY <1>4, <1>6, <1>8, <1>14
    <2>3. \A q \in 1 .. Len(new) :
             /\ Len(new[q]) >= 1
             /\ \A k \in 1 .. Len(new[q]) : new[q][k] = In(total, q - 1 - n)
        BY <1>8, <1>13
    <2> QED BY <2>1, <2>2, <2>3 DEF Aligned, n, w, new
<1>16. Follows(r, p)
    <2>1. e <= End(r)
        BY <1>1, <1>6
    <2> QED BY <1>4, <1>12, <2>1 DEF Follows, e, new, old
<1> QED BY <1>6, <1>15, <1>16 DEF r, e, n

\* Frames that have been received stay so.
LEMMA MoreReceived ==
    ASSUME NEW p \in ProcessorType, NEW total \in Nat, NEW more \in Nat,
           total <= more, End(p) <= total, Aligned(p, total)
    PROVE  Aligned(p, more)
<1>1. FRAME_SIZE \in Nat /\ WINDOW_SIZE \in Nat /\ End(p) \in Nat
    BY FrameSize, EndType
<1>2. ASSUME NEW x \in Int, x < total PROVE In(total, x) = In(more, x)
    BY <1>2 DEF In
<1>3. \A i \in 1..WINDOW_SIZE : p.analysis_buf[i] = In(more, End(p) - WINDOW_SIZE + i - 1)
    <2> SUFFICES ASSUME NEW i \in 1..WINDOW_SIZE
                 PROVE  p.analysis_buf[i] = In(more, End(p) - WINDOW_SIZE + i - 1)
        OBVIOUS
    <2>1. /\ End(p) - WINDOW_SIZE + i - 1 \in Int
          /\ End(p) - WINDOW_SIZE + i - 1 < total
        BY <1>1
    <2>2. p.analysis_buf[i] = In(total, End(p) - WINDOW_SIZE + i - 1)
        BY DEF Aligned
    <2> QED BY <1>2, <2>1, <2>2
<1>4. ASSUME NEW q \in 1 .. Len(p.output) PROVE In(total, q - 1 - FRAME_SIZE) = In(more, q - 1 - FRAME_SIZE)
    <2>1. Len(p.output) \in Nat
        BY DEF ProcessorType
    <2>2. Len(p.output) <= End(p) + FRAME_SIZE
        BY <1>1 DEF Aligned
    <2>3. q - 1 - FRAME_SIZE \in Int /\ q - 1 - FRAME_SIZE < total
        BY <1>1, <2>1, <2>2
    <2> QED BY <1>2, <2>3
<1> QED BY <1>3, <1>4 DEF Aligned

-----------------------------------------------------------------------------
(* A chunk *)

\* Processed, frame by frame.
Frames(f, p, chunk, n) ==
    f[0] = p /\ \A k \in 1..n : f[k] = ProcessOneFrame(f[k - 1], Frame(chunk, k))

\* A chunk has whole frames and less than one more.
LEMMA WholeFrames ==
    ASSUME NEW length \in Nat
    PROVE  /\ length \div FRAME_SIZE \in Nat
           /\ (length \div FRAME_SIZE) * FRAME_SIZE \in Nat
           /\ (length \div FRAME_SIZE) * FRAME_SIZE <= length
           /\ length < (length \div FRAME_SIZE) * FRAME_SIZE + FRAME_SIZE
BY FrameSizeAssumption

LEMMA FrameIs ==
    ASSUME NEW chunk \in Seq(Sample), NEW k \in 1 .. Len(chunk) \div FRAME_SIZE
    PROVE  /\ k - 1 \in Nat /\ (k - 1) * FRAME_SIZE \in Nat
           /\ Frame(chunk, k) \in Seq(Sample) /\ Len(Frame(chunk, k)) = FRAME_SIZE
           /\ \A i \in 1 .. FRAME_SIZE : Frame(chunk, k)[i] = chunk[(k - 1) * FRAME_SIZE + i]
<1> DEFINE n == Len(chunk) \div FRAME_SIZE
           a == (k - 1) * FRAME_SIZE
           b == k * FRAME_SIZE
           frame == SubSeq(chunk, a + 1, b)
<1>1. Len(chunk) \in Nat /\ n \in Nat /\ n * FRAME_SIZE <= Len(chunk) /\ FRAME_SIZE \in Nat
    BY WholeFrames, FrameSize
<1>2. k \in Nat /\ k - 1 \in Nat /\ n - k \in Nat
    BY <1>1
<1>3. a \in Nat /\ b \in Nat /\ b = a + FRAME_SIZE
    <2>1. ((k - 1) + 1) * FRAME_SIZE = (k - 1) * FRAME_SIZE + FRAME_SIZE
        BY <1>2, Times
    <2>2. (k - 1) + 1 = k
        BY <1>2
    <2> QED BY <1>2, <2>1, <2>2, Times
<1>4. b <= Len(chunk)
    <2>1. n * FRAME_SIZE = k * FRAME_SIZE + (n - k) * FRAME_SIZE
        BY <1>1, <1>2
    <2>2. (n - k) * FRAME_SIZE \in Nat /\ n * FRAME_SIZE \in Nat
        BY <1>1, <1>2, Times
    <2> QED BY <1>1, <1>3, <2>1, <2>2
<1> DEFINE T == Sample
<1> HIDE DEF a, b, n, T
<1>5. /\ frame \in Seq(T) /\ Len(frame) = b - a
      /\ \A i \in 1 .. b - a : frame[i] = chunk[a + i]
    <2>1. chunk \in Seq(T) /\ a <= b
        BY <1>1, <1>3 DEF T
    <2> QED BY <1>3, <1>4, <2>1, Parts
<1>6. b - a = FRAME_SIZE
    BY <1>1, <1>3
<1>7. Frame(chunk, k) = frame
    BY DEF Frame, a, b
<1> HIDE DEF frame
<1> QED BY <1>2, <1>3, <1>5, <1>6, <1>7 DEF a, T

LEMMA ProcessedSteps ==
    ASSUME NEW p \in ProcessorType, NEW chunk \in Seq(Sample)
    PROVE  \E f \in [0 .. Len(chunk) \div FRAME_SIZE -> ProcessorType] :
              /\ Frames(f, p, chunk, Len(chunk) \div FRAME_SIZE)
              /\ Processed(p, chunk) =
                    [f[Len(chunk) \div FRAME_SIZE] EXCEPT !.leftover =
                        SubSeq(chunk, (Len(chunk) \div FRAME_SIZE) * FRAME_SIZE + 1, Len(chunk))]
<1> DEFINE n == Len(chunk) \div FRAME_SIZE
           V == ProcessorType
           Next1(v, k) == ProcessOneFrame(v, Frame(chunk, k))
           step == [k \in 1..n |-> [v \in V |-> Next1(v, k)]]
           Kept(f) == f = [k \in 0..n |-> IF k = 0 THEN p ELSE Next1(f[k - 1], k)]
<1>1. n \in Nat
    BY WholeFrames
<1>2. step \in [1..n -> [V -> V]]
    <2>1. ASSUME NEW k \in 1..n, NEW v \in V PROVE Next1(v, k) \in V
        <3>1. Frame(chunk, k) \in Seq(Sample) /\ Len(Frame(chunk, k)) = FRAME_SIZE
            BY FrameIs
        <3> QED BY <3>1, FrameType
    <2> HIDE DEF V, n, Next1
    <2> QED BY <2>1
<1>3. PICK f \in [0..n -> V] : f[0] = p /\ \A k \in 1..n : f[k] = step[k][f[k - 1]]
    <2> HIDE DEF step, V, n
    <2>1. p \in V
        BY DEF V
    <2>2. \E f \in [0..n -> V] : Runs(f, p, step, n)
        BY <1>1, <1>2, <2>1, Recursion
    <2> QED BY <2>2 DEF Runs
<1> HIDE DEF n
<1>4. Frames(f, p, chunk, n)
    <2> SUFFICES ASSUME NEW k \in 1..n PROVE f[k] = Next1(f[k - 1], k)
        BY <1>3 DEF Frames
    <2>1. k - 1 \in 0..n
        BY <1>1
    <2>2. f[k - 1] \in V
        BY <2>1
    <2>3. f[k] = step[k][f[k - 1]]
        BY <1>3
    <2> HIDE DEF V, Next1
    <2> QED BY <2>2, <2>3
<1>5. ASSUME NEW g, Kept(g) PROVE g = f
    <2>1. g[0] = p
        BY <1>1, <1>5
    <2>2. ASSUME NEW k \in 1..n PROVE g[k] = Next1(g[k - 1], k)
        <3>1. k \in 0..n /\ k # 0
            BY <1>1
        <3> HIDE DEF Next1
        <3> QED BY <1>5, <3>1
    <2>3. SameSteps(f, g, n)
        BY <1>4, <2>1, <2>2 DEF SameSteps, Frames
    <2>4. \A k \in 0..n : f[k] = g[k]
        <3> HIDE DEF Kept
        <3> QED BY <1>1, <2>3, SameFunctions
    <2>5. g = [k \in 0..n |-> g[k]] /\ f = [k \in 0..n |-> f[k]]
        <3> HIDE DEF Next1, V
        <3> QED BY <1>5
    <2> QED BY <2>4, <2>5
<1>6. Kept(f)
    <2>1. ASSUME NEW k \in 0..n PROVE f[k] = IF k = 0 THEN p ELSE Next1(f[k - 1], k)
        <3>1. k = 0 \/ k \in 1..n
            BY <1>1
        <3>2. k \in 1..n => k # 0
            BY <1>1
        <3> HIDE DEF Next1
        <3> QED BY <1>4, <3>1, <3>2 DEF Frames, Next1
    <2>2. f = [k \in 0..n |-> f[k]]
        OBVIOUS
    <2> HIDE DEF Next1
    <2> QED BY <2>1, <2>2
<1>7. (CHOOSE g : Kept(g)) = f
    <2> HIDE DEF Kept
    <2> QED BY <1>5, <1>6
<1>8. Processed(p, chunk) = [(CHOOSE g : Kept(g))[n] EXCEPT !.leftover =
                                SubSeq(chunk, n * FRAME_SIZE + 1, Len(chunk))]
    BY DEF Processed, n
<1> QED BY <1>4, <1>7, <1>8 DEF n

\* What a chunk does: its whole frames are aligned, the rest is kept.
Streamed(p, total) ==
    /\ Aligned(p, total)
    /\ Len(p.leftover) < FRAME_SIZE
    /\ End(p) + Len(p.leftover) = total
    /\ \A i \in 1 .. Len(p.leftover) : p.leftover[i] = End(p) + i - 1

LEMMA ChunkAligned ==
    ASSUME NEW p \in ProcessorType, NEW total \in 0..MaxSamples, Aligned(p, total),
           NEW chunk \in Seq(Sample), End(p) + Len(chunk) = total,
           \A i \in 1 .. Len(chunk) : chunk[i] = End(p) + i - 1
    PROVE  /\ Processed(p, chunk) \in ProcessorType
           /\ Streamed(Processed(p, chunk), total)
           /\ Follows(Processed(p, chunk), p)
<1> DEFINE length == Len(chunk)
           n == length \div FRAME_SIZE
           e == End(p)
           r == Processed(p, chunk)
           T == Sample
<1>1. /\ length \in Nat /\ n \in Nat /\ n * FRAME_SIZE \in Nat /\ n * FRAME_SIZE <= length
      /\ length < n * FRAME_SIZE + FRAME_SIZE
      /\ FRAME_SIZE \in Nat /\ FRAME_SIZE >= 1 /\ total \in Nat /\ e \in Nat
    BY WholeFrames, FrameSize, EndType, MaxSamplesAssumption
<1> DEFINE rest == SubSeq(chunk, n * FRAME_SIZE + 1, length)
<1>2. PICK f \in [0..n -> ProcessorType] :
          Frames(f, p, chunk, n) /\ r = [f[n] EXCEPT !.leftover = rest]
    BY ProcessedSteps
<1>3. \A i \in 1..length : chunk[i] = e + i - 1
    OBVIOUS
<1>4. e + length = total
    OBVIOUS
<1> DEFINE Done(k) == Aligned(f[k], total) /\ End(f[k]) = e + k * FRAME_SIZE /\ Follows(f[k], p)
           Good == {k \in Nat : k <= n => Done(k)}
<1>5. 0 \in Good
    <2>1. f[0] = p
        BY <1>2 DEF Frames
    <2>2. Follows(p, p)
        BY <1>1 DEF Follows
    <2>3. e + 0 * FRAME_SIZE = e
        BY <1>1
    <2> QED BY <2>1, <2>2, <2>3
<1>6. ASSUME NEW k \in Nat, k \in Good PROVE k + 1 \in Good
    <2> SUFFICES ASSUME k + 1 <= n PROVE Done(k + 1)
        OBVIOUS
    <2> DEFINE frame == Frame(chunk, k + 1)
               a == k * FRAME_SIZE
               v == f[k]
    <2>1. k + 1 \in 1..n /\ k \in 0..n /\ k <= n /\ (k + 1) - 1 = k
        BY <1>1
    <2>2. Aligned(v, total) /\ End(v) = e + a /\ Follows(v, p) /\ v \in ProcessorType
        BY <1>2, <1>6, <2>1
    <2>3. a \in Nat /\ (k + 1) * FRAME_SIZE = a + FRAME_SIZE
        BY Times
    <2>4. /\ frame \in Seq(Sample) /\ Len(frame) = FRAME_SIZE
          /\ \A i \in 1 .. FRAME_SIZE : frame[i] = chunk[a + i]
        <3>1. /\ Frame(chunk, k + 1) \in Seq(Sample) /\ Len(Frame(chunk, k + 1)) = FRAME_SIZE
              /\ \A i \in 1 .. FRAME_SIZE :
                    Frame(chunk, k + 1)[i] = chunk[((k + 1) - 1) * FRAME_SIZE + i]
            BY <2>1, FrameIs
        <3> QED BY <2>1, <3>1
    <2>5. a + FRAME_SIZE <= length
        <3>1. n - (k + 1) \in Nat
            BY <1>1, <2>1
        <3>2. n * FRAME_SIZE = (k + 1) * FRAME_SIZE + (n - (k + 1)) * FRAME_SIZE
            <4> HIDE DEF n
            <4> QED BY <1>1, <2>1
        <3>3. (n - (k + 1)) * FRAME_SIZE \in Nat
            BY <3>1, Times
        <3> QED BY <1>1, <2>3, <3>2, <3>3
    <2>6. f[k + 1] = ProcessOneFrame(v, frame)
        BY <1>2, <2>1 DEF Frames
    <2> HIDE DEF frame, a, v, n, e, length
    <2>7. ASSUME NEW i \in 1 .. FRAME_SIZE PROVE frame[i] = In(total, End(v) + i - 1)
        <3>1. a + i \in 1..length
            BY <1>1, <2>3, <2>5
        <3>2. chunk[a + i] = e + (a + i) - 1
            BY <1>3, <3>1
        <3>3. /\ e + (a + i) - 1 = End(v) + i - 1
              /\ End(v) + i - 1 \in 0 .. total - 1
            BY <1>1, <1>4, <2>2, <2>3, <3>1
        <3> QED BY <2>4, <3>2, <3>3 DEF In
    <2>8. /\ Aligned(f[k + 1], total) /\ End(f[k + 1]) = End(v) + FRAME_SIZE
          /\ Follows(f[k + 1], v)
        BY <2>2, <2>4, <2>6, <2>7, FrameAligned
    <2>9. End(f[k + 1]) = e + (k + 1) * FRAME_SIZE
        BY <1>1, <2>2, <2>3, <2>8
    <2>10. Follows(f[k + 1], p)
        <3>1. End(p) <= End(f[k + 1])
            BY <1>1, <2>2, <2>3, <2>8 DEF e
        <3>2. 1 .. End(p) \subseteq 1 .. End(v)
            BY <1>1, <2>2, <2>3 DEF e
        <3> QED BY <2>2, <2>8, <3>1, <3>2 DEF Follows
    <2> QED BY <2>8, <2>9, <2>10
<1>7. \A k \in Nat : k \in Good
    <2> HIDE DEF Good
    <2> QED BY <1>5, <1>6, Induction
<1>8. Done(n) /\ f[n] \in ProcessorType
    BY <1>1, <1>2, <1>7
<1> DEFINE v == f[n]
<1>9. /\ v \in ProcessorType /\ Aligned(v, total) /\ End(v) = e + n * FRAME_SIZE
      /\ Follows(v, p) /\ r = [v EXCEPT !.leftover = rest]
    BY <1>2, <1>8
<1> HIDE DEF v, r, T
<1>10. /\ rest \in Seq(T) /\ Len(rest) = length - n * FRAME_SIZE
       /\ \A i \in 1 .. length - n * FRAME_SIZE : rest[i] = chunk[n * FRAME_SIZE + i]
    <2> DEFINE a == n * FRAME_SIZE
    <2>1. chunk \in Seq(T) /\ a \in Nat /\ length \in Nat /\ a <= length /\ length <= Len(chunk)
        BY <1>1 DEF T
    <2> DEFINE part == SubSeq(chunk, a + 1, length)
    <2>2. rest = part /\ a = n * FRAME_SIZE
        OBVIOUS
    <2> HIDE DEF a, length, rest
    <2>3. part \in Seq(T) /\ Len(part) = length - a /\ \A i \in 1 .. length - a : part[i] = chunk[a + i]
        BY <2>1, Parts
    <2> HIDE DEF part
    <2> QED BY <2>2, <2>3
<1> HIDE DEF rest, length, n, e
<1>11. /\ r \in ProcessorType /\ r.analysis_buf = v.analysis_buf /\ r.output = v.output
       /\ r.frame_idx = v.frame_idx /\ r.cursor = v.cursor /\ r.leftover = rest
    <2> DEFINE S == Seq(Sample)
    <2>1. /\ v \in [analysis_buf : Window, output : Seq(S), frame_idx : Nat, cursor : Nat,
                    leftover : S]
          /\ rest \in S
        BY <1>9, <1>10 DEF ProcessorType, T
    <2> HIDE DEF S
    <2>2. r \in [analysis_buf : Window, output : Seq(S), frame_idx : Nat, cursor : Nat,
                 leftover : S]
        BY <1>9, <2>1
    <2>3. /\ r.analysis_buf = v.analysis_buf /\ r.output = v.output
          /\ r.frame_idx = v.frame_idx /\ r.cursor = v.cursor /\ r.leftover = rest
        BY <1>9, <2>1
    <2> QED BY <2>2, <2>3 DEF ProcessorType, S
<1>12. End(r) = End(v)
    BY <1>11 DEF End
<1>13. Aligned(r, total)
    BY <1>9, <1>11, <1>12 DEF Aligned
<1>14. Follows(r, p)
    BY <1>9, <1>11, <1>12 DEF Follows
<1>15. Len(r.leftover) < FRAME_SIZE /\ End(r) + Len(r.leftover) = total
    <2>1. Len(r.leftover) = length - n * FRAME_SIZE /\ End(r) = e + n * FRAME_SIZE
        BY <1>9, <1>10, <1>11, <1>12
    <2> DEFINE a == n * FRAME_SIZE
    <2>2. a \in Nat /\ length \in Nat /\ length < a + FRAME_SIZE /\ e \in Nat
          /\ FRAME_SIZE \in Nat
        BY <1>1
    <2> HIDE DEF a
    <2>3. Len(r.leftover) = length - a /\ End(r) = e + a
        BY <2>1 DEF a
    <2> QED BY <1>4, <2>2, <2>3
<1>16. ASSUME NEW i \in 1 .. Len(r.leftover) PROVE r.leftover[i] = End(r) + i - 1
    <2>1. i \in 1 .. length - n * FRAME_SIZE /\ n * FRAME_SIZE + i \in 1..length
        BY <1>1, <1>10, <1>11
    <2>2. rest[i] = e + (n * FRAME_SIZE + i) - 1
        BY <1>3, <1>10, <2>1
    <2>3. e + (n * FRAME_SIZE + i) - 1 = (e + n * FRAME_SIZE) + i - 1
        BY <1>1
    <2> QED BY <1>9, <1>11, <1>12, <2>2, <2>3
<1> QED BY <1>11, <1>13, <1>14, <1>15, <1>16 DEF Streamed, r

\* The last frame, filled up with silence.
LEMMA PaddedAligned ==
    ASSUME NEW p \in ProcessorType, NEW total \in 0..MaxSamples, Streamed(p, total)
    PROVE  /\ Padded(p) \in ProcessorType
           /\ Aligned(Padded(p), total) /\ Follows(Padded(p), p)
           /\ Padded(p).leftover = <<>> /\ total <= End(Padded(p))
<1> DEFINE rest == p.leftover
           l == Len(rest)
           n == FRAME_SIZE
           e == End(p)
           pad == Silence(n - l)
           frame == rest \o pad
           T == Sample
<1>1. /\ rest \in Seq(Sample) /\ l \in Nat /\ n \in Nat /\ n >= 1 /\ l < n
      /\ e \in Nat /\ e + l = total /\ total \in Nat
      /\ \A i \in 1..l : rest[i] = e + i - 1
    BY FrameSize, EndType, MaxSamplesAssumption DEF Streamed, ProcessorType
<1>2. CASE rest = <<>>
    <2>1. Padded(p) = p /\ l = 0
        BY <1>2 DEF Padded
    <2>2. Follows(p, p)
        BY <1>1 DEF Follows
    <2>3. total <= End(p)
        BY <1>1, <2>1
    <2>4. Aligned(p, total)
        BY DEF Streamed
    <2> QED BY <1>2, <2>1, <2>2, <2>3, <2>4
<1>3. CASE rest # <<>>
    <2>1. pad \in Seq(T) /\ Len(pad) = n - l /\ \A i \in 1 .. n - l : pad[i] = None
        <3>1. n - l \in Nat /\ None \in T
            BY <1>1 DEF Sample
        <3>2. pad = [i \in 1 .. n - l |-> None]
            BY DEF Silence
        <3> HIDE DEF T, pad, n, l
        <3> QED BY <3>1, <3>2
    <2>2. rest \in Seq(T)
        BY <1>1
    <2> HIDE DEF T, pad, rest, l, n, e
    <2>3. /\ frame \in Seq(T) /\ Len(frame) = n
          /\ \A i \in 1..l : frame[i] = rest[i]
          /\ \A i \in 1 .. n - l : frame[l + i] = None
        <3>1. OneThenOther(T, rest, pad)
            BY <2>1, <2>2, Concats
        <3>2. Len(rest) = l
            BY DEF l
        <3>3. /\ frame \in Seq(T) /\ Len(frame) = l + (n - l)
              /\ \A i \in 1..l : frame[i] = rest[i]
              /\ \A i \in 1 .. n - l : frame[l + i] = pad[i]
            BY <2>1, <3>1, <3>2 DEF OneThenOther
        <3> QED BY <1>1, <2>1, <3>3
    <2> HIDE DEF frame
    <2>4. ASSUME NEW i \in 1..n PROVE frame[i] = In(total, e + i - 1)
        <3>1. CASE i <= l
            <4>1. i \in 1..l /\ e + i - 1 \in 0 .. total - 1
                BY <1>1, <3>1
            <4>2. frame[i] = e + i - 1
                BY <1>1, <2>3, <4>1
            <4> QED BY <4>1, <4>2 DEF In
        <3>2. CASE ~(i <= l)
            <4>1. i - l \in 1 .. n - l /\ l + (i - l) = i /\ e + i - 1 \notin 0 .. total - 1
                BY <1>1, <3>2
            <4>2. frame[l + (i - l)] = None
                BY <2>3, <4>1
            <4> QED BY <4>1, <4>2 DEF In
        <3> QED BY <3>1, <3>2
    <2> DEFINE v == ProcessOneFrame(p, frame)
    <2>5. /\ Aligned(v, total) /\ End(v) = End(p) + FRAME_SIZE /\ Follows(v, p)
          /\ v \in ProcessorType
        <3>1. frame \in Seq(Sample) /\ Len(frame) = FRAME_SIZE /\ Aligned(p, total)
            BY <2>3 DEF n, T, Streamed
        <3>2. \A i \in 1 .. FRAME_SIZE : frame[i] = In(total, End(p) + i - 1)
            BY <2>4 DEF n, e
        <3> QED BY <3>1, <3>2, FrameAligned, FrameType
    <2> DEFINE r == [v EXCEPT !.leftover = <<>>]
    <2>6. Padded(p) = r
        BY <1>3 DEF Padded, frame, pad, rest, l, n
    <2> HIDE DEF v
    <2>7. /\ r \in ProcessorType /\ r.analysis_buf = v.analysis_buf /\ r.output = v.output
          /\ r.frame_idx = v.frame_idx /\ r.cursor = v.cursor /\ r.leftover = <<>>
        <3> DEFINE S == Seq(Sample)
        <3>1. /\ v \in [analysis_buf : Window, output : Seq(S), frame_idx : Nat, cursor : Nat,
                        leftover : S]
              /\ <<>> \in S
            BY <2>5 DEF ProcessorType
        <3> HIDE DEF S
        <3>2. r \in [analysis_buf : Window, output : Seq(S), frame_idx : Nat, cursor : Nat,
                     leftover : S]
            BY <3>1
        <3>3. /\ r.analysis_buf = v.analysis_buf /\ r.output = v.output
              /\ r.frame_idx = v.frame_idx /\ r.cursor = v.cursor /\ r.leftover = <<>>
            BY <3>1
        <3> QED BY <3>2, <3>3 DEF ProcessorType, S
    <2> HIDE DEF r
    <2>8. End(r) = End(v)
        BY <2>7 DEF End
    <2>9. Aligned(r, total)
        BY <2>5, <2>7, <2>8 DEF Aligned
    <2>10. Follows(r, p)
        BY <2>5, <2>7, <2>8 DEF Follows
    <2>11. total <= End(r)
        BY <1>1, <2>5, <2>8 DEF n, e
    <2> QED BY <2>6, <2>7, <2>9, <2>10, <2>11
<1> QED BY <1>2, <1>3

-----------------------------------------------------------------------------
(* The stream *)

\* The processor is aligned on what was received; what it returned is the
\* output up to its cursor; and while the stream runs the cursor is where the
\* frames end and the rest is kept.
DenoiserInv ==
    /\ caller \in {"session", "batch"} /\ pc \in {"streaming", "ended"}
    /\ received \in 0..MaxSamples
    /\ processor \in ProcessorType /\ Aligned(processor, received)
    /\ Len(processor.leftover) < FRAME_SIZE
    /\ returned \in Seq(Seq(Sample)) /\ Len(returned) = processor.cursor
    /\ processor.cursor <= Len(processor.output)
    /\ \A q \in 1 .. processor.cursor : returned[q] = processor.output[q]
    /\ pc = "streaming" => Streamed(processor, received) /\ processor.cursor = End(processor)
    /\ pc = "ended" /\ caller = "batch" =>
          processor.cursor = Len(processor.output) /\ received <= End(processor)

\* All frames that ended are in the output.
LEMMA OutputReaches ==
    ASSUME NEW p \in ProcessorType, NEW total, Aligned(p, total)
    PROVE  /\ p.output \in Seq(Seq(Sample)) /\ Len(p.output) \in Nat
           /\ End(p) \in Nat /\ End(p) <= Len(p.output)
<1>1. End(p) \in Nat /\ FRAME_SIZE \in Nat /\ p.output \in Seq(Seq(Sample))
      /\ (p.frame_idx = 0 => End(p) = 0)
    BY EndType, FrameSize DEF ProcessorType
<1> QED BY <1>1 DEF Aligned

\* What is returned next goes on where the last call stopped.
LEMMA ReturnIs ==
    ASSUME NEW p \in ProcessorType, NEW ready \in Nat, p.cursor <= ready,
           ready <= Len(p.output),
           returned \in Seq(Seq(Sample)), Len(returned) = p.cursor,
           \A q \in 1 .. p.cursor : returned[q] = p.output[q],
           Return(p, ready)
    PROVE  /\ returned' \in Seq(Seq(Sample)) /\ Len(returned') = ready
           /\ \A q \in 1 .. ready : returned'[q] = p.output[q]
           /\ processor' \in ProcessorType /\ processor'.cursor = ready
           /\ processor'.analysis_buf = p.analysis_buf /\ processor'.output = p.output
           /\ processor'.frame_idx = p.frame_idx /\ processor'.leftover = p.leftover
<1> DEFINE T == Seq(Sample)
           c == p.cursor
           out == p.output
           part == SubSeq(out, c + 1, ready)
<1>1. c \in Nat /\ c <= ready /\ ready <= Len(out) /\ out \in Seq(T) /\ returned \in Seq(T)
      /\ Len(returned) = c
    BY DEF ProcessorType
<1>2. \A q \in 1..c : returned[q] = out[q]
    OBVIOUS
<1>3. returned' = returned \o part
    BY DEF Return
<1>4. processor' = [p EXCEPT !.cursor = ready]
    <2>1. processor' = [p EXCEPT !.cursor = IF ready <= p.cursor THEN p.cursor ELSE ready]
        BY DEF Return
    <2>2. (IF ready <= p.cursor THEN p.cursor ELSE ready) = ready
        BY <1>1
    <2> QED BY <2>1, <2>2
<1>5. /\ p \in [analysis_buf : Window, output : Seq(T), frame_idx : Nat, cursor : Nat,
                leftover : T]
    BY DEF ProcessorType
<1> HIDE DEF T, c, out
<1>6. /\ part \in Seq(T) /\ Len(part) = ready - c
      /\ \A i \in 1 .. ready - c : part[i] = out[c + i]
    BY <1>1, Parts
<1> HIDE DEF part
<1>7. /\ returned' \in Seq(T) /\ Len(returned') = c + (ready - c)
      /\ \A q \in 1..c : returned'[q] = returned[q]
      /\ \A q \in 1 .. ready - c : returned'[c + q] = part[q]
    <2>1. OneThenOther(T, returned, part)
        BY <1>1, <1>6, Concats
    <2> QED BY <1>1, <1>3, <1>6, <2>1 DEF OneThenOther
<1>8. ASSUME NEW q \in 1 .. ready PROVE returned'[q] = out[q]
    <2>1. CASE q <= c
        <3>1. q \in 1..c
            BY <1>1, <2>1
        <3> QED BY <1>2, <1>7, <3>1
    <2>2. CASE ~(q <= c)
        <3>1. q - c \in 1 .. ready - c /\ c + (q - c) = q
            BY <1>1, <2>2
        <3>2. part[q - c] = out[c + (q - c)]
            BY <1>6, <3>1
        <3>3. returned'[c + (q - c)] = part[q - c]
            BY <1>7, <3>1
        <3> QED BY <3>1, <3>2, <3>3
    <2> QED BY <2>1, <2>2
<1>9. Len(returned') = ready
    BY <1>1, <1>7
<1>10. processor' \in [analysis_buf : Window, output : Seq(T), frame_idx : Nat, cursor : Nat,
                       leftover : T]
    BY <1>4, <1>5
<1>11. /\ processor'.cursor = ready /\ processor'.analysis_buf = p.analysis_buf
       /\ processor'.output = p.output /\ processor'.frame_idx = p.frame_idx
       /\ processor'.leftover = p.leftover
    BY <1>4, <1>5
<1> QED BY <1>7, <1>8, <1>9, <1>10, <1>11 DEF ProcessorType, T, out

\* p is the processor before its results are returned, q afterwards.
LEMMA SameFrames ==
    ASSUME NEW p, NEW q, NEW total, q.analysis_buf = p.analysis_buf, q.output = p.output,
           q.frame_idx = p.frame_idx, q.leftover = p.leftover
    PROVE  /\ End(q) = End(p)
           /\ Aligned(p, total) => Aligned(q, total)
           /\ Streamed(p, total) => Streamed(q, total)
<1>1. End(q) = End(p)
    BY DEF End
<1>2. Aligned(p, total) => Aligned(q, total)
    BY <1>1 DEF Aligned
<1> QED BY <1>1, <1>2 DEF Streamed

LEMMA DenoiserInit == Init => DenoiserInv
<1> SUFFICES ASSUME Init PROVE DenoiserInv
    OBVIOUS
<1> DEFINE buf == Silence(WINDOW_SIZE)
<1>1. /\ FRAME_SIZE \in Nat /\ FRAME_SIZE >= 1 /\ WINDOW_SIZE \in Nat
      /\ WINDOW_SIZE = FRAME_SIZE + FRAME_SIZE /\ 0 * FRAME_SIZE = 0
    BY FrameSize
<1>2. buf \in Window /\ \A i \in 1..WINDOW_SIZE : buf[i] = None
    BY DEF Silence, Window, Sample
<1> HIDE DEF buf
<1>3. /\ processor = [analysis_buf |-> buf, output |-> <<>>, frame_idx |-> 0, cursor |-> 0,
                      leftover |-> <<>>]
      /\ received = 0 /\ returned = <<>> /\ pc = "streaming" /\ caller \in {"session", "batch"}
    BY DEF Init, buf
<1>4. <<>> \in Seq(Sample) /\ <<>> \in Seq(Seq(Sample)) /\ Len(<<>>) = 0
    OBVIOUS
<1>5. /\ processor.analysis_buf = buf /\ processor.output = <<>> /\ processor.frame_idx = 0
      /\ processor.cursor = 0 /\ processor.leftover = <<>>
    BY <1>3
<1>6. processor \in ProcessorType
    BY <1>2, <1>3, <1>4 DEF ProcessorType
<1>7. End(processor) = 0
    BY <1>1, <1>5 DEF End
<1>8. Aligned(processor, received)
    <2>1. \A x : In(0, x) = None
        BY DEF In
    <2> QED BY <1>2, <1>3, <1>4, <1>5, <2>1 DEF Aligned
<1>9. Streamed(processor, received)
    BY <1>1, <1>3, <1>4, <1>5, <1>7, <1>8 DEF Streamed
<1> QED BY <1>1, <1>3, <1>4, <1>5, <1>6, <1>7, <1>8, <1>9, MaxSamplesAssumption DEF DenoiserInv

\* A chunk, and what is settled by it.
LEMMA ProcessKeeps ==
    ASSUME DenoiserInv, NEW n \in ChunkSizes, Process(n)
    PROVE  /\ DenoiserInv'
           /\ \A q \in DOMAIN returned : returned[q] = processor'.output[q]
           /\ Len(returned) <= Len(returned')
<1> DEFINE p == processor
           new == [i \in 1..n |-> received + i - 1]
           chunk == p.leftover \o new
           v == Processed(p, chunk)
           T == Sample
           total == received + n
<1>1. /\ p \in ProcessorType /\ received \in Nat /\ received <= MaxSamples
      /\ n \in Nat /\ total <= MaxSamples /\ MaxSamples \in Nat
      /\ End(p) \in Nat /\ FRAME_SIZE \in Nat /\ p.leftover \in Seq(T)
    BY ChunkSizesAssumption, MaxSamplesAssumption, EndType, FrameSize
       DEF DenoiserInv, Process, ProcessorType
<1>2. /\ Streamed(p, received) /\ p.cursor = End(p) /\ pc = "streaming"
      /\ returned \in Seq(Seq(Sample)) /\ Len(returned) = p.cursor
      /\ \A q \in 1 .. p.cursor : returned[q] = p.output[q]
      /\ caller \in {"session", "batch"}
    BY DEF DenoiserInv, Process
<1>3. received' = total /\ Return(v, Ready(v)) /\ UNCHANGED <<caller, pc>>
    BY DEF Process
<1>4. new \in Seq(T) /\ Len(new) = n /\ \A i \in 1..n : new[i] = received + i - 1
    <2>1. \A i \in 1..n : received + i - 1 \in T
        BY <1>1 DEF Sample
    <2> HIDE DEF T
    <2> QED BY <1>1, <2>1
<1>5. /\ End(p) + Len(p.leftover) = received /\ Len(p.leftover) \in Nat
      /\ \A i \in 1 .. Len(p.leftover) : p.leftover[i] = End(p) + i - 1
      /\ Aligned(p, received)
    BY <1>1, <1>2 DEF Streamed
<1> HIDE DEF new, v, T, total, p
<1>6. /\ chunk \in Seq(T) /\ Len(chunk) = Len(p.leftover) + n
      /\ \A i \in 1 .. Len(p.leftover) : chunk[i] = p.leftover[i]
      /\ \A i \in 1..n : chunk[Len(p.leftover) + i] = new[i]
    <2>1. OneThenOther(T, p.leftover, new)
        BY <1>1, <1>4, Concats
    <2> QED BY <1>4, <2>1 DEF OneThenOther
<1> HIDE DEF chunk
<1>7. total \in 0..MaxSamples /\ received <= total /\ End(p) + Len(chunk) = total
      /\ End(p) <= received /\ total \in Nat
    <2> DEFINE l == Len(p.leftover)
    <2>1. l \in Nat /\ End(p) + l = received /\ Len(chunk) = l + n
        BY <1>5, <1>6
    <2>2. total = received + n
        BY DEF total
    <2> HIDE DEF l
    <2> QED BY <1>1, <2>1, <2>2
<1>8. ASSUME NEW i \in 1 .. Len(chunk) PROVE chunk[i] = End(p) + i - 1
    <2> DEFINE l == Len(p.leftover)
    <2>1. l \in Nat /\ End(p) + l = received
        BY <1>5
    <2> HIDE DEF l
    <2>2. CASE i <= l
        <3>1. i \in 1..l
            BY <2>1, <2>2
        <3> QED BY <1>5, <1>6, <3>1 DEF l
    <2>3. CASE ~(i <= l)
        <3>1. i - l \in 1..n /\ l + (i - l) = i
            BY <1>1, <1>6, <2>1, <2>3 DEF l
        <3>2. chunk[l + (i - l)] = new[i - l] /\ new[i - l] = received + (i - l) - 1
            BY <1>4, <1>6, <3>1 DEF l
        <3>3. received + (i - l) - 1 = End(p) + i - 1
            BY <1>1, <2>1, <3>1
        <3> QED BY <3>1, <3>2, <3>3
    <2> QED BY <2>2, <2>3
<1>9. Aligned(p, total)
    BY <1>1, <1>5, <1>7, MoreReceived
<1>10. v \in ProcessorType /\ Streamed(v, total) /\ Follows(v, p)
    <2>1. chunk \in Seq(Sample)
        BY <1>6 DEF T
    <2> QED BY <1>1, <1>7, <1>8, <1>9, <2>1, ChunkAligned DEF v
<1>11. /\ Ready(v) = End(v) /\ End(v) \in Nat /\ End(p) <= End(v) /\ v.cursor = End(p)
       /\ End(v) <= Len(v.output) /\ Aligned(v, total)
       /\ \A q \in 1 .. End(p) : v.output[q] = p.output[q]
    <2>1. Aligned(v, total)
        BY <1>10 DEF Streamed
    <2>2. Ready(v) = End(v)
        BY DEF Ready, End
    <2> QED BY <1>2, <1>10, <2>1, <2>2, OutputReaches DEF Follows
<1>12. \A q \in 1 .. v.cursor : returned[q] = v.output[q]
    BY <1>2, <1>11
<1>13. /\ returned' \in Seq(Seq(Sample)) /\ Len(returned') = End(v)
       /\ \A q \in 1 .. End(v) : returned'[q] = v.output[q]
       /\ processor' \in ProcessorType /\ processor'.cursor = End(v)
       /\ processor'.analysis_buf = v.analysis_buf /\ processor'.output = v.output
       /\ processor'.frame_idx = v.frame_idx /\ processor'.leftover = v.leftover
    <2>1. v.cursor <= End(v) /\ Len(returned) = v.cursor /\ Return(v, End(v))
        BY <1>2, <1>3, <1>11
    <2> QED BY <1>2, <1>10, <1>11, <1>12, <2>1, ReturnIs
<1>14. End(processor') = End(v) /\ Aligned(processor', total) /\ Streamed(processor', total)
    BY <1>10, <1>11, <1>13, SameFrames
<1>15. Len(processor'.leftover) < FRAME_SIZE
    BY <1>14 DEF Streamed
<1>16. DenoiserInv'
    <2>1. received' = total /\ caller' = caller /\ pc' = "streaming"
        BY <1>2, <1>3
    <2>2. Aligned(processor, received)' /\ Streamed(processor, received)'
        BY <1>14, <2>1
    <2>3. (processor.cursor = End(processor))' /\ (processor.cursor <= Len(processor.output))'
        BY <1>11, <1>13, <1>14
    <2> QED BY <1>2, <1>7, <1>13, <1>15, <2>1, <2>2, <2>3 DEF DenoiserInv
<1>17. \A q \in DOMAIN returned : returned[q] = processor'.output[q]
    <2>1. DOMAIN returned = 1 .. v.cursor
        BY <1>2, <1>11
    <2> QED BY <1>12, <1>13, <2>1
<1>18. Len(returned) <= Len(returned')
    BY <1>2, <1>11, <1>13
<1> QED BY <1>16, <1>17, <1>18

LEMMA FlushKeeps ==
    ASSUME DenoiserInv, Flush
    PROVE  /\ DenoiserInv'
           /\ \A q \in DOMAIN returned : returned[q] = processor'.output[q]
<1> DEFINE p == processor
           v == Padded(p)
           ready == Len(v.output)
<1>1. /\ p \in ProcessorType /\ received \in 0..MaxSamples
      /\ Streamed(p, received) /\ p.cursor = End(p)
      /\ returned \in Seq(Seq(Sample)) /\ Len(returned) = p.cursor
      /\ \A q \in 1 .. p.cursor : returned[q] = p.output[q]
    BY DEF DenoiserInv, Flush
<1>2. caller = "batch" /\ pc' = "ended" /\ UNCHANGED <<caller, received>> /\ Return(v, ready)
    BY DEF Flush
<1>3. /\ v \in ProcessorType /\ Aligned(v, received) /\ Follows(v, p)
      /\ v.leftover = <<>> /\ received <= End(v)
    BY <1>1, PaddedAligned
<1> HIDE DEF v, p
<1>4. /\ ready \in Nat /\ End(v) <= ready /\ End(v) \in Nat /\ End(p) \in Nat
      /\ End(p) <= End(v) /\ v.cursor = End(p)
      /\ \A q \in 1 .. End(p) : v.output[q] = p.output[q]
    BY <1>1, <1>3, EndType, OutputReaches DEF Follows
<1>5. /\ \A q \in 1 .. v.cursor : returned[q] = v.output[q]
      /\ v.cursor <= ready /\ Len(returned) = v.cursor
    <2>1. v.cursor = p.cursor /\ v.cursor = End(p)
        BY <1>1, <1>4
    <2>2. End(p) <= ready
        BY <1>4
    <2>3. \A q \in 1 .. v.cursor : returned[q] = p.output[q] /\ v.output[q] = p.output[q]
        BY <1>1, <1>4, <2>1
    <2> QED BY <1>1, <2>1, <2>2, <2>3
<1>6. ready <= Len(v.output)
    BY <1>4
<1> HIDE DEF ready
<1>7. /\ returned' \in Seq(Seq(Sample)) /\ Len(returned') = ready
      /\ \A q \in 1 .. ready : returned'[q] = v.output[q]
      /\ processor' \in ProcessorType /\ processor'.cursor = ready
      /\ processor'.analysis_buf = v.analysis_buf /\ processor'.output = v.output
      /\ processor'.frame_idx = v.frame_idx /\ processor'.leftover = v.leftover
    BY <1>1, <1>2, <1>3, <1>4, <1>5, <1>6, ReturnIs
<1>8. End(processor') = End(v) /\ Aligned(processor', received)
    BY <1>3, <1>7, SameFrames
<1>9. DenoiserInv'
    <2>1. received' = received /\ caller' = caller /\ pc' = "ended"
        BY <1>2
    <2>2. Aligned(processor, received)'
        BY <1>8, <2>1
    <2>3. Len(processor'.leftover) < FRAME_SIZE
        <3>1. processor'.leftover = <<>>
            BY <1>3, <1>7
        <3> QED BY <3>1, FrameSize
    <2>4. (processor.cursor = Len(processor.output))' /\ (received <= End(processor))'
        BY <1>3, <1>7, <1>8, <2>1 DEF ready
    <2>5. (processor.cursor <= Len(processor.output))'
        BY <1>4, <1>6, <1>7
    <2> QED BY <1>1, <1>2, <1>7, <2>1, <2>2, <2>3, <2>4, <2>5 DEF DenoiserInv
<1>10. \A q \in DOMAIN returned : returned[q] = processor'.output[q]
    <2>1. DOMAIN returned = 1 .. v.cursor
        BY <1>1, <1>5
    <2> QED BY <1>5, <1>7, <2>1
<1> QED BY <1>9, <1>10

LEMMA DenoiserStep ==
    DenoiserInv /\ [Next]_vars =>
        DenoiserInv' /\ [\A q \in DOMAIN returned : returned[q] = processor'.output[q]]_vars
<1> SUFFICES ASSUME DenoiserInv, [Next]_vars
             PROVE  DenoiserInv' /\ [\A q \in DOMAIN returned : returned[q] = processor'.output[q]]_vars
    OBVIOUS
<1>1. ASSUME NEW n \in ChunkSizes, Process(n)
      PROVE  DenoiserInv' /\ \A q \in DOMAIN returned : returned[q] = processor'.output[q]
    BY <1>1, ProcessKeeps
<1>2. CASE Flush
    BY <1>2, FlushKeeps
<1>3. CASE StreamEnds
    <2>1. /\ pc' = "ended" /\ caller = "session"
          /\ UNCHANGED <<caller, processor, received, returned>>
        BY <1>3 DEF StreamEnds
    <2>2. DenoiserInv'
        BY <2>1 DEF DenoiserInv
    <2>3. \A q \in DOMAIN returned : returned[q] = processor'.output[q]
        <3>1. DOMAIN returned = 1 .. processor.cursor /\ processor' = processor
            BY <2>1 DEF DenoiserInv
        <3>2. \A q \in 1 .. processor.cursor : returned[q] = processor.output[q]
            BY DEF DenoiserInv
        <3> QED BY <3>1, <3>2
    <2> QED BY <2>2, <2>3
<1>4. CASE UNCHANGED vars
    BY <1>4 DEF DenoiserInv, vars
<1> QED BY <1>1, <1>2, <1>3, <1>4 DEF Next

\* However the stream is cut into chunks, all that was added to one sample of
\* the output is one sample of the input, every sample keeps its place, and a
\* running stream holds back less than a frame: for any frame size and chunks.
THEOREM WindowsAlwaysMeet == Spec => []WindowsMeet
<1>1. DenoiserInv => WindowsMeet
    <2> SUFFICES ASSUME DenoiserInv PROVE WindowsMeet
        OBVIOUS
    <2>1. /\ processor \in ProcessorType /\ Aligned(processor, received)
          /\ returned \in Seq(Seq(Sample)) /\ Len(returned) = processor.cursor
          /\ processor.cursor <= Len(processor.output)
          /\ \A q \in 1 .. processor.cursor : returned[q] = processor.output[q]
        BY DEF DenoiserInv
    <2>2. TypeOK
        BY <2>1 DEF DenoiserInv, ProcessorType, Window, TypeOK
    <2>3. ASSUME NEW q \in DOMAIN returned, NEW k \in DOMAIN returned[q]
          PROVE  returned[q][k] = In(received, q - 1 - FRAME_SIZE)
        <3>1. processor.output \in Seq(Seq(Sample)) /\ processor.cursor \in Nat
            BY <2>1 DEF ProcessorType
        <3>2. q \in 1 .. processor.cursor /\ q \in 1 .. Len(processor.output)
            BY <2>1, <3>1
        <3>3. returned[q] = processor.output[q] /\ processor.output[q] \in Seq(Sample)
            BY <2>1, <3>1, <3>2
        <3>4. k \in 1 .. Len(processor.output[q])
            BY <3>3
        <3> QED BY <2>1, <3>2, <3>3, <3>4 DEF Aligned
    <2>4. pc = "streaming" => received - Len(returned) \in 0 .. FRAME_SIZE - 1
        <3> SUFFICES ASSUME pc = "streaming" PROVE received - Len(returned) \in 0 .. FRAME_SIZE - 1
            OBVIOUS
        <3>1. /\ processor.cursor = End(processor)
              /\ End(processor) + Len(processor.leftover) = received
              /\ Len(processor.leftover) < FRAME_SIZE
            BY DEF DenoiserInv, Streamed
        <3>2. End(processor) \in Nat /\ Len(processor.leftover) \in Nat /\ FRAME_SIZE \in Nat
            BY <2>1, EndType, FrameSize DEF ProcessorType
        <3> QED BY <2>1, <3>1, <3>2
    <2> QED BY <2>2, <2>3, <2>4 DEF WindowsMeet, In
<1> QED BY <1>1, DenoiserInit, DenoiserStep, PTL DEF Spec

\* After flush() every sample of the input has been returned, also those of an
\* incomplete last frame.
THEOREM NothingIsHeldBack == Spec => []FlushReturnsAll
<1>1. DenoiserInv => FlushReturnsAll
    <2> SUFFICES ASSUME DenoiserInv, caller = "batch", pc = "ended", NEW x \in 0 .. received - 1
                 PROVE  \E q \in DOMAIN returned : x \in Range(returned[q])
        BY DEF FlushReturnsAll, HeardIsReturned
    <2>1. /\ processor \in ProcessorType /\ Aligned(processor, received)
          /\ returned \in Seq(Seq(Sample)) /\ Len(returned) = processor.cursor
          /\ \A q \in 1 .. processor.cursor : returned[q] = processor.output[q]
          /\ processor.cursor = Len(processor.output) /\ received <= End(processor)
          /\ received \in Nat
        BY MaxSamplesAssumption DEF DenoiserInv
    <2>2. /\ End(processor) \in Nat /\ FRAME_SIZE \in Nat
          /\ (processor.frame_idx = 0 => End(processor) = 0)
        BY <2>1, EndType, FrameSize
    <2> DEFINE q == x + 1 + FRAME_SIZE
    <2>3. Len(processor.output) = End(processor) + FRAME_SIZE
        BY <2>1, <2>2 DEF Aligned
    <2>4. q \in 1 .. Len(processor.output) /\ q - 1 - FRAME_SIZE = x
        BY <2>1, <2>2, <2>3
    <2> HIDE DEF q
    <2>5. q \in DOMAIN returned /\ returned[q] = processor.output[q]
        BY <2>1, <2>4
    <2>6. Len(processor.output[q]) >= 1 /\ processor.output[q] \in Seq(Sample)
        <3>1. processor.output \in Seq(Seq(Sample))
            BY <2>1 DEF ProcessorType
        <3>2. processor.output[q] \in Seq(Sample)
            BY <2>4, <3>1
        <3>3. Len(processor.output[q]) >= 1
            BY <2>1, <2>4 DEF Aligned
        <3> QED BY <3>2, <3>3
    <2>7. 1 \in 1 .. Len(processor.output[q]) /\ 1 \in DOMAIN processor.output[q]
        BY <2>6
    <2>8. processor.output[q][1] = In(received, x)
        BY <2>1, <2>4, <2>7 DEF Aligned
    <2>9. In(received, x) = x
        BY <2>1 DEF In
    <2> QED BY <2>5, <2>7, <2>8, <2>9 DEF Range
<1> QED BY <1>1, DenoiserInit, DenoiserStep, PTL DEF Spec

\* No sample that was returned is changed by a later window.
THEOREM ReturnedStays == Spec => ReturnedIsSettled
<1> QED BY DenoiserInit, DenoiserStep, PTL DEF Spec, ReturnedIsSettled

\* How many samples may leave when a chunk of n goes in: AsrSession's Denoised.
Allowed(n) == 0 .. received + n - Len(returned)

\* What a session assumes of its denoiser is true: process() never returns more
\* than went in and was not returned yet, and of this it keeps less than a frame.
THEOREM OutputIsAllowed ==
    Spec => [][\A n \in ChunkSizes : Process(n) =>
                  /\ Len(returned') - Len(returned) \in Allowed(n)
                  /\ received + n - Len(returned') < FRAME_SIZE]_vars
<1> DEFINE Kept == \A n \in ChunkSizes : Process(n) =>
                      /\ Len(returned') - Len(returned) \in Allowed(n)
                      /\ received + n - Len(returned') < FRAME_SIZE
<1>1. DenoiserInv => Kept
    <2> SUFFICES ASSUME DenoiserInv, NEW n \in ChunkSizes, Process(n)
                 PROVE  /\ Len(returned') - Len(returned) \in Allowed(n)
                        /\ received + n - Len(returned') < FRAME_SIZE
        OBVIOUS
    <2>1. DenoiserInv' /\ Len(returned) <= Len(returned')
        BY ProcessKeeps
    <2>2. /\ pc' = "streaming" /\ received' = received + n
          /\ received \in Nat /\ n \in Nat
        BY ChunkSizesAssumption, MaxSamplesAssumption DEF Process, DenoiserInv
    <2>3. /\ Len(returned') = End(processor')
          /\ End(processor') + Len(processor'.leftover) = received'
          /\ Len(processor'.leftover) < FRAME_SIZE
        BY <2>1, <2>2 DEF DenoiserInv, Streamed
    <2>4. Len(processor'.leftover) \in Nat /\ Len(returned') \in Nat /\ Len(returned) \in Nat
        BY <2>1 DEF DenoiserInv, ProcessorType
    <2>5. FRAME_SIZE \in Nat
        BY FrameSize
    <2> DEFINE before == Len(returned)
               after  == Len(returned')
               rest   == Len(processor'.leftover)
    <2>6. /\ before \in Nat /\ after \in Nat /\ rest \in Nat /\ before <= after
          /\ after + rest = received + n /\ rest < FRAME_SIZE
        BY <2>1, <2>2, <2>3, <2>4
    <2> HIDE DEF before, after, rest
    <2>7. after - before \in 0 .. received + n - before /\ received + n - after < FRAME_SIZE
        BY <2>2, <2>5, <2>6
    <2> QED BY <2>7 DEF before, after, Allowed
<1> HIDE DEF Kept
<1>2. DenoiserInv => [Kept]_vars
    BY <1>1
<1>3. Spec => [][Kept]_vars
    BY <1>2, DenoiserInit, DenoiserStep, PTL DEF Spec
<1> QED BY <1>3 DEF Kept
===============================================================================
