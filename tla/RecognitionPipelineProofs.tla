----------------------- MODULE RecognitionPipelineProofs -----------------------
(***************************************************************************)
(* Theorems about the detector of a session and about the way of the audio *)
(* through the session, for all thresholds, frames and verdicts.           *)
(*                                                                         *)
(* First the detector by itself (TenVADSession): its buffers and counters  *)
(* tell one story, its reports are sound and no long burst of speech is    *)
(* lost.  Then the handler around it: what the detector promises holds in  *)
(* the pipeline, the online cursor moves only behind a pause, every span   *)
(* that is reported is recognised, and no audio is recognised twice but    *)
(* for a pre-roll.                                                         *)
(***************************************************************************)
EXTENDS RecognitionPipeline, FiniteSetTheorems, SequenceTheorems, TLAPS

-----------------------------------------------------------------------------
(* What one frame does to the open segment, field by field *)

\* What holds of the detector between any two frames.
Tidy(v) ==
    /\ v \in Session
    /\ v.gap_speech = Len(v.gap_buffer)
    /\ v.gap_active <=> v.gap_buffer # <<>>
    /\ v.gap_active => /\ v.in_speech
                       /\ v.gap_base_silence = v.silence_frame_count
                       /\ v.silence_frame_count > 0
    /\ ~v.in_speech => /\ v.segment_frames = <<>> /\ v.pre_snapshot = <<>>
                       /\ v.silence_frame_count = 0

NoGap(v) == ~v.gap_active /\ v.gap_buffer = <<>> /\ v.gap_speech = 0

Opens(v, u, i) ==
    /\ ~v.in_speech /\ u.in_speech /\ NoGap(u)
    /\ u.pre_snapshot = v.pre_buffer /\ u.speech_start = i - Len(v.pre_buffer)
    /\ u.segment_frames = Append(<<>>, i)
    /\ u.speech_frame_count = 1 /\ u.silence_frame_count = 0
    /\ u.last_speech_end = i + 1 /\ u.gap_base_silence = 0

StaysOpen(v, u) ==
    /\ v.in_speech /\ u.in_speech
    /\ u.pre_snapshot = v.pre_snapshot /\ u.speech_start = v.speech_start

Speaks(v, u, i) ==
    /\ StaysOpen(v, u) /\ NoGap(v) /\ NoGap(u)
    /\ v.silence_frame_count = 0 /\ u.silence_frame_count = 0
    /\ u.segment_frames = Append(v.segment_frames, i)
    /\ u.speech_frame_count = v.speech_frame_count + 1
    /\ u.last_speech_end = i + 1 /\ u.gap_base_silence = v.gap_base_silence

OnProbation(v, u, i) ==
    /\ StaysOpen(v, u) /\ u.gap_active
    /\ v.silence_frame_count > 0 /\ u.silence_frame_count = v.silence_frame_count
    /\ u.segment_frames = v.segment_frames
    /\ u.speech_frame_count = v.speech_frame_count
    /\ u.last_speech_end = v.last_speech_end
    /\ u.gap_base_silence = v.silence_frame_count
    /\ u.gap_speech = v.gap_speech + 1 /\ u.gap_buffer = Append(v.gap_buffer, i)

Pauses(v, u, i) ==
    /\ StaysOpen(v, u) /\ NoGap(v) /\ NoGap(u)
    /\ u.silence_frame_count = v.silence_frame_count + 1
    /\ u.segment_frames = Append(v.segment_frames, i)
    /\ u.speech_frame_count = v.speech_frame_count
    /\ u.last_speech_end = v.last_speech_end
    /\ u.gap_base_silence = v.gap_base_silence

Merges(v, u, i) ==
    /\ StaysOpen(v, u) /\ v.gap_active /\ NoGap(u) /\ TooShort(v.gap_speech)
    /\ u.silence_frame_count = v.silence_frame_count + v.gap_speech + 1
    /\ u.segment_frames = Append(v.segment_frames, i)
    /\ u.speech_frame_count = v.speech_frame_count
    /\ u.last_speech_end = v.last_speech_end
    /\ u.gap_base_silence = v.gap_base_silence

Keeps(v, u, i) ==
    /\ StaysOpen(v, u) /\ v.gap_active /\ NoGap(u) /\ ~TooShort(v.gap_speech)
    /\ u.silence_frame_count = 1
    /\ u.segment_frames = Append(v.segment_frames \o v.gap_buffer, i)
    /\ u.speech_frame_count = v.speech_frame_count + v.gap_speech
    /\ u.last_speech_end = i
    /\ u.gap_base_silence = 0

Quiet(v, u) ==
    /\ ~v.in_speech /\ u = [v EXCEPT !.pre_buffer = u.pre_buffer]

Speech(v, u, i)  == Opens(v, u, i) \/ Speaks(v, u, i) \/ OnProbation(v, u, i)
Silence(v, u, i) == Pauses(v, u, i) \/ Merges(v, u, i) \/ Keeps(v, u, i) \/ Quiet(v, u)

LEMMA LastFramesType ==
    ASSUME NEW frames \in Seq(Nat)
    PROVE  LET last == LastFrames(frames, Pad)
           IN  /\ last \in Seq(Nat)
               /\ Len(last) = IF Len(frames) > Pad THEN Pad ELSE Len(frames)
               /\ \A k \in 1 .. Len(last) : last[k] = frames[Len(frames) - Len(last) + k]
<1> DEFINE n == Len(frames)
<1>0. n \in Nat /\ Pad \in Nat /\ DOMAIN frames = 1 .. n /\ \A k \in 1 .. n : frames[k] \in Nat
    BY PadAssumption
<1> HIDE DEF n
<1>1. CASE n > Pad
    <2> DEFINE last == SubSeq(frames, n - Pad + 1, n)
    <2>1. LastFrames(frames, Pad) = last
        BY <1>1 DEF LastFrames, n
    <2>2. n - Pad + 1 \in Int /\ n \in Int /\ \A k \in n - Pad + 1 .. n : frames[k] \in Nat
        BY <1>0, <1>1
    <2>3. /\ last \in Seq(Nat)
          /\ Len(last) = IF n - Pad + 1 <= n THEN n - (n - Pad + 1) + 1 ELSE 0
          /\ \A k \in 1 .. n - (n - Pad + 1) + 1 : last[k] = frames[n - Pad + 1 + k - 1]
        BY <2>2, SubSeqProperties
    <2> HIDE DEF last
    <2>4. Len(last) = Pad /\ \A k \in 1 .. Pad : last[k] = frames[n - Pad + k]
        BY <1>0, <1>1, <2>3
    <2> QED BY <1>1, <2>1, <2>3, <2>4 DEF n
<1>2. CASE ~(n > Pad)
    <2>1. LastFrames(frames, Pad) = frames
        BY <1>2 DEF LastFrames, n
    <2>2. \A k \in 1 .. n : n - n + k = k
        BY <1>0
    <2> QED BY <1>0, <1>2, <2>1, <2>2 DEF n
<1> QED BY <1>1, <1>2
\* The pre-roll: the frames before a segment, or those heard last.
LEMMA PrerollCase ==
    ASSUME NEW v \in Session, NEW i \in Nat, NEW is_speech \in BOOLEAN
    PROVE  LET w == Prerolled(v, i, is_speech)
               b == LastFrames(Append(v.pre_buffer, i), Pad)
           IN  /\ w \in Session /\ b \in Seq(Nat)
               /\ w = [v EXCEPT !.pre_buffer = b,
                                !.pre_snapshot = IF is_speech /\ ~v.in_speech THEN v.pre_buffer
                                                 ELSE v.pre_snapshot]
<1> DEFINE w == Prerolled(v, i, is_speech)
           b == LastFrames(Append(v.pre_buffer, i), Pad)
           p == IF is_speech /\ ~v.in_speech THEN v.pre_buffer ELSE v.pre_snapshot
<1>1. v.pre_buffer \in Seq(Nat) /\ v.pre_snapshot \in Seq(Nat)
    BY DEF Session, Frame
<1>2. b \in Seq(Nat)
    <2>1. Append(v.pre_buffer, i) \in Seq(Nat)
        BY <1>1
    <2> QED BY <2>1, LastFramesType
<1>3. p \in Seq(Nat)
    BY <1>1
<1>4. w = [v EXCEPT !.pre_buffer = b, !.pre_snapshot = p]
    BY DEF Prerolled, Session
<1> HIDE DEF w, b, p
<1>5. w \in Session
    BY <1>2, <1>3, <1>4 DEF Session, Frame
<1> QED BY <1>2, <1>4, <1>5 DEF w, b, p

\* A frame of speech opens a segment, counts, or is put on probation.
LEMMA SpeechCases ==
    ASSUME NEW v, Tidy(v), NEW i \in Nat, Len(v.pre_buffer) <= i
    PROVE  LET u == Advanced(v, i, TRUE)
           IN  /\ u \in Session /\ Speech(v, u, i)
               /\ u.pre_buffer = LastFrames(Append(v.pre_buffer, i), Pad)
<1> DEFINE b == LastFrames(Append(v.pre_buffer, i), Pad)
           w == Prerolled(v, i, TRUE)
           o == Opened(w, i)
           g == GapEntered(o)
           u == Spoken(g, i)
<1>1. v \in Session
    BY DEF Tidy
<1>2. /\ w \in Session /\ b \in Seq(Nat)
      /\ w = [v EXCEPT !.pre_buffer = b,
                       !.pre_snapshot = IF ~v.in_speech THEN v.pre_buffer ELSE v.pre_snapshot]
    BY <1>1, PrerollCase
<1>3. u = Advanced(v, i, TRUE)
    BY DEF Advanced
<1> HIDE DEF b, w
<1>4. CASE ~v.in_speech
    <2>1. ~w.in_speech /\ w.pre_snapshot = v.pre_buffer /\ w.pre_buffer = b
        BY <1>1, <1>2, <1>4 DEF Session
    <2>2. o = [w EXCEPT !.in_speech = TRUE, !.speech_frame_count = 0,
                        !.silence_frame_count = 0, !.segment_frames = <<>>,
                        !.gap_active = FALSE, !.gap_base_silence = 0,
                        !.gap_speech = 0, !.gap_buffer = <<>>,
                        !.speech_start = i - Len(v.pre_buffer)]
        BY <2>1 DEF Opened
    <2>3. o.silence_frame_count = 0 /\ ~o.gap_active /\ o.in_speech
          /\ o.pre_buffer = b /\ o.pre_snapshot = v.pre_buffer
          /\ o.speech_frame_count = 0 /\ o.segment_frames = <<>>
          /\ o.gap_base_silence = 0 /\ o.gap_speech = 0 /\ o.gap_buffer = <<>>
          /\ o.speech_start = i - Len(v.pre_buffer)
        BY <1>2, <2>1, <2>2 DEF Session
    <2>8. o \in Session
        <3> DEFINE first == i - Len(v.pre_buffer)
        <3>1. first \in Nat /\ <<>> \in Seq(Nat)
            <4>1. Len(v.pre_buffer) \in Nat
                BY <1>1 DEF Session, Frame
            <4> QED BY <4>1
        <3>2. o = [w EXCEPT !.in_speech = TRUE, !.speech_frame_count = 0,
                            !.silence_frame_count = 0, !.segment_frames = <<>>,
                            !.gap_active = FALSE, !.gap_base_silence = 0,
                            !.gap_speech = 0, !.gap_buffer = <<>>,
                            !.speech_start = first]
            BY <2>2
        <3> HIDE DEF first, o
        <3> QED BY <1>2, <3>1, <3>2, ZenonT(60) DEF Session, Frame
    <2> HIDE DEF o
    <2>4. g = o
        BY <2>3 DEF GapEntered
    <2>5. u = [o EXCEPT !.speech_frame_count = 1, !.segment_frames = Append(<<>>, i),
                        !.last_speech_end = i + 1, !.silence_frame_count = 0]
        <3>1. u = [o EXCEPT !.speech_frame_count = o.speech_frame_count + 1,
                            !.segment_frames = Append(o.segment_frames, i),
                            !.last_speech_end = i + 1, !.silence_frame_count = 0]
            BY <2>3, <2>4 DEF Spoken
        <3>2. o.speech_frame_count + 1 = 1 /\ o.segment_frames = <<>>
            BY <2>3
        <3> HIDE DEF u
        <3> QED BY <3>1, <3>2
    <2> DEFINE s == Append(<<>>, i)
               e == i + 1
    <2>6. s \in Seq(Nat) /\ e \in Nat
        OBVIOUS
    <2>9. u = [o EXCEPT !.speech_frame_count = 1, !.segment_frames = s,
                        !.last_speech_end = e, !.silence_frame_count = 0]
        BY <2>5
    <2> HIDE DEF u, s, e
    <2>10. u \in Session
        BY <2>6, <2>8, <2>9 DEF Session, Frame
    <2>7. Opens(v, u, i) /\ u.pre_buffer = b
        BY <1>4, <2>3, <2>8, <2>9 DEF Session, Opens, NoGap, s, e
    <2> QED BY <1>3, <2>7, <2>10 DEF Speech, b
<1>5. CASE v.in_speech
    <2>1. w = [v EXCEPT !.pre_buffer = b]
        BY <1>1, <1>2, <1>5 DEF Session
    <2>2. o = w
        BY <1>1, <1>5, <2>1 DEF Opened, Session
    <2> HIDE DEF o
    <2>3. CASE v.silence_frame_count = 0
        <3>1. NoGap(v)
            BY <2>3 DEF NoGap, Tidy, Session
        <3>2. ~w.gap_active /\ w.silence_frame_count = 0
            BY <1>1, <2>1, <2>3, <3>1 DEF Session, NoGap
        <3>3. g = w
            BY <2>2, <3>2 DEF GapEntered
        <3> DEFINE s == Append(v.segment_frames, i)
                   c == v.speech_frame_count + 1
                   e == i + 1
        <3>4. s \in Seq(Nat) /\ c \in Nat /\ e \in Nat
            BY <1>1 DEF Session, Frame
        <3> HIDE DEF g
        <3>5. u = [w EXCEPT !.speech_frame_count = c,
                            !.segment_frames = s, !.last_speech_end = e,
                            !.silence_frame_count = 0]
            BY <1>1, <2>1, <3>2, <3>3 DEF Spoken, Session
        <3> HIDE DEF u, s, c, e
        <3>6. u \in Session
            BY <1>2, <3>4, <3>5, ZenonT(60) DEF Session, Frame
        <3>7. /\ Speaks(v, u, i) /\ u.pre_buffer = b
            BY <1>1, <1>5, <2>1, <2>3, <3>1, <3>5 DEF Session, Frame, Speaks, StaysOpen, NoGap, s, c, e
        <3> QED BY <1>3, <3>6, <3>7 DEF Speech, b
    <2>4. CASE v.silence_frame_count # 0
        <3>1. v.silence_frame_count > 0 /\ w.silence_frame_count = v.silence_frame_count
              /\ (w.gap_active <=> v.gap_active)
            BY <1>1, <2>1, <2>4 DEF Session
        <3>2. /\ g \in Session /\ g.gap_active /\ g.gap_base_silence = v.silence_frame_count
              /\ g.gap_speech = v.gap_speech /\ g.gap_buffer = v.gap_buffer
              /\ g = [w EXCEPT !.gap_active = TRUE,
                               !.gap_base_silence = v.silence_frame_count,
                               !.gap_speech = v.gap_speech, !.gap_buffer = v.gap_buffer]
            <4>1. CASE ~v.gap_active
                <5>1. v.gap_speech = 0 /\ v.gap_buffer = <<>>
                    BY <4>1 DEF Tidy
                <5>2. g = [w EXCEPT !.gap_active = TRUE,
                                    !.gap_base_silence = v.silence_frame_count,
                                    !.gap_speech = 0, !.gap_buffer = <<>>]
                    BY <2>2, <3>1, <4>1 DEF GapEntered
                <5> HIDE DEF g
                <5>3. <<>> \in Seq(Nat) /\ v.silence_frame_count \in Nat
                    BY <1>1 DEF Session
                <5>4. g \in Session
                    BY <1>2, <5>2, <5>3, ZenonT(60) DEF Session, Frame
                <5> QED BY <1>2, <5>1, <5>2, <5>4 DEF Session
            <4>2. CASE v.gap_active
                <5>1. g = w
                    BY <2>2, <3>1, <4>2 DEF GapEntered
                <5>2. v.gap_active = TRUE
                    BY <1>1, <4>2 DEF Session
                <5>3. v.gap_base_silence = v.silence_frame_count
                    BY <4>2 DEF Tidy
                <5>4. /\ w.gap_active = TRUE /\ w.gap_base_silence = v.silence_frame_count
                      /\ w.gap_speech = v.gap_speech /\ w.gap_buffer = v.gap_buffer
                    BY <1>1, <2>1, <5>2, <5>3 DEF Session
                <5> HIDE DEF g
                <5> QED BY <1>2, <5>1, <5>4 DEF Session
            <4> QED BY <4>1, <4>2
        <3> HIDE DEF g
        <3> DEFINE s == Append(v.gap_buffer, i)
                   n == v.gap_speech + 1
        <3>3. s \in Seq(Nat) /\ n \in Nat
            BY <1>1 DEF Session, Frame
        <3>5. u = [g EXCEPT !.gap_speech = n, !.gap_buffer = s]
            BY <3>2 DEF Spoken, Session
        <3> HIDE DEF u, s, n
        <3>6. u \in Session
            BY <3>2, <3>3, <3>5 DEF Session, Frame
        <3>7. OnProbation(v, u, i) /\ u.pre_buffer = b
            BY <1>1, <1>5, <2>1, <3>1, <3>2, <3>5 DEF Session, Frame, OnProbation, StaysOpen, s, n
        <3> QED BY <1>3, <3>6, <3>7 DEF Speech, b
    <2> QED BY <2>3, <2>4
<1> QED BY <1>4, <1>5, <1>1 DEF Session

\* A frame of silence settles what is on probation and lies behind it.
LEMMA SilenceCases ==
    ASSUME NEW v, Tidy(v), NEW i \in Nat
    PROVE  LET u == Advanced(v, i, FALSE)
           IN  /\ u \in Session /\ Silence(v, u, i)
               /\ u.pre_buffer = LastFrames(Append(v.pre_buffer, i), Pad)
<1> DEFINE b == LastFrames(Append(v.pre_buffer, i), Pad)
           w == Prerolled(v, i, FALSE)
           g == GapSettled(w, i)
           u == Silent(w, i)
<1>1. v \in Session
    BY DEF Tidy
<1>2. /\ w \in Session /\ b \in Seq(Nat) /\ w = [v EXCEPT !.pre_buffer = b]
    <2>1. /\ w \in Session /\ b \in Seq(Nat)
          /\ w = [v EXCEPT !.pre_buffer = b, !.pre_snapshot = v.pre_snapshot]
        BY <1>1, PrerollCase
    <2> HIDE DEF w, b
    <2>2. w = [v EXCEPT !.pre_buffer = b]
        BY <1>1, <2>1 DEF Session
    <2> QED BY <2>1, <2>2
<1>3. u = Advanced(v, i, FALSE)
    BY DEF Advanced
<1>4. /\ v.pre_snapshot \in Seq(Nat) /\ v.segment_frames \in Seq(Nat)
      /\ v.gap_buffer \in Seq(Nat) /\ v.silence_frame_count \in Nat
      /\ v.speech_frame_count \in Nat /\ v.gap_speech \in Nat
    BY <1>1 DEF Session, Frame
<1> HIDE DEF b, w
<1>5. CASE ~v.in_speech
    <2>1. u = w
        BY <1>1, <1>2, <1>5 DEF Silent, Session
    <2> HIDE DEF u
    <2>2. Quiet(v, u) /\ u.pre_buffer = b
        BY <1>1, <1>2, <1>5, <2>1 DEF Quiet, Session
    <2> QED BY <1>2, <1>3, <2>1, <2>2 DEF Silence, b
<1>6. CASE v.in_speech
    <2>1. /\ w.in_speech /\ (w.gap_active <=> v.gap_active)
          /\ w.gap_speech = v.gap_speech /\ w.gap_base_silence = v.gap_base_silence
          /\ w.segment_frames = v.segment_frames /\ w.gap_buffer = v.gap_buffer
          /\ w.speech_frame_count = v.speech_frame_count
          /\ w.silence_frame_count = v.silence_frame_count
          /\ w.pre_buffer = b /\ w.pre_snapshot = v.pre_snapshot
          /\ w.speech_start = v.speech_start /\ w.last_speech_end = v.last_speech_end
        BY <1>1, <1>2, <1>6 DEF Session
    <2>2. u = [g EXCEPT !.segment_frames = Append(@, i), !.silence_frame_count = @ + 1]
        BY <2>1 DEF Silent
    <2>3. v.gap_active => v.gap_speech > 0 /\ v.gap_base_silence = v.silence_frame_count
        <3>1. v.gap_buffer # <<>> => Len(v.gap_buffer) > 0
            BY <1>4
        <3> QED BY <3>1 DEF Tidy
    <2> HIDE DEF u
    <2>4. CASE ~v.gap_active
        <3>1. g = w
            BY <2>1, <2>4 DEF GapSettled
        <3> DEFINE s == Append(v.segment_frames, i)
                   q == v.silence_frame_count + 1
        <3>2. s \in Seq(Nat) /\ q \in Nat
            BY <1>4
        <3> HIDE DEF g
        <3>3. u = [w EXCEPT !.segment_frames = s, !.silence_frame_count = q]
            BY <1>2, <2>1, <2>2, <3>1 DEF Session
        <3>4. NoGap(v)
            BY <1>4, <2>4 DEF Tidy, NoGap
        <3> HIDE DEF s, q
        <3>5. u \in Session
            BY <1>2, <3>2, <3>3 DEF Session, Frame
        <3>6. Pauses(v, u, i) /\ u.pre_buffer = b
            BY <1>2, <1>6, <2>1, <2>4, <3>3, <3>4 DEF Session, Pauses, StaysOpen, NoGap, s, q
        <3> QED BY <1>3, <3>5, <3>6 DEF Silence, b
    <2>5. CASE v.gap_active /\ TooShort(v.gap_speech)
        <3>1. g = Merged(w)
            BY <2>1, <2>3, <2>5 DEF GapSettled
        <3> DEFINE s == Append(v.segment_frames, i)
                   q == v.silence_frame_count + v.gap_speech
                   r == v.silence_frame_count + v.gap_speech + 1
        <3>2. s \in Seq(Nat) /\ q \in Nat /\ r \in Nat /\ r = q + 1 /\ <<>> \in Seq(Nat)
            BY <1>4
        <3>3. g = [w EXCEPT !.silence_frame_count = q, !.gap_active = FALSE,
                            !.gap_speech = 0, !.gap_buffer = <<>>]
            BY <2>1, <2>3, <2>5, <3>1 DEF Merged
        <3> HIDE DEF g, s, q, r
        <3>4. g.segment_frames = v.segment_frames /\ g.silence_frame_count = q
            BY <1>2, <2>1, <3>3 DEF Session
        <3>5. u = [g EXCEPT !.segment_frames = s, !.silence_frame_count = r]
            BY <2>2, <3>2, <3>4 DEF s
        <3>6. g \in Session
            BY <1>2, <3>2, <3>3 DEF Session, Frame
        <3>7. u \in Session
            BY <3>2, <3>5, <3>6 DEF Session, Frame
        <3>8. Merges(v, u, i) /\ u.pre_buffer = b
            BY <1>2, <1>6, <2>1, <2>5, <3>3, <3>5, <3>6
               DEF Session, Merges, StaysOpen, NoGap, s, r
        <3> QED BY <1>3, <3>7, <3>8 DEF Silence, b
    <2>6. CASE v.gap_active /\ ~TooShort(v.gap_speech)
        <3>1. g = Kept(w, i)
            BY <2>1, <2>3, <2>6 DEF GapSettled
        <3> DEFINE joined == v.segment_frames \o v.gap_buffer
                   s == Append(joined, i)
                   c == v.speech_frame_count + v.gap_speech
        <3>2. joined \in Seq(Nat) /\ s \in Seq(Nat) /\ c \in Nat /\ <<>> \in Seq(Nat)
            BY <1>4
        <3>3. g = [w EXCEPT !.segment_frames = joined, !.speech_frame_count = c,
                            !.last_speech_end = i, !.gap_active = FALSE,
                            !.gap_base_silence = 0, !.silence_frame_count = 0,
                            !.gap_speech = 0, !.gap_buffer = <<>>]
            BY <2>1, <3>1 DEF Kept
        <3> HIDE DEF g, joined, c
        <3>4. g.segment_frames = joined /\ g.silence_frame_count = 0
            BY <1>2, <3>3 DEF Session
        <3>5. u = [g EXCEPT !.segment_frames = s, !.silence_frame_count = 1]
            BY <2>2, <3>4
        <3>6. g \in Session
            BY <1>2, <3>2, <3>3 DEF Session, Frame
        <3> HIDE DEF s
        <3>7. u \in Session
            BY <3>2, <3>5, <3>6 DEF Session, Frame
        <3>8. Keeps(v, u, i) /\ u.pre_buffer = b
            BY <1>2, <1>6, <2>1, <2>6, <3>3, <3>5, <3>6
               DEF Session, Keeps, StaysOpen, NoGap, s, c, joined
        <3> QED BY <1>3, <3>7, <3>8 DEF Silence, b
    <2> QED BY <2>4, <2>5, <2>6
<1> QED BY <1>5, <1>6

-----------------------------------------------------------------------------
(* The frames of an open segment *)

Hears(h, i) == i \in Nat /\ h \in Seq(BOOLEAN) /\ Len(h) = i

LEMMA HearsOn ==
    ASSUME NEW h, NEW i, Hears(h, i), NEW b \in BOOLEAN
    PROVE  LET later == Append(h, b)
           IN  /\ Hears(later, i + 1)
               /\ \A j \in 0 .. i - 1 : later[j + 1] = h[j + 1]
               /\ later[i + 1] = b
<1> DEFINE later == Append(h, b)
<1>1. i \in Nat /\ h \in Seq(BOOLEAN) /\ Len(h) = i
    BY DEF Hears
<1>2. /\ later \in Seq(BOOLEAN) /\ Len(later) = Len(h) + 1
      /\ \A k \in 1 .. Len(h) : later[k] = h[k]
      /\ later[Len(h) + 1] = b
    BY <1>1, AppendProperties
<1> HIDE DEF later
<1>3. \A j \in 0 .. i - 1 : later[j + 1] = h[j + 1]
    <2> SUFFICES ASSUME NEW j \in 0 .. i - 1 PROVE later[j + 1] = h[j + 1]
        OBVIOUS
    <2>1. j + 1 \in 1 .. Len(h)
        BY <1>1
    <2> QED BY <1>2, <2>1
<1>4. Hears(later, i + 1) /\ later[i + 1] = b
    BY <1>1, <1>2 DEF Hears
<1> QED BY <1>3, <1>4 DEF later

LEMMA HopOrder ==
    /\ \A m, n \in Nat : m <= n => m * Hop <= n * Hop
    /\ \A m, n \in Nat : m < n => m * Hop < n * Hop
    /\ \A m \in Nat : m * Hop \in Nat
    /\ \A m, n \in Nat : (m + n) * Hop = m * Hop + n * Hop
  BY HopAssumption

LEMMA ShortIsShort ==
    /\ TooShort(0)
    /\ \A m, n \in Nat : m <= n /\ TooShort(n) => TooShort(m)
<1>1. 0 * Hop = 0
    BY HopAssumption
<1>2. ASSUME NEW m \in Nat, NEW n \in Nat, m <= n, TooShort(n) PROVE TooShort(m)
    <2>1. m * Hop <= n * Hop /\ m * Hop \in Nat /\ n * Hop \in Nat
        BY <1>2, HopOrder
    <2> QED BY <1>2, <2>1, ThresholdsAssumption DEF TooShort
<1> QED BY <1>1, <1>2, ThresholdsAssumption DEF TooShort

\* Frames of a segment: they lead from `first' to `last', and what they leave
\* out are bursts of speech that were too short.
Track(S, h, first, last) ==
    /\ S \in Seq(Nat) /\ S # <<>>
    /\ first \in Nat /\ last \in Nat /\ S[1] = first /\ S[Len(S)] = last
    /\ \A k \in 1 .. Len(S) : first + k - 1 <= S[k] /\ S[k] <= last
    /\ \A k \in 1 .. Len(S) - 1 :
          /\ S[k] < S[k + 1]
          /\ TooShort(S[k + 1] - S[k] - 1)
          /\ \A j \in S[k] + 1 .. S[k + 1] - 1 : h[j + 1]

\* It goes on with any frame behind it but for a short burst.
LEMMA TrackAppend ==
    ASSUME NEW S, NEW h, NEW first, NEW last, Track(S, h, first, last),
           NEW j \in Nat, last < j, TooShort(j - last - 1),
           \A m \in last + 1 .. j - 1 : h[m + 1]
    PROVE  Track(Append(S, j), h, first, j)
<1> DEFINE n == Len(S)
           A == Append(S, j)
<1>1. /\ S \in Seq(Nat) /\ first \in Nat /\ last \in Nat /\ n \in Nat /\ n >= 1
      /\ S[1] = first /\ S[n] = last
      /\ \A k \in 1 .. n : S[k] \in Nat /\ first + k - 1 <= S[k] /\ S[k] <= last
    <2>1. S \in Seq(Nat) /\ S # <<>> /\ first \in Nat /\ last \in Nat
        BY DEF Track
    <2>2. n \in Nat /\ n >= 1 /\ \A k \in 1 .. n : S[k] \in Nat
        BY <2>1
    <2> QED BY <2>1, <2>2 DEF Track
<1>2. /\ A \in Seq(Nat) /\ A # <<>> /\ Len(A) = n + 1
      /\ \A k \in 1 .. n : A[k] = S[k]
      /\ A[n + 1] = j
    BY <1>1, AppendProperties
<1>3. \A k \in 1 .. n - 1 : /\ S[k] < S[k + 1] /\ TooShort(S[k + 1] - S[k] - 1)
                            /\ \A m \in S[k] + 1 .. S[k + 1] - 1 : h[m + 1]
    BY DEF Track
<1> HIDE DEF n, A
<1>4. \A k \in 1 .. n + 1 : first + k - 1 <= A[k] /\ A[k] <= j
    <2> SUFFICES ASSUME NEW k \in 1 .. n + 1 PROVE first + k - 1 <= A[k] /\ A[k] <= j
        OBVIOUS
    <2>1. CASE k \in 1 .. n
        <3>1. A[k] = S[k]
            BY <1>2, <2>1
        <3>2. S[k] \in Nat /\ first + k - 1 <= S[k] /\ S[k] <= last
            BY <1>1, <2>1
        <3>3. S[k] <= j
            BY <1>1, <3>2
        <3> QED BY <3>1, <3>2, <3>3
    <2>2. CASE k = n + 1
        <3>1. first + n - 1 <= last
            BY <1>1
        <3> QED BY <1>1, <1>2, <2>2, <3>1, SMTT(30)
    <2> QED BY <1>1, <2>1, <2>2
<1>5. ASSUME NEW k \in 1 .. n
      PROVE  /\ A[k] < A[k + 1] /\ TooShort(A[k + 1] - A[k] - 1)
             /\ \A m \in A[k] + 1 .. A[k + 1] - 1 : h[m + 1]
    <2>1. CASE k \in 1 .. n - 1
        <3>1. k + 1 \in 1 .. n
            BY <1>1, <2>1
        <3> QED BY <1>2, <1>3, <2>1, <3>1
    <2>2. CASE k = n
        <3>1. A[k] = last /\ A[k + 1] = j
            BY <1>1, <1>2, <2>2
        <3> QED BY <3>1
    <2> QED BY <1>1, <2>1, <2>2
<1>6. A[1] = first /\ A[n + 1] = j /\ n + 1 - 1 = n
    BY <1>1, <1>2
<1>7. Track(A, h, first, j)
    <2>1. A[Len(A)] = j /\ 1 .. Len(A) = 1 .. n + 1 /\ 1 .. Len(A) - 1 = 1 .. n
        BY <1>1, <1>2
    <2> QED BY <1>1, <1>2, <1>4, <1>5, <1>6, <2>1 DEF Track
<1> QED BY <1>7 DEF A

\* It goes on with the frames that follow.
LEMMA TrackConcat ==
    ASSUME NEW S, NEW h, NEW first, NEW last, Track(S, h, first, last),
           NEW G \in Seq(Nat), \A k \in 1 .. Len(G) : G[k] = last + k
    PROVE  Track(S \o G, h, first, last + Len(G))
<1> DEFINE n == Len(S)
           m == Len(G)
           A == S \o G
<1>1. /\ S \in Seq(Nat) /\ first \in Nat /\ last \in Nat /\ n \in Nat /\ n >= 1 /\ m \in Nat
      /\ S[1] = first /\ S[n] = last
      /\ \A k \in 1 .. n : S[k] \in Nat /\ first + k - 1 <= S[k] /\ S[k] <= last
    <2>1. S \in Seq(Nat) /\ S # <<>> /\ first \in Nat /\ last \in Nat
        BY DEF Track
    <2>2. n \in Nat /\ n >= 1 /\ m \in Nat /\ \A k \in 1 .. n : S[k] \in Nat
        BY <2>1
    <2> QED BY <2>1, <2>2 DEF Track
<1>2. /\ A \in Seq(Nat) /\ Len(A) = n + m
      /\ \A k \in 1 .. n + m : A[k] = IF k <= n THEN S[k] ELSE G[k - n]
    BY <1>1, ConcatProperties
<1>3. \A k \in 1 .. n - 1 : /\ S[k] < S[k + 1] /\ TooShort(S[k + 1] - S[k] - 1)
                            /\ \A j \in S[k] + 1 .. S[k + 1] - 1 : h[j + 1]
    BY DEF Track
<1>4. A # <<>>
    BY <1>1, <1>2
<1>0. \A k \in 1 .. m : G[k] = last + k
    OBVIOUS
<1> HIDE DEF n, m, A
<1>5. \A k \in 1 .. n : A[k] = S[k]
    <2> SUFFICES ASSUME NEW k \in 1 .. n PROVE A[k] = S[k]
        OBVIOUS
    <2>1. k \in 1 .. n + m /\ k <= n
        BY <1>1
    <2> QED BY <1>2, <2>1
<1>6. \A k \in n .. n + m : A[k] = last + (k - n)
    <2> SUFFICES ASSUME NEW k \in n .. n + m PROVE A[k] = last + (k - n)
        OBVIOUS
    <2>1. CASE k = n
        BY <1>1, <1>5, <2>1
    <2>2. CASE k > n
        <3>1. k - n \in 1 .. m /\ k \in 1 .. n + m /\ ~(k <= n)
            BY <1>1, <2>2
        <3> QED BY <1>0, <1>2, <3>1
    <2> QED BY <1>1, <2>1, <2>2
<1>7. \A k \in 1 .. n + m : first + k - 1 <= A[k] /\ A[k] <= last + m
    <2> SUFFICES ASSUME NEW k \in 1 .. n + m
                 PROVE  first + k - 1 <= A[k] /\ A[k] <= last + m
        OBVIOUS
    <2>1. CASE k \in 1 .. n
        <3>1. A[k] = S[k]
            BY <1>5, <2>1
        <3>2. S[k] \in Nat /\ first + k - 1 <= S[k] /\ S[k] <= last
            BY <1>1, <2>1
        <3>3. S[k] <= last + m
            BY <1>1, <3>2
        <3> QED BY <3>1, <3>2, <3>3
    <2>2. CASE k \in n .. n + m
        <3>1. first + n - 1 <= last
            BY <1>1
        <3> QED BY <1>1, <1>6, <2>2, <3>1
    <2> QED BY <1>1, <2>1, <2>2
<1>8. ASSUME NEW k \in 1 .. n + m - 1
      PROVE  /\ A[k] < A[k + 1] /\ TooShort(A[k + 1] - A[k] - 1)
             /\ \A j \in A[k] + 1 .. A[k + 1] - 1 : h[j + 1]
    <2>1. CASE k \in 1 .. n - 1
        <3>1. k + 1 \in 1 .. n /\ k \in 1 .. n
            BY <1>1, <2>1
        <3> QED BY <1>3, <1>5, <2>1, <3>1
    <2>2. CASE k \in n .. n + m - 1
        <3>1. A[k] = last + (k - n) /\ A[k + 1] = last + (k + 1 - n)
            <4>1. k \in n .. n + m /\ k + 1 \in n .. n + m
                BY <1>1, <2>2
            <4>2. A[k] = last + (k - n)
                BY <1>6, <4>1
            <4> DEFINE next == k + 1
            <4>3. next \in n .. n + m
                BY <4>1
            <4> HIDE DEF next
            <4>5. A[next] = last + (next - n)
                BY <1>6, <4>3
            <4> QED BY <1>1, <4>2, <4>5 DEF next
        <3>2. A[k] \in Nat /\ A[k + 1] = A[k] + 1
            BY <1>1, <2>2, <3>1
        <3>3. A[k + 1] - A[k] - 1 = 0 /\ A[k] + 1 .. A[k + 1] - 1 = {} /\ A[k] < A[k + 1]
            BY <3>2
        <3> QED BY <3>3, ShortIsShort
    <2> QED BY <1>1, <2>1, <2>2
<1>9. /\ A[1] = first /\ A[n + m] = last + m /\ last + m \in Nat
    <2>1. n + m \in n .. n + m /\ n + m - n = m /\ 1 \in 1 .. n
        BY <1>1
    <2> QED BY <1>1, <1>5, <1>6, <2>1, SMTT(30)
<1>10. Track(A, h, first, last + m)
    BY <1>1, <1>2, <1>4, <1>7, <1>8, <1>9 DEF Track
<1> QED BY <1>10 DEF A, m

\* What is heard later does not change it.
LEMMA TrackHeard ==
    ASSUME NEW S, NEW h, NEW first, NEW last, Track(S, h, first, last),
           NEW i, Hears(h, i), last < i, NEW b \in BOOLEAN
    PROVE  Track(S, Append(h, b), first, last)
<1> DEFINE later == Append(h, b)
<1>1. i \in Nat /\ \A j \in 0 .. i - 1 : later[j + 1] = h[j + 1]
    BY HearsOn DEF Hears
<1> HIDE DEF later
<1>2. S \in Seq(Nat) /\ last \in Nat /\ \A k \in 1 .. Len(S) : S[k] \in Nat /\ S[k] <= last
    BY DEF Track
<1>3. ASSUME NEW k \in 1 .. Len(S) - 1, NEW j \in S[k] + 1 .. S[k + 1] - 1
      PROVE  later[j + 1]
    <2>1. h[j + 1]
        BY <1>3 DEF Track
    <2>2. k \in 1 .. Len(S) /\ k + 1 \in 1 .. Len(S)
        BY <1>2
    <2>3. S[k] \in Nat /\ S[k + 1] \in Nat /\ S[k + 1] <= last
        BY <1>2, <2>2
    <2>4. j \in 0 .. i - 1
        BY <1>1, <1>2, <2>3, SMTT(30)
    <2> QED BY <1>1, <2>1, <2>4
<1>4. Track(S, later, first, last)
    BY <1>3 DEF Track
<1> QED BY <1>4 DEF later

-----------------------------------------------------------------------------
(* Counting speech *)

SpeechAt(h, frames) == {k \in DOMAIN frames : h[frames[k] + 1]}

LEMMA ImageBound ==
    ASSUME NEW f, NEW S, IsFiniteSet(S), NEW T, \A t \in T : \E s \in S : f[s] = t
    PROVE  IsFiniteSet(T) /\ Cardinality(T) <= Cardinality(S)
<1> DEFINE R == {s \in S : f[s] \in T}
           g == [s \in R |-> f[s]]
<1>1. IsFiniteSet(R) /\ Cardinality(R) <= Cardinality(S)
    BY FS_Subset
<1>2. g \in Surjection(R, T)
    BY DEF Surjection
<1>3. IsFiniteSet(T) /\ Cardinality(T) <= Cardinality(R)
    BY <1>1, <1>2, FS_Surjection
<1>4. Cardinality(R) \in Nat /\ Cardinality(S) \in Nat /\ Cardinality(T) \in Nat
    BY <1>1, <1>3, FS_CardinalityType
<1> QED BY <1>1, <1>3, <1>4

LEMMA InjectionBound ==
    ASSUME NEW S, NEW T, IsFiniteSet(T), NEW f \in [S -> T],
           \A x, y \in S : f[x] = f[y] => x = y
    PROVE  IsFiniteSet(S) /\ Cardinality(S) <= Cardinality(T)
<1>1. f \in Injection(S, T)
    BY DEF Injection, IsInjective
<1> QED BY <1>1, FS_Injection

LEMMA SpeechFinite ==
    ASSUME NEW h, NEW frames \in Seq(Nat)
    PROVE  /\ IsFiniteSet(SpeechAt(h, frames))
           /\ Cardinality(SpeechAt(h, frames)) \in Nat
           /\ Cardinality(SpeechAt(h, frames)) <= Len(frames)
<1> DEFINE n == Len(frames)
<1>1. n \in Nat /\ DOMAIN frames = 1 .. n
    OBVIOUS
<1> HIDE DEF n
<1>2. IsFiniteSet(1 .. n) /\ Cardinality(1 .. n) = n
    BY <1>1, FS_Interval
<1>3. SpeechAt(h, frames) \in SUBSET (1 .. n)
    BY <1>1 DEF SpeechAt
<1> QED BY <1>2, <1>3, FS_Subset, FS_CardinalityType DEF n

LEMMA CountAppend ==
    ASSUME NEW h, NEW frames \in Seq(Nat), NEW j \in Nat
    PROVE  Cardinality(SpeechAt(h, Append(frames, j))) =
               Cardinality(SpeechAt(h, frames)) + (IF h[j + 1] THEN 1 ELSE 0)
<1> DEFINE n == Len(frames)
           A == Append(frames, j)
<1>1. n \in Nat /\ DOMAIN frames = 1 .. n
    OBVIOUS
<1>2. /\ A \in Seq(Nat) /\ Len(A) = n + 1 /\ DOMAIN A = 1 .. n + 1
      /\ \A k \in 1 .. n : A[k] = frames[k]
      /\ A[n + 1] = j
    BY AppendProperties, LenProperties
<1> HIDE DEF n, A
<1>3. SpeechAt(h, A) = IF h[j + 1] THEN SpeechAt(h, frames) \cup {n + 1} ELSE SpeechAt(h, frames)
    <2>1. \A k \in 1 .. n + 1 : k \in 1 .. n \/ k = n + 1
        BY <1>1
    <2>2. \A k \in 1 .. n : k \in 1 .. n + 1 /\ k # n + 1
        BY <1>1
    <2>3. n + 1 \in 1 .. n + 1
        BY <1>1
    <2> QED BY <1>1, <1>2, <2>1, <2>2, <2>3 DEF SpeechAt
<1>4. n + 1 \notin SpeechAt(h, frames)
    BY <1>1 DEF SpeechAt
<1>5. IsFiniteSet(SpeechAt(h, frames)) /\ Cardinality(SpeechAt(h, frames)) \in Nat
    BY SpeechFinite
<1>6. Cardinality(SpeechAt(h, frames) \cup {n + 1}) = Cardinality(SpeechAt(h, frames)) + 1
    BY <1>4, <1>5, FS_AddElement
<1> QED BY <1>3, <1>5, <1>6 DEF A

LEMMA CountConcat ==
    ASSUME NEW h, NEW frames \in Seq(Nat), NEW G \in Seq(Nat),
           \A k \in 1 .. Len(G) : h[G[k] + 1]
    PROVE  Cardinality(SpeechAt(h, frames \o G)) =
               Cardinality(SpeechAt(h, frames)) + Len(G)
<1> DEFINE n == Len(frames)
           m == Len(G)
           A == frames \o G
           old == SpeechAt(h, frames)
           new == n + 1 .. n + m
<1>1. n \in Nat /\ m \in Nat /\ DOMAIN frames = 1 .. n
    OBVIOUS
<1>2. /\ A \in Seq(Nat) /\ DOMAIN A = 1 .. n + m
      /\ \A k \in 1 .. n + m : A[k] = IF k <= n THEN frames[k] ELSE G[k - n]
    BY ConcatProperties, LenProperties
<1>0. \A k \in 1 .. m : h[G[k] + 1]
    OBVIOUS
<1> HIDE DEF n, m, A
<1>3. SpeechAt(h, A) = old \cup new
    <2>1. ASSUME NEW k \in 1 .. n PROVE k \in 1 .. n + m /\ A[k] = frames[k]
        BY <1>1, <1>2
    <2>2. ASSUME NEW k \in new PROVE k \in 1 .. n + m /\ h[A[k] + 1]
        <3>1. k \in 1 .. n + m /\ ~(k <= n) /\ k - n \in 1 .. m
            BY <1>1
        <3>2. A[k] = G[k - n]
            BY <1>2, <3>1
        <3> QED BY <1>0, <3>1, <3>2
    <2>3. \A k \in 1 .. n + m : k \in 1 .. n \/ k \in new
        BY <1>1
    <2> QED BY <1>1, <1>2, <2>1, <2>2, <2>3 DEF SpeechAt
<1>4. old \cap new = {}
    BY <1>1 DEF SpeechAt
<1>5. IsFiniteSet(old) /\ Cardinality(old) \in Nat
    BY SpeechFinite
<1>6. IsFiniteSet(new) /\ Cardinality(new) = m
    <2>1. n + 1 \in Int /\ n + m \in Int
        BY <1>1
    <2> DEFINE a == n + 1
               c == n + m
    <2>2. a \in Int /\ c \in Int /\ new = a .. c
        BY <2>1
    <2> HIDE DEF a, c, new
    <2>3. IsFiniteSet(new) /\ Cardinality(new) = IF a > c THEN 0 ELSE c - a + 1
        BY <2>2, FS_Interval
    <2> QED BY <1>1, <2>3 DEF a, c
<1> HIDE DEF old, new
<1>7. Cardinality(old \cup new) = Cardinality(old) + m - 0
    BY <1>4, <1>5, <1>6, FS_Union, FS_EmptySet
<1> QED BY <1>1, <1>3, <1>5, <1>7 DEF A, old, m

\* Verdicts to come do not change the count.
LEMMA CountHeard ==
    ASSUME NEW h, NEW i, Hears(h, i), NEW b \in BOOLEAN, NEW frames \in Seq(Nat),
           \A k \in 1 .. Len(frames) : frames[k] < i
    PROVE  SpeechAt(Append(h, b), frames) = SpeechAt(h, frames)
<1>1. i \in Nat /\ \A j \in 0 .. i - 1 : Append(h, b)[j + 1] = h[j + 1]
    BY HearsOn DEF Hears
<1>2. \A k \in DOMAIN frames : frames[k] \in 0 .. i - 1
    BY <1>1
<1> QED BY <1>1, <1>2 DEF SpeechAt

-----------------------------------------------------------------------------
(* The open segment; `i' frames were heard, `h' are the verdicts on them *)

\* The pre-roll buffer holds the frames heard last.
Rolled(v, i) ==
    LET b == v.pre_buffer
    IN  /\ Len(b) <= Pad /\ Len(b) <= i
        /\ \A k \in 1 .. Len(b) : b[k] = i - Len(b) + k - 1

\* The frame that opened the segment.
First(v) == v.speech_start + Len(v.pre_snapshot)

\* The pre-roll leads up to the segment's frames, these up to the burst on
\* probation, and that up to the frame heard last.
Whole(v, h, i) ==
    v.in_speech =>
        /\ Len(v.pre_snapshot) <= Pad
        /\ \A k \in 1 .. Len(v.pre_snapshot) : v.pre_snapshot[k] = v.speech_start + k - 1
        /\ Track(v.segment_frames, h, First(v), i - 1 - Len(v.gap_buffer))
        /\ \A k \in 1 .. Len(v.gap_buffer) :
              /\ v.gap_buffer[k] = i - 1 - Len(v.gap_buffer) + k
              /\ h[v.gap_buffer[k] + 1]

\* What is counted as speech is the speech in the segment's frames.
Counted(v, h) == v.speech_frame_count = Cardinality(SpeechAt(h, v.segment_frames))

\* The end of the speech lies behind all speech the segment keeps, and before
\* the silence that is counted and the burst on probation.
EndKnown(v, h, i) ==
    v.in_speech =>
        /\ First(v) < v.last_speech_end
        /\ v.last_speech_end + v.silence_frame_count + Len(v.gap_buffer) <= i
        /\ \A k \in SpeechAt(h, v.segment_frames) : v.segment_frames[k] < v.last_speech_end

\* No silence yet: the frames follow each other and are speech.  Behind it the
\* last frame is silent.  A segment with too little speech has no silence but
\* the one that is counted.
Calm(v, h) ==
    v.in_speech =>
        /\ v.silence_frame_count = 0 =>
              \A k \in 1 .. Len(v.segment_frames) : v.segment_frames[k] = First(v) + k - 1
        /\ v.silence_frame_count > 0 => ~h[v.segment_frames[Len(v.segment_frames)] + 1]
        /\ TooShort(v.speech_frame_count) =>
              Len(v.segment_frames) <= v.speech_frame_count + v.silence_frame_count

SegmentInv(v, h, i) ==
    /\ Tidy(v) /\ Rolled(v, i) /\ Whole(v, h, i) /\ Counted(v, h)
    /\ EndKnown(v, h, i) /\ Calm(v, h)

LEMMA RolledStep ==
    ASSUME NEW i \in Nat, NEW v, Tidy(v), Rolled(v, i),
           NEW u, u.pre_buffer = LastFrames(Append(v.pre_buffer, i), Pad)
    PROVE  Rolled(u, i + 1)
<1> DEFINE b == v.pre_buffer
           A == Append(b, i)
           n == Len(b)
           c == u.pre_buffer
           m == Len(c)
<1>1. b \in Seq(Nat) /\ n \in Nat
    BY DEF Tidy, Session, Frame
<1>2. n <= Pad /\ n <= i /\ \A k \in 1 .. n : b[k] = i - n + k - 1
    BY DEF Rolled
<1>3. /\ A \in Seq(Nat) /\ Len(A) = n + 1
      /\ \A k \in 1 .. n : A[k] = b[k]
      /\ A[n + 1] = i
    BY <1>1, AppendProperties
<1>9. u.pre_buffer = LastFrames(A, Pad)
    OBVIOUS
<1> HIDE DEF n, b, A
<1>4. \A k \in 1 .. n + 1 : A[k] = i - n + k - 1
    <2> SUFFICES ASSUME NEW k \in 1 .. n + 1 PROVE A[k] = i - n + k - 1
        OBVIOUS
    <2>1. CASE k \in 1 .. n
        BY <1>2, <1>3, <2>1
    <2>2. CASE k = n + 1
        BY <1>1, <1>3, <2>2
    <2> QED BY <1>1, <2>1, <2>2
<1>5. /\ c \in Seq(Nat)
      /\ m = IF Len(A) > Pad THEN Pad ELSE Len(A)
      /\ \A k \in 1 .. m : c[k] = A[Len(A) - m + k]
    <2>1. c = LastFrames(A, Pad)
        BY <1>9
    <2> HIDE DEF c
    <2> QED BY <1>3, <2>1, LastFramesType
<1> HIDE DEF m, c
<1>6. m \in Nat /\ m <= Pad /\ m <= n + 1 /\ m <= i + 1
    BY <1>1, <1>2, <1>3, <1>5, PadAssumption
<1>7. ASSUME NEW k \in 1 .. m PROVE c[k] = (i + 1) - m + k - 1
    <2>1. n + 1 - m + k \in 1 .. n + 1
        BY <1>1, <1>6
    <2>2. c[k] = A[n + 1 - m + k]
        <3>1. c[k] = A[Len(A) - m + k]
            BY <1>5
        <3> QED BY <1>1, <1>3, <1>6, <3>1
    <2>3. A[n + 1 - m + k] = i - n + (n + 1 - m + k) - 1
        BY <1>4, <2>1
    <2> QED BY <1>1, <1>6, <2>2, <2>3
<1> QED BY <1>6, <1>7 DEF Rolled, m, c

LEMMA TidyStep ==
    ASSUME NEW i \in Nat, NEW v, Tidy(v), NEW u \in Session,
           Speech(v, u, i) \/ Silence(v, u, i)
    PROVE  Tidy(u)
<1>1. /\ v.gap_buffer \in Seq(Nat) /\ v.silence_frame_count \in Nat /\ v.gap_speech \in Nat
      /\ v.gap_speech = Len(v.gap_buffer)
    BY DEF Tidy, Session, Frame
<1>2. CASE Opens(v, u, i) \/ Speaks(v, u, i)
    BY <1>2 DEF Opens, Speaks, StaysOpen, NoGap, Tidy
<1>3. CASE OnProbation(v, u, i)
    <2>1. Len(Append(v.gap_buffer, i)) = Len(v.gap_buffer) + 1 /\ Append(v.gap_buffer, i) # <<>>
        BY <1>1, AppendProperties
    <2> QED BY <1>1, <1>3, <2>1 DEF OnProbation, StaysOpen, Tidy
<1>4. CASE Pauses(v, u, i) \/ Merges(v, u, i) \/ Keeps(v, u, i)
    BY <1>4 DEF Pauses, Merges, Keeps, StaysOpen, NoGap, Tidy
<1>5. CASE Quiet(v, u)
    BY <1>5 DEF Quiet, Tidy, Session
<1> QED BY <1>2, <1>3, <1>4, <1>5 DEF Speech, Silence

\* What counts as speech when the frame heard last is added.
CountsOn(h, i, b, frames) ==
    LET later == Append(h, b)
        longer == Append(frames, i)
    IN  /\ \A k \in SpeechAt(later, longer) :
              \/ k \in SpeechAt(h, frames) /\ longer[k] = frames[k]
              \/ b /\ k = Len(frames) + 1 /\ longer[k] = i
        /\ Cardinality(SpeechAt(later, longer)) =
              Cardinality(SpeechAt(h, frames)) + (IF b THEN 1 ELSE 0)

LEMMA SpeechAppend ==
    ASSUME NEW h, NEW i, Hears(h, i), NEW b \in BOOLEAN, NEW frames \in Seq(Nat),
           \A k \in 1 .. Len(frames) : frames[k] < i
    PROVE  CountsOn(h, i, b, frames)
<1> DEFINE later == Append(h, b)
           longer == Append(frames, i)
           n == Len(frames)
<1>1. i \in Nat /\ later[i + 1] = b
    BY HearsOn DEF Hears
<1>2. SpeechAt(later, frames) = SpeechAt(h, frames)
    BY CountHeard
<1>3. n \in Nat /\ DOMAIN frames = 1 .. n
    OBVIOUS
<1>4. /\ longer \in Seq(Nat) /\ DOMAIN longer = 1 .. n + 1
      /\ \A k \in 1 .. n : longer[k] = frames[k]
      /\ longer[n + 1] = i
    BY <1>1, AppendProperties, LenProperties
<1>5. Cardinality(SpeechAt(later, longer)) =
          Cardinality(SpeechAt(later, frames)) + (IF later[i + 1] THEN 1 ELSE 0)
    BY <1>1, CountAppend
<1> HIDE DEF later, longer, n
<1>6. ASSUME NEW k \in SpeechAt(later, longer)
      PROVE  \/ k \in SpeechAt(h, frames) /\ longer[k] = frames[k]
             \/ b /\ k = n + 1 /\ longer[k] = i
    <2>1. k \in 1 .. n + 1 /\ later[longer[k] + 1]
        BY <1>4 DEF SpeechAt
    <2>2. CASE k \in 1 .. n
        <3>1. k \in SpeechAt(later, frames)
            BY <1>3, <1>4, <2>1, <2>2 DEF SpeechAt
        <3> QED BY <1>2, <1>4, <2>2, <3>1
    <2>3. CASE k = n + 1
        BY <1>1, <1>4, <2>1, <2>3
    <2> QED BY <1>3, <2>1, <2>2, <2>3
<1>7. Cardinality(SpeechAt(later, longer)) =
          Cardinality(SpeechAt(h, frames)) + (IF b THEN 1 ELSE 0)
    BY <1>1, <1>2, <1>5
<1> QED BY <1>6, <1>7 DEF CountsOn, later, longer, n

LEMMA TrackOne ==
    ASSUME NEW h, NEW i \in Nat
    PROVE  Track(Append(<<>>, i), h, i, i)
<1> DEFINE S == Append(<<>>, i)
<1>1. S \in Seq(Nat) /\ Len(S) = 1 /\ S[1] = i /\ S # <<>>
    OBVIOUS
<1> HIDE DEF S
<1>2. Track(S, h, i, i)
    BY <1>1 DEF Track
<1> QED BY <1>2 DEF S

\* The numbers that describe an open segment.
LEMMA OpenFacts ==
    ASSUME NEW v, NEW h, NEW i, Hears(h, i), Tidy(v), Whole(v, h, i), v.in_speech
    PROVE  LET S == v.segment_frames
               G == v.gap_buffer
               last == i - 1 - Len(G)
           IN  /\ i \in Nat /\ S \in Seq(Nat) /\ G \in Seq(Nat)
               /\ v.pre_snapshot \in Seq(Nat) /\ Len(v.pre_snapshot) \in Nat
               /\ Len(v.pre_snapshot) <= Pad /\ Pad \in Nat
               /\ v.speech_start \in Nat /\ First(v) \in Nat
               /\ Len(S) \in Nat /\ Len(S) >= 1 /\ Len(G) \in Nat
               /\ last \in Nat /\ last < i /\ First(v) <= last
               /\ First(v) + Len(S) - 1 <= last
               /\ \A k \in 1 .. Len(S) :
                     S[k] \in Nat /\ First(v) + k - 1 <= S[k] /\ S[k] <= last
               /\ S[1] = First(v) /\ S[Len(S)] = last
               /\ \A k \in 1 .. Len(G) : G[k] = last + k /\ h[G[k] + 1]
               /\ Track(S, h, First(v), last)
               /\ v.speech_frame_count \in Nat /\ v.silence_frame_count \in Nat
               /\ v.last_speech_end \in Nat /\ v.gap_speech = Len(G)
<1> DEFINE S == v.segment_frames
           G == v.gap_buffer
           last == i - 1 - Len(G)
           f == First(v)
<1>1. /\ i \in Nat /\ S \in Seq(Nat) /\ G \in Seq(Nat) /\ v.pre_snapshot \in Seq(Nat)
      /\ v.speech_start \in Nat /\ Pad \in Nat
      /\ v.speech_frame_count \in Nat /\ v.silence_frame_count \in Nat
      /\ v.last_speech_end \in Nat /\ v.gap_speech = Len(G)
    BY PadAssumption DEF Hears, Tidy, Session, Frame
<1>2. Len(S) \in Nat /\ Len(G) \in Nat /\ Len(v.pre_snapshot) \in Nat
    BY <1>1
<1>3. /\ Len(v.pre_snapshot) <= Pad /\ Track(S, h, f, last)
      /\ \A k \in 1 .. Len(G) : G[k] = last + k /\ h[G[k] + 1]
    BY DEF Whole
<1> HIDE DEF S, G, last
<1>4. /\ S # <<>> /\ f \in Nat /\ last \in Nat /\ S[1] = f /\ S[Len(S)] = last
      /\ \A k \in 1 .. Len(S) : f + k - 1 <= S[k] /\ S[k] <= last
    BY <1>3 DEF Track
<1>5. Len(S) >= 1 /\ \A k \in 1 .. Len(S) : S[k] \in Nat
    BY <1>1, <1>4
<1>6. f <= last /\ f + Len(S) - 1 <= last
    <2>1. 1 \in 1 .. Len(S) /\ Len(S) \in 1 .. Len(S)
        BY <1>2, <1>5
    <2>2. f <= last
        BY <1>4, <2>1
    <2>3. f + Len(S) - 1 <= S[Len(S)]
        BY <1>4, <2>1
    <2> QED BY <1>4, <2>2, <2>3
<1>7. last < i
    BY <1>1, <1>2 DEF last
<1> QED BY <1>1, <1>2, <1>3, <1>4, <1>5, <1>6, <1>7 DEF S, G, last

Parts(u, h, i) == Whole(u, h, i) /\ Counted(u, h) /\ EndKnown(u, h, i) /\ Calm(u, h)

LEMMA OpensStep ==
    ASSUME NEW v, NEW h, NEW i, Hears(h, i), Tidy(v), Rolled(v, i),
           NEW u, Opens(v, u, i)
    PROVE  Parts(u, Append(h, TRUE), i + 1)
<1> DEFINE later == Append(h, TRUE)
           b == v.pre_buffer
<1>1. i \in Nat /\ later[i + 1] = TRUE
    BY HearsOn DEF Hears
<1>2. b \in Seq(Nat) /\ Len(b) \in Nat /\ Len(b) <= i /\ Len(b) <= Pad
      /\ \A k \in 1 .. Len(b) : b[k] = i - Len(b) + k - 1
    BY DEF Tidy, Session, Frame, Rolled
<1> HIDE DEF later
<1>3. /\ u.in_speech /\ u.pre_snapshot = b /\ u.speech_start = i - Len(b)
      /\ u.segment_frames = Append(<<>>, i) /\ u.gap_buffer = <<>>
      /\ u.speech_frame_count = 1 /\ u.silence_frame_count = 0 /\ u.last_speech_end = i + 1
    BY DEF Opens, NoGap
<1> HIDE DEF b
<1>4. First(u) = i
    BY <1>1, <1>2, <1>3 DEF First
<1>5. Len(u.gap_buffer) = 0 /\ (i + 1) - 1 - 0 = i
    BY <1>1, <1>3
<1>6. Whole(u, later, i + 1)
    <2>1. Track(u.segment_frames, later, First(u), (i + 1) - 1 - Len(u.gap_buffer))
        BY <1>1, <1>3, <1>4, <1>5, TrackOne
    <2>2. /\ Len(u.pre_snapshot) <= Pad
          /\ \A k \in 1 .. Len(u.pre_snapshot) : u.pre_snapshot[k] = u.speech_start + k - 1
        <3>1. \A k \in 1 .. Len(b) : b[k] = i - Len(b) + k - 1
            BY <1>2
        <3> QED BY <1>2, <1>3, <3>1
    <2>3. \A k \in 1 .. Len(u.gap_buffer) : FALSE
        BY <1>5
    <2> QED BY <2>1, <2>2, <2>3 DEF Whole
<1>7. /\ Len(u.segment_frames) = 1 /\ u.segment_frames[1] = i
      /\ DOMAIN u.segment_frames = 1 .. 1
    BY <1>1, <1>3
<1>8. SpeechAt(later, u.segment_frames) = {1}
    BY <1>1, <1>7 DEF SpeechAt
<1>9. Counted(u, later)
    BY <1>3, <1>8, FS_Singleton DEF Counted
<1>10. EndKnown(u, later, i + 1)
    BY <1>1, <1>3, <1>4, <1>5, <1>7, <1>8 DEF EndKnown
<1>11. Calm(u, later)
    BY <1>1, <1>3, <1>4, <1>7 DEF Calm
<1> QED BY <1>6, <1>9, <1>10, <1>11 DEF later, Parts

\* A frame joins the segment behind the frames `base', with nothing on probation.
Joins(v, u, h, i, b, base, last) ==
    /\ StaysOpen(v, u) /\ NoGap(u) /\ u.segment_frames = Append(base, i)
    /\ Track(base, h, First(v), last) /\ last < i
    /\ TooShort(i - last - 1) /\ \A m \in last + 1 .. i - 1 : h[m + 1]
    /\ u.speech_frame_count = Cardinality(SpeechAt(h, base)) + (IF b THEN 1 ELSE 0)
    /\ First(v) < u.last_speech_end
    /\ u.last_speech_end + u.silence_frame_count <= i + 1
    /\ \A k \in SpeechAt(h, base) : base[k] < u.last_speech_end
    /\ b => i < u.last_speech_end

Joined(v, u, h, i, b, base) ==
    LET later == Append(h, b)
    IN  /\ Whole(u, later, i + 1) /\ Counted(u, later) /\ EndKnown(u, later, i + 1)
        /\ First(u) = First(v) /\ later[i + 1] = b
        /\ \A k \in 1 .. Len(base) : u.segment_frames[k] = base[k]
        /\ Len(u.segment_frames) = Len(base) + 1
        /\ u.segment_frames[Len(base) + 1] = i

LEMMA JoinStep ==
    ASSUME NEW v, NEW h, NEW i, Hears(h, i), Whole(v, h, i), NEW b \in BOOLEAN,
           NEW base, NEW last, NEW u \in Session, Joins(v, u, h, i, b, base, last)
    PROVE  Joined(v, u, h, i, b, base)
<1> DEFINE later == Append(h, b)
<1>1. /\ i \in Nat /\ last \in Nat /\ base \in Seq(Nat) /\ Len(base) \in Nat
      /\ \A k \in 1 .. Len(base) : base[k] < i
    <2>1. i \in Nat /\ last \in Nat /\ base \in Seq(Nat) /\ last < i
        BY DEF Hears, Track, Joins
    <2>2. \A k \in 1 .. Len(base) : base[k] \in Nat /\ base[k] <= last
        BY <2>1, SMTT(30) DEF Track, Joins
    <2> QED BY <2>1, <2>2
<1>2. later[i + 1] = b /\ \A j \in 0 .. i - 1 : later[j + 1] = h[j + 1]
    BY HearsOn DEF Hears
<1>3. First(u) = First(v) /\ u.in_speech /\ u.gap_buffer = <<>>
      /\ v.in_speech /\ u.segment_frames = Append(base, i)
    BY DEF First, StaysOpen, NoGap, Joins
<1>4. Len(u.gap_buffer) = 0 /\ (i + 1) - 1 - 0 = i
    BY <1>1, <1>3
<1>5. Track(base, later, First(v), last)
    BY TrackHeard DEF Joins
<1>6. \A m \in last + 1 .. i - 1 : later[m + 1]
    <2>2. \A m \in last + 1 .. i - 1 : m \in 0 .. i - 1
        BY <1>1
    <2>3. \A m \in last + 1 .. i - 1 : h[m + 1]
        BY DEF Joins
    <2> QED BY <1>2, <2>2, <2>3
<1> HIDE DEF later
<1>7. Track(Append(base, i), later, First(v), i)
    <2>1. last < i /\ TooShort(i - last - 1)
        BY DEF Joins
    <2> QED BY <1>1, <1>5, <1>6, <2>1, TrackAppend
<1>8. Whole(u, later, i + 1)
    <2>1. Track(u.segment_frames, later, First(u), (i + 1) - 1 - Len(u.gap_buffer))
        BY <1>3, <1>4, <1>7
    <2>2. /\ Len(u.pre_snapshot) <= Pad
          /\ \A k \in 1 .. Len(u.pre_snapshot) : u.pre_snapshot[k] = u.speech_start + k - 1
        BY DEF Whole, StaysOpen, Joins
    <2>3. \A k \in 1 .. Len(u.gap_buffer) : FALSE
        BY <1>4
    <2> QED BY <2>1, <2>2, <2>3 DEF Whole
<1>9. /\ \A k \in SpeechAt(later, u.segment_frames) :
            \/ k \in SpeechAt(h, base) /\ u.segment_frames[k] = base[k]
            \/ b /\ u.segment_frames[k] = i
      /\ Cardinality(SpeechAt(later, u.segment_frames)) =
            Cardinality(SpeechAt(h, base)) + (IF b THEN 1 ELSE 0)
    <2>1. CountsOn(h, i, b, base)
        BY <1>1, SpeechAppend
    <2> QED BY <1>3, <2>1 DEF CountsOn, later
<1>10. Counted(u, later)
    BY <1>9 DEF Counted, Joins
<1>11. EndKnown(u, later, i + 1)
    <2>1. \A k \in SpeechAt(later, u.segment_frames) : u.segment_frames[k] < u.last_speech_end
        BY <1>9 DEF Joins
    <2>2. u.last_speech_end + u.silence_frame_count + Len(u.gap_buffer) <= i + 1
        <3>1. u.last_speech_end \in Nat /\ u.silence_frame_count \in Nat
            BY DEF Session
        <3>2. u.last_speech_end + u.silence_frame_count <= i + 1
            BY DEF Joins
        <3> QED BY <1>4, <3>1, <3>2
    <2>3. First(u) < u.last_speech_end
        BY <1>3 DEF Joins
    <2> QED BY <2>1, <2>2, <2>3 DEF EndKnown
<1>12. /\ \A k \in 1 .. Len(base) : u.segment_frames[k] = base[k]
       /\ Len(u.segment_frames) = Len(base) + 1
       /\ u.segment_frames[Len(base) + 1] = i
    BY <1>1, <1>3, AppendProperties
<1> QED BY <1>2, <1>3, <1>8, <1>10, <1>11, <1>12 DEF Joined, later

LEMMA SpeaksStep ==
    ASSUME NEW v, NEW h, NEW i, Hears(h, i), SegmentInv(v, h, i),
           NEW u \in Session, Speaks(v, u, i)
    PROVE  Parts(u, Append(h, TRUE), i + 1)
<1> DEFINE later == Append(h, TRUE)
           S == v.segment_frames
           n == Len(S)
           f == First(v)
<1>1. /\ Tidy(v) /\ Whole(v, h, i) /\ v.in_speech /\ StaysOpen(v, u) /\ NoGap(v) /\ NoGap(u)
      /\ v.silence_frame_count = 0 /\ u.silence_frame_count = 0
      /\ u.segment_frames = Append(S, i)
      /\ u.speech_frame_count = v.speech_frame_count + 1 /\ u.last_speech_end = i + 1
    BY DEF SegmentInv, Speaks, StaysOpen
<1>2. Len(v.gap_buffer) = 0
    BY <1>1 DEF NoGap
<1>3. /\ i \in Nat /\ i - 1 \in Nat /\ S \in Seq(Nat) /\ n \in Nat /\ n >= 1
      /\ f \in Nat /\ f <= i - 1 /\ Track(S, h, f, i - 1)
      /\ S[n] = i - 1 /\ v.speech_frame_count \in Nat
      /\ \A k \in 1 .. n : S[k] \in Nat /\ S[k] <= i - 1
    <2>1. i - 1 - 0 = i - 1
        BY DEF Hears
    <2> QED BY <1>1, <1>2, <2>1, OpenFacts
<1>4. v.speech_frame_count = Cardinality(SpeechAt(h, S))
    BY DEF SegmentInv, Counted
<1>5. \A k \in SpeechAt(h, S) : S[k] < u.last_speech_end
    <2>1. \A k \in SpeechAt(h, S) : k \in 1 .. n
        BY <1>3 DEF SpeechAt
    <2> QED BY <1>1, <1>3, <2>1, SMTT(30)
<1>6. /\ i - 1 < i /\ i - (i - 1) - 1 = 0 /\ (i - 1) + 1 .. i - 1 = {}
      /\ f < u.last_speech_end /\ i < u.last_speech_end
      /\ u.last_speech_end + u.silence_frame_count <= i + 1
    BY <1>1, <1>3
<1>8. TooShort(i - (i - 1) - 1) /\ \A m \in (i - 1) + 1 .. i - 1 : h[m + 1]
    BY <1>6, ShortIsShort
<1>9. u.speech_frame_count = Cardinality(SpeechAt(h, S)) + (IF TRUE THEN 1 ELSE 0)
    BY <1>1, <1>4
<1>14. Joins(v, u, h, i, TRUE, S, i - 1)
    BY <1>1, <1>3, <1>5, <1>6, <1>8, <1>9 DEF Joins
<1>15. Joined(v, u, h, i, TRUE, S)
    <2>1. TRUE \in BOOLEAN
        OBVIOUS
    <2> HIDE DEF S
    <2> QED BY <1>1, <1>14, <2>1, JoinStep
<1> HIDE DEF S, n, f, later
<1>7. /\ Whole(u, later, i + 1) /\ Counted(u, later) /\ EndKnown(u, later, i + 1)
      /\ First(u) = f
      /\ \A k \in 1 .. n : u.segment_frames[k] = S[k]
      /\ Len(u.segment_frames) = n + 1 /\ u.segment_frames[n + 1] = i
    BY <1>15 DEF Joined, n, f, later
<1>10. \A k \in 1 .. n : S[k] = f + k - 1
    BY <1>1 DEF SegmentInv, Calm, S, n, f
<1>11. \A k \in 1 .. Len(u.segment_frames) : u.segment_frames[k] = f + k - 1
    <2> SUFFICES ASSUME NEW k \in 1 .. n + 1 PROVE u.segment_frames[k] = f + k - 1
        BY <1>7
    <2>1. CASE k \in 1 .. n
        BY <1>7, <1>10, <2>1
    <2>2. CASE k = n + 1
        <3>1. S[n] = f + n - 1
            BY <1>3, <1>10
        <3>2. i = f + n
            BY <1>3, <3>1
        <3>3. u.segment_frames[k] = i /\ f + k - 1 = f + n
            BY <1>3, <1>7, <2>2
        <3> QED BY <3>2, <3>3
    <2> QED BY <1>3, <2>1, <2>2
<1>12. ASSUME TooShort(u.speech_frame_count)
       PROVE  Len(u.segment_frames) <= u.speech_frame_count + u.silence_frame_count
    <2>1. TooShort(v.speech_frame_count)
        BY <1>1, <1>3, <1>12, ShortIsShort
    <2>2. n <= v.speech_frame_count + 0
        BY <1>1, <2>1 DEF SegmentInv, Calm, S, n
    <2> QED BY <1>1, <1>3, <1>7, <2>2
<1>13. Calm(u, later)
    BY <1>1, <1>7, <1>11, <1>12 DEF Calm
<1> QED BY <1>7, <1>13 DEF Parts, later

LEMMA ProbationStep ==
    ASSUME NEW v, NEW h, NEW i, Hears(h, i), SegmentInv(v, h, i),
           NEW u \in Session, OnProbation(v, u, i)
    PROVE  Parts(u, Append(h, TRUE), i + 1)
<1> DEFINE later == Append(h, TRUE)
           S == v.segment_frames
           G == v.gap_buffer
           m == Len(G)
           last == i - 1 - m
           f == First(v)
<1>1. /\ Tidy(v) /\ Whole(v, h, i) /\ v.in_speech /\ StaysOpen(v, u) /\ u.in_speech
      /\ v.silence_frame_count > 0 /\ u.silence_frame_count = v.silence_frame_count
      /\ u.segment_frames = S /\ u.speech_frame_count = v.speech_frame_count
      /\ u.last_speech_end = v.last_speech_end /\ u.gap_buffer = Append(G, i)
    BY DEF SegmentInv, OnProbation, StaysOpen
<1>2. /\ i \in Nat /\ S \in Seq(Nat) /\ G \in Seq(Nat) /\ m \in Nat /\ last \in Nat /\ last < i
      /\ Len(S) \in Nat /\ Len(S) >= 1 /\ Track(S, h, f, last)
      /\ \A k \in 1 .. Len(S) : S[k] \in Nat /\ S[k] <= last
      /\ S[Len(S)] = last
      /\ \A k \in 1 .. m : G[k] = last + k /\ h[G[k] + 1]
      /\ v.last_speech_end \in Nat /\ v.silence_frame_count \in Nat
    BY <1>1, OpenFacts, SMTT(30)
<1>3. later[i + 1] /\ \A j \in 0 .. i - 1 : later[j + 1] = h[j + 1]
    BY HearsOn DEF Hears
<1>4. First(u) = f /\ u.pre_snapshot = v.pre_snapshot /\ u.speech_start = v.speech_start
    BY <1>1 DEF First, StaysOpen
<1>5. Track(S, later, f, last)
    BY <1>2, TrackHeard
<1>6. SpeechAt(later, S) = SpeechAt(h, S)
    <2> HIDE DEF S, last
    <2>1. ASSUME NEW k \in 1 .. Len(S) PROVE S[k] < i
        <3>1. S[k] \in Nat /\ S[k] <= last
            BY <1>2
        <3> QED BY <1>2, <3>1
    <2> QED BY <1>2, <2>1, CountHeard
<1>7. /\ Len(u.gap_buffer) = m + 1 /\ (i + 1) - 1 - (m + 1) = last
      /\ \A k \in 1 .. m : u.gap_buffer[k] = G[k]
      /\ u.gap_buffer[m + 1] = i
    BY <1>1, <1>2, AppendProperties
<1>12. last + (m + 1) = i
    BY <1>2
<1> HIDE DEF later, S, G, m, last, f
<1>8. \A k \in 1 .. m + 1 : u.gap_buffer[k] = last + k /\ later[u.gap_buffer[k] + 1]
    <2> SUFFICES ASSUME NEW k \in 1 .. m + 1
                 PROVE  u.gap_buffer[k] = last + k /\ later[u.gap_buffer[k] + 1]
        OBVIOUS
    <2>1. CASE k \in 1 .. m
        <3>1. u.gap_buffer[k] = G[k] /\ G[k] = last + k /\ h[G[k] + 1]
            BY <1>2, <1>7, <2>1
        <3>2. last + k \in 0 .. i - 1
            BY <1>2, <1>12, <2>1
        <3>3. later[(last + k) + 1] = h[(last + k) + 1]
            BY <1>3, <3>2
        <3> QED BY <3>1, <3>3
    <2>2. CASE k = m + 1
        BY <1>3, <1>7, <1>12, <2>2
    <2> QED BY <1>2, <2>1, <2>2
<1>9. Whole(u, later, i + 1)
    <2>1. Track(u.segment_frames, later, First(u), (i + 1) - 1 - Len(u.gap_buffer))
        BY <1>1, <1>4, <1>5, <1>7
    <2>2. /\ Len(u.pre_snapshot) <= Pad
          /\ \A k \in 1 .. Len(u.pre_snapshot) : u.pre_snapshot[k] = u.speech_start + k - 1
        BY <1>1, <1>4 DEF Whole
    <2>3. \A k \in 1 .. Len(u.gap_buffer) :
             /\ u.gap_buffer[k] = (i + 1) - 1 - Len(u.gap_buffer) + k
             /\ later[u.gap_buffer[k] + 1]
        BY <1>7, <1>8
    <2> QED BY <2>1, <2>2, <2>3 DEF Whole
<1>10. Counted(u, later) /\ EndKnown(u, later, i + 1)
    <2>1. v.speech_frame_count = Cardinality(SpeechAt(h, S))
        BY DEF SegmentInv, Counted, S
    <2>2. /\ f < v.last_speech_end
          /\ v.last_speech_end + v.silence_frame_count + m <= i
          /\ \A k \in SpeechAt(h, S) : S[k] < v.last_speech_end
        BY <1>1 DEF SegmentInv, EndKnown, S, m, G, f
    <2>3. v.last_speech_end + v.silence_frame_count + (m + 1) <= i + 1
        BY <1>2, <2>2
    <2> QED BY <1>1, <1>4, <1>6, <1>7, <2>1, <2>2, <2>3 DEF Counted, EndKnown
<1>11. Calm(u, later)
    <2>1. ~h[S[Len(S)] + 1]
        BY <1>1 DEF SegmentInv, Calm, S
    <2>2. last \in 0 .. i - 1
        BY <1>2
    <2>3. later[last + 1] = h[last + 1]
        BY <1>3, <2>2
    <2>4. ~later[S[Len(S)] + 1]
        BY <1>2, <2>1, <2>3
    <2>5. TooShort(v.speech_frame_count) =>
             Len(S) <= v.speech_frame_count + v.silence_frame_count
        BY <1>1 DEF SegmentInv, Calm, S
    <2> QED BY <1>1, <2>4, <2>5 DEF Calm
<1> QED BY <1>9, <1>10, <1>11 DEF Parts, later

\* A frame of silence joins the segment; there is no more silence in it than
\* is counted, unless it has enough speech.
LEMMA SilentStep ==
    ASSUME NEW v, NEW h, NEW i, Hears(h, i), Whole(v, h, i),
           NEW base, NEW last, NEW u \in Session, Joins(v, u, h, i, FALSE, base, last),
           u.silence_frame_count > 0,
           TooShort(u.speech_frame_count) =>
               Len(base) + 1 <= u.speech_frame_count + u.silence_frame_count
    PROVE  Parts(u, Append(h, FALSE), i + 1)
<1> DEFINE later == Append(h, FALSE)
<1>1. Joined(v, u, h, i, FALSE, base)
    <2>1. FALSE \in BOOLEAN
        OBVIOUS
    <2> QED BY <2>1, JoinStep
<1>2. /\ Whole(u, later, i + 1) /\ Counted(u, later) /\ EndKnown(u, later, i + 1)
      /\ ~later[i + 1] /\ Len(u.segment_frames) = Len(base) + 1
      /\ u.segment_frames[Len(base) + 1] = i
    BY <1>1 DEF Joined
<1> HIDE DEF later
<1>3. u.silence_frame_count \in Nat /\ u.silence_frame_count # 0
    BY DEF Session
<1>4. Calm(u, later)
    BY <1>2, <1>3 DEF Calm
<1> QED BY <1>2, <1>4 DEF Parts, later

LEMMA PausesStep ==
    ASSUME NEW v, NEW h, NEW i, Hears(h, i), SegmentInv(v, h, i),
           NEW u \in Session, Pauses(v, u, i)
    PROVE  Parts(u, Append(h, FALSE), i + 1)
<1> DEFINE S == v.segment_frames
           f == First(v)
<1>1. /\ Tidy(v) /\ Whole(v, h, i) /\ v.in_speech /\ StaysOpen(v, u) /\ NoGap(v) /\ NoGap(u)
      /\ u.silence_frame_count = v.silence_frame_count + 1
      /\ u.segment_frames = Append(S, i)
      /\ u.speech_frame_count = v.speech_frame_count
      /\ u.last_speech_end = v.last_speech_end
    BY DEF SegmentInv, Pauses, StaysOpen
<1>2. Len(v.gap_buffer) = 0
    BY <1>1 DEF NoGap
<1>3. /\ i \in Nat /\ S \in Seq(Nat) /\ Len(S) \in Nat /\ Track(S, h, f, i - 1)
      /\ v.speech_frame_count \in Nat /\ v.silence_frame_count \in Nat
      /\ v.last_speech_end \in Nat
    <2>1. i - 1 - 0 = i - 1
        BY DEF Hears
    <2> QED BY <1>1, <1>2, <2>1, OpenFacts
<1>4. /\ v.speech_frame_count = Cardinality(SpeechAt(h, S))
      /\ f < v.last_speech_end
      /\ v.last_speech_end + v.silence_frame_count + 0 <= i
      /\ \A k \in SpeechAt(h, S) : S[k] < v.last_speech_end
      /\ TooShort(v.speech_frame_count) =>
            Len(S) <= v.speech_frame_count + v.silence_frame_count
    BY <1>1, <1>2 DEF SegmentInv, Counted, EndKnown, Calm
<1>5. i - 1 < i /\ i - (i - 1) - 1 = 0 /\ (i - 1) + 1 .. i - 1 = {}
    BY <1>3
<1> HIDE DEF S, f
<1>6. u.speech_frame_count = Cardinality(SpeechAt(h, S)) + (IF FALSE THEN 1 ELSE 0)
    BY <1>1, <1>3, <1>4
<1>7. Joins(v, u, h, i, FALSE, S, i - 1)
    <2>1. TooShort(i - (i - 1) - 1) /\ \A k \in (i - 1) + 1 .. i - 1 : h[k + 1]
        BY <1>5, ShortIsShort
    <2>2. u.last_speech_end + u.silence_frame_count <= i + 1
        BY <1>1, <1>3, <1>4
    <2> QED BY <1>1, <1>3, <1>4, <1>5, <1>6, <2>1, <2>2 DEF Joins, f
<1>8. /\ u.silence_frame_count > 0
      /\ TooShort(u.speech_frame_count) =>
            Len(S) + 1 <= u.speech_frame_count + u.silence_frame_count
    BY <1>1, <1>3, <1>4
<1> QED BY <1>1, <1>7, <1>8, SilentStep

LEMMA MergesStep ==
    ASSUME NEW v, NEW h, NEW i, Hears(h, i), SegmentInv(v, h, i),
           NEW u \in Session, Merges(v, u, i)
    PROVE  Parts(u, Append(h, FALSE), i + 1)
<1> DEFINE S == v.segment_frames
           G == v.gap_buffer
           m == Len(G)
           last == i - 1 - m
           f == First(v)
<1>1. /\ Tidy(v) /\ Whole(v, h, i) /\ v.in_speech /\ StaysOpen(v, u) /\ NoGap(u)
      /\ u.silence_frame_count = v.silence_frame_count + m + 1 /\ TooShort(m)
      /\ u.segment_frames = Append(S, i)
      /\ u.speech_frame_count = v.speech_frame_count
      /\ u.last_speech_end = v.last_speech_end
    BY DEF SegmentInv, Merges, StaysOpen, Tidy
<1>3. /\ i \in Nat /\ S \in Seq(Nat) /\ Len(S) \in Nat /\ m \in Nat /\ Track(S, h, f, last)
      /\ last \in Nat /\ last < i
      /\ \A k \in 1 .. m : G[k] = last + k /\ h[G[k] + 1]
      /\ v.speech_frame_count \in Nat /\ v.silence_frame_count \in Nat
      /\ v.last_speech_end \in Nat
    BY <1>1, OpenFacts
<1>4. /\ v.speech_frame_count = Cardinality(SpeechAt(h, S))
      /\ f < v.last_speech_end
      /\ v.last_speech_end + v.silence_frame_count + m <= i
      /\ \A k \in SpeechAt(h, S) : S[k] < v.last_speech_end
      /\ TooShort(v.speech_frame_count) =>
            Len(S) <= v.speech_frame_count + v.silence_frame_count
    BY <1>1 DEF SegmentInv, Counted, EndKnown, Calm
<1>5. i - last - 1 = m /\ last + m = i - 1
    BY <1>3
<1> HIDE DEF S, G, f, m, last
<1>6. u.speech_frame_count = Cardinality(SpeechAt(h, S)) + (IF FALSE THEN 1 ELSE 0)
    BY <1>1, <1>3, <1>4
<1>7. Joins(v, u, h, i, FALSE, S, last)
    <2>1. \A k \in last + 1 .. i - 1 : h[k + 1]
        <3> SUFFICES ASSUME NEW k \in last + 1 .. i - 1 PROVE h[k + 1]
            OBVIOUS
        <3>1. k - last \in 1 .. m /\ last + (k - last) = k
            BY <1>3, <1>5
        <3>2. G[k - last] = k /\ h[G[k - last] + 1]
            BY <1>3, <3>1
        <3> QED BY <3>2
    <2>2. u.last_speech_end + u.silence_frame_count <= i + 1
        BY <1>1, <1>3, <1>4
    <2> QED BY <1>1, <1>3, <1>4, <1>5, <1>6, <2>1, <2>2 DEF Joins, f
<1>8. /\ u.silence_frame_count > 0
      /\ TooShort(u.speech_frame_count) =>
            Len(S) + 1 <= u.speech_frame_count + u.silence_frame_count
    BY <1>1, <1>3, <1>4
<1> QED BY <1>1, <1>7, <1>8, SilentStep

LEMMA KeepsStep ==
    ASSUME NEW v, NEW h, NEW i, Hears(h, i), SegmentInv(v, h, i),
           NEW u \in Session, Keeps(v, u, i)
    PROVE  Parts(u, Append(h, FALSE), i + 1)
<1> DEFINE S == v.segment_frames
           G == v.gap_buffer
           m == Len(G)
           last == i - 1 - m
           f == First(v)
           base == S \o G
<1>1. /\ Tidy(v) /\ Whole(v, h, i) /\ v.in_speech /\ StaysOpen(v, u) /\ NoGap(u)
      /\ u.silence_frame_count = 1 /\ ~TooShort(m)
      /\ u.segment_frames = Append(base, i)
      /\ u.speech_frame_count = v.speech_frame_count + m
      /\ u.last_speech_end = i
    BY DEF SegmentInv, Keeps, StaysOpen, Tidy
<1>3. /\ i \in Nat /\ S \in Seq(Nat) /\ G \in Seq(Nat) /\ m \in Nat /\ Track(S, h, f, last)
      /\ last \in Nat /\ last < i /\ f <= last /\ f \in Nat
      /\ \A k \in 1 .. m : G[k] = last + k /\ h[G[k] + 1]
      /\ v.speech_frame_count \in Nat
    BY <1>1, OpenFacts
<1>4. v.speech_frame_count = Cardinality(SpeechAt(h, S))
    BY DEF SegmentInv, Counted
<1>5. /\ last + m = i - 1 /\ i - 1 < i /\ i - (i - 1) - 1 = 0 /\ (i - 1) + 1 .. i - 1 = {}
    BY <1>3
<1>6. Cardinality(SpeechAt(h, base)) = Cardinality(SpeechAt(h, S)) + m
    <2>1. \A k \in 1 .. Len(G) : h[G[k] + 1]
        BY <1>3
    <2>2. S \in Seq(Nat) /\ G \in Seq(Nat)
        BY <1>3
    <2> HIDE DEF S, G
    <2> QED BY <2>1, <2>2, CountConcat
<1>7. Track(base, h, f, last + m)
    BY <1>3, TrackConcat
<1> HIDE DEF S, G, f, m, last, base
<1>8. Track(base, h, f, i - 1)
    BY <1>5, <1>7
<1>9. Joins(v, u, h, i, FALSE, base, i - 1)
    <2>1. TooShort(i - (i - 1) - 1) /\ \A k \in (i - 1) + 1 .. i - 1 : h[k + 1]
        BY <1>5, ShortIsShort
    <2>2. u.speech_frame_count = Cardinality(SpeechAt(h, base)) + (IF FALSE THEN 1 ELSE 0)
        BY <1>1, <1>3, <1>4, <1>6
    <2>3. \A k \in SpeechAt(h, base) : base[k] < u.last_speech_end
        <3>1. base \in Seq(Nat) /\ \A k \in 1 .. Len(base) : base[k] <= i - 1
            BY <1>8 DEF Track
        <3>2. \A k \in SpeechAt(h, base) : k \in 1 .. Len(base) /\ base[k] \in Nat
            BY <3>1 DEF SpeechAt
        <3> QED BY <1>1, <1>3, <3>1, <3>2, SMTT(30)
    <2>4. f < u.last_speech_end /\ u.last_speech_end + u.silence_frame_count <= i + 1
        BY <1>1, <1>3
    <2> QED BY <1>1, <1>5, <1>8, <2>1, <2>2, <2>3, <2>4 DEF Joins, f
<1>10. ~TooShort(u.speech_frame_count)
    <2>1. m <= v.speech_frame_count + m /\ v.speech_frame_count + m \in Nat
        BY <1>3
    <2> QED BY <1>1, <1>3, <2>1, ShortIsShort
<1>11. u.silence_frame_count > 0
    BY <1>1
<1>12. TooShort(u.speech_frame_count) =>
           Len(base) + 1 <= u.speech_frame_count + u.silence_frame_count
    BY <1>10
<1> QED BY <1>1, <1>9, <1>11, <1>12, SilentStep

\* A frame keeps the open segment in order, whatever it is.
LEMMA SegmentStep ==
    ASSUME NEW v, NEW h, NEW i, Hears(h, i), SegmentInv(v, h, i), NEW b \in BOOLEAN
    PROVE  LET u == Advanced(v, i, b)
           IN  /\ SegmentInv(u, Append(h, b), i + 1) /\ u \in Session
               /\ IF b THEN Speech(v, u, i) ELSE Silence(v, u, i)
<1> DEFINE u == Advanced(v, i, b)
<1>1. i \in Nat /\ Tidy(v) /\ Rolled(v, i) /\ Len(v.pre_buffer) <= i
    BY DEF Hears, SegmentInv, Rolled
<1>2. CASE b = TRUE
    <2>1. u \in Session /\ Speech(v, u, i)
          /\ u.pre_buffer = LastFrames(Append(v.pre_buffer, i), Pad)
        BY <1>1, <1>2, SpeechCases
    <2> HIDE DEF u
    <2>2. Rolled(u, i + 1) /\ Tidy(u)
        BY <1>1, <2>1, RolledStep, TidyStep
    <2>3. Parts(u, Append(h, TRUE), i + 1)
        BY <1>1, <2>1, OpensStep, SpeaksStep, ProbationStep DEF Speech
    <2>4. SegmentInv(u, Append(h, b), i + 1)
        BY <1>2, <2>2, <2>3 DEF SegmentInv, Parts
    <2> QED BY <1>2, <2>1, <2>4 DEF u
<1>3. CASE b = FALSE
    <2>1. u \in Session /\ Silence(v, u, i)
          /\ u.pre_buffer = LastFrames(Append(v.pre_buffer, i), Pad)
        BY <1>1, <1>3, SilenceCases
    <2> HIDE DEF u
    <2>2. Rolled(u, i + 1) /\ Tidy(u)
        BY <1>1, <2>1, RolledStep, TidyStep
    <2>3. Parts(u, Append(h, FALSE), i + 1)
        <3>1. CASE Quiet(v, u)
            <4>1. ~u.in_speech /\ u.segment_frames = <<>>
                  /\ u.speech_frame_count = v.speech_frame_count /\ v.segment_frames = <<>>
                BY <1>1, <3>1 DEF Quiet, Tidy, Session
            <4>2. Counted(u, Append(h, FALSE))
                <5>1. \A later : SpeechAt(later, <<>>) = {}
                    BY DEF SpeechAt
                <5>2. v.speech_frame_count = Cardinality(SpeechAt(h, <<>>))
                    BY <4>1 DEF SegmentInv, Counted
                <5> QED BY <4>1, <5>1, <5>2 DEF Counted
            <4> QED BY <4>1, <4>2 DEF Parts, Whole, EndKnown, Calm
        <3> QED BY <2>1, <3>1, PausesStep, MergesStep, KeepsStep DEF Silence
    <2>4. SegmentInv(u, Append(h, b), i + 1)
        BY <1>3, <2>2, <2>3 DEF SegmentInv, Parts
    <2> QED BY <1>3, <2>1, <2>4 DEF u
<1> QED BY <1>2, <1>3

-----------------------------------------------------------------------------
(* Cuts *)

\* A segment that is cut leaves nothing behind.
LEMMA ResetStep ==
    ASSUME NEW v \in Session, NEW h, NEW i, Rolled(v, i)
    PROVE  LET u == Reset(v)
           IN  u \in Session /\ SegmentInv(u, h, i) /\ ~u.in_speech
<1> DEFINE u == Reset(v)
<1>0. <<>> \in Seq(Nat)
    OBVIOUS
<1>1. u \in Session
    BY <1>0 DEF Reset, Session, Frame
<1>2. /\ u.pre_buffer = v.pre_buffer /\ ~u.in_speech /\ ~u.gap_active
      /\ u.segment_frames = <<>> /\ u.pre_snapshot = <<>> /\ u.gap_buffer = <<>>
      /\ u.speech_frame_count = 0 /\ u.silence_frame_count = 0 /\ u.gap_speech = 0
    BY DEF Reset, Session
<1> HIDE DEF u
<1>3. Tidy(u) /\ Rolled(u, i)
    BY <1>1, <1>2 DEF Tidy, Rolled
<1>4. Counted(u, h)
    <2>1. SpeechAt(h, <<>>) = {}
        BY DEF SpeechAt
    <2> QED BY <1>2, <2>1, FS_EmptySet DEF Counted
<1>5. Whole(u, h, i) /\ EndKnown(u, h, i) /\ Calm(u, h)
    BY <1>2 DEF Whole, EndKnown, Calm
<1>6. u \in Session /\ SegmentInv(u, h, i) /\ ~u.in_speech
    BY <1>1, <1>2, <1>3, <1>4, <1>5 DEF SegmentInv
<1> QED BY <1>6 DEF u

\* A segment about to be cut: nothing is on probation, or it is left behind.
Closing(v, h, i) ==
    /\ v \in Session /\ v.in_speech /\ i \in Nat
    /\ Len(v.pre_snapshot) <= Pad
    /\ \A k \in 1 .. Len(v.pre_snapshot) : v.pre_snapshot[k] = v.speech_start + k - 1
    /\ \E last \in 0 .. i - 1 : Track(v.segment_frames, h, First(v), last)
    /\ Counted(v, h)
    /\ First(v) < v.last_speech_end /\ v.last_speech_end <= i
    /\ Pad >= 1 => \A k \in SpeechAt(h, v.segment_frames) :
                      v.segment_frames[k] < v.last_speech_end + Pad

LEMMA ClosingAsIs ==
    ASSUME NEW v, NEW h, NEW i, Hears(h, i), SegmentInv(v, h, i), v.in_speech
    PROVE  Closing(v, h, i)
<1> DEFINE S == v.segment_frames
           m == Len(v.gap_buffer)
           last == i - 1 - m
<1>1. Tidy(v) /\ Whole(v, h, i) /\ EndKnown(v, h, i) /\ Counted(v, h)
    BY DEF SegmentInv
<1>2. /\ i \in Nat /\ m \in Nat /\ last \in Nat /\ last < i /\ Track(S, h, First(v), last)
      /\ v.last_speech_end \in Nat /\ v.silence_frame_count \in Nat /\ Pad \in Nat
      /\ Len(v.pre_snapshot) <= Pad /\ S \in Seq(Nat)
      /\ \A k \in 1 .. Len(S) : S[k] \in Nat
    BY <1>1, OpenFacts
<1>3. /\ First(v) < v.last_speech_end
      /\ v.last_speech_end + v.silence_frame_count + m <= i
      /\ \A k \in SpeechAt(h, S) : S[k] < v.last_speech_end
    BY <1>1 DEF EndKnown
<1>4. \A k \in 1 .. Len(v.pre_snapshot) : v.pre_snapshot[k] = v.speech_start + k - 1
    BY <1>1 DEF Whole
<1> HIDE DEF S, m, last
<1>5. last \in 0 .. i - 1 /\ v.last_speech_end <= i
    BY <1>2, <1>3
<1>6. ASSUME Pad >= 1, NEW k \in SpeechAt(h, S) PROVE S[k] < v.last_speech_end + Pad
    <2>1. k \in 1 .. Len(S)
        <3>1. k \in DOMAIN S
            BY DEF SpeechAt
        <3>2. DOMAIN S = 1 .. Len(S)
            BY <1>2
        <3> QED BY <3>1, <3>2
    <2>2. S[k] < v.last_speech_end /\ S[k] \in Nat
        BY <1>2, <1>3, <2>1
    <2> QED BY <1>2, <2>2
<1>7. v \in Session
    BY <1>1 DEF Tidy
<1> QED BY <1>1, <1>2, <1>3, <1>4, <1>5, <1>6, <1>7 DEF Closing, S

\* The forced cut takes the burst on probation along.
LEMMA ClosingAbsorbed ==
    ASSUME NEW v, NEW h, NEW i, Hears(h, i), SegmentInv(v, h, i), v.in_speech
    PROVE  LET u == Absorbed(v, i - 1)
           IN  /\ Closing(u, h, i) /\ Rolled(u, i)
               /\ u.speech_start = v.speech_start /\ First(u) = First(v)
               /\ u.segment_frames = v.segment_frames \o v.gap_buffer
               /\ u.speech_frame_count = v.speech_frame_count + v.gap_speech
<1> DEFINE u == Absorbed(v, i - 1)
           S == v.segment_frames
           G == v.gap_buffer
           m == Len(G)
           last == i - 1 - m
           base == S \o G
<1>1. Tidy(v) /\ Whole(v, h, i) /\ EndKnown(v, h, i) /\ Counted(v, h) /\ Rolled(v, i)
    BY DEF SegmentInv
<1>2. /\ i \in Nat /\ S \in Seq(Nat) /\ G \in Seq(Nat) /\ m \in Nat /\ last \in Nat /\ last < i
      /\ First(v) <= last /\ First(v) \in Nat /\ v.gap_speech = m
      /\ Track(S, h, First(v), last)
      /\ \A k \in 1 .. m : G[k] = last + k /\ h[G[k] + 1]
      /\ v.speech_frame_count \in Nat /\ Pad \in Nat
    BY <1>1, OpenFacts
<1>0. v \in Session
    BY <1>1 DEF Tidy
<1>3. CASE G = <<>>
    <2>1. u = v
        BY <1>3 DEF Absorbed
    <2>2. S \o G = S /\ m = 0
        BY <1>2, <1>3
    <2>3. v.speech_frame_count + v.gap_speech = v.speech_frame_count
        BY <1>2, <2>2
    <2> HIDE DEF u
    <2> QED BY <1>1, <2>1, <2>2, <2>3, ClosingAsIs DEF u
<1>4. CASE G # <<>>
    <2> DEFINE c == v.speech_frame_count + m
               e == i - 1
    <2>1. v.gap_active /\ m >= 1
        BY <1>1, <1>2, <1>4 DEF Tidy
    <2>2. base \in Seq(Nat) /\ c \in Nat /\ e \in Nat /\ <<>> \in Seq(Nat)
        BY <1>2
    <2>3. u = [v EXCEPT !.segment_frames = base, !.speech_frame_count = c,
                        !.last_speech_end = e, !.gap_active = FALSE,
                        !.gap_speech = 0, !.gap_buffer = <<>>]
        BY <1>0, <1>2, <1>4, <2>1 DEF Absorbed, Session
    <2>4. c = v.speech_frame_count + v.gap_speech /\ e < i /\ e <= i /\ First(v) < e
          /\ last + m = e /\ e \in 0 .. i - 1
        <3>1. c = v.speech_frame_count + v.gap_speech
            BY <1>2
        <3>2. last = i - 1 - m /\ e = i - 1
            OBVIOUS
        <3> HIDE DEF c, e, S, G, last, m, base
        <3>3. e < i /\ e <= i /\ last + m = e /\ e \in 0 .. i - 1
            BY <1>2, <2>1, <3>2
        <3>4. First(v) < e
            BY <1>2, <2>1, <3>2
        <3> QED BY <3>1, <3>3, <3>4
    <2>5. Cardinality(SpeechAt(h, base)) = Cardinality(SpeechAt(h, S)) + m
        <3>1. \A k \in 1 .. Len(G) : h[G[k] + 1]
            BY <1>2
        <3>2. S \in Seq(Nat) /\ G \in Seq(Nat)
            BY <1>2
        <3> HIDE DEF S, G
        <3> QED BY <3>1, <3>2, CountConcat
    <2>6. Track(base, h, First(v), last + m)
        BY <1>2, TrackConcat
    <2>10. v.speech_frame_count = Cardinality(SpeechAt(h, S))
        BY <1>1 DEF Counted
    <2>11. /\ Len(v.pre_snapshot) <= Pad
           /\ \A k \in 1 .. Len(v.pre_snapshot) : v.pre_snapshot[k] = v.speech_start + k - 1
        BY <1>1 DEF Whole
    <2> HIDE DEF u, c, e, base, S, G, last, m
    <2>7. u \in Session
        BY <1>0, <2>2, <2>3 DEF Session, Frame
    <2>8. /\ u.segment_frames = base /\ u.speech_frame_count = c /\ u.last_speech_end = e
          /\ u.in_speech /\ u.pre_snapshot = v.pre_snapshot /\ u.speech_start = v.speech_start
          /\ u.pre_buffer = v.pre_buffer
        BY <1>0, <2>3 DEF Session
    <2>9. First(u) = First(v)
        BY <2>8 DEF First
    <2>12. Track(base, h, First(u), e)
        BY <2>4, <2>6, <2>9
    <2>13. Counted(u, h)
        BY <2>5, <2>8, <2>10 DEF Counted, c
    <2>14. ASSUME Pad >= 1, NEW k \in SpeechAt(h, base) PROVE base[k] < e + Pad
        <3>1. k \in 1 .. Len(base)
            BY <2>2 DEF SpeechAt
        <3>2. base[k] <= e
            BY <2>12, <3>1 DEF Track
        <3>3. base[k] \in Nat
            BY <2>2, <3>1
        <3> QED BY <1>2, <2>2, <2>14, <3>2, <3>3
    <2>15. Closing(u, h, i)
        BY <1>2, <2>4, <2>7, <2>8, <2>9, <2>11, <2>12, <2>13, <2>14 DEF Closing
    <2>16. Rolled(u, i)
        BY <1>1, <2>8 DEF Rolled
    <2> QED BY <2>4, <2>8, <2>9, <2>15, <2>16 DEF u, base, S, G, c
<1> QED BY <1>3, <1>4

LEMMA MinOfTwo ==
    ASSUME NEW a \in Nat, NEW b \in Nat
    PROVE  Min({a, b}) = IF a <= b THEN a ELSE b
<1> DEFINE c == IF a <= b THEN a ELSE b
<1>1. c \in {a, b} /\ \A y \in {a, b} : c <= y
    OBVIOUS
<1>2. \A x \in {a, b} : (\A y \in {a, b} : x <= y) => x = c
    OBVIOUS
<1>3. Min({a, b}) = CHOOSE x \in {a, b} : \A y \in {a, b} : x <= y
    BY DEF Min
<1> QED BY <1>1, <1>2, <1>3

\* The report `r' is about the frames from `s' up to `e'.
Spans(r, s, e) ==
    /\ r \in Segment /\ s \in Nat /\ e \in Nat /\ s < e
    /\ r.start_sample = s * Hop /\ r.end_sample = e * Hop
    /\ Len(r.audio) = e - s

\* What is reported of a segment: what was buffered of it, up to the pad.
ReportedOf(r, v, i) ==
    LET e == SegmentEnd(v)
        p == Len(v.pre_snapshot)
    IN  /\ Spans(r, v.speech_start, e)
        /\ e <= i /\ e <= First(v) + Len(v.segment_frames)
        /\ e <= v.last_speech_end + Pad
        /\ First(v) + Len(v.segment_frames) <= e \/ e = v.last_speech_end + Pad
        /\ \A k \in 1 .. Len(r.audio) : r.audio[k] \in Nat /\ r.audio[k] < i
        /\ \A k \in 1 .. Len(r.audio) :
              r.audio[k] = IF k <= p THEN v.speech_start + k - 1
                           ELSE v.segment_frames[k - p]

LEMMA ReportSays ==
    ASSUME NEW v, NEW h, NEW i, Closing(v, h, i)
    PROVE  ReportedOf(Report(v), v, i)
<1> DEFINE s == v.speech_start
           pre == v.pre_snapshot
           p == Len(pre)
           S == v.segment_frames
           n == Len(S)
           f == First(v)
           L == v.last_speech_end
           e == SegmentEnd(v)
           r == Report(v)
           frames == pre \o S
           audio == IF Len(frames) > e - s THEN SubSeq(frames, 1, e - s) ELSE frames
<1>1. /\ s \in Nat /\ pre \in Seq(Nat) /\ p \in Nat /\ S \in Seq(Nat) /\ n \in Nat
      /\ L \in Nat /\ i \in Nat /\ f = s + p /\ f < L /\ L <= i /\ p <= Pad /\ Pad \in Nat
      /\ \A k \in 1 .. p : pre[k] = s + k - 1
    BY PadAssumption DEF Closing, Session, Frame, First
<1>2. PICK last \in 0 .. i - 1 : Track(S, h, f, last)
    BY DEF Closing
<1>3. n >= 1 /\ \A k \in 1 .. n : S[k] \in Nat /\ f + k - 1 <= S[k] /\ S[k] <= last
    <2>1. S # <<>> /\ S \in Seq(Nat)
        BY <1>2 DEF Track
    <2>2. n >= 1 /\ \A k \in 1 .. n : S[k] \in Nat
        BY <2>1
    <2> QED BY <1>2, <2>2 DEF Track
<1>4. e = IF L + Pad <= s + p + n THEN L + Pad ELSE s + p + n
    <2>1. L + Pad \in Nat /\ s + p + n \in Nat
        BY <1>1, SMTT(30)
    <2>2. Min({L + Pad, s + p + n}) = IF L + Pad <= s + p + n THEN L + Pad ELSE s + p + n
        BY <2>1, MinOfTwo
    <2> QED BY <2>2 DEF SegmentEnd
<1>5. r = [audio |-> audio, start_sample |-> s * Hop, end_sample |-> e * Hop]
    BY DEF Report
<1>6. /\ frames \in Seq(Nat) /\ Len(frames) = p + n
      /\ \A k \in 1 .. p + n : frames[k] = IF k <= p THEN pre[k] ELSE S[k - p]
    <2>1. pre \in Seq(Nat) /\ S \in Seq(Nat)
        BY <1>1
    <2> HIDE DEF pre, S, s, f, L, e, r, audio
    <2> QED BY <2>1, ConcatProperties
<1> HIDE DEF s, pre, p, S, n, f, L, e, r, frames
<1>7. e \in Nat /\ s < e /\ e <= f + n /\ e <= L + Pad /\ (f + n <= e \/ e = L + Pad)
    BY <1>1, <1>3, <1>4
<1>8. e <= i
    <2>0. n \in 1 .. n
        BY <1>1, <1>3
    <2>1. S[n] \in Nat /\ f + n - 1 <= S[n] /\ S[n] <= last
        BY <1>3, <2>0
    <2>2. last <= i - 1 /\ last \in Nat
        BY <1>1
    <2> QED BY <1>1, <1>7, <2>1, <2>2
<1>9. e - s <= p + n /\ e - s \in Nat /\ (~(p + n > e - s) => p + n = e - s)
    <2>1. e \in Nat /\ s < e /\ e <= s + p + n
        BY <1>1, <1>7
    <2> QED BY <1>1, <2>1
<1>10. /\ audio \in Seq(Nat) /\ Len(audio) = e - s
       /\ \A k \in 1 .. e - s : audio[k] = frames[k]
    <2>1. CASE p + n > e - s
        <3>1. \A k \in 1 .. e - s : frames[k] \in Nat
            <4>1. \A k \in 1 .. p + n : frames[k] \in Nat
                BY <1>6
            <4>2. \A k \in 1 .. e - s : k \in 1 .. p + n
                BY <1>1, <1>9
            <4> QED BY <4>1, <4>2
        <3>2. audio = SubSeq(frames, 1, e - s)
            BY <1>6, <2>1
        <3> DEFINE d == e - s
        <3>3. d \in Nat /\ d \in Int /\ 1 \in Int /\ d - 1 + 1 = d /\ (1 <= d \/ d = 0)
            BY <1>9
        <3>8. \A k \in 1 .. d : frames[k] \in Nat
            BY <3>1
        <3> HIDE DEF d
        <3>4. /\ SubSeq(frames, 1, d) \in Seq(Nat)
              /\ Len(SubSeq(frames, 1, d)) = IF 1 <= d THEN d - 1 + 1 ELSE 0
              /\ \A k \in 1 .. d - 1 + 1 : SubSeq(frames, 1, d)[k] = frames[1 + k - 1]
            BY <3>3, <3>8, SubSeqProperties
        <3>5. Len(SubSeq(frames, 1, d)) = d
            BY <3>3, <3>4
        <3>6. \A k \in 1 .. d : SubSeq(frames, 1, d)[k] = frames[k]
            <4>1. \A k \in 1 .. d : 1 + k - 1 = k
                BY <3>3
            <4> QED BY <3>3, <3>4, <4>1
        <3> QED BY <3>2, <3>4, <3>5, <3>6 DEF d
    <2>2. CASE ~(p + n > e - s)
        <3>1. p + n = e - s
            BY <1>9, <2>2
        <3> QED BY <1>6, <2>2, <3>1
    <2> QED BY <2>1, <2>2
<1> HIDE DEF audio
<1>11. \A k \in 1 .. e - s : audio[k] = IF k <= p THEN s + k - 1 ELSE S[k - p]
    <2>1. \A k \in 1 .. e - s : k \in 1 .. p + n /\ (k <= p => k \in 1 .. p)
        BY <1>1, <1>9
    <2> QED BY <1>1, <1>6, <1>10, <2>1
<1>12. \A k \in 1 .. e - s : audio[k] \in Nat /\ audio[k] < i
    <2> SUFFICES ASSUME NEW k \in 1 .. e - s PROVE audio[k] \in Nat /\ audio[k] < i
        OBVIOUS
    <2>1. CASE k <= p
        <3>1. audio[k] = s + k - 1
            BY <1>11, <2>1
        <3> QED BY <1>1, <1>9, <2>1, <3>1
    <2>2. CASE ~(k <= p)
        <3>1. audio[k] = S[k - p] /\ k - p \in 1 .. n
            BY <1>1, <1>9, <1>11, <2>2
        <3>2. S[k - p] \in Nat /\ S[k - p] <= last
            BY <1>3, <3>1
        <3>3. last \in Nat /\ last <= i - 1
            BY <1>1
        <3> QED BY <1>1, <3>1, <3>2, <3>3
    <2> QED BY <2>1, <2>2
<1>13. s * Hop \in Nat /\ e * Hop \in Nat
    BY <1>1, <1>7, HopOrder
<1>14. /\ r \in Segment /\ r.start_sample = s * Hop /\ r.end_sample = e * Hop
       /\ r.audio = audio
    BY <1>5, <1>10, <1>13 DEF Segment, Frame
<1>15. Spans(r, s, e)
    BY <1>1, <1>7, <1>10, <1>14 DEF Spans
<1> QED BY <1>7, <1>8, <1>10, <1>11, <1>12, <1>14, <1>15
        DEF ReportedOf, s, p, pre, S, n, f, L, e, r

-----------------------------------------------------------------------------
(* The detector *)

\* No cut is overdue.
Timely(v) ==
    v.in_speech =>
        /\ v.silence_frame_count * Hop < Pause
        /\ (Len(v.segment_frames) + Len(v.gap_buffer)) * Hop <= MaxSpeech

DetectorInv ==
    /\ pc \in {"idle", "feeding", "flushed"} /\ chunk_total \in Nat
    /\ segments \in Seq(Segment)
    /\ Hears(heard, total) /\ SegmentInv(vad, heard, total) /\ Timely(vad)

\* What a frame may leave when it is not cut: no pause is due, nor is the
\* segment too long.
LEMMA NotCutIsTimely ==
    ASSUME NEW v \in Session, ~TooLong(v), v.silence_frame_count * Hop < Pause
    PROVE  Timely(v)
<1> SUFFICES ASSUME v.in_speech PROVE Timely(v)
    BY DEF Timely
<1> DEFINE n == Len(v.segment_frames) + Len(v.gap_buffer)
<1>1. n \in Nat
    BY DEF Session, Frame
<1>2. ~(n * Hop > MaxSpeech)
    BY DEF TooLong
<1> HIDE DEF n
<1>3. n * Hop \in Nat
    BY <1>1, HopOrder
<1>4. n * Hop <= MaxSpeech
    BY <1>2, <1>3, ThresholdsAssumption
<1> QED BY <1>4 DEF Timely, n

\* What a frame does: it is heard, and then a pause that is due or a segment
\* that is too long is cut.
FrameOutcome(b) ==
    LET v == Advanced(vad, total, b)
        h == Append(heard, b)
        i == total + 1
    IN  /\ total' = i /\ heard' = h /\ Hears(h, i) /\ v \in Session /\ SegmentInv(v, h, i)
        /\ IF b THEN Speech(vad, v, total) ELSE Silence(vad, v, total)
        /\ \/ vad' = v /\ segments' = segments /\ Timely(v)
           \/ ~b /\ v.in_speech /\ ShouldCut(v) /\ Finalize(v)
           \/ /\ v.in_speech /\ TooLong(v) /\ v.silence_frame_count * Hop < Pause
              /\ Finalize(Absorbed(v, i - 1))

LEMMA FrameStep ==
    ASSUME DetectorInv, NEW b \in BOOLEAN, ProcessFrame(b)
    PROVE  FrameOutcome(b)
<1> DEFINE v == Advanced(vad, total, b)
           h == Append(heard, b)
           i == total + 1
<1>1. Hears(heard, total) /\ SegmentInv(vad, heard, total) /\ Timely(vad) /\ total \in Nat
    BY DEF DetectorInv, Hears
<1>2. /\ SegmentInv(v, h, i) /\ v \in Session
      /\ IF b THEN Speech(vad, v, total) ELSE Silence(vad, v, total)
    BY <1>1, SegmentStep
<1>3. Hears(h, i)
    BY <1>1, HearsOn
<1>4. i - 1 = total
    BY <1>1
<1>5. /\ total' = i /\ heard' = h
      /\ \/ ~b /\ v.in_speech /\ ShouldCut(v) /\ Finalize(v)
         \/ ~(~b /\ v.in_speech /\ ShouldCut(v)) /\ TooLong(v) /\ Finalize(Absorbed(v, total))
         \/ /\ ~(~b /\ v.in_speech /\ ShouldCut(v)) /\ ~TooLong(v)
            /\ vad' = v /\ segments' = segments
    BY DEF ProcessFrame
<1> HIDE DEF v, h, i
<1>6. ASSUME ~(~b /\ v.in_speech /\ ShouldCut(v)), v.in_speech
      PROVE  v.silence_frame_count * Hop < Pause
    <2>1. v.silence_frame_count \in Nat /\ v.silence_frame_count * Hop \in Nat
        BY <1>2, HopOrder DEF Session
    <2>2. CASE ~b
        BY <1>6, <2>1, <2>2, ThresholdsAssumption DEF ShouldCut
    <2>3. CASE b
        <3>1. \/ v.silence_frame_count = 0
              \/ vad.in_speech /\ v.silence_frame_count = vad.silence_frame_count
            BY <1>2, <2>3 DEF Speech, Opens, Speaks, OnProbation, StaysOpen
        <3>2. 0 * Hop = 0 /\ 0 < Pause
            BY HopAssumption, ThresholdsAssumption
        <3>3. CASE v.silence_frame_count = 0
            BY <3>2, <3>3
        <3>4. CASE vad.in_speech /\ v.silence_frame_count = vad.silence_frame_count
            BY <1>1, <3>4 DEF Timely
        <3> QED BY <3>1, <3>3, <3>4
    <2> QED BY <2>2, <2>3
<1>7. ASSUME ~(~b /\ v.in_speech /\ ShouldCut(v)), ~TooLong(v) PROVE Timely(v)
    <2>1. CASE ~v.in_speech
        BY <2>1 DEF Timely
    <2>2. CASE v.in_speech
        BY <1>2, <1>6, <1>7, <2>2, NotCutIsTimely
    <2> QED BY <2>1, <2>2
<1>8. TooLong(v) => v.in_speech
    BY DEF TooLong
<1>9. \/ vad' = v /\ segments' = segments /\ Timely(v)
      \/ ~b /\ v.in_speech /\ ShouldCut(v) /\ Finalize(v)
      \/ /\ v.in_speech /\ TooLong(v) /\ v.silence_frame_count * Hop < Pause
         /\ Finalize(Absorbed(v, i - 1))
    BY <1>4, <1>5, <1>6, <1>7, <1>8
<1> QED BY <1>2, <1>3, <1>5, <1>9 DEF FrameOutcome, v, h, i

\* A cut of the segment `w', when `i' frames were heard.
LEMMA CutStep ==
    ASSUME NEW w, NEW h, NEW i, Closing(w, h, i), Rolled(w, i), Finalize(w),
           segments \in Seq(Segment)
    PROVE  /\ SegmentInv(vad', h, i) /\ Timely(vad') /\ ~vad'.in_speech
           /\ ReportedOf(Report(w), w, i) /\ segments' \in Seq(Segment)
<1>1. ReportedOf(Report(w), w, i)
    BY ReportSays
<1>2. Report(w) \in Segment
    BY <1>1 DEF ReportedOf, Spans
<1>3. w \in Session
    BY DEF Closing
<1>4. vad' = Reset(w)
    BY DEF Finalize
<1>5. SegmentInv(vad', h, i) /\ ~vad'.in_speech
    BY <1>3, <1>4, ResetStep
<1>6. Timely(vad')
    BY <1>5 DEF Timely
<1>7. segments' \in Seq(Segment)
    BY <1>2 DEF Finalize
<1> QED BY <1>1, <1>5, <1>6, <1>7

LEMMA FrameKeeps ==
    ASSUME DetectorInv, NEW b \in BOOLEAN, ProcessFrame(b)
    PROVE  DetectorInv'
<1> DEFINE v == Advanced(vad, total, b)
           h == Append(heard, b)
           i == total + 1
<1>1. FrameOutcome(b) /\ segments \in Seq(Segment)
    BY FrameStep DEF DetectorInv
<1>2. /\ total' = i /\ heard' = h /\ Hears(h, i) /\ v \in Session /\ SegmentInv(v, h, i)
      /\ \/ vad' = v /\ segments' = segments /\ Timely(v)
         \/ v.in_speech /\ Finalize(v)
         \/ v.in_speech /\ Finalize(Absorbed(v, i - 1))
    BY <1>1 DEF FrameOutcome
<1>3. pc' \in {"idle", "feeding", "flushed"} /\ chunk_total' \in Nat
    BY HopAssumption DEF DetectorInv, ProcessFrame
<1> HIDE DEF v, h, i
<1>4. SegmentInv(vad', h, i) /\ Timely(vad') /\ segments' \in Seq(Segment)
    <2>1. CASE vad' = v /\ segments' = segments /\ Timely(v)
        BY <1>1, <1>2, <2>1
    <2>2. CASE v.in_speech /\ Finalize(v)
        <3>1. Closing(v, h, i) /\ Rolled(v, i)
            BY <1>2, <2>2, ClosingAsIs DEF SegmentInv
        <3> QED BY <1>1, <2>2, <3>1, CutStep
    <2>3. CASE v.in_speech /\ Finalize(Absorbed(v, i - 1))
        <3>1. Closing(Absorbed(v, i - 1), h, i) /\ Rolled(Absorbed(v, i - 1), i)
            BY <1>2, <2>3, ClosingAbsorbed
        <3> QED BY <1>1, <2>3, <3>1, CutStep
    <2> QED BY <1>2, <2>1, <2>2, <2>3
<1>5. SegmentInv(vad', heard', total') /\ Hears(heard', total')
    BY <1>2, <1>4
<1> QED BY <1>3, <1>4, <1>5 DEF DetectorInv

\* The end of the stream cuts the open segment as it is.
LEMMA FlushOutcome ==
    ASSUME DetectorInv, Flush
    PROVE  /\ total' = total /\ heard' = heard
           /\ \/ vad' = vad /\ segments' = segments /\ ~vad.in_speech
              \/ /\ vad.in_speech /\ Closing(vad, heard, total) /\ Rolled(vad, total)
                 /\ Finalize(vad)
<1>1. /\ Hears(heard, total) /\ SegmentInv(vad, heard, total)
      /\ total' = total /\ heard' = heard
    BY DEF DetectorInv, Flush
<1>2. CASE vad.segment_frames = <<>>
    <2>1. vad' = vad /\ segments' = segments
        BY <1>2 DEF Flush
    <2>2. ~vad.in_speech
        BY <1>1, <1>2 DEF SegmentInv, Whole, Track
    <2> QED BY <1>1, <2>1, <2>2
<1>3. CASE vad.segment_frames # <<>>
    <2>1. vad.in_speech
        BY <1>1, <1>3 DEF SegmentInv, Tidy
    <2>2. Closing(vad, heard, total) /\ Rolled(vad, total)
        BY <1>1, <2>1, ClosingAsIs DEF SegmentInv
    <2> QED BY <1>1, <1>3, <2>1, <2>2 DEF Flush
<1> QED BY <1>2, <1>3

LEMMA DetectorStep == DetectorInv /\ [Next]_vars => DetectorInv'
<1> SUFFICES ASSUME DetectorInv, [Next]_vars PROVE DetectorInv'
    OBVIOUS
<1>1. ASSUME NEW n \in FeedSizes, FeedAudio(n) PROVE DetectorInv'
    <2>1. chunk_total' \in Nat /\ pc' \in {"idle", "feeding", "flushed"}
          /\ UNCHANGED <<total, vad, segments, heard>>
        BY <1>1, FeedSizesAssumption DEF FeedAudio, DetectorInv
    <2> QED BY <2>1 DEF DetectorInv
<1>2. ASSUME NEW b \in BOOLEAN, ProcessFrame(b) PROVE DetectorInv'
    BY <1>2, FrameKeeps
<1>3. CASE FeedReturns
    BY <1>3 DEF FeedReturns, DetectorInv
<1>4. CASE Flush
    <2>1. total' = total /\ heard' = heard /\ segments \in Seq(Segment)
          /\ Hears(heard, total) /\ pc' \in {"idle", "feeding", "flushed"}
          /\ chunk_total' \in Nat
        BY <1>4 DEF Flush, DetectorInv
    <2>2. SegmentInv(vad', heard, total) /\ Timely(vad') /\ segments' \in Seq(Segment)
        <3>1. CASE vad' = vad /\ segments' = segments
            BY <2>1, <3>1 DEF DetectorInv
        <3>2. CASE Closing(vad, heard, total) /\ Rolled(vad, total) /\ Finalize(vad)
            BY <2>1, <3>2, CutStep
        <3> QED BY <1>4, <3>1, <3>2, FlushOutcome
    <2> QED BY <2>1, <2>2 DEF DetectorInv
<1>5. CASE UNCHANGED vars
    BY <1>5 DEF vars, DetectorInv
<1> QED BY <1>1, <1>2, <1>3, <1>4, <1>5 DEF Next

LEMMA DetectorInit == Init => DetectorInv
<1> SUFFICES ASSUME Init PROVE DetectorInv
    OBVIOUS
<1>1. /\ vad.pre_buffer = <<>> /\ vad.pre_snapshot = <<>> /\ vad.segment_frames = <<>>
      /\ ~vad.in_speech /\ vad.speech_frame_count = 0 /\ vad.silence_frame_count = 0
      /\ ~vad.gap_active /\ vad.gap_speech = 0 /\ vad.gap_buffer = <<>>
      /\ total = 0 /\ heard = <<>> /\ segments = <<>> /\ chunk_total = 0 /\ pc = "idle"
    BY DEF Init
<1>2. <<>> \in Seq(Nat) /\ <<>> \in Seq(BOOLEAN) /\ <<>> \in Seq(Segment) /\ Len(<<>>) = 0
    OBVIOUS
<1>3. vad \in Session
    BY <1>2 DEF Init, Session, Frame
<1>4. Tidy(vad) /\ Rolled(vad, total)
    BY <1>1, <1>2, <1>3, PadAssumption DEF Tidy, Rolled
<1>5. Counted(vad, heard)
    <2>1. SpeechAt(heard, <<>>) = {}
        BY DEF SpeechAt
    <2> QED BY <1>1, <2>1, FS_EmptySet DEF Counted
<1>6. SegmentInv(vad, heard, total) /\ Timely(vad)
    BY <1>1, <1>4, <1>5 DEF SegmentInv, Whole, EndKnown, Calm, Timely
<1>7. Hears(heard, total)
    BY <1>1, <1>2 DEF Hears
<1> QED BY <1>1, <1>2, <1>6, <1>7 DEF DetectorInv

\* Every variable of the detector has its type (FrameState of vad_service.py).
THEOREM DetectorTypeCorrect == Spec => []TypeOK
<1>1. DetectorInv => TypeOK
    BY DEF DetectorInv, TypeOK, Hears, SegmentInv, Tidy
<1> QED BY <1>1, DetectorInit, DetectorStep, PTL DEF Spec

\* No cut is overdue between two frames, however bursts were merged into the
\* silence (_should_cut and the length check of _process_frame).
THEOREM CutsInTime == Spec => []NoCutOverdue
<1>1. DetectorInv => NoCutOverdue
    BY DEF DetectorInv, Timely, NoCutOverdue
<1> QED BY <1>1, DetectorInit, DetectorStep, PTL DEF Spec

LEMMA WholeAgrees == DetectorInv => CountersAgree
<1> SUFFICES ASSUME DetectorInv PROVE CountersAgree
    OBVIOUS
<1>1. /\ Hears(heard, total) /\ Tidy(vad) /\ Whole(vad, heard, total) /\ Counted(vad, heard)
    BY DEF DetectorInv, SegmentInv
<1>2. vad.speech_frame_count = Cardinality(SpeechIn(vad.segment_frames))
    BY <1>1 DEF Counted, SpeechAt, SpeechIn, IsSpeech
<1>3. \A k \in DOMAIN vad.gap_buffer : IsSpeech(vad.gap_buffer[k])
    <2>1. CASE ~vad.in_speech
        <3>1. vad.gap_buffer = <<>>
            BY <1>1, <2>1 DEF Tidy
        <3> QED BY <3>1
    <2>2. CASE vad.in_speech
        <3>1. DOMAIN vad.gap_buffer = 1 .. Len(vad.gap_buffer)
            BY <1>1 DEF Tidy, Session, Frame
        <3>2. \A k \in 1 .. Len(vad.gap_buffer) : heard[vad.gap_buffer[k] + 1]
            BY <1>1, <2>2 DEF Whole
        <3> QED BY <3>1, <3>2 DEF IsSpeech
    <2> QED BY <2>1, <2>2
<1>4. ~vad.in_speech => ~vad.gap_active
    BY <1>1 DEF Tidy
<1> QED BY <1>1, <1>2, <1>3, <1>4 DEF Tidy, CountersAgree

\* Frames that follow each other miss nothing.
LEMMA MissingFrames ==
    ASSUME NEW a \in Nat, NEW c \in Nat, a < c, TooShort(c - a - 1)
    PROVE  Cardinality(a + 1 .. c - 1) * Hop < MinSpeech
<1> DEFINE x == a + 1
           y == c - 1
           n == c - a - 1
<1>1. x \in Int /\ y \in Int /\ n \in Nat /\ (x > y => n = 0) /\ y - x + 1 = n
    OBVIOUS
<1>2. n * Hop < MinSpeech
    BY DEF TooShort
<1> HIDE DEF x, y, n
<1>3. Cardinality(x .. y) = IF x > y THEN 0 ELSE y - x + 1
    BY <1>1, FS_Interval
<1>4. Cardinality(x .. y) = n
    BY <1>1, <1>3
<1>5. Cardinality(x .. y) * Hop < MinSpeech
    BY <1>2, <1>4
<1> QED BY <1>5 DEF x, y

LEMMA WholeMissesBursts == DetectorInv => OnlyShortBurstsMissing
<1> SUFFICES ASSUME DetectorInv, vad.in_speech PROVE OnlyShortBurstsMissing
    BY DEF OnlyShortBurstsMissing
<1> DEFINE pre == vad.pre_snapshot
           S == vad.segment_frames
           G == vad.gap_buffer
           p == Len(pre)
           m == Len(G)
           s == vad.speech_start
           f == First(vad)
           base == S \o G
           n == Len(base)
           A == OpenFrames
<1>1. Hears(heard, total) /\ Tidy(vad) /\ Whole(vad, heard, total)
    BY DEF DetectorInv, SegmentInv
<1>2. /\ total \in Nat /\ S \in Seq(Nat) /\ G \in Seq(Nat) /\ pre \in Seq(Nat)
      /\ p \in Nat /\ m \in Nat /\ s \in Nat /\ total - 1 - m \in Nat
      /\ Track(S, heard, f, total - 1 - m)
      /\ \A k \in 1 .. m : G[k] = total - 1 - m + k
    BY <1>1, OpenFacts
<1>3. \A k \in 1 .. p : pre[k] = s + k - 1
    BY <1>1 DEF Whole
<1>4. Track(base, heard, f, total - 1)
    <2> DEFINE last == total - 1 - m
    <2>1. last + m = total - 1 /\ \A k \in 1 .. Len(G) : G[k] = last + k
        <3>1. \A k \in 1 .. Len(G) : G[k] = last + k
            BY <1>2
        <3> HIDE DEF G, m
        <3>2. last + m = total - 1
            BY <1>2
        <3> QED BY <3>1, <3>2
    <2>2. Track(S, heard, f, last) /\ G \in Seq(Nat)
        BY <1>2
    <2> HIDE DEF last, S, G, f
    <2>3. Track(S \o G, heard, f, last + Len(G))
        BY <2>1, <2>2, TrackConcat
    <2> QED BY <2>1, <2>3 DEF S, G
<1>5. f = s + p
    BY DEF First
<1>6. A = pre \o base
    <2>1. A = (pre \o S) \o G
        BY DEF OpenFrames
    <2>2. pre \in Seq(Nat) /\ S \in Seq(Nat) /\ G \in Seq(Nat)
        BY <1>2
    <2> HIDE DEF A, pre, S, G, p, m, s, f, n
    <2>3. (pre \o S) \o G = pre \o (S \o G)
        BY <2>2, ConcatAssociative, SMTT(30)
    <2> QED BY <2>1, <2>3
<1>7. /\ base \in Seq(Nat) /\ n \in Nat /\ n >= 1 /\ base[1] = f /\ base[n] = total - 1
    <2>1. base \in Seq(Nat) /\ base # <<>>
        BY <1>4 DEF Track
    <2>2. n \in Nat /\ n >= 1
        <3> HIDE DEF base
        <3> QED BY <2>1
    <2> QED BY <1>4, <2>1, <2>2 DEF Track
<1>8. \A k \in 1 .. n : base[k] \in Nat
    <2> HIDE DEF base
    <2> QED BY <1>7
<1> HIDE DEF pre, S, G, base, p, m, s, f, n, A
<1>9. /\ Len(A) = p + n
      /\ \A k \in 1 .. p + n : A[k] = IF k <= p THEN pre[k] ELSE base[k - p]
    <2>1. /\ Len(pre \o base) = Len(pre) + Len(base)
          /\ \A k \in 1 .. Len(pre) + Len(base) :
                (pre \o base)[k] = IF k <= Len(pre) THEN pre[k] ELSE base[k - Len(pre)]
        BY <1>2, <1>7, ConcatProperties
    <2> QED BY <1>6, <2>1 DEF p, n
<1>10. \A k \in 1 .. p : A[k] = s + k - 1
    <2>1. \A k \in 1 .. p : k \in 1 .. p + n /\ k <= p
        BY <1>2, <1>7
    <2> QED BY <1>3, <1>9, <2>1
<1>11. \A k \in 1 .. n : A[p + k] = base[k]
    <2> SUFFICES ASSUME NEW k \in 1 .. n PROVE A[p + k] = base[k]
        OBVIOUS
    <2>1. p + k \in 1 .. p + n /\ ~(p + k <= p) /\ (p + k) - p = k
        BY <1>2, <1>7
    <2> QED BY <1>9, <2>1
<1>12. A[1] = s
    <2>1. CASE p = 0
        <3>1. A[p + 1] = f
            BY <1>7, <1>11
        <3> QED BY <1>2, <1>5, <2>1, <3>1
    <2>2. CASE p # 0
        BY <1>2, <1>10, <2>2
    <2> QED BY <2>1, <2>2
<1>13. A[Len(A)] = total - 1
    BY <1>7, <1>9, <1>11
<1>14. ASSUME NEW k \in 1 .. Len(A) - 1
       PROVE  /\ A[k] < A[k + 1]
              /\ Cardinality(A[k] + 1 .. A[k + 1] - 1) * Hop < MinSpeech
              /\ \A j \in A[k] + 1 .. A[k + 1] - 1 : heard[j + 1]
    <2>1. CASE k <= p
        <3>1. A[k] = s + k - 1
            BY <1>10, <2>1
        <3>2. A[k + 1] = s + k
            <4>1. CASE k < p
                <5>1. k + 1 \in 1 .. p
                    BY <1>2, <4>1
                <5>2. A[k + 1] = s + (k + 1) - 1
                    BY <1>10, <5>1
                <5> QED BY <1>2, <5>2
            <4>2. CASE k = p
                <5>1. A[p + 1] = f
                    BY <1>7, <1>11
                <5> QED BY <1>5, <4>2, <5>1
            <4> QED BY <1>2, <2>1, <4>1, <4>2
        <3>3. /\ A[k] \in Nat /\ A[k + 1] \in Nat /\ A[k] < A[k + 1]
              /\ A[k + 1] - A[k] - 1 = 0 /\ A[k] + 1 .. A[k + 1] - 1 = {}
            BY <1>2, <3>1, <3>2
        <3>4. TooShort(A[k + 1] - A[k] - 1)
            BY <3>3, ShortIsShort
        <3> QED BY <3>3, <3>4, MissingFrames
    <2>2. CASE k > p
        <3> DEFINE j == k - p
        <3>1. j \in 1 .. n - 1 /\ j \in 1 .. n /\ j + 1 \in 1 .. n /\ k = p + j
              /\ k + 1 = p + (j + 1)
            BY <1>2, <1>7, <1>9, <2>2
        <3> HIDE DEF j
        <3>2. A[k] = base[j] /\ A[k + 1] = base[j + 1]
            BY <1>11, <3>1
        <3>3. /\ base[j] < base[j + 1] /\ TooShort(base[j + 1] - base[j] - 1)
              /\ \A q \in base[j] + 1 .. base[j + 1] - 1 : heard[q + 1]
            BY <1>4, <3>1 DEF Track, n
        <3>4. base[j] \in Nat /\ base[j + 1] \in Nat
            BY <1>8, <3>1
        <3>5. Cardinality(base[j] + 1 .. base[j + 1] - 1) * Hop < MinSpeech
            BY <3>3, <3>4, MissingFrames
        <3> QED BY <3>2, <3>3, <3>5
    <2> QED BY <1>2, <2>1, <2>2
<1> QED BY <1>12, <1>13, <1>14 DEF OnlyShortBurstsMissing, IsSpeech, A, s

\* The buffers of the detector tell one story, and all the open segment leaves
\* out of the audio since its first frame are bursts of speech that were too
\* short (the gap window of _process_frame).
THEOREM SegmentStaysWhole == Spec => []SegmentIsWhole
<1>1. DetectorInv => SegmentIsWhole
    BY WholeAgrees, WholeMissesBursts DEF SegmentIsWhole
<1> QED BY <1>1, DetectorInit, DetectorStep, PTL DEF Spec

-----------------------------------------------------------------------------
(* The reports *)

\* The frame from which on the next report may say something new.
Bound(v, i) == IF v.in_speech THEN First(v) ELSE i

LEMMA BoundGrows ==
    ASSUME NEW v, NEW h, NEW i, Hears(h, i), SegmentInv(v, h, i), NEW b \in BOOLEAN,
           NEW u, SegmentInv(u, Append(h, b), i + 1),
           IF b THEN Speech(v, u, i) ELSE Silence(v, u, i)
    PROVE  /\ Bound(v, i) \in Nat /\ Bound(u, i + 1) \in Nat
           /\ Bound(v, i) <= Bound(u, i + 1) /\ Bound(u, i + 1) <= i + 1
<1>1. i \in Nat /\ Tidy(v) /\ Whole(v, h, i) /\ Rolled(v, i)
    BY DEF Hears, SegmentInv
<1>2. CASE Opens(v, u, i)
    <2>1. u.speech_start = i - Len(v.pre_buffer) /\ u.pre_snapshot = v.pre_buffer
          /\ ~v.in_speech /\ u.in_speech /\ Len(v.pre_buffer) \in Nat
        BY <1>1, <1>2 DEF Opens, Tidy, Session, Frame
    <2>2. First(u) = i
        BY <1>1, <2>1 DEF First
    <2> QED BY <1>1, <2>1, <2>2 DEF Bound
<1>3. CASE StaysOpen(v, u)
    <2>1. First(u) = First(v) /\ v.in_speech /\ u.in_speech
        BY <1>3 DEF StaysOpen, First
    <2>2. First(v) \in Nat /\ First(v) <= i
        <3>1. First(v) \in Nat /\ First(v) <= i - 1 - Len(v.gap_buffer)
              /\ Len(v.gap_buffer) \in Nat
            BY <1>1, <2>1, OpenFacts
        <3> DEFINE f == First(v)
                   m == Len(v.gap_buffer)
        <3>2. f \in Nat /\ m \in Nat /\ f <= i - 1 - m
            BY <3>1
        <3> HIDE DEF f, m
        <3>3. f <= i
            BY <1>1, <3>2
        <3> QED BY <3>2, <3>3 DEF f
    <2> QED BY <1>1, <2>1, <2>2 DEF Bound
<1>4. CASE Quiet(v, u)
    <2>1. ~v.in_speech /\ ~u.in_speech
        BY <1>1, <1>4 DEF Quiet, Tidy, Session
    <2> QED BY <1>1, <2>1 DEF Bound
<1> QED BY <1>2, <1>3, <1>4
        DEF Speech, Silence, Speaks, OnProbation, Pauses, Merges, Keeps

\* A report of heard frames with enough speech.
SoundReport(r, h, i) ==
    /\ \E s, e \in 0 .. i : Spans(r, s, e)
    /\ \A k \in 1 .. Len(r.audio) : r.audio[k] < i
    /\ ~TooShort(Cardinality(SpeechAt(h, r.audio)))

LEMMA SoundLater ==
    ASSUME NEW h, NEW i, Hears(h, i), NEW b \in BOOLEAN, NEW r, SoundReport(r, h, i)
    PROVE  SoundReport(r, Append(h, b), i + 1)
<1>1. i \in Nat
    BY DEF Hears
<1>2. PICK s \in 0 .. i, e \in 0 .. i : Spans(r, s, e)
    BY DEF SoundReport
<1>3. r.audio \in Seq(Nat)
    BY <1>2 DEF Spans, Segment, Frame
<1>4. \A k \in 1 .. Len(r.audio) : r.audio[k] \in Nat /\ r.audio[k] < i
    BY <1>3 DEF SoundReport
<1>5. SpeechAt(Append(h, b), r.audio) = SpeechAt(h, r.audio)
    BY <1>3, <1>4, CountHeard
<1>6. s \in 0 .. i + 1 /\ e \in 0 .. i + 1
    BY <1>1
<1>7. \A k \in 1 .. Len(r.audio) : r.audio[k] < i + 1
    BY <1>1, <1>4
<1> QED BY <1>2, <1>5, <1>6, <1>7 DEF SoundReport

\* With a pad of one frame at the least no speech that was counted is cut off.
LEMMA ReportKeepsSpeech ==
    ASSUME NEW v, NEW h, NEW i, Closing(v, h, i), Pad >= 1
    PROVE  LET audio == Report(v).audio
               p == Len(v.pre_snapshot)
           IN  /\ audio \in Seq(Nat)
               /\ \A k \in SpeechAt(h, v.segment_frames) :
                     p + k \in 1 .. Len(audio) /\ audio[p + k] = v.segment_frames[k]
               /\ v.speech_frame_count <= Cardinality(SpeechAt(h, audio))
               /\ Cardinality(SpeechAt(h, audio)) \in Nat
<1> DEFINE r == Report(v)
           audio == r.audio
           s == v.speech_start
           p == Len(v.pre_snapshot)
           S == v.segment_frames
           n == Len(S)
           f == First(v)
           L == v.last_speech_end
           e == SegmentEnd(v)
<1>1. ReportedOf(r, v, i)
    BY ReportSays
<1>2. /\ s \in Nat /\ p \in Nat /\ S \in Seq(Nat) /\ n \in Nat /\ L \in Nat /\ f = s + p
      /\ Pad \in Nat
    BY PadAssumption DEF Closing, Session, Frame, First
<1>3. /\ e \in Nat /\ s < e /\ Len(audio) = e - s /\ audio \in Seq(Nat)
      /\ (f + n <= e \/ e = L + Pad)
      /\ \A k \in 1 .. Len(audio) : audio[k] = IF k <= p THEN s + k - 1 ELSE S[k - p]
    BY <1>1 DEF ReportedOf, Spans, Segment, Frame
<1>4. PICK last \in 0 .. i - 1 : Track(S, h, f, last)
    BY DEF Closing
<1>5. \A k \in SpeechAt(h, S) : S[k] < L + Pad
    BY DEF Closing
<1> HIDE DEF r, s, p, S, n, f, L, e
<1>6. ASSUME NEW k \in SpeechAt(h, S)
      PROVE  p + k \in 1 .. Len(audio) /\ audio[p + k] = S[k]
    <2>1. k \in 1 .. n
        BY <1>2 DEF SpeechAt, n
    <2>2. S[k] \in Nat /\ f + k - 1 <= S[k]
        BY <1>2, <1>4, <2>1 DEF Track, n
    <2>3. p + k <= e - s
        <3>1. S[k] < L + Pad
            BY <1>5
        <3>2. f + k <= L + Pad
            BY <1>2, <2>1, <2>2, <3>1
        <3>3. f + k <= f + n
            BY <1>2, <2>1
        <3>4. f + k <= e
            BY <1>2, <1>3, <2>1, <3>2, <3>3
        <3> QED BY <1>2, <1>3, <2>1, <3>4
    <2>4. p + k \in 1 .. Len(audio) /\ ~(p + k <= p) /\ (p + k) - p = k
        BY <1>2, <1>3, <2>1, <2>3
    <2> QED BY <1>3, <2>4
<1>7. IsFiniteSet(SpeechAt(h, audio)) /\ Cardinality(SpeechAt(h, audio)) \in Nat
    BY <1>3, SpeechFinite
<1>8. Cardinality(SpeechAt(h, S)) <= Cardinality(SpeechAt(h, audio))
    <2> DEFINE from == SpeechAt(h, S)
               to == SpeechAt(h, audio)
               g == [k \in from |-> p + k]
    <2>1. \A k \in from : h[S[k] + 1] /\ k \in Nat
        BY <1>2 DEF SpeechAt
    <2>2. \A k \in from : p + k \in to
        <3>1. DOMAIN audio = 1 .. Len(audio)
            BY <1>3
        <3> HIDE DEF audio
        <3> QED BY <1>6, <2>1, <3>1 DEF SpeechAt
    <2> HIDE DEF from, to
    <2>3. g \in [from -> to]
        BY <2>2
    <2>4. \A x, y \in from : g[x] = g[y] => x = y
        BY <1>2, <2>1
    <2>5. IsFiniteSet(to)
        BY <1>7 DEF to
    <2> HIDE DEF g
    <2>6. Cardinality(from) <= Cardinality(to)
        BY <2>3, <2>4, <2>5, InjectionBound
    <2> QED BY <2>6 DEF from, to
<1>9. v.speech_frame_count = Cardinality(SpeechAt(h, S))
    BY DEF Closing, Counted, S
<1>10. v.speech_frame_count <= Cardinality(SpeechAt(h, audio))
    BY <1>8, <1>9
<1> QED BY <1>3, <1>6, <1>7, <1>10 DEF r, p, S

LEMMA ReportIsSound ==
    ASSUME NEW v, NEW h, NEW i, Closing(v, h, i), Pad >= 1, ~TooShort(v.speech_frame_count)
    PROVE  SoundReport(Report(v), h, i)
<1> DEFINE r == Report(v)
           c == Cardinality(SpeechAt(h, r.audio))
<1>1. ReportedOf(r, v, i) /\ i \in Nat
    BY ReportSays DEF Closing
<1>2. v.speech_frame_count <= c /\ c \in Nat /\ v.speech_frame_count \in Nat
    BY ReportKeepsSpeech DEF Closing, Session
<1> HIDE DEF r
<1>3. v.speech_start \in 0 .. i /\ SegmentEnd(v) \in 0 .. i /\ Spans(r, v.speech_start, SegmentEnd(v))
    BY <1>1 DEF ReportedOf, Spans
<1>4. \A k \in 1 .. Len(r.audio) : r.audio[k] < i
    BY <1>1 DEF ReportedOf
<1> HIDE DEF c
<1>5. ~TooShort(c)
    BY <1>2, ShortIsShort
<1> QED BY <1>3, <1>4, <1>5 DEF SoundReport, r, c

Follows(q, r) ==
    q.start_sample < r.start_sample /\ q.end_sample <= r.start_sample + Pad * Hop

\* A report that ends before frame B, and starts before any pre-roll of it.
Before(q, B) == q.start_sample + Pad * Hop < B * Hop /\ q.end_sample <= B * Hop

\* The reports `sg' when `i' frames were heard and the next one is about `B' and
\* what comes after it.
ReportsInOrder(sg, h, i, B) ==
    /\ sg \in Seq(Segment) /\ B \in 0 .. i
    /\ \A k \in 1 .. Len(sg) : SoundReport(sg[k], h, i) /\ Before(sg[k], B)
    /\ \A k \in 1 .. Len(sg) - 1 : Follows(sg[k], sg[k + 1])

LEMMA BeforeLater ==
    ASSUME NEW q \in Segment, NEW B \in Nat, NEW C \in Nat, B <= C, Before(q, B)
    PROVE  Before(q, C)
<1>1. B * Hop <= C * Hop /\ B * Hop \in Nat /\ C * Hop \in Nat /\ Pad * Hop \in Nat
    BY HopOrder, PadAssumption
<1>2. q.start_sample \in Nat /\ q.end_sample \in Nat
    BY DEF Segment
<1> DEFINE x == B * Hop
           y == C * Hop
           z == Pad * Hop
<1>3. x <= y /\ x \in Nat /\ y \in Nat /\ z \in Nat
      /\ q.start_sample + z < x /\ q.end_sample <= x
    BY <1>1 DEF Before
<1> HIDE DEF x, y, z
<1>4. q.start_sample + z < y /\ q.end_sample <= y
    BY <1>2, <1>3
<1> QED BY <1>4 DEF Before, y, z

LEMMA InOrderLater ==
    ASSUME NEW sg, NEW h, NEW i, Hears(h, i), NEW b \in BOOLEAN,
           NEW B, ReportsInOrder(sg, h, i, B), NEW C \in 0 .. i + 1, B <= C
    PROVE  ReportsInOrder(sg, Append(h, b), i + 1, C)
<1>1. sg \in Seq(Segment) /\ B \in Nat /\ C \in Nat
    BY DEF ReportsInOrder, Hears
<1>2. ASSUME NEW k \in 1 .. Len(sg)
      PROVE  SoundReport(sg[k], Append(h, b), i + 1) /\ Before(sg[k], C)
    <2>1. sg[k] \in Segment
        BY <1>1
    <2>2. SoundReport(sg[k], h, i) /\ Before(sg[k], B)
        BY DEF ReportsInOrder
    <2>3. SoundReport(sg[k], Append(h, b), i + 1)
        BY <2>2, SoundLater
    <2>4. Before(sg[k], C)
        BY <1>1, <2>1, <2>2, BeforeLater
    <2> QED BY <2>3, <2>4
<1> QED BY <1>1, <1>2 DEF ReportsInOrder

\* The frames before which a report of the open segment starts.
LEMMA PrerollIsShort ==
    ASSUME NEW q \in Segment, NEW s \in Nat, NEW f \in Nat, f <= s + Pad, Before(q, f)
    PROVE  q.start_sample < s * Hop /\ q.end_sample <= s * Hop + Pad * Hop
<1> DEFINE x == s * Hop
           y == Pad * Hop
           z == f * Hop
<1>1. x \in Nat /\ y \in Nat /\ z \in Nat /\ z <= x + y
    <2>1. s + Pad \in Nat /\ Pad \in Nat /\ (s + Pad) * Hop = s * Hop + Pad * Hop
        BY PadAssumption, HopOrder
    <2>2. f * Hop <= (s + Pad) * Hop
        BY <2>1, HopOrder
    <2> QED BY <2>1, <2>2, HopOrder
<1>2. q.start_sample + y < z /\ q.end_sample <= z
    BY DEF Before
<1>3. q.start_sample \in Nat /\ q.end_sample \in Nat
    BY DEF Segment
<1> HIDE DEF x, y, z
<1>4. q.start_sample < x /\ q.end_sample <= x + y
    BY <1>1, <1>2, <1>3
<1> QED BY <1>4 DEF x, y

\* A segment with enough speech is longer than the pad.
LEMMA ReportIsLong ==
    ASSUME NEW v, NEW h, NEW i, Closing(v, h, i), ~TooShort(v.speech_frame_count),
           Pad * Hop < MinSpeech
    PROVE  v.speech_start + Pad < i
<1> DEFINE c == v.speech_frame_count
           S == v.segment_frames
           n == Len(S)
           f == First(v)
<1>1. /\ c \in Nat /\ S \in Seq(Nat) /\ n \in Nat /\ i \in Nat /\ Pad \in Nat
      /\ v.speech_start \in Nat /\ f \in Nat /\ v.speech_start <= f
    BY PadAssumption, SMTT(30) DEF Closing, Session, Frame, First
<1>2. PICK last \in 0 .. i - 1 : Track(S, h, f, last)
    BY DEF Closing
<1>3. c <= n
    <2>1. c = Cardinality(SpeechAt(h, S))
        BY DEF Closing, Counted
    <2> HIDE DEF S, c
    <2> QED BY <1>1, <2>1, SpeechFinite DEF n
<1>4. c > Pad
    <2>1. c <= Pad => c * Hop <= Pad * Hop /\ c * Hop \in Nat /\ Pad * Hop \in Nat
        BY <1>1, HopOrder
    <2>2. ~(c * Hop < MinSpeech)
        BY DEF TooShort
    <2>3. ~(c <= Pad)
        BY <2>1, <2>2, ThresholdsAssumption
    <2> HIDE DEF c
    <2> QED BY <1>1, <2>3
<1>5. n >= 1
    BY <1>1, <1>3, <1>4
<1> HIDE DEF c, S, n, f
<1>6. f + n - 1 <= last
    <2>1. n \in 1 .. n
        BY <1>1, <1>5
    <2>2. S[n] \in Nat /\ f + n - 1 <= S[n] /\ S[n] <= last
        BY <1>1, <1>2, <2>1 DEF Track, n
    <2> QED BY <1>1, <2>2
<1> QED BY <1>1, <1>3, <1>4, <1>5, <1>6

\* A cut puts its report behind the others.
LEMMA InOrderCut ==
    ASSUME NEW v, NEW h, NEW i, Closing(v, h, i), Pad >= 1, Pad * Hop < MinSpeech,
           NEW sg, ReportsInOrder(sg, h, i, First(v)),
           NEW later, later = IF TooShort(v.speech_frame_count) THEN sg
                              ELSE Append(sg, Report(v))
    PROVE  ReportsInOrder(later, h, i, i)
<1> DEFINE n == Len(sg)
           r == Report(v)
           f == First(v)
           s == v.speech_start
           e == SegmentEnd(v)
<1>1. /\ sg \in Seq(Segment) /\ n \in Nat /\ i \in Nat /\ f \in Nat /\ f <= i
      /\ \A k \in 1 .. n : sg[k] \in Segment
    <2>1. sg \in Seq(Segment) /\ f \in 0 .. i /\ i \in Nat
        BY DEF ReportsInOrder, Closing
    <2> QED BY <2>1
<1>2. ASSUME NEW k \in 1 .. n PROVE SoundReport(sg[k], h, i) /\ Before(sg[k], f) /\ Before(sg[k], i)
    <2>1. SoundReport(sg[k], h, i) /\ Before(sg[k], f)
        BY DEF ReportsInOrder
    <2> HIDE DEF f
    <2> QED BY <1>1, <2>1, BeforeLater
<1>3. i \in 0 .. i
    BY <1>1
<1>4. CASE TooShort(v.speech_frame_count)
    BY <1>1, <1>2, <1>3, <1>4 DEF ReportsInOrder
<1>5. CASE ~TooShort(v.speech_frame_count)
    <2>1. SoundReport(r, h, i)
        BY <1>5, ReportIsSound
    <2>2. /\ r \in Segment /\ s \in Nat /\ e \in Nat /\ e <= i
          /\ r.start_sample = s * Hop /\ r.end_sample = e * Hop
        <3>1. ReportedOf(r, v, i)
            BY ReportSays
        <3> QED BY <3>1 DEF ReportedOf, Spans
    <2>3. s + Pad < i
        BY <1>5, ReportIsLong
    <2>8. later = Append(sg, r)
        BY <1>5
    <2>9. f <= s + Pad
        <3>1. Len(v.pre_snapshot) <= Pad /\ Len(v.pre_snapshot) \in Nat
            BY DEF Closing, Session, Frame
        <3>2. f = s + Len(v.pre_snapshot)
            BY DEF First
        <3> HIDE DEF f, s
        <3> QED BY <2>2, <3>1, <3>2, PadAssumption
    <2> HIDE DEF r, f, s, e
    <2>4. Before(r, i)
        <3>1. (s + Pad) * Hop = s * Hop + Pad * Hop /\ s + Pad \in Nat
            BY <2>2, PadAssumption, HopOrder
        <3>2. (s + Pad) * Hop < i * Hop /\ e * Hop <= i * Hop
            BY <1>1, <2>2, <2>3, <3>1, HopOrder
        <3> QED BY <2>2, <3>1, <3>2 DEF Before
    <2>5. \A k \in 1 .. n : Follows(sg[k], r)
        <3> SUFFICES ASSUME NEW k \in 1 .. n PROVE Follows(sg[k], r)
            OBVIOUS
        <3>1. sg[k] \in Segment /\ Before(sg[k], f)
            BY <1>1, <1>2
        <3>2. sg[k].start_sample < s * Hop /\ sg[k].end_sample <= s * Hop + Pad * Hop
            BY <1>1, <2>2, <2>9, <3>1, PrerollIsShort
        <3> QED BY <2>2, <3>2 DEF Follows
    <2>6. /\ later \in Seq(Segment) /\ Len(later) = n + 1
          /\ \A k \in 1 .. n : later[k] = sg[k]
          /\ later[n + 1] = r
        BY <1>1, <2>2, <2>8, AppendProperties
    <2>11. n \in Nat
        BY <1>1
    <2> HIDE DEF n
    <2>7. /\ \A k \in 1 .. n + 1 : SoundReport(later[k], h, i) /\ Before(later[k], i)
          /\ \A k \in 1 .. n : Follows(later[k], later[k + 1])
        <3>1. ASSUME NEW k \in 1 .. n + 1
              PROVE  SoundReport(later[k], h, i) /\ Before(later[k], i)
            <4>1. CASE k \in 1 .. n
                BY <1>2, <2>6, <4>1
            <4>2. CASE k = n + 1
                BY <2>1, <2>4, <2>6, <4>2
            <4>3. k \in 1 .. n \/ k = n + 1
                BY <2>11
            <4> QED BY <4>1, <4>2, <4>3
        <3>2. ASSUME NEW k \in 1 .. n PROVE Follows(later[k], later[k + 1])
            <4>1. CASE k \in 1 .. n - 1
                <5>1. k + 1 \in 1 .. n
                    BY <1>1, <4>1
                <5>2. Follows(sg[k], sg[k + 1])
                    BY <4>1 DEF ReportsInOrder, n
                <5> QED BY <2>6, <5>1, <5>2
            <4>2. CASE k = n
                BY <2>5, <2>6, <4>2
            <4>3. k \in 1 .. n - 1 \/ k = n
                BY <2>11
            <4> QED BY <4>1, <4>2, <4>3
        <3> QED BY <3>1, <3>2
    <2>10. 1 .. Len(later) - 1 = 1 .. n
        BY <1>1, <2>6
    <2> QED BY <1>3, <2>6, <2>7, <2>10 DEF ReportsInOrder
<1> QED BY <1>4, <1>5

ReportsInv == ReportsInOrder(segments, heard, total, Bound(vad, total))

LEMMA ReportsStep ==
    ASSUME Pad >= 1, Pad * Hop < MinSpeech, DetectorInv, ReportsInv, [Next]_vars
    PROVE  ReportsInv'
<1>1. CASE UNCHANGED <<segments, heard, total, vad>>
    BY <1>1 DEF ReportsInv
<1>2. ASSUME NEW b \in BOOLEAN, ProcessFrame(b) PROVE ReportsInv'
    <2> DEFINE v == Advanced(vad, total, b)
               h == Append(heard, b)
               i == total + 1
               w == Absorbed(v, i - 1)
    <2>1. FrameOutcome(b)
        BY <1>2, FrameStep
    <2>2. /\ total' = i /\ heard' = h /\ Hears(h, i) /\ v \in Session /\ SegmentInv(v, h, i)
          /\ IF b THEN Speech(vad, v, total) ELSE Silence(vad, v, total)
          /\ \/ vad' = v /\ segments' = segments
             \/ v.in_speech /\ Finalize(v)
             \/ v.in_speech /\ Finalize(w)
        BY <2>1 DEF FrameOutcome
    <2>3. Hears(heard, total) /\ SegmentInv(vad, heard, total)
        BY DEF DetectorInv
    <2>4. /\ Bound(vad, total) \in Nat /\ Bound(v, i) \in Nat
          /\ Bound(vad, total) <= Bound(v, i) /\ Bound(v, i) <= i
        BY <2>2, <2>3, BoundGrows
    <2>5. Bound(v, i) \in 0 .. total + 1
        BY <2>4
    <2>6. ReportsInOrder(segments, h, i, Bound(v, i))
        <3> HIDE DEF v
        <3> QED BY <2>3, <2>4, <2>5, InOrderLater DEF ReportsInv
    <2> HIDE DEF v, h, i, w
    <2>7. CASE vad' = v /\ segments' = segments
        BY <2>2, <2>6, <2>7 DEF ReportsInv
    <2>8. ASSUME NEW x, Closing(x, h, i), Rolled(x, i), Finalize(x), First(x) = First(v),
                 v.in_speech
          PROVE  ReportsInv'
        <3>1. ~vad'.in_speech
            BY <2>8, CutStep DEF DetectorInv
        <3>2. segments' = IF TooShort(x.speech_frame_count) THEN segments
                          ELSE Append(segments, Report(x))
            BY <2>8 DEF Finalize
        <3>3. ReportsInOrder(segments, h, i, First(x))
            BY <2>6, <2>8 DEF Bound
        <3>4. ReportsInOrder(segments', h, i, i)
            BY <2>8, <3>2, <3>3, InOrderCut
        <3>5. Bound(vad', total') = i
            BY <2>2, <3>1 DEF Bound
        <3>6. ReportsInOrder(segments', heard', total', Bound(vad', total'))
            BY <2>2, <3>4, <3>5
        <3> QED BY <3>6 DEF ReportsInv
    <2>9. CASE v.in_speech /\ Finalize(v)
        BY <2>2, <2>8, <2>9, ClosingAsIs DEF SegmentInv
    <2>10. CASE v.in_speech /\ Finalize(w)
        <3>1. Closing(w, h, i) /\ Rolled(w, i) /\ First(w) = First(v)
            BY <2>2, <2>10, ClosingAbsorbed DEF w
        <3> QED BY <2>8, <2>10, <3>1
    <2> QED BY <2>2, <2>7, <2>9, <2>10
<1>3. CASE Flush
    <2>1. /\ total' = total /\ heard' = heard
          /\ \/ vad' = vad /\ segments' = segments
             \/ vad.in_speech /\ Closing(vad, heard, total) /\ Rolled(vad, total) /\ Finalize(vad)
        BY <1>3, FlushOutcome
    <2>2. CASE vad' = vad /\ segments' = segments
        BY <2>1, <2>2 DEF ReportsInv
    <2>3. CASE /\ vad.in_speech /\ Closing(vad, heard, total) /\ Rolled(vad, total)
               /\ Finalize(vad)
        <3>1. ~vad'.in_speech
            BY <2>3, CutStep DEF DetectorInv
        <3>2. segments' = IF TooShort(vad.speech_frame_count) THEN segments
                          ELSE Append(segments, Report(vad))
            BY <2>3 DEF Finalize
        <3>3. ReportsInOrder(segments, heard, total, First(vad))
            BY <2>3 DEF Bound, ReportsInv
        <3>4. ReportsInOrder(segments', heard, total, total)
            BY <2>3, <3>2, <3>3, InOrderCut
        <3>5. Bound(vad', total') = total
            BY <2>1, <3>1 DEF Bound
        <3>6. ReportsInOrder(segments', heard', total', Bound(vad', total'))
            BY <2>1, <3>4, <3>5
        <3> QED BY <3>6 DEF ReportsInv
    <2> QED BY <2>1, <2>2, <2>3
<1> QED BY <1>1, <1>2, <1>3 DEF Next, vars, FeedAudio, FeedReturns

LEMMA ReportsInit == Init => ReportsInv
<1> SUFFICES ASSUME Init PROVE ReportsInv
    OBVIOUS
<1>1. segments = <<>> /\ total = 0 /\ ~vad.in_speech
    BY DEF Init
<1>2. Bound(vad, total) = 0
    BY <1>1 DEF Bound
<1>3. segments \in Seq(Segment) /\ Len(segments) = 0
    BY <1>1
<1> QED BY <1>1, <1>2, <1>3 DEF ReportsInv, ReportsInOrder

LEMMA InOrderIsSound == ReportsInv /\ total \in Nat => ReportsAreSound
<1> SUFFICES ASSUME ReportsInv, total \in Nat PROVE ReportsAreSound
    OBVIOUS
<1>1. /\ segments \in Seq(Segment)
      /\ \A k \in 1 .. Len(segments) : SoundReport(segments[k], heard, total)
      /\ \A k \in 1 .. Len(segments) - 1 : Follows(segments[k], segments[k + 1])
    BY DEF ReportsInv, ReportsInOrder
<1>2. ASSUME NEW r, SoundReport(r, heard, total)
      PROVE  /\ r.start_sample < r.end_sample /\ r.end_sample <= total * Hop
             /\ Len(r.audio) * Hop = r.end_sample - r.start_sample
             /\ Cardinality(SpeechIn(r.audio)) * Hop >= MinSpeech
    <2>1. PICK s \in 0 .. total, e \in 0 .. total : Spans(r, s, e)
        BY <1>2 DEF SoundReport
    <2>2. /\ s < e /\ r.start_sample = s * Hop /\ r.end_sample = e * Hop
          /\ Len(r.audio) = e - s /\ r.audio \in Seq(Nat)
        BY <2>1 DEF Spans, Segment, Frame
    <2>3. s * Hop < e * Hop /\ e * Hop <= total * Hop
        BY <2>2, HopOrder
    <2>4. (e - s) * Hop = e * Hop - s * Hop
        <3> DEFINE d == e - s
        <3>1. d \in Nat /\ s + d = e /\ s \in Nat
            BY <2>2
        <3> HIDE DEF d
        <3>2. (s + d) * Hop = s * Hop + d * Hop /\ s * Hop \in Nat /\ d * Hop \in Nat
            BY <3>1, HopOrder
        <3>3. e * Hop = s * Hop + d * Hop
            BY <3>1, <3>2
        <3> DEFINE x == s * Hop
                   y == d * Hop
                   z == e * Hop
        <3>4. x \in Nat /\ y \in Nat /\ z = x + y
            BY <3>2, <3>3
        <3> HIDE DEF x, y, z
        <3>5. y = z - x
            BY <3>4
        <3> QED BY <3>5 DEF x, y, z, d
    <2>5. Cardinality(SpeechIn(r.audio)) * Hop >= MinSpeech
        <3> DEFINE c == Cardinality(SpeechIn(r.audio))
        <3>1. SpeechIn(r.audio) = SpeechAt(heard, r.audio)
            BY DEF SpeechIn, SpeechAt, IsSpeech
        <3>2. c \in Nat
            BY <2>2, <3>1, SpeechFinite
        <3>3. ~(c * Hop < MinSpeech)
            BY <1>2, <3>1 DEF SoundReport, TooShort
        <3> HIDE DEF c
        <3>4. c * Hop \in Nat
            BY <3>2, HopOrder
        <3> QED BY <3>3, <3>4, ThresholdsAssumption DEF c
    <2> QED BY <2>2, <2>3, <2>4, <2>5
<1>3. DOMAIN segments = 1 .. Len(segments)
    BY <1>1
<1> QED BY <1>1, <1>2, <1>3 DEF ReportsAreSound, Follows

\* A report is about audio that was heard, its audio is as long as it says and
\* holds enough speech, and reports come in order and share no more than the
\* pre-roll (_finalize_segment), when the pad is one frame at the least and
\* shorter than the least amount of speech (ASR_PAD_FRAMES, MIN_SPEECH_DURATION).
THEOREM ReportsStaySound ==
    ASSUME Pad >= 1, Pad * Hop < MinSpeech
    PROVE  Spec => []ReportsAreSound
<1>1. Init => DetectorInv /\ ReportsInv
    BY DetectorInit, ReportsInit
<1>2. (DetectorInv /\ ReportsInv) /\ [Next]_vars => (DetectorInv /\ ReportsInv)'
    BY DetectorStep, ReportsStep
<1>3. DetectorInv /\ ReportsInv => ReportsAreSound
    BY InOrderIsSound DEF DetectorInv, Hears
<1> QED BY <1>1, <1>2, <1>3, PTL DEF Spec

-----------------------------------------------------------------------------
(* Bursts of speech *)

Burst(h, b) == {a \in 0 .. b : \A j \in a .. b : h[j + 1]}

EndsIn(h, i, b) == b \in 0 .. i - 1 /\ h[b + 1] /\ b < i - 1 /\ ~h[(b + 1) + 1]

\* One frame of B at the least was reported.
Told(sg, B) == \E x \in B : \E k \in DOMAIN sg : x \in Range(sg[k].audio)

\* A long burst that ended was reported, or the open segment has all of it.
Ended(v, sg, h, i) ==
    \A b : EndsIn(h, i, b) /\ ~TooShort(Cardinality(Burst(h, b))) =>
              \/ Told(sg, Burst(h, b))
              \/ v.in_speech /\ Burst(h, b) \subseteq Range(v.segment_frames)

\* The burst that goes on was reported in part, or counts, or is on probation.
Trailing(v, sg, h, i) ==
    i >= 1 /\ h[i] =>
        \/ Told(sg, Burst(h, i - 1))
        \/ /\ v.in_speech
           /\ Burst(h, i - 1) \subseteq
                 IF v.silence_frame_count = 0 THEN Range(v.segment_frames)
                 ELSE Range(v.gap_buffer)

LEMMA BurstHeard ==
    ASSUME NEW h, NEW i, Hears(h, i), NEW c \in BOOLEAN, NEW b \in 0 .. i - 1
    PROVE  Burst(Append(h, c), b) = Burst(h, b)
<1> DEFINE later == Append(h, c)
<1>1. i \in Nat /\ \A j \in 0 .. i - 1 : later[j + 1] = h[j + 1]
    BY HearsOn DEF Hears
<1> HIDE DEF later
<1>2. ASSUME NEW a \in 0 .. b, NEW j \in a .. b PROVE later[j + 1] = h[j + 1]
    <2>1. j \in 0 .. i - 1
        BY <1>1
    <2> QED BY <1>1, <2>1
<1>3. Burst(later, b) = Burst(h, b)
    BY <1>2 DEF Burst
<1> QED BY <1>3 DEF later

LEMMA BurstNow ==
    ASSUME NEW h, NEW i, Hears(h, i)
    PROVE  LET T == Burst(Append(h, TRUE), i)
           IN  /\ i \in T
               /\ i >= 1 /\ h[i] => T = Burst(h, i - 1) \cup {i}
               /\ ~(i >= 1 /\ h[i]) => T = {i}
<1> DEFINE later == Append(h, TRUE)
           T == Burst(later, i)
<1>1. i \in Nat /\ later[i + 1] /\ \A j \in 0 .. i - 1 : later[j + 1] = h[j + 1]
    BY HearsOn DEF Hears
<1> HIDE DEF later
<1>2. i \in T
    <2>1. i \in 0 .. i /\ \A j \in i .. i : j = i
        BY <1>1
    <2> QED BY <1>1, <2>1 DEF Burst
<1>3. ASSUME NEW a \in T, a # i PROVE i >= 1 /\ h[i] /\ a \in Burst(h, i - 1)
    <2>1. a \in 0 .. i /\ \A j \in a .. i : later[j + 1]
        BY DEF Burst
    <2>2. a \in 0 .. i - 1 /\ i >= 1 /\ i - 1 \in 0 .. i - 1 /\ i - 1 \in a .. i
          /\ (i - 1) + 1 = i
        BY <1>1, <1>3, <2>1
    <2>3. later[(i - 1) + 1] = h[(i - 1) + 1] /\ later[(i - 1) + 1]
        BY <1>1, <2>1, <2>2
    <2>4. h[i]
        BY <2>2, <2>3
    <2>5. ASSUME NEW j \in a .. i - 1 PROVE h[j + 1]
        <3>1. j \in a .. i /\ j \in 0 .. i - 1
            BY <1>1, <2>2
        <3> QED BY <1>1, <2>1, <3>1
    <2> QED BY <2>2, <2>4, <2>5 DEF Burst
<1>4. ASSUME i >= 1, NEW a \in Burst(h, i - 1) PROVE a \in T
    <2>1. a \in 0 .. i - 1 /\ \A j \in a .. i - 1 : h[j + 1]
        BY DEF Burst
    <2>2. a \in 0 .. i
        BY <1>1, <2>1
    <2>3. ASSUME NEW j \in a .. i PROVE later[j + 1]
        <3>1. CASE j = i
            BY <1>1, <3>1
        <3>2. CASE j # i
            <4>1. j \in a .. i - 1 /\ j \in 0 .. i - 1
                BY <1>1, <2>1, <3>2
            <4> QED BY <1>1, <2>1, <4>1
        <3> QED BY <3>1, <3>2
    <2> QED BY <2>2, <2>3 DEF Burst
<1> HIDE DEF T
<1>5. /\ i \in T
      /\ i >= 1 /\ h[i] => T = Burst(h, i - 1) \cup {i}
      /\ ~(i >= 1 /\ h[i]) => T = {i}
    BY <1>2, <1>3, <1>4
<1> QED BY <1>5 DEF T, later

LEMMA BurstFacts ==
    ASSUME NEW h, NEW b \in Nat
    PROVE  /\ \A x \in Burst(h, b) : x \in Nat /\ h[x + 1]
           /\ h[b + 1] => b \in Burst(h, b)
<1>1. \A x \in 0 .. b : x \in x .. b /\ x \in Nat
    OBVIOUS
<1>2. b \in 0 .. b /\ \A j \in b .. b : j = b
    OBVIOUS
<1> QED BY <1>1, <1>2 DEF Burst

LEMMA RangeAppend ==
    ASSUME NEW S \in Seq(Nat), NEW j \in Nat
    PROVE  Range(Append(S, j)) = Range(S) \cup {j}
<1> DEFINE n == Len(S)
           A == Append(S, j)
<1>1. n \in Nat /\ DOMAIN S = 1 .. n
    OBVIOUS
<1>2. DOMAIN A = 1 .. n + 1 /\ A[n + 1] = j /\ \A k \in 1 .. n : A[k] = S[k]
    BY AppendProperties, LenProperties
<1> HIDE DEF n, A
<1>3. \A k \in 1 .. n + 1 : k \in 1 .. n \/ k = n + 1
    BY <1>1
<1>4. n + 1 \in 1 .. n + 1 /\ \A k \in 1 .. n : k \in 1 .. n + 1
    BY <1>1
<1>5. Range(A) = Range(S) \cup {j}
    BY <1>1, <1>2, <1>3, <1>4 DEF Range
<1> QED BY <1>5 DEF A

LEMMA RangeConcat ==
    ASSUME NEW S \in Seq(Nat), NEW G \in Seq(Nat)
    PROVE  Range(S \o G) = Range(S) \cup Range(G)
<1> DEFINE n == Len(S)
           m == Len(G)
           A == S \o G
<1>1. n \in Nat /\ m \in Nat /\ DOMAIN S = 1 .. n /\ DOMAIN G = 1 .. m
    OBVIOUS
<1>2. /\ DOMAIN A = 1 .. n + m
      /\ \A k \in 1 .. n + m : A[k] = IF k <= n THEN S[k] ELSE G[k - n]
    BY ConcatProperties, LenProperties
<1> HIDE DEF n, m, A
<1>3. ASSUME NEW k \in 1 .. n PROVE k \in 1 .. n + m /\ A[k] = S[k]
    BY <1>1, <1>2
<1>4. ASSUME NEW k \in 1 .. m PROVE n + k \in 1 .. n + m /\ A[n + k] = G[k]
    <2>1. n + k \in 1 .. n + m /\ ~(n + k <= n) /\ (n + k) - n = k
        BY <1>1
    <2> QED BY <1>2, <2>1
<1>5. ASSUME NEW k \in 1 .. n + m
      PROVE  \/ k \in 1 .. n /\ A[k] = S[k]
             \/ k - n \in 1 .. m /\ A[k] = G[k - n]
    BY <1>1, <1>2
<1>6. Range(A) \subseteq Range(S) \cup Range(G)
    BY <1>1, <1>2, <1>5 DEF Range
<1>7. Range(S) \subseteq Range(A)
    BY <1>1, <1>2, <1>3 DEF Range
<1>8. Range(G) \subseteq Range(A)
    <2> SUFFICES ASSUME NEW x \in Range(G) PROVE x \in Range(A)
        OBVIOUS
    <2>1. PICK k \in 1 .. m : x = G[k]
        BY <1>1 DEF Range
    <2>2. n + k \in DOMAIN A /\ A[n + k] = x
        BY <1>2, <1>4, <2>1
    <2> QED BY <2>2 DEF Range
<1>9. Range(A) = Range(S) \cup Range(G)
    BY <1>6, <1>7, <1>8
<1> QED BY <1>9 DEF A

\* A burst the frames hold is not longer than the speech they hold.
LEMMA HeldBurst ==
    ASSUME NEW h, NEW S \in Seq(Nat), NEW B, B \subseteq Range(S), \A x \in B : h[x + 1]
    PROVE  /\ Cardinality(B) <= Cardinality(SpeechAt(h, S)) /\ Cardinality(B) \in Nat
           /\ Cardinality(SpeechAt(h, S)) \in Nat
           /\ \A x \in B : \E k \in SpeechAt(h, S) : S[k] = x
<1>1. \A x \in B : \E k \in SpeechAt(h, S) : S[k] = x
    BY DEF Range, SpeechAt
<1>2. IsFiniteSet(SpeechAt(h, S)) /\ Cardinality(SpeechAt(h, S)) \in Nat
    BY SpeechFinite
<1>3. IsFiniteSet(B) /\ Cardinality(B) <= Cardinality(SpeechAt(h, S))
    BY <1>1, <1>2, ImageBound
<1> QED BY <1>1, <1>2, <1>3, FS_CardinalityType

\* What the frames hold of a burst is reported.
LEMMA ReportTells ==
    ASSUME NEW v, NEW h, NEW i, Closing(v, h, i), Pad >= 1,
           NEW x \in Range(v.segment_frames), h[x + 1]
    PROVE  x \in Range(Report(v).audio)
<1> DEFINE S == v.segment_frames
           audio == Report(v).audio
           p == Len(v.pre_snapshot)
<1>1. S \in Seq(Nat)
    BY DEF Closing, Session, Frame
<1>2. PICK k \in SpeechAt(h, S) : S[k] = x
    BY <1>1 DEF Range, SpeechAt
<1>3. p + k \in 1 .. Len(audio) /\ audio[p + k] = S[k] /\ audio \in Seq(Nat)
    BY ReportKeepsSpeech
<1> HIDE DEF audio
<1>4. DOMAIN audio = 1 .. Len(audio)
    BY <1>3
<1> QED BY <1>2, <1>3, <1>4 DEF Range, audio

LEMMA ToldLater ==
    ASSUME NEW sg \in Seq(Segment), NEW r \in Segment, NEW B
    PROVE  /\ Told(sg, B) => Told(Append(sg, r), B)
           /\ (\E x \in B : x \in Range(r.audio)) => Told(Append(sg, r), B)
<1> DEFINE n == Len(sg)
           A == Append(sg, r)
<1>1. n \in Nat /\ DOMAIN sg = 1 .. n
    OBVIOUS
<1>2. DOMAIN A = 1 .. n + 1 /\ A[n + 1] = r /\ \A k \in 1 .. n : A[k] = sg[k]
    BY AppendProperties, LenProperties
<1> HIDE DEF n, A
<1>3. n + 1 \in 1 .. n + 1 /\ \A k \in 1 .. n : k \in 1 .. n + 1
    BY <1>1
<1>4. /\ Told(sg, B) => Told(A, B)
      /\ (\E x \in B : x \in Range(r.audio)) => Told(A, B)
    BY <1>1, <1>2, <1>3 DEF Told
<1> QED BY <1>4 DEF A

\* A burst of one frame more.
LEMMA TrailGrows ==
    ASSUME NEW h, NEW i, Hears(h, i), NEW sg, NEW R,
           i >= 1 /\ h[i] => Told(sg, Burst(h, i - 1)) \/ Burst(h, i - 1) \subseteq R
    PROVE  LET T == Burst(Append(h, TRUE), i)
           IN  Told(sg, T) \/ T \subseteq R \cup {i}
<1> DEFINE T == Burst(Append(h, TRUE), i)
<1>1. /\ i >= 1 /\ h[i] => T = Burst(h, i - 1) \cup {i}
      /\ ~(i >= 1 /\ h[i]) => T = {i}
    BY BurstNow
<1> HIDE DEF T
<1>2. Told(sg, T) \/ T \subseteq R \cup {i}
    BY <1>1 DEF Told
<1> QED BY <1>2 DEF T

\* What a frame of speech does to the bursts.
LEMMA SpeechBursts ==
    ASSUME NEW v, NEW h, NEW i, Hears(h, i), SegmentInv(v, h, i), NEW sg,
           Ended(v, sg, h, i), Trailing(v, sg, h, i), NEW u, Speech(v, u, i)
    PROVE  /\ Ended(u, sg, Append(h, TRUE), i + 1)
           /\ Trailing(u, sg, Append(h, TRUE), i + 1)
<1> DEFINE later == Append(h, TRUE)
           R == IF v.silence_frame_count = 0 THEN Range(v.segment_frames)
                ELSE Range(v.gap_buffer)
           T == Burst(later, i)
<1>1. /\ i \in Nat /\ later[i + 1]
      /\ \A j \in 0 .. i - 1 : later[j + 1] = h[j + 1]
    BY HearsOn DEF Hears
<1>2. Tidy(v) /\ v.segment_frames \in Seq(Nat) /\ v.gap_buffer \in Seq(Nat)
    BY DEF SegmentInv, Tidy, Session, Frame
<1>3. \A b \in 0 .. i - 1 : Burst(later, b) = Burst(h, b)
    BY <1>1, BurstHeard
<1>4. /\ Range(<<>>) = {}
      /\ Range(Append(v.segment_frames, i)) = Range(v.segment_frames) \cup {i}
      /\ Range(Append(v.gap_buffer, i)) = Range(v.gap_buffer) \cup {i}
      /\ Range(Append(<<>>, i)) = {i}
    <2>1. <<>> \in Seq(Nat) /\ Range(<<>>) = {}
        BY DEF Range
    <2>2. Range(Append(v.segment_frames, i)) = Range(v.segment_frames) \cup {i}
        BY <1>1, <1>2, RangeAppend
    <2>3. Range(Append(v.gap_buffer, i)) = Range(v.gap_buffer) \cup {i}
        BY <1>1, <1>2, RangeAppend
    <2>4. Range(Append(<<>>, i)) = Range(<<>>) \cup {i}
        BY <1>1, <2>1, RangeAppend
    <2> QED BY <2>1, <2>2, <2>3, <2>4
<1>5. i \in T
    BY BurstNow
<1>6. (i + 1) - 1 = i /\ i + 1 >= 1
    BY <1>1
<1> HIDE DEF later
<1>7. ASSUME NEW b, EndsIn(later, i + 1, b)
      PROVE  b \in 0 .. i - 1 /\ EndsIn(h, i, b) /\ Burst(later, b) = Burst(h, b)
    <2>1. b \in 0 .. i /\ later[b + 1] /\ b < i /\ ~later[(b + 1) + 1]
        BY <1>1, <1>7 DEF EndsIn
    <2>2. b \in 0 .. i - 1
        BY <1>1, <2>1
    <2>3. b # i - 1
        <3>1. b = i - 1 => b + 1 = i
            BY <1>1, <2>2
        <3> QED BY <1>1, <2>1, <3>1
    <2>4. b + 1 \in 0 .. i - 1 /\ b < i - 1
        BY <1>1, <2>2, <2>3
    <2>5. h[b + 1] /\ ~h[(b + 1) + 1]
        BY <1>1, <2>1, <2>2, <2>4
    <2> QED BY <1>3, <2>2, <2>4, <2>5 DEF EndsIn
<1>8. CASE Opens(v, u, i)
    <2>1. ~v.in_speech /\ u.in_speech /\ u.segment_frames = Append(<<>>, i)
          /\ u.silence_frame_count = 0
        BY <1>8 DEF Opens
    <2>2. Ended(u, sg, later, i + 1)
        BY <1>7, <2>1 DEF Ended
    <2>3. i >= 1 /\ h[i] => Told(sg, Burst(h, i - 1)) \/ Burst(h, i - 1) \subseteq {}
        BY <2>1 DEF Trailing
    <2>4. Told(sg, T) \/ T \subseteq {} \cup {i}
        BY <2>3, TrailGrows DEF later
    <2>5. Trailing(u, sg, later, i + 1)
        BY <1>4, <1>6, <2>1, <2>4 DEF Trailing, T
    <2> QED BY <2>2, <2>5 DEF later
<1>9. CASE Speaks(v, u, i) \/ OnProbation(v, u, i)
    <2>1. /\ v.in_speech /\ u.in_speech
          /\ Range(v.segment_frames) \subseteq Range(u.segment_frames)
          /\ R \cup {i} = IF u.silence_frame_count = 0 THEN Range(u.segment_frames)
                          ELSE Range(u.gap_buffer)
        <3>1. CASE Speaks(v, u, i)
            BY <1>4, <3>1 DEF Speaks, StaysOpen
        <3>2. CASE OnProbation(v, u, i)
            <4>1. v.silence_frame_count # 0 /\ u.silence_frame_count # 0
                <5>1. v.silence_frame_count > 0 /\ v.silence_frame_count \in Nat
                      /\ u.silence_frame_count = v.silence_frame_count
                    BY <1>2, <3>2 DEF OnProbation, Tidy, Session
                <5> QED BY <5>1
            <4> QED BY <1>4, <3>2, <4>1 DEF OnProbation, StaysOpen
        <3> QED BY <1>9, <3>1, <3>2
    <2>2. Ended(u, sg, later, i + 1)
        BY <1>7, <2>1 DEF Ended
    <2>3. i >= 1 /\ h[i] => Told(sg, Burst(h, i - 1)) \/ Burst(h, i - 1) \subseteq R
        BY DEF Trailing
    <2> HIDE DEF R
    <2>4. Told(sg, T) \/ T \subseteq R \cup {i}
        BY <2>3, TrailGrows DEF later
    <2>5. Trailing(u, sg, later, i + 1)
        BY <1>6, <2>1, <2>4 DEF Trailing, T
    <2> QED BY <2>2, <2>5 DEF later
<1> QED BY <1>8, <1>9 DEF Speech

\* And a frame of silence, which ends the burst before it.
LEMMA SilenceBursts ==
    ASSUME NEW v, NEW h, NEW i, Hears(h, i), SegmentInv(v, h, i), NEW sg,
           Ended(v, sg, h, i), Trailing(v, sg, h, i), NEW u, Silence(v, u, i)
    PROVE  /\ Ended(u, sg, Append(h, FALSE), i + 1)
           /\ Trailing(u, sg, Append(h, FALSE), i + 1)
<1> DEFINE later == Append(h, FALSE)
           S == v.segment_frames
           G == v.gap_buffer
<1>1. /\ i \in Nat /\ ~later[i + 1]
      /\ \A j \in 0 .. i - 1 : later[j + 1] = h[j + 1]
    BY HearsOn DEF Hears
<1>2. Tidy(v) /\ S \in Seq(Nat) /\ G \in Seq(Nat) /\ v \in Session
    BY DEF SegmentInv, Tidy, Session, Frame
<1>3. \A b \in 0 .. i - 1 : Burst(later, b) = Burst(h, b)
    BY <1>1, BurstHeard
<1>4. (i + 1) - 1 = i /\ (i - 1) + 1 = i
    BY <1>1
<1> HIDE DEF later
<1>5. Trailing(u, sg, later, i + 1)
    BY <1>1 DEF Trailing
<1>6. ASSUME NEW b, EndsIn(later, i + 1, b)
      PROVE  /\ b \in 0 .. i - 1 /\ Burst(later, b) = Burst(h, b) /\ h[b + 1]
             /\ EndsIn(h, i, b) \/ (b = i - 1 /\ i >= 1 /\ h[i])
    <2>1. b \in 0 .. i /\ later[b + 1] /\ b < i /\ ~later[(b + 1) + 1]
        BY <1>1, <1>6 DEF EndsIn
    <2>2. b \in 0 .. i - 1
        BY <1>1, <2>1
    <2>3. h[b + 1]
        BY <1>1, <2>1, <2>2
    <2>4. CASE b = i - 1
        <3>1. b + 1 = i /\ i >= 1
            BY <1>1, <2>2, <2>4
        <3> QED BY <1>3, <2>2, <2>3, <2>4, <3>1
    <2>5. CASE b # i - 1
        <3>1. b + 1 \in 0 .. i - 1 /\ b < i - 1
            BY <1>1, <2>2, <2>5
        <3>2. ~h[(b + 1) + 1]
            BY <1>1, <2>1, <3>1
        <3> QED BY <1>3, <2>2, <2>3, <3>1, <3>2 DEF EndsIn
    <2> QED BY <2>4, <2>5
<1>7. v.in_speech => u.in_speech /\ Range(S) \subseteq Range(u.segment_frames)
    <2>1. Range(S) \subseteq Range(Append(S, i))
        BY <1>1, <1>2, RangeAppend
    <2>2. Range(S) \subseteq Range(Append(S \o G, i))
        <3>1. S \o G \in Seq(Nat)
            BY <1>2
        <3>2. Range(S \o G) = Range(S) \cup Range(G)
            BY <1>2, RangeConcat
        <3> HIDE DEF S, G
        <3> QED BY <1>1, <3>1, <3>2, RangeAppend
    <2> QED BY <2>1, <2>2 DEF Silence, Pauses, Merges, Keeps, Quiet, StaysOpen
<1>8. ASSUME i >= 1, h[i], ~TooShort(Cardinality(Burst(h, i - 1)))
      PROVE  \/ Told(sg, Burst(h, i - 1))
             \/ u.in_speech /\ Burst(h, i - 1) \subseteq Range(u.segment_frames)
    <2> DEFINE T == Burst(h, i - 1)
    <2>1. \/ Told(sg, T)
          \/ v.in_speech /\ T \subseteq IF v.silence_frame_count = 0 THEN Range(S) ELSE Range(G)
        BY <1>8 DEF Trailing
    <2>2. i - 1 \in T /\ \A x \in T : x \in Nat /\ h[x + 1]
        <3>1. i - 1 \in Nat /\ h[(i - 1) + 1]
            BY <1>1, <1>4, <1>8
        <3> QED BY <3>1, BurstFacts
    <2>3. ~TooShort(Cardinality(T))
        BY <1>8
    <2> HIDE DEF T
    <2>4. ASSUME v.in_speech, T \subseteq Range(S)
          PROVE  u.in_speech /\ T \subseteq Range(u.segment_frames)
        BY <1>7, <2>4
    <2>5. ASSUME v.in_speech, T \subseteq Range(G)
          PROVE  u.in_speech /\ T \subseteq Range(u.segment_frames)
        <3>1. CASE NoGap(v)
            <4>1. Range(G) = {}
                BY <3>1 DEF NoGap, Range
            <4> QED BY <2>2, <2>5, <4>1
        <3>2. CASE Merges(v, u, i)
            <4>1. Cardinality(T) <= Cardinality(SpeechAt(h, G)) /\ Cardinality(T) \in Nat
                  /\ Cardinality(SpeechAt(h, G)) \in Nat
                BY <1>2, <2>2, <2>5, HeldBurst
            <4>2. Cardinality(SpeechAt(h, G)) <= Len(G) /\ Len(G) \in Nat
                BY <1>2, SpeechFinite
            <4>3. TooShort(Len(G))
                BY <1>2, <3>2 DEF Merges, Tidy
            <4>4. Cardinality(T) <= Len(G)
                BY <4>1, <4>2
            <4> QED BY <2>3, <4>1, <4>2, <4>3, <4>4, ShortIsShort
        <3>3. CASE Keeps(v, u, i)
            <4>1. u.in_speech /\ u.segment_frames = Append(S \o G, i)
                BY <3>3 DEF Keeps, StaysOpen
            <4>2. S \o G \in Seq(Nat)
                BY <1>2
            <4>3. Range(S \o G) = Range(S) \cup Range(G)
                BY <1>2, RangeConcat
            <4> HIDE DEF S, G
            <4>4. Range(u.segment_frames) = Range(S) \cup Range(G) \cup {i}
                BY <1>1, <4>1, <4>2, <4>3, RangeAppend
            <4> QED BY <2>5, <4>1, <4>4
        <3> QED BY <2>5, <3>1, <3>2, <3>3 DEF Silence, Pauses, Quiet
    <2> QED BY <2>1, <2>4, <2>5 DEF T
<1>9. Ended(u, sg, later, i + 1)
    <2> SUFFICES ASSUME NEW b, EndsIn(later, i + 1, b), ~TooShort(Cardinality(Burst(later, b)))
                 PROVE  \/ Told(sg, Burst(later, b))
                        \/ u.in_speech /\ Burst(later, b) \subseteq Range(u.segment_frames)
        BY DEF Ended
    <2>1. Burst(later, b) = Burst(h, b)
        BY <1>6
    <2>2. CASE EndsIn(h, i, b)
        <3>1. \/ Told(sg, Burst(h, b))
              \/ v.in_speech /\ Burst(h, b) \subseteq Range(S)
            BY <2>1, <2>2 DEF Ended
        <3> QED BY <1>7, <2>1, <3>1
    <2>3. CASE b = i - 1 /\ i >= 1 /\ h[i]
        BY <1>8, <2>1, <2>3
    <2> QED BY <1>6, <2>2, <2>3
<1> QED BY <1>5, <1>9 DEF later

\* A cut loses no long burst that ended: a segment that holds one is reported.
LEMMA CutTells ==
    ASSUME NEW w, NEW h, NEW i, Closing(w, h, i), Pad >= 1, NEW sg \in Seq(Segment),
           NEW v, Ended(v, sg, h, i), Range(v.segment_frames) \subseteq Range(w.segment_frames),
           NEW later, later = IF TooShort(w.speech_frame_count) THEN sg
                              ELSE Append(sg, Report(w)),
           NEW x
    PROVE  Ended(x, later, h, i)
<1>1. w.segment_frames \in Seq(Nat) /\ w.speech_frame_count \in Nat
      /\ w.speech_frame_count = Cardinality(SpeechAt(h, w.segment_frames)) /\ i \in Nat
    BY DEF Closing, Counted, Session, Frame
<1>2. Report(w) \in Segment
    BY ReportSays DEF ReportedOf, Spans
<1> SUFFICES ASSUME NEW b, EndsIn(h, i, b), ~TooShort(Cardinality(Burst(h, b)))
             PROVE  Told(later, Burst(h, b))
    BY DEF Ended
<1> DEFINE B == Burst(h, b)
<1>3. b \in Nat /\ h[b + 1]
    BY <1>1 DEF EndsIn
<1>4. b \in B /\ \A y \in B : h[y + 1]
    BY <1>3, BurstFacts
<1>5. Told(sg, B) \/ B \subseteq Range(w.segment_frames)
    BY DEF Ended
<1>10. ~TooShort(Cardinality(B))
    OBVIOUS
<1> HIDE DEF B
<1>6. CASE Told(sg, B)
    BY <1>2, <1>6, ToldLater DEF B
<1>7. CASE B \subseteq Range(w.segment_frames)
    <2>1. Cardinality(B) <= w.speech_frame_count /\ Cardinality(B) \in Nat
        <3> DEFINE S == w.segment_frames
        <3>1. S \in Seq(Nat) /\ B \subseteq Range(S) /\ w.speech_frame_count = Cardinality(SpeechAt(h, S))
            BY <1>1, <1>7
        <3> HIDE DEF S
        <3>2. Cardinality(B) <= Cardinality(SpeechAt(h, S)) /\ Cardinality(B) \in Nat
            BY <1>4, <3>1, HeldBurst
        <3> QED BY <3>1, <3>2
    <2>2. ~TooShort(w.speech_frame_count)
        BY <1>1, <1>10, <2>1, ShortIsShort
    <2>3. b \in Range(Report(w).audio)
        BY <1>4, <1>7, ReportTells
    <2> QED BY <1>2, <1>4, <2>2, <2>3, ToldLater DEF B
<1> QED BY <1>5, <1>6, <1>7

\* A segment that is too long has enough speech: it has less silence than a
\* pause.
LEMMA ForcedIsReported ==
    ASSUME NEW v, NEW h, NEW i, Hears(h, i), SegmentInv(v, h, i), v.in_speech,
           TooLong(v), v.silence_frame_count * Hop < Pause, MinSpeech + Pause <= MaxSpeech
    PROVE  ~TooShort(v.speech_frame_count + v.gap_speech)
<1> DEFINE n == Len(v.segment_frames)
           m == Len(v.gap_buffer)
           c == v.speech_frame_count
           q == v.silence_frame_count
<1>1. /\ n \in Nat /\ m \in Nat /\ c \in Nat /\ q \in Nat /\ v.gap_speech = m
    BY OpenFacts DEF SegmentInv
<1>2. TooShort(c) => n <= c + q
    BY DEF SegmentInv, Calm
<1>3. (n + m) * Hop > MaxSpeech /\ q * Hop < Pause
    BY DEF TooLong
<1>9. v.speech_frame_count + v.gap_speech = c + m
    BY <1>1
<1> HIDE DEF n, m, c, q
<1> SUFFICES ASSUME TooShort(c + m) PROVE FALSE
    BY <1>9
<1>4. TooShort(c)
    <2>1. c + m \in Nat /\ c <= c + m
        BY <1>1
    <2> QED BY <1>1, <2>1, ShortIsShort
<1>5. n + m <= (c + m) + q /\ n + m \in Nat /\ (c + m) + q \in Nat /\ c + m \in Nat
    BY <1>1, <1>2, <1>4
<1>6. (n + m) * Hop <= ((c + m) + q) * Hop
    BY <1>5, HopOrder
<1>7. ((c + m) + q) * Hop = (c + m) * Hop + q * Hop
    BY <1>1, <1>5, HopOrder
<1>8. (c + m) * Hop < MinSpeech
    BY DEF TooShort
<1> DEFINE x == (n + m) * Hop
           y == (c + m) * Hop
           z == q * Hop
<1>10. /\ x \in Nat /\ y \in Nat /\ z \in Nat /\ x <= y + z /\ y < MinSpeech /\ z < Pause
       /\ x > MaxSpeech
    BY <1>1, <1>3, <1>5, <1>6, <1>7, <1>8, HopOrder
<1> HIDE DEF x, y, z
<1> QED BY <1>10, ThresholdsAssumption

\* The burst that goes on is told of when the segment is cut behind it.
LEMMA CutTellsTrail ==
    ASSUME NEW w, NEW h, NEW i, Closing(w, h, i), Pad >= 1, NEW sg \in Seq(Segment),
           NEW v, Trailing(v, sg, h, i), ~TooShort(w.speech_frame_count),
           v.segment_frames \in Seq(Nat), v.gap_buffer \in Seq(Nat),
           w.segment_frames = v.segment_frames \o v.gap_buffer, NEW x
    PROVE  Trailing(x, Append(sg, Report(w)), h, i)
<1> SUFFICES ASSUME i >= 1, h[i] PROVE Told(Append(sg, Report(w)), Burst(h, i - 1))
    BY DEF Trailing
<1> DEFINE T == Burst(h, i - 1)
<1>1. Report(w) \in Segment
    BY ReportSays DEF ReportedOf, Spans
<1>2. i - 1 \in T /\ h[(i - 1) + 1]
    <2>1. i \in Nat
        BY DEF Closing
    <2>2. i - 1 \in Nat /\ (i - 1) + 1 = i
        BY <2>1
    <2> QED BY <2>2, BurstFacts
<1>3. Range(w.segment_frames) = Range(v.segment_frames) \cup Range(v.gap_buffer)
    BY RangeConcat
<1>4. Told(sg, T) \/ T \subseteq Range(w.segment_frames)
    BY <1>3 DEF Trailing
<1> HIDE DEF T
<1>5. CASE Told(sg, T)
    BY <1>1, <1>5, ToldLater DEF T
<1>6. CASE T \subseteq Range(w.segment_frames)
    <2>1. i - 1 \in Range(Report(w).audio)
        BY <1>2, <1>6, ReportTells
    <2> QED BY <1>1, <1>2, <2>1, ToldLater DEF T
<1> QED BY <1>4, <1>5, <1>6

BurstsInv ==
    /\ Ended(vad, segments, heard, total)
    /\ pc # "flushed" => Trailing(vad, segments, heard, total)

LEMMA BurstsStep ==
    ASSUME Pad >= 1, MinSpeech + Pause <= MaxSpeech, DetectorInv, BurstsInv, [Next]_vars
    PROVE  BurstsInv'
<1>0. segments \in Seq(Segment) /\ Hears(heard, total) /\ SegmentInv(vad, heard, total)
    BY DEF DetectorInv
<1>1. CASE UNCHANGED <<segments, heard, total, vad>> /\ (pc' # "flushed" => pc # "flushed")
    BY <1>1 DEF BurstsInv
<1>2. ASSUME NEW b \in BOOLEAN, ProcessFrame(b) PROVE BurstsInv'
    <2> DEFINE v == Advanced(vad, total, b)
               h == Append(heard, b)
               i == total + 1
               w == Absorbed(v, i - 1)
    <2>1. FrameOutcome(b)
        BY <1>2, FrameStep
    <2>2. /\ total' = i /\ heard' = h /\ Hears(h, i) /\ v \in Session /\ SegmentInv(v, h, i)
          /\ IF b THEN Speech(vad, v, total) ELSE Silence(vad, v, total)
          /\ \/ vad' = v /\ segments' = segments
             \/ ~b /\ v.in_speech /\ Finalize(v)
             \/ /\ v.in_speech /\ TooLong(v) /\ v.silence_frame_count * Hop < Pause
                /\ Finalize(w)
        BY <2>1 DEF FrameOutcome
    <2>3. pc # "flushed"
        BY <1>2 DEF ProcessFrame
    <2>4. Ended(vad, segments, heard, total) /\ Trailing(vad, segments, heard, total)
        BY <2>3 DEF BurstsInv
    <2>11. b \in {TRUE, FALSE}
        OBVIOUS
    <2>5. Ended(v, segments, h, i) /\ Trailing(v, segments, h, i)
        <3>1. CASE b = TRUE
            <4>1. Speech(vad, v, total)
                BY <2>2, <3>1
            <4> HIDE DEF v
            <4> QED BY <1>0, <2>4, <3>1, <4>1, SpeechBursts
        <3>2. CASE b = FALSE
            <4>1. Silence(vad, v, total)
                BY <2>2, <3>2
            <4> HIDE DEF v
            <4> QED BY <1>0, <2>4, <3>2, <4>1, SilenceBursts
        <3> QED BY <2>11, <3>1, <3>2
    <2>6. h[i] = b
        <3>1. Append(heard, b)[total + 1] = b
            BY <1>0, HearsOn DEF Hears
        <3> QED BY <3>1
    <2>12. v.segment_frames \in Seq(Nat) /\ v.gap_buffer \in Seq(Nat)
        BY <2>2 DEF Session, Frame
    <2> HIDE DEF v, h, i, w
    <2>7. ASSUME Ended(vad', segments', h, i), Trailing(vad', segments', h, i)
          PROVE  BurstsInv'
        <3>1. /\ Ended(vad', segments', heard', total')
              /\ Trailing(vad', segments', heard', total')
            BY <2>2, <2>7
        <3> QED BY <3>1 DEF BurstsInv
    <2>8. CASE vad' = v /\ segments' = segments
        BY <2>5, <2>7, <2>8
    <2>9. CASE ~b /\ v.in_speech /\ Finalize(v)
        <3>1. Closing(v, h, i)
            BY <2>2, <2>9, ClosingAsIs
        <3>2. segments' = IF TooShort(v.speech_frame_count) THEN segments
                          ELSE Append(segments, Report(v))
            BY <2>9 DEF Finalize
        <3>3. Ended(vad', segments', h, i)
            BY <1>0, <2>5, <3>1, <3>2, CutTells
        <3>4. Trailing(vad', segments', h, i)
            BY <2>6, <2>9 DEF Trailing
        <3> QED BY <2>7, <3>3, <3>4
    <2>10. CASE /\ v.in_speech /\ TooLong(v) /\ v.silence_frame_count * Hop < Pause
                /\ Finalize(w)
        <3>1. /\ Closing(w, h, i) /\ w.segment_frames = v.segment_frames \o v.gap_buffer
              /\ w.speech_frame_count = v.speech_frame_count + v.gap_speech
            BY <2>2, <2>10, ClosingAbsorbed DEF w
        <3>2. ~TooShort(w.speech_frame_count)
            <4>1. ~TooShort(v.speech_frame_count + v.gap_speech)
                BY <2>2, <2>10, ForcedIsReported
            <4> QED BY <3>1, <4>1
        <3>3. segments' = IF TooShort(w.speech_frame_count) THEN segments
                          ELSE Append(segments, Report(w))
            BY <2>10 DEF Finalize
        <3>4. Range(v.segment_frames) \subseteq Range(w.segment_frames)
            BY <2>12, <3>1, RangeConcat
        <3>5. Ended(vad', segments', h, i)
            BY <1>0, <2>5, <3>1, <3>3, <3>4, CutTells
        <3>6. Trailing(vad', Append(segments, Report(w)), h, i)
            BY <1>0, <2>5, <2>12, <3>1, <3>2, CutTellsTrail
        <3>7. Trailing(vad', segments', h, i)
            BY <3>2, <3>3, <3>6
        <3> QED BY <2>7, <3>5, <3>7
    <2> QED BY <2>2, <2>8, <2>9, <2>10
<1>3. CASE Flush
    <2>1. /\ total' = total /\ heard' = heard /\ pc' = "flushed"
          /\ \/ vad' = vad /\ segments' = segments
             \/ vad.in_speech /\ Closing(vad, heard, total) /\ Finalize(vad)
        BY <1>3, FlushOutcome DEF Flush
    <2>2. Ended(vad, segments, heard, total)
        BY DEF BurstsInv
    <2>3. Ended(vad', segments', heard, total)
        <3>1. CASE vad' = vad /\ segments' = segments
            BY <2>2, <3>1
        <3>2. CASE vad.in_speech /\ Closing(vad, heard, total) /\ Finalize(vad)
            <4>1. segments' = IF TooShort(vad.speech_frame_count) THEN segments
                              ELSE Append(segments, Report(vad))
                BY <3>2 DEF Finalize
            <4> QED BY <1>0, <2>2, <3>2, <4>1, CutTells
        <3> QED BY <2>1, <3>1, <3>2
    <2>4. Ended(vad', segments', heard', total')
        BY <2>1, <2>3
    <2> QED BY <2>1, <2>4 DEF BurstsInv
<1> QED BY <1>1, <1>2, <1>3 DEF Next, vars, FeedAudio, FeedReturns

LEMMA BurstsInit == Init => BurstsInv
<1> SUFFICES ASSUME Init PROVE BurstsInv
    OBVIOUS
<1>1. total = 0
    BY DEF Init
<1>2. \A b : ~EndsIn(heard, 0, b)
    BY DEF EndsIn
<1> QED BY <1>1, <1>2 DEF BurstsInv, Ended, Trailing

LEMMA BurstsAreHeard == BurstsInv /\ DetectorInv => LongBurstsAreHeard
<1> SUFFICES ASSUME BurstsInv, DetectorInv, NEW b \in 0 .. total - 1, EndsAt(b),
                    Cardinality(BurstEndingAt(b)) * Hop >= MinSpeech
             PROVE  \E i \in BurstEndingAt(b) :
                      \/ i \in Range(vad.segment_frames)
                      \/ \E k \in DOMAIN segments : i \in Range(segments[k].audio)
    BY DEF LongBurstsAreHeard
<1> DEFINE B == Burst(heard, b)
<1>1. BurstEndingAt(b) = B
    BY DEF BurstEndingAt, Burst, IsSpeech
<1>2. EndsIn(heard, total, b)
    BY DEF EndsAt, EndsIn, IsSpeech
<1>3. total \in Nat /\ b \in Nat
    BY DEF DetectorInv, Hears
<1>4. b \in B
    BY <1>2, <1>3, BurstFacts DEF EndsIn
<1>5. ~TooShort(Cardinality(B))
    <2> DEFINE x == Cardinality(B) * Hop
    <2>1. x >= MinSpeech /\ x \in Int
        <3>1. IsFiniteSet(0 .. b) /\ B \in SUBSET (0 .. b)
            <4>1. 0 \in Int /\ b \in Int
                BY <1>3
            <4> QED BY <4>1, FS_Interval DEF Burst
        <3>2. Cardinality(B) \in Nat
            BY <3>1, FS_Subset, FS_CardinalityType
        <3> QED BY <1>1, <3>2, HopOrder
    <2> HIDE DEF x
    <2>2. ~(x < MinSpeech)
        BY <2>1, ThresholdsAssumption
    <2> QED BY <2>2 DEF x, TooShort
<1>6. \/ Told(segments, B)
      \/ B \subseteq Range(vad.segment_frames)
    BY <1>2, <1>5 DEF BurstsInv, Ended
<1> HIDE DEF B
<1> QED BY <1>1, <1>4, <1>6 DEF Told

\* No burst of speech of MIN_SPEECH_DURATION is lost altogether, but for one
\* that is on probation when the stream is flushed, whatever silences, merges
\* and forced cuts surround it, when the pad is one frame at the least and the
\* longest segment holds a pause and the least amount of speech.
THEOREM NoLongBurstIsLost ==
    ASSUME Pad >= 1, MinSpeech + Pause <= MaxSpeech
    PROVE  Spec => []LongBurstsAreHeard
<1>1. Init => DetectorInv /\ BurstsInv
    BY DetectorInit, BurstsInit
<1>2. (DetectorInv /\ BurstsInv) /\ [Next]_vars => (DetectorInv /\ BurstsInv)'
    BY DetectorStep, BurstsStep
<1>3. DetectorInv /\ BurstsInv => LongBurstsAreHeard
    BY BurstsAreHeard
<1> QED BY <1>1, <1>2, <1>3, PTL DEF Spec

-----------------------------------------------------------------------------
(* The frame state *)

\* The online buffer is the audio received since the last cut.
Holds(f) ==
    /\ f \in FrameState
    /\ f.online_total = Len(f.online_buf)
    /\ f.seg_start_abs + f.online_total = f.abs_samples
    /\ \A k \in 1 .. Len(f.online_buf) : f.online_buf[k] = f.seg_start_abs + k - 1

LEMMA FrameStateFacts ==
    ASSUME NEW f \in FrameState
    PROVE  /\ f.online_buf \in Seq(Nat) /\ f.online_total \in Nat
           /\ f.online_last_trigger \in Nat /\ f.online_epoch \in Nat
           /\ f.seg_id \in Nat /\ f.online_cut_cursor \in Nat
           /\ f.online_last_text \in Text /\ f.online_accumulated_text \in Text
           /\ f.abs_samples \in Nat /\ f.seg_start_abs \in Nat
BY DEF FrameState

LEMMA BufferedHolds ==
    ASSUME NEW f, Holds(f), NEW n \in Nat
    PROVE  LET g == Buffered(f, n)
           IN  /\ Holds(g) /\ g.abs_samples = f.abs_samples + n
               /\ g.online_total = f.online_total + n
               /\ g.seg_id = f.seg_id /\ g.seg_start_abs = f.seg_start_abs
               /\ g.online_cut_cursor = f.online_cut_cursor
<1> DEFINE g == Buffered(f, n)
           tail == [i \in 1..n |-> f.abs_samples + i - 1]
           buf == f.online_buf \o tail
<1>1. /\ f \in FrameState /\ f.online_buf \in Seq(Nat) /\ f.online_total \in Nat
      /\ f.abs_samples \in Nat /\ f.seg_start_abs \in Nat
    BY FrameStateFacts DEF Holds
<1>2. tail \in Seq(Nat) /\ Len(tail) = n /\ \A k \in 1 .. n : tail[k] = f.abs_samples + k - 1
    BY <1>1
<1> HIDE DEF tail
<1>3. /\ buf \in Seq(Nat) /\ Len(buf) = Len(f.online_buf) + n
      /\ \A k \in 1 .. Len(buf) :
            buf[k] = IF k <= Len(f.online_buf) THEN f.online_buf[k]
                     ELSE tail[k - Len(f.online_buf)]
    <2> DEFINE base == f.online_buf
    <2>1. base \in Seq(Nat) /\ tail \in Seq(Nat) /\ Len(tail) = n
        BY <1>1, <1>2
    <2> HIDE DEF base
    <2>2. /\ base \o tail \in Seq(Nat) /\ Len(base \o tail) = Len(base) + Len(tail)
          /\ \A k \in 1 .. Len(base) + Len(tail) :
                (base \o tail)[k] = IF k <= Len(base) THEN base[k] ELSE tail[k - Len(base)]
        BY <2>1, ConcatProperties
    <2>3. /\ base \o tail \in Seq(Nat) /\ Len(base \o tail) = Len(base) + n
          /\ \A k \in 1 .. Len(base \o tail) :
                (base \o tail)[k] = IF k <= Len(base) THEN base[k] ELSE tail[k - Len(base)]
        BY <2>1, <2>2
    <2> QED BY <2>3 DEF base
<1>4. f.online_total + n \in Nat /\ f.abs_samples + n \in Nat
    BY <1>1
<1>5. g = [f EXCEPT !.online_buf = buf, !.online_total = f.online_total + n,
                    !.abs_samples = f.abs_samples + n]
    BY DEF Buffered, tail
<1> HIDE DEF buf, g
<1>6. /\ g \in FrameState /\ g.online_buf = buf
      /\ g.abs_samples = f.abs_samples + n /\ g.online_total = f.online_total + n
      /\ g.seg_id = f.seg_id /\ g.seg_start_abs = f.seg_start_abs
      /\ g.online_cut_cursor = f.online_cut_cursor
    BY <1>1, <1>3, <1>4, <1>5 DEF FrameState
<1>7. /\ f.online_total = Len(f.online_buf)
      /\ f.seg_start_abs + f.online_total = f.abs_samples
      /\ \A k \in 1 .. Len(f.online_buf) : f.online_buf[k] = f.seg_start_abs + k - 1
    BY DEF Holds
<1>8. g.seg_start_abs + g.online_total = g.abs_samples /\ g.online_total = Len(g.online_buf)
    BY <1>1, <1>3, <1>6, <1>7
<1>9. \A k \in 1 .. Len(g.online_buf) : g.online_buf[k] = g.seg_start_abs + k - 1
    <2> SUFFICES ASSUME NEW k \in 1 .. Len(buf) PROVE buf[k] = f.seg_start_abs + k - 1
        BY <1>6
    <2> DEFINE m == Len(f.online_buf)
    <2>1. m \in Nat /\ k \in 1 .. m + n /\ m = f.online_total
        BY <1>1, <1>3, <1>7
    <2>2. buf[k] = IF k <= m THEN f.online_buf[k] ELSE tail[k - m]
        BY <1>3
    <2>3. \A j \in 1 .. m : f.online_buf[j] = f.seg_start_abs + j - 1
        BY <1>7
    <2> HIDE DEF m
    <2>4. CASE k <= m
        BY <2>1, <2>2, <2>3, <2>4
    <2>5. CASE ~(k <= m)
        <3>1. k - m \in 1 .. n
            BY <2>1, <2>5
        <3>2. buf[k] = f.abs_samples + (k - m) - 1
            BY <1>2, <2>2, <2>5, <3>1
        <3> QED BY <1>1, <1>7, <2>1, <3>1, <3>2, SMTT(30)
    <2> QED BY <2>4, <2>5
<1>10. Holds(g)
    BY <1>6, <1>8, <1>9 DEF Holds
<1> QED BY <1>6, <1>10 DEF g

LEMMA AfterCutsHolds ==
    ASSUME NEW f, Holds(f), NEW count \in Nat
    PROVE  LET g == AfterCuts(f, count)
           IN  /\ Holds(g) /\ g.abs_samples = f.abs_samples
               /\ g.seg_id = f.seg_id + count
               /\ count = 0 => g = f
               /\ count > 0 => /\ g.online_total = 0 /\ g.seg_start_abs = f.abs_samples
                               /\ g.online_cut_cursor = 0
<1> DEFINE g == AfterCuts(f, count)
<1>1. /\ f \in FrameState /\ f.online_epoch \in Nat /\ f.seg_id \in Nat
      /\ f.abs_samples \in Nat
    BY FrameStateFacts DEF Holds
<1>2. CASE count = 0
    <2>1. g = f
        BY <1>2 DEF AfterCuts
    <2> QED BY <1>1, <1>2, <2>1
<1>3. CASE count # 0
    <2>1. <<>> \in Seq(Nat) /\ <<>> \in Text /\ Len(<<>>) = 0
        BY DEF Text
    <2>2. f.online_epoch + count \in Nat /\ f.seg_id + count \in Nat
        BY <1>1
    <2>3. /\ g \in FrameState /\ g.online_buf = <<>> /\ g.online_total = 0
          /\ g.seg_start_abs = f.abs_samples /\ g.abs_samples = f.abs_samples
          /\ g.seg_id = f.seg_id + count /\ g.online_cut_cursor = 0
        BY <1>1, <1>3, <2>1, <2>2 DEF AfterCuts, FrameState
    <2> HIDE DEF g
    <2>4. Holds(g)
        BY <1>1, <2>1, <2>3 DEF Holds
    <2> QED BY <1>3, <2>3, <2>4 DEF g
<1> QED BY <1>2, <1>3

LEMMA OnlineCutHolds ==
    ASSUME NEW f, Holds(f), NEW in_speech \in BOOLEAN, NEW silence \in Nat
    PROVE  LET g == OnlineCut(f, in_speech, silence)
           IN  /\ Holds(g) /\ g.abs_samples = f.abs_samples /\ g.seg_id = f.seg_id
               /\ g.seg_start_abs = f.seg_start_abs /\ g.online_total = f.online_total
               /\ \/ g.online_cut_cursor = f.online_cut_cursor
                  \/ in_speech /\ silence >= OnlinePause
<1> DEFINE cut == in_speech /\ silence >= OnlinePause
                            /\ f.online_total - f.online_cut_cursor > silence
           g == OnlineCut(f, in_speech, silence)
<1>1. /\ f \in FrameState /\ f.online_epoch + 1 \in Nat /\ f.online_total \in Nat
      /\ f.online_accumulated_text \o f.online_last_text \in Text
    BY FrameStateFacts DEF Holds, Text
<1>2. CASE ~cut
    <2>1. g = f
        BY <1>2 DEF OnlineCut
    <2> QED BY <2>1
<1>3. CASE cut
    <2>1. /\ g \in FrameState /\ g.online_buf = f.online_buf
          /\ g.online_total = f.online_total /\ g.seg_start_abs = f.seg_start_abs
          /\ g.abs_samples = f.abs_samples /\ g.seg_id = f.seg_id
        BY <1>1, <1>3 DEF OnlineCut, FrameState
    <2> HIDE DEF g
    <2>2. Holds(g)
        BY <2>1 DEF Holds
    <2> QED BY <1>3, <2>1, <2>2 DEF g
<1> QED BY <1>2, <1>3
-----------------------------------------------------------------------------
(* The tasks made of reports *)

LEMMA DivMod ==
    ASSUME NEW m \in Nat
    PROVE  /\ m \div Hop \in Nat /\ m % Hop \in 0 .. Hop - 1
           /\ m = (m \div Hop) * Hop + (m % Hop)
BY HopAssumption

\* The samples of frames that were heard were heard.
LEMMA FrameSamplesHeard ==
    ASSUME NEW frames \in Seq(Nat), NEW i \in Nat,
           \A k \in 1 .. Len(frames) : frames[k] < i
    PROVE  /\ FrameSamples(frames) \in Seq(Nat)
           /\ \A p \in Range(FrameSamples(frames)) : p < i * Hop
<1> DEFINE n == Len(frames)
           S == FrameSamples(frames)
<1>1. n \in Nat /\ n * Hop \in Nat /\ Hop \in Nat /\ Hop > 0 /\ i * Hop \in Nat
    BY HopAssumption
<1>2. ASSUME NEW k \in 1 .. n * Hop
      PROVE  S[k] \in Nat /\ S[k] < i * Hop
    <2> DEFINE q == (k - 1) \div Hop
               r == (k - 1) % Hop
    <2>1. k - 1 \in Nat /\ k - 1 < n * Hop
        BY <1>1
    <2>2. q \in Nat /\ r \in 0 .. Hop - 1 /\ k - 1 = q * Hop + r
        BY <2>1, DivMod
    <2>3. S[k] = frames[q + 1] * Hop + r
        BY DEF FrameSamples
    <2> HIDE DEF q, r, n, S
    <2>4. q < n
        <3> SUFFICES ASSUME n <= q PROVE FALSE
            BY <1>1, <2>2
        <3>1. n * Hop <= q * Hop
            BY <1>1, <2>2, HopOrder
        <3>2. q * Hop \in Nat
            BY <2>2, HopOrder
        <3> QED BY <1>1, <2>1, <2>2, <3>1, <3>2
    <2>5. q + 1 \in 1 .. n
        BY <1>1, <2>2, <2>4
    <2>6. frames[q + 1] \in Nat /\ frames[q + 1] < i
        BY <2>5 DEF n
    <2> DEFINE f == frames[q + 1]
    <2>7. f \in Nat /\ f + 1 \in Nat /\ f + 1 <= i
        BY <2>6
    <2>8. S[k] = f * Hop + r
        BY <2>3
    <2> HIDE DEF f
    <2>9. (f + 1) * Hop <= i * Hop /\ (f + 1) * Hop = f * Hop + 1 * Hop /\ f * Hop \in Nat
        BY <2>7, HopOrder
    <2>10. 1 * Hop = Hop
        BY <1>1
    <2> QED BY <1>1, <2>2, <2>8, <2>9, <2>10
<1>3. S \in [1 .. n * Hop -> Nat]
    <2>1. S = [k \in 1 .. n * Hop |-> S[k]]
        BY DEF FrameSamples
    <2> HIDE DEF S, n
    <2> QED BY <1>2, <2>1
<1>4. S \in Seq(Nat)
    <2> HIDE DEF S
    <2> DEFINE m == n * Hop
    <2>1. m \in Nat /\ S \in [1 .. m -> Nat]
        BY <1>1, <1>3
    <2> HIDE DEF m
    <2> QED BY <2>1
<1>5. \A p \in Range(S) : p < i * Hop
    <2>1. DOMAIN S = 1 .. n * Hop
        BY <1>3
    <2> HIDE DEF S, n
    <2>2. \A p \in Range(S) : \E k \in 1 .. n * Hop : p = S[k]
        BY <2>1 DEF Range
    <2> QED BY <1>2, <2>2
<1> QED BY <1>4, <1>5

\* The task made of the i-th of several reports.
TaskOf(task, i) ==
    /\ task \in OfflineTask /\ task.at = fs.abs_samples
    /\ \A p \in Range(task.audio) : p < fs.abs_samples
    /\ i = 1 /\ fs.online_total > 0 =>
          \A p \in fs.seg_start_abs .. fs.abs_samples - 1 : p \in Range(task.audio)
    /\ i = 1 /\ fs.online_total > 0 =>
          \A p \in Range(task.audio) : fs.seg_start_abs <= p

\* What tells a report that was made when `i' frames were heard.
HeardReport(r, i) ==
    /\ r \in Segment
    /\ r.start_sample <= r.end_sample /\ r.end_sample <= i * Hop
    /\ \A k \in 1 .. Len(r.audio) : r.audio[k] < i

LEMMA OnlineAudio ==
    ASSUME NEW f, Holds(f)
    PROVE  /\ f.online_buf \in Seq(Nat)
           /\ \A p \in Range(f.online_buf) : f.seg_start_abs <= p /\ p < f.abs_samples
           /\ \A p \in f.seg_start_abs .. f.abs_samples - 1 : p \in Range(f.online_buf)
<1> DEFINE S == f.online_buf
           a == f.seg_start_abs
           n == f.online_total
<1>1. S \in Seq(Nat) /\ a \in Nat /\ n \in Nat /\ f.abs_samples \in Nat
    BY FrameStateFacts DEF Holds
<1>2. Len(S) = n /\ f.abs_samples = a + n /\ \A k \in 1 .. n : S[k] = a + k - 1
    BY <1>1 DEF Holds
<1>3. DOMAIN S = 1 .. n
    BY <1>1, <1>2
<1> HIDE DEF S, a, n
<1>4. \A p \in Range(S) : \E k \in 1 .. n : p = S[k]
    BY <1>3 DEF Range
<1>5. \A p \in Range(S) : a <= p /\ p < a + n
    BY <1>1, <1>2, <1>4
<1>6. ASSUME NEW p \in a .. a + n - 1 PROVE p \in Range(S)
    <2>1. p - a + 1 \in 1 .. n
        BY <1>1
    <2>2. S[p - a + 1] = a + (p - a + 1) - 1
        BY <1>2, <2>1
    <2>3. S[p - a + 1] = p
        BY <1>1, <2>2
    <2> QED BY <1>3, <2>1, <2>3 DEF Range
<1>7. /\ S \in Seq(Nat)
      /\ \A p \in Range(S) : a <= p /\ p < f.abs_samples
      /\ \A p \in a .. f.abs_samples - 1 : p \in Range(S)
    BY <1>1, <1>2, <1>5, <1>6
<1> QED BY <1>7 DEF S, a

LEMMA MsType == ASSUME NEW n \in Nat PROVE Ms(n) \in Nat
BY SamplesPerMsAssumption DEF Ms

LEMMA SegmentFacts ==
    ASSUME NEW r \in Segment
    PROVE  r.audio \in Seq(Nat) /\ r.start_sample \in Nat /\ r.end_sample \in Nat
BY DEF Segment, Frame

\* The first of several tasks takes what was received since the last cut.
LEMMA TasksSay ==
    ASSUME Holds(fs), NEW t \in Nat, t * Hop <= fs.abs_samples,
           NEW reports \in Seq(Segment),
           \A i \in 1 .. Len(reports) : HeardReport(reports[i], t) \/ (i = 1 /\ fs.online_total > 0)
    PROVE  /\ Tasks(reports) \in Seq(OfflineTask) /\ Len(Tasks(reports)) = Len(reports)
           /\ \A i \in 1 .. Len(reports) : TaskOf(Tasks(reports)[i], i)
<1> DEFINE n == Len(reports)
           spans == [k \in DOMAIN reports |-> Span(reports[k])]
<1>1. n \in Nat /\ DOMAIN reports = 1 .. n /\ \A i \in 1 .. n : reports[i] \in Segment
    OBVIOUS
<1>2. /\ fs \in FrameState /\ fs.seg_id \in Nat /\ fs.abs_samples \in Nat
      /\ fs.online_total \in Nat /\ fs.seg_start_abs \in Nat
    BY FrameStateFacts DEF Holds
<1>3. ASSUME NEW i \in 1 .. n
      PROVE  TaskOf(Tasks(reports)[i], i)
    <2> DEFINE task == Tasks(reports)[i]
               audio == TaskAudio(reports, i)
               copy == FrameSamples(reports[i].audio)
               job == Job(fs, spans, i)
    <2>1. task = [seg |-> job.seg, audio |-> audio, bg |-> job.bg, ed |-> job.ed,
                  at |-> fs.abs_samples]
        BY <1>1 DEF Tasks
    <2>2. job.seg \in Nat /\ job.bg \in Nat /\ job.ed \in Nat
        <3>1. /\ reports[i] \in Segment /\ spans[i] = Span(reports[i])
              /\ reports[i].start_sample \in Nat /\ reports[i].end_sample \in Nat
            BY <1>1, SegmentFacts
        <3>2. spans[i][1] \in Nat /\ spans[i][2] \in Nat
            BY <3>1 DEF Span
        <3> HIDE DEF spans
        <3>3. /\ job.seg = fs.seg_id + i - 1 /\ job.bg = Ms(spans[i][1])
              /\ job.ed = Ms(spans[i][2])
            BY DEF Job
        <3>4. job.bg \in Nat /\ job.ed \in Nat
            BY <3>2, <3>3, MsType
        <3> HIDE DEF job, n
        <3>5. i \in Nat /\ i >= 1
            BY <1>1
        <3> QED BY <1>2, <3>3, <3>4, <3>5
    <2>3. /\ fs.online_buf \in Seq(Nat)
          /\ \A p \in Range(fs.online_buf) : fs.seg_start_abs <= p /\ p < fs.abs_samples
          /\ \A p \in fs.seg_start_abs .. fs.abs_samples - 1 : p \in Range(fs.online_buf)
        BY OnlineAudio
    <2>4. audio = IF i = 1 /\ fs.online_total > 0 THEN fs.online_buf ELSE copy
        BY DEF TaskAudio
    <2>5. ~(i = 1 /\ fs.online_total > 0)
            => copy \in Seq(Nat) /\ \A p \in Range(copy) : p < fs.abs_samples
        <3> SUFFICES ASSUME ~(i = 1 /\ fs.online_total > 0)
                     PROVE  copy \in Seq(Nat) /\ \A p \in Range(copy) : p < fs.abs_samples
            OBVIOUS
        <3>1. HeardReport(reports[i], t)
            OBVIOUS
        <3>2. reports[i].audio \in Seq(Nat)
            BY <1>1, SegmentFacts
        <3>3. copy \in Seq(Nat) /\ \A p \in Range(copy) : p < t * Hop
            BY <3>1, <3>2, FrameSamplesHeard DEF HeardReport
        <3>4. \A p \in Range(copy) : p \in Nat
            BY <3>3 DEF Range
        <3>5. t * Hop \in Nat
            BY HopOrder
        <3> QED BY <1>2, <3>3, <3>4, <3>5
    <2> HIDE DEF audio, copy, job, task
    <2>6. audio \in Seq(Nat) /\ \A p \in Range(audio) : p < fs.abs_samples
        BY <2>3, <2>4, <2>5
    <2>7. /\ task \in OfflineTask /\ task.at = fs.abs_samples /\ task.audio = audio
        BY <1>2, <2>1, <2>2, <2>6 DEF OfflineTask
    <2>8. i = 1 /\ fs.online_total > 0 =>
            /\ \A p \in fs.seg_start_abs .. fs.abs_samples - 1 : p \in Range(audio)
            /\ \A p \in Range(audio) : fs.seg_start_abs <= p
        BY <2>3, <2>4
    <2> QED BY <2>6, <2>7, <2>8 DEF TaskOf, task
<1> DEFINE tasks == Tasks(reports)
<1>4. DOMAIN tasks = 1 .. n
    BY <1>1 DEF Tasks
<1>5. \A i \in 1 .. n : tasks[i] \in OfflineTask
    BY <1>3 DEF TaskOf
<1>6. tasks = [i \in 1 .. n |-> tasks[i]]
    BY <1>1 DEF Tasks
<1> HIDE DEF tasks
<1>7. tasks \in [1 .. n -> OfflineTask]
    BY <1>5, <1>6
<1>8. tasks \in Seq(OfflineTask) /\ Len(tasks) = n
    BY <1>1, <1>7
<1> QED BY <1>3, <1>8 DEF tasks
-----------------------------------------------------------------------------
(* What the detector tells the handler *)

\* Nothing, or one report more: of what was heard since frame B, but for a
\* pre-roll.
Tells(B, i) ==
    \/ segments' = segments
    \/ \E r : /\ HeardReport(r, i) /\ segments' = Append(segments, r)
              /\ B * Hop <= r.start_sample + Pad * Hop

\* Reports are about audio that was heard, and each has a frame of its own.
ReportsHeard ==
    /\ \A k \in 1 .. Len(segments) : HeardReport(segments[k], total)
    /\ Len(segments) + (IF vad.in_speech THEN 1 ELSE 0) <= total

LEMMA CutSays ==
    ASSUME NEW w, NEW h, NEW i, Closing(w, h, i), Rolled(w, i), Finalize(w),
           segments \in Seq(Segment), NEW B \in Nat, B <= First(w)
    PROVE  ~vad'.in_speech /\ Tells(B, i)
<1> DEFINE r == Report(w)
           s == w.speech_start
           e == SegmentEnd(w)
           p == Len(w.pre_snapshot)
<1>1. ~vad'.in_speech /\ ReportedOf(r, w, i)
    BY CutStep
<1>2. segments' = segments \/ segments' = Append(segments, r)
    BY DEF Finalize
<1>3. Spans(r, s, e) /\ e <= i /\ \A k \in 1 .. Len(r.audio) : r.audio[k] < i
    BY <1>1 DEF ReportedOf
<1>4. i \in Nat /\ w \in Session /\ p <= Pad
    BY DEF Closing
<1>5. p \in Nat
    BY <1>4 DEF Session
<1>6. B <= s + p
    BY DEF First
<1> HIDE DEF r, s, e, p
<1>7. /\ r \in Segment /\ s \in Nat /\ e \in Nat /\ s < e
      /\ r.start_sample = s * Hop /\ r.end_sample = e * Hop
    BY <1>3 DEF Spans
<1>8. s * Hop <= e * Hop /\ e * Hop <= i * Hop
    BY <1>3, <1>4, <1>7, HopOrder
<1>9. HeardReport(r, i)
    BY <1>3, <1>7, <1>8 DEF HeardReport
<1>10. B * Hop <= r.start_sample + Pad * Hop
    <2>1. s + Pad \in Nat /\ B <= s + Pad
        BY <1>4, <1>5, <1>6, <1>7, PadAssumption
    <2>2. B * Hop <= (s + Pad) * Hop
        BY <2>1, HopOrder
    <2>3. (s + Pad) * Hop = s * Hop + Pad * Hop
        BY <1>7, PadAssumption, HopOrder
    <2> QED BY <1>7, <2>2, <2>3
<1> QED BY <1>1, <1>2, <1>9, <1>10 DEF Tells

LEMMA HeardLater ==
    ASSUME NEW r, NEW i \in Nat, HeardReport(r, i) PROVE HeardReport(r, i + 1)
<1>1. r \in Segment /\ r.start_sample \in Nat /\ r.end_sample \in Nat /\ r.audio \in Seq(Nat)
    BY SegmentFacts DEF HeardReport
<1>2. i * Hop <= (i + 1) * Hop /\ i * Hop \in Nat /\ (i + 1) * Hop \in Nat
    <2>1. i + 1 \in Nat /\ i <= i + 1
        OBVIOUS
    <2> QED BY <2>1, HopOrder
<1> DEFINE now == i * Hop
           next == (i + 1) * Hop
<1>3. now \in Nat /\ next \in Nat /\ now <= next /\ r.end_sample <= now
    BY <1>2 DEF HeardReport
<1> HIDE DEF now, next
<1>4. r.end_sample <= next
    BY <1>1, <1>3
<1>5. \A k \in 1 .. Len(r.audio) : r.audio[k] < i + 1
    <2> TAKE k \in 1 .. Len(r.audio)
    <2>1. r.audio[k] \in Nat
        BY <1>1
    <2>2. r.audio[k] < i
        BY DEF HeardReport
    <2> QED BY <2>1, <2>2
<1> QED BY <1>1, <1>4, <1>5 DEF HeardReport, next

\* The reports of a frame join the others.
LEMMA HeardOn ==
    ASSUME segments \in Seq(Segment), NEW i \in Nat, NEW B,
           \A k \in 1 .. Len(segments) : HeardReport(segments[k], i),
           Tells(B, i)
    PROVE  /\ \A k \in 1 .. Len(segments') : HeardReport(segments'[k], i)
           /\ Len(segments') <= Len(segments) + 1
           /\ segments' # segments => Len(segments') = Len(segments) + 1
<1>1. CASE segments' = segments
    BY <1>1
<1>2. ASSUME NEW r, HeardReport(r, i), segments' = Append(segments, r)
      PROVE  /\ \A k \in 1 .. Len(segments') : HeardReport(segments'[k], i)
             /\ Len(segments') = Len(segments) + 1
    <2>1. r \in Segment
        BY <1>2 DEF HeardReport
    <2> DEFINE n == Len(segments)
    <2>2. /\ n \in Nat /\ Len(segments') = n + 1 /\ segments'[n + 1] = r
          /\ \A k \in 1 .. n : segments'[k] = segments[k]
        BY <1>2, <2>1
    <2> HIDE DEF n
    <2>3. \A k \in 1 .. n + 1 : k \in 1 .. n \/ k = n + 1
        BY <2>2
    <2>4. \A k \in 1 .. n : HeardReport(segments[k], i)
        BY DEF n
    <2> QED BY <1>2, <2>2, <2>3, <2>4 DEF n
<1> QED BY <1>1, <1>2 DEF Tells

LEMMA FrameTells ==
    ASSUME DetectorInv, ReportsHeard, NEW b \in BOOLEAN, ProcessFrame(b)
    PROVE  LET B == Bound(vad, total)
           IN  /\ total \in Nat /\ total' = total + 1 /\ ReportsHeard'
               /\ B \in Nat /\ Bound(vad', total') \in Nat
               /\ B <= Bound(vad', total') /\ Bound(vad', total') <= total'
               /\ Tells(B, total')
               /\ segments' # segments => Bound(vad', total') = total'
<1> DEFINE v == Advanced(vad, total, b)
           h == Append(heard, b)
           i == total + 1
           B == Bound(vad, total)
           later == Bound(vad', total')
<1>1. FrameOutcome(b)
    BY FrameStep
<1>2. /\ segments \in Seq(Segment) /\ Hears(heard, total) /\ SegmentInv(vad, heard, total)
      /\ total \in Nat
    BY DEF DetectorInv, Hears
<1>3. /\ total' = i /\ Hears(h, i) /\ v \in Session /\ SegmentInv(v, h, i)
      /\ IF b THEN Speech(vad, v, total) ELSE Silence(vad, v, total)
    BY <1>1 DEF FrameOutcome
<1>4. \/ vad' = v /\ segments' = segments
      \/ v.in_speech /\ Finalize(v)
      \/ v.in_speech /\ Finalize(Absorbed(v, i - 1))
    BY <1>1 DEF FrameOutcome
<1> HIDE DEF v
<1>5. B \in Nat /\ Bound(v, i) \in Nat /\ B <= Bound(v, i) /\ Bound(v, i) <= i
    BY <1>2, <1>3, BoundGrows
<1> HIDE DEF h
<1>6. ASSUME NEW w, v.in_speech, Finalize(w), Closing(w, h, i), Rolled(w, i),
             First(w) = First(v)
      PROVE  ~vad'.in_speech /\ Tells(B, i)
    <2>1. B <= First(w)
        BY <1>5, <1>6 DEF Bound
    <2> HIDE DEF B, i
    <2> QED BY <1>2, <1>5, <1>6, <2>1, CutSays
<1>7. \/ vad' = v /\ segments' = segments
      \/ v.in_speech /\ ~vad'.in_speech /\ Tells(B, i)
    <2>1. CASE v.in_speech /\ Finalize(v)
        <3>1. Closing(v, h, i)
            BY <1>3, <2>1, ClosingAsIs
        <3>2. Rolled(v, i)
            BY <1>3 DEF SegmentInv
        <3> QED BY <1>6, <2>1, <3>1, <3>2
    <2>2. CASE v.in_speech /\ Finalize(Absorbed(v, i - 1))
        <3> DEFINE w == Absorbed(v, i - 1)
        <3>1. Closing(w, h, i) /\ Rolled(w, i) /\ First(w) = First(v)
            BY <1>3, <2>2, ClosingAbsorbed
        <3> HIDE DEF w
        <3> QED BY <1>6, <2>2, <3>1 DEF w
    <2> QED BY <1>4, <2>1, <2>2
<1>8. Tells(B, i)
    BY <1>7 DEF Tells
<1>9. /\ later \in Nat /\ B <= later /\ later <= i
      /\ segments' # segments => later = i
    <2>1. CASE vad' = v /\ segments' = segments
        BY <1>3, <1>5, <2>1
    <2>2. CASE ~vad'.in_speech
        <3>1. later = i
            BY <1>3, <2>2 DEF Bound
        <3> HIDE DEF B, later
        <3>2. i \in Nat
            BY <1>2
        <3>3. Bound(v, i) \in Nat
            BY <1>5
        <3> QED BY <1>5, <3>1, <3>2, <3>3
    <2> QED BY <1>7, <2>1, <2>2
<1>10. ReportsHeard'
    <2>1. \A k \in 1 .. Len(segments) : HeardReport(segments[k], i)
        BY <1>2, HeardLater DEF ReportsHeard
    <2>2. i \in Nat
        BY <1>2
    <2> HIDE DEF B, i, later
    <2>3. /\ \A k \in 1 .. Len(segments') : HeardReport(segments'[k], i)
          /\ Len(segments') <= Len(segments) + 1
        BY <1>2, <1>8, <2>1, <2>2, HeardOn
    <2>4. Len(segments) \in Nat /\ segments' \in Seq(Segment)
        <3>1. segments' \in Seq(Segment)
            BY FrameKeeps DEF DetectorInv
        <3> QED BY <1>2, <3>1
    <2>5. Len(segments') \in Nat
        BY <2>4
    <2>6. Len(segments) + (IF vad.in_speech THEN 1 ELSE 0) <= total
        BY DEF ReportsHeard
    <2>7. Len(segments') + (IF vad'.in_speech THEN 1 ELSE 0) <= i
        <3>1. CASE vad' = v /\ segments' = segments
            BY <1>2, <2>4, <2>6, <3>1 DEF i
        <3>2. CASE ~vad'.in_speech
            BY <1>2, <2>3, <2>4, <2>5, <2>6, <3>2 DEF i
        <3> QED BY <1>7, <3>1, <3>2
    <2> QED BY <1>3, <2>3, <2>7 DEF ReportsHeard
<1> QED BY <1>2, <1>3, <1>5, <1>8, <1>9, <1>10

LEMMA FlushTells ==
    ASSUME DetectorInv, ReportsHeard, Flush
    PROVE  LET B == Bound(vad, total)
           IN  /\ total \in Nat /\ total' = total /\ ReportsHeard'
               /\ B \in Nat /\ Tells(B, total)
<1> DEFINE B == Bound(vad, total)
<1>1. /\ segments \in Seq(Segment) /\ Hears(heard, total) /\ SegmentInv(vad, heard, total)
      /\ total \in Nat /\ segments' \in Seq(Segment)
    <2>1. DetectorInv'
        BY DetectorStep DEF Next
    <2> QED BY <2>1 DEF DetectorInv, Hears
<1>2. total' = total /\ heard' = heard
    BY FlushOutcome
<1>3. CASE vad' = vad /\ segments' = segments /\ ~vad.in_speech
    <2>1. ReportsHeard'
        BY <1>2, <1>3 DEF ReportsHeard
    <2>2. B \in Nat
        BY <1>1, <1>3 DEF Bound
    <2> QED BY <1>1, <1>2, <1>3, <2>1, <2>2 DEF Tells
<1>4. CASE /\ vad.in_speech /\ Closing(vad, heard, total) /\ Rolled(vad, total)
           /\ Finalize(vad)
    <2>1. B \in Nat /\ B = First(vad)
        <3>1. Tidy(vad) /\ Whole(vad, heard, total)
            BY <1>1 DEF SegmentInv
        <3>2. First(vad) \in Nat
            BY <1>1, <1>4, <3>1, OpenFacts
        <3> QED BY <1>4, <3>2 DEF Bound
    <2> HIDE DEF B
    <2>2. First(vad) \in Nat /\ B <= First(vad)
        BY <2>1
    <2>3. ~vad'.in_speech /\ Tells(B, total)
        BY <1>1, <1>4, <2>1, <2>2, CutSays
    <2>4. \A k \in 1 .. Len(segments) : HeardReport(segments[k], total)
        BY DEF ReportsHeard
    <2>5. /\ \A k \in 1 .. Len(segments') : HeardReport(segments'[k], total)
          /\ Len(segments') <= Len(segments) + 1
        BY <1>1, <2>3, <2>4, HeardOn
    <2>6. Len(segments) + 1 <= total
        BY <1>4 DEF ReportsHeard
    <2>7. Len(segments) \in Nat /\ Len(segments') \in Nat
        BY <1>1
    <2>8. Len(segments') + (IF vad'.in_speech THEN 1 ELSE 0) <= total
        BY <1>1, <2>3, <2>5, <2>6, <2>7
    <2>9. ReportsHeard'
        BY <1>2, <2>5, <2>8 DEF ReportsHeard
    <2> QED BY <1>1, <1>2, <2>1, <2>3, <2>9 DEF B
<1> QED BY <1>3, <1>4, FlushOutcome
-----------------------------------------------------------------------------
(* Handler and detector in step *)

\* A step of the pipeline is a step of the detector.
LEMMA DetectorMoves == [PipelineNext]_pipelineVars => [Next]_vars
BY DEF PipelineNext, Next, Receive, Hear, FrameDone, EndOfStream, pipelineVars

\* The handler has buffered what the detector has heard and what is still in
\* its chunks, and made a task of every report but those of the frame in hand.
InStep ==
    /\ DetectorInv /\ ReportsHeard
    /\ jobs \in Seq(OfflineTask) /\ feed_from \in 0 .. total
    /\ Holds(fs) /\ fs.seg_id = Len(jobs)
    /\ fs.abs_samples = total * Hop + chunk_total
    /\ pc # "flushed" => Len(jobs) <= Len(segments)
    /\ pc = "idle" => chunk_total < Hop /\ Len(jobs) = Len(segments)
    /\ pc = "feeding" => fs.online_total > 0

\* The reports that tasks were made of stay what they are.
ReportsStay ==
    \A k \in 1 .. Len(jobs) :
        k <= Len(segments') => k <= Len(segments) /\ segments'[k] = segments[k]

NoTask == ReportsStay /\ jobs' = jobs /\ fs'.seg_start_abs = fs.seg_start_abs

\* Tasks are made of reports, the first with the audio since the last cut.
Batch(tasks) ==
    /\ ReportsStay
    /\ tasks \in Seq(OfflineTask) /\ jobs' = jobs \o tasks
    /\ \A i \in 1 .. Len(tasks) : TaskOf(tasks[i], i)
    /\ fs'.abs_samples = fs.abs_samples
    /\ Len(tasks) = 0 => fs'.seg_start_abs = fs.seg_start_abs
    /\ Len(tasks) > 0 => fs'.seg_start_abs = fs.abs_samples
    /\ \A k \in 1 .. Len(segments') : segments'[k].end_sample <= fs.abs_samples

LEMMA InStepFacts ==
    ASSUME InStep
    PROVE  /\ total \in Nat /\ chunk_total \in Nat /\ total * Hop \in Nat
           /\ segments \in Seq(Segment) /\ Len(segments) \in Nat
           /\ jobs \in Seq(OfflineTask) /\ Len(jobs) \in Nat /\ feed_from \in Nat
           /\ fs.abs_samples \in Nat /\ fs.online_total \in Nat
           /\ fs.seg_start_abs \in Nat /\ fs.online_cut_cursor \in Nat
           /\ fs.seg_start_abs + fs.online_total = fs.abs_samples
           /\ total * Hop <= fs.abs_samples /\ vad \in Session
<1>1. total \in Nat /\ chunk_total \in Nat /\ segments \in Seq(Segment) /\ vad \in Session
    BY DEF InStep, DetectorInv, Hears, SegmentInv, Tidy
<1>2. total * Hop \in Nat
    BY <1>1, HopOrder
<1>3. Holds(fs) /\ jobs \in Seq(OfflineTask) /\ feed_from \in Nat
    BY <1>1 DEF InStep
<1>4. /\ fs.abs_samples \in Nat /\ fs.online_total \in Nat
      /\ fs.seg_start_abs \in Nat /\ fs.online_cut_cursor \in Nat
      /\ fs.seg_start_abs + fs.online_total = fs.abs_samples
    BY <1>3, FrameStateFacts DEF Holds
<1> DEFINE n == total * Hop
<1>5. n \in Nat /\ fs.abs_samples = n + chunk_total
    BY <1>2 DEF InStep
<1> HIDE DEF n
<1>6. n <= fs.abs_samples
    BY <1>1, <1>5
<1>7. Len(segments) \in Nat /\ Len(jobs) \in Nat
    BY <1>1, <1>3
<1> QED BY <1>1, <1>2, <1>3, <1>4, <1>6, <1>7 DEF n

LEMMA ReceiveStep ==
    ASSUME InStep, NEW n \in FeedSizes, Receive(n)
    PROVE  /\ InStep' /\ NoTask /\ ~CursorMoves
           /\ UNCHANGED <<total, vad, segments>> /\ pc = "idle" /\ pc' = "feeding"
           /\ feed_from' = total /\ fs.abs_samples < (total + 1) * Hop
<1>1. n \in Nat /\ n > 0
    BY FeedSizesAssumption
<1>2. /\ pc = "idle" /\ pc' = "feeding" /\ chunk_total' = chunk_total + n
      /\ UNCHANGED <<total, vad, segments, heard>>
      /\ fs' = Buffered(fs, n) /\ feed_from' = total /\ jobs' = jobs
    BY DEF Receive, FeedAudio
<1>3. /\ total \in Nat /\ chunk_total \in Nat /\ total * Hop \in Nat
      /\ fs.abs_samples \in Nat /\ fs.online_total \in Nat /\ fs.online_cut_cursor \in Nat
      /\ jobs \in Seq(OfflineTask)
    BY InStepFacts
<1>4. Holds(fs) /\ fs.seg_id = Len(jobs) /\ fs.abs_samples = total * Hop + chunk_total
      /\ chunk_total < Hop /\ Len(jobs) = Len(segments)
    BY <1>2 DEF InStep
<1>5. /\ Holds(fs') /\ fs'.abs_samples = fs.abs_samples + n
      /\ fs'.online_total = fs.online_total + n
      /\ fs'.seg_id = fs.seg_id /\ fs'.seg_start_abs = fs.seg_start_abs
      /\ fs'.online_cut_cursor = fs.online_cut_cursor
    BY <1>1, <1>2, <1>4, BufferedHolds
<1>6. DetectorInv'
    BY <1>2, DetectorStep DEF InStep, Receive, Next
<1>7. ReportsHeard'
    BY <1>2 DEF InStep, ReportsHeard
<1>8. Holds(fs)'
    BY <1>5 DEF Holds
<1> DEFINE m == total * Hop
<1>9. fs'.abs_samples = m + (chunk_total + n) /\ fs'.online_total > 0
    <2>1. m \in Nat /\ fs.abs_samples = m + chunk_total
        BY <1>3, <1>4
    <2> HIDE DEF m
    <2> QED BY <1>1, <1>3, <1>5, <2>1
<1>10. fs.abs_samples < (total + 1) * Hop
    <2>1. m \in Nat /\ fs.abs_samples = m + chunk_total /\ chunk_total < Hop /\ Hop \in Nat
        BY <1>3, <1>4, HopAssumption
    <2>2. (total + 1) * Hop = m + 1 * Hop /\ 1 * Hop = Hop
        BY <1>3, HopOrder, HopAssumption
    <2> HIDE DEF m
    <2> QED BY <1>3, <2>1, <2>2
<1>11. feed_from' \in 0 .. total'
    BY <1>2, <1>3
<1>12. InStep'
    BY <1>2, <1>3, <1>4, <1>5, <1>6, <1>7, <1>8, <1>9, <1>11 DEF InStep
<1>13. ~CursorMoves
    BY <1>3, <1>5 DEF CursorMoves
<1> QED BY <1>2, <1>5, <1>10, <1>12, <1>13 DEF NoTask, ReportsStay

LEMMA HearStep ==
    ASSUME InStep, NEW b \in BOOLEAN, Hear(b)
    PROVE  /\ InStep' /\ NoTask /\ UNCHANGED <<jobs, fs, feed_from, pc>>
           /\ pc = "feeding"
<1>1. /\ pc = "feeding" /\ pc' = "feeding" /\ chunk_total >= Hop
      /\ chunk_total' = chunk_total - Hop /\ ProcessFrame(b)
      /\ UNCHANGED <<jobs, fs, feed_from>>
    BY DEF Hear, ProcessFrame
<1>2. DetectorInv /\ ReportsHeard /\ Holds(fs) /\ fs.seg_id = Len(jobs)
      /\ feed_from \in 0 .. total /\ fs.online_total > 0 /\ Len(jobs) <= Len(segments)
      /\ fs.abs_samples = total * Hop + chunk_total
    BY <1>1 DEF InStep
<1>3. /\ total \in Nat /\ chunk_total \in Nat /\ total * Hop \in Nat
      /\ segments \in Seq(Segment) /\ Len(segments) \in Nat
      /\ jobs \in Seq(OfflineTask) /\ Len(jobs) \in Nat
    BY InStepFacts
<1>4. /\ total' = total + 1 /\ ReportsHeard' /\ Tells(Bound(vad, total), total')
    BY <1>1, <1>2, FrameTells
<1>5. DetectorInv'
    BY <1>1, <1>2, FrameKeeps
<1>6. fs.abs_samples = total' * Hop + chunk_total'
    <2> DEFINE m == total * Hop
               k == (total + 1) * Hop
    <2>1. k = m + 1 * Hop /\ 1 * Hop = Hop /\ m \in Nat /\ Hop \in Nat
        BY <1>3, HopOrder, HopAssumption
    <2>2. fs.abs_samples = m + chunk_total
        BY <1>2
    <2> HIDE DEF m, k
    <2>3. fs.abs_samples = k + (chunk_total - Hop)
        BY <1>3, <2>1, <2>2
    <2> QED BY <1>1, <1>4, <2>3 DEF k
<1>7. /\ Len(segments) <= Len(segments')
      /\ \A k \in 1 .. Len(segments) : segments'[k] = segments[k]
    <2>1. CASE segments' = segments
        BY <1>3, <2>1
    <2>2. ASSUME NEW r, HeardReport(r, total'), segments' = Append(segments, r)
          PROVE  /\ Len(segments) <= Len(segments')
                 /\ \A k \in 1 .. Len(segments) : segments'[k] = segments[k]
        <3>1. r \in Segment
            BY <2>2 DEF HeardReport
        <3> QED BY <1>3, <2>2, <3>1
    <2> QED BY <1>4, <2>1, <2>2 DEF Tells
<1>8. Len(jobs) <= Len(segments')
    <2>1. Len(segments') \in Nat
        <3>1. segments' \in Seq(Segment)
            BY <1>5 DEF DetectorInv
        <3> QED BY <3>1
    <2> QED BY <1>2, <1>3, <1>7, <2>1
<1>9. feed_from' \in 0 .. total'
    BY <1>1, <1>2, <1>3, <1>4
<1>10. InStep'
    BY <1>1, <1>2, <1>3, <1>4, <1>5, <1>6, <1>8, <1>9 DEF InStep
<1>11. ReportsStay
    BY <1>2, <1>3, <1>7 DEF ReportsStay
<1> QED BY <1>1, <1>10, <1>11 DEF NoTask
\* The reports no task was made of.
LEMMA NewReportsAre ==
    ASSUME NEW sg \in Seq(Segment), fs.seg_id \in Nat, fs.seg_id <= Len(sg)
    PROVE  LET reports == NewReports(sg)
           IN  /\ reports \in Seq(Segment) /\ Len(reports) = Len(sg) - fs.seg_id
               /\ Len(reports) \in Nat
               /\ \A i \in 1 .. Len(reports) :
                     fs.seg_id + i \in 1 .. Len(sg) /\ reports[i] = sg[fs.seg_id + i]
<1> DEFINE n == fs.seg_id
           m == Len(sg)
           reports == NewReports(sg)
<1>1. n \in Nat /\ m \in Nat /\ n <= m
    OBVIOUS
<1>2. reports = SubSeq(sg, n + 1, m)
    BY DEF NewReports
<1>3. \A k \in n + 1 .. m : sg[k] \in Segment
    BY <1>1
<1>4. reports \in Seq(Segment) /\ Len(reports) = m - n
      /\ \A i \in 1 .. m - n : reports[i] = sg[n + i]
    <2>1. /\ Len(SubSeq(sg, n + 1, m)) = m - n
          /\ \A i \in 1 .. m - n : SubSeq(sg, n + 1, m)[i] = sg[(n + 1) + i - 1]
        BY <1>1, SMTT(30)
    <2>2. \A i \in 1 .. m - n : (n + 1) + i - 1 = n + i
        BY <1>1
    <2>3. SubSeq(sg, n + 1, m) \in Seq(Segment)
        BY <1>1
    <2> HIDE DEF n, m, reports
    <2> QED BY <1>2, <2>1, <2>2, <2>3
<1> HIDE DEF reports, n, m
<1>5. m - n \in Nat /\ \A i \in 1 .. m - n : n + i \in 1 .. m
    BY <1>1
<1> QED BY <1>4, <1>5 DEF n, m, reports

LEMMA JobsAppended ==
    ASSUME NEW js \in Seq(OfflineTask), NEW tasks \in Seq(OfflineTask)
    PROVE  LET all == js \o tasks
           IN  /\ all \in Seq(OfflineTask) /\ Len(all) = Len(js) + Len(tasks)
               /\ Len(js) \in Nat /\ Len(tasks) \in Nat
               /\ \A k \in 1 .. Len(js) : k \in 1 .. Len(all) /\ all[k] = js[k]
               /\ \A i \in 1 .. Len(tasks) : all[Len(js) + i] = tasks[i]
               /\ \A k \in 1 .. Len(all) :
                     k \in 1 .. Len(js) \/ \E i \in 1 .. Len(tasks) : k = Len(js) + i
<1> DEFINE all == js \o tasks
           m == Len(js)
           n == Len(tasks)
<1>1. /\ all \in Seq(OfflineTask) /\ Len(all) = m + n
      /\ \A k \in 1 .. m + n : all[k] = IF k <= m THEN js[k] ELSE tasks[k - m]
    BY ConcatProperties
<1>2. m \in Nat /\ n \in Nat
    OBVIOUS
<1> HIDE DEF all, m, n
<1>3. \A k \in 1 .. m : k \in 1 .. m + n /\ k <= m
    BY <1>2
<1>4. \A i \in 1 .. n : m + i \in 1 .. m + n /\ ~(m + i <= m) /\ (m + i) - m = i
    BY <1>2
<1>5. \A k \in 1 .. m + n : k \in 1 .. m \/ (k - m \in 1 .. n /\ k = m + (k - m))
    BY <1>2
<1>6. \A k \in 1 .. m : k \in 1 .. Len(all) /\ all[k] = js[k]
    BY <1>1, <1>3
<1>7. \A i \in 1 .. n : all[m + i] = tasks[i]
    BY <1>1, <1>4
<1>8. \A k \in 1 .. Len(all) : k \in 1 .. m \/ \E i \in 1 .. n : k = m + i
    <2> TAKE k \in 1 .. Len(all)
    <2>1. k \in 1 .. m \/ (k - m \in 1 .. n /\ k = m + (k - m))
        BY <1>1, <1>5
    <2> QED BY <2>1
<1> QED BY <1>1, <1>2, <1>6, <1>7, <1>8 DEF all, m, n

\* The ends of the reports lie in the audio that was buffered.
LEMMA HeardEnds ==
    ASSUME NEW sg \in Seq(Segment), NEW i, \A k \in 1 .. Len(sg) : HeardReport(sg[k], i),
           i * Hop \in Nat, NEW n \in Nat, i * Hop <= n
    PROVE  \A k \in 1 .. Len(sg) : sg[k].end_sample <= n
<1> TAKE k \in 1 .. Len(sg)
<1>1. sg[k].end_sample <= i * Hop
    BY DEF HeardReport
<1>2. sg[k].end_sample \in Nat
    BY SegmentFacts DEF HeardReport
<1> DEFINE m == i * Hop
<1>3. m \in Nat /\ m <= n /\ sg[k].end_sample <= m
    BY <1>1
<1> HIDE DEF m
<1> QED BY <1>2, <1>3

LEMMA DoneStep ==
    ASSUME InStep, FrameDone
    PROVE  LET tasks == Tasks(NewReports(segments))
           IN  /\ InStep' /\ Batch(tasks) /\ Len(tasks) = Len(segments) - Len(jobs)
               /\ UNCHANGED <<total, vad, segments, feed_from>>
               /\ pc = "feeding" /\ pc' = "idle" /\ fs.online_total > 0
               /\ Len(tasks) = 0 => fs'.online_total = fs.online_total
               /\ CursorMoves => /\ vad.in_speech
                                 /\ vad.silence_frame_count * Hop >= OnlinePause
<1> DEFINE reports == NewReports(segments)
           tasks == Tasks(reports)
           count == Len(reports)
           f == AfterCuts(fs, count)
           silence == vad.silence_frame_count * Hop
<1>1. /\ pc = "feeding" /\ pc' = "idle" /\ chunk_total < Hop
      /\ UNCHANGED <<chunk_total, total, vad, segments, heard, feed_from>>
      /\ jobs' = jobs \o tasks
      /\ fs' = OnlineCut(f, vad.in_speech, silence)
    BY DEF FrameDone, FeedReturns
<1>2. /\ DetectorInv /\ ReportsHeard /\ Holds(fs) /\ fs.seg_id = Len(jobs)
      /\ feed_from \in 0 .. total /\ fs.online_total > 0 /\ Len(jobs) <= Len(segments)
      /\ fs.abs_samples = total * Hop + chunk_total
    BY <1>1 DEF InStep
<1>3. /\ total \in Nat /\ chunk_total \in Nat /\ total * Hop \in Nat
      /\ segments \in Seq(Segment) /\ Len(segments) \in Nat
      /\ jobs \in Seq(OfflineTask) /\ Len(jobs) \in Nat /\ fs.abs_samples \in Nat
      /\ total * Hop <= fs.abs_samples /\ vad \in Session /\ fs.online_cut_cursor \in Nat
    BY InStepFacts
<1>4. /\ reports \in Seq(Segment) /\ count = Len(segments) - Len(jobs) /\ count \in Nat
      /\ \A i \in 1 .. count : reports[i] = segments[Len(jobs) + i]
                               /\ Len(jobs) + i \in 1 .. Len(segments)
    BY <1>2, <1>3, NewReportsAre
<1>5. \A i \in 1 .. count : HeardReport(reports[i], total)
    BY <1>2, <1>4 DEF ReportsHeard
<1>6. /\ tasks \in Seq(OfflineTask) /\ Len(tasks) = count
      /\ \A i \in 1 .. Len(tasks) : TaskOf(tasks[i], i)
    BY <1>2, <1>3, <1>4, <1>5, TasksSay
<1>7. vad.in_speech \in BOOLEAN /\ silence \in Nat
    <2>1. vad.in_speech \in BOOLEAN /\ vad.silence_frame_count \in Nat
        BY <1>3 DEF Session
    <2> QED BY <2>1, HopOrder
<1> HIDE DEF reports, tasks, count, silence
<1>8. /\ Holds(f) /\ f.abs_samples = fs.abs_samples
      /\ f.seg_id = fs.seg_id + count
      /\ count = 0 => f = fs
      /\ count > 0 => /\ f.online_total = 0 /\ f.seg_start_abs = fs.abs_samples
                      /\ f.online_cut_cursor = 0
    BY <1>2, <1>4, AfterCutsHolds
<1> HIDE DEF f
<1>9. /\ Holds(fs') /\ fs'.abs_samples = f.abs_samples /\ fs'.seg_id = f.seg_id
      /\ fs'.seg_start_abs = f.seg_start_abs /\ fs'.online_total = f.online_total
      /\ \/ fs'.online_cut_cursor = f.online_cut_cursor
         \/ vad.in_speech /\ silence >= OnlinePause
    BY <1>1, <1>7, <1>8, OnlineCutHolds
<1>10. /\ jobs' \in Seq(OfflineTask) /\ Len(jobs') = Len(jobs) + count
    BY <1>1, <1>3, <1>6, JobsAppended
<1>11. fs'.seg_id = Len(jobs') /\ Len(jobs') = Len(segments')
    BY <1>1, <1>2, <1>3, <1>4, <1>8, <1>9, <1>10
<1>12. Holds(fs)'
    BY <1>9 DEF Holds
<1>13. DetectorInv' /\ ReportsHeard'
    <2>1. DetectorInv'
        BY <1>2, DetectorStep DEF FrameDone, Next
    <2> QED BY <1>1, <1>2, <2>1 DEF ReportsHeard
<1>14. InStep'
    <2>1. fs'.abs_samples = total' * Hop + chunk_total'
        BY <1>1, <1>2, <1>8, <1>9
    <2>2. Len(jobs') <= Len(segments')
        BY <1>1, <1>3, <1>11
    <2>3. feed_from' \in 0 .. total'
        BY <1>1, <1>2
    <2> QED BY <1>1, <1>10, <1>11, <1>12, <1>13, <2>1, <2>2, <2>3 DEF InStep
<1>15. ReportsStay
    BY <1>1, <1>2, <1>3 DEF ReportsStay
<1>16. \A k \in 1 .. Len(segments') : segments'[k].end_sample <= fs.abs_samples
    <2>1. \A k \in 1 .. Len(segments) : segments[k].end_sample <= fs.abs_samples
        BY <1>2, <1>3, HeardEnds DEF ReportsHeard
    <2> QED BY <1>1, <2>1
<1>17. Batch(tasks)
    BY <1>1, <1>6, <1>8, <1>9, <1>15, <1>16 DEF Batch
<1>18. CursorMoves => vad.in_speech /\ silence >= OnlinePause
    <2> SUFFICES ASSUME fs'.online_cut_cursor = f.online_cut_cursor PROVE ~CursorMoves
        BY <1>9
    <2>1. f.online_cut_cursor \in {0, fs.online_cut_cursor}
        BY <1>4, <1>8
    <2> QED BY <1>3, <2>1 DEF CursorMoves
<1> QED BY <1>1, <1>2, <1>4, <1>6, <1>8, <1>9, <1>14, <1>17, <1>18
        DEF tasks, reports, silence
\* What the end of the stream makes tasks of: one report at the most, of the
\* open segment or of what is left in the buffer.
EndsWith(reports) ==
    /\ jobs' = jobs \o Tasks(reports) /\ fs' = AfterCuts(fs, Len(reports))
    /\ reports \in Seq(Segment) /\ Len(reports) \in {0, 1}
    /\ \/ reports = <<>> /\ segments' = segments
       \/ /\ Len(reports) = 1 /\ segments' = Append(segments, reports[1])
          /\ HeardReport(reports[1], total)
          /\ Bound(vad, total) * Hop <= reports[1].start_sample + Pad * Hop
       \/ Len(reports) = 1 /\ segments' = segments /\ fs.online_total > 0

LEMMA EndReports ==
    ASSUME InStep, EndOfStream
    PROVE  \E reports : EndsWith(reports)
<1> DEFINE tail == NewReports(segments')
           reports == IF tail = <<>> /\ fs.online_total > 0 THEN <<Rest>> ELSE tail
<1>1. /\ Flush /\ jobs' = jobs \o Tasks(reports) /\ fs' = AfterCuts(fs, Len(reports))
      /\ pc = "idle"
    BY DEF EndOfStream, Flush
<1>2. DetectorInv /\ ReportsHeard /\ fs.seg_id = Len(segments)
    BY <1>1 DEF InStep
<1>3. /\ segments \in Seq(Segment) /\ Len(segments) \in Nat /\ fs.online_total \in Nat
    BY InStepFacts
<1>4. Tells(Bound(vad, total), total) /\ segments' \in Seq(Segment)
    <2>1. DetectorInv'
        BY <1>1, <1>2, DetectorStep DEF Next
    <2> QED BY <1>1, <1>2, <2>1, FlushTells DEF DetectorInv
<1>5. CASE segments' = segments
    <2>1. tail \in Seq(Segment) /\ Len(tail) = Len(segments) - Len(segments)
        BY <1>2, <1>3, <1>4, <1>5, NewReportsAre
    <2> HIDE DEF tail
    <2>2. tail = <<>>
        BY <1>3, <2>1, EmptySeq
    <2>3. Rest \in Segment
        BY <1>3 DEF Rest, Segment, Frame
    <2>4. <<Rest>> \in Seq(Segment) /\ Len(<<Rest>>) = 1
        BY <2>3
    <2>5. \/ reports = <<>>
          \/ reports \in Seq(Segment) /\ Len(reports) = 1 /\ fs.online_total > 0
        BY <2>2, <2>4
    <2>6. <<>> \in Seq(Segment) /\ Len(<<>>) = 0
        OBVIOUS
    <2> HIDE DEF reports
    <2>7. EndsWith(reports)
        BY <1>1, <1>5, <2>5, <2>6 DEF EndsWith
    <2> QED BY <2>7
<1>6. ASSUME NEW r, HeardReport(r, total), segments' = Append(segments, r),
             Bound(vad, total) * Hop <= r.start_sample + Pad * Hop
      PROVE  \E reps : EndsWith(reps)
    <2>1. r \in Segment
        BY <1>6 DEF HeardReport
    <2> DEFINE n == Len(segments)
    <2>2. n \in Nat /\ Len(segments') = n + 1 /\ segments'[n + 1] = r
        BY <1>3, <1>6, <2>1
    <2>3. fs.seg_id = n
        BY <1>2
    <2> HIDE DEF n
    <2>4. fs.seg_id \in Nat /\ fs.seg_id <= Len(segments')
        BY <2>2, <2>3
    <2>5. /\ tail \in Seq(Segment) /\ Len(tail) = Len(segments') - n
          /\ \A i \in 1 .. Len(tail) : tail[i] = segments'[n + i]
        BY <1>4, <2>3, <2>4, NewReportsAre
    <2> HIDE DEF tail
    <2>6. Len(tail) = 1
        BY <2>2, <2>5
    <2>7. tail[1] = r
        BY <2>2, <2>5, <2>6
    <2>8. tail # <<>>
        BY <2>6
    <2>9. reports = tail
        BY <2>8
    <2> HIDE DEF reports
    <2>10. EndsWith(reports)
        BY <1>1, <1>6, <2>5, <2>6, <2>7, <2>9 DEF EndsWith
    <2> QED BY <2>10
<1> QED BY <1>4, <1>5, <1>6 DEF Tells

LEMMA EndStep ==
    ASSUME InStep, NEW reports, EndsWith(reports), EndOfStream
    PROVE  LET tasks == Tasks(reports)
           IN  /\ InStep' /\ Batch(tasks) /\ Len(tasks) = Len(reports)
               /\ UNCHANGED <<total, feed_from>> /\ pc = "idle" /\ pc' = "flushed"
               /\ ~CursorMoves
<1> DEFINE tasks == Tasks(reports)
           count == Len(reports)
<1>1. /\ Flush /\ pc = "idle" /\ pc' = "flushed"
      /\ UNCHANGED <<chunk_total, total, heard, feed_from>>
    BY DEF EndOfStream, Flush
<1>2. /\ DetectorInv /\ ReportsHeard /\ Holds(fs) /\ fs.seg_id = Len(jobs)
      /\ feed_from \in 0 .. total /\ Len(jobs) = Len(segments)
      /\ fs.abs_samples = total * Hop + chunk_total
    BY <1>1 DEF InStep
<1>3. /\ total \in Nat /\ chunk_total \in Nat /\ total * Hop \in Nat
      /\ segments \in Seq(Segment) /\ Len(segments) \in Nat
      /\ jobs \in Seq(OfflineTask) /\ Len(jobs) \in Nat /\ fs.abs_samples \in Nat
      /\ total * Hop <= fs.abs_samples /\ fs.online_cut_cursor \in Nat
    BY InStepFacts
<1>4. /\ jobs' = jobs \o tasks /\ fs' = AfterCuts(fs, count)
      /\ reports \in Seq(Segment) /\ count \in {0, 1}
      /\ count = 1 => HeardReport(reports[1], total) \/ fs.online_total > 0
    BY DEF EndsWith
<1>5. \A i \in 1 .. count : HeardReport(reports[i], total) \/ (i = 1 /\ fs.online_total > 0)
    <2> TAKE i \in 1 .. count
    <2>1. count = 1 /\ i = 1
        <3> HIDE DEF count
        <3>1. i \in 1 .. count /\ (count = 0 \/ count = 1)
            BY <1>4
        <3> QED BY <3>1
    <2> QED BY <1>4, <2>1
<1>6. /\ tasks \in Seq(OfflineTask) /\ Len(tasks) = count
      /\ \A i \in 1 .. Len(tasks) : TaskOf(tasks[i], i)
    BY <1>2, <1>3, <1>4, <1>5, TasksSay
<1> HIDE DEF tasks, count
<1>16. count \in Nat
    BY <1>4
<1>7. /\ Holds(fs') /\ fs'.abs_samples = fs.abs_samples
      /\ fs'.seg_id = fs.seg_id + count
      /\ count = 0 => fs' = fs
      /\ count > 0 => /\ fs'.online_total = 0 /\ fs'.seg_start_abs = fs.abs_samples
                      /\ fs'.online_cut_cursor = 0
    BY <1>2, <1>4, <1>16, AfterCutsHolds
<1>8. /\ jobs' \in Seq(OfflineTask) /\ Len(jobs') = Len(jobs) + count
    BY <1>3, <1>4, <1>6, JobsAppended
<1>9. Holds(fs)'
    BY <1>7 DEF Holds
<1>10. DetectorInv' /\ ReportsHeard'
    <2>1. DetectorInv'
        BY <1>1, <1>2, DetectorStep DEF Next
    <2> QED BY <1>1, <1>2, <2>1, FlushTells
<1>11. InStep'
    <2>1. fs'.abs_samples = total' * Hop + chunk_total'
        BY <1>1, <1>2, <1>7
    <2>2. feed_from' \in 0 .. total'
        BY <1>1, <1>2
    <2>3. fs'.seg_id = Len(jobs')
        BY <1>2, <1>7, <1>8
    <2> QED BY <1>1, <1>8, <1>9, <1>10, <2>1, <2>2, <2>3 DEF InStep
<1>12. ReportsStay
    <2>1. \A k \in 1 .. Len(segments) : segments'[k] = segments[k]
        <3>1. CASE segments' = segments
            BY <3>1
        <3>2. CASE segments' = Append(segments, reports[1]) /\ HeardReport(reports[1], total)
            <4>1. reports[1] \in Segment
                BY <3>2 DEF HeardReport
            <4> QED BY <1>3, <3>2, <4>1
        <3> QED BY <3>1, <3>2 DEF EndsWith
    <2> QED BY <1>2, <1>3, <2>1 DEF ReportsStay
<1>13. \A k \in 1 .. Len(segments') : segments'[k].end_sample <= fs.abs_samples
    <2>1. /\ segments' \in Seq(Segment)
          /\ \A k \in 1 .. Len(segments') : HeardReport(segments'[k], total)
        BY <1>1, <1>10 DEF DetectorInv, ReportsHeard
    <2> QED BY <1>3, <2>1, HeardEnds
<1>14. Batch(tasks)
    BY <1>4, <1>6, <1>7, <1>12, <1>13 DEF Batch
<1>15. ~CursorMoves
    <2>1. fs'.online_cut_cursor \in {0, fs.online_cut_cursor}
        BY <1>4, <1>7 DEF count
    <2> QED BY <1>3, <2>1 DEF CursorMoves
<1> QED BY <1>1, <1>6, <1>11, <1>14, <1>15 DEF tasks, count

LEMMA InStepInit == PipelineInit => InStep
<1> SUFFICES ASSUME PipelineInit PROVE InStep
    OBVIOUS
<1>1. /\ Init /\ fs = NewFrameState /\ jobs = <<>> /\ feed_from = 0
      /\ pc = "idle" /\ chunk_total = 0 /\ total = 0 /\ segments = <<>> /\ ~vad.in_speech
    BY DEF PipelineInit, Init
<1>2. DetectorInv
    BY <1>1, DetectorInit
<1>3. ReportsHeard
    BY <1>1 DEF ReportsHeard
<1>4. /\ fs \in FrameState /\ fs.online_buf = <<>> /\ fs.online_total = 0
      /\ fs.seg_start_abs = 0 /\ fs.abs_samples = 0 /\ fs.seg_id = 0
    <2>1. <<>> \in Seq(Nat) /\ <<>> \in Text
        BY DEF Text
    <2> QED BY <1>1, <2>1 DEF NewFrameState, FrameState
<1>5. Holds(fs)
    BY <1>4 DEF Holds
<1>6. jobs \in Seq(OfflineTask) /\ Len(jobs) = 0 /\ Len(segments) = 0
    BY <1>1
<1>7. total * Hop = 0 /\ 0 < Hop
    BY <1>1, HopAssumption
<1> QED BY <1>1, <1>2, <1>3, <1>4, <1>5, <1>6, <1>7 DEF InStep

\* Every step keeps handler and detector in step, and makes tasks or none.
LEMMA InStepKept ==
    ASSUME InStep, [PipelineNext]_pipelineVars
    PROVE  /\ InStep'
           /\ NoTask \/ \E tasks : Batch(tasks)
           /\ CursorMoves => /\ vad.in_speech
                             /\ vad.silence_frame_count * Hop >= OnlinePause
<1>1. ASSUME NEW n \in FeedSizes, Receive(n)
      PROVE  InStep' /\ NoTask /\ ~CursorMoves
    BY <1>1, ReceiveStep
<1>2. fs' = fs => ~CursorMoves
    BY InStepFacts DEF CursorMoves
<1>3. ASSUME NEW b \in BOOLEAN, Hear(b)
      PROVE  InStep' /\ NoTask /\ ~CursorMoves
    BY <1>2, <1>3, HearStep
<1>4. CASE FrameDone
    BY <1>4, DoneStep
<1>5. CASE EndOfStream
    <2>1. PICK reports : EndsWith(reports)
        BY <1>5, EndReports
    <2>2. InStep' /\ Batch(Tasks(reports)) /\ ~CursorMoves
        BY <1>5, <2>1, EndStep
    <2> QED BY <2>2
<1>6. CASE UNCHANGED pipelineVars
    <2>1. UNCHANGED <<pc, chunk_total, total, vad, segments, heard, fs, jobs, feed_from>>
        BY <1>6 DEF pipelineVars, vars
    <2>2. DetectorInv'
        BY DetectorStep, DetectorMoves DEF InStep
    <2>3. InStep'
        BY <2>1, <2>2 DEF InStep, ReportsHeard, Holds
    <2>4. NoTask
        BY <2>1 DEF NoTask, ReportsStay, InStep
    <2> QED BY <1>2, <2>1, <2>3, <2>4
<1> QED BY <1>1, <1>3, <1>4, <1>5, <1>6 DEF PipelineNext
-----------------------------------------------------------------------------
(* What the detector promises, and what the handler relies on *)

\* Handler and FrameState only restrict the detector: what holds of it alone
\* holds in a session (_process_audio_frame and flush are its only callers).
THEOREM PipelineIsDetector == PipelineSpec => Spec
<1>1. PipelineInit => Init
    BY DEF PipelineInit
<1> QED BY <1>1, DetectorMoves, PTL DEF PipelineSpec, Spec

\* Whatever bursts are merged into a silence, kept or forced out: between two
\* frames the pause is shorter than the threshold, and the segment with the
\* burst on probation is not longer than the maximum.
THEOREM CutsAreInTime == PipelineSpec => []NoCutOverdue
BY PipelineIsDetector, CutsInTime, PTL

LEMMA TypesInStep == InStep => PipelineTypeOK
<1> SUFFICES ASSUME InStep PROVE PipelineTypeOK
    OBVIOUS
<1>1. TypeOK
    <2>1. vad \in Session
        BY InStepFacts
    <2> QED BY <2>1 DEF InStep, DetectorInv, Hears, TypeOK
<1> QED BY <1>1 DEF InStep, Holds, PipelineTypeOK

\* Every variable of the pipeline has its type, whatever is fed and heard.
THEOREM PipelineTypeCorrect == PipelineSpec => []PipelineTypeOK
<1>1. InStep /\ [PipelineNext]_pipelineVars => InStep'
    BY InStepKept
<1> QED BY <1>1, InStepInit, TypesInStep, PTL DEF PipelineSpec

\* silence_duration leaves out the burst on probation, but never counts what
\* the segment has kept: all the audio behind the last kept speech is at least
\* ONLINE_VAD_PAUSE_SEC long when the online cursor moves.
THEOREM CursorStaysBehindPauses == PipelineSpec => CutBehindPause
<1>1. InStep /\ [PipelineNext]_pipelineVars
        => [CursorMoves =>
              /\ vad.in_speech
              /\ (total - vad.last_speech_end) * Hop >= OnlinePause]_pipelineVars
    <2> SUFFICES ASSUME InStep, [PipelineNext]_pipelineVars, CursorMoves
                 PROVE  /\ vad.in_speech
                        /\ (total - vad.last_speech_end) * Hop >= OnlinePause
        OBVIOUS
    <2>1. vad.in_speech /\ vad.silence_frame_count * Hop >= OnlinePause
        BY InStepKept
    <2>2. EndKnown(vad, heard, total) /\ vad \in Session /\ total \in Nat
        BY InStepFacts DEF InStep, DetectorInv, SegmentInv
    <2>3. /\ vad.silence_frame_count \in Nat /\ vad.last_speech_end \in Nat
          /\ vad.gap_buffer \in Seq(Nat)
        BY <2>2 DEF Session, Frame
    <2>4. Len(vad.gap_buffer) \in Nat
        BY <2>3
    <2>5. vad.last_speech_end + vad.silence_frame_count + Len(vad.gap_buffer) <= total
        BY <2>1, <2>2 DEF EndKnown
    <2> DEFINE late == total - vad.last_speech_end
               silent == vad.silence_frame_count
    <2>6. late \in Nat /\ silent \in Nat /\ silent <= late
        BY <2>2, <2>3, <2>4, <2>5
    <2> HIDE DEF late, silent
    <2>7. silent * Hop <= late * Hop /\ silent * Hop \in Nat /\ late * Hop \in Nat
        BY <2>6, HopOrder
    <2>8. silent * Hop >= OnlinePause
        BY <2>1 DEF silent
    <2>9. late * Hop >= OnlinePause
        <3> DEFINE a == silent * Hop
                   c == late * Hop
        <3>1. a \in Nat /\ c \in Nat /\ a <= c /\ a >= OnlinePause /\ OnlinePause \in Nat
            BY <2>7, <2>8, OnlinePauseAssumption
        <3> HIDE DEF a, c
        <3>2. c >= OnlinePause
            BY <3>1
        <3> QED BY <3>2 DEF c
    <2> QED BY <2>1, <2>9 DEF late
<1>2. InStep /\ [PipelineNext]_pipelineVars => InStep'
    BY InStepKept
<1> QED BY <1>1, <1>2, InStepInit, PTL DEF PipelineSpec, CutBehindPause

\* Reports of audio that was heard are what AsrSession assumes, as long as no
\* task was made of them.
LEMMA HeardIsAllowed ==
    ASSUME NEW sg \in Seq(Segment), NEW i \in Nat,
           \A k \in 1 .. Len(sg) : HeardReport(sg[k], i),
           Len(sg) <= i, i * Hop <= fs.abs_samples, fs.abs_samples \in Nat,
           fs.seg_id \in Nat, fs.seg_id <= Len(sg)
    PROVE  Reported(fs, [k \in DOMAIN NewReports(sg) |-> Span(NewReports(sg)[k])])
<1> DEFINE reports == NewReports(sg)
           spans == [k \in DOMAIN reports |-> Span(reports[k])]
           n == fs.seg_id
           m == Len(sg)
           t == i * Hop
<1>1. n \in Nat /\ m \in Nat /\ n <= m /\ m <= i /\ t \in Nat /\ t <= fs.abs_samples
    <2>1. t \in Nat
        BY HopAssumption
    <2> HIDE DEF t
    <2>2. t <= fs.abs_samples
        BY DEF t
    <2> QED BY <2>1, <2>2
<1>2. /\ reports \in Seq(Segment) /\ Len(reports) = m - n /\ Len(reports) \in Nat
      /\ \A k \in 1 .. Len(reports) : n + k \in 1 .. m /\ reports[k] = sg[n + k]
    BY NewReportsAre
<1>3. DOMAIN reports = 1 .. Len(reports)
    BY <1>2
<1>4. Len(spans) = Len(reports) /\ DOMAIN spans = 1 .. Len(reports)
    BY <1>2, <1>3
<1>5. fs.seg_id + Len(spans) <= fs.abs_samples
    <2>1. i <= t
        <3>1. CASE i = 0
            BY <1>1, <3>1
        <3>2. i * 1 <= i * Hop
            BY HopAssumption
        <3> QED BY <3>1, <3>2
    <2> HIDE DEF t, spans, m, n, reports
    <2>2. n + Len(spans) = m
        BY <1>1, <1>2, <1>4
    <2> QED BY <1>1, <2>1, <2>2 DEF n
<1>6. ASSUME NEW k \in 1 .. Len(reports)
      PROVE  spans[k][1] <= spans[k][2] /\ spans[k][2] <= fs.abs_samples
    <2>1. HeardReport(reports[k], i)
        BY <1>2
    <2>2. spans[k] = Span(reports[k])
        BY <1>3
    <2> HIDE DEF spans, reports
    <2>3. spans[k][1] = reports[k].start_sample /\ spans[k][2] = reports[k].end_sample
        BY <2>2 DEF Span
    <2> DEFINE s == reports[k].start_sample
               e == reports[k].end_sample
    <2>4. s \in Nat /\ e \in Nat /\ s <= e /\ e <= t
        BY <2>1, SegmentFacts DEF HeardReport
    <2> HIDE DEF s, e, t
    <2>5. s <= e /\ e <= fs.abs_samples
        BY <1>1, <2>4
    <2> QED BY <2>3, <2>5 DEF s, e
<1> HIDE DEF spans, reports
<1>7. Reported(fs, spans)
    BY <1>4, <1>5, <1>6 DEF Reported
<1> QED BY <1>7 DEF spans, reports

LEMMA InStepAllows == InStep => ReportsAllowed
<1> SUFFICES ASSUME InStep
             PROVE  Reported(fs, [k \in DOMAIN NewReports(segments) |->
                                     Span(NewReports(segments)[k])])
                    \/ pc # "feeding"
    BY DEF ReportsAllowed
<1>1. /\ total \in Nat /\ segments \in Seq(Segment) /\ Len(segments) \in Nat
      /\ fs.abs_samples \in Nat /\ total * Hop <= fs.abs_samples /\ Len(jobs) \in Nat
    BY InStepFacts
<1>2. fs.seg_id = Len(jobs) /\ (pc # "flushed" => fs.seg_id <= Len(segments))
      /\ ReportsHeard
    BY DEF InStep
<1>3. Len(segments) <= total /\ \A k \in 1 .. Len(segments) : HeardReport(segments[k], total)
    BY <1>1, <1>2 DEF ReportsHeard
<1> QED BY <1>1, <1>2, <1>3, HeardIsAllowed

\* When feed_audio returns, the spans it reports lie in the audio the handler
\* has buffered, and there are no more of them than samples, whatever bursts
\* were merged, kept or forced out: what AsrSession assumes of the detector.
THEOREM ReportsAreAllowed == PipelineSpec => []ReportsAllowed
<1>1. InStep /\ [PipelineNext]_pipelineVars => InStep'
    BY InStepKept
<1> QED BY <1>1, InStepInit, InStepAllows, PTL DEF PipelineSpec

\* Wherever the stream ends, what flush() reports is one segment at most, and
\* its span lies in the audio the handler has buffered: what AsrSession assumes
\* of the flush (websocket_handler.py:159-166).
THEOREM TailIsAllowed == PipelineSpec => TailAllowed
<1> DEFINE tail == NewReports(segments')
           Allowed == /\ Len(tail) <= 1
                      /\ Reported(fs, [k \in DOMAIN tail |-> Span(tail[k])])
<1>1. InStep /\ [PipelineNext]_pipelineVars
        => [pc' = "flushed" /\ pc # "flushed" => Allowed]_pipelineVars
    <2> SUFFICES ASSUME InStep, [PipelineNext]_pipelineVars, pc' = "flushed", pc # "flushed"
                 PROVE  Allowed
        OBVIOUS
    <2>1. Flush
        BY DEF PipelineNext, Receive, FeedAudio, Hear, ProcessFrame, FrameDone, FeedReturns,
               EndOfStream, pipelineVars, vars
    <2>2. /\ total \in Nat /\ segments \in Seq(Segment) /\ Len(segments) \in Nat
          /\ fs.abs_samples \in Nat /\ total * Hop <= fs.abs_samples
        BY InStepFacts
    <2>3. DetectorInv /\ ReportsHeard /\ fs.seg_id = Len(segments)
        BY <2>1 DEF InStep, Flush
    <2>4. total' = total /\ ReportsHeard' /\ Tells(Bound(vad, total), total)
        BY <2>1, <2>3, FlushTells
    <2>5. segments' \in Seq(Segment)
        <3>1. DetectorInv'
            BY <2>1, <2>3, DetectorStep DEF Next
        <3> QED BY <3>1 DEF DetectorInv
    <2>6. Len(segments) <= Len(segments') /\ Len(segments') <= Len(segments) + 1
        BY <2>2, <2>4 DEF Tells
    <2>7. Len(segments') <= total /\ \A k \in 1 .. Len(segments') : HeardReport(segments'[k], total)
        BY <2>2, <2>4, <2>5 DEF ReportsHeard
    <2>8. Len(tail) = Len(segments') - fs.seg_id
        BY <2>2, <2>3, <2>5, <2>6, NewReportsAre
    <2>9. Len(tail) <= 1
        <3> HIDE DEF tail
        <3> QED BY <2>2, <2>3, <2>5, <2>6, <2>8
    <2>10. Reported(fs, [k \in DOMAIN tail |-> Span(tail[k])])
        BY <2>2, <2>3, <2>5, <2>6, <2>7, HeardIsAllowed
    <2> QED BY <2>9, <2>10
<1>2. InStep /\ [PipelineNext]_pipelineVars => InStep'
    BY InStepKept
<1> QED BY <1>1, <1>2, InStepInit, PTL DEF PipelineSpec, TailAllowed
-----------------------------------------------------------------------------
(* Every span is recognised *)

Given(js, n, p) == \E j \in 1 .. n : p \in Range(js[j].audio)

\* The tasks together have all audio before `s', and at each of them all that
\* had been received was given.
Gives(js, s) ==
    /\ \A p \in 0 .. s - 1 : Given(js, Len(js), p)
    /\ \A k \in 1 .. Len(js) : \A p \in 0 .. js[k].at - 1 : Given(js, k, p)

CoverInv ==
    /\ Gives(jobs, fs.seg_start_abs)
    /\ \A k \in 1 .. Len(jobs) :
          k <= Len(segments) => segments[k].end_sample <= jobs[k].at

\* Tasks made together give all that was received.
LEMMA BatchGives ==
    ASSUME InStep, Gives(jobs, fs.seg_start_abs),
           NEW tasks \in Seq(OfflineTask), Len(tasks) > 0,
           \A i \in 1 .. Len(tasks) : TaskOf(tasks[i], i)
    PROVE  Gives(jobs \o tasks, fs.abs_samples)
<1> DEFINE all == jobs \o tasks
           m == Len(jobs)
           n == Len(tasks)
           a == fs.seg_start_abs
           b == fs.abs_samples
<1>1. /\ jobs \in Seq(OfflineTask) /\ a \in Nat /\ b \in Nat /\ fs.online_total \in Nat
      /\ a + fs.online_total = b
    BY InStepFacts
<1>2. /\ Len(all) = m + n /\ m \in Nat /\ n \in Nat
      /\ \A k \in 1 .. m : k \in 1 .. Len(all) /\ all[k] = jobs[k]
      /\ \A i \in 1 .. n : all[m + i] = tasks[i]
      /\ \A k \in 1 .. Len(all) : k \in 1 .. m \/ \E i \in 1 .. n : k = m + i
    BY <1>1, JobsAppended
<1>3. \A i \in 1 .. n : TaskOf(tasks[i], i)
    OBVIOUS
<1>4. /\ \A p \in 0 .. a - 1 : Given(jobs, m, p)
      /\ \A k \in 1 .. m : \A p \in 0 .. jobs[k].at - 1 : Given(jobs, k, p)
    BY DEF Gives
<1>5. n > 0
    OBVIOUS
<1> HIDE DEF all, m, n, a, b
<1>6. \A k \in 1 .. m : \A p : Given(jobs, k, p) => Given(all, k, p)
    <2> TAKE k \in 1 .. m
    <2> TAKE p
    <2> SUFFICES ASSUME NEW j \in 1 .. k, p \in Range(jobs[j].audio)
                 PROVE  p \in Range(all[j].audio)
        BY DEF Given
    <2>1. j \in 1 .. m
        BY <1>2
    <2> QED BY <1>2, <2>1
<1>7. ASSUME NEW p \in 0 .. b - 1 PROVE Given(all, m + 1, p)
    <2>1. CASE p < a
        <3>1. p \in 0 .. a - 1
            BY <1>1, <2>1
        <3>2. PICK j \in 1 .. m : p \in Range(jobs[j].audio)
            BY <1>4, <3>1 DEF Given
        <3>3. j \in 1 .. m + 1 /\ p \in Range(all[j].audio)
            BY <1>2, <3>2
        <3> QED BY <3>3 DEF Given
    <2>2. CASE ~(p < a)
        <3>1. p \in a .. b - 1 /\ fs.online_total > 0
            BY <1>1, <2>2
        <3>2. 1 \in 1 .. n
            BY <1>2, <1>5
        <3>3. p \in Range(tasks[1].audio)
            BY <1>3, <3>1, <3>2 DEF TaskOf, a, b
        <3>4. p \in Range(all[m + 1].audio)
            BY <1>2, <3>2, <3>3
        <3>5. m + 1 \in 1 .. m + 1
            BY <1>2
        <3> QED BY <3>4, <3>5 DEF Given
    <2> QED BY <2>1, <2>2
<1>8. ASSUME NEW i \in 1 .. n, NEW p \in 0 .. b - 1 PROVE Given(all, m + i, p)
    <2>1. \A j \in 1 .. m + 1 : j \in 1 .. m + i
        BY <1>2
    <2> QED BY <1>7, <2>1 DEF Given
<1>9. \A p \in 0 .. b - 1 : Given(all, Len(all), p)
    <2>1. n \in 1 .. n
        BY <1>2, <1>5
    <2> QED BY <1>2, <1>8, <2>1
<1>10. ASSUME NEW k \in 1 .. Len(all), NEW p \in 0 .. all[k].at - 1
       PROVE  Given(all, k, p)
    <2>1. CASE k \in 1 .. m
        <3>1. all[k] = jobs[k]
            BY <1>2, <2>1
        <3> QED BY <1>4, <1>6, <2>1, <3>1
    <2>2. ASSUME NEW i \in 1 .. n, k = m + i
          PROVE  Given(all, k, p)
        <3>1. all[k].at = b
            BY <1>2, <1>3, <2>2 DEF TaskOf, b
        <3> QED BY <1>8, <2>2, <3>1
    <2> QED BY <1>2, <2>1, <2>2
<1> QED BY <1>9, <1>10 DEF Gives, all, b

LEMMA CoverStep ==
    ASSUME InStep, CoverInv, [PipelineNext]_pipelineVars
    PROVE  CoverInv'
<1>1. InStep' /\ (NoTask \/ \E tasks : Batch(tasks))
    BY InStepKept
<1>2. CASE NoTask
    <2>1. \A k \in 1 .. Len(jobs) : k <= Len(segments') => segments'[k].end_sample <= jobs[k].at
        BY <1>2 DEF NoTask, ReportsStay, CoverInv
    <2>2. Gives(jobs', fs'.seg_start_abs)
        BY <1>2 DEF NoTask, CoverInv
    <2>3. Gives(jobs, fs.seg_start_abs)'
        BY <2>2 DEF Gives, Given
    <2> QED BY <1>2, <2>1, <2>3 DEF NoTask, CoverInv
<1>3. ASSUME NEW tasks, Batch(tasks) PROVE CoverInv'
    <2>1. /\ tasks \in Seq(OfflineTask) /\ jobs' = jobs \o tasks /\ ReportsStay
          /\ \A i \in 1 .. Len(tasks) : TaskOf(tasks[i], i)
          /\ Len(tasks) = 0 => fs'.seg_start_abs = fs.seg_start_abs
          /\ Len(tasks) > 0 => fs'.seg_start_abs = fs.abs_samples
          /\ \A k \in 1 .. Len(segments') : segments'[k].end_sample <= fs.abs_samples
        BY <1>3 DEF Batch
    <2>2. /\ jobs \in Seq(OfflineTask) /\ Len(segments) \in Nat
          /\ Gives(jobs, fs.seg_start_abs)
        BY InStepFacts DEF CoverInv
    <2> DEFINE m == Len(jobs)
               n == Len(tasks)
    <2>3. /\ jobs' \in Seq(OfflineTask) /\ Len(jobs') = m + n /\ m \in Nat /\ n \in Nat
          /\ \A k \in 1 .. m : jobs'[k] = jobs[k]
          /\ \A i \in 1 .. n : jobs'[m + i] = tasks[i]
          /\ \A k \in 1 .. Len(jobs') : k \in 1 .. m \/ \E i \in 1 .. n : k = m + i
        BY <2>1, <2>2, JobsAppended
    <2>4. Gives(jobs', fs'.seg_start_abs)
        <3>1. CASE n > 0
            BY <2>1, <2>2, <3>1, BatchGives
        <3>2. CASE n = 0
            <4>1. tasks = <<>>
                BY <2>1, <3>2, EmptySeq
            <4>2. jobs' = jobs
                BY <2>1, <2>2, <4>1, ConcatEmptySeq
            <4> QED BY <2>1, <2>2, <3>2, <4>2
        <3> QED BY <2>3, <3>1, <3>2
    <2>5. Gives(jobs, fs.seg_start_abs)'
        BY <2>4 DEF Gives, Given
    <2>6. ASSUME NEW k \in 1 .. Len(jobs'), k <= Len(segments')
          PROVE  segments'[k].end_sample <= jobs'[k].at
        <3>1. CASE k \in 1 .. m
            <4>1. k <= Len(segments) /\ segments'[k] = segments[k] /\ jobs'[k] = jobs[k]
                BY <2>1, <2>3, <2>6, <3>1 DEF ReportsStay
            <4> QED BY <3>1, <4>1 DEF CoverInv
        <3>2. ASSUME NEW i \in 1 .. n, k = m + i
              PROVE  segments'[k].end_sample <= jobs'[k].at
            <4>1. jobs'[k].at = fs.abs_samples
                BY <2>1, <2>3, <3>2 DEF TaskOf
            <4>2. segments' \in Seq(Segment)
                BY <1>1 DEF InStep, DetectorInv
            <4>3. k \in 1 .. Len(segments')
                BY <2>3, <2>6, <4>2
            <4> QED BY <2>1, <4>1, <4>3
        <3> QED BY <2>3, <3>1, <3>2
    <2> QED BY <2>5, <2>6 DEF CoverInv
<1> QED BY <1>1, <1>2, <1>3

LEMMA CoverInit == PipelineInit => CoverInv
<1> SUFFICES ASSUME PipelineInit PROVE CoverInv
    OBVIOUS
<1>1. jobs = <<>> /\ fs.seg_start_abs = 0
    BY DEF PipelineInit, NewFrameState
<1>2. Len(jobs) = 0
    BY <1>1
<1> QED BY <1>1, <1>2 DEF CoverInv, Gives

LEMMA CoverRecognises == InStep /\ CoverInv => SpanIsRecognised
<1> SUFFICES ASSUME InStep, CoverInv,
                    NEW k \in 1 .. Min({Len(jobs), Len(segments)}),
                    NEW p \in segments[k].start_sample .. segments[k].end_sample - 1
             PROVE  \E j \in 1 .. k : p \in Range(jobs[j].audio)
    BY DEF SpanIsRecognised
<1>1. /\ Len(jobs) \in Nat /\ Len(segments) \in Nat
      /\ segments \in Seq(Segment) /\ jobs \in Seq(OfflineTask)
    BY InStepFacts
<1>2. k \in 1 .. Len(jobs) /\ k \in 1 .. Len(segments) /\ k <= Len(segments)
    <2>1. Min({Len(jobs), Len(segments)})
             = IF Len(jobs) <= Len(segments) THEN Len(jobs) ELSE Len(segments)
        BY <1>1, MinOfTwo
    <2> QED BY <1>1, <2>1
<1>3. segments[k].end_sample <= jobs[k].at
    BY <1>2 DEF CoverInv
<1>4. /\ segments[k].start_sample \in Nat /\ segments[k].end_sample \in Nat
      /\ jobs[k].at \in Nat
    <2>1. segments[k] \in Segment /\ jobs[k] \in OfflineTask
        BY <1>1, <1>2
    <2> QED BY <2>1, SegmentFacts DEF OfflineTask
<1>5. p \in 0 .. jobs[k].at - 1
    BY <1>3, <1>4, SMTT(30)
<1>6. Given(jobs, k, p)
    BY <1>2, <1>5 DEF CoverInv, Gives
<1> QED BY <1>6 DEF Given

\* A segment's own task, or an earlier one, has every sample of the span the
\* detector reports (_do_trigger_offline), although the first of several tasks
\* takes the buffer, pre-rolls reach behind the last cut, and the detector's
\* copy leaves out merged bursts.
THEOREM SpansAreRecognised == PipelineSpec => []SpanIsRecognised
<1>1. InStep /\ CoverInv /\ [PipelineNext]_pipelineVars => InStep' /\ CoverInv'
    BY InStepKept, CoverStep
<1> QED BY <1>1, InStepInit, CoverInit, CoverRecognises, PTL DEF PipelineSpec
-----------------------------------------------------------------------------
(* No audio is recognised twice *)

\* What was given was received before, and not after the last cut.
AudioBefore(js, s) ==
    \A k \in 1 .. Len(js) :
        js[k].at <= s /\ \A p \in Range(js[k].audio) : p < js[k].at

\* The end of the first frame that may be heard after the one in hand was fed.
FeedEnd == (feed_from + 1) * Hop

\* A segment of frames the one in hand brought, but for a pre-roll.
OfThisFeed(r) == FeedEnd <= r.start_sample + Pad * Hop

\* All tasks are older than the frame in hand, or were made when it was heard.
TasksAreOld ==
    \A k \in 1 .. Len(jobs) :
        \/ jobs[k].at < FeedEnd
        \/ pc # "feeding" /\ jobs[k].at = fs.abs_samples

\* A segment that was cut while the frame in hand is heard, or before the buffer
\* filled again: the next one began in this frame or later.
CutInThisFeed ==
    \/ pc = "feeding" /\ Len(jobs) < Len(segments)
    \/ pc = "idle" /\ fs.online_total = 0 /\ Len(jobs) > 0

SecondIsOfThisFeed ==
    /\ CutInThisFeed => feed_from + 1 <= Bound(vad, total)
    /\ pc = "feeding" =>
          \A k \in Len(jobs) + 2 .. Len(segments) : OfThisFeed(segments[k])

OnceInv ==
    /\ AudioBefore(jobs, fs.seg_start_abs) /\ TasksAreOld
    /\ SecondIsOfThisFeed /\ RecognisedOnce

\* The audio two tasks share.
SharesOnly(js, sg, i, j) ==
    \A p \in Range(js[i].audio) \cap Range(js[j].audio) :
        \/ js[i].at = js[j].at
        \/ j <= Len(sg) /\ p < sg[j].start_sample + Pad * Hop

LEMMA OnceIsPairs ==
    ASSUME jobs \in Seq(OfflineTask)
    PROVE  RecognisedOnce <=>
              \A j \in 1 .. Len(jobs) : \A i \in 1 .. j - 1 : SharesOnly(jobs, segments, i, j)
<1>1. DOMAIN jobs = 1 .. Len(jobs) /\ Len(jobs) \in Nat
    OBVIOUS
<1>2. \A j \in 1 .. Len(jobs) : \A i : i \in 1 .. j - 1 <=> i \in 1 .. Len(jobs) /\ i < j
    BY <1>1
<1> QED BY <1>1, <1>2 DEF RecognisedOnce, SharesOnly

LEMMA FeedEndType ==
    ASSUME InStep PROVE FeedEnd \in Nat /\ Pad * Hop \in Nat
<1>1. feed_from + 1 \in Nat
    BY InStepFacts
<1> QED BY <1>1, HopOrder, PadAssumption DEF FeedEnd

\* When the first of several tasks takes the buffer and the others are about
\* this feed, none of them gives again what an earlier one gave.
LEMMA BatchOnce ==
    ASSUME InStep, NEW sg \in Seq(Segment), Len(segments) <= Len(sg),
           \A k \in 1 .. Len(jobs) :
              k <= Len(sg) => k <= Len(segments) /\ sg[k] = segments[k],
           AudioBefore(jobs, fs.seg_start_abs), RecognisedOnce,
           \A k \in 1 .. Len(jobs) : jobs[k].at < FeedEnd \/ jobs[k].at = fs.abs_samples,
           NEW tasks \in Seq(OfflineTask),
           \A i \in 1 .. Len(tasks) : TaskOf(tasks[i], i),
           \A i \in 1 .. Len(tasks) :
              \/ i = 1 /\ fs.online_total > 0
              \/ i = 1 /\ Len(jobs) = 0
              \/ Len(jobs) + i <= Len(sg) /\ OfThisFeed(sg[Len(jobs) + i])
    PROVE  LET all == jobs \o tasks
           IN  \A j \in 1 .. Len(all) : \A i \in 1 .. j - 1 : SharesOnly(all, sg, i, j)
<1> DEFINE all == jobs \o tasks
           m == Len(jobs)
           n == Len(tasks)
           end == FeedEnd
<1>1. /\ jobs \in Seq(OfflineTask) /\ fs.seg_start_abs \in Nat /\ fs.abs_samples \in Nat
    BY InStepFacts
<1>2. /\ Len(all) = m + n /\ m \in Nat /\ n \in Nat
      /\ \A k \in 1 .. m : k \in 1 .. Len(all) /\ all[k] = jobs[k]
      /\ \A i \in 1 .. n : all[m + i] = tasks[i]
      /\ \A k \in 1 .. Len(all) : k \in 1 .. m \/ \E i \in 1 .. n : k = m + i
    BY <1>1, JobsAppended
<1>3. \A i \in 1 .. n : TaskOf(tasks[i], i)
    OBVIOUS
<1>4. \A j \in 1 .. m : \A i \in 1 .. j - 1 : SharesOnly(jobs, segments, i, j)
    BY <1>1, OnceIsPairs
<1>5. /\ \A k \in 1 .. m : jobs[k].at < end \/ jobs[k].at = fs.abs_samples
      /\ \A i \in 1 .. n : \/ i = 1 /\ fs.online_total > 0
                           \/ i = 1 /\ m = 0
                           \/ m + i <= Len(sg) /\ OfThisFeed(sg[m + i])
      /\ \A k \in 1 .. m : k <= Len(sg) => k <= Len(segments) /\ sg[k] = segments[k]
      /\ Len(segments) <= Len(sg)
    OBVIOUS
<1>6. end \in Nat /\ Pad * Hop \in Nat
    BY FeedEndType
<1>7. /\ \A k \in 1 .. m : jobs[k] \in OfflineTask
      /\ Len(sg) \in Nat /\ \A k \in 1 .. Len(sg) : sg[k] \in Segment
      /\ Len(segments) \in Nat
    BY <1>1, InStepFacts
<1> HIDE DEF all, m, n, end
<1>8. ASSUME NEW j \in 1 .. m, NEW i \in 1 .. j - 1
      PROVE  SharesOnly(all, sg, i, j)
    <2>1. SharesOnly(jobs, segments, i, j)
        BY <1>4
    <2>2. i \in 1 .. m
        BY <1>2
    <2>3. all[i] = jobs[i] /\ all[j] = jobs[j]
        BY <1>2, <2>2
    <2> SUFFICES ASSUME NEW p \in Range(all[i].audio) \cap Range(all[j].audio),
                        all[i].at # all[j].at
                 PROVE  j <= Len(sg) /\ p < sg[j].start_sample + Pad * Hop
        BY DEF SharesOnly
    <2>4. j <= Len(segments) /\ p < segments[j].start_sample + Pad * Hop
        BY <2>1, <2>3 DEF SharesOnly
    <2>5. j <= Len(sg)
        <3>1. /\ j \in Nat /\ Len(segments) \in Nat /\ Len(sg) \in Nat
              /\ j <= Len(segments) /\ Len(segments) <= Len(sg)
            BY <1>2, <1>5, <1>7, <2>4
        <3> QED BY <3>1
    <2> QED BY <1>5, <2>4, <2>5
<1>9. ASSUME NEW i \in 1 .. n, NEW k \in 1 .. m
      PROVE  SharesOnly(all, sg, k, m + i)
    <2>1. all[k] = jobs[k] /\ all[m + i] = tasks[i]
        BY <1>2
    <2>2. TaskOf(tasks[i], i)
        BY <1>3
    <2> DEFINE a == jobs[k].at
    <2>3. a \in Nat /\ jobs[k].audio \in Seq(Nat)
        BY <1>7 DEF OfflineTask
    <2>4. a <= fs.seg_start_abs /\ \A p \in Range(jobs[k].audio) : p < a
        BY DEF AudioBefore, m
    <2> HIDE DEF a
    <2> SUFFICES ASSUME NEW p, p \in Range(jobs[k].audio), p \in Range(tasks[i].audio),
                        a # fs.abs_samples
                 PROVE  m + i <= Len(sg) /\ p < sg[m + i].start_sample + Pad * Hop
        BY <2>1, <2>2 DEF SharesOnly, TaskOf, a
    <2>5. p \in Nat /\ p < a
        BY <2>3, <2>4, SMTT(30) DEF Range
    <2>6. ~(i = 1 /\ fs.online_total > 0)
        <3> SUFFICES ASSUME i = 1 /\ fs.online_total > 0 PROVE FALSE
            OBVIOUS
        <3>1. fs.seg_start_abs <= p
            BY <2>2 DEF TaskOf
        <3> QED BY <1>1, <2>3, <2>4, <2>5, <3>1
    <2>7. m + i <= Len(sg) /\ OfThisFeed(sg[m + i])
        BY <1>2, <1>5, <2>6
    <2> DEFINE s == sg[m + i].start_sample
               pad == Pad * Hop
    <2>8. m + i \in 1 .. Len(sg)
        BY <1>2, <1>7, <2>7
    <2>9. s \in Nat /\ pad \in Nat
        BY <1>6, <1>7, <2>8, SegmentFacts
    <2>10. end <= s + pad
        BY <2>7 DEF OfThisFeed, end
    <2>11. a < end
        BY <1>5 DEF a
    <2> HIDE DEF s, pad
    <2>12. p < s + pad
        BY <1>6, <2>3, <2>5, <2>9, <2>10, <2>11
    <2> QED BY <2>7, <2>12 DEF s, pad
<1>10. ASSUME NEW i \in 1 .. n, NEW k \in 1 .. n
       PROVE  SharesOnly(all, sg, m + k, m + i)
    <2>1. all[m + k].at = all[m + i].at
        BY <1>2, <1>3, ZenonT(60) DEF TaskOf
    <2> QED BY <2>1 DEF SharesOnly
<1>11. ASSUME NEW j \in 1 .. Len(all), NEW i \in 1 .. j - 1
       PROVE  SharesOnly(all, sg, i, j)
    <2>1. i \in 1 .. Len(all)
        BY <1>2
    <2>2. i \in 1 .. m \/ \E k \in 1 .. n : i = m + k
        BY <1>2, <2>1
    <2>3. CASE j \in 1 .. m
        BY <1>8, <2>3
    <2>4. ASSUME NEW k \in 1 .. n, j = m + k
          PROVE  SharesOnly(all, sg, i, j)
        BY <1>9, <1>10, <2>2, <2>4
    <2> QED BY <1>2, <2>3, <2>4
<1> QED BY <1>11 DEF all

\* What tasks made together give.
LEMMA BatchBefore ==
    ASSUME InStep, AudioBefore(jobs, fs.seg_start_abs),
           NEW tasks \in Seq(OfflineTask),
           \A i \in 1 .. Len(tasks) : TaskOf(tasks[i], i),
           NEW s, Len(tasks) = 0 => s = fs.seg_start_abs,
           Len(tasks) > 0 => s = fs.abs_samples
    PROVE  AudioBefore(jobs \o tasks, s)
<1> DEFINE all == jobs \o tasks
           m == Len(jobs)
           n == Len(tasks)
<1>1. /\ jobs \in Seq(OfflineTask) /\ fs.seg_start_abs \in Nat /\ fs.abs_samples \in Nat
      /\ fs.online_total \in Nat /\ fs.seg_start_abs + fs.online_total = fs.abs_samples
    BY InStepFacts
<1>2. /\ Len(all) = m + n /\ m \in Nat /\ n \in Nat
      /\ \A k \in 1 .. m : all[k] = jobs[k]
      /\ \A i \in 1 .. n : all[m + i] = tasks[i]
      /\ \A k \in 1 .. Len(all) : k \in 1 .. m \/ \E i \in 1 .. n : k = m + i
    BY <1>1, JobsAppended
<1>3. s \in Nat /\ fs.seg_start_abs <= s
    BY <1>1, <1>2
<1>4. \A k \in 1 .. m : jobs[k].at \in Nat
    <2> TAKE k \in 1 .. m
    <2>1. jobs[k] \in OfflineTask
        BY <1>1
    <2> QED BY <2>1 DEF OfflineTask
<1>5. \A i \in 1 .. n : TaskOf(tasks[i], i) /\ s = fs.abs_samples
    BY <1>2
<1>6. \A k \in 1 .. m : jobs[k].at <= fs.seg_start_abs
                        /\ \A p \in Range(jobs[k].audio) : p < jobs[k].at
    BY DEF AudioBefore
<1> HIDE DEF all, m, n
<1>7. ASSUME NEW k \in 1 .. Len(all)
      PROVE  all[k].at <= s /\ \A p \in Range(all[k].audio) : p < all[k].at
    <2>1. CASE k \in 1 .. m
        <3>1. all[k] = jobs[k]
            BY <1>2, <2>1
        <3> DEFINE a == jobs[k].at
        <3>2. a \in Nat /\ a <= fs.seg_start_abs /\ \A p \in Range(jobs[k].audio) : p < a
            BY <1>4, <1>6, <2>1
        <3> HIDE DEF a
        <3>3. a <= s
            BY <1>1, <1>3, <3>2
        <3> QED BY <3>1, <3>2, <3>3 DEF a
    <2>2. ASSUME NEW i \in 1 .. n, k = m + i
          PROVE  all[k].at <= s /\ \A p \in Range(all[k].audio) : p < all[k].at
        <3>1. all[k] = tasks[i]
            BY <1>2, <2>2
        <3>2. TaskOf(tasks[i], i) /\ s = fs.abs_samples
            BY <1>5
        <3>3. s <= s
            BY <1>3
        <3> QED BY <3>1, <3>2, <3>3 DEF TaskOf
    <2> QED BY <1>2, <2>1, <2>2
<1> QED BY <1>7 DEF AudioBefore, all
LEMMA OnceLater ==
    ASSUME InStep, InStep', RecognisedOnce, jobs' = jobs, Len(segments) <= Len(segments'),
           \A k \in 1 .. Len(jobs) :
              k <= Len(segments') => k <= Len(segments) /\ segments'[k] = segments[k]
    PROVE  RecognisedOnce'
<1>1. jobs \in Seq(OfflineTask) /\ jobs' \in Seq(OfflineTask)
      /\ Len(segments) \in Nat /\ Len(segments') \in Nat
    <2>1. segments' \in Seq(Segment)
        BY DEF InStep, DetectorInv
    <2> QED BY <2>1, InStepFacts
<1>2. DOMAIN jobs = 1 .. Len(jobs)
    BY <1>1
<1> SUFFICES ASSUME NEW i \in DOMAIN jobs, NEW j \in DOMAIN jobs, i < j,
                    NEW p \in Range(jobs[i].audio) \cap Range(jobs[j].audio),
                    jobs[i].at # jobs[j].at
             PROVE  /\ j <= Len(segments')
                    /\ p < segments'[j].start_sample + Pad * Hop
    BY DEF RecognisedOnce
<1>3. j <= Len(segments) /\ p < segments[j].start_sample + Pad * Hop
    BY DEF RecognisedOnce
<1>4. j \in Nat /\ j \in 1 .. Len(jobs)
    BY <1>1, <1>2
<1>5. j <= Len(segments')
    BY <1>1, <1>3, <1>4
<1>6. segments'[j] = segments[j]
    BY <1>4, <1>5
<1> QED BY <1>3, <1>5, <1>6

LEMMA OnceReceive ==
    ASSUME InStep, OnceInv, NEW n \in FeedSizes, Receive(n)
    PROVE  OnceInv'
<1>1. /\ InStep' /\ NoTask /\ UNCHANGED <<total, vad, segments>>
      /\ pc = "idle" /\ pc' = "feeding" /\ feed_from' = total
      /\ fs.abs_samples < (total + 1) * Hop
    BY ReceiveStep
<1>2. jobs' = jobs /\ fs'.seg_start_abs = fs.seg_start_abs
    BY <1>1 DEF NoTask
<1>3. /\ fs.seg_start_abs \in Nat /\ fs.abs_samples \in Nat /\ fs.online_total \in Nat
      /\ fs.seg_start_abs + fs.online_total = fs.abs_samples
      /\ jobs \in Seq(OfflineTask) /\ Len(segments) \in Nat /\ total \in Nat
    BY InStepFacts
<1>4. Len(jobs) = Len(segments)
    BY <1>1 DEF InStep
<1>5. AudioBefore(jobs, fs.seg_start_abs)'
    <2>1. AudioBefore(jobs', fs'.seg_start_abs)
        BY <1>2 DEF OnceInv
    <2> QED BY <2>1 DEF AudioBefore
<1>6. TasksAreOld'
    <2> SUFFICES ASSUME NEW k \in 1 .. Len(jobs) PROVE jobs[k].at < (total + 1) * Hop
        BY <1>1, <1>2 DEF TasksAreOld, FeedEnd
    <2> DEFINE a == jobs[k].at
               end == (total + 1) * Hop
    <2>1. a \in Nat
        <3>1. jobs[k] \in OfflineTask
            BY <1>3
        <3> QED BY <3>1 DEF OfflineTask
    <2>2. a <= fs.seg_start_abs
        BY DEF OnceInv, AudioBefore
    <2>3. end \in Nat
        <3>1. total + 1 \in Nat
            BY <1>3
        <3> QED BY <3>1, HopOrder
    <2>4. fs.abs_samples < end
        BY <1>1
    <2> HIDE DEF a, end
    <2>5. a < end
        BY <1>3, <2>1, <2>2, <2>3, <2>4
    <2> QED BY <2>5 DEF a, end
<1>7. SecondIsOfThisFeed'
    <2>1. ~CutInThisFeed'
        BY <1>1, <1>2, <1>3, <1>4 DEF CutInThisFeed
    <2>2. \A k \in Len(jobs') + 2 .. Len(segments') : FALSE
        BY <1>1, <1>2, <1>3, <1>4
    <2> QED BY <2>1, <2>2 DEF SecondIsOfThisFeed
<1>8. RecognisedOnce'
    <2>1. Len(segments) <= Len(segments')
        BY <1>1, <1>3
    <2> QED BY <1>1, <1>2, <2>1, OnceLater DEF OnceInv, NoTask, ReportsStay
<1> QED BY <1>5, <1>6, <1>7, <1>8 DEF OnceInv

LEMMA OnceHear ==
    ASSUME InStep, OnceInv, NEW b \in BOOLEAN, Hear(b)
    PROVE  OnceInv'
<1> DEFINE B == Bound(vad, total)
           later == Bound(vad', total')
           m == Len(jobs)
           n == Len(segments)
<1>1. InStep' /\ NoTask /\ UNCHANGED <<jobs, fs, feed_from, pc>> /\ pc = "feeding"
    BY HearStep
<1>2. /\ total \in Nat /\ total' = total + 1
      /\ B \in Nat /\ later \in Nat /\ B <= later /\ later <= total'
      /\ Tells(B, total')
      /\ segments' # segments => later = total'
    BY FrameTells DEF Hear, InStep
<1>3. /\ segments \in Seq(Segment) /\ jobs \in Seq(OfflineTask)
      /\ n \in Nat /\ m \in Nat /\ feed_from \in Nat
    BY InStepFacts
<1>4. m <= n /\ feed_from <= total
    BY <1>1, <1>2 DEF InStep
<1>5. AudioBefore(jobs, fs.seg_start_abs)'
    BY <1>1 DEF OnceInv, AudioBefore
<1>6. TasksAreOld'
    BY <1>1 DEF OnceInv, TasksAreOld, FeedEnd
<1>7. m < n => feed_from + 1 <= B
    BY <1>1 DEF OnceInv, SecondIsOfThisFeed, CutInThisFeed
<1>8. \A k \in m + 2 .. n : OfThisFeed(segments[k])
    BY <1>1 DEF OnceInv, SecondIsOfThisFeed
<1>9. /\ n <= Len(segments') /\ Len(segments') \in Nat
      /\ \A k \in 1 .. n : segments'[k] = segments[k]
      /\ \A k \in m + 2 .. Len(segments') : OfThisFeed(segments'[k])
    <2>1. CASE segments' = segments
        <3>1. \A k \in m + 2 .. Len(segments') : OfThisFeed(segments'[k])
            BY <1>8, <2>1
        <3> QED BY <1>3, <2>1, <3>1
    <2>2. ASSUME NEW r, HeardReport(r, total'), segments' = Append(segments, r),
                 B * Hop <= r.start_sample + Pad * Hop
          PROVE  /\ n <= Len(segments') /\ Len(segments') \in Nat
                 /\ \A k \in 1 .. n : segments'[k] = segments[k]
                 /\ \A k \in m + 2 .. Len(segments') : OfThisFeed(segments'[k])
        <3>1. r \in Segment
            BY <2>2 DEF HeardReport
        <3>2. /\ Len(segments') = n + 1 /\ segments'[n + 1] = r
              /\ \A k \in 1 .. n : segments'[k] = segments[k]
            BY <1>3, <2>2, <3>1
        <3>3. m < n => OfThisFeed(r)
            <4> SUFFICES ASSUME m < n PROVE OfThisFeed(r)
                OBVIOUS
            <4> DEFINE start == r.start_sample + Pad * Hop
                       mine == (feed_from + 1) * Hop
                       bound == B * Hop
            <4>1. feed_from + 1 \in Nat /\ feed_from + 1 <= B
                BY <1>3, <1>7
            <4>2. mine <= bound /\ mine \in Nat /\ bound \in Nat
                BY <1>2, <4>1, HopOrder
            <4>3. start \in Nat
                <5>1. r.start_sample \in Nat /\ Pad * Hop \in Nat
                    BY <3>1, SegmentFacts, PadAssumption, HopOrder
                <5> DEFINE x == r.start_sample
                           y == Pad * Hop
                <5>2. x \in Nat /\ y \in Nat
                    BY <5>1
                <5> HIDE DEF x, y
                <5>3. x + y \in Nat
                    BY <5>2
                <5> QED BY <5>3 DEF x, y
            <4>4. bound <= start
                BY <2>2
            <4> HIDE DEF start, mine, bound
            <4>5. mine <= start
                BY <4>2, <4>3, <4>4
            <4> QED BY <4>5 DEF mine, start, OfThisFeed, FeedEnd
        <3> HIDE DEF m, n
        <3>4. ASSUME NEW k \in m + 2 .. Len(segments')
              PROVE  OfThisFeed(segments'[k])
            <4>1. k \in m + 2 .. n \/ (k = n + 1 /\ m < n)
                BY <1>3, <3>2
            <4>2. CASE k \in m + 2 .. n
                <5>1. k \in 1 .. n
                    BY <1>3, <4>2
                <5> QED BY <1>8, <3>2, <4>2, <5>1
            <4>3. CASE k = n + 1 /\ m < n
                BY <3>2, <3>3, <4>3
            <4> QED BY <4>1, <4>2, <4>3
        <3>5. n <= Len(segments') /\ Len(segments') \in Nat
            BY <1>3, <3>2
        <3> QED BY <3>2, <3>4, <3>5
    <2> QED BY <1>2, <2>1, <2>2 DEF Tells
<1>10. SecondIsOfThisFeed'
    <2>1. m < Len(segments') => feed_from + 1 <= later
        <3>1. CASE segments' = segments
            <4> SUFFICES ASSUME m < n PROVE feed_from + 1 <= later
                BY <3>1
            <4> HIDE DEF B, later
            <4>1. feed_from + 1 <= B
                BY <1>7
            <4> QED BY <1>2, <1>3, <4>1
        <3>2. CASE segments' # segments
            <4>1. later = total'
                BY <1>2, <3>2
            <4> HIDE DEF later
            <4> QED BY <1>2, <1>3, <1>4, <4>1
        <3> QED BY <3>1, <3>2
    <2>2. CutInThisFeed' => m < Len(segments')
        BY <1>1 DEF CutInThisFeed
    <2>3. \A k \in Len(jobs)' + 2 .. Len(segments') : OfThisFeed(segments[k])'
        BY <1>1, <1>9 DEF OfThisFeed, FeedEnd
    <2>4. feed_from' + 1 <= Bound(vad', total') <=> feed_from + 1 <= later
        BY <1>1
    <2> QED BY <1>1, <2>1, <2>2, <2>3, <2>4 DEF SecondIsOfThisFeed
<1>11. RecognisedOnce'
    BY <1>1, <1>9, OnceLater DEF OnceInv, NoTask, ReportsStay
<1> QED BY <1>5, <1>6, <1>10, <1>11 DEF OnceInv
\* When tasks are made the invariant is kept, if the segments are of this feed.
LEMMA OnceBatch ==
    ASSUME InStep, InStep', OnceInv, NEW tasks, Batch(tasks), pc' # "feeding",
           feed_from' = feed_from, Len(segments) <= Len(segments'),
           \A i \in 1 .. Len(tasks) :
              \/ i = 1 /\ fs.online_total > 0
              \/ i = 1 /\ Len(jobs) = 0
              \/ Len(jobs) + i <= Len(segments') /\ OfThisFeed(segments'[Len(jobs) + i]),
           CutInThisFeed' => feed_from + 1 <= Bound(vad', total')
    PROVE  OnceInv'
<1>1. /\ ReportsStay /\ tasks \in Seq(OfflineTask) /\ jobs' = jobs \o tasks
      /\ \A i \in 1 .. Len(tasks) : TaskOf(tasks[i], i)
      /\ fs'.abs_samples = fs.abs_samples
      /\ Len(tasks) = 0 => fs'.seg_start_abs = fs.seg_start_abs
      /\ Len(tasks) > 0 => fs'.seg_start_abs = fs.abs_samples
    BY DEF Batch
<1>2. /\ AudioBefore(jobs, fs.seg_start_abs) /\ RecognisedOnce
      /\ \A k \in 1 .. Len(jobs) : jobs[k].at < FeedEnd \/ jobs[k].at = fs.abs_samples
    BY DEF OnceInv, TasksAreOld
<1>3. jobs \in Seq(OfflineTask) /\ jobs' \in Seq(OfflineTask)
      /\ segments' \in Seq(Segment)
    BY InStepFacts DEF InStep, DetectorInv
<1>4. AudioBefore(jobs', fs'.seg_start_abs)
    BY <1>1, <1>2, BatchBefore
<1>5. AudioBefore(jobs, fs.seg_start_abs)'
    BY <1>4 DEF AudioBefore
<1>6. TasksAreOld'
    <2> DEFINE m == Len(jobs)
    <2>1. /\ \A k \in 1 .. m : jobs'[k] = jobs[k]
          /\ \A i \in 1 .. Len(tasks) : jobs'[m + i] = tasks[i]
          /\ \A k \in 1 .. Len(jobs') : k \in 1 .. m \/ \E i \in 1 .. Len(tasks) : k = m + i
        BY <1>1, <1>3, JobsAppended
    <2>2. \A k \in 1 .. m : jobs[k].at < FeedEnd \/ jobs[k].at = fs.abs_samples
        BY <1>2
    <2> HIDE DEF m
    <2> SUFFICES ASSUME NEW k \in 1 .. Len(jobs')
                 PROVE  jobs'[k].at < FeedEnd \/ jobs'[k].at = fs'.abs_samples
        BY DEF TasksAreOld, FeedEnd
    <2>3. CASE k \in 1 .. m
        BY <1>1, <2>1, <2>2, <2>3
    <2>4. ASSUME NEW i \in 1 .. Len(tasks), k = m + i
          PROVE  jobs'[k].at = fs'.abs_samples
        BY <1>1, <2>1, <2>4 DEF TaskOf
    <2> QED BY <2>1, <2>3, <2>4
<1>7. SecondIsOfThisFeed'
    BY DEF SecondIsOfThisFeed
<1>8. RecognisedOnce'
    <2>1. \A k \in 1 .. Len(jobs) :
             k <= Len(segments') => k <= Len(segments) /\ segments'[k] = segments[k]
        BY <1>1 DEF ReportsStay
    <2>2. \A j \in 1 .. Len(jobs \o tasks) : \A i \in 1 .. j - 1 :
             SharesOnly(jobs \o tasks, segments', i, j)
        BY <1>1, <1>2, <1>3, <2>1, BatchOnce
    <2>3. \A j \in 1 .. Len(jobs') : \A i \in 1 .. j - 1 :
             SharesOnly(jobs', segments', i, j)
        BY <1>1, <2>2
    <2>4. DOMAIN jobs' = 1 .. Len(jobs') /\ Len(jobs') \in Nat
        BY <1>3
    <2>5. \A j \in 1 .. Len(jobs') : \A i \in 1 .. Len(jobs') : i < j => i \in 1 .. j - 1
        BY <2>4
    <2> QED BY <2>3, <2>4, <2>5 DEF RecognisedOnce, SharesOnly
<1> QED BY <1>5, <1>6, <1>7, <1>8 DEF OnceInv

LEMMA OnceDone ==
    ASSUME InStep, OnceInv, FrameDone
    PROVE  OnceInv'
<1> DEFINE tasks == Tasks(NewReports(segments))
           m == Len(jobs)
           n == Len(segments)
<1>1. /\ InStep' /\ Batch(tasks) /\ Len(tasks) = n - m
      /\ UNCHANGED <<total, vad, segments, feed_from>>
      /\ pc = "feeding" /\ pc' = "idle" /\ fs.online_total > 0
      /\ Len(tasks) = 0 => fs'.online_total = fs.online_total
    BY DoneStep
<1> HIDE DEF tasks
<1>2. m \in Nat /\ n \in Nat /\ m <= n
    BY <1>1, InStepFacts DEF InStep
<1>3. /\ m < n => feed_from + 1 <= Bound(vad, total)
      /\ \A k \in m + 2 .. n : OfThisFeed(segments[k])
    BY <1>1 DEF OnceInv, SecondIsOfThisFeed, CutInThisFeed
<1>4. n <= Len(segments')
    BY <1>1, <1>2
<1>5. ASSUME NEW i \in 1 .. Len(tasks)
      PROVE  \/ i = 1 /\ fs.online_total > 0
             \/ m + i <= Len(segments') /\ OfThisFeed(segments'[m + i])
    <2> SUFFICES ASSUME i # 1
                 PROVE  m + i <= n /\ OfThisFeed(segments[m + i])
        BY <1>1
    <2> HIDE DEF m, n
    <2>1. m + i \in m + 2 .. n /\ m + i <= n
        BY <1>1, <1>2
    <2> QED BY <1>3, <2>1
<1>6. CutInThisFeed' => feed_from + 1 <= Bound(vad', total')
    <2> SUFFICES ASSUME fs'.online_total = 0
                 PROVE  feed_from + 1 <= Bound(vad, total)
        BY <1>1 DEF CutInThisFeed
    <2> HIDE DEF m, n
    <2>1. Len(tasks) # 0
        BY <1>1
    <2>2. m < n
        BY <1>1, <1>2, <2>1
    <2> QED BY <1>3, <2>2
<1> QED BY <1>1, <1>4, <1>5, <1>6, OnceBatch

LEMMA OnceEnd ==
    ASSUME InStep, OnceInv, EndOfStream
    PROVE  OnceInv'
<1>1. PICK reports : EndsWith(reports)
    BY EndReports
<1> DEFINE tasks == Tasks(reports)
           m == Len(jobs)
           r == reports[1]
<1>2. /\ InStep' /\ Batch(tasks) /\ Len(tasks) = Len(reports)
      /\ UNCHANGED <<total, feed_from>> /\ pc = "idle" /\ pc' = "flushed"
    BY <1>1, EndStep
<1> HIDE DEF tasks
<1>3. /\ m \in Nat /\ Len(segments) = m /\ segments \in Seq(Segment)
      /\ fs.online_total \in Nat /\ feed_from \in Nat /\ total \in Nat
    BY <1>2, InStepFacts DEF InStep
<1>4. CASE segments' = segments /\ (reports = <<>> \/ (Len(reports) = 1 /\ fs.online_total > 0))
    <2>1. \A i \in 1 .. Len(tasks) : i = 1 /\ fs.online_total > 0
        BY <1>2, <1>4
    <2>2. ~CutInThisFeed' /\ Len(segments) <= Len(segments')
        BY <1>2, <1>3, <1>4 DEF CutInThisFeed
    <2> QED BY <1>2, <2>1, <2>2, OnceBatch
<1>5. CASE /\ Len(reports) = 1 /\ segments' = Append(segments, r)
           /\ HeardReport(r, total)
           /\ Bound(vad, total) * Hop <= r.start_sample + Pad * Hop
    <2>1. r \in Segment
        BY <1>5 DEF HeardReport
    <2> HIDE DEF r
    <2>2. Len(segments') = m + 1 /\ segments'[m + 1] = r
        BY <1>3, <1>5, <2>1
    <2>3. fs.online_total > 0 \/ m = 0 \/ OfThisFeed(r)
        <3> SUFFICES ASSUME fs.online_total = 0, m > 0 PROVE OfThisFeed(r)
            BY <1>3
        <3>1. feed_from + 1 <= Bound(vad, total)
            BY <1>2 DEF OnceInv, SecondIsOfThisFeed, CutInThisFeed
        <3> DEFINE start == r.start_sample + Pad * Hop
                   mine == (feed_from + 1) * Hop
                   bound == Bound(vad, total) * Hop
        <3>2. mine <= bound /\ mine \in Nat /\ bound \in Nat
            <4>1. Bound(vad, total) \in Nat
                BY FlushTells DEF InStep, EndOfStream
            <4>2. feed_from + 1 \in Nat
                BY <1>3
            <4> QED BY <3>1, <4>1, <4>2, HopOrder
        <3>3. start \in Nat
            <4> DEFINE x == r.start_sample
                       y == Pad * Hop
            <4>1. x \in Nat /\ y \in Nat
                BY <2>1, SegmentFacts, PadAssumption, HopOrder
            <4> HIDE DEF x, y
            <4>2. x + y \in Nat
                BY <4>1
            <4> QED BY <4>2 DEF x, y
        <3>4. bound <= start
            BY <1>5
        <3> HIDE DEF start, mine, bound
        <3>5. mine <= start
            BY <3>2, <3>3, <3>4
        <3> QED BY <3>5 DEF mine, start, OfThisFeed, FeedEnd
    <2>4. \A i \in 1 .. Len(tasks) :
              \/ i = 1 /\ fs.online_total > 0
              \/ i = 1 /\ m = 0
              \/ m + i <= Len(segments') /\ OfThisFeed(segments'[m + i])
        <3> TAKE i \in 1 .. Len(tasks)
        <3>1. i = 1
            BY <1>2, <1>5
        <3>2. m + i <= Len(segments') /\ segments'[m + i] = r
            BY <1>3, <2>2, <3>1
        <3> QED BY <2>3, <3>1, <3>2
    <2>5. ~CutInThisFeed' /\ Len(segments) <= Len(segments')
        BY <1>2, <1>3, <2>2 DEF CutInThisFeed
    <2> QED BY <1>2, <2>4, <2>5, OnceBatch
<1>6. \/ segments' = segments /\ (reports = <<>> \/ (Len(reports) = 1 /\ fs.online_total > 0))
      \/ /\ Len(reports) = 1 /\ segments' = Append(segments, r)
         /\ HeardReport(r, total)
         /\ Bound(vad, total) * Hop <= r.start_sample + Pad * Hop
    BY <1>1 DEF EndsWith
<1> QED BY <1>4, <1>5, <1>6

LEMMA OnceStep ==
    ASSUME InStep, OnceInv, [PipelineNext]_pipelineVars
    PROVE  OnceInv'
<1>1. CASE UNCHANGED pipelineVars
    <2>1. UNCHANGED <<pc, total, vad, segments, fs, jobs, feed_from>>
        BY <1>1 DEF pipelineVars, vars
    <2> QED BY <2>1 DEF OnceInv, AudioBefore, TasksAreOld, FeedEnd, SecondIsOfThisFeed,
                        CutInThisFeed, OfThisFeed, RecognisedOnce
<1> QED BY <1>1, OnceReceive, OnceHear, OnceDone, OnceEnd DEF PipelineNext

LEMMA OnceInit == PipelineInit => OnceInv
<1> SUFFICES ASSUME PipelineInit PROVE OnceInv
    OBVIOUS
<1>1. jobs = <<>> /\ pc = "idle"
    BY DEF PipelineInit, Init
<1>2. Len(jobs) = 0 /\ DOMAIN jobs = {}
    BY <1>1
<1> QED BY <1>1, <1>2 DEF OnceInv, AudioBefore, TasksAreOld, SecondIsOfThisFeed,
                          CutInThisFeed, RecognisedOnce

\* A sample is given to two offline tasks only if no audio came between them,
\* or as pre-roll of the second segment, whatever is fed at once and however
\* many segments a feed closes (_do_trigger_offline).
THEOREM NothingIsRecognisedTwice == PipelineSpec => []RecognisedOnce
<1>1. InStep /\ OnceInv /\ [PipelineNext]_pipelineVars => InStep' /\ OnceInv'
    BY InStepKept, OnceStep
<1>2. OnceInv => RecognisedOnce
    BY DEF OnceInv
<1> QED BY <1>1, <1>2, InStepInit, OnceInit, PTL DEF PipelineSpec
=============================================================================
