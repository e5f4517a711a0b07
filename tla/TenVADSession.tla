----------------------------- MODULE TenVADSession -----------------------------
(***************************************************************************)
(* The voice activity detector of one session                              *)
(* (src/services/vad_service.py): the chunks it collects into hops, the    *)
(* segment it keeps open, the window in which a burst of speech after a    *)
(* silence is put to the test, and the cuts.                               *)
(*                                                                         *)
(* A frame is a hop of audio and is named by its number in the session,    *)
(* from 0; counters are in frames.  Thresholds and what a report says are  *)
(* in samples.  The model's verdict on a frame (TenVad.process) is an      *)
(* input.  One call of _process_frame is one action: only the handler of   *)
(* the session calls the detector, and it waits for every call.            *)
(***************************************************************************)
EXTENDS Integers, Sequences, FiniteSets, FiniteSetsExt, Functions

CONSTANTS
    Hop,        \* HOP_SIZE, samples in a frame
    MinSpeech,  \* MIN_SPEECH_DURATION (in samples)
    Pause,      \* PAUSE_THRESHOLD (in samples)
    MaxSpeech,  \* MAX_SPEECH_DURATION (in samples)
    Pad,        \* asr_pad_frames
    FeedSizes,  \* numbers of samples fed at once
    MaxFrames   \* bound: frames one session hears

ASSUME HopAssumption == Hop \in Nat \ {0}
ASSUME ThresholdsAssumption ==
    MinSpeech \in Nat \ {0} /\ Pause \in Nat \ {0} /\ MaxSpeech \in Nat \ {0}
ASSUME PadAssumption == Pad \in Nat
ASSUME FeedSizesAssumption == FeedSizes \subseteq Nat \ {0}
ASSUME MaxFramesAssumption == MaxFrames \in Nat

VARIABLES
    pc,           \* "idle", "feeding" while feed_audio runs, "flushed"
    chunk_total,  \* samples of the chunks that do not fill a frame yet
    total,        \* _total_samples, in frames
    vad,          \* the fields of the session that describe the open segment
    segments,     \* every segment reported, in order
    heard         \* ghost: the verdict on every frame

vars == <<pc, chunk_total, total, vad, segments, heard>>

Frame   == Nat
Session ==
    [pre_buffer : Seq(Frame), pre_snapshot : Seq(Frame),
     segment_frames : Seq(Frame), in_speech : BOOLEAN,
     speech_frame_count : Nat, silence_frame_count : Nat,
     speech_start : Nat, last_speech_end : Nat, gap_active : BOOLEAN,
     gap_base_silence : Nat, gap_speech : Nat, gap_buffer : Seq(Frame)]
Segment == [audio : Seq(Frame), start_sample : Nat, end_sample : Nat]

-----------------------------------------------------------------------------
(* One frame of speech or silence; `i' is its number *)

LastFrames(frames, n) ==
    IF Len(frames) > n THEN SubSeq(frames, Len(frames) - n + 1, Len(frames)) ELSE frames

\* Every frame passes through the pre-roll buffer; the first frame of speech
\* keeps what was in it.
Prerolled(v, i, is_speech) ==
    [v EXCEPT !.pre_snapshot = IF is_speech /\ ~v.in_speech THEN v.pre_buffer ELSE @,
              !.pre_buffer = LastFrames(Append(@, i), Pad)]

\* The first frame of speech opens a segment that starts with the pre-roll.
Opened(v, i) ==
    IF v.in_speech THEN v
    ELSE [v EXCEPT !.in_speech = TRUE,
                   !.speech_frame_count = 0,
                   !.silence_frame_count = 0,
                   !.segment_frames = <<>>,
                   !.gap_active = FALSE,
                   !.gap_base_silence = 0,
                   !.gap_speech = 0,
                   !.gap_buffer = <<>>,
                   !.speech_start = i - Len(v.pre_snapshot)]

\* Speech after a silence opens the gap window.
GapEntered(v) ==
    IF v.silence_frame_count > 0 /\ ~v.gap_active
    THEN [v EXCEPT !.gap_active = TRUE,
                   !.gap_base_silence = v.silence_frame_count,
                   !.gap_speech = 0,
                   !.gap_buffer = <<>>]
    ELSE v

\* Inside the window speech is on probation, outside it counts.
Spoken(v, i) ==
    IF v.gap_active
    THEN [v EXCEPT !.gap_speech = @ + 1,
                   !.gap_buffer = Append(@, i)]
    ELSE [v EXCEPT !.speech_frame_count = @ + 1,
                   !.segment_frames = Append(@, i),
                   !.last_speech_end = i + 1,
                   !.silence_frame_count = 0]

\* Mutated form of TooShort: a burst of just the minimum is dropped.
TooShortOrEqual(frames) == frames * Hop <= MinSpeech

TooShort(frames) == frames * Hop < MinSpeech

\* A burst in the window that was too short becomes silence, its frames go.
Merged(v) ==
    [v EXCEPT !.silence_frame_count = v.gap_base_silence + v.gap_speech,
              !.gap_active = FALSE,
              !.gap_speech = 0,
              !.gap_buffer = <<>>]

\* Mutated form of Kept: the burst is counted but its frames are dropped.
KeptUnbuffered(v, i) ==
    [v EXCEPT !.speech_frame_count = @ + v.gap_speech,
              !.last_speech_end = i,
              !.gap_active = FALSE, !.gap_base_silence = 0,
              !.silence_frame_count = 0,
              !.gap_speech = 0, !.gap_buffer = <<>>]

\* Mutated form of Kept: the silence in front of the burst goes on counting.
KeptStaleSilence(v, i) ==
    [v EXCEPT !.segment_frames = @ \o v.gap_buffer,
              !.speech_frame_count = @ + v.gap_speech,
              !.last_speech_end = i,
              !.gap_active = FALSE, !.gap_base_silence = 0,
              !.gap_speech = 0, !.gap_buffer = <<>>]

\* A burst that was long enough belongs to the segment.
Kept(v, i) ==
    [v EXCEPT !.segment_frames = @ \o v.gap_buffer,
              !.speech_frame_count = @ + v.gap_speech,
              !.last_speech_end = i,
              !.gap_active = FALSE,
              !.gap_base_silence = 0,
              !.silence_frame_count = 0,
              !.gap_speech = 0,
              !.gap_buffer = <<>>]

GapSettled(v, i) ==
    IF ~(v.gap_active /\ v.gap_speech > 0) THEN v
    ELSE IF TooShort(v.gap_speech) THEN Merged(v)
    ELSE Kept(v, i)

Silent(v, i) ==
    IF v.in_speech
    THEN [GapSettled(v, i) EXCEPT !.segment_frames = Append(@, i),
                                  !.silence_frame_count = @ + 1]
    ELSE v

Advanced(v, i, is_speech) ==
    LET w == Prerolled(v, i, is_speech)
    IN  IF is_speech THEN Spoken(GapEntered(Opened(w, i)), i) ELSE Silent(w, i)

-----------------------------------------------------------------------------
(* Cuts *)

\* Mutated form of ShouldCut: the pause is compared strictly.
ShouldCutLate(v) ==
    \/ v.speech_frame_count * Hop >= MaxSpeech
    \/ v.silence_frame_count * Hop > Pause

ShouldCut(v) ==
    \/ v.speech_frame_count * Hop >= MaxSpeech
    \/ v.silence_frame_count * Hop >= Pause

TooLong(v) ==
    v.in_speech /\ (Len(v.segment_frames) + Len(v.gap_buffer)) * Hop > MaxSpeech

\* The forced cut takes the burst in the window along.
Absorbed(v, i) ==
    IF v.gap_active /\ v.gap_buffer # <<>>
    THEN [v EXCEPT !.segment_frames = @ \o v.gap_buffer,
                   !.speech_frame_count = @ + v.gap_speech,
                   !.last_speech_end = i,
                   !.gap_active = FALSE,
                   !.gap_speech = 0,
                   !.gap_buffer = <<>>]
    ELSE v

\* Mutated form of SegmentEnd: the pad is not limited by what was buffered.
SegmentEndUnlimited(v) == v.last_speech_end + Pad

SegmentEnd(v) ==
    Min({v.last_speech_end + Pad,
         v.speech_start + Len(v.pre_snapshot) + Len(v.segment_frames)})

Report(v) ==
    LET frames == v.pre_snapshot \o v.segment_frames
        length == SegmentEnd(v) - v.speech_start
    IN  [audio |-> IF Len(frames) > length THEN SubSeq(frames, 1, length) ELSE frames,
         start_sample |-> v.speech_start * Hop,
         end_sample |-> SegmentEnd(v) * Hop]

Reset(v) ==
    [v EXCEPT !.segment_frames = <<>>,
              !.pre_snapshot = <<>>,
              !.in_speech = FALSE,
              !.speech_frame_count = 0,
              !.silence_frame_count = 0,
              !.last_speech_end = 0,
              !.gap_active = FALSE,
              !.gap_base_silence = 0,
              !.gap_speech = 0,
              !.gap_buffer = <<>>]

\* Mutated form of Finalize: a segment is reported however little was said.
FinalizeAlways(v) == vad' = Reset(v) /\ segments' = Append(segments, Report(v))

\* A segment with too little speech is dropped.
Finalize(v) ==
    /\ vad' = Reset(v)
    /\ segments' = IF TooShort(v.speech_frame_count) THEN segments
                   ELSE Append(segments, Report(v))

-----------------------------------------------------------------------------
Init ==
    /\ pc = "idle"
    /\ chunk_total = 0 /\ total = 0
    /\ vad = [pre_buffer |-> <<>>, pre_snapshot |-> <<>>, segment_frames |-> <<>>,
              in_speech |-> FALSE, speech_frame_count |-> 0,
              silence_frame_count |-> 0, speech_start |-> 0, last_speech_end |-> 0,
              gap_active |-> FALSE, gap_base_silence |-> 0, gap_speech |-> 0,
              gap_buffer |-> <<>>]
    /\ segments = <<>> /\ heard = <<>>

\* feed_audio is called with n samples.
FeedAudio(n) ==
    /\ pc = "idle"
    /\ total * Hop + chunk_total + n <= MaxFrames * Hop
    /\ pc' = "feeding"
    /\ chunk_total' = chunk_total + n
    /\ UNCHANGED <<total, vad, segments, heard>>

\* _process_frame: the frame is heard, then a cut is made if one is due.
ProcessFrame(is_speech) ==
    LET v == Advanced(vad, total, is_speech)
    IN  /\ pc = "feeding"
        /\ chunk_total >= Hop
        /\ chunk_total' = chunk_total - Hop
        /\ total' = total + 1
        /\ heard' = Append(heard, is_speech)
        /\ CASE ~is_speech /\ v.in_speech /\ ShouldCut(v) -> Finalize(v)
             [] ~(~is_speech /\ v.in_speech /\ ShouldCut(v)) /\ TooLong(v)
                  -> Finalize(Absorbed(v, total))
             [] OTHER -> vad' = v /\ UNCHANGED segments
        /\ UNCHANGED pc

\* The chunks no longer fill a frame and feed_audio returns.
FeedReturns ==
    /\ pc = "feeding"
    /\ chunk_total < Hop
    /\ pc' = "idle"
    /\ UNCHANGED <<chunk_total, total, vad, segments, heard>>

\* flush: the open segment is cut where it is.
Flush ==
    /\ pc = "idle"
    /\ pc' = "flushed"
    /\ IF vad.segment_frames = <<>> THEN UNCHANGED <<vad, segments>> ELSE Finalize(vad)
    /\ UNCHANGED <<chunk_total, total, heard>>

Next ==
    \/ \E n \in FeedSizes : FeedAudio(n)
    \/ \E is_speech \in BOOLEAN : ProcessFrame(is_speech)
    \/ FeedReturns
    \/ Flush

Spec == Init /\ [][Next]_vars

-----------------------------------------------------------------------------
(* Invariants *)

\* Every variable has its type.
TypeOK ==
    /\ pc \in {"idle", "feeding", "flushed"}
    /\ chunk_total \in Nat /\ total \in Nat
    /\ vad \in Session
    /\ segments \in Seq(Segment)
    /\ heard \in Seq(BOOLEAN)

IsSpeech(i) == heard[i + 1]
SpeechIn(frames) == {k \in DOMAIN frames : IsSpeech(frames[k])}

\* Two counters and two buffers tell one story: what is counted as speech is
\* the speech in the segment's frames, the window holds speech only, it is
\* open only behind a silence and remembers how long that was, and nothing is
\* left of a segment that was cut.
CountersAgree ==
    /\ vad.speech_frame_count = Cardinality(SpeechIn(vad.segment_frames))
    /\ vad.gap_speech = Len(vad.gap_buffer)
    /\ vad.gap_active <=> vad.gap_buffer # <<>>
    /\ \A k \in DOMAIN vad.gap_buffer : IsSpeech(vad.gap_buffer[k])
    /\ vad.gap_active => /\ vad.gap_base_silence = vad.silence_frame_count
                         /\ vad.silence_frame_count > 0
    /\ ~vad.in_speech => /\ vad.segment_frames = <<>> /\ vad.pre_snapshot = <<>>
                         /\ vad.silence_frame_count = 0 /\ ~vad.gap_active

\* Between two frames no cut is overdue, however bursts were merged into the
\* silence: the pause is shorter than the threshold and the segment with the
\* burst on probation is not longer than the maximum.
NoCutOverdue ==
    vad.in_speech =>
        /\ vad.silence_frame_count * Hop < Pause
        /\ (Len(vad.segment_frames) + Len(vad.gap_buffer)) * Hop <= MaxSpeech

OpenFrames == vad.pre_snapshot \o vad.segment_frames \o vad.gap_buffer

\* The open segment starts where it says it starts, runs up to the frame heard
\* last (unless that begins the silence), and what is missing in between are
\* bursts of speech that were too short.
OnlyShortBurstsMissing ==
    vad.in_speech =>
        /\ OpenFrames[1] = vad.speech_start
        /\ OpenFrames[Len(OpenFrames)] = total - 1
        /\ \A k \in 1 .. Len(OpenFrames) - 1 :
              LET missing == OpenFrames[k] + 1 .. OpenFrames[k + 1] - 1
              IN  /\ OpenFrames[k] < OpenFrames[k + 1]
                  /\ Cardinality(missing) * Hop < MinSpeech
                  /\ \A i \in missing : IsSpeech(i)

\* Counters and buffers agree, and nothing is missing from the open segment but
\* bursts of speech that were too short.
SegmentIsWhole == CountersAgree /\ OnlyShortBurstsMissing

\* A report is sound: its span is not empty and was heard, its audio has the
\* length of the span, and it holds the least amount of speech at least.  Reports
\* come in the order of the audio and share no more than the pre-roll.
ReportsAreSound ==
    /\ \A k \in DOMAIN segments :
          LET s == segments[k]
          IN  /\ s.start_sample < s.end_sample /\ s.end_sample <= total * Hop
              /\ Len(s.audio) * Hop = s.end_sample - s.start_sample
              /\ Cardinality(SpeechIn(s.audio)) * Hop >= MinSpeech
    /\ \A k \in 1 .. Len(segments) - 1 :
          /\ segments[k].start_sample < segments[k + 1].start_sample
          /\ segments[k].end_sample <= segments[k + 1].start_sample + Pad * Hop

\* The frames of a burst of speech that ended at frame b.
EndsAt(b) == b \in 0 .. total - 1 /\ IsSpeech(b) /\ b < total - 1 /\ ~IsSpeech(b + 1)
BurstEndingAt(b) ==
    {a \in 0 .. b : \A i \in a .. b : IsSpeech(i)}

\* No burst of speech of the minimal length that came to its end is lost
\* altogether, whatever silences, merges and forced cuts surround it.  A burst
\* that is still on probation when flush() is called has not ended, and is lost.
LongBurstsAreHeard ==
    \A b \in 0 .. total - 1 :
        EndsAt(b) /\ Cardinality(BurstEndingAt(b)) * Hop >= MinSpeech
            => \E i \in BurstEndingAt(b) :
                 \/ i \in Range(vad.segment_frames)
                 \/ \E k \in DOMAIN segments : i \in Range(segments[k].audio)
=============================================================================
