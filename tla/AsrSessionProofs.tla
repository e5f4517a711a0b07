--------------------------- MODULE AsrSessionProofs ---------------------------
(***************************************************************************)
(* Theorems about AsrSession, for every value of its constants.            *)
(***************************************************************************)
EXTENDS AsrSession, SequenceTheorems, TLAPS

-----------------------------------------------------------------------------
(* Operators *)

LEMMA MsType == ASSUME NEW n \in Nat PROVE Ms(n) \in Nat
BY SamplesPerMsAssumption DEF Ms

LEMMA SpanAudioType ==
    ASSUME NEW span \in Nat \X Nat PROVE SpanAudio(span) \in Seq(Nat)
<1>1. span[1] \in Nat /\ span[2] \in Nat
    OBVIOUS
<1>2. CASE span[2] - span[1] \in Nat
    BY <1>1, <1>2 DEF SpanAudio
<1>3. CASE span[2] - span[1] \notin Nat
    <2>1. SpanAudio(span) = <<>>
        BY <1>1, <1>3 DEF SpanAudio
    <2> QED BY <2>1
<1> QED BY <1>2, <1>3

\* What the fields say about each other: the counter is the length of the
\* buffer, and the cursor and the last trigger lie inside it.
Shape(f) ==
    /\ f.online_total = Len(f.online_buf)
    /\ f.online_cut_cursor <= f.online_last_trigger
    /\ f.online_last_trigger <= f.online_total

LEMMA BufferedType ==
    ASSUME NEW f \in FrameState, Shape(f), NEW n \in Nat
    PROVE  Buffered(f, n) \in FrameState /\ Shape(Buffered(f, n))
<1> DEFINE tail == [i \in 1..n |-> f.abs_samples + i - 1]
<1>1. tail \in Seq(Nat) /\ Len(tail) = n
    BY DEF FrameState
<1> HIDE DEF tail
<1>2. /\ f.online_buf \o tail \in Seq(Nat)
      /\ Len(f.online_buf \o tail) = Len(f.online_buf) + n
    <2>1. f.online_buf \in Seq(Nat)
        BY DEF FrameState
    <2> QED BY <1>1, <2>1, ConcatProperties
<1>3. f.online_total + n \in Nat /\ f.abs_samples + n \in Nat
    BY DEF FrameState
<1>4. Buffered(f, n) = [f EXCEPT !.online_buf = f.online_buf \o tail,
                                 !.online_total = f.online_total + n,
                                 !.abs_samples = f.abs_samples + n]
    BY DEF Buffered, tail
<1>5. Buffered(f, n) \in FrameState
    BY <1>2, <1>3, <1>4 DEF FrameState
<1>6. Shape(Buffered(f, n))
    BY <1>2, <1>4 DEF FrameState, Shape
<1> QED BY <1>5, <1>6

LEMMA AfterCutsType ==
    ASSUME NEW f \in FrameState, Shape(f), NEW count \in Nat
    PROVE  AfterCuts(f, count) \in FrameState /\ Shape(AfterCuts(f, count))
<1>1. <<>> \in Seq(Nat) /\ <<>> \in Text /\ Len(<<>>) = 0
    BY DEF Text
<1>2. /\ f.online_epoch + count \in Nat /\ f.seg_id + count \in Nat
      /\ f.abs_samples \in Nat
    BY DEF FrameState
<1>3. AfterCuts(f, count) \in FrameState
    BY <1>1, <1>2 DEF AfterCuts, FrameState
<1>4. Shape(AfterCuts(f, count))
    BY <1>1 DEF AfterCuts, FrameState, Shape
<1> QED BY <1>3, <1>4

LEMMA OnlineCutType ==
    ASSUME NEW f \in FrameState, Shape(f), NEW in_speech \in BOOLEAN,
           NEW silence \in Nat
    PROVE  OnlineCut(f, in_speech, silence) \in FrameState
           /\ Shape(OnlineCut(f, in_speech, silence))
<1>1. f.online_accumulated_text \o f.online_last_text \in Text
    BY DEF FrameState, Text
<1>2. f.online_epoch + 1 \in Nat /\ f.online_total \in Nat
    BY DEF FrameState
<1>3. OnlineCut(f, in_speech, silence) \in FrameState
    BY <1>1, <1>2 DEF OnlineCut, FrameState
<1>4. Shape(OnlineCut(f, in_speech, silence))
    BY DEF OnlineCut, FrameState, Shape
<1> QED BY <1>3, <1>4

LEMMA OnlineRequestType ==
    ASSUME NEW f \in FrameState, Shape(f)
    PROVE  OnlineRequest(f) \in OnlineTask
<1>1. SubSeq(f.online_buf, f.online_cut_cursor + 1, f.online_total) \in Seq(Nat)
    BY DEF FrameState, Shape
<1>2. Ms(f.seg_start_abs) \in Nat /\ Ms(f.abs_samples) \in Nat
    BY MsType DEF FrameState
<1> QED BY <1>1, <1>2 DEF OnlineRequest, OnlineTask, FrameState

LEMMA JobType ==
    ASSUME NEW f \in FrameState, NEW spans \in Seq(Nat \X Nat),
           NEW i \in DOMAIN spans
    PROVE  Job(f, spans, i) \in OfflineJob
<1>1. spans[i] \in Nat \X Nat /\ i \in Nat \ {0}
    OBVIOUS
<1>2. spans[i][1] \in Nat /\ spans[i][2] \in Nat
    BY <1>1
<1>3. Ms(spans[i][1]) \in Nat /\ Ms(spans[i][2]) \in Nat
    BY <1>2, MsType
<1>4. SpanAudio(spans[i]) \in Seq(Nat) /\ f.online_buf \in Seq(Nat)
    BY <1>1, SpanAudioType DEF FrameState
<1>5. f.seg_id \in Nat
    BY DEF FrameState
<1>6. f.seg_id + i - 1 \in Nat
    BY <1>1, <1>5
<1> QED BY <1>3, <1>4, <1>6 DEF Job, OfflineJob

LEMMA SentenceType ==
    ASSUME NEW k \in Nat, NEW entry \in Entry
    PROVE  Sentence(k, entry) \in Message
<1>1. <<[seg |-> k, epoch |-> 0]>> \in Text
    BY DEF Text, Token
<1>2. entry.bg \in Nat /\ entry.ed \in Nat
    BY DEF Entry
<1> QED BY <1>1, <1>2 DEF Sentence, Message

LEMMA VadReportsType ==
    ASSUME NEW spans \in VadReports PROVE spans \in Seq(Nat \X Nat)
<1>1. PICK n \in 0..MaxCuts : spans \in [1..n -> VadSpans]
    BY DEF VadReports
<1>2. n \in Nat /\ spans \in [1..n -> Nat \X Nat]
    BY <1>1, VadSpansAssumption, BoundsAssumption
<1> QED BY <1>2

LEMMA TriggerOfflineType ==
    ASSUME TypeOK, NEW spans \in Seq(Nat \X Nat), TriggerOffline(spans)
    PROVE  /\ offline' \subseteq OfflineJob
           /\ submitted' \in Seq(Seq(Nat))
<1>1. \A i \in DOMAIN spans : Job(fs, spans, i) \in OfflineJob
    BY JobType DEF TypeOK
<1>2. offline' \subseteq OfflineJob
    BY <1>1 DEF TypeOK, TriggerOffline
<1> DEFINE audio == [i \in DOMAIN spans |-> Job(fs, spans, i).audio]
<1>3. \A i \in DOMAIN spans : Job(fs, spans, i).audio \in Seq(Nat)
    BY <1>1 DEF OfflineJob
<1>4. DOMAIN spans = 1..Len(spans) /\ Len(spans) \in Nat
    OBVIOUS
<1>5. audio \in Seq(Seq(Nat))
    BY <1>3, <1>4
<1>6. submitted' = submitted \o audio
    BY DEF TriggerOffline
<1> HIDE DEF audio
<1>7. submitted' \in Seq(Seq(Nat))
    BY <1>5, <1>6, ConcatProperties DEF TypeOK
<1> QED BY <1>2, <1>7

LEMMA AdvanceType ==
    ASSUME TypeOK, NEW k \in Nat, NEW entry \in Entry,
           AdvanceReorderPointer(k, entry)
    PROVE  /\ out' \in Seq(Message \cup {FINALIZE_SENTINEL})
           /\ Len(out') >= Len(out)
           /\ next_seg_id_to_send' \in Nat
           /\ DOMAIN pending' \subseteq Nat
           /\ pending' \in [DOMAIN pending' -> Entry]
           /\ final_seg_id' \in Nat \cup {None}
<1> DEFINE results == Recorded(k, entry)
<1>1. /\ DOMAIN results \subseteq Nat
      /\ \A i \in DOMAIN results : results[i] \in Entry
    BY DEF Recorded, TypeOK
<1> HIDE DEF results
<1>2. PICK m \in next_seg_id_to_send .. fs.seg_id :
        \E count \in 0 .. m - next_seg_id_to_send :
          \E batch \in [1..count -> next_seg_id_to_send .. m - 1] :
            Release(results, m, count, batch)
    BY DEF AdvanceReorderPointer, results
<1>a. PICK count \in 0 .. m - next_seg_id_to_send :
        \E batch \in [1..count -> next_seg_id_to_send .. m - 1] :
          Release(results, m, count, batch)
    BY <1>2
<1>b. PICK batch \in [1..count -> next_seg_id_to_send .. m - 1] :
        Release(results, m, count, batch)
    BY <1>a
<1>c. next_seg_id_to_send \in Nat /\ fs.seg_id \in Nat
    BY DEF TypeOK, FrameState
<1>3. m \in Nat /\ count \in Nat
    BY <1>2, <1>a, <1>c
<1> DEFINE sentences == [i \in 1..count |-> Sentence(batch[i], results[batch[i]])]
<1>4. \A i \in 1..count : Sentence(batch[i], results[batch[i]]) \in Message
    <2> TAKE i \in 1..count
    <2>1. batch[i] \in next_seg_id_to_send .. m - 1
        BY <1>b
    <2>2. batch[i] \in DOMAIN results /\ batch[i] \in Nat
        BY <2>1, <1>b DEF Release, StopsAt, TypeOK
    <2> QED BY <2>2, <1>1, SentenceType
<1>5. sentences \in Seq(Message) /\ Len(sentences) = count
    BY <1>3, <1>4
<1> HIDE DEF sentences
<1>6. sentences \in Seq(Message \cup {FINALIZE_SENTINEL})
    BY <1>5
<1>7. out' = out \o sentences
    BY <1>b DEF sentences, Release
<1>8. /\ out' \in Seq(Message \cup {FINALIZE_SENTINEL})
      /\ Len(out') = Len(out) + count
    BY <1>5, <1>6, <1>7, ConcatProperties DEF TypeOK
<1>9. Len(out') >= Len(out)
    BY <1>3, <1>8 DEF TypeOK
<1>10. /\ DOMAIN pending' \subseteq Nat
       /\ pending' \in [DOMAIN pending' -> Entry]
    BY <1>1, <1>b DEF Release
<1> QED BY <1>b, <1>3, <1>8, <1>9, <1>10 DEF TypeOK, Release

-----------------------------------------------------------------------------
(* Type correctness *)

\* The inductive form of TypeOK: an online request is a slice of the buffer
\* only because the cursor stays inside it.
TypeInv == TypeOK /\ Shape(fs)

LEMMA TypeInit == Init => TypeInv
<1> SUFFICES ASSUME Init PROVE TypeInv
    OBVIOUS
<1>1. <<>> \in Seq(Nat) /\ <<>> \in Text /\ Len(<<>>) = 0
    BY DEF Text
<1>2. fs \in FrameState /\ Shape(fs)
    BY <1>1 DEF Init, NewFrameState, FrameState, Shape
<1>3. DOMAIN pending \subseteq Nat /\ pending \in [DOMAIN pending -> Entry]
    BY DEF Init, NewFrameState
<1>4. /\ out \in Seq(Message \cup {FINALIZE_SENTINEL}) /\ taken \in 0..Len(out)
      /\ last_sent \in Seq(Message) /\ Len(last_sent) <= 1
      /\ wire \in Seq([msg : Message, status : 0..2])
      /\ submitted \in Seq(Seq(Nat))
    BY DEF Init, NewFrameState
<1> QED BY <1>2, <1>3, <1>4 DEF Init, TypeInv, TypeOK

LEMMA FinishFeedType ==
    ASSUME TypeInv, NEW spans \in VadReports, NEW in_speech \in BOOLEAN,
           NEW silence \in Silences, FinishFeed(spans, in_speech, silence)
    PROVE  TypeInv'
<1> DEFINE f == OnlineCut(AfterCuts(fs, Len(spans)), in_speech, silence)
<1>1. spans \in Seq(Nat \X Nat) /\ silence \in Nat
    BY VadReportsType, SilencesAssumption
<1>2. f \in FrameState /\ Shape(f)
    <2>1. Len(spans) \in Nat
        BY <1>1
    <2>2. AfterCuts(fs, Len(spans)) \in FrameState /\ Shape(AfterCuts(fs, Len(spans)))
        BY <2>1, AfterCutsType DEF TypeInv, TypeOK
    <2> QED BY <1>1, <2>2, OnlineCutType
<1>3. /\ offline' \subseteq OfflineJob
      /\ submitted' \in Seq(Seq(Nat))
    BY <1>1, TriggerOfflineType DEF FinishFeed, TypeInv
<1> HIDE DEF f
<1>4. fs' \in FrameState /\ Shape(fs') /\ online' \subseteq OnlineTask
    <2>1. CASE OnlineDue(f)
        <3>1. /\ online' = online \cup {OnlineRequest(f)}
              /\ fs' = [f EXCEPT !.online_busy = TRUE,
                                 !.online_last_trigger = f.online_total]
            BY <2>1 DEF FinishFeed, f
        <3>2. OnlineRequest(f) \in OnlineTask
            BY <1>2, OnlineRequestType
        <3>3. f.online_total \in Nat
            BY <1>2 DEF FrameState
        <3>4. fs' \in FrameState
            BY <1>2, <3>1, <3>3 DEF FrameState
        <3>5. Shape(fs')
            BY <1>2, <3>1, <3>3 DEF FrameState, Shape
        <3> QED BY <3>1, <3>2, <3>4, <3>5 DEF TypeInv, TypeOK
    <2>2. CASE ~OnlineDue(f)
        <3>1. fs' = f /\ online' = online
            BY <2>2 DEF FinishFeed, f
        <3> QED BY <1>2, <3>1 DEF TypeInv, TypeOK
    <2> QED BY <2>1, <2>2
<1> QED BY <1>3, <1>4
        DEF FinishFeed, TypeInv, TypeOK, clientVars, reorder, senderVars

LEMMA FlushType ==
    ASSUME TypeInv, NEW tail \in VadSpans \cup {<<>>}, Flush(tail)
    PROVE  TypeInv'
<1>1. CASE NothingLeft(tail)
    <2> QED BY <1>1 DEF Flush, TypeInv, TypeOK, clientVars, reorder, senderVars
<1>2. CASE ~NothingLeft(tail)
    <2> DEFINE last == IF tail = <<>> THEN <<0, fs.online_total>> ELSE tail
    <2>1. fs.online_total \in Nat /\ fs.seg_id \in Nat
        BY DEF TypeInv, TypeOK, FrameState
    <2>2. last \in Nat \X Nat
        BY <2>1, VadSpansAssumption
    <2>3. TriggerOffline(<<last>>) /\ fs' = AfterCuts(fs, 1) /\ final_seg_id' = fs.seg_id
        BY <1>2 DEF Flush, FinalSegment
    <2> HIDE DEF last
    <2>4. <<last>> \in Seq(Nat \X Nat)
        BY <2>2
    <2>5. offline' \subseteq OfflineJob /\ submitted' \in Seq(Seq(Nat))
        BY <2>3, <2>4, TriggerOfflineType DEF TypeInv
    <2>6. fs' \in FrameState /\ Shape(fs')
        BY <2>3, AfterCutsType DEF TypeInv, TypeOK
    <2> QED BY <1>2, <2>1, <2>3, <2>5, <2>6
            DEF Flush, TypeInv, TypeOK, clientVars, senderVars
<1> QED BY <1>1, <1>2

LEMMA OnlineDoneType ==
    ASSUME TypeInv, NEW t \in online, NEW has_text \in BOOLEAN,
           OnlineDone(t, has_text)
    PROVE  TypeInv'
<1> DEFINE token == <<[seg |-> t.seg, epoch |-> t.epoch]>>
           message == [seg |-> t.seg, type |-> "Progressive",
                       text |-> fs.online_accumulated_text \o token,
                       bg |-> t.bg, ed |-> t.ed, final |-> FALSE]
<1>1. t \in OnlineTask
    BY DEF TypeInv, TypeOK
<1>2. token \in Text
    BY <1>1 DEF Text, Token, OnlineTask
<1>3. fs.online_accumulated_text \in Text /\ fs.online_last_text \in Text
    BY DEF TypeInv, TypeOK, FrameState
<1>4. fs.online_accumulated_text \o token \in Text
    BY <1>2, <1>3, ConcatProperties DEF Text
<1>5. message \in Message
    BY <1>1, <1>4 DEF Message, OnlineTask
<1> HIDE DEF token
<1>6. fs' = [fs EXCEPT !.online_last_text = IF has_text THEN token ELSE @,
                       !.online_busy = @ /\ ~Current(t)]
    BY DEF OnlineDone, token
<1>7. fs' \in FrameState /\ Shape(fs')
    BY <1>2, <1>3, <1>6 DEF FrameState, Shape, TypeInv, TypeOK
<1>8. out' = IF has_text /\ Current(t) THEN Append(out, message) ELSE out
    BY DEF OnlineDone, token
<1> HIDE DEF message
<1>9. out' \in Seq(Message \cup {FINALIZE_SENTINEL}) /\ Len(out') >= Len(out)
    BY <1>5, <1>8 DEF TypeInv, TypeOK
<1> QED BY <1>7, <1>9
        DEF OnlineDone, TypeInv, TypeOK, clientVars, reorder, senderVars

LEMMA OfflineDoneType ==
    ASSUME TypeInv, NEW j \in offline, NEW has_text \in BOOLEAN,
           OfflineDone(j, has_text)
    PROVE  TypeInv'
<1> DEFINE entry == IF has_text THEN [text |-> TRUE, bg |-> j.bg, ed |-> j.ed]
                    ELSE [text |-> FALSE, bg |-> 0, ed |-> 0]
<1>1. j \in OfflineJob
    BY DEF TypeInv, TypeOK
<1>2. entry \in Entry /\ j.seg \in Nat
    BY <1>1 DEF Entry, OfflineJob
<1>3. AdvanceReorderPointer(j.seg, entry)
    BY DEF OfflineDone
<1> HIDE DEF entry
<1>4. /\ out' \in Seq(Message \cup {FINALIZE_SENTINEL})
      /\ Len(out') >= Len(out)
      /\ next_seg_id_to_send' \in Nat
      /\ DOMAIN pending' \subseteq Nat
      /\ pending' \in [DOMAIN pending' -> Entry]
      /\ final_seg_id' \in Nat \cup {None}
    BY <1>2, <1>3, AdvanceType DEF TypeInv
<1> QED BY <1>4
        DEF OfflineDone, TypeInv, TypeOK, clientVars, senderVars

LEMMA SendType ==
    ASSUME TypeOK, NEW msg \in Message, NEW status \in 0..2, Send(msg, status)
    PROVE  wire' \in Seq([msg : Message, status : 0..2])
<1>1. [msg |-> msg, status |-> status] \in [msg : Message, status : 0..2]
    OBVIOUS
<1>2. wire \in Seq([msg : Message, status : 0..2])
    BY DEF TypeOK
<1>3. Append(wire, [msg |-> msg, status |-> status])
        \in Seq([msg : Message, status : 0..2])
    BY <1>1, <1>2, AppendProperties
<1> QED BY <1>2, <1>3 DEF Send

LEMMA SenderType == ASSUME TypeInv, SenderStep PROVE TypeInv'
<1>1. CASE SenderSend
    <2>1. taken + 1 \in 1..Len(out) /\ taken + 1 \in 0..Len(out)
        BY <1>1 DEF SenderSend, Takes, TypeInv, TypeOK
    <2>2. out[taken + 1] \in Message
        BY <1>1, <2>1 DEF SenderSend, TypeInv, TypeOK
    <2>3. StatusOf(out[taken + 1]) \in 0..2
        BY <2>2 DEF StatusOf, Message
    <2>4. wire' \in Seq([msg : Message, status : 0..2])
        BY <1>1, <2>2, <2>3, SendType DEF SenderSend, TypeInv
    <2>5. last_sent' \in Seq(Message) /\ Len(last_sent') = 1
        BY <1>1, <2>2 DEF SenderSend
    <2>6. sent_final' \in BOOLEAN
        BY <1>1, <2>2 DEF SenderSend, TypeInv, TypeOK, Message
    <2> QED BY <1>1, <2>1, <2>4, <2>5, <2>6
            DEF SenderSend, TypeInv, TypeOK, clientVars, reorder, taskVars
<1>2. CASE SenderFinish
    <2>1. taken + 1 \in 0..Len(out)
        BY <1>2 DEF SenderFinish, Takes, TypeInv, TypeOK
    <2>2. wire' \in Seq([msg : Message, status : 0..2])
        <3>1. CASE NeedsTerminal
            <4>1. last_sent[1] \in Message
                BY <3>1 DEF NeedsTerminal, TypeInv, TypeOK
            <4>2. <<>> \in Text
                BY DEF Text
            <4>3. [last_sent[1] EXCEPT !.text = <<>>, !.final = TRUE] \in Message
                BY <4>1, <4>2 DEF Message
            <4>4. Send([last_sent[1] EXCEPT !.text = <<>>, !.final = TRUE], 2)
                BY <1>2, <3>1 DEF SenderFinish
            <4>5. 2 \in 0..2
                OBVIOUS
            <4> HIDE DEF TypeInv
            <4> QED BY <4>3, <4>4, <4>5, SendType DEF TypeInv
        <3>2. CASE ~NeedsTerminal
            BY <1>2, <3>2 DEF SenderFinish, TypeInv, TypeOK
        <3> QED BY <3>1, <3>2
    <2> QED BY <1>2, <2>1, <2>2
            DEF SenderFinish, TypeInv, TypeOK, clientVars, reorder, taskVars
<1> QED BY <1>1, <1>2 DEF SenderStep

LEMMA TypeStep == TypeInv /\ [Next]_vars => TypeInv'
<1> SUFFICES ASSUME TypeInv, [Next]_vars PROVE TypeInv'
    OBVIOUS
<1> USE DEF TypeInv
<1>1. CASE HandlerStep
    <2>1. CASE HandshakeFail \/ StreamClosed \/ Join \/ CleanUp
        BY <2>1 DEF HandshakeFail, StreamClosed, Join, CleanUp, TypeOK, clientVars,
                    reorder, taskVars, senderVars
    <2>2. CASE \E spans \in VadReports, in_speech \in BOOLEAN, silence \in Silences :
                   Reported(fs, spans) /\ FinishFeed(spans, in_speech, silence)
        BY <2>2, FinishFeedType
    <2>3. CASE \E tail \in VadSpans \cup {<<>>} :
                   (tail # <<>> => Reported(fs, <<tail>>)) /\ Flush(tail)
        BY <2>3, FlushType
    <2>4. CASE Gather
        <3>1. /\ out' \in Seq(Message \cup {FINALIZE_SENTINEL})
              /\ Len(out') = Len(out) + 1
            BY <2>4 DEF Gather, TypeOK
        <3> QED BY <2>4, <3>1 DEF Gather, TypeOK, clientVars, reorder, taskVars,
                                  senderVars
    <2> QED BY <1>1, <2>1, <2>2, <2>3, <2>4 DEF HandlerStep
<1>2. CASE ClientStep
    <2>1. CASE ReceiveEmptyFrame \/ Abort \/ ClientDrop
        BY <2>1 DEF ReceiveEmptyFrame, Abort, ClientDrop, StartSender, TypeOK,
                    clientVars, reorder, taskVars, senderVars
    <2>2. CASE \E n \in FrameSizes : \E m \in Denoised(n) : ReceiveFrame(n, m)
        <3>0. PICK n \in FrameSizes : \E m \in Denoised(n) : ReceiveFrame(n, m)
            BY <2>2
        <3>1. PICK m \in Denoised(n) : ReceiveFrame(n, m)
            BY <3>0
        <3>2. n \in Nat /\ m \in Nat /\ received' \in Nat
            <4>1. n \in Nat /\ received \in Nat /\ fs.abs_samples \in Nat
                BY FrameSizesAssumption DEF TypeOK, FrameState
            <4>2. m \in 0 .. received + n - fs.abs_samples
                BY DEF Denoised
            <4>3. received' = received + n
                BY <3>1 DEF ReceiveFrame
            <4> QED BY <4>1, <4>2, <4>3
        <3>3. fs' \in FrameState /\ Shape(fs')
            BY <3>1, <3>2, BufferedType DEF ReceiveFrame, TypeOK
        <3> QED BY <3>1, <3>2, <3>3 DEF ReceiveFrame, StartSender, TypeOK, clientVars,
                                  reorder, taskVars
    <2>3. CASE ReceiveEndFrame
        BY <2>3
           DEF ReceiveEndFrame, StartSender, TypeOK, clientVars, reorder, taskVars
    <2> QED BY <1>2, <2>1, <2>2, <2>3 DEF ClientStep
<1>3. CASE OnlineStep
    BY <1>3, OnlineDoneType DEF OnlineStep
<1>4. CASE OfflineStep
    BY <1>4, OfflineDoneType DEF OfflineStep
<1>5. CASE SenderStep
    BY <1>5, SenderType
<1>6. CASE UNCHANGED vars
    BY <1>6 DEF vars, TypeOK, Shape
<1> QED BY <1>1, <1>2, <1>3, <1>4, <1>5, <1>6 DEF Next

\* Every state of every session has its type, whatever frames arrive, the VAD
\* reports and the recognitions return.
THEOREM TypeCorrect == Spec => []TypeOK
<1>1. TypeInv => TypeOK
    BY DEF TypeInv
<1> QED BY <1>1, TypeInit, TypeStep, PTL DEF Spec

-----------------------------------------------------------------------------
(* The busy flag *)

\* OnlineBusyExact of any frame state and set of tasks, for the steps that
\* FinishFeed takes one after the other.
Exact(f, tasks) ==
    /\ f.online_busy <=> \E t \in tasks : t.epoch = f.online_epoch
    /\ \A t \in tasks :
          /\ t.epoch <= f.online_epoch /\ t.seg <= f.seg_id
          /\ t.epoch = f.online_epoch => t.seg = f.seg_id
    /\ \A t, u \in tasks : t.epoch = u.epoch => t = u

LEMMA ExactAfterCuts ==
    ASSUME NEW f \in FrameState, NEW tasks \in SUBSET OnlineTask, Exact(f, tasks),
           NEW count \in Nat
    PROVE  Exact(AfterCuts(f, count), tasks)
<1>1. CASE count = 0
    BY <1>1 DEF AfterCuts
<1>2. CASE count # 0
    <2> DEFINE g == AfterCuts(f, count)
    <2>1. /\ g.online_busy = FALSE
          /\ g.online_epoch = f.online_epoch + count
          /\ g.seg_id = f.seg_id + count
        BY <1>2 DEF AfterCuts, FrameState
    <2>2. f.online_epoch \in Nat /\ f.seg_id \in Nat
        BY DEF FrameState
    <2>3. \A t \in tasks : t.epoch \in Nat /\ t.seg \in Nat
        BY DEF OnlineTask
    <2> HIDE DEF g
    <2>4. \A t \in tasks : t.epoch < g.online_epoch /\ t.seg <= g.seg_id
        BY <1>2, <2>1, <2>2, <2>3 DEF Exact
    <2>5. g.online_epoch \in Nat
        BY <2>1, <2>2
    <2>6. Exact(g, tasks)
        BY <2>1, <2>3, <2>4, <2>5 DEF Exact
    <2> QED BY <2>6 DEF g
<1> QED BY <1>1, <1>2

LEMMA ExactOnlineCut ==
    ASSUME NEW f \in FrameState, NEW tasks \in SUBSET OnlineTask, Exact(f, tasks),
           NEW in_speech, NEW silence
    PROVE  Exact(OnlineCut(f, in_speech, silence), tasks)
<1> DEFINE g == OnlineCut(f, in_speech, silence)
<1>1. CASE g = f
    BY <1>1
<1>2. CASE g # f
    <2>1. /\ g.online_busy = FALSE
          /\ g.online_epoch = f.online_epoch + 1
          /\ g.seg_id = f.seg_id
        BY <1>2 DEF OnlineCut, FrameState
    <2>2. f.online_epoch \in Nat /\ f.seg_id \in Nat
        BY DEF FrameState
    <2>3. \A t \in tasks : t.epoch \in Nat /\ t.seg \in Nat
        BY DEF OnlineTask
    <2> HIDE DEF g
    <2>4. \A t \in tasks : t.epoch < g.online_epoch /\ t.seg <= g.seg_id
        BY <2>1, <2>2, <2>3 DEF Exact
    <2>5. Exact(g, tasks)
        BY <2>1, <2>2, <2>3, <2>4 DEF Exact
    <2> QED BY <2>5 DEF g
<1> QED BY <1>1, <1>2

LEMMA ExactRequest ==
    ASSUME NEW f \in FrameState, NEW tasks \in SUBSET OnlineTask, Exact(f, tasks),
           ~f.online_busy,
           NEW n
    PROVE  Exact([f EXCEPT !.online_busy = TRUE, !.online_last_trigger = n],
                 tasks \cup {OnlineRequest(f)})
<1> DEFINE g == [f EXCEPT !.online_busy = TRUE, !.online_last_trigger = n]
           r == OnlineRequest(f)
<1>1. /\ g.online_busy = TRUE
      /\ g.online_epoch = f.online_epoch
      /\ g.seg_id = f.seg_id
    BY DEF FrameState
<1>2. r.epoch = f.online_epoch /\ r.seg = f.seg_id
    BY DEF OnlineRequest
<1>3. f.online_epoch \in Nat /\ f.seg_id \in Nat
    BY DEF FrameState
<1> HIDE DEF g, r
<1>4. \A t \in tasks : t.epoch # r.epoch
    BY <1>2 DEF Exact
<1>5. Exact(g, tasks \cup {r})
    BY <1>1, <1>2, <1>3, <1>4 DEF Exact
<1> QED BY <1>5 DEF g, r

LEMMA ExactDone ==
    ASSUME TypeOK, OnlineBusyExact, NEW t \in online, NEW has_text \in BOOLEAN,
           OnlineDone(t, has_text)
    PROVE  OnlineBusyExact'
<1>1. /\ fs'.online_busy = (fs.online_busy /\ ~Current(t))
      /\ fs'.online_epoch = fs.online_epoch
      /\ fs'.seg_id = fs.seg_id
      /\ online' = online \ {t}
    BY DEF OnlineDone, TypeOK, FrameState
<1>2. CASE Current(t)
    BY <1>1, <1>2 DEF OnlineBusyExact, Current
<1>3. CASE ~Current(t)
    BY <1>1, <1>3 DEF OnlineBusyExact, Current
<1> QED BY <1>2, <1>3

LEMMA BusyStep == TypeInv /\ OnlineBusyExact /\ [Next]_vars => OnlineBusyExact'
<1> SUFFICES ASSUME TypeInv, OnlineBusyExact, [Next]_vars PROVE OnlineBusyExact'
    OBVIOUS
<1>0. fs \in FrameState /\ online \in SUBSET OnlineTask /\ Exact(fs, online)
    BY DEF TypeInv, TypeOK, OnlineBusyExact, Exact
<1>a. OnlineBusyExact' <=> Exact(fs', online')
    BY DEF OnlineBusyExact, Exact
<1>1. CASE UNCHANGED <<fs, online>>
    BY <1>1 DEF OnlineBusyExact
<1>2. CASE \E spans \in VadReports, in_speech \in BOOLEAN, silence \in Silences :
               FinishFeed(spans, in_speech, silence)
    <2>1. PICK spans \in VadReports, in_speech \in BOOLEAN, silence \in Silences :
               FinishFeed(spans, in_speech, silence)
        BY <1>2
    <2> DEFINE g == AfterCuts(fs, Len(spans))
               f == OnlineCut(g, in_speech, silence)
    <2>2. Len(spans) \in Nat /\ silence \in Nat
        BY VadReportsType, SilencesAssumption
    <2>3. g \in FrameState /\ Shape(g) /\ Exact(g, online)
        BY <1>0, <2>2, AfterCutsType, ExactAfterCuts DEF TypeInv
    <2> HIDE DEF g
    <2>4. f \in FrameState /\ Shape(f) /\ Exact(f, online)
        BY <1>0, <2>2, <2>3, OnlineCutType, ExactOnlineCut
    <2>5. CASE OnlineDue(f)
        <3>1. /\ online' = online \cup {OnlineRequest(f)}
              /\ fs' = [f EXCEPT !.online_busy = TRUE,
                                 !.online_last_trigger = f.online_total]
            BY <2>1, <2>5 DEF FinishFeed, f, g
        <3>2. ~f.online_busy
            BY <2>5 DEF OnlineDue
        <3> HIDE DEF f
        <3> QED BY <1>0, <1>a, <2>4, <3>1, <3>2, ExactRequest
    <2>6. CASE ~OnlineDue(f)
        <3>1. online' = online /\ fs' = f
            BY <2>1, <2>6 DEF FinishFeed, f, g
        <3> HIDE DEF f
        <3> QED BY <1>a, <2>4, <3>1
    <2> QED BY <2>5, <2>6
<1>3. CASE \E tail \in VadSpans \cup {<<>>} : Flush(tail)
    <2>1. UNCHANGED fs \/ fs' = AfterCuts(fs, 1)
        BY <1>3 DEF Flush
    <2>2. online' = online
        BY <1>3 DEF Flush
    <2> QED BY <1>0, <1>a, <2>1, <2>2, ExactAfterCuts
<1>4. CASE \E n \in FrameSizes : \E m \in Denoised(n) : ReceiveFrame(n, m)
    <2>1. /\ fs'.online_busy = fs.online_busy
          /\ fs'.online_epoch = fs.online_epoch
          /\ fs'.seg_id = fs.seg_id
          /\ online' = online
        BY <1>0, <1>4 DEF ReceiveFrame, Buffered, FrameState, taskVars
    <2> QED BY <2>1 DEF OnlineBusyExact
<1>5. CASE OnlineStep
    BY <1>5, ExactDone DEF OnlineStep, TypeInv
<1>6. CASE OfflineStep \/ SenderStep \/ UNCHANGED vars
    BY <1>1, <1>6 DEF OfflineStep, SenderStep, OfflineDone, SenderSend, SenderFinish,
                      vars, taskVars
<1> QED BY <1>1, <1>2, <1>3, <1>4, <1>5, <1>6
        DEF Next, HandlerStep, ClientStep, HandshakeFail, StreamClosed, Gather, Join,
            CleanUp, ReceiveEmptyFrame, ReceiveEndFrame, Abort, ClientDrop, taskVars

\* The busy flag is set exactly while one request of the current epoch is in
\* flight, for every order in which requests return and cuts happen.
THEOREM BusyIsExact == Spec => []OnlineBusyExact
<1>1. Init => OnlineBusyExact
    BY DEF Init, NewFrameState, OnlineBusyExact
<1> QED BY <1>1, TypeInit, TypeStep, BusyStep, PTL DEF Spec

-----------------------------------------------------------------------------
(* No segment is lost or held twice *)

\* SegmentConservation, one segment at a time.
Placed ==
    /\ next_seg_id_to_send <= fs.seg_id
    /\ \A j \in offline : j.seg >= next_seg_id_to_send /\ j.seg < fs.seg_id
                            /\ j.seg \notin DOMAIN pending
    /\ \A k \in DOMAIN pending : k >= next_seg_id_to_send /\ k < fs.seg_id
    /\ \A k \in Nat : k >= next_seg_id_to_send /\ k < fs.seg_id
          => k \in DOMAIN pending \/ \E j \in offline : j.seg = k
    /\ \A i, j \in offline : i.seg = j.seg => i = j

LEMMA PlacedConserves ==
    ASSUME TypeOK, PointerWaits PROVE Placed => SegmentConservation
<1> SUFFICES ASSUME Placed PROVE SegmentConservation
    OBVIOUS
<1> DEFINE running  == {j.seg : j \in offline}
           held     == DOMAIN pending
           released == 0 .. next_seg_id_to_send - 1
<1>1. next_seg_id_to_send \in Nat /\ fs.seg_id \in Nat /\ held \subseteq Nat
      /\ \A j \in offline : j.seg \in Nat
    BY DEF TypeOK, FrameState, OfflineJob
<1>2. running \cup held \cup released = 0 .. fs.seg_id - 1
    <2>1. running \cup held \cup released \subseteq 0 .. fs.seg_id - 1
        BY <1>1 DEF Placed
    <2>2. ASSUME NEW k \in 0 .. fs.seg_id - 1
          PROVE  k \in running \cup held \cup released
        <3>1. CASE k < next_seg_id_to_send
            BY <1>1, <3>1
        <3>2. CASE k >= next_seg_id_to_send
            <4>1. k \in Nat /\ k < fs.seg_id
                BY <1>1
            <4> QED BY <3>2, <4>1 DEF Placed
        <3> QED BY <1>1, <3>1, <3>2
    <2> QED BY <2>1, <2>2
<1>3. /\ running \cap held = {} /\ running \cap released = {}
      /\ held \cap released = {}
    BY <1>1 DEF Placed
<1> QED BY <1>2, <1>3 DEF SegmentConservation, Placed

LEMMA PlacedInit == Init => Placed
<1> SUFFICES ASSUME Init PROVE Placed
    OBVIOUS
<1>1. fs.seg_id = 0 /\ next_seg_id_to_send = 0 /\ offline = {} /\ DOMAIN pending = {}
    BY DEF Init, NewFrameState
<1> QED BY <1>1 DEF Placed

\* Closing segments: the new jobs are the segments up to the new current one.
LEMMA PlacedTrigger ==
    ASSUME TypeOK, Placed, NEW spans \in Seq(Nat \X Nat), TriggerOffline(spans),
           fs'.seg_id = fs.seg_id + Len(spans),
           UNCHANGED <<next_seg_id_to_send, pending>>
    PROVE  Placed'
<1> DEFINE L == Len(spans)
           job(i) == Job(fs, spans, i)
<1>1. L \in Nat /\ DOMAIN spans = 1..L
    OBVIOUS
<1>2. /\ next_seg_id_to_send \in Nat /\ fs.seg_id \in Nat
      /\ \A j \in offline : j.seg \in Nat
      /\ DOMAIN pending \subseteq Nat
    BY DEF TypeOK, FrameState, OfflineJob
<1>3. offline' = offline \cup {job(i) : i \in 1..L}
    BY <1>1 DEF TriggerOffline
<1>4. \A i \in 1..L : job(i).seg = fs.seg_id + i - 1
    BY DEF Job
<1> HIDE DEF job, L
<1>5. \A j \in offline' : j.seg >= next_seg_id_to_send /\ j.seg < fs.seg_id + L
                            /\ j.seg \notin DOMAIN pending
    <2> SUFFICES ASSUME NEW j \in offline'
                 PROVE  j.seg >= next_seg_id_to_send /\ j.seg < fs.seg_id + L
                        /\ j.seg \notin DOMAIN pending
        OBVIOUS
    <2>1. CASE j \in offline
        BY <1>1, <1>2, <2>1 DEF Placed
    <2>2. CASE j \notin offline
        <3>1. PICK i \in 1..L : j = job(i)
            BY <1>3, <2>2
        <3>2. j.seg = fs.seg_id + i - 1 /\ i \in Nat /\ i >= 1 /\ i <= L
            BY <1>1, <1>4, <3>1
        <3> QED BY <1>1, <1>2, <3>2 DEF Placed
    <2> QED BY <2>1, <2>2
<1>6. \A k \in DOMAIN pending : k >= next_seg_id_to_send /\ k < fs.seg_id + L
    BY <1>1, <1>2 DEF Placed
<1>7. ASSUME NEW k \in Nat, k >= next_seg_id_to_send, k < fs.seg_id + L
      PROVE  k \in DOMAIN pending \/ \E j \in offline' : j.seg = k
    <2>1. CASE k < fs.seg_id
        BY <1>3, <1>7, <2>1 DEF Placed
    <2>2. CASE k >= fs.seg_id
        <3>1. PICK i \in 1..L : k = fs.seg_id + i - 1
            <4>1. k - fs.seg_id + 1 \in 1..L
                BY <1>1, <1>2, <1>7, <2>2
            <4>2. k = fs.seg_id + (k - fs.seg_id + 1) - 1
                BY <1>2, <1>7
            <4> QED BY <4>1, <4>2
        <3>2. job(i).seg = k
            BY <1>4, <3>1
        <3> QED BY <1>3, <3>2
    <2> QED BY <1>2, <2>1, <2>2
<1>8. ASSUME NEW i \in offline', NEW j \in offline', i.seg = j.seg
      PROVE  i = j
    <2>1. CASE i \in offline /\ j \in offline
        BY <1>8, <2>1 DEF Placed
    <2>2. CASE i \in offline /\ j \notin offline
        <3>1. PICK b \in 1..L : j = job(b)
            BY <1>3, <2>2
        <3>2. j.seg = fs.seg_id + b - 1 /\ b \in Nat /\ b >= 1
            BY <1>1, <1>4, <3>1
        <3>3. i.seg \in Nat /\ i.seg < fs.seg_id
            BY <1>2, <2>2 DEF Placed
        <3> QED BY <1>2, <1>8, <3>2, <3>3
    <2>3. CASE i \notin offline /\ j \in offline
        <3>1. PICK a \in 1..L : i = job(a)
            BY <1>3, <2>3
        <3>2. i.seg = fs.seg_id + a - 1 /\ a \in Nat /\ a >= 1
            BY <1>1, <1>4, <3>1
        <3>3. j.seg \in Nat /\ j.seg < fs.seg_id
            BY <1>2, <2>3 DEF Placed
        <3> QED BY <1>2, <1>8, <3>2, <3>3
    <2>4. CASE i \notin offline /\ j \notin offline
        <3>1. PICK a \in 1..L : i = job(a)
            BY <1>3, <2>4
        <3>2. PICK b \in 1..L : j = job(b)
            BY <1>3, <2>4
        <3>3. i.seg = fs.seg_id + a - 1 /\ j.seg = fs.seg_id + b - 1
            BY <1>4, <3>1, <3>2
        <3>4. a \in Nat /\ b \in Nat /\ fs.seg_id \in Nat
            BY <1>1, <1>2
        <3>5. fs.seg_id + a - 1 = fs.seg_id + b - 1
            BY <1>8, <3>3
        <3>6. a = b
            BY <3>4, <3>5
        <3> QED BY <3>1, <3>2, <3>6
    <2> QED BY <2>1, <2>2, <2>3, <2>4
<1>9. /\ fs'.seg_id = fs.seg_id + L
      /\ next_seg_id_to_send' = next_seg_id_to_send /\ pending' = pending
    BY DEF L
<1>10. next_seg_id_to_send <= fs.seg_id + L
    BY <1>1, <1>2 DEF Placed
<1>11. \A k \in Nat : k >= next_seg_id_to_send' /\ k < fs'.seg_id
          => k \in DOMAIN pending' \/ \E j \in offline' : j.seg = k
    BY <1>7, <1>9
<1>12. \A j \in offline' : j.seg >= next_seg_id_to_send' /\ j.seg < fs'.seg_id
                             /\ j.seg \notin DOMAIN pending'
    BY <1>5, <1>9
<1>13. \A k \in DOMAIN pending' : k >= next_seg_id_to_send' /\ k < fs'.seg_id
    BY <1>6, <1>9
<1> QED BY <1>8, <1>9, <1>10, <1>11, <1>12, <1>13 DEF Placed

\* The choices of AdvanceReorderPointer, with what the proofs use of them.
LEMMA Advance ==
    ASSUME TypeOK, NEW k \in Nat, NEW entry, AdvanceReorderPointer(k, entry)
    PROVE  \E m \in Nat, count \in Nat :
             /\ next_seg_id_to_send <= m /\ m <= fs.seg_id
             /\ count <= m - next_seg_id_to_send
             /\ \E batch \in [1..count -> next_seg_id_to_send .. m - 1] :
                   Release(Recorded(k, entry), m, count, batch)
<1>1. next_seg_id_to_send \in Nat /\ fs.seg_id \in Nat
    BY DEF TypeOK, FrameState
<1> QED BY <1>1 DEF AdvanceReorderPointer

LEMMA PlacedOfflineDone ==
    ASSUME TypeOK, Placed, NEW j \in offline, NEW has_text \in BOOLEAN,
           OfflineDone(j, has_text)
    PROVE  Placed' /\ PointerWaits'
<1> DEFINE entry == IF has_text THEN [text |-> TRUE, bg |-> j.bg, ed |-> j.ed]
                    ELSE [text |-> FALSE, bg |-> 0, ed |-> 0]
           results == Recorded(j.seg, entry)
<1>1. /\ next_seg_id_to_send \in Nat /\ fs.seg_id \in Nat
      /\ \A i \in offline : i.seg \in Nat
      /\ DOMAIN pending \subseteq Nat
    BY DEF TypeOK, FrameState, OfflineJob
<1>2. AdvanceReorderPointer(j.seg, entry)
    BY DEF OfflineDone
<1> HIDE DEF entry
<1>3. PICK m \in Nat, count \in Nat :
         /\ next_seg_id_to_send <= m /\ m <= fs.seg_id
         /\ \E batch \in [1..count -> next_seg_id_to_send .. m - 1] :
               Release(results, m, count, batch)
    BY <1>1, <1>2, Advance
<1>4. /\ m \notin DOMAIN results
      /\ \A k \in next_seg_id_to_send .. m - 1 : k \in DOMAIN results
      /\ next_seg_id_to_send' = m
      /\ DOMAIN pending' = DOMAIN results \ (next_seg_id_to_send .. m - 1)
    BY <1>3 DEF Release, StopsAt
<1>5. DOMAIN results = DOMAIN pending \cup {j.seg}
    BY DEF Recorded
<1> HIDE DEF results
<1>6. offline' = offline \ {j} /\ fs' = fs
    BY DEF OfflineDone
<1>7. \A i \in offline' : i.seg >= m /\ i.seg < fs.seg_id /\ i.seg \notin DOMAIN pending'
    <2> SUFFICES ASSUME NEW i \in offline'
                 PROVE  i.seg >= m /\ i.seg < fs.seg_id /\ i.seg \notin DOMAIN pending'
        OBVIOUS
    <2>1. i \in offline /\ i.seg # j.seg /\ i.seg \in Nat
        BY <1>1, <1>6 DEF Placed
    <2>2. i.seg \notin DOMAIN results
        BY <1>5, <2>1 DEF Placed
    <2>3. i.seg >= next_seg_id_to_send /\ i.seg < fs.seg_id
        BY <2>1 DEF Placed
    <2>4. i.seg \notin next_seg_id_to_send .. m - 1
        BY <1>4, <2>2
    <2> QED BY <1>1, <1>3, <1>4, <2>1, <2>2, <2>3, <2>4
<1>8. \A k \in DOMAIN pending' : k >= m /\ k < fs.seg_id
    <2> SUFFICES ASSUME NEW k \in DOMAIN pending' PROVE k >= m /\ k < fs.seg_id
        OBVIOUS
    <2>1. k \in DOMAIN results /\ k \notin next_seg_id_to_send .. m - 1 /\ k \in Nat
        BY <1>1, <1>4, <1>5
    <2>2. k >= next_seg_id_to_send /\ k < fs.seg_id
        BY <1>5, <2>1 DEF Placed
    <2> QED BY <1>1, <1>3, <2>1, <2>2
<1>9. ASSUME NEW k \in Nat, k >= m, k < fs.seg_id
      PROVE  k \in DOMAIN pending' \/ \E i \in offline' : i.seg = k
    <2>1. k >= next_seg_id_to_send /\ k \notin next_seg_id_to_send .. m - 1
        BY <1>1, <1>3, <1>9
    <2>2. k \in DOMAIN pending \/ \E i \in offline : i.seg = k
        BY <1>9, <2>1 DEF Placed
    <2>3. CASE k \in DOMAIN pending \/ k = j.seg
        BY <1>4, <1>5, <2>1, <2>3
    <2>4. CASE k # j.seg /\ \E i \in offline : i.seg = k
        BY <1>6, <2>4
    <2> QED BY <2>2, <2>3, <2>4
<1>10. \A i, l \in offline' : i.seg = l.seg => i = l
    BY <1>6 DEF Placed
<1>11. Placed'
    BY <1>3, <1>4, <1>6, <1>7, <1>8, <1>9, <1>10 DEF Placed
<1>12. PointerWaits'
    BY <1>4 DEF PointerWaits
<1> QED BY <1>11, <1>12

PlaceInv == Placed /\ PointerWaits

LEMMA PlaceStep == TypeInv /\ PlaceInv /\ [Next]_vars => PlaceInv'
<1> SUFFICES ASSUME TypeInv, PlaceInv, [Next]_vars PROVE PlaceInv'
    OBVIOUS
<1>0. TypeOK /\ Placed /\ PointerWaits /\ fs \in FrameState
    BY DEF TypeInv, TypeOK, PlaceInv
<1>1. CASE UNCHANGED <<fs.seg_id, offline, next_seg_id_to_send, pending>>
    BY <1>0, <1>1 DEF PlaceInv, Placed, PointerWaits
<1>2. CASE \E spans \in VadReports, in_speech \in BOOLEAN, silence \in Silences :
               FinishFeed(spans, in_speech, silence)
    <2>1. PICK spans \in VadReports, in_speech \in BOOLEAN, silence \in Silences :
               FinishFeed(spans, in_speech, silence)
        BY <1>2
    <2>2. spans \in Seq(Nat \X Nat) /\ Len(spans) \in Nat
        BY VadReportsType
    <2> DEFINE g == AfterCuts(fs, Len(spans))
               f == OnlineCut(g, in_speech, silence)
    <2>3. g.seg_id = fs.seg_id + Len(spans) /\ g \in FrameState
        <3>1. fs.seg_id \in Nat
            BY <1>0 DEF FrameState
        <3>2. g.seg_id = fs.seg_id + Len(spans)
            BY <1>0, <2>2, <3>1 DEF AfterCuts, FrameState
        <3> QED BY <1>0, <2>2, <3>2, AfterCutsType DEF TypeInv
    <2> HIDE DEF g
    <2>4. f.seg_id = g.seg_id
        BY <2>3 DEF OnlineCut, FrameState
    <2>6. fs'.seg_id = f.seg_id
        <3>1. g \in FrameState /\ Shape(g)
            BY <1>0, <2>2, AfterCutsType DEF TypeInv, g
        <3>2. f \in FrameState
            BY <2>1, <3>1, OnlineCutType, SilencesAssumption
        <3>3. fs' = f \/ fs' = [f EXCEPT !.online_busy = TRUE,
                                         !.online_last_trigger = f.online_total]
            BY <2>1 DEF FinishFeed, f, g
        <3> HIDE DEF f
        <3> QED BY <3>2, <3>3 DEF FrameState
    <2>7. TriggerOffline(spans) /\ UNCHANGED <<next_seg_id_to_send, pending>>
        BY <2>1 DEF FinishFeed, reorder
    <2>8. Placed'
        BY <1>0, <2>2, <2>3, <2>4, <2>6, <2>7, PlacedTrigger
    <2> QED BY <1>0, <2>7, <2>8 DEF PlaceInv, PointerWaits
<1>3. CASE \E tail \in VadSpans \cup {<<>>} : Flush(tail)
    <2>1. PICK tail \in VadSpans \cup {<<>>} : Flush(tail)
        BY <1>3
    <2>2. CASE NothingLeft(tail)
        BY <1>1, <2>1, <2>2 DEF Flush, reorder
    <2>3. CASE ~NothingLeft(tail)
        <3> DEFINE last == IF tail = <<>> THEN <<0, fs.online_total>> ELSE tail
        <3>1. fs.online_total \in Nat /\ fs.seg_id \in Nat
            BY <1>0 DEF FrameState
        <3>2. last \in Nat \X Nat
            BY <3>1, VadSpansAssumption
        <3>3. /\ TriggerOffline(<<last>>)
              /\ fs' = AfterCuts(fs, 1)
              /\ UNCHANGED <<next_seg_id_to_send, pending>>
            BY <2>1, <2>3 DEF Flush
        <3> HIDE DEF last
        <3>4. <<last>> \in Seq(Nat \X Nat) /\ Len(<<last>>) = 1
            BY <3>2
        <3>5. fs'.seg_id = fs.seg_id + 1
            BY <1>0, <3>3 DEF AfterCuts, FrameState
        <3>6. Placed'
            BY <1>0, <3>3, <3>4, <3>5, PlacedTrigger
        <3> QED BY <1>0, <3>3, <3>6 DEF PlaceInv, PointerWaits
    <2> QED BY <2>2, <2>3
<1>4. CASE \E n \in FrameSizes : \E m \in Denoised(n) : ReceiveFrame(n, m)
    <2>1. fs'.seg_id = fs.seg_id
        BY <1>0, <1>4 DEF ReceiveFrame, Buffered, FrameState
    <2> QED BY <1>1, <1>4, <2>1 DEF ReceiveFrame, reorder, taskVars
<1>5. CASE OnlineStep
    <2>1. fs'.seg_id = fs.seg_id
        BY <1>0, <1>5 DEF OnlineStep, OnlineDone, FrameState
    <2> QED BY <1>1, <1>5, <2>1 DEF OnlineStep, OnlineDone, reorder
<1>6. CASE OfflineStep
    BY <1>0, <1>6, PlacedOfflineDone DEF OfflineStep, PlaceInv
<1>7. CASE SenderStep \/ UNCHANGED vars
    BY <1>1, <1>7 DEF SenderStep, SenderSend, SenderFinish, vars, taskVars, reorder
<1> QED BY <1>1, <1>2, <1>3, <1>4, <1>5, <1>6, <1>7
        DEF Next, HandlerStep, ClientStep, HandshakeFail, StreamClosed, Gather, Join,
            CleanUp, ReceiveEmptyFrame, ReceiveEndFrame, Abort, ClientDrop, taskVars,
            reorder

LEMMA PlaceInvInit == Init => PlaceInv
<1>1. Init => PointerWaits
    BY DEF Init, NewFrameState, PointerWaits
<1> QED BY <1>1, PlacedInit DEF PlaceInv

\* Every closed segment is running, held or released, and only one of them,
\* for every order in which recognitions return.
THEOREM SegmentsAreConserved == Spec => []SegmentConservation
<1>1. TypeInv /\ PlaceInv => SegmentConservation
    BY PlacedConserves DEF TypeInv, PlaceInv
<1> QED BY <1>1, TypeInit, TypeStep, PlaceInvInit, PlaceStep, PTL DEF Spec

\* The release loop has always run to its end.
THEOREM PointerAlwaysWaits == Spec => []PointerWaits
<1>1. PlaceInv => PointerWaits
    BY DEF PlaceInv
<1> QED BY <1>1, TypeInit, TypeStep, PlaceInvInit, PlaceStep, PTL DEF Spec

-----------------------------------------------------------------------------
(* The order of the queue *)

\* A queued sentence has been passed by the release pointer.
QueueBehindPointer ==
    \A i \in DOMAIN out : IsSentence(out[i]) => out[i].seg < next_seg_id_to_send

QueueInv == QueueBehindPointer /\ SentencesInOrder /\ NoLateProgressive

\* Appending an item of the open segment, or the sentinel.
LEMMA QueueAppend ==
    ASSUME TypeOK, Placed, QueueInv, NEW item, ~IsSentence(item),
           IsProgressive(item) => item.seg = fs.seg_id,
           out' = Append(out, item),
           next_seg_id_to_send' = next_seg_id_to_send
    PROVE  QueueInv'
<1>1. /\ DOMAIN out' = 1 .. Len(out) + 1
      /\ out'[Len(out) + 1] = item
      /\ \A i \in DOMAIN out : out'[i] = out[i]
      /\ DOMAIN out = 1 .. Len(out) /\ Len(out) \in Nat
    BY DEF TypeOK
<1>2. \A i \in DOMAIN out' : i \in DOMAIN out \/ out'[i] = item
    BY <1>1
<1>3. QueueBehindPointer'
    BY <1>1, <1>2 DEF QueueInv, QueueBehindPointer
<1>4. SentencesInOrder'
    BY <1>1, <1>2 DEF QueueInv, SentencesInOrder
<1>5. \A i \in DOMAIN out : IsSentence(out[i]) => out[i].seg < fs.seg_id
    <2> SUFFICES ASSUME NEW i \in DOMAIN out, IsSentence(out[i])
                 PROVE  out[i].seg < fs.seg_id
        OBVIOUS
    <2>1. out[i] \in Message
        BY DEF TypeOK, IsSentence, FINALIZE_SENTINEL
    <2>2. out[i].seg \in Nat /\ fs.seg_id \in Nat /\ next_seg_id_to_send \in Nat
        BY <2>1 DEF TypeOK, FrameState, Message
    <2> QED BY <2>2 DEF QueueInv, QueueBehindPointer, Placed
<1>6. NoLateProgressive'
    BY <1>1, <1>2, <1>5 DEF QueueInv, NoLateProgressive
<1> QED BY <1>3, <1>4, <1>6 DEF QueueInv

\* What a turn of the release loop adds to the queue.
Queued(count, batch) ==
    /\ DOMAIN out' = 1 .. Len(out) + count
    /\ Len(out) \in Nat /\ DOMAIN out = 1..Len(out)
    /\ \A i \in 1..Len(out) : out'[i] = out[i]
    /\ \A i \in Len(out) + 1 .. Len(out) + count :
          /\ i - Len(out) \in 1..count
          /\ out'[i].type = "sentence" /\ out'[i].seg = batch[i - Len(out)]
          /\ out'[i].final = (batch[i - Len(out)] = final_seg_id)

LEMMA ReleaseItems ==
    ASSUME TypeOK, NEW results, NEW m \in Nat, NEW count \in Nat,
           NEW batch \in [1..count -> next_seg_id_to_send .. m - 1],
           Release(results, m, count, batch)
    PROVE  Queued(count, batch)
<1> DEFINE sentences == [i \in 1..count |-> Sentence(batch[i], results[batch[i]])]
           items == Message \cup {FINALIZE_SENTINEL} \cup {sentences[i] : i \in 1..count}
<1>1. out' = out \o sentences
    BY DEF Release
<1>2. /\ Len(sentences) = count
      /\ \A i \in 1..count : sentences[i].seg = batch[i] /\ sentences[i].type = "sentence"
    BY DEF Sentence
<1>7. \A i \in 1..count : sentences[i].final = (batch[i] = final_seg_id)
    BY DEF Sentence
<1>3. Len(out) \in Nat /\ DOMAIN out = 1..Len(out)
    BY DEF TypeOK
<1>4. sentences \in Seq(items) /\ out \in Seq(items)
    <2>1. \A i \in 1..count : sentences[i] \in items
        OBVIOUS
    <2>2. \A i \in 1..Len(out) : out[i] \in items
        BY DEF TypeOK
    <2>3. sentences \in [1..count -> items]
        BY <2>1
    <2> HIDE DEF items, sentences
    <2>4. sentences \in Seq(items)
        BY <2>3
    <2>5. out \in Seq(items)
        <3>1. out \in [1..Len(out) -> items] /\ Len(out) \in Nat
            BY <2>2 DEF TypeOK
        <3> QED BY <3>1
    <2> QED BY <2>4, <2>5
<1> HIDE DEF items, sentences
<1>5. /\ DOMAIN out' = 1 .. Len(out) + count
      /\ \A i \in 1..Len(out) : out'[i] = out[i]
      /\ \A i \in Len(out) + 1 .. Len(out) + count : out'[i] = sentences[i - Len(out)]
    BY <1>1, <1>2, <1>3, <1>4, ConcatProperties
<1>6. \A i \in Len(out) + 1 .. Len(out) + count : i - Len(out) \in 1..count
    BY <1>3
<1>8. ASSUME NEW i \in Len(out) + 1 .. Len(out) + count
      PROVE  /\ out'[i].type = "sentence" /\ out'[i].seg = batch[i - Len(out)]
             /\ out'[i].final = (batch[i - Len(out)] = final_seg_id)
    <2> DEFINE k == i - Len(out)
    <2>1. k \in 1..count /\ out'[i] = sentences[k]
        BY <1>5, <1>6
    <2> HIDE DEF k
    <2>2. /\ out'[i].seg = batch[k] /\ out'[i].type = "sentence"
          /\ out'[i].final = (batch[k] = final_seg_id)
        BY <1>2, <1>7, <2>1
    <2> QED BY <2>2 DEF k
<1> QED BY <1>3, <1>5, <1>6, <1>8 DEF Queued

LEMMA QueueRelease ==
    ASSUME TypeOK, QueueInv, NEW results, NEW m \in Nat, NEW count \in Nat,
           next_seg_id_to_send <= m,
           NEW batch \in [1..count -> next_seg_id_to_send .. m - 1],
           Release(results, m, count, batch)
    PROVE  QueueInv'
<1>1. next_seg_id_to_send' = m
    BY DEF Release
<1>3. next_seg_id_to_send \in Nat /\ Len(out) \in Nat /\ DOMAIN out = 1..Len(out)
    BY DEF TypeOK
<1>2. Queued(count, batch)
    BY ReleaseItems
<1>4. /\ DOMAIN out' = 1 .. Len(out) + count
      /\ \A i \in 1..Len(out) : out'[i] = out[i]
    BY <1>2 DEF Queued
<1>5. \A i \in Len(out) + 1 .. Len(out) + count :
         /\ i - Len(out) \in 1..count
         /\ out'[i].type = "sentence" /\ out'[i].seg = batch[i - Len(out)]
    BY <1>2 DEF Queued
<1>6. \A i \in 1..count : batch[i] \in Nat /\ batch[i] >= next_seg_id_to_send /\ batch[i] < m
    BY <1>3
<1>7. \A i \in DOMAIN out : IsSentence(out[i])
         => out[i].seg < next_seg_id_to_send /\ out[i].seg \in Nat
    <2> SUFFICES ASSUME NEW i \in DOMAIN out, IsSentence(out[i])
                 PROVE  out[i].seg < next_seg_id_to_send /\ out[i].seg \in Nat
        OBVIOUS
    <2>1. out[i] \in Message
        BY DEF TypeOK, IsSentence, FINALIZE_SENTINEL
    <2> QED BY <2>1 DEF QueueInv, QueueBehindPointer, Message
<1>8. \A i \in DOMAIN out' : i \in DOMAIN out \/ i \in Len(out) + 1 .. Len(out) + count
    BY <1>3, <1>4
<1>9. QueueBehindPointer'
    <2> SUFFICES ASSUME NEW i \in DOMAIN out', IsSentence(out'[i])
                 PROVE  out'[i].seg < m
        BY <1>1 DEF QueueBehindPointer, IsSentence
    <2>1. CASE i \in DOMAIN out
        BY <1>3, <1>4, <1>7, <2>1
    <2>2. CASE i \in Len(out) + 1 .. Len(out) + count
        BY <1>5, <1>6, <2>2
    <2> QED BY <1>8, <2>1, <2>2
<1>10. SentencesInOrder'
    <2> SUFFICES ASSUME NEW i \in DOMAIN out', NEW j \in DOMAIN out', i < j,
                        IsSentence(out'[i]), IsSentence(out'[j])
                 PROVE  out'[i].seg < out'[j].seg
        BY DEF SentencesInOrder, IsSentence
    <2>1. CASE j \in DOMAIN out
        <3>1. i \in DOMAIN out
            BY <1>3, <1>4, <2>1
        <3> QED BY <1>3, <1>4, <2>1, <3>1 DEF QueueInv, SentencesInOrder
    <2>2. CASE i \in DOMAIN out /\ j \in Len(out) + 1 .. Len(out) + count
        BY <1>3, <1>4, <1>5, <1>6, <1>7, <2>2
    <2>3. CASE i \in Len(out) + 1 .. Len(out) + count
                 /\ j \in Len(out) + 1 .. Len(out) + count
        <3>1. batch[i - Len(out)] < batch[j - Len(out)]
            <4>1. \A a, b \in DOMAIN batch : a < b => batch[a] < batch[b]
                BY DEF Release, Enumerates
            <4>2. i - Len(out) \in 1..count /\ j - Len(out) \in 1..count
                BY <1>5, <2>3
            <4>3. i - Len(out) < j - Len(out)
                BY <1>3, <2>3
            <4>4. DOMAIN batch = 1..count
                OBVIOUS
            <4> QED BY <4>1, <4>2, <4>3, <4>4
        <3> QED BY <1>5, <2>3, <3>1
    <2> QED BY <1>8, <2>1, <2>2, <2>3
<1>11. NoLateProgressive'
    <2> SUFFICES ASSUME NEW i \in DOMAIN out', NEW j \in DOMAIN out', i < j,
                        IsSentence(out'[i]), IsProgressive(out'[j])
                 PROVE  out'[i].seg < out'[j].seg
        BY DEF NoLateProgressive, IsSentence, IsProgressive
    <2>1. j \in DOMAIN out
        BY <1>5, <1>8 DEF IsProgressive
    <2>2. i \in DOMAIN out
        BY <1>3, <1>4, <2>1
    <2> QED BY <1>3, <1>4, <2>1, <2>2 DEF QueueInv, NoLateProgressive
<1> QED BY <1>9, <1>10, <1>11 DEF QueueInv

LEMMA QueueStep ==
    TypeInv /\ OnlineBusyExact /\ PlaceInv /\ QueueInv /\ [Next]_vars => QueueInv'
<1> SUFFICES ASSUME TypeInv, OnlineBusyExact, PlaceInv, QueueInv, [Next]_vars
             PROVE  QueueInv'
    OBVIOUS
<1>0. TypeOK /\ Placed
    BY DEF TypeInv, PlaceInv
<1>1. CASE UNCHANGED <<out, next_seg_id_to_send>>
    BY <1>1 DEF QueueInv, QueueBehindPointer, SentencesInOrder, NoLateProgressive
<1>2. CASE Gather
    <2>1. /\ ~IsSentence(FINALIZE_SENTINEL) /\ ~IsProgressive(FINALIZE_SENTINEL)
          /\ out' = Append(out, FINALIZE_SENTINEL)
          /\ next_seg_id_to_send' = next_seg_id_to_send
        BY <1>2 DEF Gather, reorder, IsSentence, IsProgressive, FINALIZE_SENTINEL
    <2> QED BY <1>0, <2>1, QueueAppend
<1>3. CASE OnlineStep
    <2>1. PICK t \in online, has_text \in BOOLEAN : OnlineDone(t, has_text)
        BY <1>3 DEF OnlineStep
    <2>2. CASE has_text /\ Current(t)
        <3> DEFINE item == [seg |-> t.seg, type |-> "Progressive",
                            text |-> fs.online_accumulated_text
                                       \o <<[seg |-> t.seg, epoch |-> t.epoch]>>,
                            bg |-> t.bg, ed |-> t.ed, final |-> FALSE]
        <3>1. /\ out' = Append(out, item)
              /\ next_seg_id_to_send' = next_seg_id_to_send
            BY <2>1, <2>2 DEF OnlineDone, reorder
        <3>2. ~IsSentence(item) /\ item.seg = t.seg
            BY DEF IsSentence
        <3>3. t.seg = fs.seg_id
            BY <2>2 DEF OnlineBusyExact, Current
        <3> HIDE DEF item
        <3> QED BY <1>0, <3>1, <3>2, <3>3, QueueAppend
    <2>3. CASE ~(has_text /\ Current(t))
        BY <1>1, <2>1, <2>3 DEF OnlineDone, reorder
    <2> QED BY <2>2, <2>3
<1>4. CASE OfflineStep
    <2>1. PICK j \in offline, has_text \in BOOLEAN : OfflineDone(j, has_text)
        BY <1>4 DEF OfflineStep
    <2> DEFINE entry == IF has_text THEN [text |-> TRUE, bg |-> j.bg, ed |-> j.ed]
                        ELSE [text |-> FALSE, bg |-> 0, ed |-> 0]
    <2>2. AdvanceReorderPointer(j.seg, entry)
        BY <2>1 DEF OfflineDone
    <2>3. j.seg \in Nat
        BY <1>0 DEF TypeOK, OfflineJob
    <2> HIDE DEF entry
    <2>4. PICK m \in Nat, count \in Nat :
             /\ next_seg_id_to_send <= m
             /\ \E batch \in [1..count -> next_seg_id_to_send .. m - 1] :
                   Release(Recorded(j.seg, entry), m, count, batch)
        BY <1>0, <2>2, <2>3, Advance
    <2> QED BY <1>0, <2>4, QueueRelease
<1>5. CASE SenderStep \/ UNCHANGED vars
    BY <1>1, <1>5 DEF SenderStep, SenderSend, SenderFinish, vars, reorder
<1>6. CASE ClientStep
    BY <1>1, <1>6 DEF ClientStep, ReceiveEmptyFrame, ReceiveFrame, ReceiveEndFrame,
                      Abort, ClientDrop, reorder
<1>7. CASE HandlerStep /\ ~Gather
    BY <1>1, <1>7 DEF HandlerStep, HandshakeFail, FinishFeed, StreamClosed, Flush,
                      Join, CleanUp, reorder
<1> QED BY <1>2, <1>3, <1>4, <1>5, <1>6, <1>7 DEF Next

LEMMA QueueInit == Init => QueueInv
BY DEF Init, NewFrameState, QueueInv, QueueBehindPointer, SentencesInOrder, NoLateProgressive

LEMMA QueueAlways == Spec => []QueueInv
<1>1. Init => OnlineBusyExact
    BY DEF Init, NewFrameState, OnlineBusyExact
<1> QED BY <1>1, TypeInit, TypeStep, BusyStep, PlaceInvInit, PlaceStep, QueueInit,
           QueueStep, PTL DEF Spec

\* Sentences are queued in segment order, each at most once, for every order
\* in which their recognitions return.
THEOREM SentencesAreInOrder == Spec => []SentencesInOrder
<1>1. QueueInv => SentencesInOrder
    BY DEF QueueInv
<1> QED BY <1>1, QueueAlways, PTL

\* No intermediate text of a segment is queued behind its sentence, however
\* late its request returns.
THEOREM NoProgressiveIsLate == Spec => []NoLateProgressive
<1>1. QueueInv => NoLateProgressive
    BY DEF QueueInv
<1> QED BY <1>1, QueueAlways, PTL

-----------------------------------------------------------------------------
(* The order of the intermediate texts *)

LEMMA MsMonotone ==
    ASSUME NEW m \in Nat, NEW n \in Nat, m <= n PROVE Ms(m) <= Ms(n)
BY SamplesPerMsAssumption DEF Ms

\* No task and no queued text is about more than the audio of f, and nothing
\* queued is ahead of a task that may still queue a text.
Behind(f, tasks, queue) ==
    /\ \A t \in tasks : t.ed <= Ms(f.abs_samples)
    /\ \A i \in DOMAIN queue : IsProgressive(queue[i]) =>
          /\ queue[i].seg <= f.seg_id
          /\ queue[i].ed <= Ms(f.abs_samples)
          /\ \A t \in tasks : t.epoch = f.online_epoch =>
                queue[i].seg < t.seg \/ (queue[i].seg = t.seg /\ queue[i].ed <= t.ed)

AnswerInv == Behind(fs, online, out) /\ ProgressivesOrdered

LEMMA AfterCutsFields ==
    ASSUME NEW f \in FrameState, NEW count \in Nat
    PROVE  /\ AfterCuts(f, count).abs_samples = f.abs_samples
           /\ AfterCuts(f, count).seg_id = f.seg_id + count
           /\ AfterCuts(f, count).online_epoch = f.online_epoch + count
<1>1. f.seg_id \in Nat /\ f.online_epoch \in Nat
    BY DEF FrameState
<1>2. CASE count = 0
    BY <1>1, <1>2 DEF AfterCuts
<1>3. CASE count # 0
    BY <1>3 DEF AfterCuts, FrameState
<1> QED BY <1>2, <1>3

\* More audio and more cuts leave behind what is behind; only a cut changes
\* the epoch, and it overtakes every task.
LEMMA BehindLater ==
    ASSUME NEW f \in FrameState, NEW g \in FrameState,
           NEW tasks \in SUBSET OnlineTask, Exact(f, tasks),
           NEW queue \in Seq(Message \cup {FINALIZE_SENTINEL}),
           Behind(f, tasks, queue),
           f.abs_samples <= g.abs_samples, f.seg_id <= g.seg_id,
           f.online_epoch <= g.online_epoch
    PROVE  Behind(g, tasks, queue)
<1>1. /\ f.abs_samples \in Nat /\ g.abs_samples \in Nat
      /\ f.seg_id \in Nat /\ g.seg_id \in Nat
      /\ f.online_epoch \in Nat /\ g.online_epoch \in Nat
    BY DEF FrameState
<1>2. Ms(f.abs_samples) <= Ms(g.abs_samples)
    BY <1>1, MsMonotone
<1>3. Ms(f.abs_samples) \in Nat /\ Ms(g.abs_samples) \in Nat
    BY <1>1, MsType
<1>4. ASSUME NEW t \in tasks
      PROVE  /\ t.ed <= Ms(g.abs_samples)
             /\ t.epoch = g.online_epoch => t.epoch = f.online_epoch
    <2>1. t.ed \in Nat /\ t.epoch \in Nat
        BY DEF OnlineTask
    <2>2. t.ed <= Ms(f.abs_samples) /\ t.epoch <= f.online_epoch
        BY DEF Behind, Exact
    <2> QED BY <1>1, <1>2, <1>3, <2>1, <2>2
<1>5. ASSUME NEW i \in DOMAIN queue, IsProgressive(queue[i])
      PROVE  queue[i].seg <= g.seg_id /\ queue[i].ed <= Ms(g.abs_samples)
    <2>1. queue[i] \in Message
        BY <1>5 DEF IsProgressive, FINALIZE_SENTINEL
    <2>2. queue[i].seg \in Nat /\ queue[i].ed \in Nat
        BY <2>1 DEF Message
    <2>3. queue[i].seg <= f.seg_id /\ queue[i].ed <= Ms(f.abs_samples)
        BY <1>5 DEF Behind
    <2>4. queue[i].seg <= g.seg_id
        BY <1>1, <2>2, <2>3
    <2>5. queue[i].ed <= Ms(g.abs_samples)
        BY <1>2, <1>3, <2>2, <2>3
    <2> QED BY <2>4, <2>5
<1> QED BY <1>4, <1>5 DEF Behind

\* A new request is about all the audio there is.
LEMMA BehindRequest ==
    ASSUME NEW f \in FrameState, NEW tasks \in SUBSET OnlineTask,
           NEW queue \in Seq(Message \cup {FINALIZE_SENTINEL}),
           Behind(f, tasks, queue)
    PROVE  Behind(f, tasks \cup {OnlineRequest(f)}, queue)
<1> DEFINE r == OnlineRequest(f)
<1>1. r.ed = Ms(f.abs_samples) /\ r.seg = f.seg_id
    BY DEF OnlineRequest
<1>2. r.ed \in Nat /\ r.seg \in Nat
    BY <1>1, MsType DEF FrameState
<1> HIDE DEF r
<1>3. ASSUME NEW i \in DOMAIN queue, IsProgressive(queue[i])
      PROVE  queue[i].seg < r.seg \/ (queue[i].seg = r.seg /\ queue[i].ed <= r.ed)
    <2>1. queue[i] \in Message
        BY <1>3 DEF IsProgressive, FINALIZE_SENTINEL
    <2>2. queue[i].seg \in Nat
        BY <2>1 DEF Message
    <2> QED BY <1>1, <1>2, <1>3, <2>2 DEF Behind
<1>4. r.ed <= Ms(f.abs_samples)
    BY <1>1, <1>2
<1>5. Behind(f, tasks \cup {r}, queue)
    BY <1>3, <1>4 DEF Behind
<1> QED BY <1>5 DEF r

\* The only task that queues a text is the one of the current epoch, and no
\* other task of that epoch is left to queue one behind it.
LEMMA AnswerQueued ==
    ASSUME TypeOK, OnlineBusyExact, AnswerInv, NEW t \in online, NEW has_text \in BOOLEAN,
           OnlineDone(t, has_text)
    PROVE  AnswerInv'
<1>1. /\ fs'.abs_samples = fs.abs_samples
      /\ fs'.online_epoch = fs.online_epoch
      /\ fs'.seg_id = fs.seg_id
      /\ online' = online \ {t}
    BY DEF OnlineDone, TypeOK, FrameState
<1>2. CASE ~(has_text /\ Current(t))
    <2>1. out' = out
        BY <1>2 DEF OnlineDone
    <2> QED BY <1>1, <2>1 DEF AnswerInv, Behind, ProgressivesOrdered, IsProgressive
<1>3. CASE has_text /\ Current(t)
    <2> DEFINE item == [seg |-> t.seg, type |-> "Progressive",
                        text |-> fs.online_accumulated_text
                                   \o <<[seg |-> t.seg, epoch |-> t.epoch]>>,
                        bg |-> t.bg, ed |-> t.ed, final |-> FALSE]
    <2>1. out' = Append(out, item)
        BY <1>3 DEF OnlineDone
    <2>2. item.seg = t.seg /\ item.ed = t.ed
        OBVIOUS
    <2> HIDE DEF item
    <2>3. /\ DOMAIN out' = 1 .. Len(out) + 1
          /\ out'[Len(out) + 1] = item
          /\ \A i \in DOMAIN out : out'[i] = out[i]
          /\ DOMAIN out = 1 .. Len(out) /\ Len(out) \in Nat
        BY <2>1 DEF TypeOK
    <2>4. t.epoch = fs.online_epoch /\ t.seg = fs.seg_id /\ t.ed \in Nat /\ t.seg \in Nat
        BY <1>3 DEF Current, OnlineBusyExact, TypeOK, OnlineTask
    <2>5. t.ed <= Ms(fs.abs_samples)
        BY DEF AnswerInv, Behind
    <2>6. \A u \in online' : u.epoch # fs.online_epoch
        BY <1>1, <2>4 DEF OnlineBusyExact
    <2>7. \A i \in DOMAIN out : IsProgressive(out[i])
             => out[i].seg < item.seg \/ (out[i].seg = item.seg /\ out[i].ed <= item.ed)
        BY <2>2, <2>4 DEF AnswerInv, Behind
    <2>8. Behind(fs, online', out')
        <3>1. ASSUME NEW i \in DOMAIN out', IsProgressive(out'[i])
              PROVE  out'[i].seg <= fs.seg_id /\ out'[i].ed <= Ms(fs.abs_samples)
            <4>1. CASE i \in DOMAIN out
                BY <2>3, <3>1, <4>1 DEF AnswerInv, Behind
            <4>2. CASE i = Len(out) + 1
                BY <2>2, <2>3, <2>4, <2>5, <4>2
            <4> QED BY <2>3, <4>1, <4>2
        <3> QED BY <1>1, <2>6, <3>1 DEF AnswerInv, Behind
    <2>9. ProgressivesOrdered'
        <3> SUFFICES ASSUME NEW i \in DOMAIN out', NEW j \in DOMAIN out', i < j,
                            IsProgressive(out'[i]), IsProgressive(out'[j])
                     PROVE  out'[i].seg < out'[j].seg
                              \/ (out'[i].seg = out'[j].seg /\ out'[i].ed <= out'[j].ed)
            BY DEF ProgressivesOrdered, IsProgressive
        <3>1. i \in DOMAIN out
            BY <2>3
        <3>2. CASE j \in DOMAIN out
            BY <2>3, <3>1, <3>2 DEF AnswerInv, ProgressivesOrdered
        <3>3. CASE j = Len(out) + 1
            BY <2>3, <2>7, <3>1, <3>3
        <3> QED BY <2>3, <3>2, <3>3
    <2> QED BY <1>1, <2>8, <2>9 DEF AnswerInv, Behind, IsProgressive
<1> QED BY <1>2, <1>3

\* What is queued for a task that is gone, or for no task, is no intermediate text.
LEMMA AnswersUntouched ==
    ASSUME AnswerInv, UNCHANGED <<fs, online>>,
           NEW n \in Nat, DOMAIN out = 1 .. n, DOMAIN out \subseteq DOMAIN out',
           \A i \in DOMAIN out : out'[i] = out[i],
           \A i \in DOMAIN out' : i \in DOMAIN out \/ ~IsProgressive(out'[i])
    PROVE  AnswerInv'
<1>1. \A i \in DOMAIN out' : IsProgressive(out'[i]) => i \in DOMAIN out /\ out'[i] = out[i]
    OBVIOUS
<1>2. Behind(fs, online, out')
    BY <1>1 DEF AnswerInv, Behind
<1>3. ProgressivesOrdered'
    BY <1>1 DEF AnswerInv, ProgressivesOrdered, IsProgressive
<1> QED BY <1>2, <1>3 DEF AnswerInv, Behind, IsProgressive

LEMMA AnswerStep ==
    TypeInv /\ TypeInv' /\ OnlineBusyExact /\ AnswerInv /\ [Next]_vars => AnswerInv'
<1> SUFFICES ASSUME TypeInv, TypeInv', OnlineBusyExact, AnswerInv, [Next]_vars
             PROVE  AnswerInv'
    OBVIOUS
<1>0. /\ TypeOK /\ fs \in FrameState /\ fs' \in FrameState
      /\ online \in SUBSET OnlineTask /\ Exact(fs, online)
      /\ out \in Seq(Message \cup {FINALIZE_SENTINEL})
      /\ fs.abs_samples \in Nat /\ fs.seg_id \in Nat /\ fs.online_epoch \in Nat
    BY DEF TypeInv, TypeOK, OnlineBusyExact, Exact, FrameState
<1>a. ASSUME Behind(fs', online', out), out' = out PROVE AnswerInv'
    BY <1>a DEF AnswerInv, Behind, ProgressivesOrdered, IsProgressive
<1>1. CASE UNCHANGED <<fs, online, out>>
    BY <1>1 DEF AnswerInv, Behind, ProgressivesOrdered, IsProgressive
<1>2. CASE \E spans \in VadReports, in_speech \in BOOLEAN, silence \in Silences :
               FinishFeed(spans, in_speech, silence)
    <2>1. PICK spans \in VadReports, in_speech \in BOOLEAN, silence \in Silences :
               FinishFeed(spans, in_speech, silence)
        BY <1>2
    <2> DEFINE g == AfterCuts(fs, Len(spans))
               f == OnlineCut(g, in_speech, silence)
    <2>2. Len(spans) \in Nat /\ silence \in Nat
        BY VadReportsType, SilencesAssumption
    <2>3. g \in FrameState /\ Shape(g)
        BY <1>0, <2>2, AfterCutsType DEF TypeInv
    <2>4. /\ g.abs_samples = fs.abs_samples /\ g.seg_id >= fs.seg_id
          /\ g.online_epoch >= fs.online_epoch
        <3>1. /\ g.abs_samples = fs.abs_samples
              /\ g.seg_id = fs.seg_id + Len(spans)
              /\ g.online_epoch = fs.online_epoch + Len(spans)
            BY <1>0, <2>2, AfterCutsFields
        <3> HIDE DEF g
        <3> QED BY <1>0, <2>2, <3>1
    <2> HIDE DEF g
    <2>5. f \in FrameState
        BY <2>2, <2>3, OnlineCutType
    <2>6. /\ f.abs_samples = g.abs_samples /\ f.seg_id = g.seg_id
          /\ f.online_epoch >= g.online_epoch
        BY <2>3 DEF OnlineCut, FrameState
    <2>7. \/ online' = online \cup {OnlineRequest(f)}
               /\ fs' = [f EXCEPT !.online_busy = TRUE,
                                  !.online_last_trigger = f.online_total]
          \/ online' = online /\ fs' = f
        BY <2>1 DEF FinishFeed, f, g
    <2>8. out' = out
        BY <2>1 DEF FinishFeed
    <2> HIDE DEF f
    <2>9. /\ f.online_epoch >= fs.online_epoch /\ f.seg_id >= fs.seg_id
          /\ f.abs_samples >= fs.abs_samples
        <3>1. f.online_epoch \in Nat /\ g.online_epoch \in Nat
            BY <2>3, <2>5 DEF FrameState
        <3> QED BY <1>0, <2>4, <2>6, <3>1
    <2>10. Behind(f, online, out)
        BY <1>0, <2>5, <2>9, BehindLater DEF AnswerInv
    <2>11. Behind(f, online', out)
        BY <1>0, <2>5, <2>7, <2>10, BehindRequest
    <2>12. /\ fs'.abs_samples = f.abs_samples /\ fs'.seg_id = f.seg_id
           /\ fs'.online_epoch = f.online_epoch
        BY <2>5, <2>7 DEF FrameState
    <2>13. Behind(fs', online', out)
        BY <2>11, <2>12 DEF Behind
    <2> QED BY <1>a, <2>8, <2>13
<1>3. CASE \E tail \in VadSpans \cup {<<>>} : Flush(tail)
    <2>1. fs' = fs \/ fs' = AfterCuts(fs, 1)
        BY <1>3 DEF Flush
    <2>2. online' = online /\ out' = out
        BY <1>3 DEF Flush
    <2>3. /\ fs'.abs_samples >= fs.abs_samples /\ fs'.seg_id >= fs.seg_id
          /\ fs'.online_epoch >= fs.online_epoch
        <3>1. CASE fs' = fs
            BY <1>0, <3>1
        <3>2. CASE fs' = AfterCuts(fs, 1)
            <4>1. /\ fs'.abs_samples = fs.abs_samples
                  /\ fs'.seg_id = fs.seg_id + 1
                  /\ fs'.online_epoch = fs.online_epoch + 1
                BY <1>0, <3>2, AfterCutsFields
            <4> QED BY <1>0, <4>1
        <3> QED BY <2>1, <3>1, <3>2
    <2>4. Behind(fs', online, out)
        BY <1>0, <2>3, BehindLater DEF AnswerInv
    <2> QED BY <1>a, <2>2, <2>4
<1>4. CASE \E n \in FrameSizes : \E m \in Denoised(n) : ReceiveFrame(n, m)
    <2>1. PICK n \in FrameSizes : \E m \in Denoised(n) : ReceiveFrame(n, m)
        BY <1>4
    <2>2. PICK m \in Denoised(n) : ReceiveFrame(n, m)
        BY <2>1
    <2>3. m \in Nat
        BY <1>0, FrameSizesAssumption DEF Denoised, TypeOK
    <2>4. /\ fs'.abs_samples >= fs.abs_samples /\ fs'.seg_id = fs.seg_id
          /\ fs'.online_epoch = fs.online_epoch
        <3>1. fs' = Buffered(fs, m)
            BY <2>2 DEF ReceiveFrame
        <3>2. fs.abs_samples \in Nat
            BY <1>0 DEF FrameState
        <3>3. /\ fs'.abs_samples = fs.abs_samples + m /\ fs'.seg_id = fs.seg_id
              /\ fs'.online_epoch = fs.online_epoch
            BY <1>0, <3>1 DEF Buffered, FrameState
        <3> QED BY <2>3, <3>2, <3>3
    <2>5. online' = online /\ out' = out
        BY <2>2 DEF ReceiveFrame, taskVars
    <2>6. Behind(fs', online, out)
        BY <1>0, <2>4, BehindLater DEF AnswerInv
    <2> QED BY <1>a, <2>5, <2>6
<1>5. CASE OnlineStep
    BY <1>0, <1>5, AnswerQueued DEF OnlineStep
<1>6. CASE OfflineStep
    <2>1. PICK j \in offline, has_text \in BOOLEAN : OfflineDone(j, has_text)
        BY <1>6 DEF OfflineStep
    <2> DEFINE entry == IF has_text THEN [text |-> TRUE, bg |-> j.bg, ed |-> j.ed]
                        ELSE [text |-> FALSE, bg |-> 0, ed |-> 0]
    <2>2. AdvanceReorderPointer(j.seg, entry) /\ j.seg \in Nat
        BY <1>0, <2>1 DEF OfflineDone, TypeOK, OfflineJob
    <2>3. UNCHANGED <<fs, online>>
        BY <2>1 DEF OfflineDone
    <2> HIDE DEF entry
    <2>4. PICK m \in Nat, count \in Nat :
             \E batch \in [1..count -> next_seg_id_to_send .. m - 1] :
                Release(Recorded(j.seg, entry), m, count, batch)
        BY <1>0, <2>2, Advance
    <2>5. PICK batch \in [1..count -> next_seg_id_to_send .. m - 1] :
             Release(Recorded(j.seg, entry), m, count, batch)
        BY <2>4
    <2>6. Queued(count, batch)
        BY <1>0, <2>5, ReleaseItems
    <2>7. /\ Len(out) \in Nat /\ DOMAIN out = 1 .. Len(out)
          /\ DOMAIN out \subseteq DOMAIN out'
          /\ \A i \in DOMAIN out : out'[i] = out[i]
        BY <2>6 DEF Queued
    <2>8. \A i \in DOMAIN out' : i \in DOMAIN out \/ ~IsProgressive(out'[i])
        BY <2>6 DEF Queued, IsProgressive
    <2> QED BY <2>3, <2>7, <2>8, AnswersUntouched
<1>7. CASE Gather
    <2>1. out' = Append(out, FINALIZE_SENTINEL) /\ UNCHANGED <<fs, online>>
        BY <1>7 DEF Gather, taskVars
    <2>2. /\ Len(out) \in Nat /\ DOMAIN out = 1 .. Len(out)
          /\ DOMAIN out' = 1 .. Len(out) + 1
          /\ out'[Len(out) + 1] = FINALIZE_SENTINEL
          /\ \A i \in DOMAIN out : out'[i] = out[i]
        BY <1>0, <2>1
    <2>3. /\ \A i \in DOMAIN out' : i \in DOMAIN out \/ ~IsProgressive(out'[i])
          /\ DOMAIN out \subseteq DOMAIN out'
        BY <2>2 DEF IsProgressive, FINALIZE_SENTINEL
    <2> QED BY <2>1, <2>2, <2>3, AnswersUntouched
<1>8. CASE SenderStep \/ UNCHANGED vars
    BY <1>1, <1>8 DEF SenderStep, SenderSend, SenderFinish, vars, taskVars
<1> QED BY <1>1, <1>2, <1>3, <1>4, <1>5, <1>6, <1>7, <1>8
        DEF Next, HandlerStep, ClientStep, HandshakeFail, StreamClosed, Join, CleanUp,
            ReceiveEmptyFrame, ReceiveEndFrame, Abort, ClientDrop, taskVars

LEMMA AnswerInit == Init => AnswerInv
BY DEF Init, NewFrameState, AnswerInv, Behind, ProgressivesOrdered

\* Whatever the order in which recognitions return, the queue holds the
\* sentences in segment order, no intermediate text behind a sentence it
\* belongs before, and the intermediate texts in the order of their audio.
THEOREM ResultsAreInOrder == Spec => []ResultsInOrder
<1>1. Init => OnlineBusyExact
    BY DEF Init, NewFrameState, OnlineBusyExact
<1>2. QueueInv /\ AnswerInv => ResultsInOrder
    BY DEF QueueInv, AnswerInv, ResultsInOrder
<1> QED BY <1>1, <1>2, TypeInit, TypeStep, BusyStep, AnswerInit, AnswerStep, QueueAlways,
           PTL DEF Spec

-----------------------------------------------------------------------------
(* The session implements SegmentDelivery *)

\* After the sentinel there is nothing left that could queue anything.
EndInv ==
    (\E i \in DOMAIN out : out[i] = FINALIZE_SENTINEL)
        => /\ online = {} /\ offline = {}
           /\ pc \in {"join", "finally", "closed"}

LEMMA EndStep == TypeInv /\ EndInv /\ [Next]_vars => EndInv'
<1> SUFFICES ASSUME TypeInv, EndInv, [Next]_vars PROVE EndInv'
    OBVIOUS
<1>0. TypeOK
    BY DEF TypeInv
<1>1. CASE Gather
    BY <1>1 DEF Gather, AllTasksDone, EndInv, taskVars
<1>2. CASE UNCHANGED <<out, online, offline>> /\ (pc' = pc \/ pc' \in {"finally", "closed"})
    BY <1>2 DEF EndInv
<1>3. CASE UNCHANGED out /\ pc \notin {"join", "finally", "closed"}
    BY <1>3 DEF EndInv
<1>4. CASE OnlineStep
    <2>1. PICK t \in online, has_text \in BOOLEAN : OnlineDone(t, has_text)
        BY <1>4 DEF OnlineStep
    <2>2. \A i \in DOMAIN out : out[i] # FINALIZE_SENTINEL
        BY DEF EndInv
    <2>3. CASE has_text /\ Current(t)
        <3> DEFINE item == [seg |-> t.seg, type |-> "Progressive",
                            text |-> fs.online_accumulated_text
                                       \o <<[seg |-> t.seg, epoch |-> t.epoch]>>,
                            bg |-> t.bg, ed |-> t.ed, final |-> FALSE]
        <3>1. out' = Append(out, item)
            BY <2>1, <2>3 DEF OnlineDone
        <3>2. item.type # FINALIZE_SENTINEL.type
            BY DEF FINALIZE_SENTINEL
        <3> HIDE DEF item
        <3>a. /\ DOMAIN out' = 1 .. Len(out) + 1
              /\ out'[Len(out) + 1] = item
              /\ \A i \in DOMAIN out : out'[i] = out[i]
              /\ DOMAIN out = 1 .. Len(out) /\ Len(out) \in Nat
            BY <1>0, <3>1 DEF TypeOK
        <3>b. \A i \in DOMAIN out' : i \in DOMAIN out \/ out'[i] = item
            BY <3>a
        <3>3. \A i \in DOMAIN out' : out'[i] # FINALIZE_SENTINEL
            BY <2>2, <3>2, <3>a, <3>b
        <3> QED BY <3>3 DEF EndInv
    <2>4. CASE ~(has_text /\ Current(t))
        BY <2>1, <2>2, <2>4 DEF OnlineDone, EndInv
    <2> QED BY <2>3, <2>4
<1>5. CASE OfflineStep
    <2>1. PICK j \in offline, has_text \in BOOLEAN : OfflineDone(j, has_text)
        BY <1>5 DEF OfflineStep
    <2>2. \A i \in DOMAIN out : out[i] # FINALIZE_SENTINEL
        BY DEF EndInv
    <2> DEFINE entry == IF has_text THEN [text |-> TRUE, bg |-> j.bg, ed |-> j.ed]
                        ELSE [text |-> FALSE, bg |-> 0, ed |-> 0]
    <2>3. AdvanceReorderPointer(j.seg, entry) /\ j.seg \in Nat
        BY <1>0, <2>1 DEF OfflineDone, TypeOK, OfflineJob
    <2> HIDE DEF entry
    <2>4. PICK m \in Nat, count \in Nat :
             \E batch \in [1..count -> next_seg_id_to_send .. m - 1] :
                Release(Recorded(j.seg, entry), m, count, batch)
        BY <1>0, <2>3, Advance
    <2>5. PICK batch \in [1..count -> next_seg_id_to_send .. m - 1] :
             Release(Recorded(j.seg, entry), m, count, batch)
        BY <2>4
    <2>6. /\ DOMAIN out' = 1 .. Len(out) + count
          /\ Len(out) \in Nat /\ DOMAIN out = 1..Len(out)
          /\ \A i \in 1..Len(out) : out'[i] = out[i]
          /\ \A i \in Len(out) + 1 .. Len(out) + count : out'[i].type = "sentence"
        <3>1. Queued(count, batch)
            BY <1>0, <2>5, ReleaseItems
        <3> QED BY <3>1 DEF Queued
    <2>7. FINALIZE_SENTINEL.type # "sentence"
        BY DEF FINALIZE_SENTINEL
    <2>8. \A i \in DOMAIN out' : i \in 1..Len(out) \/ i \in Len(out) + 1 .. Len(out) + count
        BY <2>6
    <2>9. \A i \in DOMAIN out' : out'[i] # FINALIZE_SENTINEL
        BY <2>2, <2>6, <2>7, <2>8
    <2> QED BY <2>9 DEF EndInv
<1>6. CASE ClientStep
    BY <1>2, <1>3, <1>6 DEF ClientStep, ReceiveEmptyFrame, ReceiveFrame, ReceiveEndFrame,
                      Abort, ClientDrop, taskVars
<1>7. CASE HandlerStep /\ ~Gather
    BY <1>2, <1>3, <1>7 DEF HandlerStep, HandshakeFail, FinishFeed, StreamClosed, Flush,
                      Join, CleanUp, taskVars
<1>8. CASE SenderStep \/ UNCHANGED vars
    BY <1>2, <1>8 DEF SenderStep, SenderSend, SenderFinish, vars, taskVars
<1> QED BY <1>1, <1>4, <1>5, <1>6, <1>7, <1>8 DEF Next

\* The values the variables of SegmentDelivery have in the session.
Unresolved == {j.seg : j \in offline}
Ready      == {k \in DOMAIN pending : pending[k].text}
Log        == [i \in DOMAIN out |-> Delivered(out[i])]

LEMMA Stutters ==
    ASSUME UNCHANGED <<fs.seg_id, offline, pending, out>>
    PROVE  UNCHANGED Delivery!vars
BY DEF Delivery!vars, Delivered

LEMMA NotEnded ==
    ASSUME TypeOK, \A i \in DOMAIN out : out[i] # FINALIZE_SENTINEL
    PROVE  ~Delivery!Ended
<1> SUFFICES ASSUME NEW i \in DOMAIN out
             PROVE  Delivered(out[i]) # [seg |-> -1, type |-> "end"]
    BY DEF Delivery!Ended, Delivery!EndMark
<1>1. out[i] \in Message
    BY DEF TypeOK
<1>2. Delivered(out[i]).type # "end"
    BY <1>1 DEF Delivered, Message
<1> QED BY <1>2

\* One more item on the queue is one more entry of the log.
LEMMA LogAppend ==
    ASSUME TypeOK, NEW item, out' = Append(out, item)
    PROVE  Log' = Append(Log, Delivered(item))
<1>1. /\ DOMAIN out' = 1 .. Len(out) + 1
      /\ out'[Len(out) + 1] = item
      /\ \A i \in DOMAIN out : out'[i] = out[i]
      /\ DOMAIN out = 1 .. Len(out) /\ Len(out) \in Nat
    BY DEF TypeOK
<1>2. Len(Log) = Len(out)
    BY <1>1 DEF Log
<1>3. Log' = [i \in 1 .. Len(out) + 1 |-> Delivered(out'[i])]
    BY <1>1 DEF Log, Delivered
<1>4. Append(Log, Delivered(item))
        = [i \in 1 .. Len(out) + 1 |-> IF i <= Len(out) THEN Delivered(out[i])
                                       ELSE Delivered(item)]
    BY <1>1, <1>2 DEF Log
<1> HIDE DEF Delivered
<1>5. \A i \in 1 .. Len(out) + 1 :
         Delivered(out'[i]) = IF i <= Len(out) THEN Delivered(out[i])
                              ELSE Delivered(item)
    BY <1>1
<1> QED BY <1>3, <1>4, <1>5

LEMMA CloseStep ==
    ASSUME TypeOK, NEW spans \in Seq(Nat \X Nat), TriggerOffline(spans),
           Len(spans) \in 1 .. MaxCuts + 1,
           fs'.seg_id = fs.seg_id + Len(spans),
           UNCHANGED <<pending, out>>, ~Delivery!Ended
    PROVE  Delivery!Next
<1> DEFINE L == Len(spans)
<1>1. fs.seg_id \in Nat /\ L \in Nat /\ DOMAIN spans = 1..L
    BY DEF TypeOK, FrameState
<1>2. offline' = offline \cup {Job(fs, spans, i) : i \in 1..L}
    BY <1>1 DEF TriggerOffline
<1>3. \A i \in 1..L : Job(fs, spans, i).seg = fs.seg_id + i - 1
    BY DEF Job
<1> HIDE DEF L
<1>4. Unresolved' = Unresolved \cup fs.seg_id .. fs.seg_id + L - 1
    <2>1. ASSUME NEW k \in Unresolved'
          PROVE  k \in Unresolved \cup fs.seg_id .. fs.seg_id + L - 1
        <3>1. PICK j \in offline' : k = j.seg
            BY <2>1 DEF Unresolved
        <3>2. CASE j \in offline
            BY <3>1, <3>2 DEF Unresolved
        <3>3. CASE j \notin offline
            <4>1. PICK i \in 1..L : j = Job(fs, spans, i)
                BY <1>2, <3>3
            <4>2. k = fs.seg_id + i - 1 /\ i \in Nat /\ i >= 1 /\ i <= L
                BY <1>1, <1>3, <3>1, <4>1
            <4> QED BY <1>1, <4>2
        <3> QED BY <3>2, <3>3
    <2>2. ASSUME NEW k \in Unresolved PROVE k \in Unresolved'
        BY <1>2, <2>2 DEF Unresolved
    <2>3. ASSUME NEW k \in fs.seg_id .. fs.seg_id + L - 1 PROVE k \in Unresolved'
        <3>1. PICK i \in 1..L : k = fs.seg_id + i - 1
            <4> DEFINE first == fs.seg_id
            <4>1. first \in Nat /\ L \in Nat /\ k \in first .. first + L - 1
                BY <1>1
            <4> HIDE DEF first
            <4>2. k - first + 1 \in 1..L /\ k = first + (k - first + 1) - 1
                BY <4>1
            <4> QED BY <4>2 DEF first
        <3>2. Job(fs, spans, i).seg = k
            BY <1>3, <3>1
        <3>3. Job(fs, spans, i) \in offline'
            BY <1>2
        <3> QED BY <3>2, <3>3 DEF Unresolved
    <2> QED BY <2>1, <2>2, <2>3
<1>5. Delivery!Close(L)
    <2>1. Unresolved' = {j.seg : j \in offline'}
        BY DEF Unresolved
    <2>2. UNCHANGED <<Ready, Log>>
        BY DEF Ready, Log, Delivered
    <2>3. ~Delivery!Ended /\ fs'.seg_id = fs.seg_id + L
        BY DEF L
    <2>4. Delivery!Close(L) <=>
            /\ ~Delivery!Ended
            /\ fs'.seg_id = fs.seg_id + L
            /\ Unresolved' = Unresolved \cup fs.seg_id .. fs.seg_id + L - 1
            /\ UNCHANGED <<Ready, Log>>
        BY DEF Delivery!Close, Unresolved, Ready, Log
    <2> QED BY <1>4, <2>2, <2>3, <2>4
<1> QED BY <1>5 DEF Delivery!Next, L

LEMMA SpeakStep ==
    ASSUME TypeInv, OnlineBusyExact, EndInv, NEW t \in online,
           NEW has_text \in BOOLEAN, OnlineDone(t, has_text)
    PROVE  Delivery!Next \/ UNCHANGED Delivery!vars
<1>1. TypeOK /\ fs'.seg_id = fs.seg_id /\ UNCHANGED <<offline, pending>>
    BY DEF TypeInv, TypeOK, FrameState, OnlineDone, reorder
<1>2. CASE has_text /\ Current(t)
    <2> DEFINE item == [seg |-> t.seg, type |-> "Progressive",
                        text |-> fs.online_accumulated_text
                                   \o <<[seg |-> t.seg, epoch |-> t.epoch]>>,
                        bg |-> t.bg, ed |-> t.ed, final |-> FALSE]
    <2>1. out' = Append(out, item)
        BY <1>2 DEF OnlineDone
    <2>2. t.seg = fs.seg_id
        BY <1>2 DEF OnlineBusyExact, Current
    <2>3. Delivered(item) = [seg |-> fs.seg_id, type |-> "Progressive"]
        BY <2>2 DEF Delivered
    <2> HIDE DEF item
    <2>4. Log' = Append(Log, Delivered(item))
        BY <1>1, <2>1, LogAppend
    <2>5. ~Delivery!Ended
        BY <1>1, NotEnded DEF EndInv
    <2>6. UNCHANGED <<Unresolved, Ready>>
        BY <1>1 DEF Unresolved, Ready
    <2>7. Delivery!Speak
        BY <1>1, <2>3, <2>4, <2>5, <2>6
           DEF Delivery!Speak, Delivery!Progressive, Log, Unresolved, Ready
    <2> QED BY <2>7 DEF Delivery!Next
<1>3. CASE ~(has_text /\ Current(t))
    <2>1. out' = out
        BY <1>3 DEF OnlineDone
    <2> QED BY <1>1, <2>1, Stutters
<1> QED BY <1>2, <1>3

LEMMA EndMarkStep ==
    ASSUME TypeInv, EndInv, Gather PROVE Delivery!Next
<1>1. TypeOK /\ UNCHANGED <<fs, offline, pending>> /\ offline = {}
    BY DEF TypeInv, Gather, AllTasksDone, reorder, taskVars
<1>2. Log' = Append(Log, Delivered(FINALIZE_SENTINEL))
    BY <1>1, LogAppend DEF Gather
<1>3. Delivered(FINALIZE_SENTINEL) = [seg |-> -1, type |-> "end"]
    BY DEF Delivered, FINALIZE_SENTINEL
<1>4. ~Delivery!Ended
    BY <1>1, NotEnded DEF EndInv, Gather
<1>5. UNCHANGED <<Unresolved, Ready>> /\ Unresolved = {}
    BY <1>1 DEF Unresolved, Ready
<1>6. Delivery!End
    BY <1>1, <1>2, <1>3, <1>4, <1>5
       DEF Delivery!End, Delivery!EndMark, Log, Unresolved, Ready
<1> QED BY <1>6 DEF Delivery!Next

LEMMA LogExtends ==
    ASSUME NEW count \in Nat, NEW batch, Queued(count, batch)
    PROVE  Log' = Log \o [i \in 1..count |-> [seg |-> batch[i], type |-> "sentence"]]
<1> DEFINE new == [i \in 1..count |-> [seg |-> batch[i], type |-> "sentence"]]
<1>1. Len(Log) = Len(out) /\ Len(new) = count /\ Len(out) \in Nat
    BY DEF Log, Queued
<1>2. Log' = [i \in 1 .. Len(out) + count |-> Delivered(out'[i])]
    BY DEF Log, Queued, Delivered
<1>3. Log \o new = [i \in 1 .. Len(out) + count |->
                      IF i <= Len(out) THEN Log[i] ELSE new[i - Len(out)]]
    <2> DEFINE entries == {Log[i] : i \in 1..Len(out)} \cup {new[i] : i \in 1..count}
    <2>1. Log \in [1..Len(out) -> entries] /\ new \in [1..count -> entries]
        BY DEF Log, Queued
    <2> HIDE DEF entries, new
    <2>2. Log \in Seq(entries) /\ new \in Seq(entries)
        BY <1>1, <2>1
    <2> DEFINE cat == Log \o new
    <2>3. Len(Log) = Len(out) /\ Len(new) = count
        BY <1>1
    <2>4. cat \in Seq(entries) /\ Len(cat) = Len(Log) + Len(new)
        BY <2>2, ConcatProperties
    <2>5. \A i \in 1 .. Len(Log) + Len(new) :
             cat[i] = IF i <= Len(Log) THEN Log[i] ELSE new[i - Len(Log)]
        BY <2>2, ConcatProperties
    <2> HIDE DEF cat
    <2>6. cat = [i \in 1 .. Len(cat) |-> cat[i]]
        BY <2>4
    <2>7. cat = [i \in 1 .. Len(out) + count |->
                    IF i <= Len(out) THEN Log[i] ELSE new[i - Len(out)]]
        BY <2>3, <2>4, <2>5, <2>6
    <2> QED BY <2>7 DEF cat
<1>4. ASSUME NEW i \in 1 .. Len(out) + count
      PROVE  Delivered(out'[i]) = IF i <= Len(out) THEN Log[i] ELSE new[i - Len(out)]
    <2>1. CASE i <= Len(out)
        <3>1. i \in 1..Len(out)
            BY <1>1, <2>1
        <3> QED BY <2>1, <3>1 DEF Queued, Log
    <2>2. CASE ~(i <= Len(out))
        <3>1. i \in Len(out) + 1 .. Len(out) + count
            BY <1>1, <2>2
        <3>2. /\ i - Len(out) \in 1..count
              /\ out'[i].type = "sentence" /\ out'[i].seg = batch[i - Len(out)]
            BY <3>1 DEF Queued
        <3> QED BY <2>2, <3>2 DEF Delivered
    <2> QED BY <2>1, <2>2
<1> HIDE DEF new
<1>5. Log' = Log \o new
    BY <1>2, <1>3, <1>4
<1> QED BY <1>5 DEF new

LEMMA ResolveStep ==
    ASSUME TypeInv, PlaceInv, PlaceInv', EndInv, NEW j \in offline,
           NEW has_text \in BOOLEAN, OfflineDone(j, has_text)
    PROVE  Delivery!Next
<1> DEFINE entry == IF has_text THEN [text |-> TRUE, bg |-> j.bg, ed |-> j.ed]
                    ELSE [text |-> FALSE, bg |-> 0, ed |-> 0]
           results == Recorded(j.seg, entry)
           texts   == Ready \cup (IF has_text THEN {j.seg} ELSE {})
           waiting == Unresolved \ {j.seg}
<1>1. /\ TypeOK /\ Placed /\ PointerWaits' /\ Placed'
      /\ next_seg_id_to_send \in Nat /\ fs.seg_id \in Nat
      /\ j.seg \in Nat /\ DOMAIN pending \subseteq Nat
    BY DEF TypeInv, TypeOK, FrameState, OfflineJob, PlaceInv
<1>2. AdvanceReorderPointer(j.seg, entry)
    BY DEF OfflineDone
<1>3. entry.text = has_text
    OBVIOUS
<1> HIDE DEF entry
<1>4. PICK m \in Nat, count \in Nat :
         /\ next_seg_id_to_send <= m /\ m <= fs.seg_id
         /\ count <= m - next_seg_id_to_send
         /\ \E batch \in [1..count -> next_seg_id_to_send .. m - 1] :
               Release(results, m, count, batch)
    BY <1>1, <1>2, Advance
<1>5. PICK batch \in [1..count -> next_seg_id_to_send .. m - 1] :
         Release(results, m, count, batch)
    BY <1>4
<1> DEFINE B == {i \in next_seg_id_to_send .. m - 1 : results[i].text}
<1>6. DOMAIN results = DOMAIN pending \cup {j.seg} /\ j.seg \notin DOMAIN pending
    BY <1>1 DEF Recorded, Placed
<1>7. texts = {k \in DOMAIN results : results[k].text}
    BY <1>1, <1>3, <1>6 DEF Ready, Recorded
<1>8. /\ m \notin DOMAIN results
      /\ \A k \in next_seg_id_to_send .. m - 1 : k \in DOMAIN results
      /\ next_seg_id_to_send' = m
      /\ pending' = [i \in DOMAIN results \ (next_seg_id_to_send .. m - 1) |-> results[i]]
      /\ Range(batch) = B
      /\ \A a, b \in DOMAIN batch : a < b => batch[a] < batch[b]
    BY <1>5 DEF Release, StopsAt, Enumerates
<1> HIDE DEF results, B
<1>9. /\ fs' = fs /\ offline' = offline \ {j}
    BY DEF OfflineDone
<1>10. Unresolved' = waiting
    BY <1>1, <1>9 DEF Unresolved, Placed
<1>11. \A u \in waiting : u >= m /\ u \in Nat
    <2> SUFFICES ASSUME NEW u \in waiting PROVE u >= m /\ u \in Nat
        OBVIOUS
    <2>1. PICK i \in offline' : u = i.seg
        BY <1>10 DEF Unresolved
    <2>2. i \in offline
        BY <1>9, <2>1
    <2>3. u \in Nat
        BY <1>1, <2>1, <2>2 DEF TypeOK, OfflineJob
    <2>4. next_seg_id_to_send' <= u
        BY <1>1, <2>1 DEF Placed
    <2> QED BY <1>8, <2>3, <2>4
<1>12. m < fs.seg_id => m \in waiting
    <2> HAVE m < fs.seg_id
    <2>1. m \in DOMAIN pending' \/ \E i \in offline' : i.seg = m
        BY <1>1, <1>4, <1>8, <1>9 DEF Placed
    <2>2. \E i \in offline' : i.seg = m
        BY <1>8, <2>1
    <2> QED BY <1>10, <2>2 DEF Unresolved
<1>13. B = Delivery!Deliverable(texts, waiting)
    <2>1. ASSUME NEW k \in B PROVE k \in texts /\ \A u \in waiting : k < u
        <3>1. k \in next_seg_id_to_send .. m - 1 /\ results[k].text
            BY <2>1 DEF B
        <3>2. k \in texts
            BY <1>7, <1>8, <3>1
        <3> QED BY <1>1, <1>11, <3>1, <3>2
    <2>2. ASSUME NEW k \in texts, \A u \in waiting : k < u PROVE k \in B
        <3>1. k \in DOMAIN results /\ results[k].text /\ k \in Nat
            BY <1>1, <1>6, <1>7, <2>2
        <3>2. k >= next_seg_id_to_send /\ k < fs.seg_id
            BY <1>1, <1>6, <3>1 DEF Placed
        <3>3. k < m
            <4> SUFFICES ASSUME ~(k < m) PROVE FALSE
                OBVIOUS
            <4>1. m < fs.seg_id
                BY <1>1, <1>4, <3>1, <3>2
            <4>2. k < m
                BY <1>12, <2>2, <4>1
            <4> QED BY <4>2
        <3> QED BY <1>1, <3>1, <3>2, <3>3 DEF B
    <2> QED BY <2>1, <2>2 DEF Delivery!Deliverable
<1>14. Ready' = texts \ B
    <2>1. DOMAIN pending' = DOMAIN results \ (next_seg_id_to_send .. m - 1)
          /\ \A i \in DOMAIN pending' : pending'[i] = results[i]
        BY <1>8
    <2>2. Ready' = {k \in DOMAIN pending' : pending'[k].text}
        BY DEF Ready
    <2> HIDE DEF texts
    <2> QED BY <1>7, <2>1, <2>2 DEF B
<1>15. Queued(count, batch)
    BY <1>1, <1>5, ReleaseItems
<1>16. Log' = Log \o [i \in 1..count |-> [seg |-> batch[i], type |-> "sentence"]]
    BY <1>15, LogExtends
<1>17. batch \in [1..count -> B] /\ DOMAIN batch = 1..count
    BY <1>8 DEF Range
<1>18. count \in 0 .. fs.seg_id
    BY <1>1, <1>4
<1>19. ~Delivery!Ended
    BY <1>1, NotEnded DEF EndInv
<1>20. j.seg \in Unresolved
    BY DEF Unresolved
<1>21. Delivery!Resolve(j.seg, has_text)
    <2>1. \E c \in 0 .. fs.seg_id : \E b \in [1..c -> B] :
             /\ Delivery!Range(b) = B
             /\ \A a, d \in 1..c : a < d => b[a] < b[d]
             /\ Log' = Log \o [i \in 1..c |-> [seg |-> b[i], type |-> "sentence"]]
        <3>1. Delivery!Range(batch) = B
            BY <1>8 DEF Range, Delivery!Range
        <3> QED BY <1>8, <1>16, <1>17, <1>18, <3>1
    <2>2. Delivery!Resolve(j.seg, has_text)
            <=> /\ ~Delivery!Ended
                /\ j.seg \in Unresolved
                /\ Unresolved' = waiting
                /\ Ready' = texts \ Delivery!Deliverable(texts, waiting)
                /\ \E c \in 0 .. fs.seg_id :
                      \E b \in [1..c -> Delivery!Deliverable(texts, waiting)] :
                         /\ Delivery!Range(b) = Delivery!Deliverable(texts, waiting)
                         /\ \A a, d \in 1..c : a < d => b[a] < b[d]
                         /\ Log' = Log \o [i \in 1..c |-> [seg |-> b[i], type |-> "sentence"]]
                /\ fs'.seg_id = fs.seg_id
        BY DEF Delivery!Resolve, Delivery!Sentence, Unresolved, Ready, Log
    <2> HIDE DEF texts, waiting
    <2> QED BY <1>9, <1>10, <1>13, <1>14, <1>19, <1>20, <2>1, <2>2
<1> QED BY <1>20, <1>21 DEF Delivery!Next, Unresolved

LEMMA RefInit == Init => Delivery!Init /\ EndInv /\ OnlineBusyExact
<1> SUFFICES ASSUME Init PROVE Delivery!Init /\ EndInv /\ OnlineBusyExact
    OBVIOUS
<1>1. /\ fs.seg_id = 0 /\ offline = {} /\ online = {} /\ pending = [k \in {} |-> {}]
      /\ out = <<>> /\ fs.online_busy = FALSE
    BY DEF Init, NewFrameState
<1>2. Unresolved = {} /\ Ready = {} /\ Log = <<>>
    BY <1>1 DEF Unresolved, Ready, Log
<1> QED BY <1>1, <1>2 DEF Delivery!Init, Unresolved, Ready, Log, EndInv, OnlineBusyExact

LEMMA FeedRef ==
    ASSUME TypeInv, EndInv, NEW spans \in VadReports, NEW in_speech \in BOOLEAN,
           NEW silence \in Silences, FinishFeed(spans, in_speech, silence)
    PROVE  Delivery!Next \/ UNCHANGED Delivery!vars
<1>1. TypeOK /\ fs.seg_id \in Nat /\ fs \in FrameState
    BY DEF TypeInv, TypeOK, FrameState
<1>2. PICK n \in 0..MaxCuts : spans \in [1..n -> VadSpans]
    BY DEF VadReports
<1>3. spans \in Seq(Nat \X Nat) /\ Len(spans) = n
    BY <1>2, VadReportsType, BoundsAssumption
<1>4. /\ TriggerOffline(spans) /\ UNCHANGED <<pending, out>>
      /\ fs'.seg_id = fs.seg_id + n
    <2>1. AfterCuts(fs, n).seg_id = fs.seg_id + n /\ AfterCuts(fs, n) \in FrameState
        <3>1. fs.seg_id + 0 = fs.seg_id
            BY <1>1
        <3>2. AfterCuts(fs, n) \in FrameState
            BY <1>1, <1>2, AfterCutsType, BoundsAssumption DEF TypeInv
        <3> QED BY <1>1, <3>1, <3>2 DEF AfterCuts, FrameState
    <2> DEFINE f == OnlineCut(AfterCuts(fs, n), in_speech, silence)
    <2>2. f.seg_id = fs.seg_id + n /\ "seg_id" \in DOMAIN f
        BY <2>1 DEF OnlineCut, FrameState
    <2>3. fs' \in {f, [f EXCEPT !.online_busy = TRUE,
                                      !.online_last_trigger = f.online_total]}
        BY <1>3, <2>2 DEF FinishFeed
    <2> HIDE DEF f
    <2>4. fs'.seg_id = f.seg_id
        BY <2>2, <2>3
    <2> QED BY <2>2, <2>4 DEF FinishFeed, reorder
<1>5. CASE n = 0
    <2>1. spans = <<>>
        BY <1>3, <1>5
    <2>2. offline' = offline
        BY <1>4, <2>1 DEF TriggerOffline
    <2> QED BY <1>1, <1>4, <1>5, <2>2, Stutters
<1>6. CASE n # 0
    <2>1. Len(spans) \in 1 .. MaxCuts + 1
        BY <1>2, <1>3, <1>6, BoundsAssumption
    <2>2. ~Delivery!Ended
        BY <1>1, NotEnded DEF EndInv, FinishFeed
    <2> QED BY <1>1, <1>3, <1>4, <2>1, <2>2, CloseStep
<1> QED BY <1>5, <1>6

LEMMA FlushRef ==
    ASSUME TypeInv, EndInv, NEW tail \in VadSpans \cup {<<>>}, Flush(tail)
    PROVE  Delivery!Next \/ UNCHANGED Delivery!vars
<1>1. TypeOK /\ fs.online_total \in Nat /\ fs.seg_id \in Nat
    BY DEF TypeInv, TypeOK, FrameState
<1>2. CASE NothingLeft(tail)
    BY <1>2, Stutters DEF Flush, reorder
<1>3. CASE ~NothingLeft(tail)
    <2> DEFINE last == IF tail = <<>> THEN <<0, fs.online_total>> ELSE tail
    <2>1. last \in Nat \X Nat
        BY <1>1, VadSpansAssumption
    <2>2. TriggerOffline(<<last>>) /\ fs' = AfterCuts(fs, 1) /\ UNCHANGED <<pending, out>>
        BY <1>3 DEF Flush
    <2> HIDE DEF last
    <2>3. <<last>> \in Seq(Nat \X Nat) /\ Len(<<last>>) = 1
        BY <2>1
    <2>4. 1 \in 1 .. MaxCuts + 1
        BY BoundsAssumption
    <2>5. fs'.seg_id = fs.seg_id + 1
        BY <1>1, <2>2 DEF AfterCuts, TypeOK, FrameState
    <2>6. ~Delivery!Ended
        BY <1>1, NotEnded DEF EndInv, Flush
    <2> QED BY <1>1, <2>2, <2>3, <2>4, <2>5, <2>6, CloseStep
<1> QED BY <1>2, <1>3

\* Every step of the session is a step of SegmentDelivery or leaves its
\* variables alone.
LEMMA RefStep ==
    TypeInv /\ OnlineBusyExact /\ PlaceInv /\ PlaceInv' /\ EndInv /\ [Next]_vars
        => Delivery!Next \/ UNCHANGED Delivery!vars
<1> SUFFICES ASSUME TypeInv, OnlineBusyExact, PlaceInv, PlaceInv', EndInv, [Next]_vars
             PROVE  Delivery!Next \/ UNCHANGED Delivery!vars
    OBVIOUS
<1>1. CASE UNCHANGED <<fs, offline, pending, out>>
    BY <1>1, Stutters
<1>2. CASE \E spans \in VadReports, in_speech \in BOOLEAN, silence \in Silences :
              FinishFeed(spans, in_speech, silence)
    BY <1>2, FeedRef
<1>3. CASE \E tail \in VadSpans \cup {<<>>} : Flush(tail)
    BY <1>3, FlushRef
<1>4. CASE Gather
    BY <1>4, EndMarkStep
<1>5. CASE HandlerStep
    BY <1>1, <1>2, <1>3, <1>4, <1>5
       DEF HandlerStep, HandshakeFail, StreamClosed, Join, CleanUp, taskVars, reorder
<1>6. CASE \E n \in FrameSizes : \E m \in Denoised(n) : ReceiveFrame(n, m)
    <2>0. PICK n \in FrameSizes : \E m \in Denoised(n) : ReceiveFrame(n, m)
        BY <1>6
    <2>1. PICK m \in Denoised(n) : ReceiveFrame(n, m)
        BY <2>0
    <2>2. fs'.seg_id = fs.seg_id /\ UNCHANGED <<offline, pending, out>>
        BY <2>1 DEF ReceiveFrame, Buffered, TypeInv, TypeOK, FrameState, taskVars, reorder
    <2> QED BY <2>2, Stutters
<1>7. CASE ClientStep
    BY <1>1, <1>6, <1>7
       DEF ClientStep, ReceiveEmptyFrame, ReceiveEndFrame, Abort, ClientDrop, taskVars,
           reorder
<1>8. CASE OnlineStep
    BY <1>8, SpeakStep DEF OnlineStep
<1>9. CASE OfflineStep
    BY <1>9, ResolveStep DEF OfflineStep
<1>10. CASE SenderStep \/ UNCHANGED vars
    BY <1>1, <1>10 DEF SenderStep, SenderSend, SenderFinish, vars, taskVars, reorder
<1> QED BY <1>5, <1>7, <1>8, <1>9, <1>10 DEF Next

\* Every behaviour of the session is one of SegmentDelivery: the epochs, the
\* busy flag, the pointer and the reorder buffer deliver what it promises.
THEOREM SessionImplementsDelivery == Spec => ImplementsDelivery
<1>1. TypeInv /\ OnlineBusyExact /\ PlaceInv /\ PlaceInv' /\ EndInv /\ [Next]_vars
        => [Delivery!Next]_(Delivery!vars)
    BY RefStep
<1> QED BY <1>1, RefInit, TypeInit, TypeStep, BusyStep, PlaceInvInit, PlaceStep,
           EndStep, PTL DEF Spec, Delivery!Spec, ImplementsDelivery

-----------------------------------------------------------------------------
(* What the texts of a stream are made of, that no audio is lost and that
   the end is told once *)

\* What OfflineDone adds to the queue, whichever results it releases: sentences
\* of closed segments, in order.
LEMMA OfflineQueues ==
    ASSUME TypeOK, OfflineStep
    PROVE  /\ fs' = fs
           /\ \E count \in Nat : \E batch :
                /\ Queued(count, batch)
                /\ \A a \in 1..count : batch[a] \in Nat /\ batch[a] < fs.seg_id
                /\ \A a, b \in 1..count : a < b => batch[a] < batch[b]
<1>1. PICK j \in offline, has_text \in BOOLEAN : OfflineDone(j, has_text)
    BY DEF OfflineStep
<1> DEFINE entry == IF has_text THEN [text |-> TRUE, bg |-> j.bg, ed |-> j.ed]
                    ELSE [text |-> FALSE, bg |-> 0, ed |-> 0]
<1>2. AdvanceReorderPointer(j.seg, entry) /\ j.seg \in Nat
    BY <1>1 DEF OfflineDone, TypeOK, OfflineJob
<1> HIDE DEF entry
<1>3. PICK m \in Nat, count \in Nat :
         /\ m <= fs.seg_id
         /\ \E batch \in [1..count -> next_seg_id_to_send .. m - 1] :
               Release(Recorded(j.seg, entry), m, count, batch)
    BY <1>2, Advance
<1>4. PICK batch \in [1..count -> next_seg_id_to_send .. m - 1] :
         Release(Recorded(j.seg, entry), m, count, batch)
    BY <1>3
<1>5. Queued(count, batch)
    BY <1>4, ReleaseItems
<1>6. \A a \in 1..count : batch[a] \in Nat /\ batch[a] < fs.seg_id
    <2>1. next_seg_id_to_send \in Nat /\ fs.seg_id \in Nat
        BY DEF TypeOK, FrameState
    <2>2. \A a \in 1..count : batch[a] \in next_seg_id_to_send .. m - 1
        BY <1>4
    <2> DEFINE first == next_seg_id_to_send
               last == fs.seg_id
    <2>3. first \in Nat /\ last \in Nat /\ m <= last
        BY <1>3, <2>1
    <2> HIDE DEF first, last
    <2>4. \A x \in first .. m - 1 : x \in Nat /\ x < last
        BY <2>3
    <2> QED BY <2>2, <2>4 DEF first, last
<1>7. \A a, b \in 1..count : a < b => batch[a] < batch[b]
    BY <1>4 DEF Release, Enumerates
<1> QED BY <1>1, <1>5, <1>6, <1>7 DEF OfflineDone

-----------------------------------------------------------------------------
(* What an intermediate text is made of *)

\* The text in front of an answer was overtaken by a cut: it is of earlier
\* epochs, and the last answer is of no later one than the present.
Dated(f) ==
    /\ \A k \in 1 .. Len(f.online_accumulated_text) :
          f.online_accumulated_text[k].epoch < f.online_epoch
    /\ \A k \in 1 .. Len(f.online_last_text) :
          f.online_last_text[k].epoch <= f.online_epoch

LEMMA DatedAfterCuts ==
    ASSUME NEW f \in FrameState, NEW count \in Nat, Dated(f)
    PROVE  Dated(AfterCuts(f, count))
<1>1. CASE count = 0
    BY <1>1 DEF AfterCuts
<1>2. CASE count # 0
    <2> DEFINE g == AfterCuts(f, count)
    <2>1. g.online_accumulated_text = <<>> /\ g.online_last_text = <<>>
        BY <1>2 DEF AfterCuts, FrameState
    <2> HIDE DEF g
    <2>2. Dated(g)
        BY <2>1 DEF Dated
    <2> QED BY <2>2 DEF g
<1> QED BY <1>1, <1>2

LEMMA DatedOnlineCut ==
    ASSUME NEW f \in FrameState, NEW in_speech, NEW silence, Dated(f)
    PROVE  Dated(OnlineCut(f, in_speech, silence))
<1> DEFINE g == OnlineCut(f, in_speech, silence)
           acc == f.online_accumulated_text
           last == f.online_last_text
           cat == acc \o last
<1>1. CASE g = f
    BY <1>1
<1>2. CASE g # f
    <2>1. /\ g.online_accumulated_text = cat /\ g.online_last_text = last
          /\ g.online_epoch = f.online_epoch + 1
        BY <1>2 DEF OnlineCut, FrameState
    <2>2. acc \in Seq(Token) /\ last \in Seq(Token) /\ f.online_epoch \in Nat
        BY DEF FrameState, Text
    <2>3. /\ \A k \in 1 .. Len(acc) : acc[k].epoch < f.online_epoch
          /\ \A k \in 1 .. Len(last) : last[k].epoch <= f.online_epoch
        BY DEF Dated
    <2> HIDE DEF g, acc, last
    <2>4. /\ Len(cat) = Len(acc) + Len(last)
          /\ \A k \in 1 .. Len(acc) + Len(last) :
                cat[k] = IF k <= Len(acc) THEN acc[k] ELSE last[k - Len(acc)]
        BY <2>2, ConcatProperties
    <2> HIDE DEF cat
    <2>5. ASSUME NEW k \in 1 .. Len(cat) PROVE cat[k].epoch < f.online_epoch + 1
        <3>0. Len(acc) \in Nat /\ Len(last) \in Nat
            BY <2>2
        <3>1. CASE k <= Len(acc)
            <4>1. k \in 1 .. Len(acc) /\ cat[k] = acc[k]
                BY <2>4, <3>0, <3>1
            <4>2. acc[k] \in Token
                BY <2>2, <4>1
            <4> QED BY <2>2, <2>3, <4>1, <4>2 DEF Token
        <3>2. CASE ~(k <= Len(acc))
            <4> DEFINE d == k - Len(acc)
            <4>1. d \in 1 .. Len(last) /\ cat[k] = last[d]
                BY <2>4, <3>0, <3>2
            <4> HIDE DEF d
            <4>2. last[d] \in Token /\ last[d].epoch <= f.online_epoch
                BY <2>2, <2>3, <4>1
            <4> QED BY <2>2, <4>1, <4>2 DEF Token
        <3> QED BY <3>1, <3>2
    <2>6. \A k \in 1 .. Len(last) : last[k].epoch <= f.online_epoch + 1
        <3> TAKE k \in 1 .. Len(last)
        <3>1. last[k] \in Token
            BY <2>2
        <3> QED BY <2>2, <2>3, <3>1 DEF Token
    <2>7. Dated(g)
        BY <2>1, <2>5, <2>6 DEF Dated
    <2> QED BY <2>7 DEF g
<1> QED BY <1>1, <1>2

LEMMA DatedSame ==
    ASSUME NEW f, NEW g, Dated(f),
           g.online_accumulated_text = f.online_accumulated_text,
           g.online_last_text = f.online_last_text, g.online_epoch = f.online_epoch
    PROVE  Dated(g)
BY DEF Dated

\* OwnAnswerLast of one queued item.
OwnLast(item) ==
    IsProgressive(item) =>
        /\ item.text[Len(item.text)].seg = item.seg
        /\ \A k \in 1 .. Len(item.text) - 1 :
              item.text[k].epoch < item.text[Len(item.text)].epoch

LEMMA OwnLastOfAll == OwnAnswerLast <=> \A i \in DOMAIN out : OwnLast(out[i])
BY DEF OwnAnswerLast, OwnLast

\* The text of an answer of the current epoch.
LEMMA AnswerText ==
    ASSUME TypeOK, Dated(fs), NEW t \in online, Current(t)
    PROVE  OwnLast([seg |-> t.seg, type |-> "Progressive",
                    text |-> fs.online_accumulated_text
                               \o <<[seg |-> t.seg, epoch |-> t.epoch]>>,
                    bg |-> t.bg, ed |-> t.ed, final |-> FALSE])
<1> DEFINE acc == fs.online_accumulated_text
           token == [seg |-> t.seg, epoch |-> t.epoch]
           text == acc \o <<token>>
<1>1. acc \in Seq(Token) /\ t.epoch = fs.online_epoch
    BY DEF TypeOK, FrameState, Text, Current
<1>2. token \in Token
    BY DEF TypeOK, OnlineTask, Token
<1>3. token.epoch = t.epoch /\ token.seg = t.seg
    OBVIOUS
<1>4. \A k \in 1 .. Len(acc) : acc[k].epoch < t.epoch
    BY <1>1 DEF Dated
<1> HIDE DEF acc, token
<1>5. text = Append(acc, token)
    BY <1>1, <1>2, AppendIsConcat
<1>6. /\ Len(text) = Len(acc) + 1 /\ Len(acc) \in Nat
      /\ text[Len(acc) + 1] = token
      /\ \A k \in 1 .. Len(acc) : text[k] = acc[k]
    BY <1>1, <1>2, <1>5
<1> HIDE DEF text
<1>7. /\ text[Len(text)].seg = t.seg
      /\ \A k \in 1 .. Len(text) - 1 : text[k].epoch < text[Len(text)].epoch
    BY <1>3, <1>4, <1>6
<1>8. OwnLast([seg |-> t.seg, type |-> "Progressive", text |-> text,
               bg |-> t.bg, ed |-> t.ed, final |-> FALSE])
    BY <1>7 DEF OwnLast
<1> QED BY <1>8 DEF text, acc, token

\* Every text of the queue is well made, and the next one will be.
TextInv == Dated(fs) /\ OwnAnswerLast

LEMMA TextInit == Init => TextInv
BY DEF Init, NewFrameState, TextInv, Dated, OwnAnswerLast

\* A step that queues no intermediate text.
LEMMA TextQueued ==
    ASSUME TextInv, Dated(fs'), NEW n \in Nat, DOMAIN out = 1 .. n,
           \A i \in DOMAIN out : out'[i] = out[i],
           \A i \in DOMAIN out' : i \in DOMAIN out \/ OwnLast(out'[i])
    PROVE  TextInv'
<1>1. \A i \in DOMAIN out' : OwnLast(out'[i])
    BY OwnLastOfAll DEF TextInv
<1>2. OwnAnswerLast'
    BY <1>1 DEF OwnAnswerLast, OwnLast, IsProgressive
<1> QED BY <1>2 DEF TextInv, Dated

LEMMA TextAnswer ==
    ASSUME TypeOK, TextInv, NEW t \in online, NEW has_text \in BOOLEAN,
           OnlineDone(t, has_text), t.epoch <= fs.online_epoch
    PROVE  TextInv'
<1> DEFINE token == [seg |-> t.seg, epoch |-> t.epoch]
           item == [seg |-> t.seg, type |-> "Progressive",
                    text |-> fs.online_accumulated_text \o <<token>>,
                    bg |-> t.bg, ed |-> t.ed, final |-> FALSE]
<1>1. /\ fs'.online_accumulated_text = fs.online_accumulated_text
      /\ fs'.online_epoch = fs.online_epoch
      /\ fs'.online_last_text = IF has_text THEN <<token>> ELSE fs.online_last_text
      /\ out' = IF has_text /\ Current(t) THEN Append(out, item) ELSE out
    BY DEF OnlineDone, TypeOK, FrameState
<1>2. Dated(fs')
    <2>1. Dated(fs) /\ token.epoch <= fs.online_epoch
        BY DEF TextInv
    <2> HIDE DEF token
    <2> QED BY <1>1, <2>1 DEF Dated
<1>3. CASE ~(has_text /\ Current(t))
    BY <1>1, <1>2, <1>3 DEF TextInv, Dated, OwnAnswerLast, IsProgressive
<1>4. CASE has_text /\ Current(t)
    <2>1. OwnLast(item)
        BY <1>4, AnswerText DEF TextInv
    <2> HIDE DEF item
    <2>2. /\ Len(out) \in Nat /\ DOMAIN out = 1 .. Len(out)
          /\ DOMAIN out' = 1 .. Len(out) + 1
          /\ out'[Len(out) + 1] = item
          /\ \A i \in DOMAIN out : out'[i] = out[i]
        BY <1>1, <1>4 DEF TypeOK
    <2>3. \A i \in DOMAIN out' : i \in DOMAIN out \/ OwnLast(out'[i])
        BY <2>1, <2>2
    <2> QED BY <1>2, <2>2, <2>3, TextQueued
<1> QED BY <1>3, <1>4

LEMMA TextStep ==
    TypeInv /\ OnlineBusyExact /\ TextInv /\ [Next]_vars => TextInv'
<1> SUFFICES ASSUME TypeInv, OnlineBusyExact, TextInv, [Next]_vars PROVE TextInv'
    OBVIOUS
<1>0. /\ TypeOK /\ fs \in FrameState /\ Dated(fs)
      /\ Len(out) \in Nat /\ DOMAIN out = 1 .. Len(out)
    BY DEF TypeInv, TypeOK, TextInv
<1>a. ASSUME Dated(fs'), out' = out PROVE TextInv'
    BY <1>a DEF TextInv, Dated, OwnAnswerLast, IsProgressive
<1>1. CASE UNCHANGED <<fs, out>>
    BY <1>1 DEF TextInv, Dated, OwnAnswerLast, IsProgressive
<1>2. CASE \E spans \in VadReports, in_speech \in BOOLEAN, silence \in Silences :
               FinishFeed(spans, in_speech, silence)
    <2>1. PICK spans \in VadReports, in_speech \in BOOLEAN, silence \in Silences :
               FinishFeed(spans, in_speech, silence)
        BY <1>2
    <2> DEFINE g == AfterCuts(fs, Len(spans))
               f == OnlineCut(g, in_speech, silence)
    <2>2. Len(spans) \in Nat /\ silence \in Nat
        BY VadReportsType, SilencesAssumption
    <2>3. g \in FrameState /\ Shape(g) /\ Dated(g)
        BY <1>0, <2>2, AfterCutsType, DatedAfterCuts DEF TypeInv
    <2> HIDE DEF g
    <2>4. f \in FrameState /\ Dated(f)
        BY <2>2, <2>3, OnlineCutType, DatedOnlineCut
    <2>5. \/ fs' = [f EXCEPT !.online_busy = TRUE,
                             !.online_last_trigger = f.online_total]
          \/ fs' = f
        BY <2>1 DEF FinishFeed, f, g
    <2> HIDE DEF f
    <2>6. /\ fs'.online_accumulated_text = f.online_accumulated_text
          /\ fs'.online_last_text = f.online_last_text
          /\ fs'.online_epoch = f.online_epoch
        BY <2>4, <2>5 DEF FrameState
    <2>7. Dated(fs') /\ out' = out
        BY <2>1, <2>4, <2>6, DatedSame DEF FinishFeed
    <2> QED BY <1>a, <2>7
<1>3. CASE \E tail \in VadSpans \cup {<<>>} : Flush(tail)
    <2>1. (fs' = fs \/ fs' = AfterCuts(fs, 1)) /\ out' = out
        BY <1>3 DEF Flush
    <2> QED BY <1>0, <1>a, <2>1, DatedAfterCuts
<1>4. CASE \E n \in FrameSizes : \E m \in Denoised(n) : ReceiveFrame(n, m)
    <2>1. PICK n \in FrameSizes : \E m \in Denoised(n) : ReceiveFrame(n, m)
        BY <1>4
    <2>2. PICK m \in Denoised(n) : ReceiveFrame(n, m)
        BY <2>1
    <2>3. /\ fs'.online_accumulated_text = fs.online_accumulated_text
          /\ fs'.online_last_text = fs.online_last_text
          /\ fs'.online_epoch = fs.online_epoch /\ out' = out
        BY <1>0, <2>2 DEF ReceiveFrame, Buffered, FrameState
    <2> QED BY <1>0, <1>a, <2>3, DatedSame
<1>5. CASE OnlineStep
    <2>1. PICK t \in online, has_text \in BOOLEAN : OnlineDone(t, has_text)
        BY <1>5 DEF OnlineStep
    <2>2. t.epoch <= fs.online_epoch
        BY DEF OnlineBusyExact
    <2> QED BY <1>0, <2>1, <2>2, TextAnswer
<1>6. CASE OfflineStep
    <2>1. fs' = fs /\ \E count \in Nat : \E batch : Queued(count, batch)
        BY <1>0, <1>6, OfflineQueues
    <2>c. PICK count \in Nat : \E batch : Queued(count, batch)
        BY <2>1
    <2>2. PICK batch : count \in Nat /\ Queued(count, batch)
        BY <2>c
    <2>3. \A i \in DOMAIN out : out'[i] = out[i]
        BY <2>2 DEF Queued
    <2>4. \A i \in DOMAIN out' : i \in DOMAIN out \/ OwnLast(out'[i])
        BY <2>2 DEF Queued, OwnLast, IsProgressive
    <2> QED BY <1>0, <2>1, <2>3, <2>4, TextQueued
<1>7. CASE Gather
    <2>1. out' = Append(out, FINALIZE_SENTINEL) /\ fs' = fs
        BY <1>7 DEF Gather
    <2>2. /\ DOMAIN out' = 1 .. Len(out) + 1
          /\ out'[Len(out) + 1] = FINALIZE_SENTINEL
          /\ \A i \in DOMAIN out : out'[i] = out[i]
        BY <1>0, <2>1 DEF TypeOK
    <2>3. \A i \in DOMAIN out' : i \in DOMAIN out \/ OwnLast(out'[i])
        BY <1>0, <2>2 DEF OwnLast, IsProgressive, FINALIZE_SENTINEL
    <2> QED BY <1>0, <2>1, <2>2, <2>3, TextQueued
<1>8. CASE SenderStep \/ UNCHANGED vars
    BY <1>1, <1>8 DEF SenderStep, SenderSend, SenderFinish, vars
<1> QED BY <1>1, <1>2, <1>3, <1>4, <1>5, <1>6, <1>7, <1>8
        DEF Next, HandlerStep, ClientStep, HandshakeFail, StreamClosed, Join, CleanUp,
            ReceiveEmptyFrame, ReceiveEndFrame, Abort, ClientDrop

\* An intermediate text ends with the answer of its own request, and all in
\* front of that was overtaken by a cut, for every order of answers and cuts.
THEOREM OwnAnswersAreLast == Spec => []OwnAnswerLast
<1>1. Init => OnlineBusyExact
    BY DEF Init, NewFrameState, OnlineBusyExact
<1>2. TextInv => OwnAnswerLast
    BY DEF TextInv
<1> QED BY <1>1, <1>2, TypeInit, TypeStep, BusyStep, TextInit, TextStep, PTL DEF Spec
-----------------------------------------------------------------------------
(* No audio is lost *)

\* NoAudioLost of any frame state and any list of submitted audio.
Covered(f, audio) ==
    \A p \in 0 .. f.abs_samples - 1 :
        \/ p \in Range(f.online_buf)
        \/ \E i \in DOMAIN audio : p \in Range(audio[i])

LEMMA CoveredBuffered ==
    ASSUME NEW f \in FrameState, NEW n \in Nat, NEW audio, Covered(f, audio)
    PROVE  Covered(Buffered(f, n), audio)
<1> DEFINE tail == [i \in 1..n |-> f.abs_samples + i - 1]
           buf == f.online_buf
           abs == f.abs_samples
           longer == buf \o tail
<1>1. buf \in Seq(Nat) /\ abs \in Nat /\ f.online_total \in Nat
    BY DEF FrameState
<1>2. tail \in Seq(Nat) /\ Len(tail) = n /\ \A i \in 1..n : tail[i] = abs + i - 1
    BY <1>1
<1>3. Covered(f, audio) <=> \A p \in 0 .. abs - 1 :
         p \in Range(buf) \/ \E i \in DOMAIN audio : p \in Range(audio[i])
    BY DEF Covered
<1>4. /\ Buffered(f, n).online_buf = longer
      /\ Buffered(f, n).abs_samples = abs + n
    BY <1>1 DEF Buffered, FrameState
<1> HIDE DEF tail, buf, abs
<1>5. /\ Len(longer) = Len(buf) + n /\ Len(buf) \in Nat
      /\ DOMAIN longer = 1 .. Len(buf) + n /\ DOMAIN buf = 1 .. Len(buf)
      /\ \A k \in 1 .. Len(buf) + n :
            longer[k] = IF k <= Len(buf) THEN buf[k] ELSE tail[k - Len(buf)]
    <2>1. /\ longer \in Seq(Nat) /\ Len(longer) = Len(buf) + Len(tail)
          /\ \A k \in 1 .. Len(buf) + Len(tail) :
                longer[k] = IF k <= Len(buf) THEN buf[k] ELSE tail[k - Len(buf)]
        BY <1>1, <1>2, ConcatProperties
    <2> HIDE DEF longer
    <2> QED BY <1>1, <1>2, <2>1
<1> HIDE DEF longer
<1>6. Range(buf) \subseteq Range(longer)
    <2> SUFFICES ASSUME NEW k \in DOMAIN buf PROVE buf[k] \in Range(longer)
        BY DEF Range
    <2>1. k \in DOMAIN longer /\ longer[k] = buf[k]
        BY <1>5
    <2> QED BY <2>1 DEF Range
<1>7. ASSUME NEW p \in abs .. abs + n - 1 PROVE p \in Range(longer)
    <2> DEFINE i == p - abs + 1
               k == Len(buf) + i
    <2>1. i \in 1..n /\ tail[i] = p
        BY <1>1, <1>2
    <2> HIDE DEF i
    <2>2. k \in DOMAIN longer /\ k - Len(buf) = i /\ ~(k <= Len(buf))
        BY <1>5, <2>1
    <2>3. longer[k] = p
        BY <1>5, <2>1, <2>2
    <2> QED BY <2>2, <2>3 DEF Range
<1>8. \A p \in 0 .. abs + n - 1 : p \in 0 .. abs - 1 \/ p \in abs .. abs + n - 1
    BY <1>1
<1>9. ASSUME NEW p \in 0 .. abs + n - 1
      PROVE  p \in Range(longer) \/ \E i \in DOMAIN audio : p \in Range(audio[i])
    BY <1>3, <1>6, <1>7, <1>8
<1> QED BY <1>1, <1>4, <1>9 DEF Covered

\* The first of the segments a frame closes takes the whole buffer.
LEMMA CoveredCut ==
    ASSUME TypeInv, Covered(fs, submitted), NEW spans \in Seq(Nat \X Nat),
           TriggerOffline(spans)
    PROVE  Covered(AfterCuts(fs, Len(spans)), submitted')
<1> DEFINE audio == [i \in DOMAIN spans |-> Job(fs, spans, i).audio]
<1>1. submitted' = submitted \o audio
    BY DEF TriggerOffline
<1>2. /\ Len(spans) \in Nat /\ DOMAIN spans = 1 .. Len(spans)
      /\ fs \in FrameState /\ Shape(fs) /\ fs.online_buf \in Seq(Nat)
      /\ fs.online_total = Len(fs.online_buf)
      /\ submitted \in Seq(Seq(Nat))
    BY DEF TypeInv, TypeOK, Shape, FrameState
<1>3. audio \in Seq(Seq(Nat)) /\ Len(audio) = Len(spans)
    <2>1. \A i \in DOMAIN spans : Job(fs, spans, i).audio \in Seq(Nat)
        BY <1>2, JobType DEF OfflineJob
    <2> QED BY <1>2, <2>1
<1>4. 1 \in DOMAIN spans /\ fs.online_total > 0 => audio[1] = fs.online_buf
    BY DEF Job
<1> HIDE DEF audio
<1>5. /\ Len(submitted) \in Nat
      /\ DOMAIN submitted' = 1 .. Len(submitted) + Len(spans)
      /\ DOMAIN submitted = 1 .. Len(submitted)
      /\ \A k \in 1 .. Len(submitted) + Len(spans) :
            submitted'[k] = IF k <= Len(submitted) THEN submitted[k]
                            ELSE audio[k - Len(submitted)]
    <2> DEFINE longer == submitted \o audio
    <2>1. /\ longer \in Seq(Seq(Nat)) /\ Len(longer) = Len(submitted) + Len(audio)
          /\ \A k \in 1 .. Len(submitted) + Len(audio) :
                longer[k] = IF k <= Len(submitted) THEN submitted[k]
                            ELSE audio[k - Len(submitted)]
        <3> DEFINE S == Seq(Nat)
        <3>1. submitted \in Seq(S) /\ audio \in Seq(S)
            BY <1>2, <1>3
        <3> HIDE DEF S
        <3>2. /\ longer \in Seq(S) /\ Len(longer) = Len(submitted) + Len(audio)
              /\ \A k \in 1 .. Len(submitted) + Len(audio) :
                    longer[k] = IF k <= Len(submitted) THEN submitted[k]
                                ELSE audio[k - Len(submitted)]
            BY <3>1, ConcatProperties
        <3> QED BY <3>2 DEF S
    <2>2. submitted' = longer
        BY <1>1
    <2> HIDE DEF longer
    <2> QED BY <1>2, <1>3, <2>1, <2>2
<1>6. \A i \in DOMAIN submitted : i \in DOMAIN submitted' /\ submitted'[i] = submitted[i]
    BY <1>2, <1>5
<1>7. CASE Len(spans) = 0
    <2>1. AfterCuts(fs, Len(spans)) = fs
        BY <1>7 DEF AfterCuts
    <2> QED BY <1>6, <2>1 DEF Covered
<1>8. CASE Len(spans) # 0
    <2>1. AfterCuts(fs, Len(spans)).abs_samples = fs.abs_samples
        BY <1>2, AfterCutsFields
    <2>2. ASSUME NEW p \in Range(fs.online_buf)
          PROVE  \E i \in DOMAIN submitted' : p \in Range(submitted'[i])
        <3>1. DOMAIN fs.online_buf # {}
            BY <2>2 DEF Range
        <3>2. fs.online_total > 0
            BY <1>2, <3>1
        <3>3. 1 \in DOMAIN spans
            BY <1>2, <1>8
        <3> DEFINE k == Len(submitted) + 1
        <3>4. k \in DOMAIN submitted' /\ submitted'[k] = audio[1]
            <4>1. /\ k \in 1 .. Len(submitted) + Len(spans)
                  /\ ~(k <= Len(submitted)) /\ k - Len(submitted) = 1
                BY <1>2, <1>5, <1>8
            <4> QED BY <1>5, <4>1
        <3> QED BY <1>4, <2>2, <3>2, <3>3, <3>4
    <2> QED BY <1>6, <2>1, <2>2 DEF Covered
<1> QED BY <1>7, <1>8

LEMMA CoveredSame ==
    ASSUME NEW f, NEW g, NEW audio, Covered(f, audio),
           g.online_buf = f.online_buf, g.abs_samples = f.abs_samples
    PROVE  Covered(g, audio)
BY DEF Covered

LEMMA AudioFlush ==
    ASSUME TypeInv, NoAudioLost, NEW tail \in VadSpans \cup {<<>>}, Flush(tail)
    PROVE  NoAudioLost'
<1>1. /\ fs.online_total = Len(fs.online_buf) /\ fs.online_buf \in Seq(Nat)
      /\ fs.online_total \in Nat /\ Covered(fs, submitted)
    BY DEF TypeInv, TypeOK, Shape, FrameState, NoAudioLost, Covered
<1>2. CASE NothingLeft(tail)
    <2>1. fs.online_buf = <<>> /\ fs' = fs /\ submitted' = submitted
        <3>1. Len(fs.online_buf) = 0
            BY <1>1, <1>2 DEF NothingLeft
        <3>2. fs.online_buf = <<>>
            BY <1>1, <3>1, EmptySeq
        <3> QED BY <1>2, <3>2 DEF Flush
    <2> QED BY <2>1 DEF NoAudioLost
<1>3. CASE ~NothingLeft(tail)
    <2> DEFINE last == IF tail = <<>> THEN <<0, fs.online_total>> ELSE tail
    <2>1. last \in Nat \X Nat
        BY <1>1, VadSpansAssumption
    <2>2. TriggerOffline(<<last>>) /\ fs' = AfterCuts(fs, 1)
        BY <1>3 DEF Flush
    <2> HIDE DEF last
    <2>3. <<last>> \in Seq(Nat \X Nat) /\ Len(<<last>>) = 1
        BY <2>1
    <2>4. Covered(fs', submitted')
        BY <1>1, <2>2, <2>3, CoveredCut
    <2>5. fs'.online_buf = <<>>
        BY <2>2 DEF AfterCuts, TypeInv, TypeOK, FrameState
    <2> QED BY <2>4, <2>5 DEF NoAudioLost, Covered
<1> QED BY <1>2, <1>3

LEMMA AudioStep == TypeInv /\ NoAudioLost /\ [Next]_vars => NoAudioLost'
<1> SUFFICES ASSUME TypeInv, NoAudioLost, [Next]_vars PROVE NoAudioLost'
    OBVIOUS
<1>0. fs \in FrameState /\ Covered(fs, submitted)
    BY DEF TypeInv, TypeOK, NoAudioLost, Covered
<1>a. ASSUME Covered(fs', submitted'), pc' \notin {"gather", "join"} PROVE NoAudioLost'
    BY <1>a DEF NoAudioLost, Covered
<1>1. CASE UNCHANGED <<fs, submitted>> /\ (pc' \in {"gather", "join"} => pc \in {"gather", "join"})
    BY <1>1 DEF NoAudioLost
<1>2. CASE \E spans \in VadReports, in_speech \in BOOLEAN, silence \in Silences :
               FinishFeed(spans, in_speech, silence)
    <2>1. PICK spans \in VadReports, in_speech \in BOOLEAN, silence \in Silences :
               FinishFeed(spans, in_speech, silence)
        BY <1>2
    <2> DEFINE g == AfterCuts(fs, Len(spans))
               f == OnlineCut(g, in_speech, silence)
    <2>2. spans \in Seq(Nat \X Nat) /\ Len(spans) \in Nat /\ silence \in Nat
        BY VadReportsType, SilencesAssumption
    <2>3. g \in FrameState /\ Shape(g) /\ Covered(g, submitted')
        BY <1>0, <2>1, <2>2, AfterCutsType, CoveredCut DEF TypeInv, FinishFeed
    <2> HIDE DEF g
    <2>4. f.online_buf = g.online_buf /\ f.abs_samples = g.abs_samples
        BY <2>3 DEF OnlineCut, FrameState
    <2>5. f \in FrameState
        BY <2>2, <2>3, OnlineCutType
    <2>6. \/ fs' = [f EXCEPT !.online_busy = TRUE,
                             !.online_last_trigger = f.online_total]
          \/ fs' = f
        BY <2>1 DEF FinishFeed, f, g
    <2> HIDE DEF f
    <2>7. fs'.online_buf = g.online_buf /\ fs'.abs_samples = g.abs_samples
        BY <2>4, <2>5, <2>6 DEF FrameState
    <2>8. Covered(fs', submitted') /\ pc' = "recv"
        BY <2>1, <2>3, <2>7, CoveredSame DEF FinishFeed
    <2> QED BY <1>a, <2>8
<1>3. CASE \E tail \in VadSpans \cup {<<>>} : Flush(tail)
    BY <1>3, AudioFlush
<1>4. CASE \E n \in FrameSizes : \E m \in Denoised(n) : ReceiveFrame(n, m)
    <2>1. PICK n \in FrameSizes : \E m \in Denoised(n) : ReceiveFrame(n, m)
        BY <1>4
    <2>2. PICK m \in Denoised(n) : ReceiveFrame(n, m)
        BY <2>1
    <2>3. m \in Nat
        BY <1>0, FrameSizesAssumption DEF Denoised, TypeInv, TypeOK, FrameState
    <2>4. fs' = Buffered(fs, m) /\ submitted' = submitted /\ pc' = "feeding"
        BY <2>2 DEF ReceiveFrame
    <2> QED BY <1>0, <1>a, <2>3, <2>4, CoveredBuffered
<1>5. CASE OnlineStep
    <2>1. /\ fs'.online_buf = fs.online_buf /\ fs'.abs_samples = fs.abs_samples
          /\ submitted' = submitted /\ pc' = pc
        BY <1>0, <1>5 DEF OnlineStep, OnlineDone, FrameState
    <2>2. Covered(fs', submitted')
        BY <1>0, <2>1, CoveredSame
    <2> QED BY <2>1, <2>2 DEF NoAudioLost, Covered
<1>6. CASE OfflineStep \/ SenderStep \/ UNCHANGED vars
    BY <1>1, <1>6 DEF OfflineStep, OfflineDone, SenderStep, SenderSend, SenderFinish, vars
<1> QED BY <1>1, <1>2, <1>3, <1>4, <1>5, <1>6
        DEF Next, HandlerStep, ClientStep, HandshakeFail, StreamClosed, Gather, Join, CleanUp,
            ReceiveEmptyFrame, ReceiveEndFrame, Abort, ClientDrop

\* Every sample buffered is in the online buffer or was given to an offline
\* task, and the buffer is empty when the stream is flushed.
THEOREM AudioIsKept == Spec => []NoAudioLost
<1>1. Init => NoAudioLost
    BY DEF Init, NewFrameState, NoAudioLost
<1> QED BY <1>1, TypeInit, TypeStep, AudioStep, PTL DEF Spec
-----------------------------------------------------------------------------
(* The end of the stream *)

\* Only the segment the flush closed is the final one, and once it is there
\* nothing can queue an intermediate text: the cut overtook every request.
FinalInv ==
    /\ EndInv
    /\ SentinelLast
    /\ FinalIsLastSegment
    /\ \A i \in DOMAIN out : IsProgressive(out[i]) => ~out[i].final
    /\ \A i \in DOMAIN out : IsSentence(out[i]) /\ out[i].final
          => final_seg_id # None /\ out[i].seg = final_seg_id
    /\ final_seg_id # None =>
          /\ pc \in {"gather", "join", "finally", "closed"}
          /\ final_seg_id = fs.seg_id - 1
          /\ \A t \in online : t.epoch # fs.online_epoch

LEMMA FinalInit == Init => FinalInv
BY DEF Init, NewFrameState, FinalInv, EndInv, SentinelLast, FinalIsLastSegment, None

\* A queue that does not change, while no final segment is chosen anew.
LEMMA FinalKept ==
    ASSUME FinalInv, EndInv', out' = out, final_seg_id' = final_seg_id,
           final_seg_id # None =>
              /\ pc' \in {"gather", "join", "finally", "closed"}
              /\ fs'.seg_id = fs.seg_id /\ fs'.online_epoch = fs.online_epoch
              /\ online' \subseteq online
    PROVE  FinalInv'
<1>1. CASE final_seg_id = None
    BY <1>1 DEF FinalInv, SentinelLast, FinalIsLastSegment, IsSentence, IsProgressive
<1>2. CASE final_seg_id # None
    BY <1>2 DEF FinalInv, SentinelLast, FinalIsLastSegment, IsSentence, IsProgressive
<1> QED BY <1>1, <1>2

LEMMA FinalAnswer ==
    ASSUME TypeInv, OnlineBusyExact, FinalInv, EndInv', NEW t \in online,
           NEW has_text \in BOOLEAN, OnlineDone(t, has_text)
    PROVE  FinalInv'
<1>1. /\ fs'.seg_id = fs.seg_id /\ fs'.online_epoch = fs.online_epoch
      /\ online' \subseteq online /\ pc' = pc /\ final_seg_id' = final_seg_id
    BY DEF OnlineDone, reorder, TypeInv, TypeOK, FrameState
<1>2. CASE ~(has_text /\ Current(t))
    <2>1. out' = out
        BY <1>2 DEF OnlineDone
    <2> QED BY <1>1, <2>1, FinalKept DEF FinalInv
<1>3. CASE has_text /\ Current(t)
    <2> DEFINE item == [seg |-> t.seg, type |-> "Progressive",
                        text |-> fs.online_accumulated_text
                                   \o <<[seg |-> t.seg, epoch |-> t.epoch]>>,
                        bg |-> t.bg, ed |-> t.ed, final |-> FALSE]
    <2>1. out' = Append(out, item)
        BY <1>3 DEF OnlineDone
    <2>2. item.type = "Progressive" /\ item.final = FALSE
        OBVIOUS
    <2> HIDE DEF item
    <2>3. /\ DOMAIN out' = 1 .. Len(out) + 1
          /\ out'[Len(out) + 1] = item
          /\ \A i \in DOMAIN out : out'[i] = out[i]
          /\ DOMAIN out = 1 .. Len(out) /\ Len(out) \in Nat
        BY <2>1 DEF TypeInv, TypeOK
    <2>4. final_seg_id = None
        BY <1>3 DEF FinalInv, Current
    <2>5. \A i \in DOMAIN out : out[i] # FINALIZE_SENTINEL
                                /\ ~(IsSentence(out[i]) /\ out[i].final)
        BY <2>4 DEF FinalInv, EndInv
    <2>6. item # FINALIZE_SENTINEL /\ ~IsSentence(item)
        BY <2>2 DEF FINALIZE_SENTINEL, IsSentence
    <2>7. \A i \in DOMAIN out' :
             /\ out'[i] # FINALIZE_SENTINEL
             /\ ~(IsSentence(out'[i]) /\ out'[i].final)
             /\ IsProgressive(out'[i]) => ~out'[i].final
        <3> TAKE i \in DOMAIN out'
        <3>1. CASE i \in DOMAIN out
            BY <2>3, <2>5, <3>1 DEF FinalInv
        <3>2. CASE i = Len(out) + 1
            BY <2>2, <2>3, <2>6, <3>2
        <3> QED BY <2>3, <3>1, <3>2
    <2> QED BY <1>1, <2>4, <2>7
            DEF FinalInv, SentinelLast, FinalIsLastSegment, IsSentence, IsProgressive
<1> QED BY <1>2, <1>3

\* A task that is still running has a segment the pointer has not passed, so
\* the final sentence is not queued yet: it may be the last the step queues.
LEMMA FinalRelease ==
    ASSUME TypeInv, PlaceInv, QueueInv, FinalInv, EndInv', OfflineStep
    PROVE  FinalInv'
<1>1. PICK j \in offline, has_text \in BOOLEAN : OfflineDone(j, has_text)
    BY DEF OfflineStep
<1>2. /\ UNCHANGED <<pc, fs, online>> /\ final_seg_id' = final_seg_id
      /\ j.seg \in Nat /\ next_seg_id_to_send \in Nat /\ fs.seg_id \in Nat
      /\ next_seg_id_to_send <= j.seg /\ j.seg < fs.seg_id
    BY <1>1 DEF OfflineDone, AdvanceReorderPointer, Release, TypeInv, TypeOK, OfflineJob,
                FrameState, PlaceInv, Placed
<1>3. \A i \in DOMAIN out : out[i] # FINALIZE_SENTINEL
    BY DEF FinalInv, EndInv
<1>4. \A i \in DOMAIN out : ~(IsSentence(out[i]) /\ out[i].final)
    <2> SUFFICES ASSUME NEW i \in DOMAIN out, IsSentence(out[i]), out[i].final PROVE FALSE
        OBVIOUS
    <2>1. out[i].seg = fs.seg_id - 1 /\ out[i].seg < next_seg_id_to_send
        BY DEF FinalInv, QueueInv, QueueBehindPointer
    <2> QED BY <1>2, <2>1
<1>c. PICK count \in Nat : \E batch :
         /\ Queued(count, batch)
         /\ \A a \in 1..count : batch[a] \in Nat /\ batch[a] < fs.seg_id
         /\ \A a, b \in 1..count : a < b => batch[a] < batch[b]
    BY OfflineQueues DEF TypeInv
<1>5. PICK batch :
         /\ count \in Nat
         /\ Queued(count, batch)
         /\ \A a \in 1..count : batch[a] \in Nat /\ batch[a] < fs.seg_id
         /\ \A a, b \in 1..count : a < b => batch[a] < batch[b]
    BY <1>c
<1>6. /\ DOMAIN out' = 1 .. Len(out) + count /\ Len(out) \in Nat
      /\ DOMAIN out = 1..Len(out) /\ Len(out') = Len(out) + count
      /\ \A i \in 1..Len(out) : out'[i] = out[i]
    <2>1. out' \in Seq(Message \cup {FINALIZE_SENTINEL})
        <3>1. TypeInv'
            BY <1>1, OfflineDoneType
        <3> QED BY <3>1 DEF TypeInv, TypeOK
    <2>2. DOMAIN out' = 1 .. Len(out') /\ Len(out') \in Nat
        BY <2>1
    <2> QED BY <1>5, <2>2 DEF Queued
<1>7. \A i \in Len(out) + 1 .. Len(out) + count :
         /\ i - Len(out) \in 1..count
         /\ out'[i].type = "sentence" /\ out'[i].seg = batch[i - Len(out)]
         /\ out'[i].final = (batch[i - Len(out)] = final_seg_id)
    BY <1>5 DEF Queued
<1>8. \A i \in DOMAIN out' : i \in DOMAIN out \/ i \in Len(out) + 1 .. Len(out) + count
    BY <1>6
<1>9. \A i \in DOMAIN out' : out'[i] # FINALIZE_SENTINEL
    BY <1>3, <1>6, <1>7, <1>8 DEF FINALIZE_SENTINEL
<1>10. \A i \in DOMAIN out' : IsProgressive(out'[i]) => ~out'[i].final
    BY <1>6, <1>7, <1>8 DEF FinalInv, IsProgressive
<1>11. ASSUME NEW i \in DOMAIN out', IsSentence(out'[i]), out'[i].final
       PROVE  /\ final_seg_id # None /\ out'[i].seg = final_seg_id
              /\ i = Len(out')
    <2>1. i \in Len(out) + 1 .. Len(out) + count
        BY <1>4, <1>6, <1>8, <1>11
    <2> DEFINE a == i - Len(out)
    <2>2. a \in 1..count /\ batch[a] = final_seg_id /\ out'[i].seg = batch[a]
        BY <1>7, <1>11, <2>1
    <2>3. batch[a] \in Nat /\ final_seg_id # None
        BY <1>5, <2>2 DEF None
    <2>4. batch[a] = fs.seg_id - 1
        BY <2>2, <2>3 DEF FinalInv
    <2>5. ~(a < count)
        <3> SUFFICES ASSUME a < count PROVE FALSE
            OBVIOUS
        <3> HIDE DEF a
        <3>1. count \in 1..count
            BY <2>2
        <3>2. batch[a] < batch[count] /\ batch[count] < fs.seg_id /\ batch[count] \in Nat
            BY <1>5, <2>2, <3>1
        <3> QED BY <1>2, <2>4, <3>2
    <2>6. i = Len(out')
        BY <1>6, <2>1, <2>2, <2>5
    <2> QED BY <2>2, <2>3, <2>6
<1>12. FinalIsLastSegment'
    <2> SUFFICES ASSUME NEW i \in DOMAIN out', IsSentence(out'[i]), out'[i].final
                 PROVE  /\ out'[i].seg = fs'.seg_id - 1
                        /\ \A k \in i + 1 .. Len(out') : out'[k] = FINALIZE_SENTINEL
        BY DEF FinalIsLastSegment, IsSentence
    <2>1. out'[i].seg = fs.seg_id - 1 /\ i = Len(out') /\ Len(out') \in Nat
        BY <1>6, <1>11 DEF FinalInv
    <2> QED BY <1>2, <2>1
<1>13. SentinelLast'
    BY <1>9 DEF SentinelLast
<1> HIDE DEF FinalInv
<1>14. /\ \A i \in DOMAIN out' : IsProgressive(out'[i]) => ~out'[i].final
       /\ \A i \in DOMAIN out' : IsSentence(out'[i]) /\ out'[i].final
            => final_seg_id' # None /\ out'[i].seg = final_seg_id'
    BY <1>2, <1>10, <1>11
<1> QED BY <1>2, <1>12, <1>13, <1>14 DEF FinalInv, IsSentence, IsProgressive

LEMMA FinalFlush ==
    ASSUME TypeInv, OnlineBusyExact, FinalInv, EndInv',
           NEW tail \in VadSpans \cup {<<>>}, Flush(tail)
    PROVE  FinalInv'
<1>1. pc = "flushing" /\ pc' = "gather" /\ out' = out /\ online' = online
    BY DEF Flush
<1>2. final_seg_id = None
    BY <1>1 DEF FinalInv
<1>3. CASE NothingLeft(tail)
    BY <1>1, <1>2, <1>3, FinalKept DEF Flush, reorder
<1>4. CASE ~NothingLeft(tail)
    <2>1. final_seg_id' = fs.seg_id /\ fs' = AfterCuts(fs, 1)
        BY <1>4 DEF Flush, FinalSegment
    <2>2. /\ fs.seg_id \in Nat /\ fs.online_epoch \in Nat
          /\ fs'.seg_id = fs.seg_id + 1 /\ fs'.online_epoch = fs.online_epoch + 1
        BY <2>1, AfterCutsFields DEF TypeInv, TypeOK, FrameState
    <2>3. \A t \in online' : t.epoch # fs'.online_epoch
        <3> TAKE t \in online'
        <3>1. t.epoch \in Nat /\ t.epoch <= fs.online_epoch
            BY <1>1 DEF OnlineBusyExact, TypeInv, TypeOK, OnlineTask
        <3> QED BY <2>2, <3>1
    <2>4. \A i \in DOMAIN out : ~(IsSentence(out[i]) /\ out[i].final)
        BY <1>2 DEF FinalInv
    <2>5. final_seg_id' = fs'.seg_id - 1
        BY <2>1, <2>2
    <2> QED BY <1>1, <2>3, <2>4, <2>5
            DEF FinalInv, SentinelLast, FinalIsLastSegment, IsSentence, IsProgressive
<1> QED BY <1>3, <1>4

LEMMA FinalGather ==
    ASSUME TypeOK, FinalInv, EndInv', Gather PROVE FinalInv'
<1>1. /\ out' = Append(out, FINALIZE_SENTINEL) /\ UNCHANGED <<fs, online>>
      /\ final_seg_id' = final_seg_id /\ pc' = "join"
      /\ \A i \in DOMAIN out : out[i] # FINALIZE_SENTINEL
    BY DEF Gather, taskVars, reorder, FinalInv, EndInv
<1>2. /\ DOMAIN out' = 1 .. Len(out) + 1 /\ Len(out') = Len(out) + 1
      /\ out'[Len(out) + 1] = FINALIZE_SENTINEL
      /\ \A i \in DOMAIN out : out'[i] = out[i]
      /\ DOMAIN out = 1 .. Len(out) /\ Len(out) \in Nat
    BY <1>1 DEF TypeOK
<1>3. SentinelLast'
    BY <1>1, <1>2 DEF SentinelLast
<1>4. ~IsSentence(FINALIZE_SENTINEL) /\ ~IsProgressive(FINALIZE_SENTINEL)
    BY DEF IsSentence, IsProgressive, FINALIZE_SENTINEL
<1>5. \A i \in DOMAIN out' : \/ i \in DOMAIN out /\ out'[i] = out[i]
                             \/ out'[i] = FINALIZE_SENTINEL
    BY <1>2
<1>6. FinalIsLastSegment'
    <2> SUFFICES ASSUME NEW i \in DOMAIN out', IsSentence(out'[i]), out'[i].final
                 PROVE  /\ out'[i].seg = fs.seg_id - 1
                        /\ \A k \in i + 1 .. Len(out') : out'[k] = FINALIZE_SENTINEL
        BY <1>1 DEF FinalIsLastSegment, IsSentence
    <2>1. i \in DOMAIN out /\ out'[i] = out[i]
        BY <1>4, <1>5
    <2>2. /\ out[i].seg = fs.seg_id - 1
          /\ \A k \in i + 1 .. Len(out) : out[k] = FINALIZE_SENTINEL
        BY <2>1 DEF FinalInv, FinalIsLastSegment
    <2> QED BY <1>2, <2>1, <2>2
<1> QED BY <1>1, <1>3, <1>4, <1>5, <1>6 DEF FinalInv, IsSentence, IsProgressive

LEMMA FinalStep ==
    TypeInv /\ OnlineBusyExact /\ PlaceInv /\ QueueInv /\ FinalInv /\ [Next]_vars
        => FinalInv'
<1> SUFFICES ASSUME TypeInv, OnlineBusyExact, PlaceInv, QueueInv, FinalInv, [Next]_vars
             PROVE  FinalInv'
    OBVIOUS
<1>0. EndInv' /\ TypeOK
    BY EndStep DEF FinalInv, TypeInv
<1>1. CASE /\ UNCHANGED <<fs, online, out, final_seg_id>>
           /\ pc' = pc \/ pc' \in {"gather", "join", "finally", "closed"}
    BY <1>0, <1>1, FinalKept DEF FinalInv
<1>2. CASE UNCHANGED <<out, final_seg_id>> /\ pc \in {"handshake", "recv", "feeding", "flushing"}
    <2>1. final_seg_id = None
        BY <1>2 DEF FinalInv
    <2> QED BY <1>0, <1>2, <2>1, FinalKept
<1>3. CASE \E tail \in VadSpans \cup {<<>>} : Flush(tail)
    BY <1>0, <1>3, FinalFlush
<1>4. CASE Gather
    BY <1>0, <1>4, FinalGather
<1>5. CASE OnlineStep
    BY <1>0, <1>5, FinalAnswer DEF OnlineStep
<1>6. CASE OfflineStep
    BY <1>0, <1>6, FinalRelease
<1>7. CASE SenderStep \/ UNCHANGED vars
    BY <1>1, <1>7 DEF SenderStep, SenderSend, SenderFinish, vars, taskVars, reorder
<1>8. CASE ClientStep
    BY <1>1, <1>2, <1>8 DEF ClientStep, ReceiveEmptyFrame, ReceiveFrame, ReceiveEndFrame,
                      Abort, ClientDrop, taskVars, reorder
<1>9. CASE HandlerStep
    BY <1>1, <1>2, <1>3, <1>4, <1>9
       DEF HandlerStep, HandshakeFail, FinishFeed, StreamClosed, Join, CleanUp, taskVars,
           reorder
<1> QED BY <1>5, <1>6, <1>7, <1>8, <1>9 DEF Next

-----------------------------------------------------------------------------
(* What the client sees of the end *)

HasFinal(n) == \E i \in 1..n : IsSentence(out[i]) /\ out[i].final

\* The sender's two flags tell what is on the wire, as long as the client is
\* there to see it.
StatusInv ==
    /\ pc = "handshake" => sender = "none"
    /\ last_sent = <<>> => wire = <<>>
    /\ sent_final => HasFinal(taken)
    /\ ~sent_final /\ sender # "done" => \A i \in 1..Len(wire) : wire[i].status # 2
    /\ connected /\ sent_final => wire # <<>> /\ wire[Len(wire)].status = 2
    /\ StatusProtocol

LEMMA StatusInit == Init => StatusInv
BY DEF Init, NewFrameState, StatusInv, StatusProtocol

\* A step that sends nothing.
LEMMA StatusKept ==
    ASSUME StatusInv, UNCHANGED <<taken, last_sent, sent_final, wire>>,
           HasFinal(taken) => HasFinal(taken)',
           connected' => connected,
           pc' = "handshake" => pc = "handshake",
           \/ sender' = sender
           \/ pc' # "handshake" /\ sender' \in {"running", "cancelled"} /\ sender # "done"
    PROVE  StatusInv'
<1>1. (sender' = "done" <=> sender = "done") /\ (pc' = "handshake" => sender' = "none")
    BY DEF StatusInv
<1>2. StatusProtocol'
    BY <1>1 DEF StatusInv, StatusProtocol
<1> QED BY <1>1, <1>2 DEF StatusInv

\* One more frame on the wire, or the same wire when the client is gone.
LEMMA SendItems ==
    ASSUME TypeOK, NEW msg, NEW status, Send(msg, status)
    PROVE  \/ connected /\ Len(wire') = Len(wire) + 1 /\ DOMAIN wire' = 1 .. Len(wire) + 1
              /\ wire'[Len(wire) + 1].status = status /\ wire' # <<>>
              /\ \A i \in 1..Len(wire) : wire'[i] = wire[i]
           \/ ~connected /\ wire' = wire
<1>1. CASE connected
    <2> DEFINE frame == [msg |-> msg, status |-> status]
               F == [msg : Message, status : 0..2]
               W == F \cup {frame}
    <2>1. wire \in Seq(F)
        BY DEF TypeOK
    <2>2. wire' = Append(wire, frame) /\ frame.status = status
        BY <1>1 DEF Send
    <2> HIDE DEF frame, F
    <2>3. wire \in Seq(W) /\ frame \in W
        BY <2>1, SeqMonotonic
    <2> HIDE DEF W
    <2>4. /\ wire' \in Seq(W) /\ Len(wire') = Len(wire) + 1 /\ Len(wire) \in Nat
          /\ wire'[Len(wire) + 1] = frame
          /\ \A i \in 1..Len(wire) : wire'[i] = wire[i]
        BY <2>2, <2>3, AppendProperties
    <2>5. DOMAIN wire' = 1 .. Len(wire) + 1 /\ wire' # <<>>
        BY <2>4
    <2> QED BY <1>1, <2>2, <2>4, <2>5
<1>2. CASE ~connected
    BY <1>2 DEF Send
<1> QED BY <1>1, <1>2

LEMMA StatusSend ==
    ASSUME TypeInv, FinalInv, StatusInv, SenderSend PROVE StatusInv'
<1> DEFINE item == out[taken + 1]
<1>1. /\ TypeOK /\ taken \in Nat /\ taken + 1 \in DOMAIN out /\ Len(wire) \in Nat
      /\ DOMAIN wire = 1..Len(wire) /\ Len(out) \in Nat /\ DOMAIN out = 1..Len(out)
    BY DEF SenderSend, Takes, TypeInv, TypeOK
<1>2. item \in Message /\ item # FINALIZE_SENTINEL
    BY <1>1 DEF SenderSend, TypeOK
<1>3. ~sent_final
    <2> SUFFICES ASSUME sent_final PROVE FALSE
        OBVIOUS
    <2>1. PICK i \in 1..taken : IsSentence(out[i]) /\ out[i].final
        BY DEF StatusInv, HasFinal
    <2>2. i \in DOMAIN out /\ taken + 1 \in i + 1 .. Len(out)
        BY <1>1, <2>1
    <2> QED BY <1>2, <2>1, <2>2 DEF FinalInv, FinalIsLastSegment
<1>4. /\ sender = "running" /\ sender' = "running" /\ pc' = pc /\ connected' = connected
      /\ taken' = taken + 1 /\ out' = out /\ last_sent' = <<item>>
      /\ sent_final' = (sent_final \/ item.final)
      /\ Send(item, StatusOf(item))
    BY DEF SenderSend, Takes, clientVars
<1>5. \A i \in 1..Len(wire) : wire[i].status # 2
    BY <1>3, <1>4 DEF StatusInv
<1>6. item.final => HasFinal(taken)'
    <2> HAVE item.final
    <2>1. item.type = "Progressive" \/ item.type = "sentence"
        BY <1>2 DEF Message
    <2>2. IsSentence(item)
        BY <1>1, <2>1 DEF FinalInv, IsSentence, IsProgressive
    <2>3. taken + 1 \in 1..taken'
        BY <1>1, <1>4
    <2> QED BY <1>4, <2>2, <2>3 DEF HasFinal, IsSentence
<1>7. item.final \in BOOLEAN
    BY <1>2 DEF Message
<1> HIDE DEF item
<1>8. /\ StatusOf(item) = 2 <=> item.final
      /\ StatusOf(item) = 0 => last_sent = <<>>
    BY <1>7 DEF StatusOf
<1>9. \/ connected /\ Len(wire') = Len(wire) + 1 /\ DOMAIN wire' = 1 .. Len(wire) + 1
         /\ wire'[Len(wire) + 1].status = StatusOf(item) /\ wire' # <<>>
         /\ \A i \in 1..Len(wire) : wire'[i] = wire[i]
      \/ ~connected /\ wire' = wire
    BY <1>1, <1>4, SendItems
<1>10. last_sent' # <<>>
    BY <1>4
<1>11. sent_final' <=> item.final
    BY <1>3, <1>4, <1>7 DEF TypeOK
<1>12. ~item.final => \A i \in 1..Len(wire') : wire'[i].status # 2
    BY <1>1, <1>5, <1>8, <1>9
<1>13. connected' /\ item.final => wire' # <<>> /\ wire'[Len(wire')].status = 2
    BY <1>4, <1>8, <1>9
<1>14. StatusProtocol'
    <2>1. ASSUME NEW i \in DOMAIN wire' PROVE /\ wire'[i].status = 0 => i = 1
                                              /\ wire'[i].status = 2 => i = Len(wire')
        <3>1. CASE wire' = wire
            BY <1>1, <1>5, <3>1 DEF StatusInv, StatusProtocol
        <3>2. CASE wire' # wire /\ i \in 1..Len(wire)
            BY <1>1, <1>5, <1>9, <3>2 DEF StatusInv, StatusProtocol
        <3>3. CASE wire' # wire /\ i = Len(wire) + 1
            <4>1. StatusOf(item) = 0 => Len(wire) = 0
                BY <1>8 DEF StatusInv
            <4> QED BY <1>9, <3>3, <4>1
        <3> QED BY <1>1, <1>9, <3>1, <3>2, <3>3
    <2> QED BY <1>4, <2>1 DEF StatusProtocol
<1> QED BY <1>4, <1>6, <1>10, <1>11, <1>12, <1>13, <1>14 DEF StatusInv

LEMMA StatusFinish ==
    ASSUME TypeInv, StatusInv, SenderFinish PROVE StatusInv'
<1>1. /\ TypeOK /\ taken \in Nat /\ Len(wire) \in Nat /\ DOMAIN wire = 1..Len(wire)
    BY DEF TypeInv, TypeOK
<1>2. /\ sender = "running" /\ sender' = "done" /\ pc' = pc /\ connected' = connected
      /\ taken' = taken + 1
      /\ UNCHANGED <<out, last_sent, sent_final>>
    BY DEF SenderFinish, Takes, clientVars
<1>3. HasFinal(taken) => HasFinal(taken)'
    BY <1>1, <1>2 DEF HasFinal, IsSentence
<1>4. pc # "handshake"
    BY <1>2 DEF StatusInv
<1>5. CASE NeedsTerminal
    <2> DEFINE msg == [last_sent[1] EXCEPT !.text = <<>>, !.final = TRUE]
    <2>1. Send(msg, 2) /\ ~sent_final /\ last_sent # <<>>
        BY <1>5 DEF SenderFinish, NeedsTerminal
    <2> HIDE DEF msg
    <2>2. \/ connected /\ Len(wire') = Len(wire) + 1 /\ DOMAIN wire' = 1 .. Len(wire) + 1
             /\ wire'[Len(wire) + 1].status = 2 /\ wire' # <<>>
             /\ \A i \in 1..Len(wire) : wire'[i] = wire[i]
          \/ ~connected /\ wire' = wire
        BY <1>1, <2>1, SendItems
    <2>3. \A i \in 1..Len(wire) : wire[i].status # 2
        BY <1>2, <2>1 DEF StatusInv
    <2>4. StatusProtocol'
        BY <1>1, <1>2, <2>2, <2>3 DEF StatusInv, StatusProtocol
    <2> QED BY <1>2, <1>4, <2>1, <2>4 DEF StatusInv
<1>6. CASE ~NeedsTerminal
    <2>1. wire' = wire /\ (sent_final \/ last_sent = <<>>)
        BY <1>6 DEF SenderFinish, NeedsTerminal
    <2>2. connected /\ wire # <<>> => wire[Len(wire)].status = 2
        BY <2>1 DEF StatusInv
    <2>3. StatusProtocol'
        BY <1>2, <2>1, <2>2 DEF StatusInv, StatusProtocol
    <2> QED BY <1>2, <1>3, <1>4, <2>1, <2>3 DEF StatusInv
<1> QED BY <1>5, <1>6

LEMMA StatusStep ==
    TypeInv /\ FinalInv /\ StatusInv /\ [Next]_vars => StatusInv'
<1> SUFFICES ASSUME TypeInv, FinalInv, StatusInv, [Next]_vars PROVE StatusInv'
    OBVIOUS
<1>0. TypeOK /\ taken \in 0..Len(out) /\ Len(out) \in Nat /\ DOMAIN out = 1..Len(out)
    BY DEF TypeInv, TypeOK
<1>a. ASSUME taken' = taken, \A i \in DOMAIN out : out'[i] = out[i]
      PROVE  HasFinal(taken) => HasFinal(taken)'
    BY <1>0, <1>a DEF HasFinal, IsSentence
<1>1. CASE /\ UNCHANGED <<out, taken, last_sent, sent_final, wire>>
           /\ connected' => connected
           /\ pc' = "handshake" => pc = "handshake"
           /\ \/ sender' = sender
              \/ pc' # "handshake" /\ sender' \in {"running", "cancelled"} /\ sender # "done"
    BY <1>1, <1>a, StatusKept
<1>2. CASE OnlineStep
    <2>1. PICK t \in online, has_text \in BOOLEAN : OnlineDone(t, has_text)
        BY <1>2 DEF OnlineStep
    <2>2. \A i \in DOMAIN out : out'[i] = out[i]
        <3> DEFINE item == [seg |-> t.seg, type |-> "Progressive",
                            text |-> fs.online_accumulated_text
                                       \o <<[seg |-> t.seg, epoch |-> t.epoch]>>,
                            bg |-> t.bg, ed |-> t.ed, final |-> FALSE]
        <3>1. out' = Append(out, item) \/ out' = out
            BY <2>1 DEF OnlineDone
        <3> HIDE DEF item
        <3>2. CASE out' = out
            BY <3>2
        <3>3. CASE out' = Append(out, item)
            <4>1. \A i \in 1..Len(out) : Append(out, item)[i] = out[i]
                BY <1>0 DEF TypeOK
            <4> QED BY <1>0, <3>3, <4>1
        <3> QED BY <3>1, <3>2, <3>3
    <2>3. UNCHANGED <<pc, connected, sender, taken, last_sent, sent_final, wire>>
        BY <2>1 DEF OnlineDone, clientVars, senderVars
    <2> QED BY <1>a, <2>2, <2>3, StatusKept
<1>3. CASE OfflineStep
    <2>1. \E count \in Nat : \E batch : Queued(count, batch)
        BY <1>0, <1>3, OfflineQueues
    <2>2. \A i \in DOMAIN out : out'[i] = out[i]
        BY <2>1 DEF Queued
    <2>3. UNCHANGED <<pc, connected, sender, taken, last_sent, sent_final, wire>>
        BY <1>3 DEF OfflineStep, OfflineDone, clientVars, senderVars
    <2> QED BY <1>a, <2>2, <2>3, StatusKept
<1>4. CASE Gather
    <2>1. /\ out' = Append(out, FINALIZE_SENTINEL) /\ pc' = "join"
          /\ UNCHANGED <<connected, sender, taken, last_sent, sent_final, wire>>
        BY <1>4 DEF Gather, clientVars, senderVars
    <2>2. \A i \in DOMAIN out : out'[i] = out[i]
        BY <2>1 DEF TypeInv, TypeOK
    <2> QED BY <1>a, <2>1, <2>2, StatusKept
<1>5. CASE SenderStep
    BY <1>5, StatusSend, StatusFinish DEF SenderStep
<1>6. CASE HandlerStep /\ ~Gather
    <2>1. CASE CleanUp
        <3>1. /\ pc' = "closed"
              /\ sender' = sender \/ (sender' = "cancelled" /\ sender # "done")
              /\ UNCHANGED <<connected, out, taken, last_sent, sent_final, wire>>
            BY <2>1 DEF CleanUp, clientVars
        <3> QED BY <1>1, <3>1
    <2>2. CASE ~CleanUp
        <3>1. /\ UNCHANGED <<connected, sender, out, taken, last_sent, sent_final, wire>>
              /\ pc' # "handshake"
            <4>1. CASE HandshakeFail \/ StreamClosed \/ Join
                BY <4>1 DEF HandshakeFail, StreamClosed, Join, clientVars, senderVars
            <4>2. ASSUME NEW spans, NEW in_speech, NEW silence,
                         FinishFeed(spans, in_speech, silence)
                  PROVE  /\ UNCHANGED <<connected, sender, out, taken, last_sent, sent_final, wire>>
                         /\ pc' # "handshake"
                BY <4>2 DEF FinishFeed, clientVars, senderVars
            <4>3. ASSUME NEW tail, Flush(tail)
                  PROVE  /\ UNCHANGED <<connected, sender, out, taken, last_sent, sent_final, wire>>
                         /\ pc' # "handshake"
                BY <4>3 DEF Flush, clientVars, senderVars
            <4> QED BY <1>6, <2>2, <4>1, <4>2, <4>3 DEF HandlerStep
        <3> QED BY <1>1, <3>1
    <2> QED BY <2>1, <2>2
<1>7. CASE ClientStep
    <2>1. pc = "handshake" => sender = "none"
        BY DEF StatusInv
    <2> QED BY <1>1, <1>7, <2>1
            DEF ClientStep, ReceiveEmptyFrame, ReceiveFrame, ReceiveEndFrame, Abort,
                ClientDrop, StartSender, clientVars, senderVars
<1>8. CASE UNCHANGED vars
    BY <1>1, <1>8 DEF vars
<1> QED BY <1>2, <1>3, <1>4, <1>5, <1>6, <1>7, <1>8 DEF Next

\* The end of the stream is told once and last: the sentinel ends the queue,
\* only the last segment's sentence is final, and a client that stays sees
\* status 2 once, last, if it sees anything.
THEOREM EndIsMarkedOnce == Spec => []EndMarkedOnce
<1>1. Init => OnlineBusyExact
    BY DEF Init, NewFrameState, OnlineBusyExact
<1>2. FinalInv /\ StatusInv => EndMarkedOnce
    BY DEF FinalInv, StatusInv, EndMarkedOnce
<1> QED BY <1>1, <1>2, TypeInit, TypeStep, BusyStep, PlaceInvInit, PlaceStep, QueueAlways,
           FinalInit, FinalStep, StatusInit, StatusStep, PTL DEF Spec

-----------------------------------------------------------------------------
(* The contract: what SegmentDelivery itself promises.  The session refines *)
(* it, so what is proved of the contract is proved of the session too.      *)

CONSTANT AtOnce
VARIABLES live, unresolved, ready, log

Contract == INSTANCE SegmentDelivery

LogEntry == [seg : Int, type : {"Progressive", "sentence", "end"}]

IsDelivered(r) == r.type = "sentence"

\* What is unresolved or held back has not been delivered, nor has anything
\* behind it.
DeliveryInv ==
    /\ live \in Nat
    /\ log \in Seq(LogEntry)
    /\ unresolved \subseteq 0 .. live - 1
    /\ ready \subseteq 0 .. live - 1
    /\ ready \cap unresolved = {}
    /\ \A i \in DOMAIN log : IsDelivered(log[i]) =>
          /\ log[i].seg < live
          /\ \A k \in unresolved \cup ready : log[i].seg < k
    /\ Contract!DeliveredInOrder
    /\ Contract!HeldForEarlier

\* At first segment 0 is live and nothing was delivered.
LEMMA InitDelivery == Contract!Init => DeliveryInv
BY DEF Contract!Init, DeliveryInv, Contract!DeliveredInOrder, Contract!HeldForEarlier,
       Contract!Ended

\* One more result that is not a sentence.
LEMMA LogOneMore ==
    ASSUME DeliveryInv, NEW r \in LogEntry, ~IsDelivered(r), log' = Append(log, r)
    PROVE  /\ log' \in Seq(LogEntry)
           /\ DOMAIN log' = 1 .. Len(log) + 1 /\ DOMAIN log = 1 .. Len(log)
           /\ Len(log) \in Nat
           /\ log'[Len(log) + 1] = r
           /\ \A i \in DOMAIN log : log'[i] = log[i]
           /\ \A i \in DOMAIN log' : IsDelivered(log'[i]) => i \in DOMAIN log
<1>1. log \in Seq(LogEntry) /\ Len(log) \in Nat /\ DOMAIN log = 1 .. Len(log)
    BY LenProperties DEF DeliveryInv
<1>2. /\ log' \in Seq(LogEntry) /\ Len(log') = Len(log) + 1
      /\ \A i \in 1 .. Len(log) : log'[i] = log[i]
      /\ log'[Len(log) + 1] = r
    BY <1>1, AppendProperties
<1>3. DOMAIN log' = 1 .. Len(log) + 1
    BY <1>2
<1> QED BY <1>1, <1>2, <1>3

LEMMA SpeakKeeps == ASSUME DeliveryInv, Contract!Speak PROVE DeliveryInv'
<1> DEFINE r == Contract!Progressive(live)
<1>1. r \in LogEntry /\ ~IsDelivered(r) /\ r.seg = live /\ r # Contract!EndMark
    BY DEF DeliveryInv, LogEntry, IsDelivered, Contract!Progressive, Contract!EndMark
<1>2. /\ log' = Append(log, r) /\ live' = live /\ unresolved' = unresolved
      /\ ready' = ready /\ ~Contract!Ended
    BY DEF Contract!Speak
<1> HIDE DEF r
<1>3. /\ log' \in Seq(LogEntry)
      /\ DOMAIN log' = 1 .. Len(log) + 1 /\ DOMAIN log = 1 .. Len(log)
      /\ Len(log) \in Nat
      /\ log'[Len(log) + 1] = r
      /\ \A i \in DOMAIN log : log'[i] = log[i]
      /\ \A i \in DOMAIN log' : IsDelivered(log'[i]) => i \in DOMAIN log
    BY <1>1, <1>2, LogOneMore
<1>4. Contract!DeliveredInOrder'
    <2> SUFFICES ASSUME NEW i \in DOMAIN log', NEW j \in DOMAIN log', i < j,
                        IsDelivered(log'[i]), log'[j].type # "end"
                 PROVE  log'[i].seg < log'[j].seg
        BY DEF Contract!DeliveredInOrder, IsDelivered
    <2>1. i \in DOMAIN log /\ log'[i] = log[i]
        BY <1>3
    <2>2. CASE j \in DOMAIN log
        BY <1>3, <2>1, <2>2 DEF DeliveryInv, Contract!DeliveredInOrder, IsDelivered
    <2>3. CASE j \notin DOMAIN log
        BY <1>1, <1>3, <2>1, <2>3 DEF DeliveryInv
    <2> QED BY <2>2, <2>3
<1>5. Contract!HeldForEarlier'
    BY <1>1, <1>2, <1>3 DEF DeliveryInv, Contract!HeldForEarlier, Contract!Ended,
                            Contract!EndMark
<1> QED BY <1>2, <1>3, <1>4, <1>5 DEF DeliveryInv

LEMMA EndKeeps == ASSUME DeliveryInv, Contract!End PROVE DeliveryInv'
<1>1. /\ Contract!EndMark \in LogEntry /\ ~IsDelivered(Contract!EndMark)
      /\ Contract!EndMark.type = "end"
    BY DEF LogEntry, IsDelivered, Contract!EndMark
<1>2. /\ log' = Append(log, Contract!EndMark) /\ live' = live /\ unresolved' = unresolved
      /\ ready' = ready /\ unresolved = {}
    BY DEF Contract!End
<1>3. /\ log' \in Seq(LogEntry)
      /\ DOMAIN log' = 1 .. Len(log) + 1 /\ DOMAIN log = 1 .. Len(log)
      /\ Len(log) \in Nat
      /\ log'[Len(log) + 1] = Contract!EndMark
      /\ \A i \in DOMAIN log : log'[i] = log[i]
      /\ \A i \in DOMAIN log' : IsDelivered(log'[i]) => i \in DOMAIN log
    BY <1>1, <1>2, LogOneMore
<1>4. Contract!DeliveredInOrder'
    <2> SUFFICES ASSUME NEW i \in DOMAIN log', NEW j \in DOMAIN log', i < j,
                        IsDelivered(log'[i]), log'[j].type # "end"
                 PROVE  log'[i].seg < log'[j].seg
        BY DEF Contract!DeliveredInOrder, IsDelivered
    <2>1. i \in DOMAIN log /\ log'[i] = log[i] /\ j \in DOMAIN log
        BY <1>1, <1>3
    <2> QED BY <1>3, <2>1 DEF DeliveryInv, Contract!DeliveredInOrder, IsDelivered
<1>5. ready = {}
    BY <1>2 DEF DeliveryInv, Contract!HeldForEarlier
<1>6. Contract!HeldForEarlier'
    BY <1>2, <1>5 DEF Contract!HeldForEarlier
<1> QED BY <1>2, <1>3, <1>4, <1>6 DEF DeliveryInv

LEMMA CloseKeeps ==
    ASSUME DeliveryInv, NEW count \in Nat, Contract!Close(count) PROVE DeliveryInv'
<1>1. /\ live' = live + count /\ log' = log /\ ready' = ready /\ ~Contract!Ended
      /\ unresolved' = unresolved \cup live .. live + count - 1
    BY DEF Contract!Close
<1>2. log \in Seq(LogEntry) /\ \A i \in DOMAIN log : log[i] \in LogEntry
    BY LenProperties DEF DeliveryInv
<1>3. live \in Nat /\ live' \in Nat
    BY <1>1 DEF DeliveryInv
<1>4. unresolved' \subseteq 0 .. live' - 1 /\ ready' \subseteq 0 .. live' - 1
    BY <1>1, <1>3 DEF DeliveryInv
<1>5. ready' \cap unresolved' = {}
    BY <1>1, <1>3 DEF DeliveryInv
<1>6. ASSUME NEW i \in DOMAIN log, IsDelivered(log[i])
      PROVE  log[i].seg < live' /\ \A k \in unresolved' \cup ready' : log[i].seg < k
    <2>1. log[i].seg \in Int /\ log[i].seg < live
        BY <1>2, <1>6 DEF DeliveryInv, LogEntry
    <2>2. \A k \in unresolved \cup ready : log[i].seg < k
        BY <1>6 DEF DeliveryInv
    <2>3. \A k \in live .. live + count - 1 : log[i].seg < k
        BY <1>3, <2>1
    <2> QED BY <1>1, <1>3, <2>1, <2>2, <2>3
<1>7. Contract!DeliveredInOrder'
    BY <1>1 DEF DeliveryInv, Contract!DeliveredInOrder
<1>8. Contract!HeldForEarlier'
    BY <1>1 DEF DeliveryInv, Contract!HeldForEarlier, Contract!Ended
<1> QED BY <1>1, <1>2, <1>3, <1>4, <1>5, <1>6, <1>7, <1>8 DEF DeliveryInv

LEMMA ResolveKeeps ==
    ASSUME DeliveryInv, NEW k \in unresolved, NEW has_text \in BOOLEAN,
           Contract!Resolve(k, has_text)
    PROVE  DeliveryInv'
<1> DEFINE waiting == unresolved \ {k}
           texts   == ready \cup (IF has_text THEN {k} ELSE {})
           batch   == Contract!Deliverable(texts, waiting)
<1>1. live \in Nat /\ live' = live /\ ~Contract!Ended
    BY DEF DeliveryInv, Contract!Resolve
<1>2. waiting \subseteq 0 .. live - 1 /\ texts \subseteq 0 .. live - 1
    BY DEF DeliveryInv
<1>3. unresolved' = waiting /\ ready' = texts \ batch /\ batch \subseteq texts
    BY DEF Contract!Resolve, Contract!Deliverable
<1>4. texts \cap waiting = {}
    BY DEF DeliveryInv
<1>5. /\ \A x \in batch, u \in waiting : x < u
      /\ \A x \in texts \ batch : \E u \in waiting : ~(x < u)
    BY DEF Contract!Deliverable
<1>6. PICK count \in 0 .. live :
        \E b \in [1..count -> batch] :
           /\ Contract!Range(b) = batch
           /\ \A i, j \in 1..count : i < j => b[i] < b[j]
           /\ log' = log \o [i \in 1..count |-> Contract!Sentence(b[i])]
    BY DEF Contract!Resolve
<1>7. PICK b \in [1..count -> batch] :
           /\ Contract!Range(b) = batch
           /\ \A i, j \in 1..count : i < j => b[i] < b[j]
           /\ log' = log \o [i \in 1..count |-> Contract!Sentence(b[i])]
    BY <1>6
<1>8. unresolved \cup ready = waiting \cup ready \cup {k} /\ texts \subseteq ready \cup {k}
    OBVIOUS
<1> HIDE DEF waiting, texts, batch
<1> DEFINE more == [i \in 1..count |-> Contract!Sentence(b[i])]
<1>9. /\ more \in Seq(LogEntry) /\ Len(more) = count /\ count \in Nat
      /\ \A i \in 1..count : /\ more[i].seg = b[i] /\ more[i].type = "sentence"
                             /\ b[i] \in batch /\ b[i] \in 0 .. live - 1
    <2>1. \A i \in 1..count : Contract!Sentence(b[i]) \in LogEntry /\ b[i] \in 0 .. live - 1
        <3> SUFFICES ASSUME NEW i \in 1..count
                     PROVE  Contract!Sentence(b[i]) \in LogEntry /\ b[i] \in 0 .. live - 1
            OBVIOUS
        <3>1. b[i] \in batch
            BY <1>7
        <3>2. b[i] \in 0 .. live - 1
            BY <1>2, <1>3, <3>1
        <3>3. b[i] \in Int
            BY <1>1, <3>2
        <3> QED BY <3>2, <3>3 DEF Contract!Sentence, LogEntry
    <2> QED BY <1>1, <1>7, <2>1 DEF Contract!Sentence
<1> HIDE DEF more
<1>10. log \in Seq(LogEntry) /\ Len(log) \in Nat /\ DOMAIN log = 1 .. Len(log)
    BY LenProperties DEF DeliveryInv
<1>11. /\ log' \in Seq(LogEntry) /\ Len(log') = Len(log) + count
       /\ DOMAIN log' = 1 .. Len(log) + count
       /\ \A i \in 1 .. Len(log) : log'[i] = log[i]
       /\ \A i \in Len(log) + 1 .. Len(log) + count : log'[i] = more[i - Len(log)]
    <2>1. log' = log \o more
        BY <1>7 DEF more
    <2>2. log' \in Seq(LogEntry) /\ Len(log') = Len(log) + count
        BY <1>9, <1>10, <2>1, ConcatProperties
    <2>3. DOMAIN log' = 1 .. Len(log) + count
        BY <2>2, LenProperties
    <2>4. \A i \in 1 .. Len(log) + Len(more) :
              log'[i] = IF i <= Len(log) THEN log[i] ELSE more[i - Len(log)]
        BY <1>9, <1>10, <2>1, ConcatProperties
    <2>5. \A i \in 1 .. Len(log) : log'[i] = log[i]
        BY <1>9, <1>10, <2>4
    <2>6. \A i \in Len(log) + 1 .. Len(log) + count : log'[i] = more[i - Len(log)]
        BY <1>9, <1>10, <2>4
    <2> QED BY <2>2, <2>3, <2>5, <2>6
<1>12. \A i \in DOMAIN log' \ DOMAIN log : i - Len(log) \in 1..count
    BY <1>9, <1>10, <1>11
<1>13. \A i \in DOMAIN log' \ DOMAIN log : log'[i] = more[i - Len(log)]
    <2>1. count \in Nat
        BY <1>9
    <2> SUFFICES ASSUME NEW i \in DOMAIN log', i \notin DOMAIN log
                 PROVE  i \in Len(log) + 1 .. Len(log) + count
        BY <1>11
    <2>2. i \in 1 .. Len(log) + count /\ i \notin 1 .. Len(log)
        BY <1>10, <1>11
    <2> QED BY <1>10, <2>1, <2>2
<1>14. \A i \in DOMAIN log : log[i].seg \in Int
    <2>1. \A i \in DOMAIN log : log[i] \in LogEntry
        BY <1>10
    <2> QED BY <2>1 DEF LogEntry
\* What was delivered before lies before everything that is queued now.
<1>15. \A i \in DOMAIN log : IsDelivered(log[i]) =>
          /\ log[i].seg < live
          /\ \A x \in waiting \cup texts : log[i].seg < x
    BY <1>8 DEF DeliveryInv
\* A text that stays lies behind an unresolved segment, so behind the batch.
<1>16. \A x \in batch, y \in waiting \cup (texts \ batch) : x < y
    <2> SUFFICES ASSUME NEW x \in batch, NEW y \in texts \ batch PROVE x < y
        BY <1>5
    <2>1. PICK u \in waiting : ~(y < u)
        BY <1>5
    <2>2. x < u /\ x \in Int /\ y \in Int /\ u \in Int
        BY <1>1, <1>2, <1>3, <1>5
    <2> QED BY <2>1, <2>2
<1>17. ASSUME NEW i \in DOMAIN log', IsDelivered(log'[i])
       PROVE  log'[i].seg < live' /\ \A x \in unresolved' \cup ready' : log'[i].seg < x
    <2>1. CASE i \in DOMAIN log
        BY <1>1, <1>3, <1>10, <1>11, <1>15, <1>17, <2>1
    <2>2. CASE i \notin DOMAIN log
        <3>1. i - Len(log) \in 1..count /\ log'[i] = more[i - Len(log)]
            BY <1>12, <1>13, <2>2
        <3>2. log'[i].seg \in batch /\ log'[i].seg \in 0 .. live - 1
            BY <1>9, <3>1
        <3> QED BY <1>1, <1>3, <1>16, <3>2
    <2> QED BY <2>1, <2>2
<1>18. Contract!DeliveredInOrder'
    <2> SUFFICES ASSUME NEW i \in DOMAIN log', NEW j \in DOMAIN log', i < j,
                        IsDelivered(log'[i]), log'[j].type # "end"
                 PROVE  log'[i].seg < log'[j].seg
        BY DEF Contract!DeliveredInOrder, IsDelivered
    <2>1. CASE j \in DOMAIN log
        <3>1. i \in DOMAIN log /\ log'[i] = log[i] /\ log'[j] = log[j]
            BY <1>10, <1>11, <2>1
        <3> QED BY <2>1, <3>1 DEF DeliveryInv, Contract!DeliveredInOrder, IsDelivered
    <2>2. CASE j \notin DOMAIN log /\ i \in DOMAIN log
        <3>1. j - Len(log) \in 1..count /\ log'[j] = more[j - Len(log)] /\ log'[i] = log[i]
            BY <1>13, <1>11, <1>12, <2>2
        <3>2. log'[j].seg \in batch
            BY <1>9, <3>1
        <3> QED BY <1>3, <1>15, <2>2, <3>1, <3>2
    <2>3. CASE j \notin DOMAIN log /\ i \notin DOMAIN log
        <3>1. /\ i - Len(log) \in 1..count /\ log'[i] = more[i - Len(log)]
              /\ j - Len(log) \in 1..count /\ log'[j] = more[j - Len(log)]
            BY <1>13, <1>12, <2>3
        <3>2. i - Len(log) < j - Len(log)
            BY <1>10, <1>11
        <3>3. b[i - Len(log)] < b[j - Len(log)]
            BY <1>7, <3>1, <3>2
        <3> QED BY <1>9, <3>1, <3>3
    <2> QED BY <2>1, <2>2, <2>3
<1>19. Contract!HeldForEarlier'
    <2>1. \A x \in ready' : \E u \in unresolved' : u < x
        <3> SUFFICES ASSUME NEW x \in texts \ batch PROVE \E u \in waiting : u < x
            BY <1>3
        <3>1. PICK u \in waiting : ~(x < u)
            BY <1>5
        <3>2. u \in Int /\ x \in Int /\ u # x
            BY <1>1, <1>2, <1>4
        <3> QED BY <3>1, <3>2
    <2>2. ~Contract!Ended'
        <3> SUFFICES ASSUME NEW i \in DOMAIN log', log'[i] = Contract!EndMark PROVE FALSE
            BY DEF Contract!Ended
        <3>1. CASE i \in DOMAIN log
            BY <1>1, <1>10, <1>11, <3>1 DEF Contract!Ended
        <3>2. CASE i \notin DOMAIN log
            BY <1>9, <1>10, <1>11, <1>12, <3>2, SMTT(30) DEF Contract!EndMark
        <3> QED BY <3>1, <3>2
    <2> QED BY <2>1, <2>2 DEF Contract!HeldForEarlier
<1>20. /\ unresolved' \subseteq 0 .. live' - 1 /\ ready' \subseteq 0 .. live' - 1
       /\ ready' \cap unresolved' = {}
    BY <1>1, <1>2, <1>3, <1>4
<1> QED BY <1>1, <1>11, <1>17, <1>18, <1>19, <1>20 DEF DeliveryInv

LEMMA DeliveryStep ==
    ASSUME AtOnce \in Nat
    PROVE  DeliveryInv /\ [Contract!Next]_(Contract!vars) => DeliveryInv'
<1> SUFFICES ASSUME DeliveryInv, [Contract!Next]_(Contract!vars) PROVE DeliveryInv'
    OBVIOUS
<1>1. CASE Contract!Speak
    BY <1>1, SpeakKeeps
<1>2. ASSUME NEW count \in 1..AtOnce, Contract!Close(count) PROVE DeliveryInv'
    BY <1>2, CloseKeeps
<1>3. ASSUME NEW k \in unresolved, NEW has_text \in BOOLEAN, Contract!Resolve(k, has_text)
      PROVE  DeliveryInv'
    BY <1>3, ResolveKeeps
<1>4. CASE Contract!End
    BY <1>4, EndKeeps
<1>5. CASE UNCHANGED Contract!vars
    BY <1>5 DEF Contract!vars, DeliveryInv, Contract!DeliveredInOrder, Contract!HeldForEarlier,
                Contract!Ended
<1> QED BY <1>1, <1>2, <1>3, <1>4, <1>5 DEF Contract!Next

\* The client reads sentences in segment order, no intermediate text comes
\* behind the sentence of its segment, and a text is held back only for an
\* earlier segment: what _advance_reorder_pointer is for.
THEOREM DeliveryIsOrdered ==
    ASSUME AtOnce \in Nat
    PROVE  Contract!Spec => [](Contract!DeliveredInOrder /\ Contract!HeldForEarlier)
<1>1. DeliveryInv => Contract!DeliveredInOrder /\ Contract!HeldForEarlier
    BY DEF DeliveryInv
<1> QED BY <1>1, InitDelivery, DeliveryStep, PTL DEF Contract!Spec
=============================================================================
