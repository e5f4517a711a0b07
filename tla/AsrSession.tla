------------------------------ MODULE AsrSession ------------------------------
(***************************************************************************)
(* One WebSocket recognition session (src/api/websocket_handler.py): the   *)
(* connection handler, the FrameState it keeps, the online and offline     *)
(* recognition tasks it spawns, the reorder buffer that releases sentences *)
(* in segment order, the result queue and the task that sends from it.     *)
(*                                                                         *)
(* asyncio runs one callback at a time, so the code between two suspending *)
(* awaits is one action.  The handler suspends while it waits for a frame, *)
(* for the VAD to consume a frame, for the VAD flush, for the spawned      *)
(* tasks and for the sender; a recognition task suspends in transcribe();  *)
(* the sender suspends in get() and send_text().  `put' on the unbounded   *)
(* result queue and the uncontended reorder lock never suspend.            *)
(*                                                                         *)
(* The voice activity detector is the environment: FinishFeed and Flush    *)
(* take what it reports as parameters, within what Reported allows, which  *)
(* RecognitionPipeline shows of the detector.                              *)
(***************************************************************************)
EXTENDS Integers, Sequences, FiniteSets, Functions, FrameBuffer

CONSTANTS
    FrameSizes,    \* numbers of samples a frame with audio may carry
    VadSpans,      \* <<start, end>> sample spans the VAD may report
    Silences,      \* values vad.silence_duration may have (in samples)
    MaxSamples,    \* bound: samples one client sends
    MaxCuts        \* bound: segments the VAD closes during one frame

ASSUME FrameSizesAssumption == FrameSizes \subseteq Nat \ {0}
ASSUME VadSpansAssumption == VadSpans \subseteq Nat \X Nat
ASSUME SilencesAssumption == Silences \subseteq Nat
ASSUME BoundsAssumption == MaxSamples \in Nat /\ MaxCuts \in Nat

VARIABLES
    pc,          \* where the connection handler is
    connected,   \* the client still holds the connection
    fs,          \* FrameState
    next_seg_id_to_send,  \* ReorderState: the segment whose turn it is,
    pending,              \* the results that wait for theirs,
    final_seg_id,         \* and the segment whose sentence ends the stream
    online,      \* online tasks waiting for their transcript
    offline,     \* offline tasks waiting for their transcript
    out,         \* every item ever put on result_queue, in order
    taken,       \* how many of them the sender has taken
    sender,      \* the state of sender_task
    last_sent,   \* the sender's last_sent: a sequence of at most one message
    sent_final,  \* the sender's sent_final
    wire,        \* the frames the client received, in order
    submitted,   \* ghost: the audio given to offline tasks, in order
    received     \* ghost: samples the processed frames carried

clientVars == <<connected, received>>
reorder    == <<next_seg_id_to_send, pending, final_seg_id>>
taskVars   == <<online, offline>>
senderVars == <<sender, taken, last_sent, sent_final, wire>>
vars == <<pc, connected, fs, next_seg_id_to_send, pending, final_seg_id, online,
          offline, out, taken, sender, last_sent, sent_final, wire, submitted,
          received>>

-----------------------------------------------------------------------------
(* Types *)

None == -1

Message == [seg : Nat, type : {"Progressive", "sentence"}, text : Text,
            bg : Nat, ed : Nat, final : BOOLEAN]
FINALIZE_SENTINEL == [type |-> "FINALIZE"]

OnlineTask == [seg : Nat, epoch : Nat, audio : Seq(Nat), bg : Nat, ed : Nat]
OfflineJob == [seg : Nat, audio : Seq(Nat), bg : Nat, ed : Nat]
Entry      == [text : BOOLEAN, bg : Nat, ed : Nat]

-----------------------------------------------------------------------------
(* The tasks a step creates *)

TriggerOffline(spans) ==
    /\ offline' = offline \cup {Job(fs, spans, i) : i \in DOMAIN spans}
    /\ submitted' = submitted \o [i \in DOMAIN spans |-> Job(fs, spans, i).audio]

-----------------------------------------------------------------------------
Init ==
    /\ pc = "handshake"
    /\ connected = TRUE
    /\ fs = NewFrameState
    /\ next_seg_id_to_send = 0 /\ pending = [k \in {} |-> {}] /\ final_seg_id = None
    /\ online = {} /\ offline = {}
    /\ out = <<>> /\ taken = 0
    /\ sender = "none" /\ last_sent = <<>> /\ sent_final = FALSE /\ wire = <<>>
    /\ submitted = <<>> /\ received = 0

-----------------------------------------------------------------------------
(* The connection handler *)

\* The handshake times out, or the client leaves or sends no JSON: no sender yet.
HandshakeFail ==
    /\ pc = "handshake"
    /\ pc' = "finally"
    /\ UNCHANGED <<clientVars, fs, reorder, taskVars, out, senderVars, submitted>>

\* create_task(_result_sender) once the first frame has been parsed.
StartSender == sender' = IF pc = "handshake" THEN "running" ELSE sender

\* A frame without audio: only the first one changes the handler's state.
ReceiveEmptyFrame ==
    /\ pc = "handshake"
    /\ pc' = "recv"
    /\ StartSender
    /\ UNCHANGED <<clientVars, fs, reorder, taskVars, out, taken, last_sent,
                   sent_final, wire, submitted>>

\* What the denoiser may let out when a frame of n samples goes in: it holds
\* back samples and releases what it held; without a denoiser it is n.
Denoised(n) == 0 .. received + n - fs.abs_samples

\* A frame with n samples of which m leave the denoiser and are buffered; the
\* handler then awaits the VAD.
ReceiveFrame(n, m) ==
    /\ pc \in {"handshake", "recv"}
    /\ received + n <= MaxSamples
    /\ pc' = "feeding"
    /\ StartSender
    /\ received' = received + n
    /\ fs' = Buffered(fs, m)
    /\ UNCHANGED <<connected, reorder, taskVars, out, taken, last_sent,
                   sent_final, wire, submitted>>

\* The VAD is done with the frame: it closed the segments `spans' and is, or
\* is not, inside speech with `silence' samples of pause behind it.
FinishFeed(spans, in_speech, silence) ==
    LET f == OnlineCut(AfterCuts(fs, Len(spans)), in_speech, silence)
    IN  /\ pc = "feeding"
        /\ pc' = "recv"
        /\ TriggerOffline(spans)
        /\ IF OnlineDue(f)
           THEN /\ online' = online \cup {OnlineRequest(f)}
                /\ fs' = [f EXCEPT !.online_busy = TRUE,
                                   !.online_last_trigger = f.online_total]
           ELSE /\ fs' = f
                /\ UNCHANGED online
        /\ UNCHANGED <<clientVars, reorder, out, senderVars>>

\* The closing frame (status 2): the loop breaks before it looks at the audio
\* the frame may carry.
ReceiveEndFrame ==
    /\ pc \in {"handshake", "recv"}
    /\ pc' = "flushing"
    /\ StartSender
    /\ UNCHANGED <<clientVars, fs, reorder, taskVars, out, taken, last_sent,
                   sent_final, wire, submitted>>

\* iter_text swallows the disconnect: the loop ends as if the stream had.
StreamClosed ==
    /\ pc = "recv"
    /\ ~connected
    /\ pc' = "flushing"
    /\ UNCHANGED <<clientVars, fs, reorder, taskVars, out, senderVars, submitted>>

\* An undecodable frame or a failing service raises out of the handler.
Abort ==
    /\ pc \in {"handshake", "recv", "feeding", "flushing"}
    /\ pc' = "finally"
    /\ StartSender
    /\ UNCHANGED <<clientVars, fs, reorder, taskVars, out, taken, last_sent,
                   sent_final, wire, submitted>>

\* Mutated form of NothingLeft: only the VAD is asked.
NothingLeftInVad(tail) == tail = <<>>

NothingLeft(tail) == tail = <<>> /\ fs.online_total = 0

FinalSegment == fs.seg_id

\* vad.flush() reports the open segment, or nothing; what the online buffer
\* still holds then becomes a last segment of its own.
Flush(tail) ==
    /\ pc = "flushing"
    /\ pc' = "gather"
    /\ IF NothingLeft(tail)
       THEN UNCHANGED <<fs, reorder, offline, submitted>>
       ELSE LET rest == <<0, fs.online_total>>
            IN  /\ TriggerOffline(<<IF tail = <<>> THEN rest ELSE tail>>)
                /\ final_seg_id' = FinalSegment
                /\ UNCHANGED <<next_seg_id_to_send, pending>>
                /\ fs' = AfterCuts(fs, 1)
    /\ UNCHANGED <<clientVars, online, out, senderVars>>

\* Mutated form of AllTasksDone: the offline tasks are not waited for.
OnlineTasksDone == online = {}

AllTasksDone == online = {} /\ offline = {}

\* Mutated form of Gather: the sentinel is forgotten.
GatherWithoutSentinel ==
    /\ pc = "gather"
    /\ AllTasksDone
    /\ pc' = "join"
    /\ UNCHANGED <<clientVars, fs, reorder, taskVars, out, senderVars, submitted>>

\* gather(*all_tasks), then the sentinel.
Gather ==
    /\ pc = "gather"
    /\ AllTasksDone
    /\ pc' = "join"
    /\ out' = Append(out, FINALIZE_SENTINEL)
    /\ UNCHANGED <<clientVars, fs, reorder, taskVars, senderVars, submitted>>

Join ==
    /\ pc = "join"
    /\ sender = "done"
    /\ pc' = "finally"
    /\ UNCHANGED <<clientVars, fs, reorder, taskVars, out, senderVars, submitted>>

\* The finally clause: a sender still running is cancelled, the recognition
\* tasks are left alone.
CleanUp ==
    /\ pc = "finally"
    /\ pc' = "closed"
    /\ sender' = IF sender = "running" THEN "cancelled" ELSE sender
    /\ UNCHANGED <<clientVars, fs, reorder, taskVars, out, taken, last_sent,
                   sent_final, wire, submitted>>

-----------------------------------------------------------------------------
(* The recognition tasks *)

\* Mutated form of Current: the epoch is not compared.
AlwaysCurrent(t) == TRUE

Current(t) == fs.online_epoch = t.epoch

\* transcribe() returns for an online task; a failure is an empty text.
OnlineDone(t, has_text) ==
    LET token == <<[seg |-> t.seg, epoch |-> t.epoch]>>
    IN  /\ t \in online
        /\ online' = online \ {t}
        /\ fs' = [fs EXCEPT !.online_last_text = IF has_text THEN token ELSE @,
                            !.online_busy = @ /\ ~Current(t)]
        /\ out' = IF has_text /\ Current(t)
                  THEN Append(out, [seg |-> t.seg, type |-> "Progressive",
                                    text |-> fs.online_accumulated_text \o token,
                                    bg |-> t.bg, ed |-> t.ed, final |-> FALSE])
                  ELSE out
        /\ UNCHANGED <<pc, clientVars, reorder, offline, senderVars, submitted>>

Sentence(k, entry) ==
    [seg |-> k, type |-> "sentence", text |-> <<[seg |-> k, epoch |-> 0]>>,
     bg |-> entry.bg, ed |-> entry.ed, final |-> k = final_seg_id]

\* Both tests of the loop of _advance_reorder_pointer: it stops at the first
\* segment whose result is missing, and releases those that have a text.
StopsAt(results, m) ==
    /\ m \notin DOMAIN results
    /\ \A k \in next_seg_id_to_send .. m - 1 : k \in DOMAIN results

Enumerates(b, S) ==
    /\ Range(b) = S
    /\ \A i, j \in DOMAIN b : i < j => b[i] < b[j]

\* Mutated form of AdvanceReorderPointer: sentences are queued as they arrive.
QueueAtOnce(k, entry) ==
    /\ out' = IF entry.text THEN Append(out, Sentence(k, entry)) ELSE out
    /\ next_seg_id_to_send' = k + 1
    /\ UNCHANGED <<pending, final_seg_id>>

\* Mutated form of Recorded: an empty result is not entered in the buffer.
RecordedIfText(k, entry) ==
    [i \in DOMAIN pending \cup (IF entry.text THEN {k} ELSE {}) |->
        IF i = k THEN entry ELSE pending[i]]

Recorded(k, entry) ==
    [i \in DOMAIN pending \cup {k} |-> IF i = k THEN entry ELSE pending[i]]

\* One turn of the loop: segments up to m leave the buffer, `batch' lists
\* those with a text.
Release(results, m, count, batch) ==
    /\ StopsAt(results, m)
    /\ Enumerates(batch, {i \in next_seg_id_to_send .. m - 1 : results[i].text})
    /\ out' = out \o [i \in 1..count |-> Sentence(batch[i], results[batch[i]])]
    /\ next_seg_id_to_send' = m
    /\ pending' = [i \in DOMAIN results \ (next_seg_id_to_send .. m - 1) |-> results[i]]
    /\ UNCHANGED final_seg_id

AdvanceReorderPointer(k, entry) ==
    \E m \in next_seg_id_to_send .. fs.seg_id :
        \E count \in 0 .. m - next_seg_id_to_send :
            \E batch \in [1..count -> next_seg_id_to_send .. m - 1] :
                Release(Recorded(k, entry), m, count, batch)

\* transcribe() and the ITN pass return for an offline task.
OfflineDone(j, has_text) ==
    /\ j \in offline
    /\ offline' = offline \ {j}
    /\ AdvanceReorderPointer(j.seg,
         IF has_text THEN [text |-> TRUE, bg |-> j.bg, ed |-> j.ed]
         ELSE [text |-> FALSE, bg |-> 0, ed |-> 0])
    /\ UNCHANGED <<pc, clientVars, fs, online, senderVars, submitted>>

-----------------------------------------------------------------------------
(* The sender and the client *)

\* _send_msg swallows the error of a connection that is gone.
Send(msg, status) ==
    wire' = IF connected THEN Append(wire, [msg |-> msg, status |-> status]) ELSE wire

StatusOf(msg) == IF msg.final THEN 2 ELSE IF last_sent = <<>> THEN 0 ELSE 1

Takes == sender = "running" /\ taken < Len(out)

SenderSend ==
    /\ Takes
    /\ out[taken + 1] # FINALIZE_SENTINEL
    /\ taken' = taken + 1
    /\ Send(out[taken + 1], StatusOf(out[taken + 1]))
    /\ last_sent' = <<out[taken + 1]>>
    /\ sent_final' = (sent_final \/ out[taken + 1].final)
    /\ UNCHANGED <<pc, clientVars, fs, reorder, taskVars, out, sender, submitted>>

NeedsTerminal == ~sent_final /\ last_sent # <<>>

\* The sentinel: a last frame of status 2 unless one was sent already.
SenderFinish ==
    /\ Takes
    /\ out[taken + 1] = FINALIZE_SENTINEL
    /\ taken' = taken + 1
    /\ sender' = "done"
    /\ IF NeedsTerminal
       THEN Send([last_sent[1] EXCEPT !.text = <<>>, !.final = TRUE], 2)
       ELSE UNCHANGED wire
    /\ UNCHANGED <<pc, clientVars, fs, reorder, taskVars, out, last_sent,
                   sent_final, submitted>>

ClientDrop ==
    /\ connected
    /\ connected' = FALSE
    /\ UNCHANGED <<pc, received, fs, reorder, taskVars, out, senderVars,
                   submitted>>

-----------------------------------------------------------------------------
VadReports == UNION {[1..n -> VadSpans] : n \in 0..MaxCuts}

HandlerStep ==
    \/ HandshakeFail
    \/ \E spans \in VadReports, in_speech \in BOOLEAN, silence \in Silences :
          /\ Reported(fs, spans)
          /\ FinishFeed(spans, in_speech, silence)
    \/ StreamClosed
    \/ \E tail \in VadSpans \cup {<<>>} :
          /\ tail # <<>> => Reported(fs, <<tail>>)
          /\ Flush(tail)
    \/ Gather
    \/ Join
    \/ CleanUp

ClientStep ==
    \/ ReceiveEmptyFrame
    \/ \E n \in FrameSizes : \E m \in Denoised(n) : ReceiveFrame(n, m)
    \/ ReceiveEndFrame
    \/ Abort
    \/ ClientDrop

OnlineStep  == \E t \in online, has_text \in BOOLEAN : OnlineDone(t, has_text)
OfflineStep == \E j \in offline, has_text \in BOOLEAN : OfflineDone(j, has_text)
SenderStep  == SenderSend \/ SenderFinish

Next == HandlerStep \/ ClientStep \/ OnlineStep \/ OfflineStep \/ SenderStep

\* Nothing obliges the client to send, to end its stream or to disconnect.
\* The handler's own steps, the sender and the recognition tasks are run by
\* the event loop, and every request they wait for has a timeout.
Fairness ==
    /\ WF_vars(HandlerStep)
    /\ WF_vars(OnlineStep)
    /\ WF_vars(OfflineStep)
    /\ WF_vars(SenderStep)

Spec     == Init /\ [][Next]_vars
FairSpec == Spec /\ Fairness

-----------------------------------------------------------------------------
(* Invariants *)

\* Every variable has its type.
TypeOK ==
    /\ pc \in {"handshake", "recv", "feeding", "flushing", "gather", "join",
               "finally", "closed"}
    /\ connected \in BOOLEAN
    /\ fs \in FrameState
    /\ next_seg_id_to_send \in Nat
    /\ DOMAIN pending \subseteq Nat
    /\ pending \in [DOMAIN pending -> Entry]
    /\ final_seg_id \in Nat \cup {None}
    /\ online \subseteq OnlineTask
    /\ offline \subseteq OfflineJob
    /\ out \in Seq(Message \cup {FINALIZE_SENTINEL})
    /\ taken \in 0..Len(out)
    /\ sender \in {"none", "running", "done", "cancelled"}
    /\ last_sent \in Seq(Message) /\ Len(last_sent) <= 1
    /\ sent_final \in BOOLEAN
    /\ wire \in Seq([msg : Message, status : 0..2])
    /\ submitted \in Seq(Seq(Nat))
    /\ received \in Nat

IsSentence(item)    == item.type = "sentence"
IsProgressive(item) == item.type = "Progressive"

\* The busy flag tells the truth about the current epoch although cuts clear
\* it while a request runs and stale requests come back later: it is set
\* exactly while one task of the current epoch is in flight, that task belongs
\* to the current segment, and no two tasks in flight share an epoch.
OnlineBusyExact ==
    /\ fs.online_busy <=> \E t \in online : t.epoch = fs.online_epoch
    /\ \A t \in online :
          /\ t.epoch <= fs.online_epoch /\ t.seg <= fs.seg_id
          /\ t.epoch = fs.online_epoch => t.seg = fs.seg_id
    /\ \A t, u \in online : t.epoch = u.epoch => t = u

\* The release loop never stops early: the segment the pointer waits for has
\* no result yet.
PointerWaits == next_seg_id_to_send \notin DOMAIN pending

\* Every segment ever closed is in exactly one place: its task is running, its
\* result waits in the reorder buffer, or the release pointer has passed it;
\* and no result waits that the pointer could pass.
SegmentConservation ==
    LET running  == {j.seg : j \in offline}
        held     == DOMAIN pending
        released == 0 .. next_seg_id_to_send - 1
    IN  /\ running \cup held \cup released = 0 .. fs.seg_id - 1
        /\ running \cap held = {} /\ running \cap released = {}
        /\ held \cap released = {}
        /\ \A i, j \in offline : i.seg = j.seg => i = j
        /\ PointerWaits

\* Offline tasks finish in any order, sentences are queued in segment order
\* and at most once each.
SentencesInOrder ==
    \A i, j \in DOMAIN out :
        i < j /\ IsSentence(out[i]) /\ IsSentence(out[j]) => out[i].seg < out[j].seg

\* A slow online request never puts an intermediate text behind the final
\* sentence of its segment.
NoLateProgressive ==
    \A i, j \in DOMAIN out :
        i < j /\ IsSentence(out[i]) /\ IsProgressive(out[j]) => out[i].seg < out[j].seg

\* Intermediate texts are queued in the order of their audio: by segment, and
\* within a segment by the audio they cover.
ProgressivesOrdered ==
    \A i, j \in DOMAIN out :
        i < j /\ IsProgressive(out[i]) /\ IsProgressive(out[j])
            => \/ out[i].seg < out[j].seg
               \/ out[i].seg = out[j].seg /\ out[i].ed <= out[j].ed

\* The results are queued in the order of the audio they are about, whichever
\* recognition is slow: sentences once each, and before a sentence of a segment
\* all intermediate texts of it.
ResultsInOrder == SentencesInOrder /\ NoLateProgressive /\ ProgressivesOrdered

\* An intermediate text ends with the answer of its own request, about its own
\* segment; the text put in front of it comes from requests that a cut has
\* overtaken, never from the audio behind the cursor a second time, although
\* answers overtaken by a cut are kept (online_last_text) and come in late.
\* Of which segments that text is, LateAnswersDropped asks.
OwnAnswerLast ==
    \A i \in DOMAIN out :
        IsProgressive(out[i])
            => LET text == out[i].text
                   own  == text[Len(text)]
               IN  /\ own.seg = out[i].seg
                   /\ \A k \in 1 .. Len(text) - 1 : text[k].epoch < own.epoch

\* src/README.md:111: what comes back from an online request after the VAD has
\* cut its segment is dropped and never shown to the client.  An intermediate
\* text is made of answers about its own segment only.
LateAnswersDropped ==
    \A i \in DOMAIN out :
        IsProgressive(out[i])
            => \A k \in DOMAIN out[i].text : out[i].text[k].seg = out[i].seg

\* The sentinel is the last thing on the queue, whatever tasks were pending
\* when the stream ended.
SentinelLast ==
    \A i \in DOMAIN out : out[i] = FINALIZE_SENTINEL => i = Len(out)

\* Only the sentence of the last segment is marked final, and nothing but the
\* sentinel follows it.
FinalIsLastSegment ==
    \A i \in DOMAIN out :
        IsSentence(out[i]) /\ out[i].final
            => /\ out[i].seg = fs.seg_id - 1
               /\ \A j \in i + 1 .. Len(out) : out[j] = FINALIZE_SENTINEL

\* No sample that was buffered is lost: it is in the online buffer or was
\* given to an offline task, and the buffer is empty once the stream is flushed.
\* What the denoiser still holds back was never buffered: see RnnoiseStream.
NoAudioLost ==
    /\ \A p \in 0 .. fs.abs_samples - 1 :
          \/ p \in Range(fs.online_buf)
          \/ \E i \in DOMAIN submitted : p \in Range(submitted[i])
    /\ pc \in {"gather", "join"} => fs.online_buf = <<>>

\* What the client sees of the status field: 0 opens the stream, 2 ends it and
\* is sent once, and a session that ran to its end after sending anything
\* ended with 2.
StatusProtocol ==
    /\ \A i \in DOMAIN wire : /\ wire[i].status = 0 => i = 1
                              /\ wire[i].status = 2 => i = Len(wire)
    /\ connected /\ sender = "done" /\ wire # <<>> => wire[Len(wire)].status = 2

\* The end of a session is told once and last, from the mark on the final
\* sentence over the sentinel to the status the client sees, whatever tasks
\* were running when the stream ended and whether or not the last segment has
\* a text.
EndMarkedOnce == SentinelLast /\ FinalIsLastSegment /\ StatusProtocol

-----------------------------------------------------------------------------
(* Liveness *)

\* A client that went away, or a stream that ended, brings the handler to its
\* end, where the session's slot is given back.
SessionCloses == (~connected \/ pc = "flushing") ~> pc = "closed"

\* Every closed segment is eventually passed by the release pointer, whatever
\* becomes of its recognition.
SegmentsResolve ==
    \A k \in 0 .. MaxSamples : fs.seg_id > k ~> next_seg_id_to_send > k

-----------------------------------------------------------------------------
(* The session implements the abstract delivery of segments *)

Delivered(item) ==
    IF item.type = "FINALIZE" THEN [seg |-> -1, type |-> "end"]
    ELSE [seg |-> item.seg, type |-> item.type]

Delivery == INSTANCE SegmentDelivery WITH
    AtOnce     <- MaxCuts + 1,
    live       <- fs.seg_id,
    unresolved <- {j.seg : j \in offline},
    ready      <- {k \in DOMAIN pending : pending[k].text},
    log        <- [i \in DOMAIN out |-> Delivered(out[i])]

\* The epochs, the busy flag, the release pointer and the reorder buffer
\* together deliver what SegmentDelivery promises: every change of the result
\* queue is one of its steps.
ImplementsDelivery == Delivery!Spec
=============================================================================
