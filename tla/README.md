# A verification of the streaming speech recognition service

The service takes audio over a WebSocket, denoises it, finds the segments of
speech in it, shows intermediate texts while a segment is being spoken and
sends one final sentence per segment, in order. It is a Python program on one
asyncio event loop (`src/main.py`, `src/src/`), with worker threads and
processes for the native code, HTTP requests to vLLM servers for recognition,
and a translation proxy beside it (`src/hot_fix/`).

This directory holds TLA+ models of its logic, the TLC runs that check them,
and proofs that TLAPS checks. Paths begin with `src/`, which stands for the
root of the repository; `ws` stands for `src/src/api/websocket_handler.py`, `vad`
for `src/src/services/vad_service.py`, `tp` for `src/hot_fix/translation_proxy.py`.

## 1. Inventory

| Component | State it keeps | Operations | Hard behaviour |
| --- | --- | --- | --- |
| **Session handler** `ws:98-321` | `FrameState` (online buffer, totals, epoch, busy flag, segment number, cursor, texts, sample clock), the list of tasks | handshake, receive a frame, process it, flush, gather, join, clean up | awaits between buffering and cutting; the client may go at any time; exceptions on every path |
| **Online recognition task** `ws:326-356` | snapshot of segment, epoch and audio | request, drop or queue the result | its answer may come after one or several cuts |
| **Offline recognition task, reorder buffer** `ws:88-93,359-407` | `next_seg_id_to_send`, `pending`, `final_seg_id` | request, ITN, enter the result, release in order | answers in any order; failures must not block later segments |
| **Result sender** `ws:412-471` | `last_sent`, `sent_final` | take, send, end | status 0/1/2 protocol; client gone while sending |
| **Voice activity detector** `vad:32-315` | chunk remainder, pre-roll, open segment, speech and silence counters, gap window | feed, process a frame, cut, flush | long sequences of short bursts; thresholds; timeline against buffered frames |
| **SessionManager, drain** `src/src/services/session_manager.py`, `src/main.py:111-120` | slot count, `shutting_down` | acquire, release, shutdown | failure between acquire and the `try`; admission during the drain; deadline |
| **ASR client pool** `src/src/services/asr_service.py:138-238` | `_outstanding` per client, round-robin counters | pick, transcribe, close | increment and decrement in different functions; failures; start-up calls |
| **Health monitor, readiness** `src/main.py:84-109`, `src/src/api/health.py:24-30` | consecutive failures, `vllm_healthy` | poll all clients, report | the list of clients is copied once |
| **Hotwords and transcript filters** `ws:78-85`, `src/src/services/asr_service.py:19-114` | none | merge, prompt, parse, filter, strip | the order of the steps; lists that overlap; words that begin with others |
| **ITN pool** `src/src/services/itn_service.py` | process pool | start, process, shutdown | a worker dies and the pool is broken; shutdown while requests run |
| **RNNoise stream** `src/src/core/rnnoise_denoise.py:69-259` | leftover, overlap-add buffers, cursor | process, flush | every sample out once; latency of two frames; trimming |
| **Log buffer and SSE stream** `src/src/core/logging.py:38-89`, `src/src/api/health.py:33-56` | ring buffer, subscriber queues | emit (any thread), subscribe, replay, stream | a line logged during a subscription; order of two threads; full queues; clients that are gone |
| **Translation proxy** `src/hot_fix/translation_proxy.py` | child process, clients, counters | start, wait, stop, split, translate, regroup | child dies or hangs; one sentence of a batch fails; borders of sentences |
| **Opus decoder** `src/src/core/opus_decoder.py` | native handle | decode, close | wrapper of a native library |
| **Hot fix of vLLM connections** `src/hot_fix/connections.py` | none of this program | | a patched file of vLLM |
| **Configuration, metrics, images, scripts, vendored OpenFst** | | | no protocol of their own |

How they interact: `handle_websocket` takes a slot of the `SessionManager`,
creates the detector, and for every frame calls denoiser and detector (awaits
to worker threads). Segments the detector reports become offline tasks; enough
new audio becomes an online task. Both kinds of task share the event loop with
the handler, change `FrameState` or `ReorderState`, and put messages on the
session's unbounded queue; the sender task is the only one that writes to the
socket. A task picks a client of its pool, sends the audio (offline: with the
hotwords as a prompt), filters the reply and, offline, has it normalised by the
ITN pool. At the end of the stream the handler flushes the detector, waits for
all tasks, queues a sentinel, waits for the sender and gives the slot back.
Every part logs, from any thread; `/logs/stream` follows the log. The proxy is a
program of its own, whose child is a vLLM server.

What makes each component correct:

* *session*: sentences in segment order, once each, whatever the order of the
  answers; no intermediate text behind the sentence of its segment, and each one
  ending with the answer of its own segment; no buffered audio lost; every segment
  resolved; the end marked once and last; the handler ends.
* *detector*: counters and buffers agree, no cut overdue, reports sound and in
  order, no burst of speech of the minimal length lost that a silent frame ended.
* *detector and handler together*: what the detector reports is what the session
  model assumes; every sample of a reported span is recognised, none twice unless
  both tasks were made at one moment or it is pre-roll; the online cursor moves behind a pause.
* *slots*: a slot per running session, none twice, none during the drain.
* *pool*: counts that do not drift from the requests in flight; no client passed
  over or overloaded.
* *health monitor*: ready exactly when an instance answers.
* *texts*: the prompt and the tags reach no client, what was said does; every
  request ends although the pool it waits for breaks.
* *denoiser*: every sample comes out once, in its place, when nothing more will
  be added to it; less than a frame is held back; `flush` returns the rest.
* *log stream*: no line between the backlog and the queue, lines in order, doubles
  only at the seam; a client that is gone is unsubscribed.
* *proxy*: cutting loses nothing; each text gets its own translation; start and
  requests end; no child stays behind.

## 2. Modules

| Module | What it is |
| --- | --- |
| `FrameBuffer` | the arithmetic of `FrameState`: pure operators, no variables |
| `SegmentDelivery` | abstract: what a session promises about its results |
| `AsrSession` | the session: handler, tasks, reorder buffer, queue, sender, client; uses `FrameBuffer`, refines `SegmentDelivery` |
| `TenVADSession` | the detector, one action per frame |
| `RecognitionPipeline` | composition: `TenVADSession` and the handler's `FrameBuffer` that feeds and reads it |
| `SessionManager` | slots, admission, drain |
| `AsrClients` | the clients of the vLLM servers: picks, counts, start-up, health monitor |
| `Transcript` | hotwords, prompt, filters of a reply, ITN pool |
| `RnnoiseStream` | the denoiser: chunks, frames, windows, overlap-add, cursor |
| `LogStream` | threads that log, ring buffer, subscribers, generators |
| `TranslationProxy` | the child's life, sentences, requests |
| `SequenceFilter` | `Only`, the items of a sequence that are in a set: a recursive function that `Transcript` and `TranslationProxy` share |
| `AsrSessionProofs` | theorems about `AsrSession` and, at its end, `SegmentDelivery` |
| `RecognitionPipelineProofs` | theorems about `TenVADSession` and `RecognitionPipeline` |
| `AsrClientsProofs` | theorems about `AsrClients` and, at its end, `SessionManager` |
| `TranscriptProofs`, `RnnoiseStreamProofs`, `LogStreamProofs`, `TranslationProxyProofs` | theorems about the module each is named after |
| `SequenceLemmas` | what `Only`, `FlattenSeq`, `SubSeq` and recursive functions on sequences return |
| `MCAsrSession`, `MCRecognitionPipeline`, `MCSessionManager`, `MCAsrClients`, `MCTranscript`, `MCRnnoiseStream`, `MCLogStream`, `MCTranslationProxy` | instances for TLC |

Definitions named "mutated form of ..." state a plausible mistake in the
operator that follows them; replacing the operator by its mutated form must make
TLC refute the property `PROJECT.json` lists with it.

### AsrSession, FrameBuffer and the code

asyncio runs one callback at a time: code between two suspending awaits is
atomic, and so is an action. Awaits that suspend are the receive, the detector
(`to_thread`), the flush, `gather`, `transcribe`, ITN, `get` on the queue,
`send_text`. `put` on an unbounded queue and an uncontended `asyncio.Lock` do
not suspend (`ws:353`, `ws:388`), so entering a result and releasing the batch
that it completes is one action, as in `_advance_reorder_pointer`.

| Code | Model |
| --- | --- |
| `FrameState` `ws:54-70` | the record `fs` (without the Opus decoder); its steps are `Buffered`, `AfterCuts`, `OnlineCut`, `OnlineRequest` of `FrameBuffer` |
| `ReorderState` `ws:88-93` | `next_seg_id_to_send`, `pending`, `final_seg_id` |
| `result_queue` | `out`, everything ever queued, and `taken`, how much the sender took |
| `all_tasks` | `online`, `offline`: the tasks waiting for a transcript |
| `_result_sender` | `sender`, `last_sent`, `sent_final` |
| handshake, receive loop `ws:119-156` | `HandshakeFail`, `ReceiveEmptyFrame`, `ReceiveFrame`, `ReceiveEndFrame`, `StreamClosed`, `Abort` |
| `_process_audio_frame` `ws:197-256` | `ReceiveFrame` up to the await of the detector, `FinishFeed` after it: cuts, online cut, online trigger |
| end of stream `ws:158-176` | `Flush`, `Gather`, `Join` |
| `finally` `ws:182-192` | `CleanUp` |
| `_do_online_asr`, `_do_offline_asr` | `OnlineDone`, `OfflineDone` |
| `_result_sender` `ws:412-440` | `SenderSend`, `SenderFinish` |

Data are abstracted to what the properties tell apart. A sample is its absolute
position, so that "no buffered audio is lost" can be said. A text is the sequence of the
online results it is made of, each named by segment and epoch; separators and
punctuation are left out. Empty and failed recognitions are one case
(`has_text = FALSE`), because the code treats them alike. The detector is the
environment: `FinishFeed` takes any spans that `Reported` allows, any in-speech flag
and any silence from `Silences`. That the real detector's reports are among them is
what `ReportsAllowed` (for `feed_audio`) and `TailAllowed` (for `flush`) of
`RecognitionPipeline` say, which are checked and proved. `MaxSamples` bounds what a client sends, `MaxCuts` the segments reported for one frame.

`submitted` and `received` are ghosts: the audio given to offline tasks and the
samples of the frames processed so far. The denoiser between the frame and the
buffer (`ws:223-224`) gives back another number of samples than it takes:
`ReceiveFrame(n, m)` is a frame of `n` samples of which, with what was held back
before, `m` leave the denoiser; `m` may be zero, and the detector is then fed an
empty array, as in the code. `Denoised` says only that no more comes out than went
in; that the denoiser keeps to it, and how much it holds back, is the theorem
`OutputIsAllowed` of `RnnoiseStreamProofs`.

### SegmentDelivery and the refinement

`SegmentDelivery` knows a live segment, the closed segments not yet resolved,
the texts held back and the log of what was delivered. It has no epochs, busy
flag, pointer or buffer. `AsrSession` implements it (`ImplementsDelivery`) with

    live       <- fs.seg_id
    unresolved <- the segments of the offline tasks
    ready      <- the entries of pending that have a text
    log        <- out, reduced to segment and type

A progressive is `Speak`, a cut (of one or several segments) `Close`, an offline
answer `Resolve`, the sentinel `End`; everything else stutters.

### TenVADSession and the code

`_process_frame` is one action, `ProcessFrame`, composed of operators that
follow its statements: `Prerolled` (`vad:141-146`), `Opened` (149-163),
`GapEntered` (165-171), `Spoken` (172-181), `GapSettled` with `Merged` and `Kept`
(185-216), `Silent` (183-219), `ShouldCut` (312-315), `TooLong` and `Absorbed`
(231-244), `SegmentEnd`, `Report`, `Reset`, `Finalize` (251-291). `FeedAudio` and
`FeedReturns` are the two ends of `feed_audio`, `Flush` is `flush`. A frame is its
number; the verdict of the native library is an input and is remembered in the
ghost `heard`. Durations are compared as samples (`frames * Hop`), which is what
the comparisons of float seconds in the code mean. `_merged_frames` and the
diagnostic fields only feed log lines and are left out. The handler is the only
caller and awaits every call, so there is no concurrency inside.

### RecognitionPipeline and the code

It extends `TenVADSession` and `FrameBuffer` and adds `fs`, the offline tasks `jobs`
and the ghost `feed_from`. `Receive` is `ws:229-233`, `Hear` one frame inside the awaited
`feed_audio`, `FrameDone` what follows the await (`ws:235-254`), `EndOfStream` the flush
and the tail (`ws:158-172`). A task's audio is the online buffer for the first of
several segments and the detector's copy for the others (`TaskAudio`, `ws:235-236`).
Online requests are left to `AsrSession`: they read this state and write only fields
that neither the detector nor the offline tasks look at.

### SessionManager and the code

A connection is idle, accepted or serving. `Admit` and `SetupFails` are the two
outcomes of `ws:102-117` once `acquire()` returned true: creating the detector
can fail (its constructor asserts), and does so outside the `try`. `Finish` is
the `release()` of the `finally`. `BeginShutdown`, `Drained` and `DrainDeadline`
are `src/main.py:115-116` and the loop of `shutdown()`; time is abstracted to
"the deadline may pass while the count is positive".

### AsrClients and the code

`Request` is a pick (`get_online_client`, `get_offline_client`) and the call of
`transcribe` that follows it in the same expression; `Answer` is the `finally` of
`transcribe`, which a transcript, an error and a cancellation all pass. `running` is
what a client really serves, `outstanding` what the code counts. `StartUp` is
`src/main.py:64-65`: both pick functions are called to create the clients, and each
counts a request that is never made. `HealthCheck` is a round of `_health_monitor`;
the counter of consecutive failures only chooses a log line and is left out, and
the instances are asked at one moment.

The two lists of clients are bound anew by `_init_clients` (`global`), while
`src/main.py:24` imported the names before; `clients` is what `asr_service` sees and
`monitored` what `main.py` sees. A list is its length, because it is empty or
complete.

### Transcript and the code

A text is a sequence of letters, separators (`、`), the header of the prompt, tags
of the model and punctuation; a hotword is a sequence of letters. `MergeHotwords`,
`HotwordContext`, `ParseResponse`, `FilterHallucination` and `StripTrailingPunct` are the
functions of those names. `ModelReplies` is the external model: it says back any
suffix of its prompt that starts at a word, then what was said, with tags anywhere.
`Submitted` and the `Worker...` actions are `process()` against
`ProcessPoolExecutor`: a worker that dies breaks the pool for good and fails every
text in it, and `process()` then returns the text as it was. `Shutdown` is
`shutdown(wait=False)`. Blanks are left out, and so is the splitting of a list of
hotwords at commas and bars: lists are given as sequences.

### RnnoiseStream and the code

A sample is its position in the input, a sample of the output the sequence of the
input samples that the windows added there. `ProcessOneFrame` slides the window
(`Slid`), adds it to the output (`Added`) and counts the frame; `Processed` is the loop
over the whole frames of a chunk, after which the rest is kept; `Process` adds the rest
of the last chunk before it and returns what is `Ready`; `Flush` pads the last frame.
Numbers of samples are kept, the values of samples are not.
`StreamEnds` is the end of a session, which drops the processor (`ws:158-192`);
`Flush` is only reached from the batch function (`rnnoise_denoise.py:264-293`), hence
the two values of `caller`.

### LogStream and the code

`emit()` is four actions, because it runs in any thread while the event loop goes
on: `AppendLine`, `CopySubscribers`, `Notify` for each subscriber
(`call_soon_threadsafe`) and `EmitReturns`. `logging.Handler.handle` holds the
handler's lock around it (`LockFree`, external). `SafePut` is a callback of the loop.
A generator (`health.py:38-56`) runs `Subscribe` and `ReadBacklog` in one go of the
loop, which `LoopFree` says: other threads may log between the two, the loop runs
nothing else. `TakeLine` and `KeepAlive` are the two outcomes of `wait_for`; `Leave` is
the test of `is_disconnected()`, `Closed` the server that closes the generator of a
client that is gone. A line is its number.

### TranslationProxy and the code

`lifespan`, `vllm` and `handle` are the course of `lifespan()`, the child as the
operating system sees it (running, dead, reaped) and `TranslationState.vllm_process`.
`StopGone`, `StopExits` and `StopKills` are the paths through `stop_vllm`. `Arrive` cuts
the texts of a request (`Sentences`), `TranslateSingle` is the end of one of the calls
that `gather` runs at once, `Answer` what follows: `Regrouped` counts the answers out to
the texts, `FirstError` is the error `translate_batch` returns. A character is a
letter, an end mark, a dot or a blank. `SplitSentences` scans a text once: `Cuts` are the
ends of the matches of `SENTENCE_END` and of the text, and at each of them `Scanned`
strips the piece since the last one and drops it if nothing is left. A text of nothing
but blanks stays as it is (`tp:224`).

## 3. Runs

| Run | Question | Instance, distinct states |
| --- | --- | --- |
| `session` | `TypeOK`, `OnlineBusyExact`, `SegmentConservation`, `ResultsInOrder`, `OwnAnswerLast`, `NoAudioLost`, `EndMarkedOnce`, `ImplementsDelivery`, `SessionCloses`, `SegmentsResolve` | 3 samples, frames of 1 or 2, trigger 1, up to 2 cuts per frame: 77k |
| `pipeline` | detector: `SegmentIsWhole`, `NoCutOverdue`, `ReportsAreSound`, `LongBurstsAreHeard`; with the handler: `PipelineTypeOK`, `ReportsAllowed`, `TailAllowed`, `SpanIsRecognised`, `RecognisedOnce`, `CutBehindPause` | hop 2, minimum 2 frames, pause 4, maximum 6.5, pre-roll 1, feeds of 3 and 15 samples, 14 frames: 208k |
| `admission` | `SlotsAccounted`, `ServicesOutliveSessions`, `ShutdownEnds` | 4 connections, 3 slots: 664 |
| `client_pool` | `OutstandingExact`, `RoundRobinEven`, `BusyClientSpared` | pools of 3 and of 1 instances, each picked at most 4 times: 32k |
| `transcript` | `NoPromptLeak`, `SpeechKept`, `EveryCallReturns` | 2 offline segments, 1 online request, 1 ITN worker, 3 lists of clients: 81k |
| `denoiser` | `WindowsMeet`, `FlushReturnsAll`, `ReturnedIsSettled` | frames of 4, chunks of 0, 1, 3, 4, 6 and 9, 30 samples: 124 |
| `log_stream` | `NoGap`, `LinesInOrder`, `GoneClientLeaves`, `LinesArrive` | 2 threads, 1 client, buffer and queue of 2, 5 lines: 50k |
| `translation` | `SplitKeepsText`, `AlignedAnswer`, `NoChildLeft`, `ProxyResponds` | 1 request of any text of up to 4 characters or of up to 2 of 7 texts: 154k |
| `late_answer`, `online_cut`, `leaked_slot`, `never_ready` | statements of documents and comments that the code does not keep | as `session` (5 samples, 1 cut per frame), `pipeline`, `admission`, `client_pool` |

Why the bounds are enough. *Session*: three samples and two cuts per frame give
three and more segments with their recognitions in flight at once, every order of
their answers, stale online answers one and two epochs old, a final segment with and
without text, and a client that leaves at every point. *Pipeline*: fourteen frames
with a pause of four and a maximum of six hold two reported segments, merged and
kept bursts in one segment, a forced cut in the middle of a burst and a flush after
each; a feed of 15 samples is more than the maximum, so that one frame can close two
segments, and one of 3 leaves a rest in the chunk. `LongBurstsAreHeard` needs a
pre-roll of at least one frame (the default is five): with none, a forced cut at the
first frame of a burst can make a burst of just the minimal length vanish
(`NoLongBurstIsLost` has that hypothesis). The pre-roll of one frame does not reach
behind a cut of the frame before, as one of two or more can when one frame closes
two segments: for that case, which `RecognisedOnce` excepts, the theorem
`NothingIsRecognisedTwice` speaks (an instance with hop 1, minimum 3, pause 1,
maximum 9, pre-roll 2, one feed of 8 and 16 frames has it). *Slots*: four
connections make a limit of three bite. *Clients*: three instances and four picks of
each let the counts differ by more than one in both strategies, and a full turn of
round robin end while older requests run. *Transcript*: one worker is enough for a
text to wait behind another one when the pool breaks; the lists overlap, contain an
empty word and a word that begins with another. *Denoiser*: chunks shorter than,
equal to and longer than a frame, of lengths coprime to it, leave every possible
rest, and thirty samples are seven windows; the run is small because the chunks lead
to the same states. *Log*: five lines overrun buffer and queue; one client is enough
because clients share nothing but the buffer and the callbacks, whose order among
clients no property reads. *Translation*: four characters hold a sentence, a run of
marks and a rest; two texts are enough for an answer to slide to the other. Requests
share only the child and the counters.

Where the system may stop, deadlock is not checked: a session whose client is
silent, bounds that are used up. `admission` checks it: connections come, are
refused and go for ever there.

### Fairness

`FairSpec` of `AsrSession` has weak fairness on the handler's own steps, on the
online tasks, the offline tasks and the sender. The event loop runs every ready
callback; every request of a task has a timeout (60 s per httpx operation), the
ITN call ends or raises, `_send_msg` swallows errors of a dead connection. Nothing
is assumed of the client: it need not send, end its stream or go away, and the
handler has no read timeout after the handshake. `SessionManager!FairSpec` has
weak fairness on the drain loop only. `Transcript!FairSpec`: a request without a reply
runs into its timeout, a worker takes what is queued and returns or dies; the
second has no timeout in the code, so a normaliser that hangs is excluded here by
assumption. `LogStream!FairSpec`: a thread in `emit()` goes on, the loop runs its
callbacks, and a generator goes on because its wait has a timeout; nobody need log,
and the server need not close a generator. `TranslationProxy!FairSpec`: the lifespan's
waits and the calls of the client have timeouts; the child need do nothing.

### Disagreements with the documents

Each of these is a run that must find a violation, and a finding in `PROJECT.json`:

* `CountIsActive` (`leaked_slot`): a slot leaks when a session cannot be set up
  (`ws:111`).
* `ReadyIfAnyUp` (`never_ready`): the health monitor polls two empty lists and reports
  the service as not ready after its first round (`src/main.py:87`).
* `OnlineCutInSilence` (`online_cut`): speech after a pause is put on probation and leaves
  `silence_duration` as it was. Until the next silence, a frame in which the user speaks
  moves the online cursor whenever more audio than `silence_duration`, that is more than
  0.5 s, has come since it moved last (`ws:243`, `ws:245`, against the comment at
  `ws:242`). What does hold is `CutBehindPause`, checked and proved.
* `LateAnswersDropped` (`late_answer`): an answer that comes after the VAD cut its segment is
  not queued, but it is kept in `online_last_text` (`ws:343`), the next pause accumulates
  it, and the texts behind that pause begin with it. `src/README.md:111` says that it is
  dropped and never pushed. What does hold is `OwnAnswerLast`, checked and proved.

Met while modelling and not backed by a run:

* audio in the closing frame is not processed (`ws:152`; `src/README.md:120` says that
  the offline recognition covers it);
* an online cut does not clear `online_last_text` (`ws:248-250`), and a stale answer
  overwrites it, so a part of a segment may be accumulated twice or out of order;
* an online cut while a request is in flight skips the audio behind the old cursor
  that no request had taken yet (`ws:243-250`): it is in no intermediate text;
* the handler never calls the denoiser's `flush()` (`ws:158`; `rnnoise_denoise.py:89` says to
  call it at the end of a stream), so less than a frame and the last overlap stay in it. `FlushReturnsAll`
  speaks of the batch function, which does call it;
* `flush()` drops a burst that is still on probation at the end of the stream, though it may
  be longer than the least speech (`vad:104-116`). The handler gives what it buffered to the
  offline task all the same, but the span reported with it, if any, ends before the burst.
  `LongBurstsAreHeard` speaks of bursts that a silent frame ended;
* `bg` and `ed` of a tail the detector does not know run from 0 to its length
  (`ws:169-172`), not on the session's clock (`ws:66`); `ed` can lie before the end of the
  speech when bursts were merged (`vad:254`);
* the frame of status 2 can be a Progressive and that of status 0 a sentence
  (`ws:429`, `ws:433`);
* `src/UPDATEPLAN.md:25` says that two adjacent hotwords joined by a comma empty a text;
  the code tests only for `、` (`asr_service.py:110`); the blacklist of
  `src/README.md:291` is gone;
* a broken ITN pool is never started again, and a call of it has no timeout;
* `parse_lang_type`'s last line (`tp:219`) is a pair whose second element is a
  conditional, not the conditional of two pairs it seems to mean;
* if the leader of the child's process group died and was collected before
  `stop_vllm`, `getpgid` raises and the group's other processes are not signalled.

## 4. Proofs

The proofs hold for every value of the constants that satisfies the named
assumptions of the modules, hence for the instances of the runs, but also for any
bound, frame size, threshold, number of clients and so on.

**`AsrSessionProofs`**

* `TypeCorrect`: `TypeOK`. Inductive with `Shape`, which ties the length of the
  online buffer to `online_total` and keeps cursor and last trigger below it.
* `BusyIsExact`: `OnlineBusyExact` is inductive on top of the types: a cut raises
  the epoch above that of every request in flight, so clearing the flag is right,
  and a late answer has an older epoch, so it leaves the flag alone.
* `SegmentsAreConserved`, `PointerAlwaysWaits`: from `PlaceInv`, which says where the
  segments below `fs.seg_id` are in terms the steps can use (running ones are
  neither held nor released, all are one of the three, running ones have one
  task each). The pointer needs it: only because every closed segment below
  `fs.seg_id` is somewhere does the loop stop at a segment that is still running.
* `SentencesAreInOrder`, `NoProgressiveIsLate`: from `QueueInv`, which adds that every
  sentence on the queue is of a segment the pointer has passed. A new sentence is
  at or above the pointer; a progressive is of the live segment (`OnlineBusyExact`),
  which is above every closed one.
* `ResultsAreInOrder`: adds that intermediate texts come in the order of their audio.
  `AnswerInv` says that what is queued of the live segment ends behind nothing that
  the request in flight was made of (`Behind`): one request of the current epoch is
  in flight at most, and it was made after the last answer.
* `SessionImplementsDelivery`: `Spec => ImplementsDelivery`. Every step of the session
  is a step of `SegmentDelivery` or a stutter. The step of an offline answer needs
  `PlaceInv` before and after it: the segments the loop releases are exactly those
  that no unresolved segment precedes. `EndInv` (behind the sentinel nothing is in
  flight) shows that the end is marked once.
* `OwnAnswersAreLast`: `Dated` says that accumulated text is of earlier epochs and the
  last answer of no later one than the present; the step that queues a text puts the
  answer of the current epoch behind it.
* `AudioIsKept` (of what the handler buffered; the samples the denoiser holds back at the
  end never come that far): `Covered`, step by step over the buffer: a cut moves the whole buffer to
  a task before it empties it, and only the first of several cuts finds it filled.
* `EndIsMarkedOnce`: `FinalInv` says that the final segment is the one the flush closed,
  that its sentence is entered only then, and that no request of the current epoch is
  left, so nothing follows; `StatusInv` ties the sender's two flags to the wire.
* `DeliveryIsOrdered`, about `SegmentDelivery` itself (`Contract`, for any natural `AtOnce`,
  the number of segments closed at once): the contract is what a client needs,
  `DeliveredInOrder` and `HeldForEarlier`, from `DeliveryInv` (what is unresolved or held
  back is above every sentence delivered). By the refinement it holds of a session too.

**`RecognitionPipelineProofs`** begins with the detector by itself (`TenVADSession`), for all
thresholds, feeds and verdicts. `FrameStep` and its lemmas
first sort the outcomes of `_process_frame` by what they do to the open segment
(`Opens`, `Speaks`, `OnProbation`, `Pauses`, `Merges`, `Keeps`, `Quiet`). `DetectorInv` is
`SegmentInv`, the timers (`Timely`) and the types; its parts are

* `Rolled`, `Whole`: pre-roll, frames of the segment and burst on probation lead without a
  gap to the frame heard last, but for bursts too short to keep (`Track`);
* `Counted`: the speech counter is the number of frames of speech that are kept;
* `EndKnown`: the end of the speech is behind all speech kept, and before the silence
  counted and the burst on probation;
* `Calm`: without silence the frames follow each other; a segment with too little speech
  has no silence but the one counted, so nothing worth keeping is thrown away with it.

From it follow

* `DetectorTypeCorrect`, `CutsInTime`: a frame that is not cut leaves `Timely` because of the
  tests it just failed.
* `SegmentStaysWhole`, without hypotheses.
* `ReportsStaySound`: `ReportsInv` adds that reports follow each other and that no later segment
  opens before the last report's end (`Bound`). It assumes a pre-roll of at least a frame that is
  shorter than the least speech. In the code these are five frames of 640 samples
  (`src/src/config.py:21-25`) and 8000 samples (`vad:28`).
* `NoLongBurstIsLost` (a burst on probation at `flush()` is not spoken of): `BurstsInv` says
  of every burst that ended that it was reported or is in the open
  segment, and of the one that goes on that it is reported in part, counted or on probation.
  It assumes a pre-roll of at least a frame and a maximum no less than the least speech and
  a pause together; in the code 60 s against 1.3 s. Without a pre-roll a forced cut would lose
  the frame it is made in: `Absorbed` puts the end of the speech before that frame (`vad:241`),
  and only the next segment's pre-roll brings it back.

On top of it come the theorems about the pipeline, without hypotheses but the assumptions
of the modules:

* `PipelineIsDetector`: `PipelineSpec => Spec`. The handler calls the detector as `TenVADSession`
  says, so that all its theorems hold in the pipeline too.
* `PipelineTypeCorrect`, `CutsAreInTime`, `ReportsAreAllowed`, `TailIsAllowed`: from `InStep`. The handler has
  buffered what the detector has heard and what is left in its chunk, the buffer is
  the audio received since the last cut (`Holds`), and every report but those of
  the frame in hand has its task. `ReportsHeard` bounds the number of reports: each, and
  the open segment, has a frame of its own. This makes what `AsrSession` assumes of its
  detector a theorem.
* `CursorStaysBehindPauses`: from `EndKnown`, by which a merged burst is counted once.
* `SpansAreRecognised`: `CoverInv` says that the tasks together have all audio up to the last
  cut, at each of them all that had been received then (`Gives`), and that no report
  ends behind the moment of its task.
* `NothingIsRecognisedTwice`: `OnceInv` says that what was given was received before
  (`AudioBefore`), and that the second segment a frame closes began in that frame but
  for its pre-roll (`SecondIsOfThisFeed`), which needs that a cut ends a segment.

**`AsrClientsProofs`** proves, for any pools, numbers of instances and requests,
`ClientsTypeCorrect`, `CountsAreExact`, `BusyClientsAreSpared` and `RoundRobinIsEven`. The
invariant adds to the types that no request runs before start-up and that the lists
are complete afterwards. That `outstanding` stays a natural number needs
`OutstandingExact`: a request that ends was running, so its client's count is
positive. `LeastExists` shows that `min()` finds a client, and from `OutstandingExact` the
load it compares is the real one up to the one request of start-up. For round robin,
`Rounds` writes the counter as full turns and a rest, and says that the clients below
the rest were picked once more than the others.

Its last part proves `SlotsAreAccounted`, `NoSessionOutlives` and `DrainShrinks` of
`SessionManager` for any finite set of connections and any limit, from `SlotInv` (types,
the slot count, and that `shutting_down` is set from the start of the drain on). The two
modules share no name (`ManagerSpec`, `ManagerTypeOK`), so that one module can extend both.

**`LogStreamProofs`**: `LinesAreInOrder`. `OrderInv` orders the lines a client has, those
scheduled for it and the one a thread still owes it; it needs `OneEmission`, which is
what the lock of the logging library gives, and that nothing is under way for a
client that has not subscribed. `NothingIsMissed` (`NoGap`): `GapInv` says that every line
since a client subscribed has come, waits, is on its way or met a full queue
(`Served`), and that the buffer, and the backlog read from it, are consecutive
lines, the backlog up to the subscription at least (`BufferWhole`, `ReplayWhole`): the order of
the calls in `health.py:38-43` is what makes that true. `LogTypeCorrect`: the bounds of the
buffer and the queues.

**`SequenceLemmas`** is what the next three rest on. The library's induction theorems take
an operator as a parameter and cannot be applied here; `Induction` states induction over
the numbers for a set in place of a predicate (from `WFMin`, a least number that is not in
the set). With it follows that a function given by a first value and a step exists and is
the only one (`Recursion`, `SameFunctions`), that `Only` can be taken part by part and keeps
the order (`OnlyConcat`), and that `FlattenSeq` can be taken sequence by sequence
(`FlattenAppend`, `FlattenTo`).

**`RnnoiseStreamProofs`**, for any frame size, chunks and bound: `WindowsAlwaysMeet`,
`NothingIsHeldBack`, `ReturnedStays`. A frame keeps `Aligned`: the window holds the last two
frames of the input, the output reaches one frame beyond the last, and all that was
added to a sample of it is the input one frame before. It would not be inductive
without the window, which is what makes the two halves of the overlap the same samples.
A chunk keeps `Streamed` by induction over its frames (`Processed`), which adds the
samples that wait for their frame; `Follows` says that no frame changes what was
settled before. `DenoiserInv` adds that the cursor is at the end of the frames while the
stream runs, and at the end of the output after `flush`. `OutputIsAllowed` makes what
`AsrSession` assumes of its denoiser (`Denoised`) a theorem, as `ReportsAreAllowed` does for
the detector: `process` returns no more than went in and was not returned, and keeps less
than a frame of it.

**`TranscriptProofs`**, for any lists of hotwords, replies and number of workers:

* `PromptStaysInside`: `TranscriptInv` says that the merged list has no empty and no
  repeated word (`Clean`) and that the prompt is made of it. For such a list `Marked`
  describes the prompt, by induction over its words: behind its header and behind each
  separator stand two neighbouring words with the separator between them, or the last
  word and the end. So a reply that says back the prompt from any word on, and beyond
  that word, begins with the header or with two neighbours, and the filter drops it.
  That the list is clean is needed: the prompt is built of the list without repetitions,
  the filter looks for the neighbours of the list as it is. `PoolInv` bounds the texts
  that the workers have.
* `SpeechReachesClient`: what was said has no tag, so parsing returns it (`Parsed`), the
  filter lets it pass as it does not begin like the prompt, and no step of the pool
  changes a text.

What is said has no header in it (`TranscriptAssumption`); a speaker who says the
header's words first has no text, as in the code.

**`TranslationProxyProofs`**, for any finite set of requests and any texts: `ChildIsStopped`
from `ChildInv`, the others from `RequestInv`, which says of every request that it has the
sentences of its texts and an outcome for each of them.

* `TextIsKept`: `ScanInv` holds after every character: what is said up to the last cut is
  in the sentences, each of them is whole (`Whole`), and no cut was passed since.
  `Strip` takes only blanks, so it keeps what is said, and a part of a whole text is whole
  (`PartsAreWhole`, `StripsAreWhole`).
* `AnswersAreAligned`: the k-th sentence of a request belongs to the text whose sentences
  end at or behind k and begin before (`TextOf`); one such text exists and only one,
  because the ends grow. So counting out the answers by the numbers of sentences gives
  each text its own, in order, whatever the numbers are, zero included. `CountInv` says
  that every answer was counted.

Left to TLC are the liveness properties, because fairness and `ENABLED` are out of the
prover's reach: `SessionCloses`, `SegmentsResolve`, `ShutdownEnds`, `EveryCallReturns`,
`GoneClientLeaves`, `LinesArrive` and `ProxyResponds`. Every other property of a passing
run is a theorem.

## 5. What is not modelled

The program is Python. The C headers in the repository (`src/3rd-party/`) are those of
OpenFst, which is vendored as the text normaliser's package builds on it; nothing of
the service calls them, and none of them is modelled.

* The signal processing, recognition and normalisation themselves; the base64,
  JSON and WAV conversions; the wording of log lines.
* Opus decoding: a thin wrapper of a native library; a failure is `Abort`.
* Starting and stopping the denoiser's threads.
* Of the proxy: the table of languages, `parse_lang_type`, and the endpoints that only
  pass a reply on.
* `src/hot_fix/connections.py`: a patched file of vLLM, which belongs to that program.
* Configuration, metrics, images, scripts and weights: values and build files; the
  values are CONSTANTS here.
* A closing frame with audio and a silent client have no property: the code has no
  protocol for either.

## 6. Plan

Every invariant and action property that a run checks is proved; what is left is to say
more, such as the log stream as an implementation of an abstract one that knows only
lines and their readers. The composition of sessions with `SessionManager` and
`AsrClients` would ask no question that the modules do not answer singly: they share only
the count of slots and the counts of requests, and each is exact whatever the sessions do.
