--------------------------- MODULE TranslationProxy ---------------------------
(***************************************************************************)
(* The translation proxy (src/hot_fix/translation_proxy.py): it starts the *)
(* vLLM server as a child in a process group of its own, waits until it    *)
(* answers, serves requests and stops the child again.  A request's texts  *)
(* are cut into sentences, all sentences of all texts are translated at    *)
(* once, and the answers, which come back in any order and may fail one by *)
(* one, are put together again text by text.                               *)
(*                                                                         *)
(* A text is a sequence of letters, end marks, dots and blanks; the        *)
(* translation of the k-th sentence of a request is <<k>>.                 *)
(***************************************************************************)
EXTENDS Integers, Sequences, SequencesExt, FiniteSets, SequenceFilter

CONSTANTS
    Requests,  \* requests to /turing/itrans/v3/func
    Payloads   \* the lists of texts a request may carry

Letter == "a"
Mark   == "!"
Dot    == "."
Blank  == " "

Text == Seq({Letter, Mark, Dot, Blank})

ASSUME PayloadsAssumption == \A p \in Payloads : p \in Seq(Text)
ASSUME RequestsAssumption == IsFiniteSet(Requests)

VARIABLES
    lifespan,   \* "starting", "waiting", "serving", "stopping", "stopped"
    vllm,       \* the child: "none", "running", "dead", "reaped" (polled since)
    listening,  \* its HTTP interface answers
    handle,     \* vllm_process is not None
    split,      \* ENABLE_TEXT_SPLIT
    request,    \* the state of each request
    total_requests, total_texts

childVars == <<lifespan, vllm, listening, handle>>
vars == <<lifespan, vllm, listening, handle, split, request, total_requests, total_texts>>

-----------------------------------------------------------------------------
(* Sentences *)

\* A run of marks ends a sentence, and a dot that a blank or nothing follows.
EndsSentence(text, k) ==
    \/ text[k] = Mark /\ (k = Len(text) \/ text[k + 1] # Mark)
    \/ text[k] = Dot /\ (k = Len(text) \/ text[k + 1] = Blank)

\* Mutated form of Cuts: what follows the last end mark is dropped.
CutsAtMarks(text) == {k \in DOMAIN text : EndsSentence(text, k)}

Cuts(text) == {k \in DOMAIN text : EndsSentence(text, k)} \cup {Len(text)}

IsBlank(text) == \A k \in DOMAIN text : text[k] = Blank

Strip(text) ==
    IF IsBlank(text) THEN <<>>
    ELSE LET said == {k \in DOMAIN text : text[k] # Blank}
         IN  SubSeq(text, CHOOSE k \in said : \A i \in said : k <= i,
                          CHOOSE k \in said : \A i \in said : i <= k)

\* The scan at the k-th character: a cut ends the piece that began behind the
\* last one, and a piece of nothing but blanks is no sentence.
Scanned(text, scan, k) ==
    LET sent == Strip(SubSeq(text, scan.cut + 1, k))
    IN  IF k \notin Cuts(text) THEN scan
        ELSE [cut |-> k, sentences |-> IF sent = <<>> THEN scan.sentences
                                       ELSE Append(scan.sentences, sent)]

SplitSentences(text) ==
    LET scan[k \in 0 .. Len(text)] ==
            IF k = 0 THEN [cut |-> 0, sentences |-> <<>>]
            ELSE Scanned(text, scan[k - 1], k)
    IN  IF text # <<>> /\ IsBlank(text) THEN <<text>> ELSE scan[Len(text)].sentences

\* The sentences of each text; a text is its only one if texts are not cut.
Sentences(texts, cut) ==
    [i \in DOMAIN texts |-> IF cut THEN SplitSentences(texts[i]) ELSE <<texts[i]>>]

-----------------------------------------------------------------------------
(* Translations *)

Translated == 200
NoText     == 204   \* the model answers with an empty text
Errors     == {500, 502, 504}

\* Mutated form of Outcomes: the client is made without a timeout.
OutcomesNoTimeout ==
    IF vllm = "running" /\ listening THEN {Translated, NoText, 500} ELSE {}

\* What becomes of one sentence: a child that is gone refuses the connection,
\* one that does not answer lets the request time out.
Outcomes ==
    {504} \cup IF vllm = "running" /\ listening THEN {Translated, NoText, 500}
               ELSE {502}

Translation(k, outcome) == IF outcome = Translated THEN <<k>> ELSE <<>>

\* Mutated form of Regrouped: texts without a sentence are skipped.
RegroupedIfAny(sentences, translations) ==
    LET some     == SelectSeq(sentences, LAMBDA s : s # <<>>)
        start(i) == Len(FlattenSeq(SubSeq(some, 1, i - 1)))
    IN  [i \in DOMAIN some |->
            FlattenSeq(SubSeq(translations, start(i) + 1, start(i) + Len(some[i])))]

\* The answers are counted out to the texts again (seg_counts).
Regrouped(sentences, translations) ==
    LET start(i) == Len(FlattenSeq(SubSeq(sentences, 1, i - 1)))
    IN  [i \in DOMAIN sentences |->
            FlattenSeq(SubSeq(translations, start(i) + 1, start(i) + Len(sentences[i])))]

\* The first error in the order of the sentences, not of the answers.
FirstError(outcomes) ==
    LET failed == {k \in DOMAIN outcomes : outcomes[k] \in Errors}
    IN  IF failed = {} THEN Translated
        ELSE outcomes[CHOOSE k \in failed : \A i \in failed : k <= i]

-----------------------------------------------------------------------------
NoRequest == [state |-> "none", texts |-> <<>>, sentences |-> <<>>,
              outcomes |-> <<>>, status |-> 0, result |-> <<>>]
Pending   == 0

Init ==
    /\ lifespan = "starting" /\ vllm = "none" /\ listening = FALSE /\ handle = FALSE
    /\ split \in BOOLEAN
    /\ request = [r \in Requests |-> NoRequest]
    /\ total_requests = 0 /\ total_texts = 0

requestVars == <<split, request, total_requests, total_texts>>

StartVllm ==
    /\ lifespan = "starting"
    /\ \/ /\ lifespan' = "waiting" /\ vllm' = "running" /\ handle' = TRUE
       \/ /\ lifespan' = "stopped" /\ UNCHANGED <<vllm, handle>>
    /\ UNCHANGED <<listening, requestVars>>

\* One turn of wait_vllm: the child has exited, answers, or the time is up.
WaitExited ==
    /\ lifespan = "waiting"
    /\ vllm \in {"dead", "reaped"}
    /\ vllm' = "reaped"
    /\ lifespan' = "stopping"
    /\ UNCHANGED <<listening, handle, requestVars>>

WaitReady ==
    /\ lifespan = "waiting"
    /\ vllm = "running" /\ listening
    /\ lifespan' = "serving"
    /\ UNCHANGED <<vllm, listening, handle, requestVars>>

WaitTimeout ==
    /\ lifespan = "waiting"
    /\ lifespan' = "stopping"
    /\ UNCHANGED <<vllm, listening, handle, requestVars>>

\* The server stops when its requests are done.
Shutdown ==
    /\ lifespan = "serving"
    /\ \A r \in Requests : request[r].state # "open"
    /\ lifespan' = "stopping"
    /\ UNCHANGED <<vllm, listening, handle, requestVars>>

\* stop_vllm: a child that was polled after its death has no group any more,
\* the error is logged; else SIGTERM goes to the group and the child is given
\* ten seconds to exit.
StopGone ==
    /\ lifespan = "stopping"
    /\ vllm = "reaped"
    /\ lifespan' = "stopped"
    /\ handle' = FALSE
    /\ UNCHANGED <<vllm, listening, requestVars>>

StopExits ==
    /\ lifespan = "stopping"
    /\ vllm = "dead"
    /\ vllm' = "reaped"
    /\ lifespan' = "stopped"
    /\ handle' = FALSE
    /\ UNCHANGED <<listening, requestVars>>

\* Mutated form of StopKills: no SIGKILL follows.
StopGivesUp ==
    /\ lifespan = "stopping"
    /\ vllm = "running"
    /\ lifespan' = "stopped"
    /\ handle' = FALSE
    /\ UNCHANGED <<vllm, listening, requestVars>>

\* TimeoutExpired: SIGKILL, which nobody waits for.
StopKills ==
    /\ lifespan = "stopping"
    /\ vllm = "running"
    /\ vllm' = "dead" /\ listening' = FALSE
    /\ lifespan' = "stopped"
    /\ handle' = FALSE
    /\ UNCHANGED requestVars

\* is_vllm_running, asked by /health and /: poll() collects a dead child.
Poll ==
    /\ lifespan = "serving"
    /\ vllm = "dead"
    /\ vllm' = "reaped"
    /\ UNCHANGED <<lifespan, listening, handle, requestVars>>

\* The child on its own: it starts to answer, or it ends.
VllmListens ==
    /\ vllm = "running"
    /\ ~listening
    /\ listening' = TRUE
    /\ UNCHANGED <<lifespan, vllm, handle, requestVars>>

VllmDies ==
    /\ vllm = "running"
    /\ vllm' = "dead" /\ listening' = FALSE
    /\ UNCHANGED <<lifespan, handle, requestVars>>

-----------------------------------------------------------------------------
(* Requests *)

Arrive(r, texts) ==
    LET sentences == Sentences(texts, split)
    IN  /\ lifespan = "serving"
        /\ request[r].state = "none"
        /\ request' = [request EXCEPT ![r] =
              [NoRequest EXCEPT !.state = "open", !.texts = texts,
                 !.sentences = sentences,
                 !.outcomes = [k \in 1 .. Len(FlattenSeq(sentences)) |-> Pending]]]
        /\ UNCHANGED <<childVars, split, total_requests, total_texts>>

\* A field is missing or not of its type: nothing is counted.
Reject(r) ==
    /\ lifespan = "serving"
    /\ request[r].state = "none"
    /\ \E code \in {400, 500} :
          request' = [request EXCEPT ![r] = [@ EXCEPT !.state = "rejected", !.status = code]]
    /\ UNCHANGED <<childVars, split, total_requests, total_texts>>

\* translate_single returns or raises for the k-th sentence.
TranslateSingle(r, k) ==
    /\ request[r].state = "open"
    /\ request[r].outcomes[k] = Pending
    /\ \E o \in Outcomes : request' = [request EXCEPT ![r].outcomes[k] = o]
    /\ UNCHANGED <<childVars, split, total_requests, total_texts>>

Answered(req) ==
    [req EXCEPT
        !.state  = "answered",
        !.status = FirstError(req.outcomes),
        !.result = Regrouped(req.sentences, [k \in DOMAIN req.outcomes |->
                                                Translation(k, req.outcomes[k])])]

\* gather has all of them.
Answer(r) ==
    /\ request[r].state = "open"
    /\ \A k \in DOMAIN request[r].outcomes : request[r].outcomes[k] # Pending
    /\ request' = [request EXCEPT ![r] = Answered(@)]
    /\ total_requests' = total_requests + 1
    /\ total_texts' = total_texts + Len(request[r].texts)
    /\ UNCHANGED <<childVars, split>>

-----------------------------------------------------------------------------
LifespanStep ==
    \/ StartVllm \/ WaitExited \/ WaitReady \/ WaitTimeout
    \/ StopGone \/ StopExits \/ StopKills

RequestStep(r) ==
    \/ \E k \in DOMAIN request[r].outcomes : TranslateSingle(r, k)
    \/ Answer(r)

Next ==
    \/ LifespanStep
    \/ Shutdown \/ Poll \/ VllmListens \/ VllmDies
    \/ \E r \in Requests : RequestStep(r) \/ Reject(r) \/ \E p \in Payloads : Arrive(r, p)

Spec == Init /\ [][Next]_vars

\* The lifespan goes on, its waits have a timeout; every call of the client
\* ends, with its timeout at the latest.  The child need do nothing, nobody
\* need ask for anything or shut the proxy down.
FairSpec == Spec /\ WF_vars(LifespanStep) /\ \A r \in Requests : WF_vars(RequestStep(r))

-----------------------------------------------------------------------------
(* Invariants *)

\* Every variable has its type, and every answer is counted.
TypeOK ==
    /\ lifespan \in {"starting", "waiting", "serving", "stopping", "stopped"}
    /\ vllm \in {"none", "running", "dead", "reaped"}
    /\ listening \in BOOLEAN /\ handle \in BOOLEAN /\ split \in BOOLEAN
    /\ request \in [Requests ->
          [state : {"none", "open", "answered", "rejected"}, texts : Seq(Text),
           sentences : Seq(Seq(Text)),
           outcomes : Seq({Pending, Translated, NoText} \cup Errors),
           status : {0, Translated, 400} \cup Errors, result : Seq(Seq(Nat))]]
    /\ total_requests = Cardinality({r \in Requests : request[r].state = "answered"})
    /\ total_texts \in Nat

Said(text) == Only(text, {Letter, Mark, Dot})

\* Cutting a text into sentences loses, doubles and moves nothing but blanks:
\* what follows the last mark is kept, and a dot inside a number cuts nothing.
SplitKeepsText ==
    \A r \in Requests : \A i \in DOMAIN request[r].texts :
        LET sentences == request[r].sentences[i]
        IN  /\ Said(FlattenSeq(sentences)) = Said(request[r].texts[i])
            /\ split => \A j \in DOMAIN sentences : \A k \in 1 .. Len(sentences[j]) - 1 :
                           ~EndsSentence(sentences[j], k)

\* The text a sentence of the request comes from.
TextOf(sentences, k) ==
    CHOOSE i \in DOMAIN sentences :
        /\ k > Len(FlattenSeq(SubSeq(sentences, 1, i - 1)))
        /\ k <= Len(FlattenSeq(SubSeq(sentences, 1, i)))

\* Every text gets its own translation and only that, in the order of its
\* sentences, whatever other texts were empty, cut or failed (and every
\* variable has its type).
AlignedAnswer ==
    /\ TypeOK
    /\ \A r \in Requests : request[r].state = "answered" =>
          /\ Len(request[r].result) = Len(request[r].texts)
          /\ \A i \in DOMAIN request[r].texts :
                request[r].result[i] =
                    Only([k \in DOMAIN request[r].outcomes |-> k],
                         {k \in DOMAIN request[r].outcomes :
                             /\ TextOf(request[r].sentences, k) = i
                             /\ request[r].outcomes[k] = Translated})

\* The proxy does not leave its child running when it ends, also when the
\* child does not obey or never got ready.
NoChildLeft == lifespan = "stopped" => vllm # "running" /\ ~handle

-----------------------------------------------------------------------------
(* Liveness *)

\* The start ends, in service or not, and a request is answered, whatever the
\* child does: it may die, hang or never get ready.
ProxyResponds ==
    /\ lifespan = "waiting" ~> lifespan \in {"serving", "stopped"}
    /\ \A r \in Requests : request[r].state = "open" ~> request[r].state = "answered"
=============================================================================
