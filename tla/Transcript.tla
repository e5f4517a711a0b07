------------------------------ MODULE Transcript ------------------------------
(***************************************************************************)
(* From a recognition request to the text of a result: the hotwords of the *)
(* service and of the client are merged into one list, which goes to the   *)
(* offline model as a prompt; the model's reply is freed of its tags and   *)
(* dropped when it is the prompt said back; an offline text then passes    *)
(* the pool of ITN processes, which may lose a worker at any time.         *)
(*                                                                         *)
(* A text is a sequence of letters, separators, header and tags; a hotword *)
(* is a sequence of letters.  Blanks are left out.                         *)
(***************************************************************************)
EXTENDS Integers, Sequences, SequencesExt, FiniteSets, SequenceFilter

CONSTANTS
    Offline,   \* segments to be recognised by the offline model
    Online,    \* online requests
    Letters,   \* what hotwords and speech are made of
    Default,   \* HOTWORDS, the list of the service
    Users,     \* the lists clients may send
    Speech,    \* what may be said
    Workers    \* ITN_WORKERS

Header == "hotwords:"
Sep    == "listed,"
Tag    == "language X<asr_text>"
Punct  == "."

Calls == Offline \cup Online
Token == Letters \cup {Header, Sep, Tag, Punct}

ASSUME TranscriptAssumption ==
    /\ Offline \cap Online = {} /\ IsFiniteSet(Calls)
    /\ Letters \cap {Header, Sep, Tag, Punct} = {}
    /\ Workers \in Nat \ {0}
    /\ \A list \in Users \cup {Default} : list \in Seq(Seq(Letters))
    /\ Speech \subseteq Seq(Letters \cup {Sep, Punct})

VARIABLES
    words,     \* the merged hotwords of the session
    prompt,    \* the system message they make
    executor,  \* the process pool: "up", "broken", or "gone" (None)
    call       \* the state of every request, and what became of its text

session == <<words, prompt>>
vars == <<words, prompt, executor, call>>

-----------------------------------------------------------------------------
(* Hotwords *)

\* The words of a list in its order, none empty, each once.
Distinct(list) ==
    LET seen[k \in 0 .. Len(list)] ==
            IF k = 0 THEN <<>>
            ELSE LET before == seen[k - 1]
                 IN  IF list[k] = <<>> \/ list[k] \in Range(before) THEN before
                     ELSE Append(before, list[k])
    IN  seen[Len(list)]

\* Mutated form of MergeHotwords: a word of both lists is kept twice.
MergeWithRepeats(default, user) == SelectSeq(default \o user, LAMBDA w : w # <<>>)

MergeHotwords(default, user) == Distinct(default \o user)

\* The words again without repetition, separated, under their header.
HotwordContext(list) ==
    LET once == Distinct(list)
    IN  IF once = <<>> THEN <<>>
        ELSE <<Header>> \o once[1] \o
             FlattenSeq([i \in 1 .. Len(once) - 1 |-> <<Sep>> \o once[i + 1]])

\* Only an offline request has hotwords and their prompt.
HotwordsOf(c) == IF c \in Offline THEN words ELSE <<>>
PromptOf(c)   == IF c \in Offline THEN prompt ELSE <<>>

-----------------------------------------------------------------------------
(* Texts *)

ParseResponse(reply) == Only(reply, Token \ {Tag})

StripTrailingPunct(text) ==
    LET said == {k \in DOMAIN text : text[k] # Punct}
    IN  IF said = {} THEN <<>> ELSE SubSeq(text, 1, CHOOSE k \in said : \A i \in said : i <= k)

Adjacent(list, i) == list[i] \o <<Sep>> \o list[i + 1]

\* The prompt said back, from its header or from one of its words on.
FilterHallucination(text, list) ==
    IF /\ list # <<>>
       /\ \/ IsPrefix(<<Header>>, text)
          \/ \E i \in 1 .. Len(list) - 1 : IsPrefix(Adjacent(list, i), text)
    THEN <<>> ELSE text

Transcribed(c, reply) == FilterHallucination(ParseResponse(reply), HotwordsOf(c))

-----------------------------------------------------------------------------
NoCall == [state |-> "none", echo |-> 0, said |-> <<>>, text |-> <<>>, itn |-> FALSE]

Pending(c) == call[c].state \in {"queued", "running"}

Init ==
    /\ \E user \in Users : words = MergeHotwords(Default, user)
    /\ prompt = HotwordContext(words)
    /\ executor = "up"
    /\ call = [c \in Calls |-> NoCall]

Ask(c) ==
    /\ call[c].state = "none"
    /\ call' = [call EXCEPT ![c].state = "asked"]
    /\ UNCHANGED <<session, executor>>

\* Mutated form of Submitted: a pool that is down is waited for.
SubmittedAnyway(c, text) == IF c \in Online \/ text = <<>> THEN "done" ELSE "queued"

\* ITNService.process: without a text or an executor there is nothing to do,
\* and a broken pool refuses the text at once.
Submitted(c, text) ==
    IF c \in Online \/ text = <<>> \/ executor # "up" THEN "done" ELSE "queued"

\* The places of its prompt from which a model may say it back.
WordStarts(context) ==
    {k \in DOMAIN context : k = 1 \/ context[k - 1] \in {Header, Sep}} \cup {Len(context) + 1}

Repeated(c, echo) == SubSeq(PromptOf(c), echo, Len(PromptOf(c)))

\* The model replies: what was said, or its prompt from the place echo on and
\* what was said, with or without tags before, between and after.
ModelReplies(c) ==
    /\ call[c].state = "asked"
    /\ \E echo \in WordStarts(PromptOf(c)), speech \in Speech, tags \in SUBSET (1..3) :
          LET tag(i) == IF i \in tags THEN <<Tag>> ELSE <<>>
              reply  == tag(1) \o Repeated(c, echo) \o tag(2) \o speech \o tag(3)
              text   == Transcribed(c, reply)
          IN  call' = [call EXCEPT ![c] =
                 [state |-> Submitted(c, text), echo |-> echo, said |-> speech,
                  text |-> IF c \in Online THEN StripTrailingPunct(text) ELSE text,
                  itn |-> FALSE]]
    /\ UNCHANGED <<session, executor>>

\* The request fails or times out: the segment has no text.
RequestFails(c) ==
    /\ call[c].state = "asked"
    /\ call' = [call EXCEPT ![c].state = "failed"]
    /\ UNCHANGED <<session, executor>>

WorkerTakes(c) ==
    /\ call[c].state = "queued"
    /\ executor # "broken"
    /\ Cardinality({d \in Calls : call[d].state = "running"}) < Workers
    /\ call' = [call EXCEPT ![c].state = "running"]
    /\ UNCHANGED <<session, executor>>

\* The text comes back normalised, or as it was if the processor raises.
WorkerReturns(c) ==
    /\ call[c].state = "running"
    /\ \E done \in BOOLEAN :
          call' = [call EXCEPT ![c].state = "done", ![c].itn = done]
    /\ UNCHANGED <<session, executor>>

\* Mutated form of Refused: what the pool loses is not kept by the caller.
RefusedLost(rec) == [rec EXCEPT !.state = "done", !.text = <<>>]

\* The exception of a broken pool: the text is returned as it was.
Refused(rec) == [rec EXCEPT !.state = "done"]

\* A worker ends, or its initialiser raises, for a text of this session or of
\* another: the pool is broken for good, and everything it holds fails.
WorkerDies ==
    /\ \/ executor = "up"
       \/ \E c \in Calls : Pending(c)
    /\ executor' = IF executor = "up" THEN "broken" ELSE executor
    /\ call' = [c \in Calls |-> IF Pending(c) THEN Refused(call[c]) ELSE call[c]]
    /\ UNCHANGED session

\* shutdown(wait=False): nothing new is accepted, what the pool holds goes on.
Shutdown ==
    /\ executor # "gone"
    /\ executor' = "gone"
    /\ UNCHANGED <<session, call>>

Next ==
    \/ WorkerDies
    \/ Shutdown
    \/ \E c \in Calls :
          Ask(c) \/ ModelReplies(c) \/ RequestFails(c) \/ WorkerTakes(c) \/ WorkerReturns(c)

Spec == Init /\ [][Next]_vars

\* A request that has no reply runs into its timeout; a worker takes what is
\* queued and returns or dies: for this the code has no timeout.
FairSpec ==
    Spec /\ \A c \in Calls :
        WF_vars(RequestFails(c)) /\ WF_vars(WorkerTakes(c)) /\ WF_vars(WorkerReturns(c))

-----------------------------------------------------------------------------
(* Properties *)

\* Every variable has its type, no hotword is repeated, and the pool has no
\* more running texts than workers.
TypeOK ==
    /\ words \in Seq(Seq(Letters)) /\ Cardinality(Range(words) \ {<<>>}) = Len(words)
    /\ prompt \in Seq(Token)
    /\ executor \in {"up", "broken", "gone"}
    /\ call \in [Calls -> [state : {"none", "asked", "queued", "running", "done", "failed"},
                           echo : Nat, said : Speech \cup {<<>>}, text : Seq(Token), itn : BOOLEAN]]
    /\ Cardinality({c \in Calls : call[c].state = "running"}) <= Workers

Replied(c) == call[c].state \in {"queued", "running", "done"}

\* Nothing the service put before the model reaches the client: a reply that
\* says back two or more of the hotwords, from whichever word on, has no text,
\* also when the lists of service and client overlap, and no tag is left,
\* wherever in the reply the model put it (and every variable has its type).
NoPromptLeak ==
    /\ TypeOK
    /\ \A c \in Calls :
          /\ Tag \notin Range(call[c].text)
          /\ Replied(c) /\ Range(Repeated(c, call[c].echo)) \cap {Header, Sep} # {}
                => call[c].text = <<>>

\* What was said reaches the client unless it begins like the prompt: neither
\* a broken pool nor one that was shut down costs a text, and no punctuation
\* but the last of an online text is lost.
SpeechKept ==
    \A c \in Calls :
        /\ Replied(c)
        /\ call[c].echo > Len(PromptOf(c))
        /\ \A i \in 1 .. Len(HotwordsOf(c)) - 1 : ~IsPrefix(Adjacent(words, i), call[c].said)
        => IF c \in Offline THEN call[c].text = call[c].said
           ELSE StripTrailingPunct(call[c].said) = call[c].text

\* Every request ends with a text or without, so that its segment does not
\* hold up the others: a text is never left behind in a pool that is down.
EveryCallReturns ==
    \A c \in Calls : call[c].state = "asked" ~> call[c].state \in {"done", "failed"}
=============================================================================
