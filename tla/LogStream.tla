------------------------------- MODULE LogStream -------------------------------
(***************************************************************************)
(* The ring buffer of log lines (src/core/logging.py, InMemoryLogHandler)  *)
(* and the clients that follow it (src/api/health.py, logs_stream).        *)
(*                                                                         *)
(* emit() runs in whatever thread logs: it appends the line to the buffer, *)
(* copies the set of subscribers and has the event loop put the line into  *)
(* each one's queue.  The logging library calls it under the handler's own *)
(* lock, so one emission is under way at a time, but the event loop runs   *)
(* on meanwhile.  A client's generator subscribes and reads the backlog in *)
(* one go of the loop, then takes lines from its queue for ever; it looks  *)
(* whether the client is there only between two lines or two timeouts.     *)
(*                                                                         *)
(* A line is its number, in the order of the buffer.                       *)
(***************************************************************************)
EXTENDS Integers, Sequences, FiniteSets, FiniteSetsExt, Functions

CONSTANTS
    Threads,    \* threads that log
    Clients,    \* requests to /logs/stream
    Backlogs,   \* values of the query parameter backlog
    Capacity,   \* lines the ring buffer holds
    QueueSize,  \* lines a subscriber's queue holds
    MaxLines    \* bound: lines that are logged

ASSUME CapacityAssumption == Capacity \in Nat \ {0}
ASSUME QueueSizeAssumption == QueueSize \in Nat \ {0}
ASSUME BacklogsAssumption == Backlogs \subseteq Nat
ASSUME MaxLinesAssumption == MaxLines \in Nat

VARIABLES
    buffer,       \* _buffer
    logged,       \* lines ever appended to it
    subscribers,  \* _subscribers
    emission,     \* what each thread is doing in emit()
    callbacks,    \* _safe_put calls the event loop has yet to run, in order
    queue,        \* the queue of each client
    generator,    \* where each client's generator is
    gone,         \* clients that have disconnected
    replayed,     \* the backlog each client was given
    live,         \* the lines each client took from its queue, in order
    since,        \* ghost: lines logged when a client subscribed, -1 before
    dropped       \* ghost: lines that found a client's queue full

logVars    == <<buffer, logged, emission>>
clientVars == <<generator, gone, replayed, live, since>>
vars == <<buffer, logged, subscribers, emission, callbacks, queue, generator,
          gone, replayed, live, since, dropped>>

Line == 1 .. MaxLines
Idle == [stage |-> "idle", line |-> 0, to |-> {}]

Last(lines, n) ==
    IF Len(lines) > n THEN SubSeq(lines, Len(lines) - n + 1, Len(lines)) ELSE lines

Init ==
    /\ buffer = <<>> /\ logged = 0
    /\ subscribers = {}
    /\ emission = [t \in Threads |-> Idle]
    /\ callbacks = <<>>
    /\ queue = [c \in Clients |-> <<>>]
    /\ generator = [c \in Clients |-> "none"]
    /\ gone = {}
    /\ replayed = [c \in Clients |-> <<>>]
    /\ live = [c \in Clients |-> <<>>]
    /\ since = [c \in Clients |-> -1]
    /\ dropped = [c \in Clients |-> {}]

-----------------------------------------------------------------------------
(* emit *)

\* Mutated form of LockFree: emit() is called without the handler's lock.
LockUnused == TRUE

LockFree == \A t \in Threads : emission[t] = Idle

AppendLine(t) ==
    /\ emission[t] = Idle
    /\ LockFree
    /\ logged < MaxLines
    /\ logged' = logged + 1
    /\ buffer' = Last(Append(buffer, logged'), Capacity)
    /\ emission' = [emission EXCEPT ![t] = [stage |-> "appended", line |-> logged',
                                            to |-> {}]]
    /\ UNCHANGED <<subscribers, callbacks, queue, clientVars, dropped>>

CopySubscribers(t) ==
    /\ emission[t].stage = "appended"
    /\ emission' = [emission EXCEPT ![t].stage = "notifying", ![t].to = subscribers]
    /\ UNCHANGED <<buffer, logged, subscribers, callbacks, queue, clientVars, dropped>>

\* call_soon_threadsafe for one of the subscribers copied.
Notify(t, c) ==
    /\ emission[t].stage = "notifying"
    /\ c \in emission[t].to
    /\ emission' = [emission EXCEPT ![t].to = @ \ {c}]
    /\ callbacks' = Append(callbacks, [client |-> c, line |-> emission[t].line])
    /\ UNCHANGED <<buffer, logged, subscribers, queue, clientVars, dropped>>

EmitReturns(t) ==
    /\ emission[t].stage = "notifying"
    /\ emission[t].to = {}
    /\ emission' = [emission EXCEPT ![t] = Idle]
    /\ UNCHANGED <<buffer, logged, subscribers, callbacks, queue, clientVars, dropped>>

-----------------------------------------------------------------------------
(* The event loop *)

\* The loop is free unless a generator is between subscribe() and get_recent().
LoopFree == \A c \in Clients : generator[c] # "subscribed"

HasRoom(c) == Len(queue[c]) < QueueSize

\* _safe_put: a full queue loses the line.
SafePut ==
    /\ LoopFree
    /\ callbacks # <<>>
    /\ callbacks' = Tail(callbacks)
    /\ LET c == Head(callbacks).client
           l == Head(callbacks).line
       IN  IF HasRoom(c)
           THEN /\ queue' = [queue EXCEPT ![c] = Append(@, l)]
                /\ UNCHANGED dropped
           ELSE /\ dropped' = [dropped EXCEPT ![c] = @ \cup {l}]
                /\ UNCHANGED queue
    /\ UNCHANGED <<logVars, subscribers, clientVars>>

Subscribe(c) ==
    /\ LoopFree
    /\ generator[c] = "none"
    /\ c \notin gone
    /\ generator' = [generator EXCEPT ![c] = "subscribed"]
    /\ subscribers' = subscribers \cup {c}
    /\ since' = [since EXCEPT ![c] = logged]
    /\ UNCHANGED <<logVars, callbacks, queue, gone, replayed, live, dropped>>

\* Mutated form of Recent: the last line is left out.
RecentButLast(n) == Last(SubSeq(buffer, 1, Len(buffer) - 1), n)

Recent(n) == Last(buffer, n)

\* get_recent(backlog), in the same go of the loop.
ReadBacklog(c, n) ==
    /\ generator[c] = "subscribed"
    /\ generator' = [generator EXCEPT ![c] = "replaying"]
    /\ replayed' = [replayed EXCEPT ![c] = Recent(n)]
    /\ UNCHANGED <<logVars, subscribers, callbacks, queue, gone, live, since, dropped>>

Goes(c, from, to) ==
    /\ LoopFree
    /\ generator[c] = from
    /\ generator' = [generator EXCEPT ![c] = to]

\* The last line of the backlog has been sent.
Replayed(c) ==
    /\ Goes(c, "replaying", "checking")
    /\ UNCHANGED <<logVars, subscribers, callbacks, queue, gone, replayed, live, since,
                   dropped>>

\* is_disconnected() between two lines.
StaysConnected(c) ==
    /\ c \notin gone
    /\ Goes(c, "checking", "waiting")
    /\ UNCHANGED <<logVars, subscribers, callbacks, queue, gone, replayed, live, since,
                   dropped>>

TakeLine(c) ==
    /\ Goes(c, "waiting", "checking")
    /\ queue[c] # <<>>
    /\ live' = [live EXCEPT ![c] = Append(@, Head(queue[c]))]
    /\ queue' = [queue EXCEPT ![c] = Tail(@)]
    /\ UNCHANGED <<logVars, subscribers, callbacks, gone, replayed, since, dropped>>

\* Mutated form of KeepAlive: the wait for a line has no timeout.
WaitForEver(c) == FALSE /\ UNCHANGED vars

\* Mutated form of KeepAlive: the loop ends at the timeout.
TimeoutEnds(c) ==
    /\ Goes(c, "waiting", "done")
    /\ queue[c] = <<>>
    /\ subscribers' = subscribers \ {c}
    /\ UNCHANGED <<logVars, callbacks, queue, gone, replayed, live, since, dropped>>

\* No line for _KEEPALIVE_INTERVAL.
KeepAlive(c) ==
    /\ Goes(c, "waiting", "checking")
    /\ queue[c] = <<>>
    /\ UNCHANGED <<logVars, subscribers, callbacks, queue, gone, replayed, live, since,
                   dropped>>

\* The loop breaks and the finally clause unsubscribes.
Leave(c) ==
    /\ c \in gone
    /\ Goes(c, "checking", "done")
    /\ subscribers' = subscribers \ {c}
    /\ UNCHANGED <<logVars, callbacks, queue, gone, replayed, live, since, dropped>>

\* The server closes the generator of a client that is gone where it stands.
Closed(c) ==
    /\ c \in gone
    /\ \E from \in {"replaying", "waiting"} : Goes(c, from, "done")
    /\ subscribers' = subscribers \ {c}
    /\ UNCHANGED <<logVars, callbacks, queue, gone, replayed, live, since, dropped>>

Disconnect(c) ==
    /\ c \notin gone
    /\ generator[c] # "none"
    /\ gone' = gone \cup {c}
    /\ UNCHANGED <<logVars, subscribers, callbacks, queue, generator, replayed, live,
                   since, dropped>>

-----------------------------------------------------------------------------
EmitStep(t) ==
    \/ CopySubscribers(t)
    \/ \E c \in Clients : Notify(t, c)
    \/ EmitReturns(t)

GeneratorStep(c) ==
    \/ \E n \in Backlogs : ReadBacklog(c, n)
    \/ Replayed(c)
    \/ StaysConnected(c)
    \/ TakeLine(c)
    \/ KeepAlive(c)
    \/ Leave(c)

Next ==
    \/ \E t \in Threads : AppendLine(t) \/ EmitStep(t)
    \/ SafePut
    \/ \E c \in Clients : GeneratorStep(c) \/ Subscribe(c) \/ Closed(c) \/ Disconnect(c)

Spec == Init /\ [][Next]_vars

\* A thread that logs finishes, the loop runs what was scheduled, and a
\* generator goes on: its wait ends with a line or a timeout.  Nobody need log,
\* connect or disconnect, and the server need not close a generator.
FairSpec ==
    /\ Spec
    /\ \A t \in Threads : WF_vars(EmitStep(t))
    /\ WF_vars(SafePut)
    /\ \A c \in Clients : WF_vars(GeneratorStep(c))

-----------------------------------------------------------------------------
(* Invariants *)

\* Every variable has its type, the buffer and the queues their bounds.
TypeOK ==
    /\ buffer \in Seq(Line) /\ Len(buffer) <= Capacity
    /\ logged \in 0 .. MaxLines
    /\ subscribers \subseteq Clients /\ gone \subseteq Clients
    /\ emission \in [Threads -> [stage : {"idle", "appended", "notifying"},
                                 line : 0 .. MaxLines, to : SUBSET Clients]]
    /\ callbacks \in Seq([client : Clients, line : Line])
    /\ queue \in [Clients -> Seq(Line)]
    /\ \A c \in Clients : Len(queue[c]) <= QueueSize
    /\ generator \in [Clients -> {"none", "subscribed", "replaying", "checking",
                                  "waiting", "done"}]
    /\ replayed \in [Clients -> Seq(Line)] /\ live \in [Clients -> Seq(Line)]
    /\ since \in [Clients -> Int]
    /\ dropped \in [Clients -> SUBSET Line]

Follows(c) == generator[c] \in {"replaying", "checking", "waiting"}

OnTheWay(c) ==
    {l \in Line :
        \/ \E i \in DOMAIN callbacks : callbacks[i] = [client |-> c, line |-> l]
        \/ \E t \in Threads :
              /\ emission[t].line = l
              /\ emission[t].stage = "appended" \/ c \in emission[t].to}

\* No line falls into the gap between the backlog and the queue, whatever is
\* logged while a client subscribes: from its first line on, or from its
\* subscription on, every line was given to it, waits for it, or found its
\* queue full.
NoGap ==
    \A c \in Clients : Follows(c) =>
        \A l \in Min({since[c] + 1} \cup Range(replayed[c])) .. logged :
            l \in Range(replayed[c]) \cup Range(live[c]) \cup Range(queue[c])
                  \cup OnTheWay(c) \cup dropped[c]

\* Lines come to a client in the order of the log, however many threads log,
\* and it sees a line twice only at the seam: what comes from the queue was
\* logged after the subscription, but for the one line whose emission was
\* under way then.
LinesInOrder ==
    \A c \in Clients :
        LET lines == live[c] \o queue[c]
        IN  /\ \A i, j \in DOMAIN lines : i < j => lines[i] < lines[j]
            /\ \A i \in DOMAIN lines : lines[i] >= since[c]

-----------------------------------------------------------------------------
(* Liveness *)

\* README.md: the subscription of a client that has disconnected is cleaned
\* up, also when nothing more is logged.
GoneClientLeaves == \A c \in Clients : c \in gone ~> c \notin subscribers

\* A line logged after a client has subscribed reaches it unless its queue was
\* full or it went away.
LinesArrive ==
    \A c \in Clients, l \in Line :
        since[c] >= 0 /\ since[c] < l /\ l <= logged
            ~> \/ l \in Range(live[c]) \cup dropped[c]
               \/ c \in gone
=============================================================================
