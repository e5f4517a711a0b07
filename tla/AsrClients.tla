------------------------------- MODULE AsrClients -------------------------------
(***************************************************************************)
(* The vLLM clients of the two recognitions (src/services/asr_service.py), *)
(* how a request picks one, the counts of outstanding requests, and the    *)
(* monitor that the readiness of the service rests on (main.py).           *)
(*                                                                         *)
(* A client of a pool is its index.  The lists of clients are created once *)
(* and only grow from empty to complete, so a list is its length.  A pick  *)
(* and the request it is for are one step: nothing suspends between them.  *)
(* An answer, an error and a cancellation all leave transcribe() through   *)
(* its finally clause.                                                     *)
(***************************************************************************)
EXTENDS Integers, FiniteSets

CONSTANTS
    Pools,         \* "online" and "offline"
    Instances,     \* how many vLLM instances a pool has
    MaxRequests    \* bound: how often a client is picked in a run

ASSUME InstancesAssumption == Instances \in [Pools -> Nat \ {0}]
ASSUME MaxRequestsAssumption == MaxRequests \in Nat

VARIABLES
    phase,         \* of the process: "import", "startup", "serving"
    strategy,      \* settings.schedule_strategy
    clients,       \* asr_service._online_clients, _offline_clients (lengths)
    monitored,     \* the lists main.py imported under these names (lengths)
    outstanding,   \* client._outstanding
    rr,            \* _online_rr, _offline_rr
    running,       \* requests a client is really serving
    picked,        \* ghost: how often a client was picked
    vllm_healthy,  \* app.state.vllm_healthy
    any_answered   \* ghost: an instance answered the last health check

poolVars   == <<clients, outstanding, rr, running, picked>>
healthVars == <<vllm_healthy, any_answered>>
vars == <<phase, strategy, clients, monitored, outstanding, rr, running, picked,
          vllm_healthy, any_answered>>

Client(p) == 0 .. Instances[p] - 1

-----------------------------------------------------------------------------
(* Picking a client, the lists having been created *)

\* Mutated form of LeastOutstanding: the last client looked at wins.
LastClient(p) == clients'[p] - 1

\* min() over the list: the first of those with the fewest requests.
LeastOutstanding(p) ==
    CHOOSE c \in 0 .. clients'[p] - 1 : \A d \in 0 .. clients'[p] - 1 :
        \/ outstanding[p][c] < outstanding[p][d]
        \/ outstanding[p][c] = outstanding[p][d] /\ c <= d

\* Mutated form of RoundRobin: the turn is counted by the requests running.
RoundRobinByLoad(p) == outstanding[p][0] % clients'[p]

RoundRobin(p) == rr[p] % clients'[p]

\* get_online_client or get_offline_client.
Picked(p) == IF strategy = "round_robin" THEN RoundRobin(p) ELSE LeastOutstanding(p)

Turn(p) == IF strategy = "round_robin" THEN rr[p] + 1 ELSE rr[p]

Counted(count, p) == [count EXCEPT ![p][Picked(p)] = @ + 1]

-----------------------------------------------------------------------------
Init ==
    /\ phase = "import"
    /\ strategy \in {"round_robin", "least_outstanding"}
    /\ clients = [p \in Pools |-> 0] /\ monitored = [p \in Pools |-> 0]
    /\ outstanding = [p \in Pools |-> [c \in Client(p) |-> 0]]
    /\ running = [p \in Pools |-> [c \in Client(p) |-> 0]]
    /\ picked = [p \in Pools |-> [c \in Client(p) |-> 0]]
    /\ rr = [p \in Pools |-> 0]
    /\ vllm_healthy = TRUE /\ any_answered = TRUE

\* main.py's `from asr_service import _online_clients, _offline_clients' binds
\* its names to the lists of that moment.
Import ==
    /\ phase = "import"
    /\ phase' = "startup"
    /\ monitored' = clients
    /\ UNCHANGED <<strategy, poolVars, healthVars>>

\* The lifespan picks a client of each pool so that the lists are created: new
\* lists, which the names of asr_service are bound to.  No request follows.
StartUp ==
    /\ phase = "startup"
    /\ phase' = "serving"
    /\ clients' = Instances
    /\ outstanding' = [p \in Pools |-> Counted(outstanding, p)[p]]
    /\ picked' = [p \in Pools |-> Counted(picked, p)[p]]
    /\ rr' = [p \in Pools |-> Turn(p)]
    /\ UNCHANGED <<strategy, monitored, running, healthVars>>

\* A recognition task picks a client and calls its transcribe().
Request(p) ==
    /\ phase = "serving"
    /\ \A c \in Client(p) : picked[p][c] < MaxRequests
    /\ UNCHANGED clients
    /\ outstanding' = Counted(outstanding, p)
    /\ running' = Counted(running, p)
    /\ picked' = Counted(picked, p)
    /\ rr' = [rr EXCEPT ![p] = Turn(p)]
    /\ UNCHANGED <<phase, strategy, monitored, healthVars>>

\* Mutated form of Answered: only a request that succeeds is counted off.
AnsweredIfOk(p, c, ok) == IF ok THEN [outstanding EXCEPT ![p][c] = @ - 1] ELSE outstanding

Answered(p, c, ok) == [outstanding EXCEPT ![p][c] = @ - 1]

\* A request ends, with a transcript or (~ok) with an error.
Answer(p, c, ok) ==
    /\ running[p][c] > 0
    /\ running' = [running EXCEPT ![p][c] = @ - 1]
    /\ outstanding' = Answered(p, c, ok)
    /\ UNCHANGED <<phase, strategy, clients, monitored, rr, picked, healthVars>>

\* One round of the health monitor, which asks the clients it knows: the
\* service is healthy if one of them answers.  `up' are the instances, of all
\* there are, that are up.
HealthCheck(up) ==
    /\ phase = "serving"
    /\ vllm_healthy' = \E i \in up : i[2] < monitored[i[1]]
    /\ any_answered' = (up # {})
    /\ UNCHANGED <<phase, strategy, monitored, poolVars>>

-----------------------------------------------------------------------------
AllInstances == UNION {{p} \X Client(p) : p \in Pools}

Next ==
    \/ Import
    \/ StartUp
    \/ \E p \in Pools : Request(p)
    \/ \E p \in Pools : \E c \in Client(p), ok \in BOOLEAN : Answer(p, c, ok)
    \/ \E up \in SUBSET AllInstances : HealthCheck(up)

Spec == Init /\ [][Next]_vars

-----------------------------------------------------------------------------
\* Every variable has its type.
TypeOK ==
    /\ phase \in {"import", "startup", "serving"}
    /\ strategy \in {"round_robin", "least_outstanding"}
    /\ clients \in [Pools -> Nat] /\ monitored \in [Pools -> Nat]
    /\ rr \in [Pools -> Nat]
    /\ \A p \in Pools : /\ clients[p] \in {0, Instances[p]}
                        /\ outstanding[p] \in [Client(p) -> Nat]
                        /\ running[p] \in [Client(p) -> Nat]
                        /\ picked[p] \in [Client(p) -> Nat]
    /\ vllm_healthy \in BOOLEAN /\ any_answered \in BOOLEAN

\* The counts never drift, whatever becomes of the requests: a client counts
\* the requests it serves, and the first client of each pool one more, the
\* pick at start-up that no request followed.
OutstandingExact ==
    \A p \in Pools : \A c \in Client(p) :
        outstanding[p][c] =
            running[p][c] + (IF phase = "serving" /\ c = 0 THEN 1 ELSE 0)

\* Round robin gives every client its turn: no client is picked twice more
\* than another, in whatever order the requests end.
RoundRobinEven ==
    strategy = "round_robin" =>
        \A p \in Pools : \A c, d \in Client(p) : picked[p][c] <= picked[p][d] + 1

\* With least_outstanding a request goes to no client that serves two requests
\* more than another one, the pick at start-up notwithstanding.
BusyClientSpared ==
    [][strategy = "least_outstanding" =>
          \A p \in Pools : \A c, d \in Client(p) :
              running'[p][c] > running[p][c] => running[p][c] <= running[p][d] + 1]_vars

\* main.py:105: the service is ready when an instance is alive.
ReadyIfAnyUp == any_answered => vllm_healthy
=============================================================================
