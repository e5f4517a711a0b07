---------------------------- MODULE SessionManager ----------------------------
(***************************************************************************)
(* Admission of connections and the drain at shutdown: the SessionManager  *)
(* (src/services/session_manager.py), the calls handle_websocket makes to  *)
(* it around a session, and the shutdown half of the lifespan (main.py).   *)
(*                                                                         *)
(* What a session does between its start and its end is AsrSession's       *)
(* matter.  Here a connection is idle, accepted (it has not been given a   *)
(* slot yet) or serving.                                                   *)
(***************************************************************************)
EXTENDS Integers, FiniteSets

CONSTANTS
    Connections,     \* connections the clients open, one after the other each
    MaxConnections   \* max_connections

ASSUME ConnectionsAssumption == IsFiniteSet(Connections)
ASSUME MaxConnectionsAssumption == MaxConnections \in Nat

VARIABLES
    conn,           \* the state of every connection
    count,          \* SessionManager._count
    shutting_down,  \* SessionManager.shutting_down
    lifespan,       \* "up", "draining" while shutdown() loops, "stopped"
    timed_out,      \* ghost: the drain was ended by its deadline
    leaked          \* ghost: slots taken by sessions that could not be set up

managerVars == <<conn, count, shutting_down, lifespan, timed_out, leaked>>

Serving == {c \in Connections : conn[c] = "serving"}

ManagerInit ==
    /\ conn = [c \in Connections |-> "idle"]
    /\ count = 0 /\ shutting_down = FALSE
    /\ lifespan = "up"
    /\ timed_out = FALSE /\ leaked = 0

\* Mutated form of CanAcquire: the drain is not looked at.
CanAcquireInDrain == count < MaxConnections

CanAcquire == ~shutting_down /\ count < MaxConnections

\* Mutated form of Released: the slot is not given back when it is the last.
ReleasedButLast == IF count > 1 THEN count - 1 ELSE count

Released == IF count > 0 THEN count - 1 ELSE count

Accept(c) ==
    /\ conn[c] = "idle"
    /\ conn' = [conn EXCEPT ![c] = "accepted"]
    /\ UNCHANGED <<count, shutting_down, lifespan, timed_out, leaked>>

Admit(c) ==
    /\ conn[c] = "accepted"
    /\ CanAcquire
    /\ count' = count + 1
    /\ conn' = [conn EXCEPT ![c] = "serving"]
    /\ UNCHANGED <<shutting_down, lifespan, timed_out, leaked>>

\* The detector or the denoiser of the session cannot be created: the
\* exception leaves the handler before the try whose finally calls release().
SetupFails(c) ==
    /\ conn[c] = "accepted"
    /\ CanAcquire
    /\ count' = count + 1
    /\ leaked' = leaked + 1
    /\ conn' = [conn EXCEPT ![c] = "idle"]
    /\ UNCHANGED <<shutting_down, lifespan, timed_out>>

\* close(1013)
Refuse(c) ==
    /\ conn[c] = "accepted"
    /\ ~CanAcquire
    /\ conn' = [conn EXCEPT ![c] = "idle"]
    /\ UNCHANGED <<count, shutting_down, lifespan, timed_out, leaked>>

\* The finally clause of the session, however the session ended.
Finish(c) ==
    /\ conn[c] = "serving"
    /\ count' = Released
    /\ conn' = [conn EXCEPT ![c] = "idle"]
    /\ UNCHANGED <<shutting_down, lifespan, timed_out, leaked>>

BeginShutdown ==
    /\ lifespan = "up"
    /\ lifespan' = "draining"
    /\ shutting_down' = TRUE
    /\ UNCHANGED <<conn, count, timed_out, leaked>>

Drained ==
    /\ lifespan = "draining"
    /\ count = 0
    /\ lifespan' = "stopped"
    /\ UNCHANGED <<conn, count, shutting_down, timed_out, leaked>>

\* Mutated form of DrainDeadline: the deadline moves on with every session
\* that is still there.
DrainDeadlineMoves ==
    /\ lifespan = "draining"
    /\ count = 0
    /\ lifespan' = "stopped"
    /\ timed_out' = TRUE
    /\ UNCHANGED <<conn, count, shutting_down, leaked>>

DrainDeadline ==
    /\ lifespan = "draining"
    /\ count > 0
    /\ lifespan' = "stopped"
    /\ timed_out' = TRUE
    /\ UNCHANGED <<conn, count, shutting_down, leaked>>

Drain == Drained \/ DrainDeadline

ManagerNext ==
    \/ \E c \in Connections :
          Accept(c) \/ Admit(c) \/ SetupFails(c) \/ Refuse(c) \/ Finish(c)
    \/ BeginShutdown
    \/ Drain

ManagerSpec == ManagerInit /\ [][ManagerNext]_managerVars

\* The loop of shutdown() runs to its end; sessions may last for ever.
FairSpec == ManagerSpec /\ WF_managerVars(Drain)

-----------------------------------------------------------------------------
\* Every variable has its type, and the limit is kept.
ManagerTypeOK ==
    /\ conn \in [Connections -> {"idle", "accepted", "serving"}]
    /\ count \in 0 .. MaxConnections
    /\ shutting_down \in BOOLEAN
    /\ lifespan \in {"up", "draining", "stopped"}
    /\ timed_out \in BOOLEAN
    /\ leaked \in Nat

\* Every slot is held by a session that runs or was lost by one that could not
\* be set up: no end of a session gives back a slot twice or forgets it, and
\* there are no more of them than the limit allows.
SlotsAccounted ==
    /\ count = Cardinality(Serving) + leaked
    /\ count <= MaxConnections

\* The services are closed under a running session only after the deadline.
ServicesOutliveSessions ==
    lifespan = "stopped" /\ ~timed_out => Serving = {}

\* Once the drain has begun no session starts.
DrainOnlyShrinks == [][shutting_down => Serving' \subseteq Serving]_managerVars

\* The drain ends although sessions go on or slots were lost.
ShutdownEnds == shutting_down ~> lifespan = "stopped"

\* README.md:594: the count the connections endpoint returns is the number of
\* active connections.
CountIsActive == count = Cardinality(Serving)
=============================================================================
