---------------------------- MODULE AsrClientsProofs ----------------------------
(***************************************************************************)
(* What a worker process takes on: the clients' counters keep their types  *)
(* and are exact, for any number of pools, instances and requests; the     *)
(* slots of SessionManager are accounted for, the limit is kept and the    *)
(* drain lets no session start, for any number of connections.             *)
(***************************************************************************)
EXTENDS AsrClients, SessionManager, WellFoundedInduction, FiniteSetTheorems, TLAPS

\* Before start-up nothing has been asked of any client, afterwards the lists
\* are complete.
Phased ==
    /\ phase # "serving" => \A p \in Pools :
          rr[p] = 0 /\ \A c \in Client(p) : running[p][c] = 0
    /\ phase = "serving" => clients = Instances
    /\ DOMAIN outstanding = Pools /\ DOMAIN running = Pools /\ DOMAIN picked = Pools

IInv == TypeOK /\ Phased /\ OutstandingExact

LEMMA Smallest ==
    ASSUME NEW S, S \subseteq Nat, S # {}
    PROVE  \E x \in S : \A y \in S : x <= y
<1> DEFINE R == OpToRel(<, Nat)
<1>1. IsWellFoundedOn(R, Nat)
    BY NatLessThanWellFounded
<1>2. \A x, y \in Nat : x < y => <<x, y>> \in R
    BY DEF OpToRel
<1> HIDE DEF R
<1>3. PICK x \in S : \A y \in S : ~ (<<y, x>> \in R)
    BY <1>1, WFMin
<1>4. \A y \in S : ~ (y < x)
    BY <1>2, <1>3
<1> QED BY <1>3, <1>4

\* The list is not empty, so min() finds the first of the least loaded clients.
LEMMA LeastExists ==
    ASSUME NEW n \in Nat \ {0}, NEW f \in [0 .. n - 1 -> Nat]
    PROVE  \E c \in 0 .. n - 1 : \A d \in 0 .. n - 1 :
               \/ f[c] < f[d]
               \/ f[c] = f[d] /\ c <= d
<1> DEFINE S == 0 .. n - 1
           loads == {f[c] : c \in S}
<1>1. 0 \in S /\ S \subseteq Nat
    OBVIOUS
<1>2. loads \in SUBSET Nat /\ loads # {}
    BY <1>1
<1>3. PICK v \in loads : \A w \in loads : v <= w
    BY <1>2, Smallest
<1> HIDE DEF loads
<1> DEFINE firsts == {c \in S : f[c] = v}
<1>4. firsts \in SUBSET Nat /\ firsts # {}
    BY <1>1, <1>3 DEF loads
<1>5. PICK c \in firsts : \A d \in firsts : c <= d
    BY <1>4, Smallest
<1>6. ASSUME NEW d \in S
      PROVE  f[c] < f[d] \/ (f[c] = f[d] /\ c <= d)
    <2>1. f[c] = v /\ f[d] \in loads /\ v \in Nat /\ f[d] \in Nat
        BY <1>2, <1>3, <1>5 DEF loads
    <2>2. v <= f[d]
        BY <1>3, <2>1
    <2>3. CASE f[d] = v
        BY <1>5, <2>1, <2>3
    <2>4. CASE f[d] # v
        <3>1. v < f[d]
            BY <2>1, <2>2, <2>4
        <3> QED BY <2>1, <3>1
    <2> QED BY <2>3, <2>4
<1> QED BY <1>5, <1>6

\* What least_outstanding picks.
LEMMA LeastPicked ==
    ASSUME TypeOK, NEW p \in Pools, clients' = Instances,
           strategy = "least_outstanding"
    PROVE  /\ Picked(p) \in Client(p)
           /\ \A d \in Client(p) : outstanding[p][Picked(p)] <= outstanding[p][d]
           /\ \A d \in Client(p) :
                 outstanding[p][Picked(p)] = outstanding[p][d] => Picked(p) <= d
<1>1. Instances[p] \in Nat \ {0} /\ clients'[p] = Instances[p]
    BY InstancesAssumption
<1>2. outstanding[p] \in [0 .. Instances[p] - 1 -> Nat]
    BY DEF TypeOK, Client
<1> DEFINE least(c) == \A d \in 0 .. clients'[p] - 1 :
                           \/ outstanding[p][c] < outstanding[p][d]
                           \/ outstanding[p][c] = outstanding[p][d] /\ c <= d
<1>3. \E c \in 0 .. clients'[p] - 1 : least(c)
    BY <1>1, <1>2, LeastExists
<1>4. LeastOutstanding(p) = CHOOSE c \in 0 .. clients'[p] - 1 : least(c)
    BY DEF LeastOutstanding
<1> HIDE DEF least
<1>5. LeastOutstanding(p) \in 0 .. clients'[p] - 1 /\ least(LeastOutstanding(p))
    BY <1>3, <1>4
<1>6. Picked(p) = LeastOutstanding(p)
    BY DEF Picked
<1>7. ASSUME NEW d \in Client(p)
      PROVE  /\ outstanding[p][Picked(p)] <= outstanding[p][d]
             /\ outstanding[p][Picked(p)] = outstanding[p][d] => Picked(p) <= d
    BY <1>1, <1>2, <1>5, <1>6 DEF least, Client
<1> QED BY <1>1, <1>5, <1>6, <1>7 DEF Client

\* A picked client is one of the pool, whatever the strategy.
LEMMA PickedIsClient ==
    ASSUME TypeOK, NEW p \in Pools, clients' = Instances
    PROVE  Picked(p) \in Client(p)
<1>1. Instances[p] \in Nat \ {0} /\ clients'[p] = Instances[p]
    BY InstancesAssumption
<1>2. CASE strategy = "round_robin"
    <2>1. rr[p] \in Nat
        BY DEF TypeOK
    <2>2. rr[p] % Instances[p] \in 0 .. Instances[p] - 1
        BY <1>1, <2>1
    <2> QED BY <1>1, <1>2, <2>2 DEF Picked, RoundRobin, Client
<1>3. CASE strategy = "least_outstanding"
    BY <1>3, LeastPicked
<1> QED BY <1>2, <1>3 DEF TypeOK

\* Counting a pick adds one to the picked client of the pool and to no other.
LEMMA CountOne ==
    ASSUME NEW p \in Pools, NEW counts, DOMAIN counts = Pools,
           counts[p] \in [Client(p) -> Nat], Picked(p) \in Client(p)
    PROVE  /\ Counted(counts, p)[p] \in [Client(p) -> Nat]
           /\ \A c \in Client(p) :
                 Counted(counts, p)[p][c] = counts[p][c] + (IF c = Picked(p) THEN 1 ELSE 0)
           /\ \A q \in Pools \ {p} : Counted(counts, p)[q] = counts[q]
           /\ DOMAIN Counted(counts, p) = Pools
<1>1. Counted(counts, p)[p] = [counts[p] EXCEPT ![Picked(p)] = counts[p][Picked(p)] + 1]
    BY DEF Counted
<1>2. \A q \in Pools \ {p} : Counted(counts, p)[q] = counts[q]
    BY DEF Counted
<1>3. DOMAIN Counted(counts, p) = Pools
    BY DEF Counted
<1> QED BY <1>1, <1>2, <1>3


LEMMA InitHolds == Init => IInv
<1> SUFFICES ASSUME Init PROVE IInv
    OBVIOUS
<1>1. TypeOK
    BY DEF Init, TypeOK
<1>2. Phased
    BY DEF Init, Phased
<1>3. OutstandingExact
    BY DEF Init, OutstandingExact
<1> QED BY <1>1, <1>2, <1>3 DEF IInv

\* The picks at start-up: each pool counts one for its first client, which no
\* request follows.
LEMMA StartUpStep == IInv /\ StartUp => IInv'
<1> SUFFICES ASSUME IInv, StartUp PROVE IInv'
    OBVIOUS
<1> USE DEF IInv
<1>1. clients' = Instances /\ phase = "startup" /\ phase' = "serving"
    BY DEF StartUp
<1>2. ASSUME NEW p \in Pools
      PROVE  /\ Picked(p) = 0 /\ Picked(p) \in Client(p)
             /\ outstanding'[p] = Counted(outstanding, p)[p]
             /\ picked'[p] = Counted(picked, p)[p]
             /\ rr'[p] \in Nat
    <2>1. \A c \in Client(p) : outstanding[p][c] = 0
        BY <1>1 DEF Phased, OutstandingExact
    <2>2. rr[p] = 0 /\ Instances[p] \in Nat \ {0} /\ clients'[p] = Instances[p]
        BY <1>1, InstancesAssumption DEF Phased
    <2>3. Picked(p) \in Client(p) /\ 0 \in Client(p)
        BY <1>1, <2>2, PickedIsClient DEF Client
    <2>4. CASE strategy = "round_robin"
        <3>1. rr[p] % clients'[p] = 0
            BY <2>2
        <3>2. Picked(p) = 0
            BY <2>4, <3>1 DEF Picked, RoundRobin
        <3> QED BY <2>2, <2>3, <2>4, <3>2 DEF StartUp, Turn
    <2>5. CASE strategy = "least_outstanding"
        <3>1. Picked(p) <= 0
            BY <1>1, <2>1, <2>3, <2>5, LeastPicked
        <3>2. Picked(p) = 0
            BY <2>3, <3>1 DEF Client
        <3> QED BY <2>2, <2>3, <2>5, <3>2 DEF StartUp, Turn
    <2> QED BY <2>4, <2>5 DEF TypeOK
<1>3. ASSUME NEW p \in Pools
      PROVE  /\ outstanding'[p] \in [Client(p) -> Nat]
             /\ picked'[p] \in [Client(p) -> Nat]
             /\ \A c \in Client(p) :
                   outstanding'[p][c] = outstanding[p][c] + (IF c = 0 THEN 1 ELSE 0)
    <2>1. /\ outstanding[p] \in [Client(p) -> Nat] /\ picked[p] \in [Client(p) -> Nat]
          /\ DOMAIN outstanding = Pools /\ DOMAIN picked = Pools
        BY DEF TypeOK, Phased
    <2> QED BY <1>2, <2>1, CountOne
<1>4. UNCHANGED <<strategy, monitored, running, vllm_healthy, any_answered>>
    BY DEF StartUp, healthVars
<1>5. TypeOK'
    <2>1. clients' \in [Pools -> Nat]
        BY <1>1, InstancesAssumption
    <2>2. rr' \in [Pools -> Nat]
        BY <1>2 DEF StartUp
    <2> QED BY <1>1, <1>3, <1>4, <2>1, <2>2 DEF TypeOK
<1>6. Phased'
    BY <1>1, <1>4 DEF Phased, StartUp
<1>7. OutstandingExact'
    <2> SUFFICES ASSUME NEW p \in Pools, NEW c \in Client(p)
                 PROVE  outstanding'[p][c] = running'[p][c] + (IF c = 0 THEN 1 ELSE 0)
        BY <1>1 DEF OutstandingExact
    <2>1. outstanding[p][c] = running[p][c] /\ running[p][c] \in Nat
        BY <1>1 DEF OutstandingExact, TypeOK
    <2> QED BY <1>3, <1>4, <2>1
<1> QED BY <1>5, <1>6, <1>7

LEMMA RequestStep == ASSUME IInv, NEW p \in Pools, Request(p) PROVE IInv'
<1> USE DEF IInv
<1>1. /\ phase = "serving" /\ clients = Instances /\ clients' = Instances
      /\ UNCHANGED <<phase, strategy, monitored, vllm_healthy, any_answered>>
    BY DEF Request, Phased, healthVars
<1>2. Picked(p) \in Client(p)
    BY <1>1, PickedIsClient
<1>3. /\ outstanding' = Counted(outstanding, p) /\ running' = Counted(running, p)
      /\ picked' = Counted(picked, p)
    BY DEF Request
<1> DEFINE counted(new, old) ==
              /\ new[p] \in [Client(p) -> Nat]
              /\ \A c \in Client(p) :
                    new[p][c] = old[p][c] + (IF c = Picked(p) THEN 1 ELSE 0)
              /\ \A q \in Pools \ {p} : new[q] = old[q]
              /\ DOMAIN new = Pools
<1>4. counted(outstanding', outstanding) /\ counted(running', running)
      /\ counted(picked', picked)
    <2>1. /\ DOMAIN outstanding = Pools /\ outstanding[p] \in [Client(p) -> Nat]
          /\ DOMAIN running = Pools /\ running[p] \in [Client(p) -> Nat]
          /\ DOMAIN picked = Pools /\ picked[p] \in [Client(p) -> Nat]
        BY DEF TypeOK, Phased
    <2> QED BY <1>2, <1>3, <2>1, CountOne
<1>5. rr' \in [Pools -> Nat]
    BY DEF Request, Turn, TypeOK
<1>6. TypeOK'
    BY <1>1, <1>4, <1>5 DEF TypeOK
<1>7. Phased'
    BY <1>1, <1>4 DEF Phased
<1>8. OutstandingExact'
    <2> SUFFICES ASSUME NEW q \in Pools, NEW c \in Client(q)
                 PROVE  outstanding'[q][c] = running'[q][c] + (IF c = 0 THEN 1 ELSE 0)
        BY <1>1 DEF OutstandingExact
    <2>1. /\ outstanding[q][c] = running[q][c] + (IF c = 0 THEN 1 ELSE 0)
          /\ running[q][c] \in Nat
        BY <1>1 DEF OutstandingExact, TypeOK
    <2>2. CASE q = p
        BY <1>4, <2>1, <2>2
    <2>3. CASE q # p
        BY <1>4, <2>1, <2>3
    <2> QED BY <2>2, <2>3
<1> QED BY <1>6, <1>7, <1>8

LEMMA AnswerStep ==
    ASSUME IInv, NEW p \in Pools, NEW c \in Client(p), NEW ok \in BOOLEAN, Answer(p, c, ok)
    PROVE  IInv'
<1> USE DEF IInv
<1>1. UNCHANGED <<phase, strategy, clients, monitored, rr, picked, vllm_healthy, any_answered>>
    BY DEF Answer, healthVars
<1>2. /\ running[p][c] \in Nat /\ running[p][c] > 0 /\ phase = "serving"
    <2>1. running[p][c] \in Nat /\ running[p][c] > 0
        BY DEF Answer, TypeOK
    <2> QED BY <2>1 DEF Phased
<1>3. outstanding[p][c] \in Nat /\ outstanding[p][c] >= 1
    <2>1. outstanding[p][c] = running[p][c] + (IF c = 0 THEN 1 ELSE 0)
        BY <1>2 DEF OutstandingExact
    <2> QED BY <1>2, <2>1
<1>4. /\ running' = [running EXCEPT ![p][c] = @ - 1]
      /\ outstanding' = [outstanding EXCEPT ![p][c] = @ - 1]
    BY DEF Answer, Answered
<1>5. /\ DOMAIN running' = Pools /\ DOMAIN outstanding' = Pools
      /\ \A q \in Pools \ {p} : running'[q] = running[q] /\ outstanding'[q] = outstanding[q]
      /\ running'[p] = [running[p] EXCEPT ![c] = running[p][c] - 1]
      /\ outstanding'[p] = [outstanding[p] EXCEPT ![c] = outstanding[p][c] - 1]
    BY <1>4 DEF Phased
<1>6. \A q \in Pools : /\ running[q] \in [Client(q) -> Nat]
                       /\ outstanding[q] \in [Client(q) -> Nat]
    BY DEF TypeOK
<1>7. running'[p] \in [Client(p) -> Nat] /\ outstanding'[p] \in [Client(p) -> Nat]
    <2>1. running[p][c] - 1 \in Nat /\ outstanding[p][c] - 1 \in Nat
        BY <1>2, <1>3
    <2> QED BY <1>5, <1>6, <2>1
<1>8. TypeOK'
    BY <1>1, <1>5, <1>7 DEF TypeOK
<1>9. Phased'
    BY <1>1, <1>2, <1>5 DEF Phased
<1>10. OutstandingExact'
    <2> SUFFICES ASSUME NEW q \in Pools, NEW d \in Client(q)
                 PROVE  outstanding'[q][d] = running'[q][d] + (IF d = 0 THEN 1 ELSE 0)
        BY <1>1, <1>2 DEF OutstandingExact
    <2>1. outstanding[q][d] = running[q][d] + (IF d = 0 THEN 1 ELSE 0)
        BY <1>2 DEF OutstandingExact
    <2>2. running[q][d] \in Nat
        BY <1>6
    <2>3. CASE q = p /\ d = c
        BY <1>5, <1>6, <2>1, <2>2, <2>3
    <2>4. CASE q = p /\ d # c
        BY <1>5, <1>6, <2>1, <2>4
    <2>5. CASE q # p
        BY <1>5, <2>1, <2>5
    <2> QED BY <2>3, <2>4, <2>5
<1> QED BY <1>8, <1>9, <1>10

LEMMA Step == IInv /\ [Next]_vars => IInv'
<1> SUFFICES ASSUME IInv, [Next]_vars PROVE IInv'
    OBVIOUS
<1>1. CASE Import
    <2>1. /\ phase = "import" /\ phase' = "startup" /\ monitored' = clients
          /\ UNCHANGED <<strategy, poolVars, healthVars>>
        BY <1>1 DEF Import
    <2>2. TypeOK'
        BY <2>1 DEF IInv, TypeOK, poolVars, healthVars
    <2>3. Phased' /\ OutstandingExact'
        BY <2>1 DEF IInv, Phased, OutstandingExact, poolVars
    <2> QED BY <2>2, <2>3 DEF IInv
<1>2. CASE StartUp
    BY <1>2, StartUpStep
<1>3. CASE \E p \in Pools : Request(p)
    BY <1>3, RequestStep
<1>4. CASE \E p \in Pools : \E c \in Client(p), ok \in BOOLEAN : Answer(p, c, ok)
    BY <1>4, AnswerStep
<1>5. CASE \E up \in SUBSET AllInstances : HealthCheck(up)
    <2>1. /\ UNCHANGED <<phase, strategy, monitored, poolVars>>
          /\ vllm_healthy' \in BOOLEAN /\ any_answered' \in BOOLEAN
        BY <1>5, Zenon DEF HealthCheck
    <2>2. TypeOK'
        BY <2>1 DEF IInv, TypeOK, poolVars
    <2>3. Phased' /\ OutstandingExact'
        BY <2>1 DEF IInv, Phased, OutstandingExact, poolVars
    <2> QED BY <2>2, <2>3 DEF IInv
<1>6. CASE UNCHANGED vars
    <2>1. UNCHANGED <<phase, strategy, clients, monitored, outstanding, rr, running,
                      picked, vllm_healthy, any_answered>>
        BY <1>6 DEF vars
    <2> QED BY <2>1 DEF IInv, TypeOK, Phased, OutstandingExact
<1> QED BY <1>1, <1>2, <1>3, <1>4, <1>5, <1>6 DEF Next

\* Every counter keeps its type; above all, none gets negative.
THEOREM ClientsTypeCorrect == Spec => []TypeOK
<1> QED BY InitHolds, Step, PTL DEF Spec, IInv

\* The outstanding counts are exact for ever, up to the pick at start-up.
THEOREM CountsAreExact == Spec => []OutstandingExact
<1> QED BY InitHolds, Step, PTL DEF Spec, IInv


LEMMA SparedStep ==
    ASSUME IInv, [Next]_vars, strategy = "least_outstanding",
           NEW p \in Pools, NEW c \in Client(p), NEW d \in Client(p),
           running'[p][c] > running[p][c]
    PROVE  running[p][c] <= running[p][d] + 1
<1> USE DEF IInv
<1>1. running[p] \in [Client(p) -> Nat] /\ DOMAIN running = Pools
    BY DEF TypeOK, Phased
<1>2. CASE Import \/ StartUp \/ UNCHANGED vars \/ \E up \in SUBSET AllInstances : HealthCheck(up)
    <2>1. running' = running
        BY <1>2 DEF Import, StartUp, HealthCheck, poolVars, vars
    <2> QED BY <1>1, <2>1
<1>3. ASSUME NEW q \in Pools, Request(q)
      PROVE  running[p][c] <= running[p][d] + 1
    <2>1. phase = "serving" /\ clients' = Instances /\ running' = Counted(running, q)
        BY <1>3 DEF Request, Phased
    <2>2. /\ Picked(q) \in Client(q)
          /\ \A e \in Client(q) : outstanding[q][Picked(q)] <= outstanding[q][e]
        BY <2>1, LeastPicked
    <2>3. running[q] \in [Client(q) -> Nat]
        BY DEF TypeOK
    <2>4. p = q /\ c = Picked(q)
        BY <1>1, <2>1, <2>2, <2>3, CountOne
    <2>5. outstanding[p][c] <= outstanding[p][d]
        BY <2>2, <2>4
    <2>6. /\ outstanding[p][c] = running[p][c] + (IF c = 0 THEN 1 ELSE 0)
          /\ outstanding[p][d] = running[p][d] + (IF d = 0 THEN 1 ELSE 0)
        BY <2>1 DEF OutstandingExact
    <2>7. running[p][c] \in Nat /\ running[p][d] \in Nat
        BY <1>1
    <2> QED BY <2>5, <2>6, <2>7
<1>4. ASSUME NEW q \in Pools, NEW e \in Client(q), NEW ok \in BOOLEAN, Answer(q, e, ok)
      PROVE  running[p][c] <= running[p][d] + 1
    <2>1. running' = [running EXCEPT ![q][e] = @ - 1]
        BY <1>4 DEF Answer
    <2>2. running'[p][c] <= running[p][c]
        BY <1>1, <2>1
    <2>3. running'[p][c] \in Int /\ running[p][c] \in Nat
        BY <1>1, <2>1
    <2> QED BY <2>2, <2>3
<1> QED BY <1>2, <1>3, <1>4 DEF Next

\* With least_outstanding no request goes to a client that is two requests
\* busier than another one.
THEOREM BusyClientsAreSpared == Spec => BusyClientSpared
<1>1. IInv /\ [Next]_vars
        => [strategy = "least_outstanding" =>
              \A p \in Pools : \A c, d \in Client(p) :
                  running'[p][c] > running[p][c] => running[p][c] <= running[p][d] + 1]_vars
    BY SparedStep
<1> QED BY <1>1, InitHolds, Step, PTL DEF Spec, BusyClientSpared

-----------------------------------------------------------------------------
(* Round robin *)

\* The turns taken are so many full rounds and a part of one.
Rounds(p) ==
    \E q \in Nat, s \in 0 .. Instances[p] - 1 :
        /\ rr[p] = q * Instances[p] + s
        /\ \A c \in Client(p) : picked[p][c] = q + (IF c < s THEN 1 ELSE 0)

RoundsInv == strategy = "round_robin" => \A p \in Pools : Rounds(p)

LEMMA ModUnique ==
    ASSUME NEW n \in Nat \ {0}, NEW q \in Int, NEW r \in 0 .. n - 1
    PROVE  (q * n + r) % n = r
  OBVIOUS

\* One pick more of a pool.
LEMMA RoundGoesOn ==
    ASSUME IInv, NEW p \in Pools, Rounds(p), strategy = "round_robin",
           clients' = Instances, rr'[p] = rr[p] + 1,
           picked'[p] = Counted(picked, p)[p]
    PROVE  Rounds(p)'
<1> DEFINE n == Instances[p]
<1>1. n \in Nat \ {0} /\ clients'[p] = n /\ Client(p) = 0 .. n - 1
    BY InstancesAssumption DEF Client
<1> HIDE DEF n
<1>2. PICK q \in Nat, s \in 0 .. n - 1 :
        /\ rr[p] = q * n + s
        /\ \A c \in Client(p) : picked[p][c] = q + (IF c < s THEN 1 ELSE 0)
    BY DEF Rounds, n
<1>3. Picked(p) = s
    <2>1. (q * n + s) % n = s
        <3>1. q \in Int /\ s \in 0 .. n - 1 /\ n \in Nat \ {0}
            BY <1>1
        <3> QED BY <3>1, ModUnique
    <2>2. RoundRobin(p) = (q * n + s) % n
        BY <1>1, <1>2 DEF RoundRobin
    <2> QED BY <2>1, <2>2 DEF Picked
<1>4. \A c \in Client(p) : picked'[p][c] = picked[p][c] + (IF c = s THEN 1 ELSE 0)
    <2>1. picked[p] \in [Client(p) -> Nat] /\ DOMAIN picked = Pools /\ Picked(p) \in Client(p)
        BY <1>1, <1>3, <1>2 DEF IInv, TypeOK, Phased
    <2> QED BY <1>3, <2>1, CountOne
<1>5. CASE s + 1 < n
    <2>1. s + 1 \in 0 .. n - 1 /\ rr'[p] = q * n + (s + 1)
        BY <1>1, <1>2, <1>5
    <2>2. \A c \in Client(p) : picked'[p][c] = q + (IF c < s + 1 THEN 1 ELSE 0)
        BY <1>1, <1>2, <1>4
    <2> QED BY <2>1, <2>2 DEF Rounds, n, Client
<1>6. CASE s + 1 = n
    <2>1. (q + 1) * n = q * n + n
        BY <1>1
    <2>2. q + 1 \in Nat /\ 0 \in 0 .. n - 1 /\ rr'[p] = (q + 1) * n + 0
        <3>1. rr'[p] = q * n + s + 1 /\ s + 1 = n
            BY <1>2, <1>6
        <3>2. q * n \in Nat /\ (q + 1) * n \in Nat
            BY <1>1
        <3> DEFINE x == q * n
                   y == (q + 1) * n
        <3>3. y = x + n /\ x \in Nat /\ rr'[p] = x + s + 1 /\ s \in Nat
            BY <2>1, <3>1, <3>2
        <3> HIDE DEF x, y
        <3>4. rr'[p] = y + 0
            BY <1>1, <3>1, <3>3
        <3>5. q + 1 \in Nat /\ 0 \in 0 .. n - 1
            BY <1>1
        <3> QED BY <3>4, <3>5 DEF y
    <2>3. \A c \in Client(p) : picked'[p][c] = (q + 1) + (IF c < 0 THEN 1 ELSE 0)
        BY <1>1, <1>2, <1>4, <1>6
    <2> QED BY <2>2, <2>3 DEF Rounds, n, Client
<1> QED BY <1>1, <1>2, <1>5, <1>6

LEMMA RoundsInit == Init => RoundsInv
<1> SUFFICES ASSUME Init, NEW p \in Pools PROVE Rounds(p)
    BY DEF RoundsInv
<1>1. /\ Instances[p] \in Nat \ {0} /\ rr[p] = 0
      /\ \A c \in Client(p) : picked[p][c] = 0 /\ c \in Nat
    BY InstancesAssumption DEF Init, Client
<1>2. 0 * Instances[p] + 0 = 0 /\ 0 \in 0 .. Instances[p] - 1
    BY <1>1
<1> QED BY <1>1, <1>2 DEF Rounds

LEMMA RoundsStep == IInv /\ RoundsInv /\ [Next]_vars => RoundsInv'
<1> SUFFICES ASSUME IInv, RoundsInv, [Next]_vars, strategy' = "round_robin",
                    NEW p \in Pools
             PROVE  Rounds(p)'
    BY DEF RoundsInv
<1>1. CASE strategy' = strategy /\ rr'[p] = rr[p] /\ picked'[p] = picked[p]
    BY <1>1 DEF RoundsInv, Rounds
<1>2. CASE StartUp
    <2>1. /\ clients' = Instances /\ strategy' = strategy
          /\ rr'[p] = Turn(p) /\ picked'[p] = Counted(picked, p)[p]
        BY <1>2 DEF StartUp
    <2> QED BY <2>1, RoundGoesOn DEF RoundsInv, Turn
<1>3. ASSUME NEW q \in Pools, Request(q) PROVE Rounds(p)'
    <2>1. /\ clients' = Instances /\ strategy' = strategy
          /\ rr' = [rr EXCEPT ![q] = Turn(q)] /\ picked' = Counted(picked, q)
          /\ rr \in [Pools -> Nat] /\ DOMAIN picked = Pools
        BY <1>3 DEF Request, IInv, Phased, TypeOK
    <2>2. CASE q = p
        BY <2>1, <2>2, RoundGoesOn DEF RoundsInv, Turn
    <2>3. CASE q # p
        <3>1. rr'[p] = rr[p] /\ picked'[p] = picked[p]
            BY <2>1, <2>3 DEF Counted
        <3> QED BY <1>1, <2>1, <3>1
    <2> QED BY <2>2, <2>3
<1>4. CASE \/ Import \/ UNCHANGED vars
           \/ \E q \in Pools : \E c \in Client(q), ok \in BOOLEAN : Answer(q, c, ok)
           \/ \E up \in SUBSET AllInstances : HealthCheck(up)
    BY <1>1, <1>4 DEF Import, Answer, HealthCheck, poolVars, vars
<1> QED BY <1>2, <1>3, <1>4 DEF Next

\* Round robin is even for any number of instances: the clients' shares differ
\* by one turn at most.
THEOREM RoundRobinIsEven == Spec => []RoundRobinEven
<1>1. IInv /\ RoundsInv => RoundRobinEven
    <2> SUFFICES ASSUME IInv, RoundsInv, strategy = "round_robin", NEW p \in Pools,
                        NEW c \in Client(p), NEW d \in Client(p)
                 PROVE  picked[p][c] <= picked[p][d] + 1
        BY DEF RoundRobinEven
    <2>1. PICK q \in Nat, s \in 0 .. Instances[p] - 1 :
            \A e \in Client(p) : picked[p][e] = q + (IF e < s THEN 1 ELSE 0)
        BY DEF RoundsInv, Rounds
    <2> QED BY <2>1
<1> QED BY <1>1, InitHolds, Step, RoundsInit, RoundsStep, PTL DEF Spec

-----------------------------------------------------------------------------
(* Admission *)

LEMMA ServingFinite == IsFiniteSet(Serving) /\ Cardinality(Serving) \in Nat
<1>1. Serving \subseteq Connections
    BY DEF Serving
<1>2. IsFiniteSet(Serving)
    BY <1>1, ConnectionsAssumption, FS_Subset
<1> QED BY <1>2, FS_CardinalityType

\* One connection starts or stops serving, the others stay as they are.
LEMMA ServingChanges ==
    ASSUME ManagerTypeOK, NEW c \in Connections, NEW state \in {"idle", "accepted", "serving"},
           conn' = [conn EXCEPT ![c] = state]
    PROVE  Serving' = IF state = "serving" THEN Serving \cup {c} ELSE Serving \ {c}
BY DEF ManagerTypeOK, Serving

\* The invariant that the steps keep: no session starts in a drain either, so
\* a drain that ended because no slot was taken left no session behind.
SlotInv ==
    /\ ManagerTypeOK
    /\ SlotsAccounted
    /\ shutting_down <=> lifespan # "up"
    /\ ServicesOutliveSessions

LEMMA SlotInit == ManagerInit => SlotInv
<1> SUFFICES ASSUME ManagerInit PROVE SlotInv
    OBVIOUS
<1>1. Serving = {}
    BY DEF ManagerInit, Serving
<1>2. Cardinality(Serving) = 0
    BY <1>1, FS_EmptySet
<1>3. ManagerTypeOK
    <2>1. count \in 0 .. MaxConnections /\ leaked \in Nat
        BY MaxConnectionsAssumption DEF ManagerInit
    <2>2. shutting_down \in BOOLEAN /\ timed_out \in BOOLEAN
        BY DEF ManagerInit
    <2>3. conn \in [Connections -> {"idle", "accepted", "serving"}]
        BY DEF ManagerInit
    <2> QED BY <2>1, <2>2, <2>3 DEF ManagerInit, ManagerTypeOK
<1>4. SlotsAccounted
    BY <1>2, MaxConnectionsAssumption DEF ManagerInit, SlotsAccounted
<1>5. ~shutting_down /\ lifespan = "up"
    BY DEF ManagerInit
<1> QED BY <1>3, <1>4, <1>5 DEF SlotInv, ServicesOutliveSessions

LEMMA AcceptOrRefuseStep ==
    ASSUME SlotInv, NEW c \in Connections, Accept(c) \/ Refuse(c)
    PROVE  SlotInv'
<1>1. ManagerTypeOK
    BY DEF SlotInv
<1>2. Serving' = Serving
    BY <1>1 DEF ManagerTypeOK, Serving, Accept, Refuse
<1>3. ManagerTypeOK'
    BY <1>1 DEF ManagerTypeOK, Accept, Refuse
<1> QED BY <1>2, <1>3
        DEF SlotInv, SlotsAccounted, ServicesOutliveSessions, Accept, Refuse

LEMMA AdmitStep ==
    ASSUME SlotInv, NEW c \in Connections, Admit(c)
    PROVE  SlotInv'
<1>1. ManagerTypeOK /\ conn[c] = "accepted"
    BY DEF SlotInv, Admit
<1>2. Serving' = Serving \cup {c} /\ c \notin Serving
    BY <1>1, ServingChanges DEF Admit, Serving
<1>3. Cardinality(Serving') = Cardinality(Serving) + 1
    BY <1>2, ServingFinite, FS_AddElement
<1>4. ManagerTypeOK'
    <2>1. count + 1 \in 0 .. MaxConnections
        BY <1>1, MaxConnectionsAssumption DEF ManagerTypeOK, Admit, CanAcquire
    <2> QED BY <1>1, <2>1 DEF ManagerTypeOK, Admit
<1>5. SlotsAccounted'
    BY <1>1, <1>3, <1>4, ServingFinite, MaxConnectionsAssumption
       DEF SlotInv, SlotsAccounted, ManagerTypeOK, Admit
<1> QED BY <1>4, <1>5 DEF SlotInv, ServicesOutliveSessions, Admit, CanAcquire

LEMMA SetupFailsStep ==
    ASSUME SlotInv, NEW c \in Connections, SetupFails(c)
    PROVE  SlotInv'
<1>1. ManagerTypeOK /\ conn[c] = "accepted"
    BY DEF SlotInv, SetupFails
<1>2. Serving' = Serving
    BY <1>1 DEF ManagerTypeOK, Serving, SetupFails
<1>3. ManagerTypeOK'
    <2>1. count + 1 \in 0 .. MaxConnections /\ leaked + 1 \in Nat
        BY <1>1, MaxConnectionsAssumption DEF ManagerTypeOK, SetupFails, CanAcquire
    <2> QED BY <1>1, <2>1 DEF ManagerTypeOK, SetupFails
<1>4. SlotsAccounted'
    BY <1>1, <1>2, <1>3, ServingFinite, MaxConnectionsAssumption
       DEF SlotInv, SlotsAccounted, ManagerTypeOK, SetupFails
<1> QED BY <1>2, <1>3, <1>4 DEF SlotInv, ServicesOutliveSessions, SetupFails

LEMMA FinishStep ==
    ASSUME SlotInv, NEW c \in Connections, Finish(c)
    PROVE  SlotInv'
<1>1. ManagerTypeOK /\ conn[c] = "serving"
    BY DEF SlotInv, Finish
<1>2. Serving' = Serving \ {c} /\ c \in Serving
    BY <1>1, ServingChanges DEF Finish, Serving
<1>3. Cardinality(Serving') = Cardinality(Serving) - 1
    BY <1>2, ServingFinite, FS_RemoveElement
<1>4. Cardinality(Serving) # 0
    BY <1>2, ServingFinite, FS_EmptySet
<1>5. count > 0
    BY <1>1, <1>4, ServingFinite DEF SlotInv, SlotsAccounted, ManagerTypeOK
<1>6. ManagerTypeOK'
    <2>1. count' \in 0 .. MaxConnections
        BY <1>1, <1>5, MaxConnectionsAssumption DEF ManagerTypeOK, Finish, Released
    <2> QED BY <1>1, <2>1 DEF ManagerTypeOK, Finish
<1>7. SlotsAccounted'
    BY <1>1, <1>3, <1>5, <1>6, ServingFinite, MaxConnectionsAssumption
       DEF SlotInv, SlotsAccounted, ManagerTypeOK, Finish, Released
<1> QED BY <1>2, <1>6, <1>7 DEF SlotInv, ServicesOutliveSessions, Finish

LEMMA LifespanStep ==
    ASSUME SlotInv, BeginShutdown \/ Drain \/ UNCHANGED managerVars
    PROVE  SlotInv'
<1>1. ManagerTypeOK /\ SlotsAccounted
    BY DEF SlotInv
<1>2. Serving' = Serving /\ UNCHANGED <<count, leaked>>
    BY DEF Serving, BeginShutdown, Drain, Drained, DrainDeadline, managerVars
<1>3. ManagerTypeOK' /\ SlotsAccounted'
    BY <1>1, <1>2 DEF ManagerTypeOK, SlotsAccounted, BeginShutdown, Drain, Drained,
                      DrainDeadline, managerVars
<1>4. count = 0 => Serving = {}
    <2> HAVE count = 0
    <2>1. Cardinality(Serving) = 0
        BY <1>1, ServingFinite DEF SlotsAccounted, ManagerTypeOK
    <2> QED BY <2>1, ServingFinite, FS_EmptySet
<1> QED BY <1>2, <1>3, <1>4
        DEF SlotInv, ServicesOutliveSessions, BeginShutdown, Drain, Drained,
            DrainDeadline, managerVars

LEMMA SlotStep == SlotInv /\ [ManagerNext]_managerVars => SlotInv'
BY AcceptOrRefuseStep, AdmitStep, SetupFailsStep, FinishStep, LifespanStep DEF ManagerNext

\* The count of slots is the sessions that run and the slots lost by sessions
\* that could not be set up, for any number of connections and any limit.
THEOREM SlotsAreAccounted == ManagerSpec => []SlotsAccounted
<1>1. SlotInv => SlotsAccounted
    BY DEF SlotInv
<1> QED BY <1>1, SlotInit, SlotStep, PTL DEF ManagerSpec

\* Unless the deadline ended the drain, no session outlives the services.
THEOREM NoSessionOutlives == ManagerSpec => []ServicesOutliveSessions
<1>1. SlotInv => ServicesOutliveSessions
    BY DEF SlotInv
<1> QED BY <1>1, SlotInit, SlotStep, PTL DEF ManagerSpec

\* No step of a drain lets a session start.
THEOREM DrainShrinks == ManagerSpec => DrainOnlyShrinks
<1>1. SlotInv /\ [ManagerNext]_managerVars => [shutting_down => Serving' \subseteq Serving]_managerVars
    BY DEF ManagerNext, SlotInv, ManagerTypeOK, Serving, Accept, Admit, SetupFails, Refuse, Finish,
           CanAcquire, BeginShutdown, Drain, Drained, DrainDeadline, managerVars
<1> QED BY <1>1, SlotInit, SlotStep, PTL DEF ManagerSpec, DrainOnlyShrinks
=============================================================================
