---------------------------- MODULE LogStreamProofs ----------------------------
(***************************************************************************)
(* Lines come to every client of the log stream in the order of the log,   *)
(* and none is missed between backlog and queue, for any number of threads *)
(* that log and of clients that follow.                                    *)
(***************************************************************************)
EXTENDS LogStream, SequenceTheorems, TLAPS

Lines(c) == live[c] \o queue[c]

Callback == [client : Clients, line : Nat]

\* The shapes the argument needs: lines are numbers.
Shape ==
    /\ logged \in Nat
    /\ subscribers \subseteq Clients
    /\ emission \in [Threads -> [stage : {"idle", "appended", "notifying"},
                                 line : Nat, to : SUBSET Clients]]
    /\ callbacks \in Seq(Callback)
    /\ queue \in [Clients -> Seq(Nat)] /\ live \in [Clients -> Seq(Nat)]
    /\ DOMAIN generator = Clients
    /\ since \in [Clients -> Int]

\* The handler's lock: one emission at a time, and it is that of the last line.
OneEmission ==
    /\ \A t, u \in Threads :
          emission[t].stage # "idle" /\ emission[u].stage # "idle" => t = u
    /\ \A t \in Threads : emission[t].stage # "idle" => emission[t].line = logged
    /\ \A t \in Threads : emission[t].stage # "notifying" => emission[t].to = {}

\* Thread t has yet to schedule its line for client c.
Owes(t, c) == emission[t].stage = "appended" \/ c \in emission[t].to

\* No line of client c is scheduled, queued or taken that t has yet to schedule.
Ordered(c) ==
    /\ \A i, j \in DOMAIN Lines(c) : i < j => Lines(c)[i] < Lines(c)[j]
    /\ \A i \in DOMAIN Lines(c) : since[c] <= Lines(c)[i] /\ Lines(c)[i] <= logged
    /\ \A j \in DOMAIN callbacks : callbacks[j].client = c =>
          /\ since[c] <= callbacks[j].line /\ callbacks[j].line <= logged
          /\ \A i \in DOMAIN Lines(c) : Lines(c)[i] < callbacks[j].line
          /\ \A i \in DOMAIN callbacks : i < j /\ callbacks[i].client = c =>
                callbacks[i].line < callbacks[j].line
    /\ \A t \in Threads : Owes(t, c) =>
          /\ \A i \in DOMAIN Lines(c) : Lines(c)[i] < logged
          /\ \A j \in DOMAIN callbacks : callbacks[j].client = c => callbacks[j].line < logged

\* A client that never subscribed is not known anywhere.
Unknown(c) ==
    /\ c \notin subscribers
    /\ live[c] = <<>> /\ queue[c] = <<>>
    /\ \A j \in DOMAIN callbacks : callbacks[j].client # c
    /\ \A t \in Threads : c \notin emission[t].to

OrderInv ==
    /\ Shape
    /\ OneEmission
    /\ \A c \in Clients : Ordered(c) /\ since[c] <= logged
    /\ \A c \in Clients : generator[c] = "none" => Unknown(c)

LEMMA OrderInit == Init => OrderInv
<1> SUFFICES ASSUME Init PROVE OrderInv
    OBVIOUS
<1>1. Shape
    BY DEF Init, Shape, Idle
<1>2. OneEmission
    BY DEF Init, OneEmission, Idle
<1>3. ASSUME NEW c \in Clients
      PROVE  Ordered(c) /\ since[c] <= logged /\ Unknown(c)
    <2>1. live[c] = <<>> /\ queue[c] = <<>> /\ callbacks = <<>> /\ subscribers = {}
        BY DEF Init
    <2>2. Lines(c) = <<>> /\ DOMAIN Lines(c) = {} /\ DOMAIN callbacks = {}
        BY <2>1 DEF Lines
    <2>3. \A t \in Threads : emission[t].to = {}
        BY DEF Init, Idle
    <2>4. since[c] = -1 /\ logged = 0
        BY DEF Init
    <2>5. Ordered(c)
        BY <2>2 DEF Ordered
    <2> QED BY <2>1, <2>2, <2>3, <2>4, <2>5 DEF Unknown
<1> QED BY <1>1, <1>2, <1>3 DEF OrderInv

LEMMA LinesOf ==
    ASSUME Shape, NEW c \in Clients
    PROVE  /\ live[c] \in Seq(Nat) /\ queue[c] \in Seq(Nat) /\ Lines(c) \in Seq(Nat)
           /\ Len(live[c]) \in Nat /\ Len(queue[c]) \in Nat
           /\ Len(Lines(c)) = Len(live[c]) + Len(queue[c])
           /\ DOMAIN Lines(c) = 1 .. Len(live[c]) + Len(queue[c])
           /\ \A i \in DOMAIN Lines(c) : Lines(c)[i] \in Nat
<1>1. live[c] \in Seq(Nat) /\ queue[c] \in Seq(Nat)
    BY DEF Shape
<1>2. Lines(c) \in Seq(Nat) /\ Len(Lines(c)) = Len(live[c]) + Len(queue[c])
    BY <1>1, ConcatProperties DEF Lines
<1> QED BY <1>1, <1>2, LenProperties

\* What changes no line of any client, no callback and no emission.
LEMMA LinesKept ==
    ASSUME OrderInv, UNCHANGED <<logged, emission, callbacks, queue, live, since>>,
           subscribers' \subseteq subscribers,
           DOMAIN generator' = Clients,
           \A c \in Clients : generator'[c] = "none" => generator[c] = "none"
    PROVE  OrderInv'
<1>1. \A c : Lines(c)' = Lines(c)
    BY DEF Lines
<1>2. Shape'
    BY DEF OrderInv, Shape
<1>3. OneEmission'
    BY DEF OrderInv, OneEmission
<1>4. \A c \in Clients : Ordered(c)' /\ since'[c] <= logged'
    BY <1>1 DEF OrderInv, Ordered, Owes
<1>5. \A c \in Clients : generator'[c] = "none" => Unknown(c)'
    BY DEF OrderInv, Unknown
<1> QED BY <1>2, <1>3, <1>4, <1>5 DEF OrderInv

\* A client subscribes: nothing of it is on the way yet.
LEMMA SubscribeKeeps ==
    ASSUME OrderInv, NEW c \in Clients, Subscribe(c) PROVE OrderInv'
<1>1. /\ UNCHANGED <<logged, emission, callbacks, queue, live>>
      /\ subscribers' = subscribers \cup {c}
      /\ generator[c] = "none" /\ generator' = [generator EXCEPT ![c] = "subscribed"]
      /\ since' = [since EXCEPT ![c] = logged]
    BY DEF Subscribe, logVars
<1>2. \A d : Lines(d)' = Lines(d)
    BY <1>1 DEF Lines
<1>3. Shape' /\ OneEmission'
    BY <1>1 DEF OrderInv, Shape, OneEmission
<1>4. Unknown(c) /\ Shape /\ logged \in Nat
    BY <1>1 DEF OrderInv, Shape
<1>5. DOMAIN Lines(c) = {}
    <2>1. Len(live[c]) = 0 /\ Len(queue[c]) = 0
        BY <1>4 DEF Unknown
    <2>2. DOMAIN Lines(c) = 1 .. Len(live[c]) + Len(queue[c])
        BY <1>4, LinesOf
    <2> QED BY <2>1, <2>2
<1>6. ASSUME NEW d \in Clients PROVE Ordered(d)' /\ since'[d] <= logged'
    <2>1. CASE d = c
        <3>1. since'[c] = logged /\ logged' = logged
            BY <1>1, <1>4 DEF Shape
        <3>2. Ordered(c)'
            BY <1>1, <1>2, <1>4, <1>5 DEF Ordered, Unknown
        <3> QED BY <1>4, <2>1, <3>1, <3>2
    <2>2. CASE d # c
        <3>1. since'[d] = since[d]
            BY <1>1, <1>4, <2>2 DEF Shape
        <3> QED BY <1>1, <1>2, <3>1 DEF OrderInv, Ordered, Owes
    <2> QED BY <2>1, <2>2
<1>7. ASSUME NEW d \in Clients, generator'[d] = "none" PROVE Unknown(d)'
    <2>1. d # c /\ generator[d] = "none"
        BY <1>1, <1>4, <1>7 DEF Shape
    <2> QED BY <1>1, <2>1 DEF OrderInv, Unknown
<1> QED BY <1>3, <1>6, <1>7 DEF OrderInv

\* The lock is free, so no line is owed: the new one lies behind all.
LEMMA AppendKeeps ==
    ASSUME OrderInv, NEW t \in Threads, AppendLine(t) PROVE OrderInv'
<1>1. /\ UNCHANGED <<subscribers, callbacks, queue, live, since, generator>>
      /\ logged' = logged + 1
      /\ emission' = [emission EXCEPT ![t] = [stage |-> "appended", line |-> logged',
                                              to |-> {}]]
      /\ \A u \in Threads : emission[u].stage = "idle" /\ emission[u].to = {}
    BY DEF AppendLine, LockFree, Idle, clientVars
<1>2. \A d : Lines(d)' = Lines(d)
    BY <1>1 DEF Lines
<1>3. Shape /\ logged \in Nat /\ logged' \in Nat
    BY <1>1 DEF OrderInv, Shape
<1>4. Shape'
    BY <1>1, <1>3 DEF Shape
<1>5. \A u \in Threads :
         /\ u = t => emission'[u] = [stage |-> "appended", line |-> logged', to |-> {}]
         /\ u # t => emission'[u] = emission[u]
    BY <1>1, <1>3 DEF Shape
<1>6. OneEmission'
    BY <1>1, <1>5 DEF OneEmission
<1>7. ASSUME NEW d \in Clients PROVE Ordered(d)' /\ since'[d] <= logged'
    <2>1. Ordered(d) /\ since[d] <= logged /\ since[d] \in Int
        BY DEF OrderInv, Shape
    <2>2. \A i \in DOMAIN Lines(d) : Lines(d)[i] \in Nat /\ Lines(d)[i] < logged'
        <3>1. \A i \in DOMAIN Lines(d) : Lines(d)[i] \in Nat /\ Lines(d)[i] <= logged
            BY <1>3, <2>1, LinesOf DEF Ordered
        <3> QED BY <1>1, <1>3, <3>1
    <2>3. \A j \in DOMAIN callbacks : callbacks[j].line \in Nat
        <3>1. callbacks \in Seq(Callback)
            BY <1>3 DEF Shape
        <3>2. \A j \in DOMAIN callbacks : callbacks[j] \in Callback
            BY <3>1
        <3> QED BY <3>2 DEF Callback
    <2>4. \A j \in DOMAIN callbacks : callbacks[j].client = d => callbacks[j].line < logged'
        BY <1>1, <1>3, <2>1, <2>3 DEF Ordered
    <2>5. /\ \A i \in DOMAIN Lines(d) : Lines(d)[i] <= logged'
          /\ \A j \in DOMAIN callbacks : callbacks[j].client = d => callbacks[j].line <= logged'
        BY <1>3, <2>2, <2>3, <2>4
    <2>6. Ordered(d)'
        BY <1>1, <1>2, <2>1, <2>2, <2>4, <2>5 DEF Ordered
    <2> QED BY <1>1, <1>3, <2>1, <2>6
<1>8. ASSUME NEW d \in Clients, generator'[d] = "none" PROVE Unknown(d)'
    BY <1>1, <1>5, <1>8 DEF OrderInv, Unknown
<1> QED BY <1>4, <1>6, <1>7, <1>8 DEF OrderInv

\* emit() goes on without a line being scheduled: it owes no more than before,
\* and what it owes to the subscribers it copies it owed to all.
LEMMA EmissionKeeps ==
    ASSUME OrderInv, NEW t \in Threads, CopySubscribers(t) \/ EmitReturns(t)
    PROVE  OrderInv'
<1>1. UNCHANGED <<logged, subscribers, callbacks, queue, live, since, generator>>
    BY DEF CopySubscribers, EmitReturns, clientVars
<1>2. \A d : Lines(d)' = Lines(d)
    BY <1>1 DEF Lines
<1>3. Shape
    BY DEF OrderInv
<1>4. /\ emission' \in [Threads -> [stage : {"idle", "appended", "notifying"},
                                     line : Nat, to : SUBSET Clients]]
      /\ \A u \in Threads : u # t => emission'[u] = emission[u]
      /\ emission'[t].stage \in {"idle", "notifying"}
      /\ emission'[t].to \subseteq subscribers
      /\ emission'[t].stage # "notifying" => emission'[t].to = {}
      /\ emission'[t].stage # "idle" => emission[t].stage = "appended"
      /\ emission'[t].stage # "idle" => emission'[t].line = emission[t].line
      /\ \A d \in emission'[t].to : Owes(t, d)
    <2>1. CASE CopySubscribers(t)
        <3> DEFINE old == emission[t]
                   e == [old EXCEPT !.stage = "notifying", !.to = subscribers]
        <3>1. /\ DOMAIN emission = Threads /\ subscribers \subseteq Clients
              /\ old \in [stage : {"idle", "appended", "notifying"}, line : Nat,
                          to : SUBSET Clients]
            BY <1>3 DEF Shape
        <3>2. emission' = [emission EXCEPT ![t] = e] /\ emission[t].stage = "appended"
            BY <2>1, <3>1 DEF CopySubscribers
        <3>a. old.line = emission[t].line
            OBVIOUS
        <3> HIDE DEF old
        <3>b. /\ e \in [stage : {"idle", "appended", "notifying"}, line : Nat,
                        to : SUBSET Clients]
              /\ e.stage = "notifying" /\ e.to = subscribers /\ e.line = old.line
            BY <3>1
        <3>3. /\ e \in [stage : {"idle", "appended", "notifying"}, line : Nat,
                        to : SUBSET Clients]
              /\ e.stage = "notifying" /\ e.to = subscribers /\ e.line = emission[t].line
            BY <3>a, <3>b
        <3> HIDE DEF e
        <3>4. emission'[t] = e /\ \A u \in Threads : u # t => emission'[u] = emission[u]
            BY <3>1, <3>2
        <3>5. emission' \in [Threads -> [stage : {"idle", "appended", "notifying"},
                                         line : Nat, to : SUBSET Clients]]
            BY <1>3, <3>2, <3>3 DEF Shape
        <3> QED BY <3>2, <3>3, <3>4, <3>5 DEF Owes
    <2>2. CASE EmitReturns(t)
        BY <1>3, <2>2 DEF EmitReturns, Shape, Owes, Idle
    <2> QED BY <2>1, <2>2
<1>5. Shape'
    BY <1>1, <1>3, <1>4 DEF Shape
<1>6. OneEmission'
    BY <1>1, <1>4 DEF OrderInv, OneEmission
<1>7. \A u \in Threads, d \in Clients : Owes(u, d)' => Owes(u, d)
    BY <1>4 DEF Owes
<1>8. \A d \in Clients : Ordered(d)' /\ since'[d] <= logged'
    BY <1>1, <1>2, <1>7 DEF OrderInv, Ordered
<1>9. \A d \in Clients : generator'[d] = "none" => Unknown(d)'
    BY <1>1, <1>4 DEF OrderInv, Unknown
<1> QED BY <1>5, <1>6, <1>8, <1>9 DEF OrderInv

\* One more callback, behind all others of its client.
LEMMA NotifyKeeps ==
    ASSUME OrderInv, NEW t \in Threads, NEW c \in Clients, Notify(t, c)
    PROVE  OrderInv'
<1> DEFINE cb == [client |-> c, line |-> emission[t].line]
<1>1. /\ UNCHANGED <<logged, subscribers, queue, live, since, generator>>
      /\ emission[t].stage = "notifying" /\ c \in emission[t].to
      /\ emission' = [emission EXCEPT ![t].to = @ \ {c}]
      /\ callbacks' = Append(callbacks, cb)
    BY DEF Notify, clientVars
<1>2. \A d : Lines(d)' = Lines(d)
    BY <1>1 DEF Lines
<1>3. Shape /\ logged \in Nat /\ emission[t].line = logged
    BY <1>1 DEF OrderInv, Shape, OneEmission
<1>4. cb \in Callback /\ cb.client = c /\ cb.line = logged
    BY <1>3 DEF Callback
<1> HIDE DEF cb
<1>5. callbacks \in Seq(Callback) /\ Len(callbacks) \in Nat /\ DOMAIN callbacks = 1 .. Len(callbacks)
    BY <1>3 DEF Shape
<1>6. /\ callbacks' \in Seq(Callback) /\ DOMAIN callbacks' = 1 .. Len(callbacks) + 1
      /\ \A i \in 1 .. Len(callbacks) : callbacks'[i] = callbacks[i]
      /\ callbacks'[Len(callbacks) + 1] = cb
    <2>1. /\ callbacks' \in Seq(Callback) /\ Len(callbacks') = Len(callbacks) + 1
          /\ \A i \in 1 .. Len(callbacks) : callbacks'[i] = callbacks[i]
          /\ callbacks'[Len(callbacks) + 1] = cb
        BY <1>1, <1>4, <1>5, AppendProperties
    <2> QED BY <2>1, LenProperties
<1>7. /\ emission' \in [Threads -> [stage : {"idle", "appended", "notifying"},
                                     line : Nat, to : SUBSET Clients]]
      /\ \A u \in Threads : /\ emission'[u].stage = emission[u].stage
                             /\ emission'[u].line = emission[u].line
                             /\ emission'[u].to \subseteq emission[u].to
      /\ c \notin emission'[t].to
    BY <1>1, <1>3 DEF Shape
<1>8. Shape'
    BY <1>1, <1>3, <1>6, <1>7 DEF Shape
<1>9. OneEmission'
    BY <1>1, <1>7 DEF OrderInv, OneEmission
<1>10. \A u \in Threads, d \in Clients : Owes(u, d)' => Owes(u, d)
    BY <1>7 DEF Owes
<1>11. \A u \in Threads : ~Owes(u, c)'
    <2>1. \A u \in Threads : u # t => emission[u].stage = "idle" /\ emission[u].to = {}
        BY <1>1 DEF OrderInv, OneEmission
    <2> QED BY <1>1, <1>7, <2>1 DEF Owes
<1>12. ASSUME NEW d \in Clients PROVE Ordered(d)' /\ since'[d] <= logged'
    <2>1. Ordered(d) /\ since[d] <= logged
        BY DEF OrderInv
    <2>2. CASE d # c
        <3>1. \A j \in DOMAIN callbacks' : callbacks'[j].client = d =>
                 j \in DOMAIN callbacks /\ callbacks'[j] = callbacks[j]
            BY <1>4, <1>5, <1>6, <2>2
        <3> QED BY <1>1, <1>2, <1>10, <2>1, <3>1 DEF Ordered
    <2>3. CASE d = c
        <3>1. Owes(t, c)
            BY <1>1 DEF Owes
        <3>2. /\ \A i \in DOMAIN Lines(c) : Lines(c)[i] < logged
              /\ \A j \in DOMAIN callbacks : callbacks[j].client = c => callbacks[j].line < logged
            BY <2>1, <2>3, <3>1 DEF Ordered
        <3>3. ASSUME NEW j \in DOMAIN callbacks', callbacks'[j].client = c
              PROVE  /\ since[c] <= callbacks'[j].line /\ callbacks'[j].line <= logged
                     /\ \A i \in DOMAIN Lines(c) : Lines(c)[i] < callbacks'[j].line
                     /\ \A i \in DOMAIN callbacks' : i < j /\ callbacks'[i].client = c =>
                           callbacks'[i].line < callbacks'[j].line
            <4>1. CASE j \in 1 .. Len(callbacks)
                <5>1. \A i \in DOMAIN callbacks' : i < j => i \in DOMAIN callbacks
                    BY <1>5, <1>6, <4>1
                <5> QED BY <1>5, <1>6, <2>1, <2>3, <3>3, <4>1, <5>1 DEF Ordered
            <4>2. CASE j = Len(callbacks) + 1
                <5>1. callbacks'[j].line = logged
                    BY <1>4, <1>6, <4>2
                <5>2. \A i \in DOMAIN callbacks' : i < j =>
                         i \in DOMAIN callbacks /\ callbacks'[i] = callbacks[i]
                    BY <1>5, <1>6, <4>2
                <5> QED BY <1>3, <2>1, <2>3, <3>2, <5>1, <5>2
            <4> QED BY <1>5, <1>6, <4>1, <4>2
        <3> QED BY <1>1, <1>2, <1>11, <2>1, <2>3, <3>3 DEF Ordered
    <2> QED BY <1>1, <2>1, <2>2, <2>3
<1>13. ASSUME NEW d \in Clients, generator'[d] = "none" PROVE Unknown(d)'
    <2>1. Unknown(d) /\ d # c
        BY <1>1, <1>13 DEF OrderInv, Unknown
    <2> QED BY <1>1, <1>4, <1>5, <1>6, <1>7, <2>1 DEF Unknown
<1> QED BY <1>8, <1>9, <1>12, <1>13 DEF OrderInv

\* Adding to the end of a part, and moving the first of a part, as the whole
\* sees it.
LEMMA AddLast ==
    ASSUME NEW s \in Seq(Nat), NEW q \in Seq(Nat), NEW l \in Nat
    PROVE  s \o Append(q, l) = Append(s \o q, l)
<1> DEFINE q2 == Append(q, l)
           a == s \o q2
           sq == s \o q
           b == Append(sq, l)
<1>1. /\ q2 \in Seq(Nat) /\ Len(q2) = Len(q) + 1 /\ q2[Len(q) + 1] = l
      /\ \A i \in 1 .. Len(q) : q2[i] = q[i]
    BY AppendProperties
<1>2. /\ sq \in Seq(Nat) /\ Len(sq) = Len(s) + Len(q)
      /\ \A i \in 1 .. Len(s) + Len(q) : sq[i] = IF i <= Len(s) THEN s[i] ELSE q[i - Len(s)]
    BY ConcatProperties
<1> HIDE DEF q2, sq
<1>3. /\ a \in Seq(Nat) /\ Len(a) = Len(s) + Len(q2)
      /\ \A i \in 1 .. Len(s) + Len(q2) : a[i] = IF i <= Len(s) THEN s[i] ELSE q2[i - Len(s)]
    BY <1>1, ConcatProperties
<1>4. /\ b \in Seq(Nat) /\ Len(b) = Len(sq) + 1 /\ b[Len(sq) + 1] = l
      /\ \A i \in 1 .. Len(sq) : b[i] = sq[i]
    BY <1>2, AppendProperties
<1>5. Len(s) \in Nat /\ Len(q) \in Nat
    OBVIOUS
<1> HIDE DEF a, b
<1>6. Len(a) = Len(b)
    BY <1>1, <1>2, <1>3, <1>4, <1>5
<1>7. ASSUME NEW i \in 1 .. Len(a) PROVE a[i] = b[i]
    <2>1. CASE i = Len(s) + Len(q) + 1
        <3>1. i = Len(sq) + 1 /\ i \in 1 .. Len(s) + Len(q2) /\ ~(i <= Len(s))
              /\ i - Len(s) = Len(q) + 1
            BY <1>1, <1>2, <1>3, <1>5, <2>1
        <3>2. a[i] = q2[i - Len(s)]
            BY <1>3, <3>1
        <3> QED BY <1>1, <1>4, <3>1, <3>2
    <2>2. CASE i # Len(s) + Len(q) + 1
        <3>0. Len(q2) = Len(q) + 1 /\ Len(sq) = Len(s) + Len(q) /\ i \in 1 .. Len(s) + Len(q2)
            BY <1>1, <1>2, <1>3
        <3>1. i \in 1 .. Len(s) + Len(q) /\ i \in 1 .. Len(s) + Len(q2) /\ i \in 1 .. Len(sq)
            <4> DEFINE ls == Len(s)
                       lq == Len(q)
                       lq2 == Len(q2)
                       lsq == Len(sq)
            <4>1. /\ ls \in Nat /\ lq \in Nat /\ lq2 = lq + 1 /\ lsq = ls + lq
                  /\ i \in 1 .. ls + lq2 /\ i # ls + lq + 1
                BY <1>5, <2>2, <3>0
            <4> HIDE DEF ls, lq, lq2, lsq
            <4>2. i \in 1 .. ls + lq /\ i \in 1 .. ls + lq2 /\ i \in 1 .. lsq
                BY <4>1
            <4> QED BY <4>2 DEF ls, lq, lq2, lsq
        <3>2. /\ a[i] = IF i <= Len(s) THEN s[i] ELSE q2[i - Len(s)]
              /\ b[i] = IF i <= Len(s) THEN s[i] ELSE q[i - Len(s)]
            BY <1>2, <1>3, <1>4, <3>1
        <3>3. ~(i <= Len(s)) => q2[i - Len(s)] = q[i - Len(s)]
            <4>1. ~(i <= Len(s)) => i - Len(s) \in 1 .. Len(q)
                BY <1>5, <3>1
            <4> QED BY <1>1, <4>1
        <3> QED BY <3>2, <3>3
    <2> QED BY <2>1, <2>2
<1>8. a = b
    BY <1>3, <1>4, <1>6, <1>7, SeqEqual
<1> QED BY <1>8 DEF a, b, q2, sq

LEMMA TakeFirst ==
    ASSUME NEW s \in Seq(Nat), NEW q \in Seq(Nat), q # <<>>
    PROVE  Append(s, Head(q)) \o Tail(q) = s \o q
<1> DEFINE t == Append(s, Head(q))
           r == Tail(q)
           a == t \o r
           b == s \o q
<1>1. /\ Head(q) \in Nat /\ Head(q) = q[1] /\ r \in Seq(Nat) /\ Len(r) = Len(q) - 1
      /\ \A i \in 1 .. Len(r) : r[i] = q[i + 1]
    BY HeadTailProperties
<1>2. /\ t \in Seq(Nat) /\ Len(t) = Len(s) + 1 /\ t[Len(s) + 1] = q[1]
      /\ \A i \in 1 .. Len(s) : t[i] = s[i]
    BY <1>1, AppendProperties
<1> HIDE DEF t, r
<1>3. /\ a \in Seq(Nat) /\ Len(a) = Len(t) + Len(r)
      /\ \A i \in 1 .. Len(t) + Len(r) : a[i] = IF i <= Len(t) THEN t[i] ELSE r[i - Len(t)]
    BY <1>1, <1>2, ConcatProperties
<1>4. /\ b \in Seq(Nat) /\ Len(b) = Len(s) + Len(q)
      /\ \A i \in 1 .. Len(s) + Len(q) : b[i] = IF i <= Len(s) THEN s[i] ELSE q[i - Len(s)]
    BY ConcatProperties
<1>5. Len(s) \in Nat /\ Len(q) \in Nat /\ Len(q) # 0
    OBVIOUS
<1> HIDE DEF a, b
<1>6. Len(a) = Len(b) /\ Len(a) = Len(s) + Len(q)
    BY <1>1, <1>2, <1>3, <1>4, <1>5
<1>7. ASSUME NEW i \in 1 .. Len(a) PROVE a[i] = b[i]
    <2>1. /\ i \in 1 .. Len(t) + Len(r) /\ i \in 1 .. Len(s) + Len(q)
          /\ Len(t) = Len(s) + 1 /\ i \in Nat
        BY <1>2, <1>3, <1>5, <1>6
    <2>2. /\ a[i] = IF i <= Len(t) THEN t[i] ELSE r[i - Len(t)]
          /\ b[i] = IF i <= Len(s) THEN s[i] ELSE q[i - Len(s)]
        BY <1>3, <1>4, <2>1
    <2>3. CASE i <= Len(s)
        <3>1. i \in 1 .. Len(s) /\ i <= Len(t)
            BY <1>5, <2>1, <2>3
        <3>2. t[i] = s[i]
            BY <1>2, <3>1
        <3> QED BY <2>2, <2>3, <3>1, <3>2
    <2>4. CASE i = Len(s) + 1
        <3>1. i - Len(s) = 1 /\ ~(i <= Len(s)) /\ i <= Len(t)
            BY <1>5, <2>1, <2>4
        <3> QED BY <1>2, <2>2, <2>4, <3>1
    <2>5. CASE i > Len(s) + 1
        <3> DEFINE ls == Len(s)
                   lq == Len(q)
                   lt == Len(t)
                   lr == Len(r)
        <3>0. /\ ls \in Nat /\ lq \in Nat /\ lt = ls + 1 /\ lr = lq - 1
              /\ i \in 1 .. ls + lq /\ i > ls + 1
            BY <1>1, <1>5, <2>1, <2>5
        <3> HIDE DEF ls, lq, lt, lr
        <3>a. /\ i - lt \in 1 .. lr /\ i - lt + 1 = i - ls
              /\ ~(i <= ls) /\ ~(i <= lt)
            BY <3>0
        <3>1. /\ i - Len(t) \in 1 .. Len(r) /\ i - Len(t) + 1 = i - Len(s)
              /\ ~(i <= Len(s)) /\ ~(i <= Len(t))
            BY <3>a DEF ls, lt, lr
        <3> QED BY <1>1, <2>2, <3>1
    <2> QED BY <1>5, <2>1, <2>3, <2>4, <2>5
<1>8. a = b
    BY <1>3, <1>4, <1>6, <1>7, SeqEqual
<1> QED BY <1>8 DEF a, b, t, r

\* The line of the first callback joins the client's lines, or is lost.
LEMMA SafePutKeeps == ASSUME OrderInv, SafePut PROVE OrderInv'
<1>2. Shape /\ callbacks \in Seq(Callback)
    BY DEF OrderInv, Shape
<1> DEFINE n == Len(callbacks)
<1>3. /\ n \in Nat \ {0} /\ DOMAIN callbacks = 1 .. n
      /\ callbacks[1] \in Callback /\ Head(callbacks) = callbacks[1]
    BY <1>2 DEF SafePut
<1>4. PICK c \in Clients, l \in Nat : c = callbacks[1].client /\ l = callbacks[1].line
    BY <1>3 DEF Callback
<1>1. /\ UNCHANGED <<logged, emission, subscribers, live, since, generator>>
      /\ callbacks # <<>> /\ callbacks' = Tail(callbacks)
      /\ queue' = [queue EXCEPT ![c] = Append(@, l)] \/ queue' = queue
    BY <1>3, <1>4 DEF SafePut, logVars, clientVars
<1>5. /\ callbacks' \in Seq(Callback) /\ DOMAIN callbacks' = 1 .. n - 1
      /\ \A j \in 1 .. n - 1 : callbacks'[j] = callbacks[j + 1]
    <2>1. /\ callbacks' \in Seq(Callback) /\ Len(callbacks') = n - 1
          /\ \A j \in 1 .. n - 1 : callbacks'[j] = callbacks[j + 1]
        BY <1>1, <1>2, HeadTailProperties
    <2> QED BY <2>1, LenProperties
<1> HIDE DEF n
<1>6. /\ queue' \in [Clients -> Seq(Nat)]
      /\ \A d \in Clients : d # c => queue'[d] = queue[d]
      /\ queue'[c] = Append(queue[c], l) \/ queue'[c] = queue[c]
    <2>1. queue \in [Clients -> Seq(Nat)] /\ Append(queue[c], l) \in Seq(Nat)
        BY <1>2, <1>4 DEF Shape
    <2>2. CASE queue' = queue
        BY <2>1, <2>2
    <2>3. CASE queue' = [queue EXCEPT ![c] = Append(queue[c], l)]
        BY <2>1, <2>3
    <2> QED BY <1>1, <2>2, <2>3
<1>7. Shape' /\ OneEmission'
    BY <1>1, <1>2, <1>5, <1>6 DEF OrderInv, Shape, OneEmission
<1>8. \A d \in Clients : d # c => Lines(d)' = Lines(d)
    BY <1>1, <1>6 DEF Lines
<1>9. \/ Lines(c)' = Lines(c)
      \/ /\ DOMAIN Lines(c)' = 1 .. Len(Lines(c)) + 1
         /\ DOMAIN Lines(c) = 1 .. Len(Lines(c)) /\ Len(Lines(c)) \in Nat
         /\ \A i \in 1 .. Len(Lines(c)) : Lines(c)'[i] = Lines(c)[i]
         /\ Lines(c)'[Len(Lines(c)) + 1] = l
    <2>1. CASE queue'[c] = queue[c]
        BY <1>1, <2>1 DEF Lines
    <2>2. CASE queue'[c] = Append(queue[c], l)
        <3>1. live[c] \in Seq(Nat) /\ queue[c] \in Seq(Nat) /\ Lines(c) \in Seq(Nat)
            BY <1>2, <1>4, LinesOf
        <3>2. Lines(c)' = Append(Lines(c), l)
            <4>1. live[c] \o Append(queue[c], l) = Append(live[c] \o queue[c], l)
                BY <3>1, AddLast
            <4> QED BY <1>1, <2>2, <4>1 DEF Lines
        <3>3. /\ Append(Lines(c), l) \in Seq(Nat)
              /\ Len(Append(Lines(c), l)) = Len(Lines(c)) + 1
              /\ \A i \in 1 .. Len(Lines(c)) : Append(Lines(c), l)[i] = Lines(c)[i]
              /\ Append(Lines(c), l)[Len(Lines(c)) + 1] = l
            BY <1>4, <3>1, AppendProperties
        <3>4. /\ DOMAIN Append(Lines(c), l) = 1 .. Len(Lines(c)) + 1
              /\ DOMAIN Lines(c) = 1 .. Len(Lines(c)) /\ Len(Lines(c)) \in Nat
            BY <3>1, <3>3, LenProperties
        <3> QED BY <3>2, <3>3, <3>4
    <2> QED BY <1>6, <2>1, <2>2
\* What a later callback says holds of it when the first is gone.
<1>10. \A j \in DOMAIN callbacks' : j + 1 \in DOMAIN callbacks /\ callbacks'[j] = callbacks[j + 1]
                                    /\ 1 < j + 1
    BY <1>3, <1>5
<1>11. ASSUME NEW d \in Clients PROVE Ordered(d)' /\ since'[d] <= logged'
    <2>1. Ordered(d) /\ since[d] <= logged
        BY DEF OrderInv
    <2>2. ASSUME NEW j \in DOMAIN callbacks', callbacks'[j].client = d
          PROVE  /\ since[d] <= callbacks'[j].line /\ callbacks'[j].line <= logged
                 /\ \A i \in DOMAIN Lines(d) : Lines(d)[i] < callbacks'[j].line
                 /\ \A i \in DOMAIN callbacks' : i < j /\ callbacks'[i].client = d =>
                       callbacks'[i].line < callbacks'[j].line
                 /\ c = d => l < callbacks'[j].line
        <3>1. j + 1 \in DOMAIN callbacks /\ callbacks'[j] = callbacks[j + 1]
            BY <1>10, <2>2
        <3>2. /\ since[d] <= callbacks'[j].line /\ callbacks'[j].line <= logged
              /\ \A i \in DOMAIN Lines(d) : Lines(d)[i] < callbacks'[j].line
              /\ \A i \in DOMAIN callbacks : i < j + 1 /\ callbacks[i].client = d =>
                    callbacks[i].line < callbacks'[j].line
            BY <2>1, <2>2, <3>1 DEF Ordered
        <3>3. ASSUME NEW i \in DOMAIN callbacks', i < j, callbacks'[i].client = d
              PROVE  callbacks'[i].line < callbacks'[j].line
            <4>1. i + 1 \in DOMAIN callbacks /\ callbacks'[i] = callbacks[i + 1] /\ i + 1 < j + 1
                BY <1>5, <1>10, <3>3
            <4> QED BY <3>2, <3>3, <4>1
        <3>4. c = d => l < callbacks'[j].line
            <4>1. 1 \in DOMAIN callbacks /\ 1 < j + 1
                BY <1>3, <1>10, <2>2
            <4> QED BY <1>4, <3>2, <4>1
        <3> QED BY <3>2, <3>3, <3>4
    <2>3. \A t \in Threads : Owes(t, d)' = Owes(t, d)
        BY <1>1 DEF Owes
    <2>4. \A t \in Threads : Owes(t, d) =>
             \A j \in DOMAIN callbacks' : callbacks'[j].client = d => callbacks'[j].line < logged
        BY <1>10, <2>1 DEF Ordered
    <2>5. CASE Lines(d)' = Lines(d)
        BY <1>1, <2>1, <2>2, <2>3, <2>4, <2>5 DEF Ordered
    <2>6. CASE Lines(d)' # Lines(d)
        <3>1. d = c
            BY <1>8, <2>6
        <3>2. /\ DOMAIN Lines(c)' = 1 .. Len(Lines(c)) + 1
              /\ DOMAIN Lines(c) = 1 .. Len(Lines(c)) /\ Len(Lines(c)) \in Nat
              /\ \A i \in 1 .. Len(Lines(c)) : Lines(c)'[i] = Lines(c)[i]
              /\ Lines(c)'[Len(Lines(c)) + 1] = l
            BY <1>9, <2>6, <3>1
        <3>3. /\ since[c] <= l /\ l <= logged
              /\ \A i \in DOMAIN Lines(c) : Lines(c)[i] < l
              /\ \A t \in Threads : Owes(t, c) => l < logged
            <4>1. 1 \in DOMAIN callbacks
                BY <1>3
            <4> QED BY <1>4, <2>1, <3>1, <4>1 DEF Ordered
        <3>4. \A i \in DOMAIN Lines(c)' :
                 \/ i \in DOMAIN Lines(c) /\ Lines(c)'[i] = Lines(c)[i]
                 \/ i = Len(Lines(c)) + 1 /\ Lines(c)'[i] = l
            BY <3>2
        <3>5. \A i, j \in DOMAIN Lines(c)' : i < j => Lines(c)'[i] < Lines(c)'[j]
            <4> SUFFICES ASSUME NEW i \in DOMAIN Lines(c)', NEW j \in DOMAIN Lines(c)', i < j
                         PROVE  Lines(c)'[i] < Lines(c)'[j]
                OBVIOUS
            <4>1. i \in DOMAIN Lines(c) /\ Lines(c)'[i] = Lines(c)[i]
                BY <3>2
            <4> QED BY <2>1, <3>1, <3>3, <3>4, <4>1 DEF Ordered
        <3>6. \A i \in DOMAIN Lines(c)' : since[c] <= Lines(c)'[i] /\ Lines(c)'[i] <= logged
            BY <2>1, <3>1, <3>3, <3>4 DEF Ordered
        <3>7. \A t \in Threads : Owes(t, c) => \A i \in DOMAIN Lines(c)' : Lines(c)'[i] < logged
            BY <2>1, <3>1, <3>3, <3>4 DEF Ordered
        <3>8. \A j \in DOMAIN callbacks' : callbacks'[j].client = c =>
                 \A i \in DOMAIN Lines(c)' : Lines(c)'[i] < callbacks'[j].line
            BY <2>2, <3>1, <3>4
        <3>9. Ordered(c)'
            BY <1>1, <2>2, <2>3, <2>4, <3>1, <3>5, <3>6, <3>7, <3>8 DEF Ordered
        <3> QED BY <1>1, <2>1, <3>1, <3>9
    <2> QED BY <1>1, <2>1, <2>5, <2>6
<1>12. ASSUME NEW d \in Clients, generator'[d] = "none" PROVE Unknown(d)'
    <2>1. Unknown(d)
        BY <1>1, <1>12 DEF OrderInv
    <2>2. d # c
        BY <1>3, <1>4, <2>1 DEF Unknown
    <2> QED BY <1>1, <1>6, <1>10, <2>1, <2>2 DEF Unknown
<1> QED BY <1>7, <1>11, <1>12 DEF OrderInv

\* The client takes the first line of its queue: its lines are the same.
LEMMA TakeKeeps ==
    ASSUME OrderInv, NEW c \in Clients, TakeLine(c) PROVE OrderInv'
<1>1. /\ UNCHANGED <<logged, emission, subscribers, callbacks, since>>
      /\ queue[c] # <<>> /\ generator[c] = "waiting"
      /\ generator' = [generator EXCEPT ![c] = "checking"]
      /\ live' = [live EXCEPT ![c] = Append(@, Head(queue[c]))]
      /\ queue' = [queue EXCEPT ![c] = Tail(@)]
    BY DEF TakeLine, Goes, logVars
<1>2. Shape
    BY DEF OrderInv
<1>3. /\ live[c] \in Seq(Nat) /\ queue[c] \in Seq(Nat)
      /\ Head(queue[c]) \in Nat /\ Tail(queue[c]) \in Seq(Nat)
      /\ Append(live[c], Head(queue[c])) \in Seq(Nat)
    BY <1>1, <1>2 DEF Shape
<1>4. Shape' /\ OneEmission'
    BY <1>1, <1>2, <1>3 DEF OrderInv, Shape, OneEmission
<1>5. /\ live'[c] = Append(live[c], Head(queue[c])) /\ queue'[c] = Tail(queue[c])
      /\ \A d \in Clients : d # c => live'[d] = live[d] /\ queue'[d] = queue[d]
    BY <1>1, <1>2 DEF Shape
<1>6. Append(live[c], Head(queue[c])) \o Tail(queue[c]) = live[c] \o queue[c]
    BY <1>1, <1>3, TakeFirst
<1>7. \A d \in Clients : Lines(d)' = Lines(d)
    BY <1>5, <1>6 DEF Lines
<1>8. \A d \in Clients : Ordered(d)' /\ since'[d] <= logged'
    BY <1>1, <1>7 DEF OrderInv, Ordered, Owes
<1>9. ASSUME NEW d \in Clients, generator'[d] = "none" PROVE Unknown(d)'
    <2>1. d # c /\ generator[d] = "none"
        BY <1>1, <1>2, <1>9 DEF Shape
    <2> QED BY <1>1, <1>5, <2>1 DEF OrderInv, Unknown
<1> QED BY <1>4, <1>8, <1>9 DEF OrderInv

LEMMA OrderStep == OrderInv /\ [Next]_vars => OrderInv'
<1> SUFFICES ASSUME OrderInv, [Next]_vars PROVE OrderInv'
    OBVIOUS
<1>0. DOMAIN generator = Clients /\ emission \in [Threads -> [stage : {"idle", "appended",
                                    "notifying"}, line : Nat, to : SUBSET Clients]]
    BY DEF OrderInv, Shape
<1>1. ASSUME NEW t \in Threads, AppendLine(t) \/ EmitStep(t) PROVE OrderInv'
    BY <1>1, AppendKeeps, EmissionKeeps, NotifyKeeps DEF EmitStep
<1>2. CASE SafePut
    BY <1>2, SafePutKeeps
<1>3. ASSUME NEW c \in Clients, GeneratorStep(c) \/ Closed(c) \/ Disconnect(c)
      PROVE  OrderInv'
    <2>1. CASE TakeLine(c)
        BY <2>1, TakeKeeps
    <2>2. CASE ~TakeLine(c)
        <3>1. /\ UNCHANGED <<logged, emission, callbacks, queue, live, since>>
              /\ subscribers' \subseteq subscribers
              /\ generator' = generator \/ \E to \in {"replaying", "checking", "waiting", "done"} :
                    generator' = [generator EXCEPT ![c] = to]
            BY <1>3, <2>2 DEF GeneratorStep, ReadBacklog, Replayed, StaysConnected, KeepAlive,
                              Leave, Closed, Disconnect, Goes, logVars
        <3>2. /\ DOMAIN generator' = Clients
              /\ \A d \in Clients : generator'[d] = "none" => generator[d] = "none"
            BY <1>0, <3>1
        <3> QED BY <3>1, <3>2, LinesKept
    <2> QED BY <2>1, <2>2
<1>4. ASSUME NEW c \in Clients, Subscribe(c) PROVE OrderInv'
    BY <1>4, SubscribeKeeps
<1>5. CASE UNCHANGED vars
    BY <1>0, <1>5, LinesKept DEF vars
<1> QED BY <1>1, <1>2, <1>3, <1>4, <1>5 DEF Next

\* Whatever the threads log while clients come and go: a client's lines are in
\* the order of the log, and none is older than the one under way when it
\* subscribed.  That the logging library calls emit() one at a time is what it
\* needs.
THEOREM LinesAreInOrder == Spec => []LinesInOrder
<1>1. OrderInv => LinesInOrder
    <2> SUFFICES ASSUME OrderInv, NEW c \in Clients
                 PROVE  LET lines == live[c] \o queue[c]
                        IN  /\ \A i, j \in DOMAIN lines : i < j => lines[i] < lines[j]
                            /\ \A i \in DOMAIN lines : lines[i] >= since[c]
        BY DEF LinesInOrder
    <2>1. /\ \A i, j \in DOMAIN Lines(c) : i < j => Lines(c)[i] < Lines(c)[j]
          /\ \A i \in DOMAIN Lines(c) : since[c] <= Lines(c)[i]
        BY DEF OrderInv, Ordered
    <2>2. since[c] \in Int /\ \A i \in DOMAIN Lines(c) : Lines(c)[i] \in Nat
        BY LinesOf DEF OrderInv, Shape
    <2> QED BY <2>1, <2>2 DEF Lines
<1> QED BY <1>1, OrderInit, OrderStep, PTL DEF Spec

-----------------------------------------------------------------------------
(* Types *)

Record == [client : Clients, line : Line]

Emission == [stage : {"idle", "appended", "notifying"}, line : 0 .. MaxLines,
             to : SUBSET Clients]

Stages == {"none", "subscribed", "replaying", "checking", "waiting", "done"}

\* The last lines of a buffer of consecutive lines are consecutive too.
LEMMA LastLines ==
    ASSUME NEW S, NEW lines \in Seq(S), NEW n \in Nat
    PROVE  LET last == Last(lines, n)
           IN  /\ last \in Seq(S)
               /\ Len(last) = IF Len(lines) > n THEN n ELSE Len(lines)
               /\ \A i \in 1 .. Len(last) : last[i] = lines[Len(lines) - Len(last) + i]
<1> DEFINE k == Len(lines)
<1>1. k \in Nat /\ \A i \in 1 .. k : lines[i] \in S
    BY LenProperties, ElementOfSeq
<1>2. CASE k > n
    <2> DEFINE last == SubSeq(lines, k - n + 1, k)
    <2>1. Last(lines, n) = last
        BY <1>2 DEF Last
    <2>2. /\ last \in Seq(S) /\ Len(last) = k - (k - n + 1) + 1
          /\ \A i \in 1 .. k - (k - n + 1) + 1 : last[i] = lines[(k - n + 1) + i - 1]
        <3>1. /\ k - n + 1 \in 1 .. k + 1 /\ k - n + 1 \in 1 .. Len(lines) + 1
              /\ k \in k - n .. Len(lines)
            BY <1>1, <1>2
        <3>2. \A i \in k - n + 1 .. k : lines[i] \in S
            BY <1>1, <3>1
        <3> QED BY <1>1, <1>2, <3>1, <3>2, SubSeqProperties
    <2> HIDE DEF last
    <2> QED BY <1>1, <1>2, <2>1, <2>2
<1>3. CASE ~(k > n)
    BY <1>1, <1>3 DEF Last
<1> QED BY <1>2, <1>3 DEF k

\* The types, with the shapes of sets and records named.
Typed ==
    /\ buffer \in Seq(Line) /\ Len(buffer) <= Capacity
    /\ logged \in 0 .. MaxLines
    /\ subscribers \subseteq Clients /\ gone \subseteq Clients
    /\ emission \in [Threads -> Emission]
    /\ \A t \in Threads : emission[t].stage # "idle" => emission[t].line \in Line
    /\ callbacks \in Seq(Record)
    /\ queue \in [Clients -> Seq(Line)]
    /\ \A c \in Clients : Len(queue[c]) <= QueueSize
    /\ generator \in [Clients -> Stages]
    /\ replayed \in [Clients -> Seq(Line)] /\ live \in [Clients -> Seq(Line)]
    /\ since \in [Clients -> Int]
    /\ dropped \in [Clients -> SUBSET Line]

LEMMA TypedInit == Init => Typed
<1> SUFFICES ASSUME Init PROVE Typed
    OBVIOUS
<1>1. <<>> \in Seq(Line) /\ <<>> \in Seq(Record) /\ Len(<<>>) = 0
    OBVIOUS
<1>2. Idle \in Emission /\ Idle.stage = "idle"
    BY MaxLinesAssumption DEF Idle, Emission
<1>3. 0 <= Capacity /\ 0 <= QueueSize /\ 0 \in 0 .. MaxLines
    BY CapacityAssumption, QueueSizeAssumption, MaxLinesAssumption
<1>4. buffer \in Seq(Line) /\ Len(buffer) <= Capacity /\ callbacks \in Seq(Record)
    BY <1>1, <1>3 DEF Init
<1>5. /\ emission \in [Threads -> Emission]
      /\ \A t \in Threads : emission[t].stage # "idle" => emission[t].line \in Line
    BY <1>2 DEF Init
<1>6. /\ queue \in [Clients -> Seq(Line)] /\ replayed \in [Clients -> Seq(Line)]
      /\ live \in [Clients -> Seq(Line)] /\ \A c \in Clients : Len(queue[c]) <= QueueSize
    BY <1>1, <1>3 DEF Init
<1>7. generator \in [Clients -> Stages] /\ since \in [Clients -> Int]
      /\ dropped \in [Clients -> SUBSET Line]
    BY DEF Init, Stages
<1> QED BY <1>3, <1>4, <1>5, <1>6, <1>7 DEF Init, Typed

LEMMA AppendTyped ==
    ASSUME Typed, NEW t \in Threads, AppendLine(t) PROVE Typed'
<1>1. /\ UNCHANGED <<subscribers, callbacks, queue, clientVars, dropped>>
      /\ logged < MaxLines /\ logged' = logged + 1
      /\ buffer' = Last(Append(buffer, logged'), Capacity)
      /\ emission' = [emission EXCEPT ![t] = [stage |-> "appended", line |-> logged',
                                              to |-> {}]]
    BY DEF AppendLine
<1>2. logged' \in Line /\ logged' \in 0 .. MaxLines
    BY <1>1, MaxLinesAssumption DEF Typed, Line
<1>3. buffer' \in Seq(Line) /\ Len(buffer') <= Capacity
    <2>1. Append(buffer, logged') \in Seq(Line)
        BY <1>2 DEF Typed
    <2>2. Capacity \in Nat
        BY CapacityAssumption
    <2> DEFINE all == Append(buffer, logged')
    <2>3. Len(all) \in Nat
        BY <2>1
    <2> HIDE DEF all
    <2>4. /\ Last(all, Capacity) \in Seq(Line)
          /\ Len(Last(all, Capacity)) = IF Len(all) > Capacity THEN Capacity ELSE Len(all)
        BY <2>1, <2>2, LastLines DEF all
    <2> QED BY <1>1, <2>2, <2>3, <2>4 DEF all
<1>4. /\ emission' \in [Threads -> Emission]
      /\ \A u \in Threads : emission'[u].stage # "idle" => emission'[u].line \in Line
    <2> DEFINE e == [stage |-> "appended", line |-> logged', to |-> {}]
    <2>1. e \in Emission /\ e.line = logged'
        BY <1>2 DEF Emission
    <2> HIDE DEF e
    <2>2. emission' = [emission EXCEPT ![t] = e]
        BY <1>1 DEF e
    <2> QED BY <1>2, <2>1, <2>2 DEF Typed
<1> QED BY <1>1, <1>2, <1>3, <1>4 DEF Typed, clientVars

LEMMA EmissionTyped ==
    ASSUME Typed, NEW t \in Threads, EmitStep(t) PROVE Typed'
<1>1. /\ UNCHANGED <<buffer, logged, subscribers, queue, clientVars, dropped>>
      /\ emission[t] \in Emission /\ subscribers \subseteq Clients
    BY DEF EmitStep, CopySubscribers, Notify, EmitReturns, Typed
<1>2. /\ emission' \in [Threads -> Emission]
      /\ \A u \in Threads : emission'[u].stage # "idle" => emission'[u].line \in Line
    <2>1. CASE CopySubscribers(t)
        <3> DEFINE old == emission[t]
                   e == [old EXCEPT !.stage = "notifying", !.to = subscribers]
        <3>1. old \in Emission /\ old.line = emission[t].line
            BY <1>1
        <3>2. emission' = [emission EXCEPT ![t] = e] /\ old.line \in Line
            BY <2>1 DEF CopySubscribers, Typed
        <3> HIDE DEF old
        <3>3. e \in Emission /\ e.line = old.line
            BY <1>1, <3>1 DEF Emission
        <3> HIDE DEF e
        <3> QED BY <3>2, <3>3 DEF Typed
    <2>2. ASSUME NEW c \in Clients, Notify(t, c)
          PROVE  /\ emission' \in [Threads -> Emission]
                 /\ \A u \in Threads : emission'[u].stage # "idle" => emission'[u].line \in Line
        <3> DEFINE old == emission[t]
                   e == [old EXCEPT !.to = @ \ {c}]
        <3>1. old \in Emission /\ old.line = emission[t].line
            BY <1>1
        <3>2. emission' = [emission EXCEPT ![t] = e] /\ old.line \in Line
            BY <2>2 DEF Notify, Typed
        <3> HIDE DEF old
        <3>3. e \in Emission /\ e.line = old.line
            BY <3>1 DEF Emission
        <3> HIDE DEF e
        <3> QED BY <3>2, <3>3 DEF Typed
    <2>3. CASE EmitReturns(t)
        <3>1. Idle \in Emission /\ Idle.stage = "idle"
            BY MaxLinesAssumption DEF Idle, Emission
        <3>2. emission' = [emission EXCEPT ![t] = Idle]
            BY <2>3 DEF EmitReturns
        <3> QED BY <3>1, <3>2 DEF Typed
    <2> QED BY <2>1, <2>2, <2>3 DEF EmitStep
<1>3. callbacks' \in Seq(Record)
    <2>1. ASSUME NEW c \in Clients, Notify(t, c) PROVE callbacks' \in Seq(Record)
        <3>1. emission[t].line \in Line
            BY <2>1 DEF Notify, Typed
        <3>2. [client |-> c, line |-> emission[t].line] \in Record
            BY <3>1 DEF Record
        <3> QED BY <2>1, <3>2 DEF Notify, Typed
    <2>2. CASE CopySubscribers(t) \/ EmitReturns(t)
        BY <2>2 DEF CopySubscribers, EmitReturns, Typed
    <2> QED BY <2>1, <2>2 DEF EmitStep
<1> QED BY <1>1, <1>2, <1>3 DEF Typed, clientVars

\* What _safe_put does with the first of the callbacks.
LEMMA SafePutFirst ==
    ASSUME Typed, SafePut
    PROVE  /\ UNCHANGED <<logVars, subscribers, clientVars>>
           /\ callbacks # <<>> /\ callbacks' = Tail(callbacks)
           /\ \E c \in Clients, l \in Line :
                /\ callbacks[1] = [client |-> c, line |-> l]
                /\ \/ /\ HasRoom(c) /\ queue' = [queue EXCEPT ![c] = Append(@, l)]
                      /\ dropped' = dropped
                   \/ /\ dropped' = [dropped EXCEPT ![c] = @ \cup {l}]
                      /\ queue' = queue
<1>1. /\ callbacks \in Seq(Record) /\ callbacks # <<>>
      /\ Head(callbacks) = callbacks[1] /\ callbacks[1] \in Record
    BY DEF Typed, SafePut
<1>2. PICK c \in Clients, l \in Line : callbacks[1] = [client |-> c, line |-> l]
    BY <1>1 DEF Record
<1>3. Head(callbacks).client = c /\ Head(callbacks).line = l
    BY <1>1, <1>2
<1> QED BY <1>1, <1>2, <1>3 DEF SafePut

LEMMA SafePutTyped == ASSUME Typed, SafePut PROVE Typed'
<1>1. PICK c \in Clients, l \in Line :
         \/ /\ HasRoom(c) /\ queue' = [queue EXCEPT ![c] = Append(@, l)]
            /\ dropped' = dropped
         \/ /\ dropped' = [dropped EXCEPT ![c] = @ \cup {l}]
            /\ queue' = queue
    BY SafePutFirst
<1>2. /\ UNCHANGED <<logVars, subscribers, clientVars>>
      /\ callbacks # <<>> /\ callbacks' = Tail(callbacks)
    BY SafePutFirst
<1>3. callbacks' \in Seq(Record)
    BY <1>2 DEF Typed
<1>4. /\ queue' \in [Clients -> Seq(Line)] /\ dropped' \in [Clients -> SUBSET Line]
      /\ \A d \in Clients : Len(queue'[d]) <= QueueSize
    <2>1. CASE HasRoom(c) /\ queue' = [queue EXCEPT ![c] = Append(@, l)] /\ dropped' = dropped
        <3>1. /\ queue[c] \in Seq(Line) /\ Append(queue[c], l) \in Seq(Line)
              /\ Len(Append(queue[c], l)) = Len(queue[c]) + 1 /\ Len(queue[c]) \in Nat
            BY DEF Typed
        <3>2. Len(Append(queue[c], l)) <= QueueSize
            BY <2>1, <3>1, QueueSizeAssumption DEF HasRoom
        <3> DEFINE longer == Append(queue[c], l)
        <3>3. queue' = [queue EXCEPT ![c] = longer]
            BY <2>1
        <3> HIDE DEF longer
        <3> QED BY <2>1, <3>1, <3>2, <3>3 DEF Typed, longer
    <2>2. CASE dropped' = [dropped EXCEPT ![c] = @ \cup {l}] /\ queue' = queue
        BY <2>2 DEF Typed
    <2> QED BY <1>1, <2>1, <2>2
<1> QED BY <1>2, <1>3, <1>4 DEF Typed, logVars, clientVars

LEMMA ClientTyped ==
    ASSUME Typed, NEW c \in Clients,
           GeneratorStep(c) \/ Subscribe(c) \/ Closed(c) \/ Disconnect(c)
    PROVE  Typed'
<1>1. UNCHANGED <<logVars, callbacks, dropped>>
    BY DEF GeneratorStep, ReadBacklog, Replayed, StaysConnected, TakeLine, KeepAlive,
           Leave, Closed, Disconnect, Goes, Subscribe
<1>2. subscribers' \subseteq Clients /\ gone' \subseteq Clients
    BY DEF GeneratorStep, ReadBacklog, Replayed, StaysConnected, TakeLine, KeepAlive,
           Leave, Closed, Disconnect, Goes, Subscribe, Typed
<1>3. generator' \in [Clients -> Stages] /\ since' \in [Clients -> Int]
    <2>1. generator' = generator \/ \E to \in Stages : generator' = [generator EXCEPT ![c] = to]
        BY DEF GeneratorStep, ReadBacklog, Replayed, StaysConnected, TakeLine, KeepAlive,
               Leave, Closed, Disconnect, Goes, Subscribe, Stages
    <2>2. since' = since \/ since' = [since EXCEPT ![c] = logged]
        BY DEF GeneratorStep, ReadBacklog, Replayed, StaysConnected, TakeLine, KeepAlive,
               Leave, Closed, Disconnect, Goes, Subscribe
    <2>3. logged \in Int
        BY DEF Typed
    <2>4. generator' \in [Clients -> Stages]
        BY <2>1 DEF Typed
    <2>5. since' \in [Clients -> Int]
        BY <2>2, <2>3 DEF Typed
    <2> QED BY <2>4, <2>5
<1>4. replayed' \in [Clients -> Seq(Line)]
    <2>1. \/ replayed' = replayed
          \/ \E n \in Nat : replayed' = [replayed EXCEPT ![c] = Last(buffer, n)]
        BY BacklogsAssumption DEF GeneratorStep, ReadBacklog, Recent, Replayed, StaysConnected,
               TakeLine, KeepAlive, Leave, Closed, Disconnect, Goes, Subscribe
    <2>2. \A n \in Nat : Last(buffer, n) \in Seq(Line)
        BY LastLines DEF Typed
    <2> QED BY <2>1, <2>2 DEF Typed
<1>5. /\ live' \in [Clients -> Seq(Line)] /\ queue' \in [Clients -> Seq(Line)]
      /\ \A d \in Clients : Len(queue'[d]) <= QueueSize
    <2>1. CASE TakeLine(c)
        <3> DEFINE q == queue[c]
        <3>1. /\ q \in Seq(Line) /\ q # <<>> /\ Len(q) <= QueueSize /\ Len(q) \in Nat
              /\ live[c] \in Seq(Line)
            BY <2>1 DEF TakeLine, Typed
        <3> HIDE DEF q
        <3>2. Head(q) \in Line /\ Tail(q) \in Seq(Line) /\ Len(Tail(q)) = Len(q) - 1
            BY <3>1
        <3>3. Append(live[c], Head(q)) \in Seq(Line) /\ Len(Tail(q)) <= QueueSize
            BY <3>1, <3>2, QueueSizeAssumption
        <3>4. live' = [live EXCEPT ![c] = Append(live[c], Head(q))] /\ queue' = [queue EXCEPT ![c] = Tail(q)]
            BY <2>1 DEF TakeLine, q, Typed
        <3> DEFINE more == Append(live[c], Head(q))
                   less == Tail(q)
        <3> HIDE DEF more, less
        <3> QED BY <3>2, <3>3, <3>4 DEF Typed, more, less
    <2>2. CASE ~TakeLine(c)
        <3>1. live' = live /\ queue' = queue
            BY <2>2 DEF GeneratorStep, ReadBacklog, Replayed, StaysConnected, KeepAlive,
               Leave, Closed, Disconnect, Goes, Subscribe
        <3> QED BY <3>1 DEF Typed
    <2> QED BY <2>1, <2>2
<1> QED BY <1>1, <1>2, <1>3, <1>4, <1>5 DEF Typed, logVars

LEMMA TypedStep == Typed /\ [Next]_vars => Typed'
<1> SUFFICES ASSUME Typed, [Next]_vars PROVE Typed'
    OBVIOUS
<1>1. CASE UNCHANGED vars
    BY <1>1 DEF Typed, vars
<1> QED BY <1>1, AppendTyped, EmissionTyped, SafePutTyped, ClientTyped DEF Next

\* The ring buffer and every queue keep their bounds, and all lines are lines
\* that were logged.
THEOREM LogTypeCorrect == Spec => []TypeOK
<1>1. Typed => TypeOK
    BY DEF Typed, TypeOK, Record, Emission, Stages
<1> QED BY <1>1, TypedInit, TypedStep, PTL DEF Spec

-----------------------------------------------------------------------------
(* The gap between backlog and queue *)

In(s, x) == \E i \in DOMAIN s : s[i] = x

LEMMA InAppend ==
    ASSUME NEW S, NEW s \in Seq(S), NEW x \in S
    PROVE  In(Append(s, x), x) /\ \A y : In(s, y) => In(Append(s, x), y)
<1> DEFINE t == Append(s, x)
<1>1. /\ t \in Seq(S) /\ Len(t) = Len(s) + 1 /\ t[Len(s) + 1] = x
      /\ \A i \in 1 .. Len(s) : t[i] = s[i]
    BY AppendProperties
<1>2. DOMAIN s = 1 .. Len(s) /\ DOMAIN t = 1 .. Len(s) + 1 /\ Len(s) \in Nat
    BY <1>1, LenProperties
<1> HIDE DEF t
<1>3. DOMAIN s \subseteq DOMAIN t /\ Len(s) + 1 \in DOMAIN t
    BY <1>2
<1> QED BY <1>1, <1>2, <1>3 DEF In, t

LEMMA InTail ==
    ASSUME NEW S, NEW s \in Seq(S), s # <<>>
    PROVE  \A y : In(s, y) => y = s[1] \/ In(Tail(s), y)
<1> DEFINE t == Tail(s)
<1>1. /\ t \in Seq(S) /\ Len(t) = Len(s) - 1
      /\ \A i \in 1 .. Len(t) : t[i] = s[i + 1]
    BY HeadTailProperties
<1>2. DOMAIN s = 1 .. Len(s) /\ DOMAIN t = 1 .. Len(s) - 1 /\ Len(s) \in Nat
    BY <1>1, LenProperties
<1> HIDE DEF t
<1>3. ASSUME NEW i \in DOMAIN s, i # 1 PROVE i - 1 \in DOMAIN t /\ t[i - 1] = s[i]
    <2>1. i - 1 \in 1 .. Len(t) /\ i - 1 \in DOMAIN t /\ i - 1 + 1 = i
        BY <1>1, <1>2, <1>3
    <2> QED BY <1>1, <2>1
<1> QED BY <1>3 DEF In, t

Attached(c) == generator[c] = "subscribed" \/ Follows(c)

\* Line l was given to client c, waits for it, is on its way, or was lost.
Reached(c, l) ==
    \/ In(live[c], l) \/ In(queue[c], l) \/ l \in dropped[c]
    \/ In(callbacks, [client |-> c, line |-> l])
    \/ \E t \in Threads : emission[t].line = l /\ Owes(t, c)

\* A client misses nothing that was logged since it subscribed.
Served(c) ==
    Attached(c) => /\ c \in subscribers /\ since[c] \in 0 .. logged
                   /\ \A l \in since[c] + 1 .. logged : Reached(c, l)

\* The buffer holds the last lines that were logged, one after the other.
BufferWhole ==
    /\ logged > 0 => buffer # <<>>
    /\ \A i \in DOMAIN buffer : buffer[i] = logged - Len(buffer) + i

\* So does the backlog of a client, up to its subscription at the least.
ReplayWhole(c) ==
    /\ \A i \in DOMAIN replayed[c] : replayed[c][i] = replayed[c][1] + i - 1
    /\ replayed[c] # <<>> => replayed[c][Len(replayed[c])] >= since[c]

GapInv ==
    /\ BufferWhole
    /\ \A c \in Clients : Served(c)
    /\ \A c \in Clients : Follows(c) => ReplayWhole(c)

LEMMA GapInit == Init => GapInv
<1> SUFFICES ASSUME Init PROVE GapInv
    OBVIOUS
<1>1. BufferWhole
    BY DEF Init, BufferWhole
<1>2. \A c \in Clients : ~Attached(c) /\ ~Follows(c)
    BY DEF Init, Attached, Follows
<1> QED BY <1>1, <1>2 DEF GapInv, Served

LEMMA AppendGap ==
    ASSUME Typed, OneEmission, GapInv, NEW t \in Threads, AppendLine(t)
    PROVE  GapInv'
<1>1. /\ UNCHANGED <<subscribers, callbacks, queue, clientVars, dropped>>
      /\ logged' = logged + 1 /\ logged \in Nat /\ logged' \in Line
      /\ buffer' = Last(Append(buffer, logged'), Capacity)
      /\ emission' = [emission EXCEPT ![t] = [stage |-> "appended", line |-> logged',
                                              to |-> {}]]
      /\ \A u \in Threads : emission[u].stage = "idle" /\ emission[u].to = {}
    BY MaxLinesAssumption DEF AppendLine, LockFree, Idle, Typed, Line
<1>2. BufferWhole'
    <2> DEFINE all == Append(buffer, logged')
               n == Len(buffer)
    <2>1. /\ all \in Seq(Line) /\ Len(all) = n + 1 /\ n \in Nat
          /\ \A i \in 1 .. n : all[i] = buffer[i] /\ buffer[i] = logged - n + i
          /\ all[n + 1] = logged + 1
        <3>1. buffer \in Seq(Line)
            BY DEF Typed
        <3>2. /\ all \in Seq(Line) /\ Len(all) = n + 1 /\ n \in Nat /\ DOMAIN buffer = 1 .. n
              /\ \A i \in 1 .. n : all[i] = buffer[i]
              /\ all[n + 1] = logged + 1
            BY <1>1, <3>1, AppendProperties, LenProperties
        <3> QED BY <3>2 DEF GapInv, BufferWhole
    <2> HIDE DEF all, n
    <2>2. \A i \in 1 .. n + 1 : all[i] = logged - n + i
        <3>1. \A i \in 1 .. n + 1 : i \in 1 .. n \/ i = n + 1
            BY <2>1
        <3> QED BY <1>1, <2>1, <3>1
    <2>3. Capacity \in Nat \ {0}
        BY CapacityAssumption
    <2> DEFINE m == Len(buffer')
    <2>4. /\ buffer' \in Seq(Line)
          /\ m = IF n + 1 > Capacity THEN Capacity ELSE n + 1
          /\ \A i \in 1 .. m : buffer'[i] = all[n + 1 - m + i]
        <3> DEFINE last == Last(all, Capacity)
        <3>1. buffer' = last
            BY <1>1 DEF all
        <3>2. /\ last \in Seq(Line)
              /\ Len(last) = IF Len(all) > Capacity THEN Capacity ELSE Len(all)
              /\ \A i \in 1 .. Len(last) : last[i] = all[Len(all) - Len(last) + i]
            <4>1. all \in Seq(Line)
                BY <2>1
            <4> QED BY <4>1, <2>3, LastLines
        <3> HIDE DEF last
        <3>3. Len(last) = IF n + 1 > Capacity THEN Capacity ELSE n + 1
            BY <2>1, <3>2
        <3>4. \A i \in 1 .. Len(last) : last[i] = all[n + 1 - Len(last) + i]
            <4>1. Len(all) = n + 1
                BY <2>1
            <4> SUFFICES ASSUME NEW i \in 1 .. Len(last)
                         PROVE  last[i] = all[n + 1 - Len(last) + i]
                OBVIOUS
            <4>2. last[i] = all[Len(all) - Len(last) + i]
                BY <3>2
            <4>3. Len(all) - Len(last) + i = n + 1 - Len(last) + i
                <5>1. Len(last) \in Nat /\ n \in Nat /\ i \in Nat
                    BY <2>1, <3>2
                <5> QED BY <4>1, <5>1
            <4> QED BY <4>2, <4>3
        <3> QED BY <3>1, <3>2, <3>3, <3>4
    <2>5. m \in 1 .. n + 1
        BY <2>1, <2>3, <2>4
    <2>6. DOMAIN buffer' = 1 .. m /\ buffer' # <<>>
        BY <2>4, <2>5, LenProperties
    <2> HIDE DEF m
    <2>7. ASSUME NEW i \in 1 .. m PROVE buffer'[i] = logged' - m + i
        <3>1. n + 1 - m + i \in 1 .. n + 1
            BY <2>1, <2>5
        <3>2. buffer'[i] = logged - n + (n + 1 - m + i)
            BY <2>2, <2>4, <3>1
        <3> QED BY <1>1, <2>1, <2>5, <3>2
    <2> QED BY <2>6, <2>7 DEF BufferWhole, m
<1>3. ASSUME NEW c \in Clients PROVE Served(c)'
    <2> SUFFICES ASSUME Attached(c)'
                 PROVE  /\ c \in subscribers' /\ since'[c] \in 0 .. logged'
                        /\ \A l \in since'[c] + 1 .. logged' : Reached(c, l)'
        BY DEF Served
    <2>1. Attached(c)
        BY <1>1 DEF Attached, Follows, clientVars
    <2>2. /\ c \in subscribers /\ since[c] \in 0 .. logged
          /\ \A l \in since[c] + 1 .. logged : Reached(c, l)
        BY <2>1 DEF GapInv, Served
    <2>3. ASSUME NEW l \in since[c] + 1 .. logged + 1 PROVE Reached(c, l)'
        <3>1. CASE l \in since[c] + 1 .. logged
            <4>1. ~\E u \in Threads : emission[u].line = l /\ Owes(u, c)
                BY <1>1 DEF Owes
            <4> QED BY <1>1, <2>2, <3>1, <4>1 DEF Reached, clientVars
        <3>2. CASE l = logged'
            <4>1. emission'[t].line = l /\ emission'[t].stage = "appended"
                BY <1>1, <3>2 DEF Typed
            <4> QED BY <4>1 DEF Reached, Owes
        <3> QED BY <1>1, <2>2, <3>1, <3>2
    <2> QED BY <1>1, <2>2, <2>3 DEF clientVars
<1>4. \A c \in Clients : Follows(c)' => ReplayWhole(c)'
    BY <1>1 DEF GapInv, Follows, ReplayWhole, clientVars
<1> QED BY <1>2, <1>3, <1>4 DEF GapInv

LEMMA EmissionGap ==
    ASSUME Typed, GapInv, NEW t \in Threads, EmitStep(t)
    PROVE  GapInv'
<1>1. UNCHANGED <<buffer, logged, subscribers, queue, clientVars, dropped>>
    BY DEF EmitStep, CopySubscribers, Notify, EmitReturns
<1>2. BufferWhole' /\ \A c \in Clients : Follows(c)' => ReplayWhole(c)'
    BY <1>1 DEF GapInv, BufferWhole, Follows, ReplayWhole, clientVars
<1>3. ASSUME NEW c \in Clients PROVE Served(c)'
    <2> SUFFICES ASSUME Attached(c)'
                 PROVE  /\ c \in subscribers' /\ since'[c] \in 0 .. logged'
                        /\ \A l \in since'[c] + 1 .. logged' : Reached(c, l)'
        BY DEF Served
    <2>1. Attached(c)
        BY <1>1 DEF Attached, Follows, clientVars
    <2>2. /\ c \in subscribers /\ since[c] \in 0 .. logged
          /\ \A l \in since[c] + 1 .. logged : Reached(c, l)
        BY <2>1 DEF GapInv, Served
    <2>3. ASSUME NEW l, Reached(c, l) PROVE Reached(c, l)'
        <3>1. \A u \in Threads : u # t => emission'[u] = emission[u]
            BY DEF EmitStep, CopySubscribers, Notify, EmitReturns, Typed
        <3>2. \A x : In(callbacks, x) => In(callbacks', x)
            <4>1. ASSUME NEW d \in Clients, Notify(t, d)
                  PROVE  \A x : In(callbacks, x) => In(callbacks', x)
                <5>1. emission[t].line \in Line /\ callbacks \in Seq(Record)
                    BY <4>1 DEF Notify, Typed
                <5>2. [client |-> d, line |-> emission[t].line] \in Record
                    BY <5>1 DEF Record
                <5> QED BY <4>1, <5>1, <5>2, InAppend DEF Notify
            <4>2. CASE CopySubscribers(t) \/ EmitReturns(t)
                BY <4>2 DEF CopySubscribers, EmitReturns
            <4> QED BY <4>1, <4>2 DEF EmitStep
        <3>3. ASSUME emission[t].line = l, Owes(t, c)
              PROVE  \/ emission'[t].line = l /\ Owes(t, c)'
                     \/ In(callbacks', [client |-> c, line |-> l])
            <4>1. CASE CopySubscribers(t)
                <5>1. emission'[t].line = l /\ emission'[t].to = subscribers
                    BY <3>3, <4>1 DEF CopySubscribers, Typed, Emission
                <5> QED BY <2>2, <5>1 DEF Owes
            <4>2. ASSUME NEW d \in Clients, Notify(t, d), d # c
                  PROVE  emission'[t].line = l /\ Owes(t, c)'
                <5>1. emission'[t].line = l /\ emission'[t].to = emission[t].to \ {d}
                    BY <3>3, <4>2 DEF Notify, Typed, Emission
                <5>2. c \in emission[t].to
                    BY <3>3, <4>2 DEF Notify, Owes
                <5> QED BY <4>2, <5>1, <5>2 DEF Owes
            <4>3. ASSUME Notify(t, c) PROVE In(callbacks', [client |-> c, line |-> l])
                <5>1. emission[t].line \in Line /\ callbacks \in Seq(Record)
                    BY <4>3 DEF Notify, Typed
                <5>2. [client |-> c, line |-> emission[t].line] \in Record
                    BY <5>1 DEF Record
                <5> QED BY <3>3, <4>3, <5>1, <5>2, InAppend DEF Notify
            <4>4. ~EmitReturns(t)
                BY <3>3 DEF EmitReturns, Owes
            <4> QED BY <4>1, <4>2, <4>3, <4>4 DEF EmitStep
        <3>4. ASSUME NEW u \in Threads, emission[u].line = l, Owes(u, c) PROVE Reached(c, l)'
            <4>1. CASE u = t
                BY <3>3, <3>4, <4>1 DEF Reached
            <4>2. CASE u # t
                BY <3>1, <3>4, <4>2 DEF Reached, Owes
            <4> QED BY <4>1, <4>2
        <3> QED BY <1>1, <2>3, <3>2, <3>4 DEF Reached, clientVars
    <2> QED BY <1>1, <2>2, <2>3 DEF clientVars
<1> QED BY <1>2, <1>3 DEF GapInv

LEMMA SafePutGap == ASSUME Typed, GapInv, SafePut PROVE GapInv'
<1>1. /\ UNCHANGED <<buffer, logged, emission, subscribers, clientVars>>
      /\ callbacks # <<>> /\ callbacks' = Tail(callbacks)
    BY SafePutFirst DEF logVars
<1>2. PICK d \in Clients, m \in Line :
         /\ callbacks[1] = [client |-> d, line |-> m]
         /\ \/ /\ queue' = [queue EXCEPT ![d] = Append(@, m)] /\ dropped' = dropped
            \/ /\ dropped' = [dropped EXCEPT ![d] = @ \cup {m}] /\ queue' = queue
    BY SafePutFirst
<1>3. BufferWhole' /\ \A c \in Clients : Follows(c)' => ReplayWhole(c)'
    BY <1>1 DEF GapInv, BufferWhole, Follows, ReplayWhole, clientVars
<1>4. /\ \A c \in Clients : \A l : In(queue[c], l) => In(queue'[c], l)
      /\ \A c \in Clients : \A l : l \in dropped[c] => l \in dropped'[c]
      /\ In(queue'[d], m) \/ m \in dropped'[d]
    <2>1. queue[d] \in Seq(Line) /\ DOMAIN queue = Clients /\ DOMAIN dropped = Clients
        BY DEF Typed
    <2>2. CASE queue' = [queue EXCEPT ![d] = Append(@, m)] /\ dropped' = dropped
        <3>1. In(Append(queue[d], m), m) /\ \A y : In(queue[d], y) => In(Append(queue[d], m), y)
            BY <2>1, InAppend
        <3>2. queue'[d] = Append(queue[d], m) /\ \A c \in Clients : c # d => queue'[c] = queue[c]
            BY <2>1, <2>2
        <3> QED BY <2>2, <3>1, <3>2
    <2>3. CASE dropped' = [dropped EXCEPT ![d] = @ \cup {m}] /\ queue' = queue
        BY <2>1, <2>3
    <2> QED BY <1>2, <2>2, <2>3
<1>5. ASSUME NEW c \in Clients, NEW l, Reached(c, l) PROVE Reached(c, l)'
    <2>1. CASE In(callbacks, [client |-> c, line |-> l])
        <3>1. callbacks \in Seq(Record)
            BY DEF Typed
        <3>2. \/ [client |-> c, line |-> l] = callbacks[1]
              \/ In(callbacks', [client |-> c, line |-> l])
            BY <1>1, <2>1, <3>1, InTail
        <3>3. [client |-> c, line |-> l] = callbacks[1] => c = d /\ l = m
            BY <1>2
        <3> QED BY <1>4, <3>2, <3>3 DEF Reached
    <2>2. CASE ~In(callbacks, [client |-> c, line |-> l])
        BY <1>1, <1>4, <1>5, <2>2 DEF Reached, Owes, clientVars
    <2> QED BY <2>1, <2>2
<1>6. \A c \in Clients : Served(c)'
    BY <1>1, <1>5 DEF GapInv, Served, Attached, Follows, clientVars
<1> QED BY <1>3, <1>6 DEF GapInv

\* A client that attaches has missed nothing yet.
LEMMA SubscribeGap ==
    ASSUME Typed, GapInv, NEW c \in Clients, Subscribe(c) PROVE GapInv'
<1>1. /\ UNCHANGED <<buffer, logged, emission, callbacks, queue, live, dropped, replayed>>
      /\ subscribers' = subscribers \cup {c}
      /\ generator' = [generator EXCEPT ![c] = "subscribed"]
      /\ since' = [since EXCEPT ![c] = logged]
    BY DEF Subscribe, logVars
<1>2. DOMAIN generator = Clients /\ DOMAIN since = Clients /\ logged \in Nat
    BY DEF Typed
<1>3. /\ since'[c] = logged /\ generator'[c] = "subscribed"
      /\ \A d \in Clients : d # c => generator'[d] = generator[d] /\ since'[d] = since[d]
    BY <1>1, <1>2
<1>4. \A d \in Clients : \A l : Reached(d, l) => Reached(d, l)'
    BY <1>1 DEF Reached, Owes
<1>5. Served(c)'
    <2>1. \A l \in since'[c] + 1 .. logged' : FALSE
        BY <1>1, <1>2, <1>3
    <2> QED BY <1>1, <1>2, <1>3, <2>1 DEF Served
<1>6. \A d \in Clients : d # c => Served(d)'
    BY <1>1, <1>3, <1>4 DEF GapInv, Served, Attached, Follows
<1>7. BufferWhole' /\ \A d \in Clients : Follows(d)' => ReplayWhole(d)'
    BY <1>1, <1>3 DEF GapInv, BufferWhole, Follows, ReplayWhole
<1> QED BY <1>5, <1>6, <1>7 DEF GapInv

\* The backlog is the end of the buffer, so it reaches up to what was logged,
\* behind the subscription.
LEMMA BacklogGap ==
    ASSUME Typed, GapInv, NEW c \in Clients, NEW n \in Backlogs, ReadBacklog(c, n)
    PROVE  GapInv'
<1>1. /\ UNCHANGED <<buffer, logged, emission, subscribers, callbacks, queue, live, dropped, since>>
      /\ generator[c] = "subscribed" /\ generator' = [generator EXCEPT ![c] = "replaying"]
      /\ replayed' = [replayed EXCEPT ![c] = Last(buffer, n)]
    BY DEF ReadBacklog, Recent, logVars
<1>2. DOMAIN generator = Clients /\ DOMAIN replayed = Clients /\ logged \in Nat
      /\ since[c] \in Int /\ buffer \in Seq(Line) /\ n \in Nat
    BY BacklogsAssumption DEF Typed
<1>3. /\ generator'[c] = "replaying" /\ replayed'[c] = Last(buffer, n)
      /\ \A d \in Clients : d # c => generator'[d] = generator[d] /\ replayed'[d] = replayed[d]
    BY <1>1, <1>2
<1>4. \A d \in Clients : Served(d)'
    <2>1. \A d \in Clients : Attached(d)' => Attached(d)
        BY <1>1, <1>3 DEF Attached, Follows
    <2>2. \A d \in Clients : \A l : Reached(d, l) => Reached(d, l)'
        BY <1>1 DEF Reached, Owes
    <2> QED BY <1>1, <2>1, <2>2 DEF GapInv, Served
<1>5. since[c] <= logged
    <2>1. since[c] \in 0 .. logged
        BY <1>1 DEF GapInv, Served, Attached
    <2> QED BY <1>2, <2>1
<1>6. ReplayWhole(c)'
    <2> DEFINE last == Last(buffer, n)
               k == Len(buffer)
               m == Len(last)
    <2>1. /\ last \in Seq(Line) /\ m = (IF k > n THEN n ELSE k) /\ k \in Nat
          /\ \A i \in 1 .. m : last[i] = buffer[k - m + i]
        BY <1>2, LastLines
    <2>2. \A i \in 1 .. k : buffer[i] = logged - k + i
        <3>1. DOMAIN buffer = 1 .. k
            BY <1>2
        <3> QED BY <3>1 DEF GapInv, BufferWhole
    <2>3. DOMAIN last = 1 .. m /\ m \in Nat
        BY <2>1
    <2> HIDE DEF last, k
    <2>4. ASSUME NEW i \in 1 .. m PROVE last[i] = logged - m + i
        <3>1. k - m + i \in 1 .. k
            BY <1>2, <2>1, <2>3
        <3>2. last[i] = logged - k + (k - m + i)
            BY <2>1, <2>2, <3>1
        <3> QED BY <1>2, <2>1, <2>3, <3>2
    <2>5. last # <<>> => m \in Nat \ {0}
        BY <2>1, <2>3
    <2> HIDE DEF m
    <2>6. last # <<>> => last[1] = logged - m + 1 /\ last[m] = logged
        BY <1>2, <2>3, <2>4, <2>5
    <2>7. \A i \in DOMAIN last : last[i] = last[1] + i - 1
        <3> SUFFICES ASSUME NEW i \in 1 .. m PROVE last[i] = last[1] + i - 1
            BY <2>3
        <3>1. 1 \in 1 .. m
            BY <2>3
        <3> QED BY <1>2, <2>3, <2>4, <3>1
    <2>8. replayed'[c] = last /\ since'[c] = since[c]
        BY <1>1, <1>3 DEF last
    <2>9. last # <<>> => last[Len(last)] >= since[c]
        BY <1>2, <1>5, <2>6 DEF m
    <2> QED BY <2>7, <2>8, <2>9 DEF ReplayWhole
<1>7. \A d \in Clients : d # c /\ Follows(d)' => ReplayWhole(d)'
    BY <1>1, <1>3 DEF GapInv, Follows, ReplayWhole
<1>8. BufferWhole'
    BY <1>1 DEF GapInv, BufferWhole
<1> QED BY <1>4, <1>6, <1>7, <1>8 DEF GapInv

\* The first line of the queue becomes the last the client was given.
LEMMA TakeGap ==
    ASSUME Typed, GapInv, NEW c \in Clients, TakeLine(c) PROVE GapInv'
<1>1. /\ UNCHANGED <<buffer, logged, emission, subscribers, callbacks, dropped, since, replayed>>
      /\ generator[c] = "waiting" /\ generator' = [generator EXCEPT ![c] = "checking"]
      /\ queue[c] # <<>>
      /\ live' = [live EXCEPT ![c] = Append(@, Head(queue[c]))]
      /\ queue' = [queue EXCEPT ![c] = Tail(@)]
    BY DEF TakeLine, Goes, logVars
<1>2. /\ DOMAIN generator = Clients /\ DOMAIN live = Clients /\ DOMAIN queue = Clients
      /\ queue[c] \in Seq(Line) /\ live[c] \in Seq(Line)
      /\ Head(queue[c]) = queue[c][1] /\ Head(queue[c]) \in Line
    BY <1>1 DEF Typed
<1>3. /\ live'[c] = Append(live[c], queue[c][1]) /\ queue'[c] = Tail(queue[c])
      /\ generator'[c] = "checking"
      /\ \A d \in Clients : d # c => /\ live'[d] = live[d] /\ queue'[d] = queue[d]
                                     /\ generator'[d] = generator[d]
    BY <1>1, <1>2
<1>4. ASSUME NEW d \in Clients, NEW l, Reached(d, l) PROVE Reached(d, l)'
    <2>1. CASE d # c
        BY <1>1, <1>3, <1>4, <2>1 DEF Reached, Owes
    <2>2. CASE d = c
        <3>1. /\ In(live'[c], queue[c][1])
              /\ \A y : In(live[c], y) => In(live'[c], y)
            BY <1>2, <1>3, InAppend
        <3>2. \A y : In(queue[c], y) => y = queue[c][1] \/ In(queue'[c], y)
            BY <1>1, <1>2, <1>3, InTail
        <3> QED BY <1>1, <1>4, <2>2, <3>1, <3>2 DEF Reached, Owes
    <2> QED BY <2>1, <2>2
<1>5. \A d \in Clients : (Attached(d)' => Attached(d)) /\ (Follows(d)' => Follows(d))
    BY <1>1, <1>3 DEF Attached, Follows
<1>6. \A d \in Clients : Served(d)'
    BY <1>1, <1>4, <1>5 DEF GapInv, Served
<1>7. BufferWhole' /\ \A d \in Clients : Follows(d)' => ReplayWhole(d)'
    BY <1>1, <1>5 DEF GapInv, BufferWhole, ReplayWhole
<1> QED BY <1>6, <1>7 DEF GapInv

\* What moves no line: a client goes on, leaves or disconnects.
LEMMA MoveGap ==
    ASSUME GapInv,
           UNCHANGED <<buffer, logged, emission, callbacks, queue, live, dropped, since, replayed>>,
           \A c \in Clients : (Attached(c)' => Attached(c)) /\ (Follows(c)' => Follows(c)),
           \A c \in Clients : Attached(c)' /\ c \in subscribers => c \in subscribers'
    PROVE  GapInv'
<1>1. \A c \in Clients : \A l : Reached(c, l) => Reached(c, l)'
    BY DEF Reached, Owes
<1>2. \A c \in Clients : Served(c)'
    BY <1>1 DEF GapInv, Served
<1>3. BufferWhole' /\ \A c \in Clients : Follows(c)' => ReplayWhole(c)'
    BY DEF GapInv, BufferWhole, ReplayWhole
<1> QED BY <1>2, <1>3 DEF GapInv

LEMMA GapStep ==
    ASSUME Typed, OneEmission, GapInv, [Next]_vars PROVE GapInv'
<1>1. CASE UNCHANGED vars
    <2>1. \A c \in Clients : (Attached(c)' => Attached(c)) /\ (Follows(c)' => Follows(c))
        BY <1>1 DEF vars, Attached, Follows
    <2> QED BY <1>1, <2>1, MoveGap DEF vars
<1>2. ASSUME NEW t \in Threads, AppendLine(t) \/ EmitStep(t) PROVE GapInv'
    BY <1>2, AppendGap, EmissionGap
<1>3. CASE SafePut
    BY <1>3, SafePutGap
<1>4. ASSUME NEW c \in Clients,
             Replayed(c) \/ StaysConnected(c) \/ KeepAlive(c) \/ Leave(c) \/ Closed(c)
                \/ Disconnect(c)
      PROVE  GapInv'
    <2>1. /\ UNCHANGED <<buffer, logged, emission, callbacks, queue, live, dropped, since, replayed>>
          /\ \A d \in Clients : d # c /\ d \in subscribers => d \in subscribers'
          /\ \/ generator' = generator /\ subscribers' = subscribers
             \/ /\ Follows(c) /\ generator' = [generator EXCEPT ![c] = "checking"]
                /\ subscribers' = subscribers
             \/ /\ Follows(c) /\ generator' = [generator EXCEPT ![c] = "waiting"]
                /\ subscribers' = subscribers
             \/ generator' = [generator EXCEPT ![c] = "done"]
        BY <1>4 DEF Replayed, StaysConnected, KeepAlive, Leave, Closed, Disconnect, Goes,
                    logVars, Follows
    <2>2. DOMAIN generator = Clients
        BY DEF Typed
    <2>3. \A d \in Clients : d # c => generator'[d] = generator[d]
        BY <2>1, <2>2
    <2>4. \/ generator'[c] = generator[c] /\ subscribers' = subscribers
          \/ Follows(c) /\ generator'[c] \in {"checking", "waiting"} /\ subscribers' = subscribers
          \/ generator'[c] = "done"
        BY <2>1, <2>2
    <2>5. \A d \in Clients : (Attached(d)' => Attached(d)) /\ (Follows(d)' => Follows(d))
        BY <2>3, <2>4 DEF Attached, Follows
    <2>6. \A d \in Clients : Attached(d)' /\ d \in subscribers => d \in subscribers'
        BY <2>1, <2>4 DEF Attached, Follows
    <2> QED BY <2>1, <2>5, <2>6, MoveGap
<1>5. ASSUME NEW c \in Clients, GeneratorStep(c) \/ Subscribe(c) \/ Closed(c) \/ Disconnect(c)
      PROVE  GapInv'
    BY <1>4, <1>5, BacklogGap, TakeGap, SubscribeGap DEF GeneratorStep
<1> QED BY <1>1, <1>2, <1>3, <1>5 DEF Next

\* From the first line of its backlog on, or from its subscription on, a client
\* misses nothing: what was logged while it subscribed is in the backlog or was
\* put into its queue, for the buffer is read after the subscription.
THEOREM NothingIsMissed == Spec => []NoGap
<1>1. Typed /\ OneEmission /\ GapInv => NoGap
    <2> SUFFICES ASSUME Typed, OneEmission, GapInv, NEW c \in Clients, Follows(c),
                        NEW l \in Min({since[c] + 1} \cup Range(replayed[c])) .. logged
                 PROVE  l \in Range(replayed[c]) \cup Range(live[c]) \cup Range(queue[c])
                              \cup OnTheWay(c) \cup dropped[c]
        BY DEF NoGap
    <2> DEFINE s == since[c]
               r == replayed[c]
               m == Len(r)
               first == IF r # <<>> /\ r[1] < s + 1 THEN r[1] ELSE s + 1
    <2>1. /\ s \in 0 .. logged /\ logged \in 0 .. MaxLines
          /\ \A k \in s + 1 .. logged : Reached(c, k)
        BY DEF GapInv, Served, Attached, Typed
    <2>2. /\ r \in Seq(Line) /\ m \in Nat /\ DOMAIN r = 1 .. m
          /\ r # <<>> => m # 0 /\ r[1] \in Line /\ r[m] >= s
          /\ \A i \in 1 .. m : r[i] = r[1] + i - 1
        BY DEF GapInv, ReplayWhole, Typed
    <2> HIDE DEF s, r, m
    <2>3. Line \subseteq Nat /\ MaxLines \in Nat
        BY MaxLinesAssumption DEF Line
    <2>4. /\ first \in {s + 1} \cup Range(r)
          /\ \A x \in {s + 1} \cup Range(r) : first <= x /\ x \in Nat
        <3>1. \A x \in Range(r) : \E i \in 1 .. m : x = r[1] + i - 1 /\ r # <<>>
            BY <2>2 DEF Range
        <3>2. r # <<>> => r[1] \in Range(r)
            BY <2>2 DEF Range
        <3>3. \A x \in Range(r) : r # <<>> /\ r[1] <= x /\ x \in Nat
            <4> SUFFICES ASSUME NEW x \in Range(r) PROVE r # <<>> /\ r[1] <= x /\ x \in Nat
                OBVIOUS
            <4>1. PICK i \in 1 .. m : x = r[1] + i - 1 /\ r # <<>>
                BY <3>1
            <4>2. r[1] \in Nat
                BY <2>2, <2>3, <4>1
            <4>3. i \in Nat /\ i >= 1
                BY <2>2
            <4> QED BY <4>1, <4>2, <4>3
        <3> QED BY <2>1, <2>2, <2>3, <3>2, <3>3
    <2>5. Min({s + 1} \cup Range(r)) = first
        <3> DEFINE S == {s + 1} \cup Range(r)
        <3>1. first \in S /\ \A x \in S : first <= x /\ x \in Nat
            BY <2>4
        <3> HIDE DEF S, first
        <3>2. Min(S) = CHOOSE x \in S : \A y \in S : x <= y
            BY DEF Min
        <3>3. Min(S) \in S /\ \A y \in S : Min(S) <= y
            BY <3>1, <3>2
        <3> DEFINE least == Min(S)
        <3>4. least \in Nat /\ first \in Nat /\ least <= first /\ first <= least
            BY <3>1, <3>3
        <3> HIDE DEF least
        <3>5. least = first
            BY <3>4
        <3> QED BY <3>5 DEF S, least
    <2>6. l \in first .. logged
        BY <2>5 DEF s, r
    <2>7. CASE l \in s + 1 .. logged
        <3>1. Reached(c, l) /\ l \in Line
            <4>1. l \in Int /\ 1 <= l /\ l <= MaxLines
                BY <2>1, <2>3, <2>7
            <4> QED BY <2>1, <2>3, <2>7, <4>1 DEF Line
        <3>2. \A t \in Threads : Owes(t, c) =>
                 emission[t].stage = "appended" \/ c \in emission[t].to
            BY DEF Owes
        <3>3. \/ \E i \in DOMAIN callbacks : callbacks[i] = [client |-> c, line |-> l]
              \/ \E t \in Threads : /\ emission[t].line = l
                                    /\ emission[t].stage = "appended" \/ c \in emission[t].to
              => l \in OnTheWay(c)
            BY <3>1 DEF OnTheWay
        <3> QED BY <3>1, <3>2, <3>3 DEF Reached, In, Range
    <2>8. CASE ~(l \in s + 1 .. logged)
        <3>1. r # <<>> /\ r[1] <= l /\ l <= s /\ l \in Int /\ r[1] \in Nat
            <4>1. s \in Nat /\ logged \in Nat
                BY <2>1, <2>3
            <4>2. CASE first = s + 1
                BY <2>6, <2>8, <4>2
            <4>3. CASE r # <<>> /\ first = r[1]
                <5>1. r[1] \in Nat
                    BY <2>2, <2>3, <4>3
                <5>2. l \in Int /\ r[1] <= l /\ l <= logged
                    BY <2>6, <4>1, <4>3, <5>1
                <5>3. l <= s
                    BY <2>8, <4>1, <5>2
                <5> QED BY <4>3, <5>1, <5>2, <5>3
            <4> QED BY <4>2, <4>3
        <3>2. m \in 1 .. m /\ r[m] = r[1] + m - 1 /\ r[m] >= s
            BY <2>2, <3>1
        <3>3. l - r[1] + 1 \in 1 .. m
            BY <2>1, <2>2, <3>1, <3>2
        <3>4. r[l - r[1] + 1] = l
            BY <2>2, <3>1, <3>3
        <3>5. l \in Range(r)
            BY <2>2, <3>3, <3>4 DEF Range
        <3> QED BY <3>5 DEF r
    <2> QED BY <2>7, <2>8
<1>2. Init => Typed /\ OrderInv /\ GapInv
    BY TypedInit, OrderInit, GapInit
<1>3. Typed /\ OrderInv /\ GapInv /\ [Next]_vars => (Typed /\ OrderInv /\ GapInv)'
    BY TypedStep, OrderStep, GapStep DEF OrderInv
<1>4. OrderInv => OneEmission
    BY DEF OrderInv
<1> QED BY <1>1, <1>2, <1>3, <1>4, PTL DEF Spec
=============================================================================
