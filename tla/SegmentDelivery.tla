---------------------------- MODULE SegmentDelivery ----------------------------
(***************************************************************************)
(* What a recognition session promises about the results it delivers,      *)
(* without epochs, a busy flag, a release pointer or a reorder buffer.     *)
(*                                                                         *)
(* Speech is a sequence of segments, one of them live.  Intermediate texts *)
(* are about the live segment only.  A closed segment is unresolved until  *)
(* its recognition returns, with or without a text.  The sentence of a     *)
(* segment is delivered as soon as every earlier segment is resolved, in   *)
(* segment order; the end is marked once, when nothing is unresolved.      *)
(***************************************************************************)
EXTENDS Integers, Sequences, FiniteSets, Functions

CONSTANT AtOnce   \* segments that may be closed in one step

VARIABLES
    live,        \* the segment being spoken
    unresolved,  \* closed segments whose recognition has not returned
    ready,       \* segments with a text that may not be delivered yet
    log          \* what was delivered, in order

vars == <<live, unresolved, ready, log>>

Progressive(k) == [seg |-> k, type |-> "Progressive"]
Sentence(k)    == [seg |-> k, type |-> "sentence"]
EndMark        == [seg |-> -1, type |-> "end"]

Ended == \E i \in DOMAIN log : log[i] = EndMark

Init ==
    /\ live = 0
    /\ unresolved = {} /\ ready = {}
    /\ log = <<>>

Speak ==
    /\ ~Ended
    /\ log' = Append(log, Progressive(live))
    /\ UNCHANGED <<live, unresolved, ready>>

Close(count) ==
    /\ ~Ended
    /\ live' = live + count
    /\ unresolved' = unresolved \cup live .. live + count - 1
    /\ UNCHANGED <<ready, log>>

\* Segments no unresolved segment precedes.
Deliverable(S, waiting) == {k \in S : \A u \in waiting : k < u}

Resolve(k, has_text) ==
    LET waiting == unresolved \ {k}
        texts   == ready \cup (IF has_text THEN {k} ELSE {})
        batch   == Deliverable(texts, waiting)
    IN  /\ ~Ended
        /\ k \in unresolved
        /\ unresolved' = waiting
        /\ ready' = texts \ batch
        /\ \E count \in 0 .. live : \E b \in [1..count -> batch] :
              /\ Range(b) = batch
              /\ \A i, j \in 1..count : i < j => b[i] < b[j]
              /\ log' = log \o [i \in 1..count |-> Sentence(b[i])]
        /\ UNCHANGED live

End ==
    /\ ~Ended
    /\ unresolved = {}
    /\ log' = Append(log, EndMark)
    /\ UNCHANGED <<live, unresolved, ready>>

Next ==
    \/ Speak
    \/ \E count \in 1..AtOnce : Close(count)
    \/ \E k \in unresolved, has_text \in BOOLEAN : Resolve(k, has_text)
    \/ End

Spec == Init /\ [][Next]_vars

-----------------------------------------------------------------------------
\* What the client of a session relies on: the sentences come in segment order
\* and once each, and no intermediate text comes behind the sentence of its
\* segment or of a later one.
DeliveredInOrder ==
    \A i, j \in DOMAIN log :
        i < j /\ log[i].type = "sentence" /\ log[j].type # "end"
            => log[i].seg < log[j].seg

\* A text is held back only for an earlier segment, so nothing is held back
\* when the end is marked.
HeldForEarlier ==
    /\ \A k \in ready : \E u \in unresolved : u < k
    /\ Ended => unresolved = {} /\ ready = {}
=============================================================================
