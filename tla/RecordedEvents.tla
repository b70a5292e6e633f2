--------------------------- MODULE RecordedEvents ----------------------------
(***************************************************************************)
(* What the sidecar promises about the batches it acknowledges, whatever   *)
(* it does to keep the promise: at-least-once upload, with losses that are *)
(* only ever the ones it admits to.                                        *)
(***************************************************************************)
EXTENDS Naturals

VARIABLES
    accepted,   \* batches 1..accepted were acknowledged
    waiting,    \* batches still buffered
    recorded,   \* batches readable in S3
    discarded   \* batches given up after a failed upload

vars == <<accepted, waiting, recorded, discarded>>

Init == accepted = 0 /\ waiting = {} /\ recorded = {} /\ discarded = {}

Accept ==
    /\ accepted' \in Nat
    /\ accepted' > accepted
    /\ waiting' = waiting \cup (accepted + 1)..accepted'
    /\ UNCHANGED <<recorded, discarded>>

(* A chunk is written; the batches stay buffered until that is known. *)
Record ==
    /\ \E E \in SUBSET waiting : recorded' = recorded \cup E
    /\ UNCHANGED <<accepted, waiting, discarded>>

(* Only what is recorded may be forgotten ... *)
Settle ==
    /\ \E E \in SUBSET (waiting \cap recorded) : waiting' = waiting \ E
    /\ UNCHANGED <<accepted, recorded, discarded>>

(* ... and only what is still buffered may be given up. *)
Discard ==
    \E E \in SUBSET waiting :
        /\ waiting' = waiting \ E
        /\ recorded' = recorded \ E
        /\ discarded' = discarded \cup E
        /\ UNCHANGED accepted

Next == Accept \/ Record \/ Settle \/ Discard

Spec == Init /\ [][Next]_vars

=============================================================================
