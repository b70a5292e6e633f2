-------------------------- MODULE MCRecorderSession --------------------------
(***************************************************************************)
(* RecorderSession for TLC: the liveness property ranges over the keys a   *)
(* bounded behaviour can store.                                            *)
(***************************************************************************)
EXTENDS RecorderSession

MaxKey == MaxSeq + MaxGroups - 1

(* Every batch that was stored is eventually drained.                      *)
EventuallyDrained ==
    \A k \in 0..MaxKey :
        k \in DOMAIN batches ~> k \notin DOMAIN batches

=============================================================================
