--------------------------- MODULE MCWorkerFleet ---------------------------
(* One source set with its ingest worker and one pipeline over it. *)
EXTENDS WorkerFleet, TLC

CONSTANTS ingest, eval

MCFleet == <<ingest, eval>>
MCFeedOf == [w \in {ingest, eval} |-> ingest]
MCSensitivity == ingest :> 0 @@ eval :> 2
=============================================================================
