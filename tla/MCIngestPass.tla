---------------------------- MODULE MCIngestPass ----------------------------
(* One source set of two feeds. *)
EXTENDS IngestPass, TLC

CONSTANTS fed_press, coindesk

MCSources == <<fed_press, coindesk>>
MCPublished == fed_press :> 2 @@ coindesk :> 1

\* Passes of one ingestor are interchangeable.
PassSymmetry == Permutations(Pass)
=============================================================================
