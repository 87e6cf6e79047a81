---------------------------- MODULE SignalSeries ----------------------------
(***************************************************************************)
(* What one signal stream promises its readers, independently of how the   *)
(* store produces it: a series of envelopes numbered 1, 2, 3, ... without a *)
(* hole, each carrying the epoch it was published under, and a head that   *)
(* names the position a new reader may start from.                         *)
(*                                                                         *)
(* The i-th element of series is the epoch of the envelope whose seq is i. *)
(* OutcomeJournal implements this module; SignalStream reads it.           *)
(***************************************************************************)
EXTENDS Integers, Sequences

CONSTANT Epoch      \* the epochs a series may run under

ASSUME EpochAssumption == Epoch \subseteq Nat

VARIABLES
    series,     \* the epochs of the published envelopes, in seq order
    head        \* [seq, epoch]: the position stream_head() answers

seriesVars == <<series, head>>

\* No counter row yet: stream_head() answers (0, 0, None), the cold stream.
Cold == [seq |-> 0, epoch |-> 0]

SeriesInit ==
    /\ series = <<>>
    /\ head = Cold

\* The counter's first row: position 0 under epoch 1.
Seed ==
    /\ head = Cold
    /\ head' = [seq |-> 0, epoch |-> 1]
    /\ UNCHANGED series

\* One envelope more, numbered one past the last and stamped with the epoch in
\* force (1 when the counter row is created by the same transaction).
Publish ==
    /\ head.seq = Len(series)
    /\ LET epoch == IF head = Cold THEN 1 ELSE head.epoch
       IN  /\ series' = Append(series, epoch)
           /\ head' = [seq |-> Len(series) + 1, epoch |-> epoch]

\* A rewind was noticed: the series goes on under a later epoch.
NewEpoch ==
    /\ head' \in [seq : {Len(series)}, epoch : Epoch]
    /\ head'.epoch > head.epoch
    /\ UNCHANGED series

\* The database was taken back to an earlier state, or lost the counter row.
Rewind ==
    /\ \E n \in 0..Len(series) : series' = SubSeq(series, 1, n)
    /\ head' \in [seq : {0, Len(series')}, epoch : Epoch]

SeriesNext == Seed \/ Publish \/ NewEpoch \/ Rewind

SeriesSpec == SeriesInit /\ [][SeriesNext]_seriesVars

\* The same promise where nothing takes the database back: the series only grows.
StableNext == Seed \/ Publish
StableSpec == SeriesInit /\ [][StableNext]_seriesVars
=============================================================================
