------------------------------ MODULE MCOutbox ------------------------------
(* TLC instances of Outbox. *)
EXTENDS Outbox, TLC

CONSTANTS w1, w2, o1

TwoWorkers == {w1, w2}
NoOperator == {}
OneOperator == {o1}
TwoEvents == {1, 2}

\* Workers and requeue runs are interchangeable (safety runs only).
Interchangeable == Permutations(Workers) \cup Permutations(Operators)

=============================================================================
