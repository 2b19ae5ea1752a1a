---------------------------- MODULE MCTxFence ----------------------------
(* TxFence for TLC.  The dry runs are interchangeable, the connections too. *)
EXTENDS TxFence, TLC

Interchangeable == Permutations(Quotes) \cup Permutations(Conns)

=============================================================================
