------------------------------- MODULE MCPolls -------------------------------
(* Small instances of Polls. *)
EXTENDS Polls, TLC

MCHolding == (1 :> 2) @@ (2 :> 1)
MCGas == (1 :> 2) @@ (2 :> 0)

Plain == [term |-> 3, picks |-> 3, tally |-> "approval", weight |-> "balance", decide |-> 60,
          quorum |-> 0, minVoters |-> 0, minBalance |-> 0, deposit |-> 1, gas |-> 0,
          callback |-> "none", delay |-> 0, throws |-> FALSE]

(* A poll decided by a tie-breaking transfer, a binding one with a timelock,  *)
(* a time-weighted one, and a split one whose tally changes with the rule.    *)
MCDefinitions ==
    {Plain,
     [Plain EXCEPT !.quorum = 60, !.minVoters = 1, !.gas = 1, !.callback = "always", !.delay = 1],
     [Plain EXCEPT !.weight = "time_weighted", !.deposit = 0],
     [Plain EXCEPT !.tally = "split", !.decide = 30, !.deposit = 0,
                   !.quorum = 30, !.minVoters = 1, !.callback = "pass"]}

MCSelections == {(0 :> 1), (1 :> 1), (0 :> 1) @@ (1 :> 1) @@ (2 :> 1)}
=============================================================================
