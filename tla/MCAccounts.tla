------------------------------ MODULE MCAccounts ------------------------------
(* Small instances of Accounts.                                            *)
EXTENDS Accounts, TLC

CONSTANTS w1, w2, s1, s2, l1, l2

AllWorkers == {w1, w2}
AllSids == {s1, s2}
OneSid == {s1}
AllLinks == {l1, l2}
NoLinks == {}

(* What is issued in one behaviour: enough for two resets, or for a setup, *)
(* two activations and a new password, after a registration or without.    *)
CONSTANT MaxIssued

WithinBudget ==
    issued.passwords + issued.secrets + issued.batches + issued.links <= MaxIssued

Symmetry == Permutations(AllWorkers) \cup Permutations(AllSids) \cup Permutations(AllLinks)
===============================================================================
