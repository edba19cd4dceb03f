------------------------ MODULE MCIntegrationCredentials ------------------------
(* Small instances of IntegrationCredentials for TLC.                      *)
EXTENDS IntegrationCredentials, TLC

CONSTANTS w1, w2, i1, i2, c1, c2, c3

MCSymmetry ==
    Permutations(Workers) \cup Permutations(Integrations) \cup Permutations(Credentials)
===============================================================================
