------------------------ MODULE MCExternalTransactions ------------------------
(* Small instances of ExternalTransactions for TLC.                        *)
EXTENDS ExternalTransactions, TLC

CONSTANTS i1, food, cash, w1, w2, t1, t2, k1, k2, e1

MCTypes == {"expense"}
MCCategories == {food}
MCSources == {cash}
MCCategoryType == [c \in MCCategories |-> "expense"]

AllScopes == {"create", "update", "delete"}

(* A credential without allowlists, and its replacement that is limited to *)
(* one category: it may not see uncategorized transactions.                *)
Unrestricted ==
    [integration |-> i1, scopes |-> AllScopes,
     categoryAllowlistEnabled |-> FALSE, allowedCategoryIds |-> {},
     paymentSourceAllowlistEnabled |-> FALSE, allowedPaymentSourceIds |-> {}]

FoodOnly ==
    [Unrestricted EXCEPT !.categoryAllowlistEnabled = TRUE,
                         !.allowedCategoryIds = {food}]

MCPrincipalsOne == {Unrestricted}
MCPrincipalsTwo == {Unrestricted, FoodOnly}

Meal ==
    [type |-> "expense", categoryId |-> food, paymentSourceId |-> cash, body |-> 1]
Unsorted ==
    [type |-> "expense", categoryId |-> NoCategory, paymentSourceId |-> cash, body |-> 2]

MCCommandsOne == {Meal}
MCCommandsTwo == {Meal, Unsorted}

Creation(k, e, c) ==
    [operation |-> "create", key |-> k, externalId |-> e, command |-> c, expectedVersion |-> 0]
Replacement(k, e, c, v) ==
    [operation |-> "update", key |-> k, externalId |-> e, command |-> c, expectedVersion |-> v]
Deletion(k, e, v) ==
    [operation |-> "delete", key |-> k, externalId |-> e, command |-> NoCommand, expectedVersion |-> v]

(* One key for everything: repeats, conflicts, expiry, and a keyless rival.*)
MCKeyRequests ==
    {Creation(k1, e1, Meal), Replacement(k1, e1, Unsorted, 1),
     Creation(NoKey, e1, Meal), Deletion(k1, e1, 1)}

(* Two credentials and two bodies competing for one row.                   *)
MCRowRequests ==
    {Creation(k1, e1, Meal), Replacement(k1, e1, Unsorted, 1),
     Replacement(k2, e1, Meal, 2), Deletion(k2, e1, 1)}

(* A claim of an earlier release for the creation of Meal as e1.           *)
LegacyClaim ==
    [operation |-> "create", targetExternalId |-> e1,
     requestFingerprint |-> <<"create", e1, Meal, 0>>, status |-> "in_progress",
     response |-> NoResponse, targetTransactionId |-> NoTx,
     retainedCategoryId |-> NoCategory, retainedPaymentSourceId |-> NoSource,
     leaseExpiresAt |-> Lease, completedAt |-> 0, expiresAt |-> Lease]

MCLegacyRecords == {LegacyClaim}
MCNoLegacy == {}

MCSymmetry == Permutations({w1, w2}) \cup Permutations({t1, t2})
===============================================================================
