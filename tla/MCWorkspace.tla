------------------------------ MODULE MCWorkspace ------------------------------
(* A small workspace: two open transactions, three members, two            *)
(* transaction rows, two operations on a goal, a category and a subcategory. *)
EXTENDS Workspace, TLC

CONSTANTS owner, admin, member, top, sub

MCInitialMembers == owner :> "owner" @@ admin :> "admin" @@ member :> "member"
MCParent == top :> NoCategory @@ sub :> top
MCSymmetry ==
    Permutations(Workers) \cup Permutations(TxIds) \cup Permutations(OpIds)
        \cup Permutations(Currencies)
===============================================================================
