----------------------------- MODULE CategoryTree -----------------------------
(***************************************************************************)
(* The categories of a workspace (categories.service.ts): each operation   *)
(* is a READ COMMITTED transaction that reads the rows its checks are      *)
(* about and then writes one row, or a row and those below it.  Nothing is *)
(* locked in between.  Names, types and the order of siblings are left     *)
(* out: a name that is taken is one more way to fail.                      *)
(***************************************************************************)
EXTENDS FiniteSets

CONSTANTS
    Workers,     \* transactions that may be open together
    Ids,         \* ids of categories
    TopLevel,    \* parentId null
    Absent       \* no row

VARIABLES
    categories,  \* [Ids -> category, or Absent]
    work         \* [Workers -> what is checked and not written yet, or Idle]

vars == <<categories, work>>

-------------------------------------------------------------------------------
Idle == [op |-> "idle"]

Category == [parent : Ids \cup {TopLevel}, archived : BOOLEAN]

Exists(c) == categories[c] # Absent

Active(c) == Exists(c) /\ ~categories[c].archived

Children(c) == {d \in Ids : Exists(d) /\ categories[d].parent = c}

(* activeParent: what a category other than exceptId may be put below.     *)
ActiveParents(exceptId) ==
    {p \in Ids \ {exceptId} : Active(p) /\ categories[p].parent = TopLevel}

Checked(w, op, c, parent) ==
    /\ work[w] = Idle
    /\ parent \in ActiveParents(c) \cup {TopLevel}
    /\ work' = [work EXCEPT ![w] = [op |-> op, id |-> c, parent |-> parent]]
    /\ UNCHANGED categories

(* The id of a category is new.                                            *)
CheckCreate(w, c, parent) ==
    /\ ~Exists(c)
    /\ \A v \in Workers : work[v] # Idle => work[v].id # c
    /\ Checked(w, "create", c, parent)

(* Archived children count as well.                                        *)
CheckUpdate(w, c, parent) ==
    /\ Active(c)
    /\ parent = TopLevel \/ Children(c) = {}
    /\ Checked(w, "update", c, parent)

CheckRestore(w, c) ==
    /\ Exists(c)
    /\ ~Active(c)
    /\ Checked(w, "restore", c, categories[c].parent)

WithArchived(c, archived) ==
    [d \in Ids |-> IF d = c \/ d \in Children(c)
                   THEN [categories[d] EXCEPT !.archived = archived] ELSE categories[d]]

Write(w) ==
    LET c == work[w].id IN
    /\ work[w] # Idle
    /\ categories' =
         CASE work[w].op = "create" ->
                [categories EXCEPT ![c] = [parent |-> work[w].parent, archived |-> FALSE]]
           [] work[w].op = "update" -> [categories EXCEPT ![c].parent = work[w].parent]
           [] work[w].op = "restore" -> WithArchived(c, FALSE)
    /\ work' = [work EXCEPT ![w] = Idle]

(* A name that is taken, or a lost connection.                             *)
Fail(w) ==
    /\ work[w] # Idle
    /\ work' = [work EXCEPT ![w] = Idle]
    /\ UNCHANGED categories

Archive(c) ==
    /\ Active(c)
    /\ categories' = WithArchived(c, TRUE)
    /\ UNCHANGED work

Init ==
    /\ categories = [c \in Ids |-> Absent]
    /\ work = [w \in Workers |-> Idle]

Next ==
    \/ \E w \in Workers, c \in Ids :
         \/ \E parent \in Ids \cup {TopLevel} : CheckCreate(w, c, parent) \/ CheckUpdate(w, c, parent)
         \/ CheckRestore(w, c)
    \/ \E w \in Workers : Write(w) \/ Fail(w)
    \/ \E c \in Ids : Archive(c)

Spec == Init /\ [][Next]_vars

-------------------------------------------------------------------------------
(* The categories are a two-level hierarchy: what a category is below is   *)
(* not itself below another one (categories.service.ts:320).  Two moves    *)
(* that check before either writes put two categories below each other;    *)
(* the hierarchy then shows neither, and the totals of the budget progress *)
(* recurse without end.                                                    *)
TwoLevels ==
    \A c \in Ids :
      Exists(c) /\ categories[c].parent # TopLevel =>
        /\ Exists(categories[c].parent)
        /\ categories[categories[c].parent].parent = TopLevel
===============================================================================
