------------------------------- MODULE Planning -------------------------------
(***************************************************************************)
(* The two calculators of the planning pages: the monthly plan of a        *)
(* savings goal (goal-plan.calculator.ts) and the progress of budgets over *)
(* a tree of categories (budget-progress.calculator.ts).  Amounts are      *)
(* integers in minor units, a date is a number of days and every month has *)
(* D days.                                                                 *)
(***************************************************************************)
EXTENDS Integers, FiniteSets, FiniteSetsExt

Month(date, D) == date \div D

(* addUtcMonthsClamped, with months of one length.                         *)
AddMonths(date, n, D) == date + n * D

(* Math.ceil of a quotient, for a numerator that is not negative.          *)
CeilDiv(a, b) == (a + b - 1) \div b

(* Mutant: the month of the target is not one of the months to save in.    *)
InclusiveMonthCount_ExclusiveEnd(first, last) == Max({last - first, 0})

InclusiveMonthCount(first, last) == Max({last - first + 1, 0})

(* null, where the code answers it.                                        *)
NoPlan == -1

(* calculateGoalPlan.                                                     *)
GoalPlan(goal, current, today, D) ==
    LET remaining == Max({goal.target - current, 0})
        completed == current >= goal.target
        overdue == goal.date < today
        first == Max({goal.start, Month(today, D)})
        months == IF overdue THEN 0 ELSE InclusiveMonthCount(first, Month(goal.date, D))
    IN  [remaining |-> remaining, months |-> months,
         monthly |-> IF completed THEN 0
                     ELSE IF months > 0 THEN CeilDiv(remaining, months) ELSE NoPlan,
         status |-> IF completed THEN "completed"
                    ELSE IF overdue THEN "overdue" ELSE "active"]

-------------------------------------------------------------------------------
(* Mutant: the remainder is dropped.                                       *)
PercentageBasisPoints_Truncated(spent, amount) == (spent * 10000) \div amount

(* calculatePercentageBasisPoints: rounded half up.                        *)
PercentageBasisPoints(spent, amount) ==
    (spent * 10000) \div amount
      + IF ((spent * 10000) % amount) * 2 >= amount THEN 1 ELSE 0

(* The terms of f at the members of S, added up.                           *)
SumOver(f, S) == MapThenSumSet(LAMBDA x : f[x], S)

(* getTotalSpent: what was spent in a category and below it.  parent maps  *)
(* each category to its parent; the recursion ends because it is a tree.   *)
TotalSpent(parent, own) ==
    LET total[c \in DOMAIN parent] ==
          own[c] + SumOver(total, {d \in DOMAIN parent : parent[d] = c})
    IN  total

(* calculateBudgetProgress, as a function on the categories it lists:      *)
(* those with a budget and those money was spent in.  budget gives an      *)
(* amount for each budgeted category.                                      *)
BudgetProgress(parent, budget, own) ==
    LET total == TotalSpent(parent, own)
        relevant == {c \in DOMAIN parent : c \in DOMAIN budget \/ total[c] > 0}
    IN  [c \in relevant |->
          [spent |-> total[c],
           points |-> IF c \in DOMAIN budget
                      THEN PercentageBasisPoints(total[c], budget[c]) ELSE NoPlan]]
===============================================================================
