---------------------------- MODULE MCCategoryTree ----------------------------
(* Two categories and two transactions at a time.                          *)
EXTENDS CategoryTree, TLC
===============================================================================
