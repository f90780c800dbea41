--------------------------- MODULE MCListedCollector ---------------------------
(* Model values for ListedCollector: four possible items, two to a page.     *)
EXTENDS ListedCollector

MCKeys == 1..4
================================================================================
