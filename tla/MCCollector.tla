------------------------------ MODULE MCCollector ------------------------------
(* Model values for Collector: five possible items, two to a page, so that   *)
(* up to three pages are asked for and the data channel fills up.            *)
EXTENDS Collector

MCKeys == 1..5
================================================================================
