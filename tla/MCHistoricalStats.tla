------------------------- MODULE MCHistoricalStats -------------------------
(***************************************************************************)
(* Instances of HistoricalStats: totals from two on have one digit more    *)
(* than the smaller ones.                                                  *)
(***************************************************************************)
EXTENDS HistoricalStats

MCDigits == [n \in Count |-> IF n < 2 THEN 1 ELSE 2]
=============================================================================
