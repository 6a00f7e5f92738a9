----------------------------- MODULE MCTrackers -----------------------------
(***************************************************************************)
(* Instances of Trackers: one configured tracker, and a subscription that  *)
(* lists nothing or more than fits.                                        *)
(***************************************************************************)
EXTENDS Trackers

CONSTANTS d, o1, o2, junk, t, k1, k2, h

MCLists == {<<>>, <<junk, o1, o2>>}
=============================================================================
