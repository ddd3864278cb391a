-------------------------- MODULE MCReferendumReads --------------------------
(* The instance of ReferendumReads for TLC: a vote in each province.          *)
EXTENDS ReferendumReads

CONSTANTS p1, p2, v1, v2

MCProvinceOf == [v \in {v1, v2} |-> IF v = v1 THEN p1 ELSE p2]
=============================================================================
