---------------------------- MODULE MCRetention ----------------------------
(***************************************************************************)
(* Retention for TLC: requests are created at the start and three units    *)
(* later, so that a cutoff can fall inside an hour of two units.           *)
(***************************************************************************)
EXTENDS Retention

CONSTANTS r1, r2

MCCreated == [r \in Requests |-> IF r = r1 THEN 0 ELSE 3]
MCDimOf == [r \in Requests |-> MCCreated[r] \div HourLen]
MCDims == {MCDimOf[r] : r \in Requests}
=============================================================================
