---------------------------- MODULE MCStatements ----------------------------
(***************************************************************************)
(* Statements for TLC: requests belong to the first partner; a second one, *)
(* when there is one, is created a day later.                              *)
(***************************************************************************)
EXTENDS Statements

CONSTANTS c1, c2

MCPartnerOf == [r \in Requests |-> c1]
MCCreated == [c \in Partners |-> IF c = c1 THEN 0 ELSE 1]
MCOrder == MCCreated
=============================================================================
