---------------------------- MODULE MCPlacement ----------------------------
(***************************************************************************)
(* Small instances of Placement.                                           *)
(***************************************************************************)
EXTENDS Placement

CONSTANTS a1, a2, c1, c2, c3, c4, c5, c6

MCAgentSeq == <<a1, a2>>

\* Both agents are configured with c4, which the first to register serves.
MCConfigs == [a \in Agents |-> IF a = a1 THEN {<<c1, c2, c3, c4>>} ELSE {<<c5, c6, c4>>}]

MCStripes == {<<c5, c6, c1, c3>>}
=============================================================================
