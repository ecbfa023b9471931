------------------------------- MODULE MCAgents -------------------------------
(* A small instance of Agents for TLC: two agents with one worker each.    *)
EXTENDS Agents

CONSTANTS a1, a2, f1, s1, z1, l1, w1, w2, n1, n2, n3, d1, d2

MCWorkerOf == w1 :> a1 @@ w2 :> a2
MCAgentOf == f1 :> a1 @@ l1 :> a1 @@ s1 :> a2 @@ z1 :> a2
MCType == f1 :> "fs" @@ l1 :> "ali" @@ s1 :> "aws" @@ z1 :> "azure"
\* Chunk n1 is in three containers, and n2 is to be repaired from them in others.
MCInit == [k \in Keys |-> IF k \in {<<f1, n1>>, <<s1, n1>>, <<z1, n1>>} THEN d1
                          ELSE IF k = <<f1, n2>> THEN d2 ELSE Nil]

Chunks(op, cs, ns, d) == [NoMsg EXCEPT !.op = op, !.at = cs, !.ns = ns, !.d = d]
\* Two repairs, each at an agent that needs a chunk of the other.
MCRepairs ==
    {[Chunks("RPR", <<l1, z1>>, <<n2, n2>>, d1) EXCEPT !.in = << <<s1, n1>> >>],
     [Chunks("RPR", <<s1>>, <<n3>>, d1) EXCEPT !.in = << <<f1, n1>>, <<s1, n1>> >>, !.car = TRUE]}

\* Overwrites that are reverted, in containers of three types.
MCPuts == {Chunks("PUT", <<c>>, <<n1>>, d2) : c \in {f1, s1, z1}} \cup {Chunks("RVT", <<c>>, <<n1>>, d1) : c \in {f1, s1, z1}}
\* Moves, to a name that is free or not, and a copy.
Renamed(op, cs, n, m, d) == [Chunks(op, cs, [i \in DOMAIN cs |-> n], d) EXCEPT !.to = [i \in DOMAIN cs |-> m]]
MCMoves == {Renamed("MOV", <<s1, z1>>, n1, n2, d1), Renamed("CPY", <<f1>>, n1, n3, d1)}
MCRenames == {Renamed("MOV", <<f1>>, n1, n2, d1)}
MCRenamesFree == {Renamed("MOV", <<f1>>, n2, n3, d2)}
MCChecks == {Chunks("DEL", <<l1, f1>>, <<n2, n2>>, Nil), Chunks("CHK", <<s1, z1>>, <<n1, n1>>, d1), Chunks("VRF", <<s1, z1>>, <<n1, n1>>, d1)}
MCBatches == {MCRepairs, MCMoves, MCRenames, MCRenamesFree, MCChecks} \cup {{m \in MCPuts : m.at = <<c>>} : c \in {f1, s1, z1}}
=============================================================================
