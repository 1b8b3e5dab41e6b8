-------------------------- MODULE MCAgentLifecycle --------------------------
(***************************************************************************)
(* Instances of AgentLifecycle for TLC: two processes, two agents, three   *)
(* programs.  Two agents are the fewest that can want one name, a second   *)
(* program of an agent is a respawn, the third one lets both happen.       *)
(***************************************************************************)
EXTENDS AgentLifecycle, TLC

CONSTANTS p1, p2, a1, a2

TwoProcs == {p1, p2}
TwoAgents == {a1, a2}
Symmetry == Permutations(Procs) \cup Permutations(Ids)

(* Ids are taken in one order: the behaviours of the other are these, with  *)
(* the ids exchanged.                                                      *)
InOrder == a2 \in minted => a1 \in minted

OneBase == {"b"}
OneDatum == {"d"}
Hooks == {"idle", "ended"}

AllOps == Ops
RaceOps == {"create", "respawn", "refresh", "refreshAll"}

(* ops: operations begun; the others: what may go wrong around them.       *)
Calm == [ops |-> 6, faults |-> 0, crashes |-> 0, closes |-> 0]
Calm4 == [Calm EXCEPT !.ops = 4]
Troubled == [ops |-> 3, faults |-> 1, crashes |-> 1, closes |-> 1]
=============================================================================
