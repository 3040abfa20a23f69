---------------------------- MODULE MCTeamRoster ----------------------------
(* A small instance of TeamRoster: squads of three, two teams, two robot      *)
(* types.                                                                     *)
EXTENDS TeamRoster, TLC

CONSTANTS a1, a2, A, B

TwoAgents     == {a1, a2}
TwoTeams      == {A, B}
TwoTypes      == {0, 1}
AnyOrSecond   == {0, 2}

AgentSymmetry == Permutations(Agent)
=============================================================================
