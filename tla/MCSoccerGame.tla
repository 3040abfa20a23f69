---------------------------- MODULE MCSoccerGame ----------------------------
(* Two players of one team against one of the other. *)
EXTENDS SoccerGame, TLC

CONSTANTS a1, a2, b1

TeamOf == [p \in {a1, a2, b1} |-> IF p = b1 THEN TeamB ELSE TeamA]

(* The players of a team are interchangeable; no liveness is checked.      *)
Mates == Permutations({a1, a2})

(* Short matches reach some modes only, or early, when a trainer sets them. *)
SomeModes == {Mode("Offside", "left"), Mode("FreeKick", "right"),
              Mode("DirectFreeKick", "left")}
=============================================================================
