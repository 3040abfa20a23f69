---------------------------- MODULE MCHearChannel ---------------------------
(* An instance of HearChannel: see HearChannel.cfg. *)
EXTENDS HearChannel, TLC

Alike == Permutations(Players)
=============================================================================
