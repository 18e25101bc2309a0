-------------------------- MODULE MCEvolutionCampaign --------------------------
(* Three scores meet every halt criterion: 9500 succeeds, 4600 after 5200 is a  *)
(* regression (but 5200 after 4600 is not), and a repeated score is flat.       *)
EXTENDS EvolutionCampaign

MCEfsScores == {4600, 5200, 9500}
===============================================================================
