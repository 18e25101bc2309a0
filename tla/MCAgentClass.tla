----------------------------- MODULE MCAgentClass -----------------------------
(* Each threshold of the class machine exactly, and one thousandth above the   *)
(* highest: a confidence must exceed its threshold.                            *)
EXTENDS AgentClass

MCVerdicts == [type : VerdictTypes, confidence : {650, 700, 800, 801},
               isSoulDriven : BOOLEAN, hasUnresolvedDA : BOOLEAN]
===============================================================================
