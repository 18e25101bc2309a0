----------------------------- MODULE CampaignLoop -----------------------------
(* What an evolution campaign promises, without saying how: iterations run one *)
(* at a time and in order, the next one starts only when the last one has been *)
(* scored and the campaign goes on, never more than the maximum start, and     *)
(* none starts once a halt criterion has been met.  The design notes of the    *)
(* schema (evolution-campaigns.ts) and of the hook say as much.                *)
EXTENDS Naturals

CONSTANT MaxIterations

VARIABLES
    started,   \* iterations started so far
    scored,    \* iterations scored so far
    stopped    \* a halt criterion has been met

loopVars == <<started, scored, stopped>>

Init == started = 1 /\ scored = 0 /\ stopped = FALSE

Score == /\ scored < started
         /\ scored' = scored + 1
         /\ UNCHANGED <<started, stopped>>

Start == /\ ~ stopped /\ scored = started /\ started < MaxIterations
         /\ started' = started + 1
         /\ UNCHANGED <<scored, stopped>>

Stop  == /\ stopped' = TRUE
         /\ UNCHANGED <<started, scored>>

Next == Score \/ Start \/ Stop

Spec == Init /\ [][Next]_loopVars
===============================================================================
