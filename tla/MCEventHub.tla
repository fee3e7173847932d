------------------------------ MODULE MCEventHub ------------------------------
(* Instantiates EventHub for TLC: four events over two worlds and two      *)
(* stages, a two-slot channel so that a receiver can fall behind, and two  *)
(* SSE clients.                                                             *)
EXTENDS EventHub, TLC

CONSTANTS w1, w2, sWA, sWF

MCEventWorld == <<w1, w2, w1, w1>>
MCEventStage == <<sWF, sWF, sWA, sWF>>

\* No filter, a world filter, and a world-and-stage filter.
MCQueries == {[world |-> None, stage |-> None],
              [world |-> w1, stage |-> None],
              [world |-> w1, stage |-> sWF]}
=============================================================================
