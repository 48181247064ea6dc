----------------------------- MODULE MCControls -----------------------------
(***************************************************************************)
(* Small instances of Controls: the level of a discovered channel, the     *)
(* cooldown of a flow, and the switch of AI.                               *)
(***************************************************************************)
EXTENDS Controls

CONSTANTS level, cooldown, ai, On

MCDefault == [s \in Settings |-> On]
MCNothing == [s \in Settings |-> None]
MCLegacy == [MCNothing EXCEPT ![ai] = On]
MCYamlFiles == {MCNothing, [MCNothing EXCEPT ![cooldown] = Off, ![ai] = Off]}
MCOptions == {MCNothing, [MCNothing EXCEPT ![cooldown] = On]}
MCStores == {MCNothing, [MCNothing EXCEPT ![level] = Off, ![ai] = On], [s \in Settings |-> Off]}
=============================================================================
