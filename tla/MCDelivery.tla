----------------------------- MODULE MCDelivery -----------------------------
(* Small instances of Delivery: a phone, a speaker with two targets and a  *)
(* text channel, for two users and one room.                               *)
EXTENDS Delivery, TLC

CONSTANTS u1, u2, kitchen, phone, speaker, text

MCKind == phone :> "mobile" @@ speaker :> "tts" @@ text :> "text"
MCOwner == phone :> u1 @@ speaker :> Nobody @@ text :> Nobody
MCRoomOf == phone :> kitchen @@ speaker :> kitchen @@ text :> kitchen
MCTargets == phone :> 1 @@ speaker :> 2 @@ text :> 1

\* Both users, text only in quiet hours; an entity says that nobody is home.
TextOnlyCase ==
    [audience |-> {u1, u2}, resolved |-> TRUE, explicit |-> FALSE, silentProfiles |-> {},
     critical |-> TRUE, bypass |-> FALSE, byDevice |-> {phone},
     ruleUsers |-> Inherit, ruleRoom |-> Inherit, rulePresence |-> "any", ruleQuiet |-> "text_only",
     quietAllowed |-> {phone, text}, awayChannels |-> {}, nobodyEntity |-> TRUE,
     occupiedRouting |-> FALSE, awayOnly |-> FALSE]

\* One selected user, mute in quiet hours, remote channels only when away.
SelectedCase ==
    [TextOnlyCase EXCEPT !.ruleUsers = {u1}, !.ruleQuiet = "mute", !.awayOnly = TRUE]

\* Somebody has to be home; voice in occupied rooms only.
OccupiedCase ==
    [TextOnlyCase EXCEPT !.rulePresence = "someone_home", !.ruleQuiet = "inherit",
                         !.byDevice = {}, !.occupiedRouting = TRUE]

MCCases == {TextOnlyCase, SelectedCase}
           \cup {[k EXCEPT !.nobodyEntity = FALSE] : k \in {TextOnlyCase, OccupiedCase}}
MCCasesOccupied == {OccupiedCase}
=============================================================================
