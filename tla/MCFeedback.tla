----------------------------- MODULE MCFeedback -----------------------------
(* Values for Feedback: a push and then a dashboard item for each notification. *)
EXTENDS Feedback, TLC

MCRoute == <<Phone, Feed>>
MCVoice == <<"voice">>
MCEnds == "voice" :> {"error"} @@ Phone :> {"sent"} @@ Feed :> {"sent"}
CONSTANTS n1, n2
MCCut == n1 :> n1 @@ n2 :> n1   \* n2 has a separator
MCSymmetry == Permutations(Answers)
=============================================================================
