----------------------------- MODULE MCAdmission ---------------------------
(* Small instances of Admission: two equal requests with unequal windows,  *)
(* one of them with a cooldown of its own notification, and another one of *)
(* the same flow, of which one stamp is kept; or a request with a cooldown *)
(* of its flow, a forced one and a snooze of the flow.                     *)
EXTENDS Admission, TLC

CONSTANTS r1, r2, r3, r4, r5

MCFingerprint == r1 :> "x" @@ r2 :> "x" @@ r3 :> "y" @@ r4 :> "x" @@ r5 :> "y"
MCFlow == [r \in Requests |-> "f"]
MCForce == [r \in Requests |-> r = r5]
MCDedupWindow == r1 :> 2 @@ r2 :> 3 @@ r3 :> 1 @@ r4 :> 2 @@ r5 :> 1
MCCooldown == [r \in Requests |-> IF r \in {r2, r4, r5} THEN 2 ELSE 0]
MCHistory == [r \in Requests |-> IF r = r2 THEN "x" ELSE "f"]
MCStamps == [r \in Requests |-> {"f", MCFingerprint[r]}]
MCCasts == {{r1, r2, r3}, {r4, r5, "f"}}

\* Three equal requests, the second of a shorter window, and another one; and
\* nobody who snoozes.
MCAll == {Requests}
MCForceNot == [r \in Requests |-> FALSE]
MCNobody == {}
MCShorter == [r \in Requests |-> IF r \in {r2, r3} THEN 1 ELSE 3]
MCRepeats == [r \in Requests |-> IF r = r3 THEN "y" ELSE "x"]
MCCooldownNone == [r \in Requests |-> 0]
=============================================================================
