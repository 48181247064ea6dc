--------------------------- MODULE MCRuleRegistry ---------------------------
(* Values for RuleRegistry: an automation file that may be missing and that   *)
(* includes a package and a file of secrets, a file of scripts, a key, and    *)
(* texts that call it in all the ways that matter: literally, from two files, *)
(* through a selected-event route.  The automations with what they include    *)
(* and the scripts are a file more than a scan reads.                         *)
EXTENDS RuleRegistry

CONSTANTS automations, package, scripts, secrets, door, speaker, phone, c1,
    calls, other, route, absent, unknown, ask, nothing

MCFiles == {automations, package, scripts, secrets}
MCRoots == <<automations, scripts>>
MCAllowed == {automations, package, scripts}
MCContents == {calls, other, route}
MCReadable == MCContents
Call(k, ch, r) == [key |-> k, default |-> ch, dynamic |-> FALSE, request |-> r]
MCIncludes == [x \in MCContents |-> IF x = calls THEN <<package, secrets>> ELSE <<>>]
MCCalls == [x \in MCContents |->
    CASE x = calls -> <<Call(door, {speaker}, ask)>>
      [] OTHER -> <<Call(door, {phone}, ask)>>]
MCDynamic == {route}
MCRoute == [x \in MCContents |-> IF x = route THEN {phone} ELSE nothing]
MCCodes == [x \in MCContents |-> IF x = other THEN {door} ELSE {}]
MCKeys == {door}
MCChannels == {speaker, phone}
MCTypes == {"tts", "mobile_app"}
MCKind == [c \in MCChannels |-> IF c = speaker THEN "tts" ELSE "mobile_app"]
MCEdits == {[mode |-> "voice_only"]}
MCStored == [k \in MCKeys |-> [enabled |-> TRUE, mode |-> "custom", channels |-> {speaker}]]
Layout(a) == [f \in MCFiles |-> CASE f = automations -> a [] f = package -> route [] OTHER -> other]
MCLayouts == {Layout(calls), Layout(absent)}
=============================================================================
