------------------------------ MODULE Delivery ------------------------------
(***************************************************************************)
(* The way of one notification from the queue to its channels:             *)
(* async_process_notifications and _check_notification_rule of             *)
(* custom_components/herald/coordinator.py, apply_rule of policy_rules.py, *)
(* and async_route, _async_rule_channel_check, _async_send_channel and     *)
(* _async_send_tts of router.py.                                           *)
(*                                                                         *)
(* The delivery suspends for presence, AI, device preparation, synthesis   *)
(* and every service call; meanwhile people come and go, rooms fill and    *)
(* empty, quiet hours begin and end, and users turn silent.  What must not *)
(* be lost in between are the constraints of the rule that the event       *)
(* captured on admission.                                                  *)
(*                                                                         *)
(* Only what presence, quiet hours and audience decide of a channel is     *)
(* here.  Which of the admissible channels the static preferences (device, *)
(* room, severity, one local device per room) keep is left open, and so is *)
(* the order in which they are served.                                     *)
(***************************************************************************)
EXTENDS Integers, FiniteSets

CONSTANTS
    Users, Rooms, Channels,
    Nobody,           \* the owner of a channel that belongs to no user
    Kind,             \* Kind[c]: "mobile", "telegram", "tts", "tv", "hume" or "text"
    Owner,            \* Owner[c]: its user, or Nobody
    RoomOf,           \* RoomOf[c]: the room of a voice or TV channel
    Targets,          \* Targets[c]: how many TTS targets it tries
    Inherit,          \* the rule leaves the users, or the room, to the flow
    Cases,            \* requests with their captured rule and the configuration
    MaxChanges        \* bound on the changes of the world during the delivery

ASSUME ChannelsAssumption ==
    \A c \in Channels :
        /\ Kind[c] \in {"mobile", "telegram", "tts", "tv", "hume", "text"}
        /\ Owner[c] \in Users \cup {Nobody}
        /\ Targets[c] \in Nat \ {0}
        /\ Targets[c] > 1 => Kind[c] = "tts"
ASSUME NobodyAssumption == Nobody \notin Users
ASSUME InheritAssumption == Inherit \notin Rooms /\ \A S \in SUBSET Users : S # Inherit
ASSUME CasesAssumption ==
    \A k \in Cases :
        /\ k.audience \subseteq Users /\ (k.audience # {} => k.resolved)
        /\ k.silentProfiles \subseteq Users
        /\ {k.resolved, k.explicit, k.critical, k.bypass} \subseteq BOOLEAN
        /\ {k.nobodyEntity, k.occupiedRouting, k.awayOnly} \subseteq BOOLEAN
        /\ k.ruleUsers \in SUBSET Users \cup {Inherit}
        /\ k.ruleRoom \in Rooms \cup {Inherit}
        /\ k.rulePresence \in {"any", "someone_home", "nobody_home"}
        /\ k.ruleQuiet \in {"inherit", "text_only", "mute"}
ASSUME ChangesAssumption == MaxChanges \in Nat

Remote == {c \in Channels : Kind[c] \in {"mobile", "telegram"}}
Local == {c \in Channels : Kind[c] \in {"tts", "tv", "hume"}}

VARIABLES
    case,     \* the request, its captured rule and the configuration
    world,    \* what Home Assistant shows now
    ctx,      \* the context: its users and the policy_text_only mark
    seen,     \* the presence snapshot the router works with
    pc,       \* where the delivery is
    planned,  \* the channels async_route resolved
    channel,  \* the channel being served
    target,   \* which of its targets
    result,   \* result[c]: "none", "sent", "dropped" or "error"
    heard,    \* heard[c]: targets that played or showed it
    removed,  \* the users a check has taken out of the audience
    changes   \* how often the world has changed

outside == <<case, world, changes>>
progressVars == <<planned, channel, target, result, heard>>
vars == <<outside, ctx, seen, pc, progressVars, removed>>

\* The request.
Audience == case.audience              \* context.users and context.user on admission
AudienceResolved == case.resolved      \* somebody, or the request, has determined it
AudienceExplicit == case.explicit      \* the request named it
SilentProfiles == case.silentProfiles  \* the users who were silent on admission
Critical == case.critical              \* its level is critical or above
Bypass == case.bypass                  \* a channel test or a control message
ByDevice == case.byDevice              \* the mobile channels it names as its device

\* The captured rule.
RuleUsers == case.ruleUsers            \* its users, or Inherit
RuleRoom == case.ruleRoom              \* its target_room, or Inherit
RulePresence == case.rulePresence
RuleQuiet == case.ruleQuiet

\* The configuration.
QuietAllowed == case.quietAllowed      \* the channels allowed in quiet hours
AwayChannels == case.awayChannels      \* those configured for an empty home, {} for none
NobodyEntity == case.nobodyEntity      \* an entity of its own says that nobody is home
OccupiedRouting == case.occupiedRouting
AwayOnly == case.awayOnly              \* remote_channels_away_only

\* Presence: who is home; whether nobody is, by the entity that says so or else
\* because no one is; whether absence is confirmed by everybody's state.
Worlds ==
    {w \in [home : SUBSET Users, nobody : BOOLEAN, absent : BOOLEAN,
            occupied : SUBSET Rooms, quiet : BOOLEAN, silent : SUBSET Users] :
        /\ w.absent => NobodyEntity /\ w.nobody /\ w.home = {}
        /\ ~NobodyEntity => (w.nobody <=> w.home = {})
        /\ ~AudienceResolved => w.silent = {}}

Init ==
    /\ case \in Cases
    /\ world \in Worlds
    /\ ctx = [users |-> Audience, textOnly |-> FALSE]
    /\ seen = world
    /\ pc = "queued"
    /\ planned = {}
    /\ channel = Nobody
    /\ target = 0
    /\ result = [c \in Channels |-> "none"]
    /\ heard = [c \in Channels |-> 0]
    /\ removed = {}
    /\ changes = 0

-----------------------------------------------------------------------------
(* The rule.                                                               *)

\* has_rule_constraints.
HasRule == RuleUsers # Inherit \/ RuleRoom # Inherit \/ RulePresence # "any" \/ RuleQuiet # "inherit"

\* Whether async_route rechecks and guards each channel.
Refresh == HasRule \/ OccupiedRouting \/ AwayOnly

\* Mistaken variant: the selected users are looked up anew at every check.
NarrowedAnew(users, w) ==
    IF ~HasRule THEN users
    ELSE IF RuleUsers = Inherit THEN Audience \ w.silent
    ELSE (Audience \ w.silent) \cap RuleUsers

\* _check_notification_rule: silent users leave the audience, and apply_rule
\* keeps the selected ones; nobody is ever added.
Narrowed(users, w) ==
    IF ~HasRule THEN users
    ELSE IF RuleUsers = Inherit THEN users \ w.silent
    ELSE (users \ w.silent) \cap RuleUsers

CheckedContext(w) ==
    [users |-> Narrowed(ctx.users, w), textOnly |-> HasRule /\ w.quiet /\ RuleQuiet = "text_only"]

\* Mistaken variant: the rule's quiet hours count only on admission.
RuleBlocksQuietForgotten(w) ==
    /\ HasRule
    /\ \/ RuleUsers # Inherit /\ Narrowed(ctx.users, w) = {}
       \/ RulePresence = "someone_home" /\ w.nobody
       \/ RulePresence = "nobody_home" /\ ~w.nobody

\* The rule's answer: the event is blocked.
RuleBlocks(w) ==
    /\ HasRule
    /\ \/ RuleUsers # Inherit /\ Narrowed(ctx.users, w) = {}
       \/ RulePresence = "someone_home" /\ w.nobody
       \/ RulePresence = "nobody_home" /\ ~w.nobody
       \/ RuleQuiet = "mute" /\ w.quiet

\* The context as a check in world w leaves it.
Check(w) ==
    /\ ctx' = CheckedContext(w)
    /\ removed' = removed \cup (ctx.users \ ctx'.users)

-----------------------------------------------------------------------------
(* The channels.                                                           *)

\* _channel_matches_audience.
MatchesAudience(c, x, w) ==
    LET constrained == AudienceResolved \/ RuleUsers # Inherit \/ x.users # {}
        allowed == x.users \ SilentProfiles
    IN  \/ Bypass /\ ~HasRule
        \/ /\ Owner[c] # Nobody
           /\ HasRule /\ c \in Local => Owner[c] \in w.home
           /\ Owner[c] \notin SilentProfiles
           /\ constrained => Owner[c] \in allowed
        \/ /\ Owner[c] = Nobody
           /\ IF c \in Local /\ constrained
              THEN allowed \cap w.home # {}
              ELSE /\ Kind[c] = "mobile" => ~AudienceExplicit
                   /\ c \in Remote => RuleUsers = Inherit

\* Mistaken variant: away-only and occupied-room routing are left to the first
\* choice of the channels.
RejectedRule(c, x, w) ==
    \/ HasRule /\ c \in Local /\ (x.textOnly \/ w.nobody \/ (RuleRoom # Inherit /\ RoomOf[c] # RuleRoom))
    \/ HasRule /\ ~MatchesAudience(c, x, w)

\* _policy_channel_rejection.
Rejected(c, x, w) ==
    \/ c \in Remote /\ AwayOnly /\ ~w.absent
    \/ c \in Local /\ OccupiedRouting /\ RoomOf[c] \notin w.occupied
    \/ HasRule /\ c \in Local /\ (x.textOnly \/ w.nobody \/ (RuleRoom # Inherit /\ RoomOf[c] # RuleRoom))
    \/ HasRule /\ ~MatchesAudience(c, x, w)

\* _resolve_channel_names, up to the static preferences.
Admissible(x, w) ==
    {c \in Channels :
        /\ ~Rejected(c, x, w)
        /\ ~Bypass =>
            /\ MatchesAudience(c, x, w)
            /\ w.nobody => c \in (IF AwayChannels # {} THEN AwayChannels ELSE Channels \ Local)
            /\ w.quiet => Critical \/ c \in QuietAllowed
            /\ Kind[c] = "mobile" =>
                c \in ByDevice \/ w.nobody \/ (Owner[c] # Nobody /\ Owner[c] \notin w.home)}

-----------------------------------------------------------------------------
(* The delivery.                                                           *)

\* A stretch of the loop from the check of a channel to its transport: while
\* it lasts nothing else runs.
Uninterrupted == pc = "ready"

\* The set S with u put in or taken out.
Toggled(S, u) == IF u \in S THEN S \ {u} ELSE S \cup {u}

\* One thing outside changes; presence changes as a whole.
WorldChanges ==
    /\ ~Uninterrupted
    /\ changes < MaxChanges
    /\ changes' = changes + 1
    /\ \/ \E u \in Users, n, a \in BOOLEAN :
            world' = [world EXCEPT !.home = Toggled(@, u), !.nobody = n, !.absent = a]
       \/ \E n, a \in BOOLEAN : world' = [world EXCEPT !.nobody = n, !.absent = a]
       \/ \E u \in Users : world' = [world EXCEPT !.silent = Toggled(@, u)]
       \/ \E r \in Rooms : world' = [world EXCEPT !.occupied = Toggled(@, r)]
       \/ world' = [world EXCEPT !.quiet = ~@]
    /\ world' \in Worlds
    /\ UNCHANGED <<case, ctx, seen, pc, progressVars, removed>>

\* async_process_notifications checks the queued context again.
CheckQueued ==
    /\ pc = "queued"
    /\ Check(world)
    /\ pc' = IF RuleBlocks(world) THEN "dropped" ELSE "routing"
    /\ UNCHANGED <<outside, seen, progressVars>>

\* async_route up to its first channel: presence, rule, channel names.
StartRoute ==
    /\ pc = "routing"
    /\ Check(world)
    /\ seen' = world
    /\ IF RuleBlocks(world)
       THEN pc' = "dropped" /\ UNCHANGED planned
       ELSE pc' = "next" /\ planned' \in SUBSET Admissible(ctx', world)
    /\ UNCHANGED <<outside, channel, target, result, heard>>

\* Mistaken variant: the channel counts as sent also after an error.
FinishSent(c, r) ==
    /\ result' = [result EXCEPT ![c] = IF r = "error" THEN "sent" ELSE r]
    /\ pc' = "next"

\* The channel has its result.
Finish(c, r) ==
    /\ result' = [result EXCEPT ![c] = r]
    /\ pc' = "next"

\* The next channel is checked with fresh presence.  Under occupied-room
\* routing the text is rendered after the check, which suspends for the AI.
NextChannel ==
    /\ pc = "next"
    /\ \E c \in planned :
        /\ result[c] = "none"
        /\ channel' = c
        /\ target' = 1
        /\ IF Refresh
           THEN /\ Check(world)
                /\ seen' = world
                /\ \E routeKept \in BOOLEAN :
                     IF RuleBlocks(world) \/ ~routeKept \/ c \notin Admissible(ctx', world)
                     THEN Finish(c, "dropped")
                     ELSE pc' = (IF OccupiedRouting THEN "render" ELSE "ready") /\ UNCHANGED result
           ELSE pc' = "ready" /\ UNCHANGED <<ctx, removed, seen, result>>
    /\ UNCHANGED <<outside, planned, heard>>

\* async_rewrite_payload returns.
Rendered ==
    /\ pc = "render"
    /\ pc' = "ready"
    /\ UNCHANGED <<outside, ctx, seen, progressVars, removed>>

\* The transport call.
Call == pc' = "calling"

\* _async_send_channel.  Text channels are called at once; remote ones are
\* guarded first; local ones prepare (turn on, volume, synthesis) before the
\* guard.
SendChannel ==
    /\ pc = "ready"
    /\ \/ /\ Rejected(channel, ctx, seen)
          /\ Finish(channel, "dropped")
       \/ /\ ~Rejected(channel, ctx, seen)
          /\ IF channel \in Remote \cup Local THEN pc' = "guard" ELSE Call
          /\ UNCHANGED result
    /\ UNCHANGED <<outside, ctx, seen, planned, channel, target, heard, removed>>

\* before_send, immediately followed by the transport call.
GuardedCall ==
    /\ pc = "guard"
    /\ IF Refresh
       THEN /\ Check(world)
            /\ \E routeKept \in BOOLEAN :
                 IF RuleBlocks(world) \/ ~routeKept \/ channel \notin Admissible(ctx', world)
                 THEN Finish(channel, "dropped")
                 ELSE Call /\ UNCHANGED result
       ELSE Call /\ UNCHANGED <<ctx, removed, result>>
    /\ UNCHANGED <<outside, seen, planned, channel, target, heard>>

Played == heard' = [heard EXCEPT ![channel] = @ + 1]

\* The call succeeds.
CallSucceeds ==
    /\ pc = "calling"
    /\ Played
    /\ Finish(channel, "sent")
    /\ UNCHANGED <<outside, ctx, seen, planned, channel, target, removed>>

\* Mistaken variants: the fallback goes on past the last target; and it begins
\* again with the first.
CallFailsPastLast ==
    /\ pc \in {"guard", "calling"}
    /\ target' = target + 1
    /\ pc' = "guard"
    /\ UNCHANGED <<outside, ctx, seen, planned, channel, heard, removed, result>>
CallFailsRound ==
    /\ pc \in {"guard", "calling"}
    /\ target' = IF target < Targets[channel] THEN target + 1 ELSE 1
    /\ pc' = "guard"
    /\ UNCHANGED <<outside, ctx, seen, planned, channel, heard, removed, result>>

\* The call raises, or what comes before it: the next target is prepared, and
\* after the last one the channel has failed.
CallFails ==
    /\ pc \in {"guard", "calling"}
    /\ IF target < Targets[channel]
       THEN target' = target + 1 /\ pc' = "guard" /\ UNCHANGED result
       ELSE Finish(channel, "error") /\ UNCHANGED target
    /\ UNCHANGED <<outside, ctx, seen, planned, channel, heard, removed>>

\* Mistaken variant: a timeout is treated like a failure of the target.
CallTimesOutFallback ==
    /\ pc \in {"guard", "calling"}
    /\ (pc = "calling" /\ Played) \/ UNCHANGED heard
    /\ IF target < Targets[channel]
       THEN target' = target + 1 /\ pc' = "guard" /\ UNCHANGED result
       ELSE Finish(channel, "error") /\ UNCHANGED target
    /\ UNCHANGED <<outside, ctx, seen, planned, channel, removed>>

\* A call times out; the transport has played or not.  No other target is tried.
CallTimesOut ==
    /\ pc \in {"guard", "calling"}
    /\ (pc = "calling" /\ Played) \/ UNCHANGED heard
    /\ Finish(channel, "error")
    /\ UNCHANGED <<outside, ctx, seen, planned, channel, target, removed>>

\* Every channel has its result; _record_delivery.
EndRoute ==
    /\ pc = "next"
    /\ \A c \in planned : result[c] # "none"
    /\ pc' = "done"
    /\ UNCHANGED <<outside, ctx, seen, progressVars, removed>>

Step ==
    \/ CheckQueued
    \/ StartRoute
    \/ NextChannel
    \/ Rendered
    \/ SendChannel
    \/ GuardedCall
    \/ CallSucceeds
    \/ CallFails
    \/ CallTimesOut
    \/ EndRoute

Next == WorldChanges \/ Step

Spec == Init /\ [][Next]_vars

\* The event loop resumes the delivery, and every awaited call ends.
FairSpec == Spec /\ WF_vars(Step)

-----------------------------------------------------------------------------
(* Properties.                                                             *)

TypeOK ==
    /\ case \in Cases
    /\ world \in Worlds
    /\ seen \in Worlds
    /\ ctx \in [users : SUBSET Audience, textOnly : BOOLEAN]
    /\ pc \in {"queued", "routing", "next", "render", "ready", "guard", "calling", "dropped", "done"}
    /\ planned \subseteq Channels
    /\ pc \in {"render", "ready", "guard", "calling"} => channel \in planned /\ target \in 1..Targets[channel]
    /\ result \in [Channels -> {"none", "sent", "dropped", "error"}]
    /\ heard \in [Channels -> Nat]
    /\ removed \subseteq Audience
    /\ changes \in 0..MaxChanges

Called(c) == pc # "calling" /\ pc' = "calling" /\ channel = c

\* "Captured constraints are checked again ... after AI processing before
\* transport calls, with fresh presence, quiet hours and user silence."  What
\* that allows for a channel in the present state of the home:
Permitted(c) ==
    /\ RulePresence = "someone_home" => ~world.nobody
    /\ RulePresence = "nobody_home" => world.nobody
    /\ RuleQuiet = "mute" => ~world.quiet
    /\ HasRule => Owner[c] \notin world.silent
    /\ RuleUsers # Inherit => (RuleUsers \cap Audience) \ world.silent # {}
    /\ RuleUsers # Inherit /\ Owner[c] # Nobody => Owner[c] \in RuleUsers
    /\ c \in Local =>
        /\ RuleQuiet = "text_only" => ~world.quiet
        /\ RuleRoom # Inherit => RoomOf[c] = RuleRoom
        /\ HasRule => ~world.nobody
        /\ OccupiedRouting => RoomOf[c] \in world.occupied
    /\ c \in Remote /\ AwayOnly => world.absent

\* A remote, voice or TV transport is called only in a state that permits it,
\* also for a fallback target and after preparation or synthesis.
GuardedPermitted == [][\A c \in Remote \cup Local : Called(c) => Permitted(c)]_vars

\* The same for text channels: dashboard, persistent notification, logs; as far as
\* no AI is asked between their check and their call.
TextPermittedUnrendered ==
    [][\A c \in Channels \ (Remote \cup Local) : Called(c) /\ ~OccupiedRouting => Permitted(c)]_vars

\* The same without exception.
TextPermitted == [][\A c \in Channels \ (Remote \cup Local) : Called(c) => Permitted(c)]_vars

\* "Repeated calls cannot resurrect recipients": the audience only shrinks,
\* and a user who was taken out of it, be it for a moment of silence, gets
\* nothing any more.
NoResurrection ==
    [][/\ ctx'.users \subseteq ctx.users
       /\ \A c \in Channels : Called(c) => Owner[c] \notin removed']_vars

\* "Do not duplicate speech on another device": at most one target of a
\* channel speaks, and none after it.
SpokenOnce ==
    /\ \A c \in Channels : heard[c] <= 1
    /\ pc \in {"guard", "calling"} => heard[channel] = 0

\* The results tell the truth: what is reported sent was played, and what was
\* dropped was not; only an error leaves it open.
ResultsHonest ==
    \A c \in Channels :
        /\ result[c] = "sent" => heard[c] = 1
        /\ result[c] = "dropped" => heard[c] = 0
        /\ result[c] # "none" => c \in planned

\* The delivery comes to an end, with a result for every planned channel.
Ends == <>(pc = "dropped" \/ (pc = "done" /\ \A c \in planned : result[c] # "none"))
=============================================================================
