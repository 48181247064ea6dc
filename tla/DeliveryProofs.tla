--------------------------- MODULE DeliveryProofs ---------------------------
(***************************************************************************)
(* Proofs about Delivery for every set of users, rooms and channels, every *)
(* rule and configuration, and every course of the world.                  *)
(***************************************************************************)
EXTENDS Delivery, TLAPS

-----------------------------------------------------------------------------
(* The inductive invariant.                                                *)

Underway == pc \in {"render", "ready", "guard", "calling"}

Unrouted == pc \in {"queued", "routing"}

\* What has a result is over, what has none has not been heard.
Outcomes ==
    /\ Unrouted => \A c \in Channels : result[c] = "none"
    /\ \A c \in Channels : heard[c] <= 1 /\ (result[c] = "none" => heard[c] = 0)
    /\ Underway => result[channel] = "none"

\* Users who were taken out are out, and nothing is on its way to them.
RemovedAreOut ==
    /\ removed \cap ctx.users = {}
    /\ ~HasRule => removed = {}
    /\ Underway => Owner[channel] \notin removed

\* From its check to its transport nothing runs that could make the rule forbid
\* a channel, unless the text is rendered in between.
ReadyPermitted ==
    /\ pc = "ready" /\ ~OccupiedRouting => Permitted(channel)
    /\ pc = "render" => OccupiedRouting

IInv == TypeOK /\ Outcomes /\ ResultsHonest /\ RemovedAreOut /\ ReadyPermitted

-----------------------------------------------------------------------------
(* The rule.                                                               *)

\* The request, its rule and the configuration are what they were.
LEMMA CaseKept ==
    ASSUME case' = case
    PROVE  /\ Audience' = Audience /\ HasRule' = HasRule /\ Worlds' = Worlds
           /\ OccupiedRouting' = OccupiedRouting /\ Refresh' = Refresh
<1>1. Worlds' = Worlds
  BY DEF Worlds, NobodyEntity, AudienceResolved
<1>. QED
  BY <1>1 DEF Audience, HasRule, RuleUsers, RuleRoom, RulePresence, RuleQuiet, Refresh, OccupiedRouting, AwayOnly

\* The audience only shrinks.
LEMMA NarrowedWithin ==
    ASSUME NEW users, NEW w
    PROVE  Narrowed(users, w) \subseteq users
  BY DEF Narrowed

LEMMA CheckType ==
    ASSUME TypeOK, case' = case, NEW w \in Worlds, Check(w)
    PROVE  /\ ctx' \in [users : SUBSET Audience, textOnly : BOOLEAN]
           /\ removed' \subseteq Audience
           /\ ctx'.users = Narrowed(ctx.users, w)
<1>1. w.quiet \in BOOLEAN
  BY DEF Worlds
<1>2. ctx' = [users |-> Narrowed(ctx.users, w), textOnly |-> HasRule /\ w.quiet /\ RuleQuiet = "text_only"]
  BY DEF Check, CheckedContext
<1>3. (HasRule /\ w.quiet /\ RuleQuiet = "text_only") \in BOOLEAN
  BY <1>1
<1>4. Narrowed(ctx.users, w) \subseteq Audience
  BY NarrowedWithin DEF TypeOK
<1>5. ctx'.users = Narrowed(ctx.users, w)
  BY <1>2
<1>6. removed' \subseteq Audience
  BY DEF Check, TypeOK
<1>. QED
  BY <1>2, <1>3, <1>4, <1>5, <1>6

-----------------------------------------------------------------------------
(* Types.                                                                  *)

LEMMA FinishType ==
    ASSUME TypeOK, NEW c \in Channels, NEW r \in {"sent", "dropped", "error"}, Finish(c, r)
    PROVE  /\ result' \in [Channels -> {"none", "sent", "dropped", "error"}]
           /\ pc' = "next"
  BY DEF Finish, TypeOK

LEMMA PlayedType ==
    ASSUME TypeOK, channel \in Channels, Played
    PROVE  heard' \in [Channels -> Nat]
  BY DEF TypeOK, Played

LEMMA StepType ==
    ASSUME TypeOK, [Next]_vars
    PROVE  TypeOK'
<1>1. CASE UNCHANGED vars
  BY <1>1, CaseKept DEF TypeOK, vars, outside, progressVars
<1>2. CASE WorldChanges
  <2>1. case' = case /\ UNCHANGED <<ctx, seen, pc, planned, channel, target, result, heard, removed>>
    BY <1>2 DEF WorldChanges, progressVars
  <2>2. world' \in Worlds
    BY <1>2, <2>1, CaseKept DEF WorldChanges
  <2>3. changes' \in 0..MaxChanges
    <3>1. changes < MaxChanges /\ changes' = changes + 1
      BY <1>2 DEF WorldChanges
    <3>. QED
      BY <3>1, ChangesAssumption DEF TypeOK
  <2>. QED
    BY <2>1, <2>2, <2>3, CaseKept DEF TypeOK
<1>3. CASE CheckQueued
  <2>1. UNCHANGED <<case, world, changes, seen, planned, channel, target, result, heard>>
    BY <1>3 DEF CheckQueued, outside, progressVars
  <2>2. ctx' \in [users : SUBSET Audience, textOnly : BOOLEAN] /\ removed' \subseteq Audience
    BY <1>3, <2>1, CheckType DEF CheckQueued, TypeOK
  <2>3. pc' \in {"dropped", "routing"}
    BY <1>3 DEF CheckQueued
  <2>. QED
    BY <2>1, <2>2, <2>3, CaseKept DEF TypeOK
<1>4. CASE StartRoute
  <2>1. UNCHANGED <<case, world, changes, channel, target, result, heard>> /\ seen' = world
    BY <1>4 DEF StartRoute, outside
  <2>2. ctx' \in [users : SUBSET Audience, textOnly : BOOLEAN] /\ removed' \subseteq Audience
    BY <1>4, <2>1, CheckType DEF StartRoute, TypeOK
  <2>3. pc' \in {"dropped", "next"} /\ planned' \subseteq Channels
    BY <1>4 DEF StartRoute, Admissible, TypeOK
  <2>. QED
    BY <2>1, <2>2, <2>3, CaseKept DEF TypeOK
<1>5. CASE NextChannel
  <2>1. UNCHANGED <<case, world, changes, planned, heard>> /\ target' = 1
    BY <1>5 DEF NextChannel, outside
  <2>2. channel' \in planned /\ channel' \in Channels /\ 1 \in 1..Targets[channel']
    BY <1>5, ChannelsAssumption DEF NextChannel, TypeOK
  <2>3. /\ ctx' \in [users : SUBSET Audience, textOnly : BOOLEAN]
        /\ removed' \subseteq Audience /\ seen' \in Worlds
    <3>1. CASE Refresh
      BY <1>5, <2>1, <3>1, CheckType DEF NextChannel, TypeOK
    <3>2. CASE ~Refresh
      BY <1>5, <3>2 DEF NextChannel, TypeOK
    <3>. QED
      BY <3>1, <3>2
  <2>4. \/ Finish(channel', "dropped")
        \/ pc' \in {"render", "ready"} /\ UNCHANGED result
    BY <1>5 DEF NextChannel
  <2>5. /\ result' \in [Channels -> {"none", "sent", "dropped", "error"}]
        /\ pc' \in {"next", "render", "ready"}
    <3>1. CASE Finish(channel', "dropped")
      BY <2>2, <3>1, FinishType
    <3>2. CASE pc' \in {"render", "ready"} /\ UNCHANGED result
      BY <3>2 DEF TypeOK
    <3>. QED
      BY <2>4, <3>1, <3>2
  <2>. QED
    BY <2>1, <2>2, <2>3, <2>5, CaseKept DEF TypeOK
<1>6. CASE Rendered
  BY <1>6, CaseKept DEF TypeOK, Rendered, outside, progressVars
<1>7. CASE SendChannel
  <2>1. UNCHANGED <<case, world, changes, ctx, seen, planned, channel, target, heard, removed>>
    BY <1>7 DEF SendChannel, outside
  <2>2. channel \in planned /\ channel \in Channels /\ target \in 1..Targets[channel]
    BY <1>7 DEF SendChannel, TypeOK
  <2>3. Finish(channel, "dropped") \/ (pc' \in {"guard", "calling"} /\ UNCHANGED result)
    BY <1>7 DEF SendChannel, Call
  <2>4. CASE Finish(channel, "dropped")
    BY <2>1, <2>2, <2>4, FinishType, CaseKept DEF TypeOK
  <2>5. CASE pc' \in {"guard", "calling"} /\ UNCHANGED result
    BY <2>1, <2>2, <2>5, CaseKept DEF TypeOK
  <2>. QED
    BY <2>3, <2>4, <2>5
<1>8. CASE GuardedCall
  <2>1. UNCHANGED <<case, world, changes, seen, planned, channel, target, heard>>
    BY <1>8 DEF GuardedCall, outside
  <2>2. channel \in planned /\ channel \in Channels /\ target \in 1..Targets[channel]
    BY <1>8 DEF GuardedCall, TypeOK
  <2>3. ctx' \in [users : SUBSET Audience, textOnly : BOOLEAN] /\ removed' \subseteq Audience
    <3>1. CASE Refresh
      BY <1>8, <2>1, <3>1, CheckType DEF GuardedCall, TypeOK
    <3>2. CASE ~Refresh
      BY <1>8, <3>2 DEF GuardedCall, TypeOK
    <3>. QED
      BY <3>1, <3>2
  <2>4. Finish(channel, "dropped") \/ (pc' = "calling" /\ UNCHANGED result)
    BY <1>8 DEF GuardedCall, Call
  <2>5. CASE Finish(channel, "dropped")
    BY <2>1, <2>2, <2>3, <2>5, FinishType, CaseKept DEF TypeOK
  <2>6. CASE pc' = "calling" /\ UNCHANGED result
    BY <2>1, <2>2, <2>3, <2>6, CaseKept DEF TypeOK
  <2>. QED
    BY <2>4, <2>5, <2>6
<1>9. CASE CallSucceeds
  <2>1. UNCHANGED <<case, world, changes, ctx, seen, planned, channel, target, removed>>
    BY <1>9 DEF CallSucceeds, outside
  <2>2. channel \in Channels /\ Played /\ Finish(channel, "sent")
    BY <1>9 DEF CallSucceeds, TypeOK
  <2>. QED
    BY <2>1, <2>2, PlayedType, FinishType, CaseKept DEF TypeOK
<1>10. CASE CallFails
  <2>1. UNCHANGED <<case, world, changes, ctx, seen, planned, channel, heard, removed>>
    BY <1>10 DEF CallFails, outside
  <2>2. channel \in planned /\ channel \in Channels /\ target \in 1..Targets[channel]
    BY <1>10 DEF CallFails, TypeOK
  <2>3. CASE target < Targets[channel]
    <3>1. target' \in 1..Targets[channel] /\ pc' = "guard" /\ UNCHANGED result
      BY <1>10, <2>2, <2>3, ChannelsAssumption DEF CallFails
    <3>. QED
      BY <2>1, <2>2, <3>1, CaseKept DEF TypeOK
  <2>4. CASE Finish(channel, "error") /\ UNCHANGED target
    BY <2>1, <2>2, <2>4, FinishType, CaseKept DEF TypeOK
  <2>. QED
    BY <1>10, <2>3, <2>4 DEF CallFails
<1>11. CASE CallTimesOut
  <2>1. UNCHANGED <<case, world, changes, ctx, seen, planned, channel, target, removed>>
    BY <1>11 DEF CallTimesOut, outside
  <2>2. channel \in Channels /\ Finish(channel, "error")
    BY <1>11 DEF CallTimesOut, TypeOK
  <2>3. heard' \in [Channels -> Nat]
    BY <1>11, <2>2, PlayedType DEF CallTimesOut, TypeOK
  <2>. QED
    BY <2>1, <2>2, <2>3, FinishType, CaseKept DEF TypeOK
<1>12. CASE EndRoute
  BY <1>12, CaseKept DEF TypeOK, EndRoute, outside, progressVars
<1>. QED
  BY <1>1, <1>2, <1>3, <1>4, <1>5, <1>6, <1>7, <1>8, <1>9, <1>10, <1>11, <1>12 DEF Next, Step

LEMMA InitType == ASSUME Init PROVE TypeOK
  BY ChangesAssumption, CasesAssumption DEF Init, TypeOK, Audience

\* Every variable keeps its type, the audience is part of the one on admission
\* and no target after the last is tried.
THEOREM TypeCorrect == Spec => []TypeOK
<1>1. Init => TypeOK
  BY InitType
<1>2. TypeOK /\ [Next]_vars => TypeOK'
  BY StepType
<1>. QED
  BY <1>1, <1>2, PTL DEF Spec

-----------------------------------------------------------------------------
(* What is heard, and what is reported.                                    *)

\* A finished channel has its result for good.
LEMMA FinishOutcomes ==
    ASSUME TypeOK, Outcomes, ResultsHonest, UNCHANGED planned,
           NEW c \in planned, result[c] = "none",
           NEW r \in {"sent", "dropped", "error"}, Finish(c, r),
           NEW n \in {0, 1}, heard' = [heard EXCEPT ![c] = n],
           r = "sent" => n = 1, r = "dropped" => n = 0
    PROVE  Outcomes' /\ ResultsHonest'
<1>1. c \in Channels /\ pc' = "next" /\ result' = [result EXCEPT ![c] = r]
  BY DEF TypeOK, Finish
<1>2. Outcomes'
  BY <1>1 DEF TypeOK, Outcomes, Underway, Unrouted
<1>3. ResultsHonest'
  BY <1>1 DEF TypeOK, ResultsHonest
<1>. QED
  BY <1>2, <1>3

\* A channel that is served has not been heard; it is heard at most once.
LEMMA HeardFacts ==
    ASSUME TypeOK, Outcomes, Underway
    PROVE  /\ channel \in planned /\ channel \in Channels
           /\ result[channel] = "none" /\ heard[channel] = 0
           /\ heard = [heard EXCEPT ![channel] = 0]
           /\ Played => heard' = [heard EXCEPT ![channel] = 1]
<1>1. channel \in planned /\ channel \in Channels
  BY DEF TypeOK, Underway
<1>2. result[channel] = "none" /\ heard[channel] = 0
  BY <1>1 DEF Outcomes
<1>. QED
  BY <1>1, <1>2 DEF TypeOK, Played

LEMMA StepOutcomes ==
    ASSUME TypeOK, Outcomes, ResultsHonest, [Next]_vars
    PROVE  Outcomes' /\ ResultsHonest'
<1>1. CASE UNCHANGED <<result, heard, planned, channel>> /\ (Underway' => Underway) /\ (Unrouted' => Unrouted)
  BY <1>1 DEF Outcomes, ResultsHonest
<1>2. CASE UNCHANGED vars \/ WorldChanges \/ CheckQueued \/ Rendered \/ EndRoute
  <2>1. UNCHANGED <<result, heard, planned, channel>>
    BY <1>2 DEF vars, progressVars, WorldChanges, CheckQueued, Rendered, EndRoute
  <2>2. (Underway' => Underway) /\ (Unrouted' => Unrouted)
    BY <1>2 DEF Underway, Unrouted, vars, WorldChanges, CheckQueued, Rendered, EndRoute
  <2>. QED
    BY <1>1, <2>1, <2>2
<1>3. CASE StartRoute
  <2>1. UNCHANGED <<result, heard>> /\ pc' \in {"dropped", "next"} /\ pc = "routing"
    BY <1>3 DEF StartRoute
  <2>. QED
    BY <2>1 DEF Outcomes, ResultsHonest, Underway, Unrouted
<1>4. CASE NextChannel
  <2>1. PICK c \in planned : /\ result[c] = "none" /\ channel' = c
                             /\ \/ Finish(c, "dropped")
                                \/ UNCHANGED result
    BY <1>4 DEF NextChannel
  <2>2. UNCHANGED <<planned, heard>> /\ c \in Channels
    BY <1>4 DEF NextChannel, TypeOK
  <2>3. CASE Finish(c, "dropped")
    <3>1. heard[c] = 0
      BY <2>1, <2>2 DEF Outcomes
    <3>2. heard' = [heard EXCEPT ![c] = 0]
      BY <2>2, <3>1 DEF TypeOK
    <3>. QED
      BY <2>1, <2>2, <2>3, <3>2, FinishOutcomes
  <2>4. CASE UNCHANGED result
    <3>1. ~Unrouted'
      BY <1>4 DEF NextChannel, Finish, Unrouted
    <3>. QED
      BY <2>1, <2>2, <2>4, <3>1 DEF Outcomes, ResultsHonest
  <2>. QED
    BY <2>1, <2>3, <2>4
<1>5. CASE SendChannel \/ GuardedCall
  <2>1. Underway /\ UNCHANGED <<planned, channel, heard>>
    BY <1>5 DEF SendChannel, GuardedCall, Underway
  <2>2. (Finish(channel, "dropped") \/ UNCHANGED result) /\ ~Unrouted'
    BY <1>5 DEF SendChannel, GuardedCall, Finish, Call, Unrouted
  <2>3. CASE Finish(channel, "dropped")
    BY <2>1, <2>3, HeardFacts, FinishOutcomes
  <2>4. CASE UNCHANGED result
    BY <1>1, <2>1, <2>2, <2>4
  <2>. QED
    BY <2>2, <2>3, <2>4
<1>6. CASE CallSucceeds
  <2>1. Underway /\ UNCHANGED planned /\ Played /\ Finish(channel, "sent")
    BY <1>6 DEF CallSucceeds, Underway
  <2>. QED
    BY <2>1, HeardFacts, FinishOutcomes
<1>7. CASE CallFails
  <2>1. Underway /\ UNCHANGED <<planned, channel, heard>> /\ ~Unrouted'
    BY <1>7 DEF CallFails, Underway, Finish, Unrouted
  <2>2. CASE UNCHANGED result
    BY <1>1, <2>1, <2>2
  <2>3. CASE Finish(channel, "error")
    BY <2>1, <2>3, HeardFacts, FinishOutcomes
  <2>. QED
    BY <1>7, <2>2, <2>3 DEF CallFails
<1>8. CASE CallTimesOut
  <2>1. Underway /\ UNCHANGED planned /\ Finish(channel, "error")
    BY <1>8 DEF CallTimesOut, Underway
  <2>2. Played \/ UNCHANGED heard
    BY <1>8 DEF CallTimesOut
  <2>. QED
    BY <2>1, <2>2, HeardFacts, FinishOutcomes
<1>. QED
  BY <1>2, <1>3, <1>4, <1>5, <1>6, <1>7, <1>8 DEF Next, Step

LEMMA InitOutcomes == ASSUME Init PROVE Outcomes /\ ResultsHonest
  BY DEF Init, Outcomes, ResultsHonest, Underway, Unrouted

\* At most one target of a channel speaks, and none is tried after it: also
\* when a call that has played times out.
THEOREM SpokenOnceAlways == Spec => []SpokenOnce
<1>1. Init => TypeOK /\ Outcomes /\ ResultsHonest
  BY InitType, InitOutcomes
<1>2. TypeOK /\ Outcomes /\ ResultsHonest /\ [Next]_vars => (TypeOK /\ Outcomes /\ ResultsHonest)'
  BY StepType, StepOutcomes
<1>3. TypeOK /\ Outcomes => SpokenOnce
  <2>1. ASSUME TypeOK, Outcomes, pc \in {"guard", "calling"} PROVE heard[channel] = 0
    BY <2>1, HeardFacts DEF Underway
  <2>. QED
    BY <2>1 DEF SpokenOnce, Outcomes
<1>. QED
  BY <1>1, <1>2, <1>3, PTL DEF Spec

\* What is reported sent was played, what is reported dropped was not, and only
\* planned channels are reported.
THEOREM ResultsAlwaysHonest == Spec => []ResultsHonest
<1>1. Init => TypeOK /\ Outcomes /\ ResultsHonest
  BY InitType, InitOutcomes
<1>2. TypeOK /\ Outcomes /\ ResultsHonest /\ [Next]_vars => (TypeOK /\ Outcomes /\ ResultsHonest)'
  BY StepType, StepOutcomes
<1>. QED
  BY <1>1, <1>2, PTL DEF Spec

-----------------------------------------------------------------------------
(* What a check in the present world permits.                              *)

\* The owner of a channel that the audience admits is in what is left of the
\* audience, unless there is no person at all.
LEMMA OwnerServed ==
    ASSUME TypeOK, NEW x, NEW c \in Channels, HasRule, MatchesAudience(c, x, world),
           Owner[c] # Nobody
    PROVE  \/ Owner[c] \in x.users
           \/ Audience = {} /\ RuleUsers = Inherit /\ world.silent = {}
<1>1. CASE AudienceResolved \/ RuleUsers # Inherit \/ x.users # {}
  BY <1>1 DEF MatchesAudience
<1>2. CASE ~AudienceResolved /\ RuleUsers = Inherit
  <2>1. world.silent = {}
    BY <1>2 DEF TypeOK, Worlds
  <2>2. Audience = {}
    BY <1>2, CasesAssumption DEF TypeOK, Audience, AudienceResolved
  <2>. QED
    BY <1>2, <2>1, <2>2
<1>. QED
  BY <1>1, <1>2

\* The check moves users from the audience to the removed.
LEMMA CheckRemoved ==
    ASSUME TypeOK, case' = case, NEW w \in Worlds, Check(w),
           removed \cap ctx.users = {}, ~HasRule => removed = {}
    PROVE  removed' \cap ctx'.users = {} /\ (~HasRule => removed' = {})
<1>1. ctx'.users = Narrowed(ctx.users, w) /\ removed' = removed \cup (ctx.users \ ctx'.users)
  BY CheckType DEF Check
<1>2. ~HasRule => ctx'.users = ctx.users
  BY <1>1 DEF Narrowed
<1>. QED
  BY <1>1, <1>2, NarrowedWithin

\* A channel that a check in the present world admits is permitted, and its owner
\* has not been taken out of the audience.
LEMMA CheckedPermitted ==
    ASSUME TypeOK, RemovedAreOut, case' = case, Check(world), ~RuleBlocks(world),
           NEW c \in Channels, c \in Admissible(ctx', world)
    PROVE  Permitted(c) /\ Owner[c] \notin removed'
<1>1. ~Rejected(c, ctx', world)
  BY DEF Admissible
<1>2. ctx'.users = Narrowed(ctx.users, world) /\ removed' \subseteq Audience
  BY CheckType DEF TypeOK
<1>3. removed' \cap ctx'.users = {} /\ (~HasRule => removed' = {})
  BY CheckRemoved DEF TypeOK, RemovedAreOut
<1>4. HasRule => MatchesAudience(c, ctx', world)
  BY <1>1 DEF Rejected
<1>5. Nobody \notin removed' /\ Nobody \notin world.silent
  BY <1>2, CasesAssumption, NobodyAssumption DEF TypeOK, Worlds, Audience
<1>6. CASE ~HasRule
  <2>1. RuleUsers = Inherit /\ RuleRoom = Inherit /\ RulePresence = "any" /\ RuleQuiet = "inherit"
    BY <1>6 DEF HasRule
  <2>2. Permitted(c)
    BY <1>1, <1>6, <2>1 DEF Permitted, Rejected
  <2>. QED
    BY <1>3, <1>6, <2>2
<1>7. CASE HasRule
  <2>1. /\ RuleUsers # Inherit => Narrowed(ctx.users, world) # {}
        /\ RulePresence = "someone_home" => ~world.nobody
        /\ RulePresence = "nobody_home" => world.nobody
        /\ RuleQuiet = "mute" => ~world.quiet
    BY <1>7 DEF RuleBlocks
  <2>2. ctx'.users \cap world.silent = {} /\ (RuleUsers # Inherit => ctx'.users \subseteq RuleUsers)
    BY <1>2, <1>7 DEF Narrowed
  <2>3. ctx'.users \subseteq Audience
    BY CheckType DEF TypeOK
  <2>4. RuleUsers # Inherit => (RuleUsers \cap Audience) \ world.silent # {}
    BY <1>2, <2>1, <2>2, <2>3
  <2>5. Owner[c] = Nobody \/ Owner[c] \in ctx'.users \/ (Audience = {} /\ RuleUsers = Inherit /\ world.silent = {})
    BY <1>4, <1>7, OwnerServed
  <2>6. Owner[c] \notin removed' /\ Owner[c] \notin world.silent
    BY <1>2, <1>3, <1>5, <2>2, <2>5
  <2>7. RuleUsers # Inherit /\ Owner[c] # Nobody => Owner[c] \in RuleUsers
    BY <2>2, <2>5
  <2>8. c \in Local /\ RuleQuiet = "text_only" => ~world.quiet
    <3>1. ctx'.textOnly = (HasRule /\ world.quiet /\ RuleQuiet = "text_only")
      BY DEF Check, CheckedContext
    <3>2. c \in Local => ~ctx'.textOnly
      BY <1>1, <1>7 DEF Rejected
    <3>. QED
      BY <1>7, <3>1, <3>2
  <2>9. /\ c \in Local => /\ ~world.nobody
                          /\ RuleRoom # Inherit => RoomOf[c] = RuleRoom
                          /\ OccupiedRouting => RoomOf[c] \in world.occupied
        /\ c \in Remote /\ AwayOnly => world.absent
    BY <1>1, <1>7 DEF Rejected
  <2>10. Permitted(c)
    BY <2>1, <2>4, <2>6, <2>7, <2>8, <2>9 DEF Permitted
  <2>. QED
    BY <2>6, <2>10
<1>. QED
  BY <1>6, <1>7

\* Where nothing is rechecked nothing is forbidden.
LEMMA UnruledPermitted ==
    ASSUME ~Refresh, NEW c
    PROVE  Permitted(c) /\ ~HasRule
  BY DEF Permitted, Refresh, HasRule

LEMMA PermittedLater ==
    ASSUME case' = case, world' = world, NEW c, channel' = c, Permitted(c)
    PROVE  Permitted(channel)'
<1>1. HasRule' = HasRule /\ Audience' = Audience /\ OccupiedRouting' = OccupiedRouting
  BY CaseKept
<1>2. RuleUsers' = RuleUsers /\ RuleRoom' = RuleRoom /\ RulePresence' = RulePresence
      /\ RuleQuiet' = RuleQuiet /\ AwayOnly' = AwayOnly
  BY DEF RuleUsers, RuleRoom, RulePresence, RuleQuiet, AwayOnly
<1>. QED
  BY <1>1, <1>2 DEF Permitted

-----------------------------------------------------------------------------
(* The steps.                                                              *)

\* The check of the next channel.
LEMMA NextChannelChecked ==
    ASSUME IInv, NextChannel, pc' # "next"
    PROVE  /\ channel' \in Channels /\ pc' \in {"render", "ready"}
           /\ pc' = "render" => OccupiedRouting
           /\ Permitted(channel') /\ Owner[channel'] \notin removed'
<1>0. case' = case /\ channel' \in Channels
  BY DEF NextChannel, outside, IInv, TypeOK
<1>1. CASE Refresh
  <2>1. Check(world) /\ ~RuleBlocks(world) /\ channel' \in Admissible(ctx', world)
    BY <1>1 DEF NextChannel, Finish
  <2>2. pc' = IF OccupiedRouting THEN "render" ELSE "ready"
    BY <1>1 DEF NextChannel, Finish
  <2>. QED
    BY <1>0, <2>1, <2>2, CheckedPermitted DEF IInv
<1>2. CASE ~Refresh
  <2>1. pc' = "ready" /\ UNCHANGED removed
    BY <1>2 DEF NextChannel
  <2>2. removed' = {}
    BY <1>2, <2>1, UnruledPermitted DEF IInv, RemovedAreOut
  <2>. QED
    BY <1>0, <1>2, <2>1, <2>2, UnruledPermitted
<1>. QED
  BY <1>1, <1>2

\* The guard, right before the transport.
LEMMA GuardChecked ==
    ASSUME IInv, GuardedCall, pc' # "next"
    PROVE  pc' = "calling" /\ Permitted(channel) /\ Owner[channel] \notin removed'
<1>0. case' = case /\ channel \in Channels
  BY DEF GuardedCall, outside, IInv, TypeOK
<1>1. CASE Refresh
  <2>1. Check(world) /\ ~RuleBlocks(world) /\ channel \in Admissible(ctx', world) /\ pc' = "calling"
    BY <1>1 DEF GuardedCall, Finish, Call
  <2>. QED
    BY <1>0, <2>1, CheckedPermitted DEF IInv
<1>2. CASE ~Refresh
  <2>1. pc' = "calling" /\ UNCHANGED removed
    BY <1>2 DEF GuardedCall, Call
  <2>2. removed' = {}
    BY <1>2, <2>1, UnruledPermitted DEF IInv, RemovedAreOut
  <2>. QED
    BY <1>2, <2>1, <2>2, UnruledPermitted
<1>. QED
  BY <1>1, <1>2

LEMMA StepRemoved ==
    ASSUME IInv, [Next]_vars
    PROVE  RemovedAreOut'
<1>0. TypeOK /\ RemovedAreOut /\ case' = case
  BY DEF IInv, Next, Step, vars, outside, WorldChanges, CheckQueued, StartRoute, NextChannel,
         Rendered, SendChannel, GuardedCall, CallSucceeds, CallFails, CallTimesOut, EndRoute
<1>1. HasRule' = HasRule
  BY <1>0, CaseKept
<1>2. CASE \/ UNCHANGED vars \/ WorldChanges \/ Rendered \/ SendChannel
           \/ CallSucceeds \/ CallFails \/ CallTimesOut \/ EndRoute
  <2>1. UNCHANGED <<ctx, removed, channel>>
    BY <1>2 DEF vars, progressVars, WorldChanges, Rendered, SendChannel, CallSucceeds, CallFails, CallTimesOut, EndRoute
  <2>2. Underway' => Underway
    BY <1>2 DEF Underway, vars, WorldChanges, Rendered, SendChannel, CallSucceeds, CallFails, CallTimesOut, EndRoute, Finish
  <2>. QED
    BY <1>0, <1>1, <2>1, <2>2 DEF RemovedAreOut
<1>3. CASE CheckQueued \/ StartRoute
  <2>1. Check(world) /\ ~Underway'
    BY <1>3 DEF CheckQueued, StartRoute, Underway
  <2>. QED
    BY <1>0, <1>1, <2>1, CheckRemoved DEF RemovedAreOut, TypeOK
<1>4. CASE NextChannel \/ GuardedCall
  <2>1. Check(world) \/ UNCHANGED <<ctx, removed>>
    BY <1>4 DEF NextChannel, GuardedCall
  <2>2. removed' \cap ctx'.users = {} /\ (~HasRule => removed' = {})
    BY <1>0, <2>1, CheckRemoved DEF RemovedAreOut, TypeOK
  <2>3. Underway' => Owner[channel'] \notin removed'
    <3>1. CASE NextChannel
      BY <3>1, NextChannelChecked DEF Underway
    <3>2. CASE GuardedCall
      BY <3>2, GuardChecked DEF Underway, GuardedCall
    <3>. QED
      BY <1>4, <3>1, <3>2
  <2>. QED
    BY <1>1, <2>2, <2>3 DEF RemovedAreOut
<1>. QED
  BY <1>2, <1>3, <1>4 DEF Next, Step

LEMMA StepReady ==
    ASSUME IInv, [Next]_vars
    PROVE  ReadyPermitted'
<1>0. case' = case
  BY DEF Next, Step, vars, outside, WorldChanges, CheckQueued, StartRoute, NextChannel,
         Rendered, SendChannel, GuardedCall, CallSucceeds, CallFails, CallTimesOut, EndRoute
<1>1. OccupiedRouting' = OccupiedRouting
  BY <1>0, CaseKept
<1>2. CASE UNCHANGED vars
  <2>1. UNCHANGED <<case, world, channel, pc>>
    BY <1>2 DEF vars, outside, progressVars
  <2>. QED
    BY <1>1, <2>1, PermittedLater DEF IInv, ReadyPermitted
<1>3. CASE WorldChanges
  <2>1. pc # "ready" /\ pc' = pc
    BY <1>3 DEF WorldChanges, Uninterrupted
  <2>. QED
    BY <1>1, <2>1 DEF IInv, ReadyPermitted
<1>4. CASE NextChannel
  <2>1. world' = world
    BY <1>4 DEF NextChannel, outside
  <2>2. CASE pc' = "next"
    BY <2>2 DEF ReadyPermitted
  <2>3. CASE pc' # "next"
    BY <1>0, <1>1, <1>4, <2>1, <2>3, NextChannelChecked, PermittedLater DEF ReadyPermitted
  <2>. QED
    BY <2>2, <2>3
<1>5. CASE Rendered
  BY <1>1, <1>5 DEF Rendered, IInv, ReadyPermitted
<1>6. CASE CheckQueued \/ StartRoute \/ SendChannel \/ GuardedCall \/ CallSucceeds \/ CallFails \/ CallTimesOut \/ EndRoute
  <2>1. pc' \notin {"ready", "render"}
    BY <1>6 DEF CheckQueued, StartRoute, SendChannel, GuardedCall, CallSucceeds, CallFails, CallTimesOut, EndRoute,
               Finish, Call
  <2>. QED
    BY <2>1 DEF ReadyPermitted
<1>. QED
  BY <1>2, <1>3, <1>4, <1>5, <1>6 DEF Next, Step

LEMMA Inductive == ASSUME IInv, [Next]_vars PROVE IInv'
  BY StepType, StepOutcomes, StepRemoved, StepReady DEF IInv

LEMMA Initially == ASSUME Init PROVE IInv
<1>1. RemovedAreOut /\ ReadyPermitted
  BY DEF Init, RemovedAreOut, ReadyPermitted, Underway
<1>. QED
  BY <1>1, InitType, InitOutcomes DEF IInv

\* Which steps call a transport.
LEMMA Calls ==
    ASSUME IInv, [Next]_vars, pc # "calling", pc' = "calling"
    PROVE  GuardedCall \/ (SendChannel /\ channel \notin Remote \cup Local)
  BY DEF Next, Step, vars, WorldChanges, CheckQueued, StartRoute, NextChannel, Rendered, SendChannel,
         CallSucceeds, CallFails, CallTimesOut, EndRoute, Finish

\* A remote, voice or TV transport is called only in a state of the home that
\* permits it: after AI, preparation, synthesis and for every fallback target.
THEOREM GuardedAlwaysPermitted == Spec => GuardedPermitted
<1>1. ASSUME IInv, [Next]_vars
      PROVE  [\A c \in Remote \cup Local : Called(c) => Permitted(c)]_vars
  <2>. SUFFICES ASSUME NEW c \in Remote \cup Local, Called(c) PROVE Permitted(c)
    OBVIOUS
  <2>1. pc # "calling" /\ pc' = "calling" /\ channel = c
    BY DEF Called
  <2>2. GuardedCall
    BY <1>1, <2>1, Calls
  <2>. QED
    BY <1>1, <2>1, <2>2, GuardChecked
<1>2. Init => IInv
  BY Initially
<1>3. IInv /\ [Next]_vars => IInv'
  BY Inductive
<1>. QED
  BY <1>1, <1>2, <1>3, PTL DEF Spec, GuardedPermitted

\* The same for text channels, as far as the text is not rendered in between.
THEOREM TextAlwaysPermitted == Spec => TextPermittedUnrendered
<1>1. ASSUME IInv, [Next]_vars
      PROVE  [\A c \in Channels \ (Remote \cup Local) : Called(c) /\ ~OccupiedRouting => Permitted(c)]_vars
  <2>. SUFFICES ASSUME NEW c \in Channels \ (Remote \cup Local), Called(c), ~OccupiedRouting
                PROVE  Permitted(c)
    OBVIOUS
  <2>1. pc # "calling" /\ pc' = "calling" /\ channel = c
    BY DEF Called
  <2>2. CASE GuardedCall
    BY <1>1, <2>1, <2>2, GuardChecked
  <2>3. CASE SendChannel
    BY <1>1, <2>1, <2>3 DEF SendChannel, IInv, ReadyPermitted
  <2>. QED
    BY <1>1, <2>1, <2>2, <2>3, Calls
<1>2. Init => IInv
  BY Initially
<1>3. IInv /\ [Next]_vars => IInv'
  BY Inductive
<1>. QED
  BY <1>1, <1>2, <1>3, PTL DEF Spec, TextPermittedUnrendered

\* The audience only shrinks, and who was taken out of it gets nothing any more.
THEOREM NobodyResurrected == Spec => NoResurrection
<1>1. ASSUME IInv, [Next]_vars
      PROVE  [/\ ctx'.users \subseteq ctx.users
              /\ \A c \in Channels : Called(c) => Owner[c] \notin removed']_vars
  <2>1. ctx'.users \subseteq ctx.users
    <3>1. (\E w \in Worlds : case' = case /\ Check(w)) \/ UNCHANGED ctx
      BY <1>1 DEF IInv, TypeOK, Next, Step, vars, outside, WorldChanges, CheckQueued, StartRoute, NextChannel, Rendered,
                  SendChannel, GuardedCall, CallSucceeds, CallFails, CallTimesOut, EndRoute
    <3>. QED
      BY <1>1, <3>1, CheckType, NarrowedWithin DEF IInv
  <2>2. ASSUME NEW c \in Channels, Called(c) PROVE Owner[c] \notin removed'
    <3>1. pc # "calling" /\ pc' = "calling" /\ channel = c
      BY <2>2 DEF Called
    <3>2. CASE GuardedCall
      BY <1>1, <3>1, <3>2, GuardChecked
    <3>3. CASE SendChannel
      BY <1>1, <3>1, <3>3 DEF SendChannel, IInv, RemovedAreOut, Underway
    <3>. QED
      BY <1>1, <3>1, <3>2, <3>3, Calls
  <2>. QED
    BY <2>1, <2>2
<1>2. Init => IInv
  BY Initially
<1>3. IInv /\ [Next]_vars => IInv'
  BY Inductive
<1>. QED
  BY <1>1, <1>2, <1>3, PTL DEF Spec, NoResurrection
=============================================================================
