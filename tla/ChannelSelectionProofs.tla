----------------------- MODULE ChannelSelectionProofs -----------------------
(***************************************************************************)
(* Proofs about ChannelSelection for every configuration, every request    *)
(* and every course of the home.                                           *)
(***************************************************************************)
EXTENDS ChannelSelection, FiniteSetTheorems, WellFoundedInduction, TLAPS

Places == Entities \cup Overlays \cup {Nothing}

\* t is a device or service that is heard in the room of the rule.
Heard(t) == t # Nothing /\ At[t] = RuleRoom

-----------------------------------------------------------------------------
(* What the mappings of a channel yield.                                   *)

\* A mapping that names a room once yields what it says of it.
LEMMA SoleEntry ==
    ASSUME NEW mapping, NEW r, NEW default
    PROVE  \/ Sole(mapping, r, default) = default
           \/ \E k \in Matches(mapping, r) : Sole(mapping, r, default) = mapping[k]
<1>1. CASE Cardinality(Matches(mapping, r)) = 1
  <2>1. Matches(mapping, r) # {}
    BY <1>1, FS_EmptySet
  <2>. DEFINE k == CHOOSE k \in Matches(mapping, r) : TRUE
  <2>2. k \in Matches(mapping, r)
    BY <2>1
  <2>3. Sole(mapping, r, default) = mapping[k]
    BY <1>1 DEF Sole
  <2>. QED
    BY <2>2, <2>3
<1>2. CASE Cardinality(Matches(mapping, r)) # 1
  BY <1>2 DEF Sole
<1>. QED
  BY <1>1, <1>2

\* The values of a mapping are in its range.
LEMMA InRange ==
    ASSUME NEW mapping, NEW k \in DOMAIN mapping
    PROVE  mapping[k] \in Range(mapping)
  BY DEF Range

LEMMA TargetEntityType ==
    ASSUME TypeOK, NEW c \in Channels, NEW d
    PROVE  TargetEntity(c, d) \in Entities \cup {Nothing}
<1>1. /\ EntityId[c] \in Entities \cup {Nothing}
      /\ Range(RoomTargets[c]) \subseteq Entities
  BY MappingsAssumption
<1>2. case.group \in Entities \cup {Nothing}
  BY CasesAssumption DEF TypeOK
<1>3. \A k \in DOMAIN RoomTargets[c] : RoomTargets[c][k] \in Entities
  BY <1>1, InRange
<1>4. Sole(RoomTargets[c], RuleRoom, Nothing) \in Entities \cup {Nothing}
  BY <1>3, SoleEntry DEF Matches
<1>. QED
  BY <1>1, <1>2, <1>3, <1>4 DEF TargetEntity

LEMMA RoomAudioType ==
    ASSUME NEW c \in Channels, NEW r
    PROVE  RoomAudio(c, r) \subseteq Entities
<1>1. \A k \in DOMAIN AudioTargets[c] : AudioTargets[c][k] \subseteq Entities
  BY MappingsAssumption, InRange
<1>2. Sole(AudioTargets[c], r, {}) \subseteq Entities
  BY <1>1, SoleEntry DEF Matches
<1>. QED
  BY <1>1, <1>2 DEF RoomAudio

LEMMA ExplicitAudioType ==
    ASSUME NEW c \in Channels
    PROVE  ExplicitAudio(c) \subseteq Entities
  BY MappingsAssumption DEF ExplicitAudio

\* Whatever _async_send_tts would try is a device, or nothing at all.
LEMMA TtsTargetsType ==
    ASSUME TypeOK, NEW c \in Channels, NEW d
    PROVE  TtsTargets(c, d) \subseteq Places
  BY TargetEntityType, RoomAudioType, ExplicitAudioType DEF TtsTargets, Places

LEMMA TvTargetType ==
    ASSUME TypeOK, NEW c \in Channels, NEW d
    PROVE  TvTarget(c, d) \in Places
  BY TargetEntityType DEF TvTarget, Places

-----------------------------------------------------------------------------
(* Under a rule with a room the targets of a channel the policy admits are *)
(* heard in that room.                                                     *)

LEMMA TargetEntityHeard ==
    ASSUME TypeOK, RuleRoom # Nothing, NEW c \in Channels, NEW d,
           TargetEntity(c, d) # Nothing
    PROVE  Heard(TargetEntity(c, d))
<1>1. CASE Matches(RoomTargets[c], RuleRoom) # {}
  <2>1. TargetEntity(c, d) = Sole(RoomTargets[c], RuleRoom, Nothing)
    BY <1>1 DEF TargetEntity
  <2>2. PICK k \in Matches(RoomTargets[c], RuleRoom) : TargetEntity(c, d) = RoomTargets[c][k]
    BY <2>1, SoleEntry
  <2>. QED
    BY <2>2, TruthfulAssumption DEF Matches, Heard
<1>2. CASE Matches(RoomTargets[c], RuleRoom) = {}
  <2>1. InRoom(c, RuleRoom) /\ TargetEntity(c, d) = EntityId[c]
    BY <1>2 DEF TargetEntity
  <2>. QED
    BY <2>1, TruthfulAssumption DEF InRoom, Heard
<1>. QED
  BY <1>1, <1>2

LEMMA RoomAudioHeard ==
    ASSUME RuleRoom # Nothing, NEW c \in Channels
    PROVE  \A t \in RoomAudio(c, RuleRoom) : Heard(t)
<1>. SUFFICES ASSUME NEW t \in RoomAudio(c, RuleRoom) PROVE Heard(t)
  OBVIOUS
<1>1. RoomAudio(c, RuleRoom) = Sole(AudioTargets[c], RuleRoom, {})
  BY DEF RoomAudio
<1>2. PICK k \in Matches(AudioTargets[c], RuleRoom) : t \in AudioTargets[c][k]
  BY <1>1, SoleEntry
<1>3. At[t] = RuleRoom
  BY <1>2, TruthfulAssumption DEF Matches
<1>4. t # Nothing
  BY RoomAudioType, NothingAssumption
<1>. QED
  BY <1>3, <1>4 DEF Heard

LEMMA TvTargetHeard ==
    ASSUME TypeOK, RuleRoom # Nothing, NEW c \in Channels, NEW d,
           TargetEntity(c, d) # Nothing, TvService(c, d) # Nothing
    PROVE  Heard(TvTarget(c, d))
<1>1. CASE TvService(c, d) \notin Overlays
  BY <1>1, TargetEntityHeard DEF TvTarget
<1>2. CASE TvService(c, d) \in Overlays
  <2>1. TvTarget(c, d) = TvService(c, d)
    BY <1>2 DEF TvTarget
  <2>2. CASE Matches(NotifyServices[c], RuleRoom) # {}
    <3>1. TvService(c, d) = Sole(NotifyServices[c], RuleRoom, Nothing)
      BY <2>2 DEF TvService
    <3>2. PICK k \in Matches(NotifyServices[c], RuleRoom) : TvService(c, d) = NotifyServices[c][k]
      BY <3>1, SoleEntry
    <3>. QED
      BY <3>2, <2>1, <1>2, TruthfulAssumption DEF Matches, Heard
  <2>3. CASE Matches(NotifyServices[c], RuleRoom) = {}
    <3>1. TvService(c, d) = Service[c] /\ (InRoom(c, RuleRoom) \/ Service[c] \notin Overlays)
      BY <2>3 DEF TvService
    <3>. QED
      BY <3>1, <2>1, <1>2, TruthfulAssumption DEF InRoom, Heard
  <2>. QED
    BY <2>2, <2>3
<1>. QED
  BY <1>1, <1>2

\* The targets _async_send_tts would try for a channel with a device in the room.
LEMMA TtsTargetsHeard ==
    ASSUME TypeOK, RuleRoom # Nothing, NEW c \in Channels, NEW d,
           Kind[c] = "tts", ~RoomRejects(c)
    PROVE  \A t \in TtsTargets(c, d) : Heard(t)
<1>1. ExplicitAudio(c) = {} /\ DesiredRoom(d) = RuleRoom
  BY DEF ExplicitAudio, DesiredRoom
<1>2. CASE RoomAudio(c, RuleRoom) # {}
  BY <1>1, <1>2, RoomAudioHeard DEF TtsTargets
<1>3. CASE RoomAudio(c, RuleRoom) = {}
  <2>1. TargetEntity(c, RuleRoom) # Nothing
    BY <1>3 DEF RoomRejects
  <2>2. TargetEntity(c, d) = TargetEntity(c, RuleRoom)
    BY DEF TargetEntity
  <2>3. TtsTargets(c, d) = {TargetEntity(c, d)}
    BY <1>1, <1>3 DEF TtsTargets
  <2>. QED
    BY <2>1, <2>2, <2>3, TargetEntityHeard
<1>. QED
  BY <1>2, <1>3

-----------------------------------------------------------------------------
(* One of a set of targets is tried, the others are left.                  *)

LEMMA TryWithin ==
    ASSUME NEW S, Try(S)
    PROVE  target' \in S /\ untried' \subseteq S
  BY DEF Try

-----------------------------------------------------------------------------
(* Types.                                                                  *)

LEMMA InitType == ASSUME Init PROVE TypeOK
  BY WorldsAssumption, OrderAssumption DEF Init, TypeOK

LEMMA SelectedChannels ==
    ASSUME TypeOK, NEW w
    PROVE  Selected(w) \subseteq Channels
<1>1. case.requested \subseteq Channels /\ case.flowChannels \subseteq Channels
  BY CasesAssumption DEF TypeOK
<1>2. \A S : S \subseteq Channels => Expanded(S, w) \subseteq Channels
  BY DEF Expanded, Local
<1>3. Eligible(w) \subseteq Channels
  BY <1>1, <1>2 DEF Eligible, Named
<1>4. Suitable(w) \subseteq Channels
  BY <1>3 DEF Suitable
<1>5. LocalTargets(Suitable(w), w) \subseteq Channels
  BY <1>4 DEF LocalTargets
<1>. QED
  BY <1>3, <1>4, <1>5 DEF Selected

\* A channel gets its result and the next one is taken.
LEMMA FinishType ==
    ASSUME TypeOK, NEW c \in Channels, NEW r \in {"sent", "dropped", "error"}, Finish(c, r)
    PROVE  /\ result' \in [Channels -> {"none", "sent", "dropped", "error"}]
           /\ pc' = "next"
  BY DEF Finish, TypeOK

LEMMA PrepareTries ==
    ASSUME TypeOK, Prepare
    PROVE  \/ /\ Finish(channel, "dropped") \/ Finish(channel, "error")
              /\ UNCHANGED <<target, untried, first>>
           \/ /\ ~PolicyRejects(channel, seen)
              /\ first' = [first EXCEPT ![channel] = target']
              /\ UNCHANGED result
              /\ LET d == ChannelDeliveryRoom(channel, seen)
                 IN  \/ Kind[channel] = "tts" /\ Try(TtsTargets(channel, d))
                     \/ Kind[channel] = "tts_hume" /\ EntityId[channel] # Nothing /\ Try({EntityId[channel]})
                     \/ /\ Kind[channel] = "tv" /\ TvService(channel, d) # Nothing
                        /\ TargetEntity(channel, d) \in Entities
                        /\ Try({TvTarget(channel, d)})
                     \/ channel \notin Local /\ Try({Nothing})
<1>. DEFINE d == ChannelDeliveryRoom(channel, seen)
<1>1. channel \in Channels /\ world \in Worlds /\ world.on \subseteq Entities
  BY WorldsAssumption DEF Prepare, TypeOK
<1>2. CASE (Finish(channel, "dropped") \/ Finish(channel, "error")) /\ UNCHANGED <<target, untried, first>>
  BY <1>2
<1>3. ASSUME ~PolicyRejects(channel, seen),
             CASE Kind[channel] = "tts" -> TtsTargets(channel, d) # {} /\ Try(TtsTargets(channel, d))
               [] Kind[channel] = "tts_hume" -> EntityId[channel] # Nothing /\ Try({EntityId[channel]})
               [] Kind[channel] = "tv" -> /\ TargetEntity(channel, d) \in world.on
                                          /\ TvService(channel, d) # Nothing /\ Try({TvTarget(channel, d)})
               [] channel \notin Local -> Try({Nothing}),
             first' = [first EXCEPT ![channel] = target'], UNCHANGED result
      PROVE  \/ Kind[channel] = "tts" /\ Try(TtsTargets(channel, d))
             \/ Kind[channel] = "tts_hume" /\ EntityId[channel] # Nothing /\ Try({EntityId[channel]})
             \/ /\ Kind[channel] = "tv" /\ TvService(channel, d) # Nothing
                /\ TargetEntity(channel, d) \in Entities
                /\ Try({TvTarget(channel, d)})
             \/ channel \notin Local /\ Try({Nothing})
  <2>1. CASE Kind[channel] = "tts"
    BY <2>1, <1>3
  <2>2. CASE Kind[channel] = "tts_hume"
    BY <2>2, <1>3
  <2>3. CASE Kind[channel] = "tv"
    BY <2>3, <1>1, <1>3
  <2>4. CASE Kind[channel] \notin {"tts", "tts_hume", "tv"}
    <3>1. channel \notin Local
      BY <2>4 DEF Local
    <3>. QED
      BY <3>1, <2>4, <1>3
  <2>. QED
    BY <2>1, <2>2, <2>3, <2>4
<1>. QED
  BY <1>2, <1>3 DEF Prepare

LEMMA PrepareType ==
    ASSUME TypeOK, Prepare
    PROVE  TypeOK'
<1>. DEFINE d == ChannelDeliveryRoom(channel, seen)
<1>1. channel \in Channels /\ channel' = channel
  BY DEF Prepare, TypeOK
<1>2. UNCHANGED <<case, world, seen, start, preview, channel, changes>>
  BY DEF Prepare
<1>3. CASE (Finish(channel, "dropped") \/ Finish(channel, "error")) /\ UNCHANGED <<target, untried, first>>
  BY <1>1, <1>2, <1>3, FinishType DEF TypeOK
<1>4. ASSUME first' = [first EXCEPT ![channel] = target'], UNCHANGED result,
             NEW S \in SUBSET Places, Try(S)
      PROVE  TypeOK'
  <2>1. target' \in Places /\ untried' \subseteq Places
    BY <1>4, TryWithin
  <2>2. pc' = "guard"
    BY <1>4 DEF Try
  <2>. QED
    BY <1>1, <1>2, <1>4, <2>1, <2>2 DEF TypeOK, Places
<1>5. TtsTargets(channel, d) \subseteq Places /\ TvTarget(channel, d) \in Places
  BY <1>1, TtsTargetsType, TvTargetType
<1>6. EntityId[channel] \in Places /\ Nothing \in Places
  BY <1>1, MappingsAssumption DEF Places
<1>. QED
  BY <1>3, <1>4, <1>5, <1>6, PrepareTries

LEMMA StepType ==
    ASSUME TypeOK, [Next]_vars
    PROVE  TypeOK'
<1>1. CASE UNCHANGED vars
  BY <1>1 DEF TypeOK, vars, progressVars
<1>2. CASE WorldChanges
  BY <1>2, OrderAssumption DEF TypeOK, WorldChanges, progressVars
<1>3. CASE PreviewRoute
  <2>1. DOMAIN preview' \subseteq Channels
    BY <1>3, SelectedChannels DEF PreviewRoute
  <2>. QED
    BY <1>3, <2>1 DEF TypeOK, PreviewRoute, progressVars
<1>4. CASE StartRoute
  BY <1>4 DEF TypeOK, StartRoute, progressVars
<1>5. CASE NextChannel
  <2>1. channel' \in Channels
    BY <1>5, SelectedChannels DEF NextChannel, Unserved
  <2>2. seen' \in Worlds /\ UNCHANGED <<case, world, start, preview, target, untried, first, changes>>
    BY <1>5 DEF NextChannel, TypeOK
  <2>3. \/ Finish(channel', "dropped")
        \/ pc' \in {"render", "prepare"} /\ UNCHANGED result
    BY <1>5 DEF NextChannel
  <2>4. CASE Finish(channel', "dropped")
    BY <2>1, <2>2, <2>4 DEF TypeOK, Finish
  <2>5. CASE pc' \in {"render", "prepare"} /\ UNCHANGED result
    BY <2>1, <2>2, <2>5 DEF TypeOK
  <2>. QED
    BY <2>3, <2>4, <2>5
<1>6. CASE Rendered
  BY <1>6 DEF TypeOK, Rendered, progressVars
<1>7. CASE Prepare
  BY <1>7, PrepareType
<1>8. CASE GuardedCall
  BY <1>8 DEF TypeOK, GuardedCall, Finish
<1>9. CASE CallSucceeds
  BY <1>9 DEF TypeOK, CallSucceeds, Finish
<1>10. CASE CallFails
  <2>1. CASE Try(untried) /\ UNCHANGED result
    <3>1. target' \in Places /\ untried' \subseteq Places /\ pc' = "guard"
      BY <2>1, TryWithin DEF Try, TypeOK, Places
    <3>. QED
      BY <1>10, <2>1, <3>1 DEF TypeOK, CallFails, Places
  <2>2. CASE Finish(channel, "error") /\ UNCHANGED <<target, untried>>
    BY <1>10, <2>2 DEF TypeOK, CallFails, Finish
  <2>. QED
    BY <1>10, <2>1, <2>2 DEF CallFails
<1>11. CASE EndRoute
  BY <1>11 DEF TypeOK, EndRoute, progressVars
<1>. QED
  BY <1>1, <1>2, <1>3, <1>4, <1>5, <1>6, <1>7, <1>8, <1>9, <1>10, <1>11 DEF Next

\* Every variable keeps its type: only configured channels are selected, and
\* what is called is a device, a bound service or, for text, nothing.
THEOREM TypeCorrect == Spec => []TypeOK
<1>1. Init => TypeOK
  BY InitType
<1>2. TypeOK /\ [Next]_vars => TypeOK'
  BY StepType
<1>. QED
  BY <1>1, <1>2, PTL DEF Spec

-----------------------------------------------------------------------------
(* The room of a rule.                                                     *)

LEMMA PrepareWithinRule ==
    ASSUME TypeOK, Prepare
    PROVE  WithinRule'
<1>. DEFINE d == ChannelDeliveryRoom(channel, seen)
<1>1. channel \in Channels /\ UNCHANGED <<case, channel>>
  BY DEF Prepare, TypeOK
<1>2. CASE Finish(channel, "dropped") \/ Finish(channel, "error")
  BY <1>2 DEF Finish, WithinRule
<1>3. ASSUME ~PolicyRejects(channel, seen), RuleRoom # Nothing, channel \in Local,
             NEW S, Try(S), \A t \in S : Heard(t)
      PROVE  WithinRule'
  <2>1. target' \in S /\ untried' \subseteq S
    BY <1>3, TryWithin
  <2>. QED
    BY <1>1, <1>3, <2>1 DEF WithinRule, Heard, RuleRoom
<1>4. CASE RuleRoom = Nothing \/ channel \notin Local
  BY <1>1, <1>4 DEF WithinRule, RuleRoom, Local
<1>5. ASSUME RuleRoom # Nothing, channel \in Local, ~PolicyRejects(channel, seen)
      PROVE  ~RoomRejects(channel)
  BY <1>5 DEF PolicyRejects
<1>6. ASSUME RuleRoom # Nothing, channel \in Local, ~PolicyRejects(channel, seen),
             Kind[channel] = "tts", Try(TtsTargets(channel, d))
      PROVE  WithinRule'
  <2>1. \A t \in TtsTargets(channel, d) : Heard(t)
    BY <1>1, <1>5, <1>6, TtsTargetsHeard
  <2>. QED
    BY <1>3, <1>6, <2>1
<1>7. ASSUME RuleRoom # Nothing, channel \in Local, ~PolicyRejects(channel, seen),
             Kind[channel] = "tts_hume", Try({EntityId[channel]})
      PROVE  WithinRule'
  <2>1. InRoom(channel, RuleRoom) /\ EntityId[channel] # Nothing
    BY <1>5, <1>7 DEF RoomRejects
  <2>2. Heard(EntityId[channel])
    BY <1>1, <2>1, TruthfulAssumption DEF InRoom, Heard
  <2>. QED
    BY <1>3, <1>7, <2>2
<1>8. ASSUME RuleRoom # Nothing, channel \in Local, ~PolicyRejects(channel, seen),
             TargetEntity(channel, d) \in Entities, TvService(channel, d) # Nothing,
             Try({TvTarget(channel, d)})
      PROVE  WithinRule'
  <2>1. TargetEntity(channel, d) # Nothing
    BY <1>8, NothingAssumption
  <2>2. Heard(TvTarget(channel, d))
    BY <1>1, <1>8, <2>1, TvTargetHeard
  <2>. QED
    BY <1>3, <1>8, <2>2
<1>. QED
  BY <1>2, <1>4, <1>6, <1>7, <1>8, PrepareTries

LEMMA StepWithinRule ==
    ASSUME TypeOK, WithinRule, [Next]_vars
    PROVE  WithinRule'
<1>1. CASE Prepare
  BY <1>1, PrepareWithinRule
<1>2. CASE UNCHANGED vars \/ WorldChanges
  BY <1>2 DEF WithinRule, RuleRoom, vars, WorldChanges, progressVars
<1>3. CASE PreviewRoute \/ StartRoute \/ NextChannel \/ Rendered \/ EndRoute
  <2>1. pc' \notin {"guard", "calling"}
    BY <1>3 DEF PreviewRoute, StartRoute, NextChannel, Rendered, EndRoute, Finish
  <2>. QED
    BY <2>1 DEF WithinRule
<1>4. CASE GuardedCall \/ CallSucceeds
  <2>1. pc' = "next" \/ (pc \in {"guard", "calling"} /\ UNCHANGED <<case, channel, target, untried>>)
    BY <1>4 DEF GuardedCall, CallSucceeds, Finish
  <2>. QED
    BY <2>1 DEF WithinRule, RuleRoom
<1>5. CASE CallFails
  <2>1. CASE Finish(channel, "error")
    BY <2>1 DEF Finish, WithinRule
  <2>2. CASE Try(untried)
    <3>1. target' \in untried /\ untried' \subseteq untried
      BY <2>2, TryWithin
    <3>. QED
      BY <1>5, <3>1 DEF CallFails, WithinRule, RuleRoom
  <2>. QED
    BY <1>5, <2>1, <2>2 DEF CallFails
<1>. QED
  BY <1>1, <1>2, <1>3, <1>4, <1>5 DEF Next

\* Whatever is called under a rule with a room, or is left to fall back to, is
\* heard in that room, for every truthful configuration and course of the home.
THEOREM RuleRoomHolds == Spec => []WithinRule
<1>1. Init => TypeOK /\ WithinRule
  BY InitType DEF Init, WithinRule
<1>2. TypeOK /\ WithinRule /\ [Next]_vars => TypeOK' /\ WithinRule'
  BY StepType, StepWithinRule
<1>. QED
  BY <1>1, <1>2, PTL DEF Spec

-----------------------------------------------------------------------------
(* A request does not change: what is made of it depends on the home only. *)

LEMMA SameTargets ==
    ASSUME UNCHANGED case, NEW c, NEW r, NEW w
    PROVE  /\ RuleRoom' = RuleRoom /\ Device' = Device /\ Refresh' = Refresh
           /\ DeliveryRoom(c, w)' = DeliveryRoom(c, w)
           /\ MatchesRoom(c, r)' = MatchesRoom(c, r)
           /\ RoomAudioTarget(c, r, w)' = RoomAudioTarget(c, r, w)
           /\ Reachable(c, r, w)' = Reachable(c, r, w)
           /\ Score(c, r, w)' = Score(c, r, w)
           /\ PolicyRejects(c, w)' = PolicyRejects(c, w)
           /\ Suited(c, w)' = Suited(c, w) /\ ZoneMatches(c, w)' = ZoneMatches(c, w)
           /\ ReachesDevice(c)' = ReachesDevice(c)
<1>1. RuleRoom' = RuleRoom /\ Device' = Device /\ Refresh' = Refresh
  BY DEF RuleRoom, Device, Refresh
<1>2. DeliveryRoom(c, w)' = DeliveryRoom(c, w) /\ DesiredRoom(r)' = DesiredRoom(r)
  BY <1>1 DEF DeliveryRoom, DesiredRoom, PrimaryRoom
<1>3. /\ TargetEntity(c, r)' = TargetEntity(c, r) /\ RoomAudio(c, r)' = RoomAudio(c, r)
      /\ TargetEntity(c, RuleRoom)' = TargetEntity(c, RuleRoom) /\ RoomAudio(c, RuleRoom)' = RoomAudio(c, RuleRoom)
      /\ TvService(c, RuleRoom)' = TvService(c, RuleRoom)
  BY <1>1 DEF TargetEntity, RoomAudio, TvService, DesiredRoom
<1>4. RoomAudioTarget(c, r, w)' = RoomAudioTarget(c, r, w)
  BY <1>1, <1>2 DEF RoomAudioTarget, ExplicitAudio, RoomAudio
<1>5. MatchesRoom(c, r)' = MatchesRoom(c, r)
  BY <1>1 DEF MatchesRoom
<1>6. Reachable(c, r, w)' = Reachable(c, r, w)
  BY <1>3, <1>4, <1>5 DEF Reachable
<1>7. Score(c, r, w)' = Score(c, r, w)
  BY <1>4 DEF Score
<1>8. RoomRejects(c)' = RoomRejects(c)
  BY <1>1, <1>3 DEF RoomRejects
<1>9. PolicyRejects(c, w)' = PolicyRejects(c, w)
  BY <1>1, <1>8 DEF PolicyRejects
<1>10. Suited(c, w)' = Suited(c, w) /\ ZoneMatches(c, w)' = ZoneMatches(c, w)
  BY DEF Suited, ZoneMatches
<1>11. ReachesDevice(c)' = ReachesDevice(c)
  BY <1>1 DEF ReachesDevice
<1>. QED
  BY <1>1, <1>2, <1>4, <1>5, <1>6, <1>7, <1>9, <1>10, <1>11

LEMMA SameSelection ==
    ASSUME UNCHANGED case, NEW w
    PROVE  /\ Selected(w)' = Selected(w) /\ Suitable(w)' = Suitable(w) /\ Bypassed(w)' = Bypassed(w)
           /\ \A c : PreviewOf(c, w)' = PreviewOf(c, w)
<1>1. \A S : Expanded(S, w)' = Expanded(S, w)
  BY DEF Expanded, RuleRoom
<1>2. Eligible(w)' = Eligible(w)
  <2>1. Named(w)' = Named(w)
    BY <1>1 DEF Named
  <2>2. \A c : PolicyRejects(c, w)' = PolicyRejects(c, w)
    BY SameTargets
  <2>. QED
    BY <2>1, <2>2 DEF Eligible
<1>3. ByDevice(Eligible(w))' = ByDevice(Eligible(w))
  <2>1. \A c : ReachesDevice(c)' = ReachesDevice(c)
    BY SameTargets
  <2>. QED
    BY <1>2, <2>1 DEF ByDevice, RuleRoom
<1>4. Suitable(w)' = Suitable(w)
  <2>1. \A c : ReachesDevice(c)' = ReachesDevice(c) /\ Suited(c, w)' = Suited(c, w)
    BY SameTargets
  <2>. QED
    BY <1>2, <1>3, <2>1 DEF Suitable
<1>5. \A c, S, r : Wins(c, S, r, w)' = Wins(c, S, r, w)
  <2>1. \A c, r : Score(c, r, w)' = Score(c, r, w)
    BY SameTargets
  <2>. QED
    BY <2>1 DEF Wins
<1>6. \A c, S : Rivals(c, S, w)' = Rivals(c, S, w)
  <2>1. \A c, r : Reachable(c, r, w)' = Reachable(c, r, w)
    BY SameTargets
  <2>. QED
    BY <2>1 DEF Rivals
<1>7. \A S, r : OfRoom(S, r)' = OfRoom(S, r) /\ Compete(S, r, w)' = Compete(S, r, w)
  <2>1. \A c, r : MatchesRoom(c, r)' = MatchesRoom(c, r) /\ Reachable(c, r, w)' = Reachable(c, r, w)
    BY SameTargets
  <2>2. \A S, r : OfRoom(S, r)' = OfRoom(S, r)
    BY <2>1 DEF OfRoom
  <2>. QED
    BY <2>1, <2>2 DEF Compete
<1>8. ASSUME NEW S PROVE LocalTargets(S, w)' = LocalTargets(S, w)
  <2>1. PICK r : r = DeliveryRoom(Nothing, w)
    OBVIOUS
  <2>2. DeliveryRoom(Nothing, w)' = r
    BY <2>1, SameTargets
  <2>3. \A d, q : Reachable(d, q, w)' = Reachable(d, q, w)
    BY SameTargets
  <2>4. PICK heard : heard = {d \in S : Reachable(d, r, w)}
    OBVIOUS
  <2>5. {d \in S : Reachable(d, r, w)}' = heard
    BY <2>3, <2>4
  <2>6. \A c : Wins(c, heard, r, w)' = Wins(c, heard, r, w)
    BY <1>5
  <2>7. OfRoom(S, r)' = OfRoom(S, r) /\ Compete(S, r, w)' = Compete(S, r, w)
    BY <1>7
  <2>8. \A c : Wins(c, Rivals(c, S, w), Canon[ChannelRoom[c]], w)' = Wins(c, Rivals(c, S, w), Canon[ChannelRoom[c]], w)
    <3>. SUFFICES ASSUME NEW c
                  PROVE  Wins(c, Rivals(c, S, w), Canon[ChannelRoom[c]], w)' = Wins(c, Rivals(c, S, w), Canon[ChannelRoom[c]], w)
      OBVIOUS
    <3>1. PICK R : R = Rivals(c, S, w)
      OBVIOUS
    <3>2. Rivals(c, S, w)' = R
      BY <1>6, <3>1
    <3>3. Wins(c, R, Canon[ChannelRoom[c]], w)' = Wins(c, R, Canon[ChannelRoom[c]], w)
      BY <1>5
    <3>. QED
      BY <3>1, <3>2, <3>3
  <2>. QED
    BY <1>6, <2>1, <2>2, <2>4, <2>5, <2>6, <2>7, <2>8 DEF LocalTargets
<1>9. Selected(w)' = Selected(w) /\ Bypassed(w)' = Bypassed(w)
  <2>1. \A c : ZoneMatches(c, w)' = ZoneMatches(c, w)
    BY SameTargets
  <2>. QED
    BY <1>1, <1>2, <1>3, <1>4, <1>8, <2>1 DEF Selected, Bypassed
<1>10. ASSUME NEW c PROVE PreviewOf(c, w)' = PreviewOf(c, w)
  BY DEF PreviewOf, ChannelDeliveryRoom, RoomAudioTarget, RoomAudio, ExplicitAudio, TargetEntity, TvService, TvTarget,
         DesiredRoom, DeliveryRoom, PrimaryRoom, RuleRoom, Device, PolicyRejects, RoomRejects, InRoom, Sole, Matches,
         FirstTarget, Shown
<1>. QED
  BY <1>4, <1>9, <1>10

-----------------------------------------------------------------------------
(* The preview and the delivery resolve a channel alike.                   *)

LEMMA LeastNumber ==
    ASSUME NEW T \in SUBSET Nat, T # {}
    PROVE  \E x \in T : \A y \in T : x <= y
<1>. DEFINE R == {ss \in Nat \X Nat : ss[1] < ss[2]}
<1>1. IsWellFoundedOn(R, Nat)
  BY NatLessThanWellFounded DEF OpToRel
<1>2. PICK x \in T : \A y \in T : ~(<<y, x>> \in R)
  BY <1>1, WFMin
<1>3. ASSUME NEW y \in T PROVE x <= y
  <2>1. x \in Nat /\ y \in Nat /\ <<y, x>> \in Nat \X Nat
    OBVIOUS
  <2>2. ~(y < x)
    BY <1>2, <2>1
  <2>. QED
    BY <2>1, <2>2
<1>. QED
  BY <1>3

\* Of some devices one comes first.
LEMMA FirstOfTargets ==
    ASSUME NEW S \in SUBSET Entities, S # {}
    PROVE  FirstTarget(S) \in S
<1>. DEFINE T == {TargetOrder[t] : t \in S}
<1>1. T \in SUBSET Nat /\ T # {}
  BY OrderAssumption
<1>2. PICK x \in T : \A y \in T : x <= y
  BY <1>1, LeastNumber
<1>3. PICK t \in S : TargetOrder[t] = x
  BY <1>2
<1>4. \A u \in S : TargetOrder[t] <= TargetOrder[u]
  BY <1>2, <1>3
<1>. QED
  BY <1>4 DEF FirstTarget

\* Where devices are called, the first is the one that is resolved for the
\* preview and for the score.
LEMMA FirstAgrees ==
    ASSUME NEW c \in Channels, NEW d, NEW S, Try(S),
           \/ S = ExplicitAudio(c) /\ ExplicitAudio(c) # {}
           \/ S = RoomAudio(c, DesiredRoom(d)) \cap world.on /\ ExplicitAudio(c) = {} /\ S # {}
    PROVE  /\ RoomAudioTarget(c, d, world) # {}
           /\ target' = CHOOSE t \in RoomAudioTarget(c, d, world) : TRUE
<1>1. target' \in S /\ (S = {target'} \/ target' = FirstTarget(S))
  BY DEF Try
<1>2. CASE S = ExplicitAudio(c) /\ ExplicitAudio(c) # {}
  <2>1. ExplicitAudio(c) = {Device}
    BY <1>2 DEF ExplicitAudio
  <2>. QED
    BY <1>1, <1>2, <2>1 DEF RoomAudioTarget
<1>3. CASE S = RoomAudio(c, DesiredRoom(d)) \cap world.on /\ ExplicitAudio(c) = {} /\ S # {}
  <2>1. RoomAudioTarget(c, d, world) = {FirstTarget(S)}
    BY <1>3 DEF RoomAudioTarget
  <2>2. target' = FirstTarget(S)
    <3>1. S \subseteq Entities
      BY <1>3, RoomAudioType
    <3>2. FirstTarget(S) \in S
      BY <1>3, <3>1, FirstOfTargets
    <3>. QED
      BY <1>1, <3>2
  <2>. QED
    BY <2>1, <2>2
<1>. QED
  BY <1>2, <1>3

\* A TV that the policy admits and that is called without a service has none.
LEMMA TvWithoutService ==
    ASSUME NEW c \in Channels, Kind[c] = "tv", ~PolicyRejects(c, world), NEW d, TvService(c, d) = Nothing
    PROVE  Service[c] = Nothing
<1>1. c \in Local
  BY DEF Local
<1>2. RuleRoom = Nothing
  <2>1. RuleRoom # Nothing => TvService(c, RuleRoom) # Nothing
    BY <1>1 DEF PolicyRejects, RoomRejects
  <2>2. RuleRoom # Nothing => TvService(c, d) = TvService(c, RuleRoom)
    BY DEF TvService
  <2>. QED
    BY <2>1, <2>2
<1>3. \A k \in DOMAIN NotifyServices[c] : NotifyServices[c][k] # Nothing
  BY MappingsAssumption, NothingAssumption, InRange
<1>. QED
  BY <1>2, <1>3 DEF TvService

\* What becomes of a channel that is prepared in the home of its preview.
LEMMA PreparedAsPreviewed ==
    ASSUME TypeOK, Prepare, seen = world
    PROVE  LET p == PreviewOf(channel, world)
           IN  \/ Finish(channel, "dropped") /\ UNCHANGED first /\ p.status = "dropped"
               \/ /\ Finish(channel, "error") /\ UNCHANGED first
                  /\ \/ p.status = "error"
                     \/ p.status = "planned" /\ Kind[channel] = "tv" /\ Service[channel] = Nothing
               \/ /\ pc' = "guard" /\ first' = [first EXCEPT ![channel] = target'] /\ UNCHANGED result
                  /\ p = Shown("planned", target')
<1>. DEFINE c == channel
            d == ChannelDeliveryRoom(c, world)
            p == PreviewOf(c, world)
<1>1. c \in Channels /\ world \in Worlds /\ world.on \subseteq Entities
  BY WorldsAssumption DEF Prepare, TypeOK
<1>0. Kind[c] \in {"tts", "tts_hume", "tv"} => c \in Local
  BY <1>1 DEF Local
<1>2. CASE PolicyRejects(c, world)
  <2>1. p.status = "dropped"
    BY <1>2 DEF PreviewOf, Shown
  <2>. QED
    BY <1>2, <2>1 DEF Prepare
<1>3. CASE ~PolicyRejects(c, world) /\ Kind[c] = "tts"
  <2>1. PICK audio : audio = RoomAudioTarget(c, d, world)
    OBVIOUS
  <2>2. p = IF audio # {} THEN Shown("planned", CHOOSE t \in audio : TRUE)
            ELSE IF RoomAudio(c, DesiredRoom(d)) # {} THEN Shown("dropped", Nothing)
            ELSE Shown("planned", TargetEntity(c, d))
    BY <1>3, <1>0, <2>1 DEF PreviewOf
  <2>3. \/ Finish(c, "dropped") /\ UNCHANGED first /\ TtsTargets(c, d) = {}
        \/ TtsTargets(c, d) # {} /\ Try(TtsTargets(c, d)) /\ first' = [first EXCEPT ![c] = target'] /\ UNCHANGED result
    BY <1>3, <1>0 DEF Prepare
  <2>4. CASE TtsTargets(c, d) = {}
    <3>1. ExplicitAudio(c) = {} /\ RoomAudio(c, DesiredRoom(d)) # {} /\ RoomAudio(c, DesiredRoom(d)) \cap world.on = {}
      BY <2>4 DEF TtsTargets
    <3>2. audio = {}
      BY <2>1, <3>1 DEF RoomAudioTarget
    <3>. QED
      BY <2>2, <2>3, <2>4, <3>1, <3>2 DEF Shown
  <2>5. CASE /\ TtsTargets(c, d) # {} /\ Try(TtsTargets(c, d))
             /\ first' = [first EXCEPT ![c] = target'] /\ UNCHANGED result
    <3>1. CASE ExplicitAudio(c) = {} /\ RoomAudio(c, DesiredRoom(d)) = {}
      <4>1. TtsTargets(c, d) = {TargetEntity(c, d)} /\ audio = {}
        BY <2>1, <3>1 DEF TtsTargets, RoomAudioTarget
      <4>. QED
        BY <2>2, <2>5, <3>1, <4>1 DEF Try
    <3>2. CASE ExplicitAudio(c) # {} \/ RoomAudio(c, DesiredRoom(d)) # {}
      <4>1. PICK S : S = TtsTargets(c, d)
        OBVIOUS
      <4>2. \/ S = ExplicitAudio(c) /\ ExplicitAudio(c) # {}
            \/ S = RoomAudio(c, DesiredRoom(d)) \cap world.on /\ ExplicitAudio(c) = {} /\ S # {}
        BY <2>5, <3>2, <4>1 DEF TtsTargets
      <4>3. audio # {} /\ target' = CHOOSE t \in audio : TRUE
        BY <1>1, <2>1, <2>5, <4>1, <4>2, FirstAgrees
      <4>4. p = Shown("planned", target')
        BY <2>2, <4>3
      <4>. QED
        BY <2>5, <4>4 DEF Try
    <3>. QED
      BY <3>1, <3>2
  <2>. QED
    BY <2>3, <2>4, <2>5
<1>4. CASE ~PolicyRejects(c, world) /\ Kind[c] = "tts_hume"
  <2>1. p = Shown(IF EntityId[c] = Nothing THEN "error" ELSE "planned", EntityId[c])
    BY <1>4, <1>0 DEF PreviewOf
  <2>2. \/ Finish(c, "error") /\ UNCHANGED first /\ EntityId[c] = Nothing
        \/ EntityId[c] # Nothing /\ Try({EntityId[c]}) /\ first' = [first EXCEPT ![c] = target'] /\ UNCHANGED result
    BY <1>4, <1>0 DEF Prepare
  <2>. QED
    BY <2>1, <2>2 DEF Try, Shown
<1>5. CASE ~PolicyRejects(c, world) /\ Kind[c] = "tv"
  <2>1. p = IF TargetEntity(c, d) = Nothing THEN Shown("error", Nothing)
            ELSE IF TargetEntity(c, d) \notin world.on THEN Shown("dropped", Nothing)
            ELSE Shown("planned", TvTarget(c, d))
    BY <1>5, <1>0 DEF PreviewOf
  <2>2. \/ Finish(c, "dropped") /\ UNCHANGED first /\ TargetEntity(c, d) \in Entities \ world.on
        \/ Finish(c, "error") /\ UNCHANGED first /\ TargetEntity(c, d) = Nothing
        \/ Finish(c, "error") /\ UNCHANGED first /\ TargetEntity(c, d) \in world.on /\ TvService(c, d) = Nothing
        \/ /\ TargetEntity(c, d) \in world.on /\ Try({TvTarget(c, d)})
           /\ first' = [first EXCEPT ![c] = target'] /\ UNCHANGED result
    BY <1>5, <1>0 DEF Prepare
  <2>3. Nothing \notin Entities
    BY NothingAssumption
  <2>4. TvService(c, d) = Nothing => Service[c] = Nothing
    BY <1>1, <1>5, TvWithoutService
  <2>. QED
    BY <1>1, <1>5, <2>1, <2>2, <2>3, <2>4 DEF Try, Shown
<1>6. CASE ~PolicyRejects(c, world) /\ Kind[c] \notin {"tts", "tts_hume", "tv"}
  <2>1. c \notin Local
    BY <1>6 DEF Local
  <2>2. p = Shown("planned", Nothing)
    BY <1>6, <2>1 DEF PreviewOf
  <2>3. Try({Nothing}) /\ first' = [first EXCEPT ![c] = target'] /\ UNCHANGED result
    BY <1>6, <2>1 DEF Prepare
  <2>. QED
    BY <2>2, <2>3 DEF Try
<1>. QED
  BY <1>2, <1>3, <1>4, <1>5, <1>6

-----------------------------------------------------------------------------
(* The course of a delivery: which channels have their results, and which  *)
(* targets were tried.                                                     *)

Serving == pc \in {"render", "prepare", "guard", "calling"}
Trying == pc \in {"guard", "calling"}

Course ==
    /\ \A c \in Channels : result[c] # "none" => c \in Selected(start)
    /\ Serving => channel \in Selected(start) /\ result[channel] = "none"
    /\ pc \in {"idle", "previewed"} => \A c \in Channels : result[c] = "none"
    /\ \A c \in Channels : result[c] = "none" /\ ~(Trying /\ c = channel) => first[c] = Nothing
    /\ pc = "done" => Unserved = {}

LEMMA SameStart ==
    ASSUME UNCHANGED <<case, start>>
    PROVE  Selected(start)' = Selected(start)
<1>1. PICK w : w = start
  OBVIOUS
<1>2. Selected(w)' = Selected(w)
  BY SameSelection
<1>3. start' = w
  BY <1>1
<1>4. Selected(start)' = Selected(w)'
  BY <1>3
<1>. QED
  BY <1>1, <1>2, <1>4

\* The channel being served gets its result.
LEMMA FinishCourse ==
    ASSUME TypeOK, Course, Serving, NEW r \in {"sent", "dropped", "error"}, Finish(channel, r),
           UNCHANGED <<case, start, channel, first>>
    PROVE  Course'
<1>1. Selected(start)' = Selected(start)
  BY SameStart
<1>2. channel \in Channels /\ channel \in Selected(start)
  BY DEF Course, TypeOK, Serving
<1>3. /\ pc' = "next" /\ ~Trying' /\ ~Serving'
      /\ result' = [result EXCEPT ![channel] = r] /\ result \in [Channels -> {"none", "sent", "dropped", "error"}]
  BY DEF Finish, Trying, Serving, TypeOK
<1>4. \A c \in Channels : result'[c] = (IF c = channel THEN r ELSE result[c])
  BY <1>3
<1>5. \A c \in Channels : result'[c] # "none" => c \in Selected(start)
  BY <1>2, <1>4 DEF Course
<1>6. \A c \in Channels : result'[c] = "none" => first[c] = Nothing
  BY <1>4 DEF Course
<1>. QED
  BY <1>1, <1>3, <1>5, <1>6 DEF Course

LEMMA StepCourse ==
    ASSUME TypeOK, Course, [Next]_vars
    PROVE  Course'
<1>1. CASE UNCHANGED <<case, start, pc, channel, first, result>>
  <2>1. Selected(start)' = Selected(start)
    BY <1>1, SameStart
  <2>. QED
    BY <1>1, <2>1 DEF Course, Serving, Trying, Unserved
<1>2. CASE PreviewRoute
  <2>1. Selected(start)' = Selected(start)
    BY <1>2, SameStart DEF PreviewRoute
  <2>. QED
    BY <1>2, <2>1 DEF PreviewRoute, progressVars, Course, Serving, Trying, Unserved
<1>3. CASE StartRoute
  <2>1. pc' = "next" /\ UNCHANGED <<channel, first, result>>
    BY <1>3 DEF StartRoute, progressVars
  <2>2. \A c \in Channels : result[c] = "none" /\ first[c] = Nothing
    BY <1>3 DEF StartRoute, Course, Trying
  <2>. QED
    BY <2>1, <2>2 DEF Course, Serving, Trying
<1>4. CASE NextChannel
  <2>1. Selected(start)' = Selected(start) /\ UNCHANGED <<case, start, first>>
    BY <1>4, SameStart DEF NextChannel
  <2>2. channel' \in Selected(start) /\ channel' \in Channels /\ result[channel'] = "none" /\ pc = "next"
    BY <1>4, SelectedChannels DEF NextChannel, Unserved
  <2>3. CASE Finish(channel', "dropped")
    <3>1. pc' = "next" /\ result' = [result EXCEPT ![channel'] = "dropped"]
      BY <2>3 DEF Finish
    <3>2. \A c \in Channels : result'[c] = (IF c = channel' THEN "dropped" ELSE result[c])
      BY <2>2, <3>1 DEF TypeOK
    <3>. QED
      BY <2>1, <2>2, <3>1, <3>2 DEF Course, Serving, Trying
  <2>4. CASE pc' \in {"render", "prepare"} /\ UNCHANGED result
    BY <2>1, <2>2, <2>4 DEF Course, Serving, Trying
  <2>. QED
    BY <1>4, <2>3, <2>4 DEF NextChannel
<1>5. CASE Rendered
  <2>1. Selected(start)' = Selected(start)
    BY <1>5, SameStart DEF Rendered
  <2>. QED
    BY <1>5, <2>1 DEF Rendered, progressVars, Course, Serving, Trying
<1>6. CASE Prepare
  <2>1. UNCHANGED <<case, start, channel>> /\ Serving
    BY <1>6 DEF Prepare, Serving
  <2>2. CASE (Finish(channel, "dropped") \/ Finish(channel, "error")) /\ UNCHANGED first
    BY <2>1, <2>2, FinishCourse
  <2>3. CASE /\ pc' = "guard" /\ first' = [first EXCEPT ![channel] = target'] /\ UNCHANGED result
    <3>1. Selected(start)' = Selected(start)
      BY <2>1, SameStart
    <3>2. \A c \in Channels : c # channel => first'[c] = first[c]
      BY <2>3 DEF TypeOK
    <3>3. pc = "prepare"
      BY <1>6 DEF Prepare
    <3>. QED
      BY <2>1, <2>3, <3>1, <3>2, <3>3 DEF Course, Serving, Trying
  <2>. QED
    BY <1>6, <2>2, <2>3, PrepareTries DEF Try
<1>7. CASE GuardedCall
  <2>1. UNCHANGED <<case, start, channel, first>> /\ Serving
    BY <1>7 DEF GuardedCall, Serving
  <2>2. CASE Finish(channel, "dropped")
    BY <2>1, <2>2, FinishCourse
  <2>3. CASE pc' = "calling" /\ UNCHANGED result
    <3>1. Selected(start)' = Selected(start)
      BY <2>1, SameStart
    <3>. QED
      BY <1>7, <2>1, <2>3, <3>1 DEF Course, Serving, Trying, GuardedCall
  <2>. QED
    BY <1>7, <2>2, <2>3 DEF GuardedCall
<1>8. CASE CallSucceeds
  BY <1>8, FinishCourse DEF CallSucceeds, Serving
<1>9. CASE CallFails
  <2>1. UNCHANGED <<case, start, channel, first>> /\ Serving /\ Trying
    BY <1>9 DEF CallFails, Serving, Trying
  <2>2. CASE Finish(channel, "error")
    BY <2>1, <2>2, FinishCourse
  <2>3. CASE Try(untried) /\ UNCHANGED result
    <3>1. Selected(start)' = Selected(start)
      BY <2>1, SameStart
    <3>2. pc' = "guard"
      BY <2>3 DEF Try
    <3>. QED
      BY <2>1, <2>3, <3>1, <3>2 DEF Course, Serving, Trying
  <2>. QED
    BY <1>9, <2>2, <2>3 DEF CallFails
<1>10. CASE EndRoute
  <2>1. UNCHANGED <<case, start, channel, first, result>> /\ pc' = "done" /\ pc = "next" /\ Unserved = {}
    BY <1>10 DEF EndRoute, progressVars
  <2>2. Selected(start)' = Selected(start)
    BY <2>1, SameStart
  <2>. QED
    BY <2>1, <2>2 DEF Course, Serving, Trying, Unserved
<1>11. CASE WorldChanges
  BY <1>1, <1>11 DEF WorldChanges, progressVars
<1>12. CASE UNCHANGED vars
  BY <1>1, <1>12 DEF vars, progressVars
<1>. QED
  BY <1>2, <1>3, <1>4, <1>5, <1>6, <1>7, <1>8, <1>9, <1>10, <1>11, <1>12 DEF Next

\* What the preview said of channel c and what became of it.
Told(p, c) ==
    /\ p.status = "dropped" <=> result[c] = "dropped"
    /\ p.status = "error" => result[c] = "error" /\ first[c] = Nothing
    /\ p.status = "planned" =>
          \/ first[c] = p.target
          \/ Kind[c] = "tv" /\ Service[c] = Nothing /\ result[c] = "error" /\ first[c] = Nothing

\* In a home that has not changed: the preview is what the home gives, and the
\* delivery has done as it says so far.
AsPreviewed ==
    changes = 0 =>
        /\ seen = world /\ start = world
        /\ pc # "idle" => preview = [c \in Selected(world) |-> PreviewOf(c, world)]
        /\ \A c \in Channels : result[c] # "none" => Told(PreviewOf(c, world), c)
        /\ Trying => PreviewOf(channel, world) = Shown("planned", first[channel])

LEMMA SameHome ==
    ASSUME UNCHANGED <<case, world>>
    PROVE  /\ Selected(world)' = Selected(world)
           /\ \A c : PreviewOf(c, world)' = PreviewOf(c, world)
           /\ [c \in Selected(world) |-> PreviewOf(c, world)]' = [c \in Selected(world) |-> PreviewOf(c, world)]
<1>1. PICK w : w = world
  OBVIOUS
<1>2. Selected(w)' = Selected(w) /\ \A c : PreviewOf(c, w)' = PreviewOf(c, w)
  BY SameSelection
<1>3. world' = w
  BY <1>1
<1>4. Selected(world)' = Selected(w)'
  BY <1>3
<1>5. \A c : PreviewOf(c, world)' = PreviewOf(c, w)'
  BY <1>3
<1>. QED
  BY <1>1, <1>2, <1>4, <1>5

\* Its result is what the preview said.
LEMMA FinishAsPreviewed ==
    ASSUME TypeOK, AsPreviewed, changes = 0, UNCHANGED <<case, world, seen, start, preview, first, changes>>,
           NEW c \in Channels, NEW r \in {"sent", "dropped", "error"}, Finish(c, r), pc # "idle",
           LET p == PreviewOf(c, world)
           IN  \/ p.status = "dropped" /\ r = "dropped"
               \/ p.status = "error" /\ r = "error" /\ first[c] = Nothing
               \/ p.status = "planned" /\ r # "dropped" /\ first[c] = p.target
               \/ p.status = "planned" /\ r = "error" /\ first[c] = Nothing /\ Kind[c] = "tv" /\ Service[c] = Nothing
    PROVE  AsPreviewed'
<1>1. PICK p : p = PreviewOf(c, world)
  OBVIOUS
<1>2. \A d : PreviewOf(d, world)' = PreviewOf(d, world)
  BY SameHome
<1>3. /\ pc' = "next" /\ ~Trying'
      /\ result' = [result EXCEPT ![c] = r] /\ result \in [Channels -> {"none", "sent", "dropped", "error"}]
  BY DEF Finish, Trying, TypeOK
<1>4. \A d \in Channels : result'[d] = (IF d = c THEN r ELSE result[d])
  BY <1>3
<1>5. ASSUME NEW d \in Channels, result'[d] # "none"
      PROVE  Told(PreviewOf(d, world), d)'
  <2>1. CASE d = c
    <3>1. PreviewOf(d, world)' = p
      BY <1>1, <1>2, <2>1
    <3>2. result'[d] = r /\ first'[d] = first[c]
      BY <1>4, <2>1
    <3>. QED
      BY <1>1, <2>1, <3>1, <3>2 DEF Told
  <2>2. CASE d # c
    <3>1. PICK q : q = PreviewOf(d, world)
      OBVIOUS
    <3>2. PreviewOf(d, world)' = q /\ result'[d] = result[d]
      BY <1>2, <1>4, <2>2, <3>1
    <3>3. Told(q, d)
      BY <1>5, <3>1, <3>2 DEF AsPreviewed
    <3>. QED
      BY <3>2, <3>3 DEF Told
  <2>. QED
    BY <2>1, <2>2
<1>. QED
  BY <1>3, <1>5, SameHome DEF AsPreviewed

\* A step that neither ends a channel nor tries it leaves what was told.
LEMMA QuietlyAsPreviewed ==
    ASSUME TypeOK, AsPreviewed, UNCHANGED <<case, world, seen, start, preview, first, result, changes>>,
           pc # "idle", ~Trying' \/ (Trying /\ UNCHANGED channel)
    PROVE  AsPreviewed'
<1>. SUFFICES ASSUME changes = 0 PROVE AsPreviewed'
  BY DEF AsPreviewed
<1>1. ASSUME NEW c \in Channels, result[c] # "none"
      PROVE  Told(PreviewOf(c, world), c)'
  <2>1. PICK q : q = PreviewOf(c, world)
    OBVIOUS
  <2>2. PreviewOf(c, world)' = q
    BY <2>1, SameHome
  <2>3. Told(q, c)
    BY <1>1, <2>1 DEF AsPreviewed
  <2>. QED
    BY <2>2, <2>3 DEF Told
<1>2. Trying' => PreviewOf(channel, world)' = Shown("planned", first[channel])
  <2>1. PICK c : c = channel
    OBVIOUS
  <2>2. PreviewOf(c, world)' = PreviewOf(c, world)
    BY SameHome
  <2>3. ASSUME Trying' PROVE PreviewOf(channel, world)' = PreviewOf(c, world)'
    BY <2>1, <2>3
  <2>. QED
    BY <2>1, <2>2, <2>3 DEF AsPreviewed
<1>. QED
  BY <1>1, <1>2, SameHome DEF AsPreviewed, Shown

LEMMA StepAsPreviewed ==
    ASSUME TypeOK, Course, AsPreviewed, [Next]_vars
    PROVE  AsPreviewed'
<1>1. CASE UNCHANGED vars
  <2>1. CASE pc = "idle"
    <3>1. \A c \in Channels : result[c] = "none"
      BY <2>1 DEF Course
    <3>. QED
      BY <1>1, <2>1, <3>1 DEF vars, progressVars, AsPreviewed, Trying
  <2>2. CASE pc # "idle"
    BY <1>1, <2>2, QuietlyAsPreviewed DEF vars, progressVars, Trying
  <2>. QED
    BY <2>1, <2>2
<1>2. CASE WorldChanges
  BY <1>2 DEF WorldChanges, TypeOK, AsPreviewed
<1>3. CASE PreviewRoute
  <2>1. UNCHANGED <<case, world, seen, start, result, changes>> /\ pc' = "previewed"
        /\ preview' = [c \in Selected(world) |-> PreviewOf(c, world)]
    BY <1>3 DEF PreviewRoute, progressVars
  <2>2. \A c \in Channels : result[c] = "none"
    BY <1>3 DEF PreviewRoute, Course
  <2>. QED
    BY <2>1, <2>2, SameHome DEF AsPreviewed, Trying
<1>4. CASE StartRoute
  <2>1. UNCHANGED <<case, world, preview, result, changes>> /\ start' = world /\ seen' = world /\ pc' = "next" /\ pc = "previewed"
    BY <1>4 DEF StartRoute, progressVars
  <2>2. \A c \in Channels : result[c] = "none"
    BY <1>4 DEF StartRoute, Course
  <2>. QED
    BY <2>1, <2>2, SameHome DEF AsPreviewed, Trying
<1>. SUFFICES ASSUME changes = 0, NextChannel \/ Rendered \/ Prepare \/ GuardedCall \/ CallSucceeds \/ CallFails \/ EndRoute
              PROVE  AsPreviewed'
  <2>1. NextChannel \/ Rendered \/ Prepare \/ GuardedCall \/ CallSucceeds \/ CallFails \/ EndRoute => UNCHANGED changes
    BY DEF NextChannel, Rendered, Prepare, GuardedCall, CallSucceeds, CallFails, EndRoute
  <2>. QED
    BY <1>1, <1>2, <1>3, <1>4, <2>1 DEF Next, AsPreviewed
<1>5. seen = world /\ start = world /\ pc # "idle"
  BY DEF AsPreviewed, NextChannel, Rendered, Prepare, GuardedCall, CallSucceeds, CallFails, EndRoute
<1>6. CASE NextChannel
  <2>1. channel' \in Selected(start)
    BY <1>6 DEF NextChannel, Unserved
  <2>2. pc' \in {"render", "prepare"} /\ UNCHANGED result
    BY <1>5, <1>6, <2>1 DEF NextChannel
  <2>3. UNCHANGED <<case, world, seen, start, preview, first, changes>>
    BY <1>5, <1>6 DEF NextChannel
  <2>. QED
    BY <1>5, <2>2, <2>3, QuietlyAsPreviewed DEF Trying
<1>7. CASE Rendered \/ EndRoute
  BY <1>5, <1>7, QuietlyAsPreviewed DEF Rendered, EndRoute, Trying, progressVars
<1>8. CASE Prepare
  <2>1. PICK p : p = PreviewOf(channel, world)
    OBVIOUS
  <2>2. channel \in Channels /\ UNCHANGED <<case, world, seen, start, preview, channel, changes>> /\ pc = "prepare"
    BY <1>8 DEF Prepare, TypeOK
  <2>3. first[channel] = Nothing
    BY <2>2 DEF Course, Serving, Trying
  <2>4. CASE Finish(channel, "dropped") /\ UNCHANGED first /\ p.status = "dropped"
    BY <1>5, <2>1, <2>2, <2>4, FinishAsPreviewed
  <2>5. CASE /\ Finish(channel, "error") /\ UNCHANGED first
             /\ \/ p.status = "error"
                \/ p.status = "planned" /\ Kind[channel] = "tv" /\ Service[channel] = Nothing
    BY <1>5, <2>1, <2>2, <2>3, <2>5, FinishAsPreviewed
  <2>6. CASE /\ pc' = "guard" /\ first' = [first EXCEPT ![channel] = target'] /\ UNCHANGED result
             /\ p = Shown("planned", target')
    <3>1. first' \in [Channels -> Places] /\ first'[channel] = target'
          /\ \A c \in Channels : c # channel => first'[c] = first[c]
      BY <2>2, <2>6, StepType DEF TypeOK, Places
    <3>2. result[channel] = "none"
      BY <2>2 DEF Course, Serving
    <3>3. ASSUME NEW c \in Channels, result[c] # "none"
          PROVE  Told(PreviewOf(c, world), c)'
      <4>1. PICK q : q = PreviewOf(c, world)
        OBVIOUS
      <4>2. PreviewOf(c, world)' = q /\ first'[c] = first[c]
        BY <2>2, <3>1, <3>2, <3>3, <4>1, SameHome
      <4>3. Told(q, c)
        BY <3>3, <4>1 DEF AsPreviewed
      <4>. QED
        BY <2>6, <4>2, <4>3 DEF Told
    <3>4. PreviewOf(channel, world)' = Shown("planned", first'[channel])
      <4>1. PICK c : c = channel
        OBVIOUS
      <4>2. PreviewOf(c, world)' = p /\ channel' = c
        BY <2>1, <2>2, <4>1, SameHome
      <4>3. PreviewOf(channel, world)' = PreviewOf(c, world)'
        BY <4>2
      <4>. QED
        BY <2>6, <3>1, <4>2, <4>3
    <3>. QED
      BY <1>5, <2>2, <2>6, <3>3, <3>4, SameHome DEF AsPreviewed, Shown
  <2>. QED
    BY <1>5, <1>8, <2>1, <2>4, <2>5, <2>6, PreparedAsPreviewed
<1>9. CASE GuardedCall
  <2>1. channel \in Selected(world)
    BY <1>5, <1>9 DEF GuardedCall, Course, Serving
  <2>. QED
    BY <1>5, <1>9, <2>1, QuietlyAsPreviewed DEF GuardedCall, Trying
<1>10. CASE CallSucceeds \/ CallFails
  <2>1. channel \in Channels /\ Trying
    BY <1>10 DEF CallSucceeds, CallFails, TypeOK, Trying
  <2>2. UNCHANGED <<case, world, seen, start, preview, channel, first, changes>>
    BY <1>10 DEF CallSucceeds, CallFails
  <2>3. PreviewOf(channel, world).status = "planned" /\ PreviewOf(channel, world).target = first[channel]
    BY <2>1 DEF AsPreviewed, Shown
  <2>4. CASE Finish(channel, "sent") \/ Finish(channel, "error")
    BY <1>5, <2>1, <2>2, <2>3, <2>4, FinishAsPreviewed
  <2>5. CASE Try(untried) /\ UNCHANGED result
    BY <1>5, <2>1, <2>2, <2>5, QuietlyAsPreviewed
  <2>. QED
    BY <1>10, <2>4, <2>5 DEF CallSucceeds, CallFails
<1>. QED
  BY <1>6, <1>7, <1>8, <1>9, <1>10

LEMMA CourseTells ==
    ASSUME TypeOK, Course, AsPreviewed
    PROVE  PreviewAgrees
<1>. SUFFICES ASSUME pc = "done", changes = 0
              PROVE  /\ DOMAIN preview = {c \in Channels : result[c] # "none"}
                     /\ \A c \in DOMAIN preview : Told(preview[c], c)
  BY DEF PreviewAgrees, Told
<1>1. start = world /\ preview = [c \in Selected(world) |-> PreviewOf(c, world)]
  BY DEF AsPreviewed
<1>2. Selected(world) \subseteq Channels
  BY SelectedChannels
<1>3. \A c \in Channels : result[c] # "none" <=> c \in Selected(world)
  BY <1>1 DEF Course, Unserved
<1>. QED
  BY <1>1, <1>2, <1>3 DEF AsPreviewed

\* If the home stays as it was, the delivery does what the preview of the route
\* said: the same channels, dropped or tried alike, at the same first target.
THEOREM PreviewTellsTheTruth == Spec => []PreviewAgrees
<1>. DEFINE Inv == TypeOK /\ Course /\ AsPreviewed
<1>1. Init => Inv
  BY InitType DEF Init, Course, AsPreviewed, Serving, Trying
<1>2. Inv /\ [Next]_vars => Inv'
  BY StepType, StepCourse, StepAsPreviewed
<1>3. Inv => PreviewAgrees
  BY CourseTells
<1>. QED
  BY <1>1, <1>2, <1>3, PTL DEF Spec

-----------------------------------------------------------------------------
(* Winners.                                                                *)

LEMMA RoomAudioTargetType ==
    ASSUME NEW c \in Channels, NEW d, NEW w
    PROVE  RoomAudioTarget(c, d, w) \subseteq Entities
<1>1. ExplicitAudio(c) \subseteq Entities
  BY ExplicitAudioType
<1>2. PICK ready : ready = RoomAudio(c, DesiredRoom(d)) \cap w.on
  OBVIOUS
<1>3. ready \subseteq Entities
  BY <1>2, RoomAudioType
<1>4. ready # {} => FirstTarget(ready) \in Entities
  BY <1>3, FirstOfTargets
<1>. QED
  BY <1>1, <1>2, <1>4 DEF RoomAudioTarget

LEMMA ScoreType ==
    ASSUME NEW c \in Channels, NEW r, NEW w
    PROVE  \E a, b \in Nat : Score(c, r, w) = <<a, b, Name[c]>>
<1>1. CASE Kind[c] = "tv"
  BY <1>1 DEF Score
<1>2. CASE Kind[c] # "tv" /\ RoomAudioTarget(c, r, w) = {}
  BY <1>2 DEF Score
<1>3. CASE Kind[c] # "tv" /\ RoomAudioTarget(c, r, w) # {}
  <2>1. PICK t : t = CHOOSE u \in RoomAudioTarget(c, r, w) : TRUE
    OBVIOUS
  <2>2. t \in Entities
    BY <1>3, <2>1, RoomAudioTargetType
  <2>3. TargetRank[t] \in Nat /\ TargetOrder[t] \in Nat
    BY <2>2, OrderAssumption
  <2>4. Score(c, r, w) = <<TargetRank[t], TargetOrder[t], Name[c]>>
    BY <1>3, <2>1 DEF Score
  <2>. QED
    BY <2>3, <2>4
<1>. QED
  BY <1>1, <1>2, <1>3

\* No two channels tie: their names differ.
LEMMA ScoresDiffer ==
    ASSUME NEW c \in Channels, NEW d \in Channels, c # d, NEW r, NEW w
    PROVE  Less(Score(c, r, w), Score(d, r, w)) \/ Less(Score(d, r, w), Score(c, r, w))
<1>1. PICK a, b \in Nat : Score(c, r, w) = <<a, b, Name[c]>>
  BY ScoreType
<1>2. PICK e, f \in Nat : Score(d, r, w) = <<e, f, Name[d]>>
  BY ScoreType
<1>3. Name[c] \in Nat /\ Name[d] \in Nat /\ Name[c] # Name[d]
  BY OrderAssumption
<1>. DEFINE p == <<a, b, Name[c]>>
            q == <<e, f, Name[d]>>
<1>4. CASE a # e
  <2>1. p[1] # q[1] /\ 1 \in DOMAIN p /\ 1 \in DOMAIN q /\ 1..(1 - 1) = {}
    BY <1>4
  <2>2. p[1] < q[1] \/ q[1] < p[1]
    BY <1>4
  <2>. QED
    BY <1>1, <1>2, <2>1, <2>2 DEF Less
<1>5. CASE a = e /\ b # f
  <2>1. 2 \in DOMAIN p /\ 2 \in DOMAIN q /\ \A j \in 1..(2 - 1) : j = 1
    OBVIOUS
  <2>2. p[1] = q[1] /\ (p[2] < q[2] \/ q[2] < p[2])
    BY <1>5
  <2>. QED
    BY <1>1, <1>2, <2>1, <2>2 DEF Less
<1>6. CASE a = e /\ b = f
  <2>1. 3 \in DOMAIN p /\ 3 \in DOMAIN q /\ \A j \in 1..(3 - 1) : j = 1 \/ j = 2
    OBVIOUS
  <2>2. p[1] = q[1] /\ p[2] = q[2] /\ (p[3] < q[3] \/ q[3] < p[3])
    BY <1>3, <1>6
  <2>. QED
    BY <1>1, <1>2, <2>1, <2>2 DEF Less
<1>. QED
  BY <1>4, <1>5, <1>6

\* So one channel wins at most.
LEMMA OneWins ==
    ASSUME NEW S \in SUBSET Channels, NEW c, NEW d, NEW r, NEW w, Wins(c, S, r, w), Wins(d, S, r, w)
    PROVE  c = d
  BY ScoresDiffer DEF Wins

LEMMA SelectedAreSuitable ==
    ASSUME TypeOK, ~case.bypass, Device = Nothing, NEW w, NEW c \in Selected(w)
    PROVE  c \in LocalTargets(Suitable(w), w) /\ c \in Suitable(w) /\ Suitable(w) \subseteq Channels
<1>1. ~Bypassed(w)
  BY DEF Bypassed
<1>2. \A S : ~ByDevice(S)
  BY DEF ByDevice, ReachesDevice
<1>3. c \in LocalTargets(Suitable(w), w)
  BY <1>1, <1>2 DEF Selected
<1>4. Suitable(w) \subseteq Channels
  <2>1. case.requested \subseteq Channels /\ case.flowChannels \subseteq Channels
    BY CasesAssumption DEF TypeOK
  <2>2. \A S : S \subseteq Channels => Expanded(S, w) \subseteq Channels
    BY DEF Expanded, Local
  <2>. QED
    BY <2>1, <2>2 DEF Suitable, Eligible, Named
<1>. QED
  BY <1>3, <1>4 DEF LocalTargets

-----------------------------------------------------------------------------
(* Occupied-room routing: a channel is heard in its own room.              *)

\* The channel has no device in its own room.
Deviceless(c) ==
    LET q == Canon[ChannelRoom[c]]
    IN  /\ Kind[c] = "tts" /\ EntityId[c] = Nothing /\ q \notin DOMAIN RoomTargets[c]
        /\ q \in DOMAIN AudioTargets[c] => AudioTargets[c][q] = {}

InOwnRoom(t, c) ==
    /\ ChannelRoom[c] # Nothing
    /\ IF t = Nothing THEN Deviceless(c) ELSE At[t] = Canon[ChannelRoom[c]]

OwnRoom ==
    Unguided =>
        /\ Trying /\ channel \in Local => \A t \in untried \cup {target} : InOwnRoom(t, channel)
        /\ \A c \in Local : first[c] # Nothing => InOwnRoom(first[c], c)

LEMMA OwnTargets ==
    ASSUME TypeOK, Unguided, NEW c \in Channels, c \in Local, ChannelRoom[c] # Nothing, NEW w,
           NEW q, q = Canon[ChannelRoom[c]]
    PROVE  /\ ChannelDeliveryRoom(c, w) = q /\ DesiredRoom(q) = q /\ q \in Rooms /\ ExplicitAudio(c) = {}
           /\ TargetEntity(c, q) = IF q \in DOMAIN RoomTargets[c] THEN RoomTargets[c][q] ELSE EntityId[c]
           /\ TargetEntity(c, q) # Nothing => At[TargetEntity(c, q)] = q
           /\ RoomAudio(c, q) = IF q \in DOMAIN AudioTargets[c] THEN AudioTargets[c][q] ELSE {}
           /\ \A t \in RoomAudio(c, q) : t # Nothing /\ At[t] = q
<1>1. q \in Rooms /\ q # Nothing /\ Canon[q] = q
  BY MappingsAssumption, CanonAssumption, NothingAssumption
<1>2. ChannelDeliveryRoom(c, w) = q /\ DesiredRoom(q) = q /\ ExplicitAudio(c) = {}
  BY <1>1 DEF ChannelDeliveryRoom, DesiredRoom, ExplicitAudio, Unguided
<1>3. TargetEntity(c, q) = IF q \in DOMAIN RoomTargets[c] THEN RoomTargets[c][q] ELSE EntityId[c]
  BY <1>2 DEF TargetEntity, Unguided
<1>4. TargetEntity(c, q) # Nothing => At[TargetEntity(c, q)] = q
  BY <1>1, <1>3, TruthfulAssumption
<1>5. RoomAudio(c, q) = IF q \in DOMAIN AudioTargets[c] THEN AudioTargets[c][q] ELSE {}
  BY DEF RoomAudio, Unguided
<1>6. \A t \in RoomAudio(c, q) : At[t] = q
  BY <1>1, <1>5, TruthfulAssumption
<1>7. \A t \in RoomAudio(c, q) : t # Nothing
  BY RoomAudioType, NothingAssumption
<1>. QED
  BY <1>1, <1>2, <1>3, <1>4, <1>5, <1>6, <1>7

\* What is tried first, and what is left to fall back to.
LEMMA PreparedInOwnRoom ==
    ASSUME TypeOK, Unguided, Prepare, channel \in Local, pc' = "guard"
    PROVE  \A t \in untried' \cup {target'} : InOwnRoom(t, channel)
<1>. DEFINE d == ChannelDeliveryRoom(channel, seen)
<1>1. channel \in Channels
  BY DEF Prepare, TypeOK
<1>2. /\ ~PolicyRejects(channel, seen)
      /\ \/ Kind[channel] = "tts" /\ Try(TtsTargets(channel, d))
         \/ Kind[channel] = "tts_hume" /\ EntityId[channel] # Nothing /\ Try({EntityId[channel]})
         \/ /\ Kind[channel] = "tv" /\ TargetEntity(channel, d) \in Entities
            /\ Try({TvTarget(channel, d)})
  BY PrepareTries DEF Finish
<1>3. ChannelRoom[channel] # Nothing
  BY <1>2 DEF PolicyRejects, Unguided, InRoom
<1>4. PICK q : q = Canon[ChannelRoom[channel]]
  OBVIOUS
<1>5. /\ d = q /\ DesiredRoom(q) = q /\ q \in Rooms /\ ExplicitAudio(channel) = {}
      /\ TargetEntity(channel, q) = IF q \in DOMAIN RoomTargets[channel] THEN RoomTargets[channel][q] ELSE EntityId[channel]
      /\ TargetEntity(channel, q) # Nothing => At[TargetEntity(channel, q)] = q
      /\ RoomAudio(channel, q) = IF q \in DOMAIN AudioTargets[channel] THEN AudioTargets[channel][q] ELSE {}
      /\ \A t \in RoomAudio(channel, q) : t # Nothing /\ At[t] = q
  BY <1>1, <1>3, <1>4, OwnTargets
<1>6. ASSUME NEW S, Try(S), \A t \in S : InOwnRoom(t, channel)
      PROVE  \A t \in untried' \cup {target'} : InOwnRoom(t, channel)
  BY <1>6, TryWithin
<1>7. CASE Kind[channel] = "tts" /\ Try(TtsTargets(channel, d))
  <2>1. CASE RoomAudio(channel, q) # {}
    <3>1. TtsTargets(channel, d) \subseteq RoomAudio(channel, q)
      BY <1>5, <2>1 DEF TtsTargets
    <3>2. \A t \in TtsTargets(channel, d) : InOwnRoom(t, channel)
      BY <1>3, <1>4, <1>5, <3>1 DEF InOwnRoom
    <3>. QED
      BY <1>6, <1>7, <3>2
  <2>2. CASE RoomAudio(channel, q) = {}
    <3>1. TtsTargets(channel, d) = {TargetEntity(channel, q)}
      BY <1>5, <2>2 DEF TtsTargets
    <3>2. TargetEntity(channel, q) # Nothing => InOwnRoom(TargetEntity(channel, q), channel)
      BY <1>3, <1>4, <1>5 DEF InOwnRoom
    <3>3. ASSUME TargetEntity(channel, q) = Nothing PROVE Deviceless(channel)
      <4>1. q \notin DOMAIN RoomTargets[channel]
        BY <1>1, <1>5, <3>3, MappingsAssumption, NothingAssumption, InRange
      <4>. QED
        BY <1>4, <1>5, <1>7, <2>2, <3>3, <4>1 DEF Deviceless
    <3>4. InOwnRoom(TargetEntity(channel, q), channel)
      BY <1>3, <3>2, <3>3 DEF InOwnRoom
    <3>. QED
      BY <1>6, <1>7, <3>1, <3>4
  <2>. QED
    BY <2>1, <2>2
<1>8. CASE Kind[channel] = "tts_hume" /\ EntityId[channel] # Nothing /\ Try({EntityId[channel]})
  <2>1. InOwnRoom(EntityId[channel], channel)
    BY <1>1, <1>3, <1>8, TruthfulAssumption DEF InOwnRoom
  <2>. QED
    BY <1>6, <1>8, <2>1
<1>9. CASE Kind[channel] = "tv" /\ TargetEntity(channel, d) \in Entities /\ Try({TvTarget(channel, d)})
  <2>1. TargetEntity(channel, q) # Nothing /\ InOwnRoom(TargetEntity(channel, q), channel)
    BY <1>3, <1>4, <1>5, <1>9, NothingAssumption DEF InOwnRoom
  <2>2. TvService(channel, q) = (IF q \in DOMAIN NotifyServices[channel] THEN NotifyServices[channel][q] ELSE Service[channel])
    BY <1>5 DEF TvService, Unguided
  <2>3. Canon[q] = q
    BY <1>5, CanonAssumption
  <2>4. TvService(channel, q) \in Overlays => At[TvService(channel, q)] = q
    BY <1>1, <1>3, <1>4, <2>2, <2>3, TruthfulAssumption
  <2>5. CASE TvService(channel, q) \notin Overlays
    BY <1>5, <1>6, <1>9, <2>1, <2>5 DEF TvTarget
  <2>6. CASE TvService(channel, q) \in Overlays /\ TvService(channel, q) # Nothing
    <3>1. InOwnRoom(TvService(channel, q), channel)
      BY <1>3, <1>4, <2>4, <2>6 DEF InOwnRoom
    <3>. QED
      BY <1>5, <1>6, <1>9, <2>6, <3>1 DEF TvTarget
  <2>7. TvService(channel, d) # Nothing
    BY <1>9, PrepareTries DEF Finish
  <2>. QED
    BY <1>5, <2>5, <2>6, <2>7
<1>. QED
  BY <1>2, <1>7, <1>8, <1>9

LEMMA StepOwnRoom ==
    ASSUME TypeOK, OwnRoom, [Next]_vars
    PROVE  OwnRoom'
<1>0. UNCHANGED case /\ (Unguided' <=> Unguided)
  <2>1. UNCHANGED case
    BY DEF Next, vars, progressVars, WorldChanges, PreviewRoute, StartRoute, NextChannel, Rendered, Prepare, GuardedCall,
           CallSucceeds, CallFails, EndRoute
  <2>. QED
    BY <2>1 DEF Unguided, Device, RuleRoom
<1>. SUFFICES ASSUME Unguided PROVE OwnRoom'
  BY <1>0 DEF OwnRoom
<1>1. CASE UNCHANGED first /\ ~Trying'
  BY <1>1 DEF OwnRoom, InOwnRoom, Deviceless
<1>2. CASE UNCHANGED <<channel, target, untried, first>> /\ Trying
  BY <1>2 DEF OwnRoom, InOwnRoom, Deviceless
<1>3. CASE Prepare
  <2>1. UNCHANGED channel /\ channel \in Channels /\ pc = "prepare"
    BY <1>3 DEF Prepare, TypeOK
  <2>2. CASE pc' # "guard"
    BY <1>1, <1>3, <2>2, PrepareTries DEF Finish, Trying, Try
  <2>3. CASE pc' = "guard"
    <3>1. first' = [first EXCEPT ![channel] = target'] /\ first \in [Channels -> Places]
      BY <1>3, <2>3, PrepareTries DEF Finish, TypeOK, Places
    <3>2. channel \in Local => \A t \in untried' \cup {target'} : InOwnRoom(t, channel)
      BY <1>3, <2>3, PreparedInOwnRoom
    <3>3. ASSUME NEW c \in Local, first'[c] # Nothing PROVE InOwnRoom(first'[c], c)
      <4>1. CASE c = channel
        BY <2>1, <3>1, <3>2, <3>3, <4>1
      <4>2. CASE c # channel
        BY <3>1, <3>3, <4>2 DEF OwnRoom, Local
      <4>. QED
        BY <4>1, <4>2
    <3>. QED
      BY <2>1, <3>2, <3>3 DEF OwnRoom, InOwnRoom, Deviceless
  <2>. QED
    BY <2>2, <2>3
<1>4. CASE CallFails
  <2>1. UNCHANGED <<channel, first>> /\ Trying
    BY <1>4 DEF CallFails, Trying
  <2>2. CASE pc' # "next" 
    <3>1. target' \in untried /\ untried' \subseteq untried
      BY <1>4, <2>2, TryWithin DEF CallFails, Finish
    <3>2. channel \in Local => \A t \in untried' \cup {target'} : InOwnRoom(t, channel)
      BY <2>1, <3>1 DEF OwnRoom
    <3>. QED
      BY <2>1, <3>2 DEF OwnRoom, InOwnRoom, Deviceless
  <2>3. CASE pc' = "next"
    BY <1>1, <2>1, <2>3 DEF Trying
  <2>. QED
    BY <2>2, <2>3
<1>5. CASE UNCHANGED vars \/ WorldChanges
  <2>1. UNCHANGED <<channel, target, untried, first, pc>>
    BY <1>5 DEF vars, progressVars, WorldChanges
  <2>. QED
    BY <1>1, <1>2, <2>1 DEF Trying
<1>6. CASE PreviewRoute \/ StartRoute \/ NextChannel \/ Rendered \/ CallSucceeds \/ EndRoute
  <2>1. UNCHANGED first /\ pc' \notin {"guard", "calling"}
    BY <1>6 DEF PreviewRoute, StartRoute, NextChannel, Rendered, CallSucceeds, EndRoute, Finish, progressVars
  <2>. QED
    BY <1>1, <2>1 DEF Trying
<1>7. CASE GuardedCall
  <2>1. UNCHANGED <<channel, target, untried, first>> /\ Trying
    BY <1>7 DEF GuardedCall, Trying
  <2>. QED
    BY <1>2, <2>1
<1>. QED
  BY <1>3, <1>4, <1>5, <1>6, <1>7 DEF Next

-----------------------------------------------------------------------------
(* One speaker in a room.                                                  *)

LEMMA Outspoken ==
    ASSUME TypeOK, Course, OwnRoom
    PROVE  OneSpeaker
<1>. SUFFICES ASSUME ~case.bypass, Device = Nothing, NEW c \in Spoken, NEW d \in Spoken, c # d
              PROVE  IF case.occupiedRouting
                     THEN RuleRoom = Nothing /\ case.group = Nothing /\ At[first[c]] = At[first[d]] =>
                             (Kind[c] = "tv") # (Kind[d] = "tv")
                     ELSE LET r == DeliveryRoom(Nothing, start)
                          IN  {c, d} \subseteq OfRoom(Channels, r) /\ r # Nothing =>
                                 \A e \in Suitable(start) : ~Reachable(e, r, start)
  BY DEF OneSpeaker
<1>1. c \in Local /\ d \in Local /\ Local \subseteq Channels
  BY DEF Spoken, Local
<1>2. c \in Selected(start) /\ d \in Selected(start)
  BY <1>1 DEF Spoken, Course
<1>3. PICK S : S = Suitable(start)
  OBVIOUS
<1>4. /\ c \in LocalTargets(S, start) /\ d \in LocalTargets(S, start)
      /\ c \in S /\ d \in S /\ S \subseteq Channels
  BY <1>2, <1>3, SelectedAreSuitable
<1>5. CASE case.occupiedRouting
  <2>. SUFFICES ASSUME RuleRoom = Nothing, case.group = Nothing, At[first[c]] = At[first[d]],
                       (Kind[c] = "tv") = (Kind[d] = "tv")
                PROVE  FALSE
    BY <1>5
  <2>1. first[c] # Nothing /\ first[d] # Nothing
    BY DEF Spoken
  <2>2. InOwnRoom(first[c], c) /\ InOwnRoom(first[d], d)
    BY <1>1, <1>5, <2>1 DEF OwnRoom, Unguided
  <2>3. /\ ChannelRoom[c] # Nothing /\ ChannelRoom[d] # Nothing
        /\ Canon[ChannelRoom[c]] = Canon[ChannelRoom[d]]
    BY <2>1, <2>2 DEF InOwnRoom
  <2>4. PICK q : q = Canon[ChannelRoom[c]]
    OBVIOUS
  <2>5. Wins(c, Rivals(c, S, start), q, start) /\ Wins(d, Rivals(d, S, start), q, start)
    BY <1>1, <1>4, <1>5, <2>3, <2>4 DEF LocalTargets
  <2>6. Rivals(c, S, start) = Rivals(d, S, start)
    BY <2>3 DEF Rivals
  <2>7. Rivals(c, S, start) \subseteq Channels
    BY <1>4 DEF Rivals
  <2>. QED
    BY <2>5, <2>6, <2>7, OneWins
<1>6. CASE ~case.occupiedRouting
  <2>1. PICK r : r = DeliveryRoom(Nothing, start)
    OBVIOUS
  <2>. SUFFICES ASSUME {c, d} \subseteq OfRoom(Channels, r), r # Nothing, NEW e \in S, Reachable(e, r, start)
                PROVE  FALSE
    BY <1>3, <1>6, <2>1
  <2>2. c \in OfRoom(S, r) /\ d \in OfRoom(S, r)
    BY <1>4 DEF OfRoom
  <2>3. Compete(S, r, start)
    BY <1>6, <2>2 DEF Compete
  <2>4. PICK heard : heard = {f \in S : Reachable(f, r, start)}
    OBVIOUS
  <2>5. Wins(c, heard, r, start) /\ Wins(d, heard, r, start)
    BY <1>4, <1>6, <2>1, <2>2, <2>3, <2>4 DEF LocalTargets
  <2>6. heard \subseteq Channels
    BY <1>4, <2>4
  <2>. QED
    BY <2>5, <2>6, OneWins
<1>. QED
  BY <1>5, <1>6

\* One voice and one TV at most speak in an occupied room, and one device in the
\* room of a delivery if one could be heard there, for every configuration and
\* however the home changes meanwhile.
THEOREM OneSpeaks == Spec => []OneSpeaker
<1>. DEFINE Inv == TypeOK /\ Course /\ OwnRoom
<1>1. Init => Inv
  BY InitType DEF Init, Course, OwnRoom, Serving, Trying, Local
<1>2. Inv /\ [Next]_vars => Inv'
  BY StepType, StepCourse, StepOwnRoom
<1>3. Inv => OneSpeaker
  BY Outspoken
<1>. QED
  BY <1>1, <1>2, <1>3, PTL DEF Spec

-----------------------------------------------------------------------------
(* The place of a call at its moment.                                      *)

CallInPlace ==
    /\ channel \in Local /\ case.occupiedRouting => \E r \in world.occupied : InRoom(channel, r)
    /\ channel \in Local /\ Unguided =>
          At[target] \in world.occupied \/ (case.bypass /\ target = Nothing)
    /\ channel \in Remote /\ Refresh /\ ~case.bypass => ZoneMatches(channel, world)
    /\ channel \in Local /\ case.ruleText => ~world.quiet

\* The policy admits every channel that is selected.
LEMMA SelectedAreAdmitted ==
    ASSUME NEW w, NEW c \in Selected(w)
    PROVE  ~PolicyRejects(c, w)
  BY DEF Selected, LocalTargets, Suitable, Eligible

\* A channel without a device in its own room does not win there.
LEMMA DevicelessLoses ==
    ASSUME TypeOK, Unguided, ~case.bypass, NEW w \in Worlds, NEW c \in Selected(w), c \in Channels, c \in Local,
           ChannelRoom[c] # Nothing
    PROVE  ~Deviceless(c)
<1>. SUFFICES ASSUME Deviceless(c) PROVE FALSE
  OBVIOUS
<1>1. PICK q : q = Canon[ChannelRoom[c]]
  OBVIOUS
<1>2. Device = Nothing /\ case.occupiedRouting
  BY DEF Unguided
<1>3. c \in LocalTargets(Suitable(w), w)
  BY <1>2, SelectedAreSuitable
<1>4. c \in Rivals(c, Suitable(w), w)
  BY <1>2, <1>3 DEF LocalTargets, Wins
<1>5. Reachable(c, q, w)
  BY <1>1, <1>4 DEF Rivals
<1>6. /\ DesiredRoom(q) = q /\ ExplicitAudio(c) = {} /\ RoomAudio(c, q) = {} /\ TargetEntity(c, q) = Nothing
  BY <1>1, OwnTargets DEF Deviceless
<1>7. RoomAudioTarget(c, q, w) = {}
  BY <1>6 DEF RoomAudioTarget
<1>8. Nothing \in w.on
  BY <1>5, <1>6, <1>7 DEF Reachable, Deviceless
<1>. QED
  BY <1>8, WorldsAssumption, NothingAssumption

LEMMA GuardedCallInPlace ==
    ASSUME TypeOK, OwnRoom, GuardedCall, pc' = "calling"
    PROVE  CallInPlace
<1>1. channel \in Channels /\ world \in Worlds /\ Trying
  BY DEF GuardedCall, TypeOK, Trying
<1>2. Refresh /\ channel \in Local \cup Remote => channel \in Selected(world)
  BY DEF GuardedCall, Finish
<1>3. ASSUME channel \in Local, case.occupiedRouting
      PROVE  /\ channel \in Selected(world)
             /\ \E r \in world.occupied : InRoom(channel, r)
  <2>1. channel \in Selected(world) /\ ~PolicyRejects(channel, world)
    BY <1>2, <1>3, SelectedAreAdmitted DEF Refresh
  <2>. QED
    BY <1>3, <2>1 DEF PolicyRejects
<1>6. ASSUME channel \in Local, Unguided
      PROVE  At[target] \in world.occupied \/ (case.bypass /\ target = Nothing)
  <2>1. channel \in Selected(world) /\ ChannelRoom[channel] # Nothing /\ Canon[ChannelRoom[channel]] \in world.occupied
    BY <1>3, <1>6 DEF InRoom, Unguided
  <2>2. InOwnRoom(target, channel)
    BY <1>1, <1>6 DEF OwnRoom
  <2>3. CASE target # Nothing
    BY <2>1, <2>2, <2>3 DEF InOwnRoom
  <2>4. CASE target = Nothing
    BY <1>1, <1>6, <2>1, <2>2, <2>4, DevicelessLoses DEF InOwnRoom
  <2>. QED
    BY <2>3, <2>4
<1>4. ASSUME channel \in Remote, Refresh, ~case.bypass
      PROVE  ZoneMatches(channel, world)
  <2>1. channel \in Selected(world) /\ ~Bypassed(world)
    BY <1>2, <1>4 DEF Bypassed
  <2>. QED
    BY <2>1 DEF Selected
<1>5. ASSUME channel \in Local, case.ruleText
      PROVE  ~world.quiet
  <2>1. ~PolicyRejects(channel, world)
    BY <1>2, <1>5, SelectedAreAdmitted DEF Refresh
  <2>. QED
    BY <1>5, <2>1 DEF PolicyRejects
<1>. QED
  BY <1>3, <1>4, <1>5, <1>6 DEF CallInPlace

\* Whatever the home has done since the channel was selected, at the moment of
\* a call the room of the channel that sounds is occupied, and what sounds is in
\* an occupied room unless a rule, a device or a group turns it elsewhere; a phone
\* is in the requested zone, and text_only keeps quiet hours quiet.
THEOREM CallsAreInPlace == Spec => CalledInPlace
<1>. DEFINE Inv == TypeOK /\ OwnRoom
<1>1. Init => Inv
  BY InitType DEF Init, OwnRoom, Trying, Local
<1>2. Inv /\ [Next]_vars => Inv'
  BY StepType, StepOwnRoom
<1>3. ASSUME Inv, [Next]_vars
      PROVE  [pc # "calling" /\ pc' = "calling" => CallInPlace]_vars
  <2>. SUFFICES ASSUME Next, pc # "calling", pc' = "calling" PROVE CallInPlace
    BY <1>3
  <2>1. GuardedCall
    <3>1. ~(WorldChanges \/ PreviewRoute \/ StartRoute \/ NextChannel \/ Rendered \/ CallSucceeds \/ CallFails \/ EndRoute)
      BY DEF WorldChanges, PreviewRoute, StartRoute, NextChannel, Rendered, CallSucceeds, CallFails, EndRoute, Finish, Try
    <3>2. ~Prepare
      BY <1>3, PrepareTries DEF Finish, Try
    <3>. QED
      BY <3>1, <3>2 DEF Next
  <2>. QED
    BY <1>3, <2>1, GuardedCallInPlace
<1>. QED
  BY <1>1, <1>2, <1>3, PTL DEF Spec, CalledInPlace, CallInPlace
=============================================================================
