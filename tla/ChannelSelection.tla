-------------------------- MODULE ChannelSelection --------------------------
(***************************************************************************)
(* Which channels, rooms and devices one notification reaches:             *)
(* _resolve_channel_names, its strategies, the resolution of targets, the  *)
(* route preview and the way of async_route through its channels, all of   *)
(* custom_components/herald/router.py.                                     *)
(*                                                                         *)
(* The preview and the delivery resolve the same request in two pieces of  *)
(* code; and the delivery resolves it again and again while players go on  *)
(* and off and rooms fill and empty.  The configuration speaks of rooms in *)
(* several ways: the room of a channel, mappings from rooms to devices and *)
(* to notify services, each under any alias of the room.                   *)
(*                                                                         *)
(* What the audience, the remote restrictions and the blocking conditions  *)
(* of a rule decide is in Delivery; here a case names the channels they    *)
(* bar, and its rule has only a room and text_only quiet hours.            *)
(***************************************************************************)
EXTENDS Integers, FiniteSets, Functions

CONSTANTS
    Channels, Users, Rooms,
    Keys, Canon,        \* spellings of rooms, and normalize_room of each
    Entities,           \* media players and groups
    Services, Overlays, \* services; the notify.* among them, bound to a device
    At,                 \* where a device or an overlay service is heard
    Nothing,            \* no room, device, service or user
    Anywhere,           \* the room "auto" or "all" of a request
    VoiceAuto,          \* the conceptual voice channel
    Kind,               \* Kind[c]: a channel type, one of Types
    Owner,              \* Owner[c]: its user, or Nothing
    ChannelRoom,        \* ChannelRoom[c]: a spelling of its room, or Nothing
    EntityId, Service,  \* its default device and service, or Nothing
    RoomTargets,        \* RoomTargets[c]: a device for some spellings
    AudioTargets,       \* AudioTargets[c]: devices for some spellings
    NotifyServices,     \* NotifyServices[c]: a service for some spellings
    QuietPolicy,        \* QuietPolicy[c]: what its configuration says of quiet hours
    AwayChannels,       \* those configured for an empty home, {} for none
    Name,               \* Name[c]: its place in the order of names
    TargetOrder,        \* TargetOrder[t]: its place in the order preferred in its room
    TargetRank,         \* TargetRank[t]: its kind, 0 for alisa and 1 for the others
    Cases,              \* requests
    Worlds,             \* states of the home considered
    MaxChanges          \* bound on the changes of the home during the delivery

Types == {"mobile_app", "telegram", "tts", "tts_hume", "tv",
          "dashboard", "persistent_notification", "system_log"}
Local == {c \in Channels : Kind[c] \in {"tts", "tts_hume", "tv"}}
Remote == {c \in Channels : Kind[c] \in {"mobile_app", "telegram"}}

ASSUME NothingAssumption ==
    {Nothing, Anywhere} \cap (Rooms \cup Keys \cup Entities \cup Services \cup Channels \cup Users) = {}
ASSUME CanonAssumption ==
    /\ Canon \in [Keys -> Rooms]
    /\ Rooms \subseteq Keys
    /\ \A r \in Rooms : Canon[r] = r
ASSUME MappingsAssumption ==
    \A c \in Channels :
        /\ QuietPolicy[c] \in {"default", "allow", "block"}
        /\ Kind[c] \in Types /\ Owner[c] \in Users \cup {Nothing}
        /\ ChannelRoom[c] \in Keys \cup {Nothing}
        /\ EntityId[c] \in Entities \cup {Nothing}
        /\ Service[c] \in Services \cup {Nothing}
        /\ DOMAIN RoomTargets[c] \subseteq Keys /\ Range(RoomTargets[c]) \subseteq Entities
        /\ DOMAIN AudioTargets[c] \subseteq Keys /\ Range(AudioTargets[c]) \subseteq SUBSET Entities
        /\ DOMAIN NotifyServices[c] \subseteq Keys /\ Range(NotifyServices[c]) \subseteq Services
ASSUME OrderAssumption ==
    /\ TargetOrder \in [Entities -> Nat]
    /\ TargetRank \in [Entities -> 0..1]
    /\ Name \in [Channels -> Nat]
    /\ \A c, d \in Channels : Name[c] = Name[d] => c = d
    /\ MaxChanges \in Nat
ASSUME CasesAssumption ==
    \A k \in Cases :
        /\ k.requested \subseteq Channels      \* context.channels
        /\ k.explicit \in BOOLEAN              \* the request or a delivery mode names them
        /\ k.flowChannels \subseteq Channels
        /\ k.bypass \in BOOLEAN
        /\ k.barred \subseteq Channels         \* by family, level, audience or restrictions
        /\ k.room \in Rooms \cup {Nothing, Anywhere}
        /\ k.roomExplicit \in BOOLEAN
        /\ k.device \in Entities \cup Services \cup {Nothing}
        /\ k.group \in Entities \cup {Nothing} \* legacy_target_group
        /\ k.user \in Users \cup {Nothing}
        /\ k.userRooms \in [Users -> Rooms \cup {Nothing}]
        /\ k.zone \in BOOLEAN                  \* it asks for a zone of the phones
        /\ k.urgent \in BOOLEAN                \* critical or above
        /\ k.asleep \in BOOLEAN                \* activity sleeping or media_playing
        /\ k.ruleRoom \in Rooms \cup {Nothing} \* target_room
        /\ k.ruleText \in BOOLEAN              \* quiet_hours = text_only
        /\ k.occupiedRouting \in BOOLEAN
ASSUME WorldsAssumption ==
    Worlds \subseteq [on : SUBSET Entities,          \* players that may be used
                      occupied : SUBSET Rooms, nobody : BOOLEAN, quiet : BOOLEAN,
                      inZone : SUBSET Channels]      \* phones in the requested zone

\* The configuration tells the truth: what stands under a room is in it.
ASSUME TruthfulAssumption ==
    \A c \in Channels :
        /\ \A k \in DOMAIN RoomTargets[c] : At[RoomTargets[c][k]] = Canon[k]
        /\ \A k \in DOMAIN AudioTargets[c] : \A t \in AudioTargets[c][k] : At[t] = Canon[k]
        /\ \A k \in DOMAIN NotifyServices[c] :
              NotifyServices[c][k] \in Overlays => At[NotifyServices[c][k]] = Canon[k]
        /\ ChannelRoom[c] # Nothing =>
              /\ EntityId[c] # Nothing => At[EntityId[c]] = Canon[ChannelRoom[c]]
              /\ Service[c] \in Overlays => At[Service[c]] = Canon[ChannelRoom[c]]

VARIABLES
    case,      \* the request, its rule and the mode of routing
    world,     \* the home
    seen,      \* the home as the last check saw it
    pc,        \* where the delivery stands
    preview,   \* the preview: per channel its status and first target
    start,     \* the home as async_route selected its channels
    channel, target,  \* the channel being served, and the device
    untried,   \* its further targets
    first,     \* the first target tried on each channel
    result,    \* what became of each channel
    changes    \* how often the home has changed

progressVars == <<channel, target, untried, first, result>>
vars == <<case, world, seen, start, pc, preview, progressVars, changes>>

-----------------------------------------------------------------------------
(* Rooms and devices.                                                      *)

RuleRoom == case.ruleRoom
Device == case.device

\* Whether channels and transports are checked again.
Refresh == RuleRoom # Nothing \/ case.ruleText \/ case.occupiedRouting

\* Whether the channel has room r, under any of its spellings.
InRoom(c, r) == ChannelRoom[c] # Nothing /\ Canon[ChannelRoom[c]] = r

\* _policy_room_matches: the spellings of room r in a mapping.
Matches(mapping, r) == {k \in DOMAIN mapping : Canon[k] = r}

\* What the mapping says of room r if it says it once.
Sole(mapping, r, default) ==
    IF Cardinality(Matches(mapping, r)) = 1
    THEN mapping[CHOOSE k \in Matches(mapping, r) : TRUE] ELSE default

\* The room of the snapshot: the one asked for, or the first occupied one.
PrimaryRoom(w) ==
    IF case.room = Anywhere \/ w.occupied = {} THEN Nothing ELSE CHOOSE r \in w.occupied : TRUE

\* _resolve_delivery_room, for the profile of user u.
DeliveryRoom(u, w) ==
    IF RuleRoom # Nothing THEN RuleRoom
    ELSE IF case.room \in Rooms THEN case.room
    ELSE IF u \in Users THEN case.userRooms[u]
    ELSE IF case.user \in Users THEN case.userRooms[case.user]
    ELSE PrimaryRoom(w)

\* _channel_delivery_room.
ChannelDeliveryRoom(c, w) ==
    IF case.occupiedRouting /\ c \in Local /\ ChannelRoom[c] # Nothing
    THEN Canon[ChannelRoom[c]] ELSE DeliveryRoom(Owner[c], w)

\* desired_room: the room the targets are looked up for.
DesiredRoom(d) == IF RuleRoom # Nothing THEN RuleRoom ELSE IF d # Nothing THEN d ELSE case.room

\* _resolve_tts_entity_id, in delivery room d.
TargetEntity(c, d) ==
    IF RuleRoom # Nothing
    THEN IF Matches(RoomTargets[c], RuleRoom) # {} THEN Sole(RoomTargets[c], RuleRoom, Nothing)
         ELSE IF InRoom(c, RuleRoom) THEN EntityId[c] ELSE Nothing
    ELSE IF case.group # Nothing THEN case.group
    ELSE IF Device # Nothing /\ Device \in {EntityId[c]} \cup Range(RoomTargets[c]) THEN Device
    ELSE IF DesiredRoom(d) \in DOMAIN RoomTargets[c] THEN RoomTargets[c][DesiredRoom(d)]
    ELSE EntityId[c]

\* _room_audio_targets.
RoomAudio(c, r) ==
    IF RuleRoom # Nothing THEN Sole(AudioTargets[c], r, {})
    ELSE IF r \in DOMAIN AudioTargets[c] THEN AudioTargets[c][r] ELSE {}

\* _resolve_explicit_audio_target: the device the request names.
ExplicitAudio(c) ==
    IF RuleRoom = Nothing /\ Device # Nothing THEN {Device} \cap UNION Range(AudioTargets[c]) ELSE {}

\* _resolve_tv_service.
TvService(c, d) ==
    IF RuleRoom # Nothing
    THEN IF Matches(NotifyServices[c], RuleRoom) # {} THEN Sole(NotifyServices[c], RuleRoom, Nothing)
         ELSE IF InRoom(c, RuleRoom) \/ Service[c] \notin Overlays THEN Service[c] ELSE Nothing
    ELSE IF Device # Nothing /\ Device = Service[c] THEN Service[c]
    ELSE IF Device # Nothing /\ Device \in Range(RoomTargets[c])
    THEN LET k == CHOOSE k \in DOMAIN RoomTargets[c] : RoomTargets[c][k] = Device
         IN  IF k \in DOMAIN NotifyServices[c] THEN NotifyServices[c][k] ELSE Service[c]
    ELSE IF DesiredRoom(d) \in DOMAIN NotifyServices[c] THEN NotifyServices[c][DesiredRoom(d)]
    ELSE Service[c]

\* The first of a set of audio targets in _ordered_room_audio_targets.
FirstTarget(S) == CHOOSE t \in S : \A u \in S : TargetOrder[t] <= TargetOrder[u]

\* _resolve_room_audio_target: what is tried first, as a set of one or none.
RoomAudioTarget(c, d, w) ==
    IF ExplicitAudio(c) # {} THEN ExplicitAudio(c)
    ELSE LET ready == RoomAudio(c, DesiredRoom(d)) \cap w.on
         IN  IF ready = {} THEN {} ELSE {FirstTarget(ready)}

-----------------------------------------------------------------------------
(* The selection, _resolve_channel_names.                                  *)

\* Mistaken variant: an ambiguous or missing mapping is no reason.
RoomRejectsNot(c) == Kind[c] = "tts_hume" /\ ~(InRoom(c, RuleRoom) /\ EntityId[c] # Nothing)

\* The part of _policy_channel_rejection on the room of a rule: the channel
\* has no device, or no single one, in it.
RoomRejects(c) ==
    \/ Cardinality(Matches(RoomTargets[c], RuleRoom)) > 1
    \/ Cardinality(Matches(AudioTargets[c], RuleRoom)) > 1
    \/ Cardinality(Matches(NotifyServices[c], RuleRoom)) > 1
    \/ Kind[c] = "tts_hume" /\ ~(InRoom(c, RuleRoom) /\ EntityId[c] # Nothing)
    \/ Kind[c] = "tts" /\ RoomAudio(c, RuleRoom) = {} /\ TargetEntity(c, RuleRoom) = Nothing
    \/ Kind[c] = "tv" /\ Nothing \in {TargetEntity(c, RuleRoom), TvService(c, RuleRoom)}

\* Mistaken variant: occupancy is looked at once.
PolicyRejectsOccupiedOnce(c, w) ==
    \/ c \in case.barred
    \/ c \in Local /\ (RuleRoom # Nothing \/ case.ruleText) /\ (w.nobody \/ (case.ruleText /\ w.quiet))
    \/ c \in Local /\ RuleRoom # Nothing /\ RoomRejects(c)

\* _policy_channel_rejection.
PolicyRejects(c, w) ==
    \/ c \in case.barred
    \/ c \in Local /\ case.occupiedRouting /\ \A r \in w.occupied : ~InRoom(c, r)
    \/ c \in Local /\ (RuleRoom # Nothing \/ case.ruleText) /\ (w.nobody \/ (case.ruleText /\ w.quiet))
    \/ c \in Local /\ RuleRoom # Nothing /\ RoomRejects(c)

\* _expand_occupied_room_channels: the conceptual voice channel stands for the
\* local channels of each occupied room.
Expanded(S, w) ==
    LET asked == IF RuleRoom # Nothing THEN RuleRoom ELSE IF case.roomExplicit THEN case.room ELSE Nothing
        rooms == IF asked \in Rooms THEN {asked} \cap w.occupied ELSE w.occupied
    IN  IF case.occupiedRouting /\ VoiceAuto \in S
        THEN (S \ {VoiceAuto}) \cup {c \in Local : \E r \in rooms : InRoom(c, r)}
        ELSE S

\* The channels the request means.
Named(w) ==
    LET asked == Expanded(case.requested, w)
    IN  IF case.explicit \/ asked # {} THEN asked
        ELSE IF case.flowChannels # {} THEN Expanded(case.flowChannels, w)
        ELSE Expanded(Channels, w)

\* _channel_matches_device.
ReachesDevice(c) ==
    /\ Device # Nothing
    /\ Device \in {EntityId[c], Service[c]} \cup Range(RoomTargets[c]) \cup UNION Range(AudioTargets[c])

\* The device strategy applies: some eligible channel reaches the device.
ByDevice(S) == RuleRoom = Nothing /\ \E c \in S : ReachesDevice(c)

\* _channel_allowed_in_quiet_hours
QuietAllowed == {c \in Channels : QuietPolicy[c] = "allow" \/ (QuietPolicy[c] # "block" /\ c \notin Local)}

\* The presence and time strategies.
Suited(c, w) ==
    /\ w.nobody => c \in (IF AwayChannels # {} THEN AwayChannels ELSE Channels \ Local)
    /\ w.quiet => case.urgent \/ c \in QuietAllowed

\* _channel_matches_room; under a rule for any spelling.
MatchesRoom(c, r) ==
    IF RuleRoom # Nothing
    THEN \/ InRoom(c, r)
         \/ Cardinality(Matches(RoomTargets[c], r)) = 1
         \/ Cardinality(Matches(AudioTargets[c], r)) = 1
    ELSE ChannelRoom[c] = r \/ r \in DOMAIN RoomTargets[c]

\* _local_channel_score is not None: the channel can be heard in room r now.
Reachable(c, r, w) ==
    /\ c \in Local /\ MatchesRoom(c, r)
    /\ IF Kind[c] = "tv" THEN TargetEntity(c, r) \in w.on
       ELSE \/ RoomAudioTarget(c, r, w) # {}
            \/ RoomAudio(c, r) = {} /\ TargetEntity(c, r) \in w.on

\* Tuples of numbers compared like those of Python.
Less(p, q) == \E i \in DOMAIN p : p[i] < q[i] /\ \A j \in 1..(i - 1) : p[j] = q[j]

\* Its order: audio targets by kind and preference, then the default speaker,
\* TVs last, ties by name.
Score(c, r, w) ==
    IF Kind[c] = "tv" THEN <<2, 0, Name[c]>>
    ELSE IF RoomAudioTarget(c, r, w) = {} THEN <<1, 99, Name[c]>>
    ELSE LET t == CHOOSE t \in RoomAudioTarget(c, r, w) : TRUE
         IN  <<TargetRank[t], TargetOrder[t], Name[c]>>

\* c is the lowest of S.
Wins(c, S, r, w) == c \in S /\ \A d \in S : ~Less(Score(d, r, w), Score(c, r, w))

\* Voice and TV of an occupied room are chosen separately.
Rivals(c, S, w) ==
    {d \in S \cap Local : /\ (Kind[d] = "tv") = (Kind[c] = "tv")
                         /\ ChannelRoom[d] # Nothing /\ ChannelRoom[c] # Nothing
                         /\ Canon[ChannelRoom[d]] = Canon[ChannelRoom[c]]
                         /\ Reachable(d, Canon[ChannelRoom[d]], w)}

\* The local channels of S for the room of the delivery.
OfRoom(S, r) == {c \in S \cap Local : MatchesRoom(c, r)}

\* The channels meant that the policy admits.
Eligible(w) == {c \in Named(w) : ~PolicyRejects(c, w)}

\* Those left by the presence and time strategies, by the device
\* one where it applies.
Suitable(w) ==
    LET E == Eligible(w)
    IN  {c \in E : (ByDevice(E) => ReachesDevice(c)) /\ Suited(c, w)}

\* Several local channels of the room compete, and one can be heard.
Compete(S, r, w) ==
    /\ ~case.occupiedRouting
    /\ r # Nothing
    /\ \E c, d \in OfRoom(S, r) : c # d
    /\ \E c \in S : Reachable(c, r, w)

\* Mistaken variant: every local device of the room is kept.
LocalTargetsAll(S, w) == S

\* _apply_local_target_strategy: one device speaks in a room.
LocalTargets(S, w) ==
    LET r == DeliveryRoom(Nothing, w)
    IN  IF case.occupiedRouting
        THEN {c \in S : c \in Local => Wins(c, Rivals(c, S, w), Canon[ChannelRoom[c]], w)}
        ELSE IF Compete(S, r, w)
        THEN {c \in S : c \in OfRoom(S, r) => Wins(c, {d \in S : Reachable(d, r, w)}, r, w)}
        ELSE S

\* _channel_matches_requested_mobile_zone.
ZoneMatches(c, w) == case.zone /\ Kind[c] = "mobile_app" => c \in w.inZone

\* _resolve_channel_names: a bypass keeps only the policy's rejections.
Bypassed(w) == case.bypass /\ Expanded(case.requested, w) # {}
Selected(w) ==
    IF Bypassed(w) THEN Eligible(w)
    ELSE {c \in (IF ByDevice(Eligible(w)) THEN Suitable(w) ELSE LocalTargets(Suitable(w), w)) : ZoneMatches(c, w)}

\* The order of delivery: by severity and name, then sleepers' channels, those
\* of the room and its one device to the front, each order stable.
SeverityRank(c) ==
    IF case.urgent
    THEN CASE Kind[c] = "telegram" -> 0 [] Kind[c] = "mobile_app" -> 1
           [] Kind[c] = "persistent_notification" -> 2 [] Kind[c] = "tts_hume" -> 3
           [] Kind[c] = "tts" -> 4 [] Kind[c] = "tv" -> 5 [] Kind[c] = "dashboard" -> 6
           [] OTHER -> 7
    ELSE CASE Kind[c] = "dashboard" -> 0 [] Kind[c] = "persistent_notification" -> 1
           [] Kind[c] = "tts" -> 2 [] Kind[c] = "mobile_app" -> 3 [] Kind[c] = "telegram" -> 4
           [] Kind[c] = "system_log" -> 5 [] Kind[c] = "tv" -> 6 [] OTHER -> 7
Quiet(c) == Kind[c] \in {"mobile_app", "telegram", "persistent_notification"}
First(b) == IF b THEN 0 ELSE 1
SortKey(c, w) ==
    LET r == IF case.room = Nothing /\ RuleRoom = Nothing THEN PrimaryRoom(w)
             ELSE IF RuleRoom # Nothing THEN RuleRoom ELSE case.room
        ofRoom == ~ByDevice(Eligible(w)) /\ r \in Rooms
        room == DeliveryRoom(Nothing, w)
    IN  <<First(ofRoom /\ Compete(Suitable(w), room, w) /\ c \in OfRoom(Channels, room)),
          First(ofRoom /\ MatchesRoom(c, r)), First(case.asleep /\ Quiet(c)), SeverityRank(c), Name[c]>>

\* c is served before d: the channels of an owner together, an owner with the
\* first of them.
Before(c, d, w) ==
    LET Head(e) == CHOOSE h \in Selected(w) :
                      /\ Owner[h] = Owner[e]
                      /\ \A g \in Selected(w) : Owner[g] = Owner[e] => ~Less(SortKey(g, w), SortKey(h, w))
    IN  IF Owner[c] = Owner[d] THEN Less(SortKey(c, w), SortKey(d, w))
        ELSE Less(SortKey(Head(c), w), SortKey(Head(d), w))

-----------------------------------------------------------------------------
(* The preview and the delivery.                                           *)

\* Mistaken variant: the service is taken for the target whatever it is.
TvTargetService(c, d) == TvService(c, d)

\* What a TV is called by: the overlay service bound to it, or its device.
TvTarget(c, d) == IF TvService(c, d) \in Overlays THEN TvService(c, d) ELSE TargetEntity(c, d)

Shown(status, t) == [status |-> status, target |-> t]

\* _preview_channel_delivery.
PreviewOf(c, w) ==
    LET d == ChannelDeliveryRoom(c, w)
        audio == RoomAudioTarget(c, d, w)
    IN  IF PolicyRejects(c, w) THEN Shown("dropped", Nothing)
        ELSE CASE Kind[c] = "tts_hume" ->
                Shown(IF EntityId[c] = Nothing THEN "error" ELSE "planned", EntityId[c])
          [] Kind[c] = "tts" ->
                IF audio # {} THEN Shown("planned", CHOOSE t \in audio : TRUE)
                ELSE IF RoomAudio(c, DesiredRoom(d)) # {} THEN Shown("dropped", Nothing)
                ELSE Shown("planned", TargetEntity(c, d))
          [] Kind[c] = "tv" ->
                IF TargetEntity(c, d) = Nothing THEN Shown("error", Nothing)
                ELSE IF TargetEntity(c, d) \notin w.on THEN Shown("dropped", Nothing)
                ELSE Shown("planned", TvTarget(c, d))
          [] c \notin Local -> Shown("planned", Nothing)

Init ==
    /\ case \in Cases
    /\ world \in Worlds
    /\ seen = world
    /\ start = world
    /\ pc = "idle"
    /\ preview = [c \in {} |-> Shown("dropped", Nothing)]
    /\ channel = Nothing
    /\ target = Nothing
    /\ untried = {}
    /\ first = [c \in Channels |-> Nothing]
    /\ result = [c \in Channels |-> "none"]
    /\ changes = 0

\* The home changes, wherever the delivery is suspended.
WorldChanges ==
    /\ pc # "prepare"
    /\ changes < MaxChanges
    /\ changes' = changes + 1
    /\ world' \in Worlds \ {world}
    /\ UNCHANGED <<case, seen, start, pc, preview, progressVars>>

\* build_route_preview.
PreviewRoute ==
    /\ pc = "idle"
    /\ preview' = [c \in Selected(world) |-> PreviewOf(c, world)]
    /\ pc' = "previewed"
    /\ UNCHANGED <<case, world, seen, start, progressVars, changes>>

\* async_route selects its channels.
StartRoute ==
    /\ pc = "previewed"
    /\ start' = world
    /\ seen' = world
    /\ pc' = "next"
    /\ UNCHANGED <<case, world, preview, progressVars, changes>>

\* The channel has its result.
Finish(c, r) ==
    /\ result' = [result EXCEPT ![c] = r]
    /\ pc' = "next"

Unserved == {c \in Selected(start) : result[c] = "none"}

\* The next channel, checked again in the present home.
NextChannel ==
    /\ pc = "next"
    /\ \E c \in Unserved :
        /\ Bypassed(start) \/ \A d \in Unserved : ~Before(d, c, start)
        /\ channel' = c
        /\ seen' = IF Refresh THEN world ELSE seen
        /\ IF Refresh /\ c \notin Selected(world)
           THEN Finish(c, "dropped")
           ELSE pc' = (IF case.occupiedRouting THEN "render" ELSE "prepare") /\ UNCHANGED result
    /\ UNCHANGED <<case, world, start, preview, target, untried, first, changes>>

\* The text has been rendered for the room.
Rendered ==
    /\ pc = "render"
    /\ pc' = "prepare"
    /\ UNCHANGED <<case, world, seen, start, preview, progressVars, changes>>

\* Mistaken variant: players that are off are tried as well.
TtsTargetsAll(c, d) ==
    IF ExplicitAudio(c) # {} THEN ExplicitAudio(c)
    ELSE IF RoomAudio(c, DesiredRoom(d)) # {} THEN RoomAudio(c, DesiredRoom(d)) ELSE {TargetEntity(c, d)}

\* The targets of _async_send_tts; none if all of the room are unavailable.
TtsTargets(c, d) ==
    IF ExplicitAudio(c) # {} THEN ExplicitAudio(c)
    ELSE IF RoomAudio(c, DesiredRoom(d)) # {} THEN RoomAudio(c, DesiredRoom(d)) \cap world.on
    ELSE {TargetEntity(c, d)}

\* One of them is tried.
Try(S) ==
    /\ target' \in {t \in S : S = {t} \/ t = FirstTarget(S)}
    /\ untried' = S \ {target'}
    /\ pc' = "guard"

\* _async_send_channel up to its guard: the targets are resolved.
Prepare ==
    /\ pc = "prepare"
    /\ LET c == channel
           d == ChannelDeliveryRoom(c, seen)
       IN  \/ /\ \/ PolicyRejects(c, seen)
                 \/ Kind[c] = "tts" /\ TtsTargets(c, d) = {}
                 \/ Kind[c] = "tv" /\ TargetEntity(c, d) \in Entities \ world.on
              /\ Finish(c, "dropped")
              /\ UNCHANGED <<target, untried, first>>
           \/ /\ ~PolicyRejects(c, seen)
              /\ \/ Kind[c] = "tts_hume" /\ EntityId[c] = Nothing
                 \/ Kind[c] = "tv" /\ TargetEntity(c, d) = Nothing
                 \/ Kind[c] = "tv" /\ TargetEntity(c, d) \in world.on /\ TvService(c, d) = Nothing
              /\ Finish(c, "error")
              /\ UNCHANGED <<target, untried, first>>
           \/ /\ ~PolicyRejects(c, seen)
              /\ CASE Kind[c] = "tts" -> TtsTargets(c, d) # {} /\ Try(TtsTargets(c, d))
                   [] Kind[c] = "tts_hume" -> EntityId[c] # Nothing /\ Try({EntityId[c]})
                   [] Kind[c] = "tv" -> TargetEntity(c, d) \in world.on /\ TvService(c, d) # Nothing /\ Try({TvTarget(c, d)})
                   [] c \notin Local -> Try({Nothing})
              /\ first' = [first EXCEPT ![c] = target']
              /\ UNCHANGED result
    /\ UNCHANGED <<case, world, seen, start, preview, channel, changes>>

\* before_send right before the transport; text channels have no guard.
GuardedCall ==
    /\ pc = "guard"
    /\ IF Refresh /\ channel \in Local \cup Remote /\ channel \notin Selected(world)
       THEN Finish(channel, "dropped")
       ELSE pc' = "calling" /\ UNCHANGED result
    /\ UNCHANGED <<case, world, seen, start, preview, channel, target, untried, first, changes>>

CallSucceeds ==
    /\ pc = "calling"
    /\ Finish(channel, "sent")
    /\ UNCHANGED <<case, world, seen, start, preview, channel, target, untried, first, changes>>

\* The call, or what prepares it, raises: the next target is tried, and after
\* the last one, or a timeout, the channel has failed.
CallFails ==
    /\ pc \in {"guard", "calling"}
    /\ \/ untried # {} /\ Try(untried) /\ UNCHANGED result
       \/ Finish(channel, "error") /\ UNCHANGED <<target, untried>>
    /\ UNCHANGED <<case, world, seen, start, preview, channel, first, changes>>

EndRoute ==
    /\ pc = "next"
    /\ Unserved = {}
    /\ pc' = "done"
    /\ UNCHANGED <<case, world, seen, start, preview, progressVars, changes>>

Next ==
    \/ WorldChanges \/ PreviewRoute \/ StartRoute \/ NextChannel \/ Rendered \/ Prepare
    \/ GuardedCall \/ CallSucceeds \/ CallFails \/ EndRoute

Spec == Init /\ [][Next]_vars

-----------------------------------------------------------------------------
(* Properties.                                                             *)

TypeOK ==
    /\ case \in Cases
    /\ {world, seen, start} \subseteq Worlds
    /\ pc \in {"idle", "previewed", "next", "render", "prepare", "guard", "calling", "done"}
    /\ DOMAIN preview \subseteq Channels
    /\ pc \in {"render", "prepare", "guard", "calling"} => channel \in Channels
    /\ target \in Entities \cup Overlays \cup {Nothing}
    /\ untried \subseteq Entities \cup Overlays \cup {Nothing}
    /\ first \in [Channels -> Entities \cup Overlays \cup {Nothing}]
    /\ result \in [Channels -> {"none", "sent", "dropped", "error"}]
    /\ changes \in 0..MaxChanges

\* "A known room strictly limits voice/TV targets without fallback to another
\* room" (docs/api.md): whatever is called, and whatever is left to fall back
\* to, is heard in the room of the rule, also under a forced request, through
\* any spelling of the room, and whichever players went off meanwhile.
WithinRule ==
    pc \in {"guard", "calling"} /\ channel \in Local /\ RuleRoom # Nothing =>
        \A t \in untried \cup {target} : t # Nothing /\ At[t] = RuleRoom

\* Occupied-room routing alone decides where the request is heard.
Unguided == case.occupiedRouting /\ Device = Nothing /\ case.group = Nothing /\ RuleRoom = Nothing

\* At the moment of the call, whatever the home has done since the channel was
\* selected: under occupied-room routing, and whatever rule, device or force the
\* request comes with, the room of the channel that sounds is occupied; and if no
\* rule, device or group turns it elsewhere, what sounds is in an occupied room
\* (a forced request may call a service that takes no device).  A phone is called
\* only in the requested zone, and text_only keeps quiet hours quiet.  Under the
\* room of a rule see SoundWhereOccupied.
CalledInPlace ==
    [][pc # "calling" /\ pc' = "calling" =>
        /\ channel \in Local /\ case.occupiedRouting => \E r \in world.occupied : InRoom(channel, r)
        /\ channel \in Local /\ Unguided =>
              At[target] \in world.occupied \/ (case.bypass /\ target = Nothing)
        /\ channel \in Remote /\ Refresh /\ ~case.bypass => ZoneMatches(channel, world)
        /\ channel \in Local /\ case.ruleText => ~world.quiet]_vars

\* "An explicitly chosen room also requires confirmed occupancy" (docs/options.md,
\* on occupied-room routing): also under a rule with a room, what sounds is in an
\* occupied room.  The code asks for the occupancy of the channel's own room only,
\* and a rule's room may be reached through a mapping of a channel of another.
SoundWhereOccupied ==
    [][/\ pc # "calling" /\ pc' = "calling"
       /\ channel \in Local /\ case.occupiedRouting /\ Device = Nothing /\ case.group = Nothing
       => At[target] \in world.occupied \/ (case.bypass /\ target = Nothing)]_vars

\* "Keep only one local room device": in occupied rooms no two voices and no two
\* TVs speak in one room; else, of the channels that the configuration names for
\* the room, only one does if one that may be used could be heard when they were
\* selected.  A request that names a device is left its own.
Spoken == {c \in Local : result[c] \in {"sent", "error"} /\ first[c] # Nothing}
OneSpeaker ==
    ~case.bypass /\ Device = Nothing =>
        \A c, d \in Spoken : c # d =>
            IF case.occupiedRouting
            THEN RuleRoom = Nothing /\ case.group = Nothing /\ At[first[c]] = At[first[d]] =>
                    (Kind[c] = "tv") # (Kind[d] = "tv")
            ELSE LET r == DeliveryRoom(Nothing, start)
                 IN  {c, d} \subseteq OfRoom(Channels, r) /\ r # Nothing =>
                        \A e \in Suitable(start) : ~Reachable(e, r, start)

\* The preview says what the delivery does if the home stays as it is: the same
\* channels, dropped or tried alike, and tried at the same target; but a TV that
\* has no service is planned and then an error.
PreviewAgrees ==
    pc = "done" /\ changes = 0 =>
        /\ DOMAIN preview = {c \in Channels : result[c] # "none"}
        /\ \A c \in DOMAIN preview :
              /\ preview[c].status = "dropped" <=> result[c] = "dropped"
              /\ preview[c].status = "error" => result[c] = "error" /\ first[c] = Nothing
              /\ preview[c].status = "planned" =>
                    \/ first[c] = preview[c].target
                    \/ Kind[c] = "tv" /\ Service[c] = Nothing /\ result[c] = "error" /\ first[c] = Nothing
=============================================================================
