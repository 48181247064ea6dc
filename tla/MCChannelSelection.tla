------------------------- MODULE MCChannelSelection -------------------------
(* Two rooms, one of them spelled in two ways, with the voice, TV and Hume   *)
(* channels of Herald's discovery and of hand-written configurations, a TV    *)
(* without a service among them.                                             *)
EXTENDS ChannelSelection, TLC

CONSTANTS auto, speaker, tv, tvAuto, mute, hume, twice, phone, tray, alice, nothing,
          kitchen, cuisine, bedroom,
          alisa, homepod, bedSpeaker, kitchenTv, bedTv, say, toast, kitchenNotify, bedNotify

MCChannels == {auto, speaker, tv, tvAuto, mute, hume, twice, phone, tray}
MCEntities == {alisa, homepod, bedSpeaker, kitchenTv, bedTv}
MCServices == {say, toast, kitchenNotify, bedNotify}
MCCanon == kitchen :> kitchen @@ cuisine :> kitchen @@ bedroom :> bedroom
MCAt == alisa :> kitchen @@ homepod :> kitchen @@ kitchenTv :> kitchen @@ kitchenNotify :> kitchen
        @@ bedSpeaker :> bedroom @@ bedTv :> bedroom @@ bedNotify :> bedroom
MCTypes == auto :> "tts" @@ speaker :> "tts" @@ tv :> "tv" @@ tvAuto :> "tv" @@ mute :> "tv"
           @@ hume :> "tts_hume" @@ twice :> "tts" @@ phone :> "mobile_app" @@ tray :> "persistent_notification"
Of(f, default) == [c \in MCChannels |-> IF c \in DOMAIN f THEN f[c] ELSE default]
MCOwner == Of(phone :> alice, nothing)
MCChannelRoom == Of(speaker :> cuisine @@ tv :> kitchen @@ hume :> bedroom, nothing)
MCEntityId == Of(auto :> bedSpeaker @@ speaker :> homepod @@ tv :> kitchenTv @@ tvAuto :> bedTv @@ mute :> bedTv
                 @@ hume :> bedSpeaker @@ twice :> bedSpeaker, nothing)
MCService == Of(auto :> say @@ speaker :> say @@ tv :> toast @@ tvAuto :> bedNotify @@ twice :> say, nothing)
MCQuietPolicy == Of(auto :> "allow", "default")
None == [k \in {} |-> nothing]
MCRoomTargets == Of(auto :> (kitchen :> alisa @@ bedroom :> bedSpeaker)
                    @@ tv :> (bedroom :> bedTv)
                    @@ tvAuto :> (kitchen :> kitchenTv @@ bedroom :> bedTv)
                    @@ twice :> (kitchen :> homepod @@ cuisine :> alisa), None)
MCAudioTargets == Of(auto :> (kitchen :> {alisa, homepod} @@ bedroom :> {bedSpeaker}), None)
MCNotifyServices == Of(tvAuto :> (kitchen :> kitchenNotify), None)
MCName == auto :> 1 @@ hume :> 2 @@ phone :> 3 @@ speaker :> 4 @@ tray :> 5 @@ tv :> 6 @@ tvAuto :> 7 @@ twice :> 8 @@ mute :> 9
MCTargetOrder == alisa :> 1 @@ homepod :> 2 @@ bedSpeaker :> 1 @@ kitchenTv :> 1 @@ bedTv :> 2
MCTargetRank == alisa :> 0 @@ homepod :> 1 @@ bedSpeaker :> 0 @@ kitchenTv :> 1 @@ bedTv :> 1

Plain == [requested |-> {}, explicit |-> FALSE, flowChannels |-> {}, bypass |-> FALSE, barred |-> {},
          room |-> nothing, roomExplicit |-> FALSE, device |-> nothing, group |-> nothing,
          user |-> nothing, userRooms |-> [u \in {alice} |-> bedroom], zone |-> FALSE,
          urgent |-> FALSE, asleep |-> FALSE, ruleRoom |-> nothing, ruleText |-> FALSE,
          occupiedRouting |-> FALSE]

MCCases == {
    \* a rule with a room; forced, and against the request's own device, room and group
    [Plain EXCEPT !.ruleRoom = kitchen],
    [Plain EXCEPT !.ruleRoom = kitchen, !.bypass = TRUE, !.explicit = TRUE, !.requested = {auto, twice, hume, tvAuto}],
    [Plain EXCEPT !.ruleRoom = bedroom, !.ruleText = TRUE, !.urgent = TRUE, !.device = alisa, !.group = homepod,
                  !.flowChannels = {auto, tvAuto, hume, phone}, !.barred = {tray}],
    \* text_only, a zone, a sleeper
    [Plain EXCEPT !.ruleText = TRUE, !.zone = TRUE, !.asleep = TRUE, !.user = alice,
                  !.flowChannels = {auto, phone, tray}],
    \* no rule: a room, a device, a group, the user's room
    [Plain EXCEPT !.room = kitchen, !.roomExplicit = TRUE, !.flowChannels = {auto, speaker, tv, mute, tray}],
    [Plain EXCEPT !.device = alisa, !.requested = {auto, twice, tray}, !.explicit = TRUE, !.room = Anywhere],
    [Plain EXCEPT !.device = kitchenTv, !.requested = {tvAuto, speaker}, !.user = alice],
    [Plain EXCEPT !.group = homepod, !.requested = {auto, hume}, !.bypass = TRUE],
    \* occupied rooms
    [Plain EXCEPT !.occupiedRouting = TRUE, !.requested = {auto, tv, phone}, !.explicit = TRUE, !.zone = TRUE],
    [Plain EXCEPT !.occupiedRouting = TRUE, !.requested = {auto}, !.explicit = TRUE, !.room = kitchen, !.roomExplicit = TRUE],
    [Plain EXCEPT !.occupiedRouting = TRUE, !.flowChannels = {auto, tray, tv}, !.ruleRoom = kitchen],
    [Plain EXCEPT !.occupiedRouting = TRUE, !.flowChannels = {tray, tv}, !.ruleRoom = bedroom] }

Homes == [on : {{}, {alisa, kitchenTv}, {homepod, bedSpeaker}, MCEntities},
          occupied : {{}, {kitchen}, {kitchen, bedroom}}, nobody : {FALSE}, quiet : {FALSE}, inZone : {{phone}}]
MCWorlds == Homes \cup
    { [on |-> MCEntities, occupied |-> {kitchen}, nobody |-> n, quiet |-> q, inZone |-> {}] : n, q \in BOOLEAN }
=============================================================================
