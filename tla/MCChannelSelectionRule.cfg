SPECIFICATION Spec
CONSTANTS
    auto = auto
    speaker = speaker
    tv = tv
    tvAuto = tvAuto
    mute = mute
    hume = hume
    twice = twice
    phone = phone
    tray = tray
    alice = alice
    nothing = nothing
    kitchen = kitchen
    cuisine = cuisine
    bedroom = bedroom
    alisa = alisa
    homepod = homepod
    bedSpeaker = bedSpeaker
    kitchenTv = kitchenTv
    bedTv = bedTv
    say = say
    toast = toast
    kitchenNotify = kitchenNotify
    bedNotify = bedNotify
    Nothing = nothing
    Anywhere = anywhere
    VoiceAuto = auto
    Channels <- MCChannels
    Users = {alice}
    Rooms = {kitchen, bedroom}
    Keys = {kitchen, cuisine, bedroom}
    Canon <- MCCanon
    Entities <- MCEntities
    Services <- MCServices
    Overlays = {kitchenNotify, bedNotify}
    At <- MCAt
    Kind <- MCTypes
    Owner <- MCOwner
    ChannelRoom <- MCChannelRoom
    EntityId <- MCEntityId
    Service <- MCService
    RoomTargets <- MCRoomTargets
    AudioTargets <- MCAudioTargets
    NotifyServices <- MCNotifyServices
    QuietPolicy <- MCQuietPolicy
    AwayChannels = {}
    Name <- MCName
    TargetOrder <- MCTargetOrder
    TargetRank <- MCTargetRank
    Cases <- MCCases
    Worlds <- MCWorlds
    MaxChanges = 1
PROPERTIES
    SoundWhereOccupied
CHECK_DEADLOCK FALSE
