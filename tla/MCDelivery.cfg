SPECIFICATION FairSpec
CONSTANTS
    u1 = u1
    u2 = u2
    kitchen = kitchen
    phone = phone
    speaker = speaker
    text = text
    Users = {u1, u2}
    Rooms = {kitchen}
    Channels = {phone, speaker, text}
    Nobody = Nobody
    Inherit = Inherit
    Kind <- MCKind
    Owner <- MCOwner
    RoomOf <- MCRoomOf
    Targets <- MCTargets
    Cases <- MCCases
    MaxChanges = 2
CHECK_DEADLOCK FALSE
INVARIANTS
    TypeOK
    SpokenOnce
    ResultsHonest
PROPERTIES
    GuardedPermitted
    NoResurrection
    TextPermittedUnrendered
    Ends
