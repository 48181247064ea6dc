CONSTANTS
    automations = automations
    package = package
    scripts = scripts
    secrets = secrets
    door = door
    speaker = speaker
    phone = phone
    c1 = c1
    calls = calls
    other = other
    route = route
    absent = absent
    unknown = unknown
    ask = ask
    nothing = nothing
    Files <- MCFiles
    Roots <- MCRoots
    Allowed <- MCAllowed
    Contents <- MCContents
    Missing = absent
    Readable <- MCReadable
    Includes <- MCIncludes
    Calls <- MCCalls
    Dynamic <- MCDynamic
    Route <- MCRoute
    NoRoute = nothing
    Codes <- MCCodes
    Keys <- MCKeys
    NoKey = unknown
    Unknown = unknown
    Channels <- MCChannels
    Types <- MCTypes
    Kind <- MCKind
    Edits <- MCEdits
    Stored <- MCStored
    Layouts <- MCLayouts
    Callers = {c1}
    FileLimit = 2
    MaxChanges = 1
    MaxFailures = 1
    MaxGen = 2
SPECIFICATION FairSpec
INVARIANTS
    TypeOK Honest ShownIsUsed PolicySaved
PROPERTIES
    EventuallyCurrent
CHECK_DEADLOCK FALSE
