SPECIFICATION FairSpec
CONSTANTS
    level = level
    cooldown = cooldown
    ai = ai
    On = On
    Off = Off
    None = None
    Settings = {level, cooldown, ai}
    Values = {On, Off}
    Default <- MCDefault
    Entry <- MCNothing
    Legacy <- MCLegacy
    HasPath = {level, cooldown, ai}
    FormFields = {level, cooldown}
    AiEnabled = {ai}
    Dynamic = {level}
    YamlFiles <- MCYamlFiles
    FirstOptions <- MCOptions
    FirstStores <- MCStores
    FormsInSetup = FALSE
    LoadMayFail = FALSE
    MaxEdits = 2
    MaxStops = 1
INVARIANTS
    TypeOK
    LastEditWins
    InheritedFollows
    OfflineAgrees
PROPERTIES
    EditTakesEffect
