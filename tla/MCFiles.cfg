\* Packages, uploads and edits with a crash at any point.
CONSTANTS
    k1 = k1
    k2 = k2
    r1 = r1
    r2 = r2
    plain = plain
    own = own
    KeyId = {k1, k2}
    Raw = {r1, r2}
    Package = {plain, team, own}
    PackageKeys <- Carried
    PackageSource <- Source
    MaxCrashes = 1
    MaxRequests = 2
    None = None
    Torn = Torn
    Text = {x1, x2}
    MaxFiles = 2
    MaxEdits = 4
    MaxStops = 1
    Missing = Missing
    Partial = Partial
SPECIFICATION FilesSpec
CHECK_DEADLOCK FALSE
INVARIANTS SavedKeysComplete NoStrayFiles SettingsWhole
PROPERTIES InstalledOnce HeldKeysSpec OnlySeenReplaced
