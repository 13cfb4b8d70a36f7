SPECIFICATION Spec
CONSTANTS
    d1 = d1
    d2 = d2
    owner = owner
    Actor <- MCActor
    RoleOf <- MCRoleOf
    DocumentId = {d1, d2}
    Path = {p, q}
    p = p
    q = q
    SchemaId = {s}
    NoSchema = NoSchema
    Content <- MCContent
    None = None
    Raised <- MCRaised
    Patches <- MCPatches
    MaxDocuments = 2
    MaxBytes = 3
    MaxVersion = 4
    MaxEvents = 4
    AddRoot <- MCAddRoot
    ReplaceRoot <- MCReplaceRoot
    NoPatch <- MCNoPatch
    Patched <- MCPatched
    GeneratedPatch <- MCGeneratedPatch
    MergedContent <- MCMergedContent
    Same <- MCSame
    Valid <- MCValid
    Size <- MCSize
SYMMETRY Symmetry
CONSTRAINT Explored
INVARIANTS
    ChainIsContiguous
    ReplayMatchesLatest
    ActivePathsUnique
    HistoryValid
    WithinUsageLimits
    CompactionAgrees
    LoadedIsHistory
PROPERTIES
    HistoryIsAppendOnly
    KeepsHistory
CHECK_DEADLOCK FALSE
