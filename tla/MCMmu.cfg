SPECIFICATION Spec
CONSTANTS
    Slots = 2
    Codes <- MCCodes
    Pages <- MCPages
    Frames <- MCFrames
    Places <- MCPlaces
    Root <- MCRoot
    Table <- MCTable
    Base <- MCBase
    Longs = 2
    PerLine = 2
    Tags <- MCTags
    Start <- MCStart
    Edits <- MCEdits
    Settings <- MCSettings
    Inhibited = {3}
    Supervisors = {"srp"}
    Masks <- MCMasks
    MaxChanges <- MCMaxChanges
    MaxWrites <- MCMaxWrites
INVARIANTS OneEntry AnswersTrue WrittenIsModified CacheTrue
