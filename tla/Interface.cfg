SPECIFICATION InterfaceSpec
INVARIANTS
    SceneIsBacked
    TreeIsTruthful
    ViewIsOneRevision
    TasksAreJoined
PROPERTIES
    InputGoesWhereAimed
    SlotsFollowKeys
    ShellActsOnWhatItShows
CHECK_DEADLOCK FALSE
