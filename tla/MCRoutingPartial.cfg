CONSTANTS
    Projects <- MC_DisjointProjects
    Routes <- MC_Routes
    Tmpls = {"t1", "t2"}
    BadTmpls = {"bad"}
    GlobalConfigs = {"g1"}

SPECIFICATION Spec

INVARIANT RoutesHaveTemplates
