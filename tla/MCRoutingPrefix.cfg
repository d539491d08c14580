CONSTANTS
    Projects <- MC_Projects
    Routes <- MC_GoodRoutes
    Tmpls = {"t1", "t2"}
    BadTmpls = {"bad"}
    GlobalConfigs = {"g1"}

SPECIFICATION Spec

PROPERTY OtherProjectsUntouched
