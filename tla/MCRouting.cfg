CONSTANTS
    Projects <- MC_Projects
    Routes <- MC_Routes
    Tmpls = {"t1", "t2"}
    BadTmpls = {"bad"}
    GlobalConfigs = {"g1"}

SPECIFICATION Spec

INVARIANT TypeOK
INVARIANT InstalledTemplatesExact
PROPERTY RoutesReplacedWhole
