\* Two browsers that show the patches of a job and change them; apply drops
\* what Redis holds before its commit, generate after.
SPECIFICATION FairCacheSpec
CONSTANTS
    Browsers = {b1, b2}
    Endpoints = {"patches"}
    Changes = {"apply", "generate"}
    MaxVersion = 2
INVARIANT AnswersAreCommitted
PROPERTY StalenessEnds
\* Changes made and entries expired: the system may rest.
CHECK_DEADLOCK FALSE
