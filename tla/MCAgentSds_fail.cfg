\* The CA client cannot be created during a rebuild: the stopped server and
\* the closed secret manager stay installed.
CONSTANTS
    MaxBuild = 3
    RebuildMayFail = TRUE
    None = None
SPECIFICATION Spec
INVARIANT InstalledServing
