\* A CA-root change handled while Close runs: Close stops the old server
\* and the rebuild starts a new one that nobody stops.
CONSTANTS
    MaxBuild = 3
    RebuildMayFail = FALSE
    None = None
SPECIFICATION Spec
INVARIANT NothingLeftAfterClose
