\* Two CA-root changes racing Close, where creating the CA client may fail:
\* every serving SDS server is the installed one, and once the context is
\* cancelled and Close has returned, every goroutine Run started returns.
CONSTANTS
    MaxBuild = 3
    RebuildMayFail = TRUE
    None = None
SPECIFICATION Spec
INVARIANTS
    ServingIsInstalled
PROPERTY
    AgentStops
