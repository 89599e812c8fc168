\* One stream whose remote side sends up to three messages while the
\* server offers two push events.
CONSTANTS
    MaxRecv = 3
    MaxPush = 2
SPECIFICATION Spec
INVARIANTS
    TypeOK
PROPERTIES
    StreamEnds
    ImplementsLifecycle
