\* Two concurrent PUTs over three requests against a store that checks the
\* resource version on update: the handlers implement one
\* atomic register per setting and instance.
CONSTANTS
    ip1 = ip1
    ip10 = ip10
    IPs = {ip1, ip10}
    TextWithin <- MCTextWithin
    Handlers = {h1, h2}
    MaxPut = 3
    VersionedUpdate = TRUE
    DisabledConfigurator = FALSE
    None = None
SPECIFICATION Spec
SYMMETRY HandlerSymmetry
PROPERTY
    ImplementsSettings
