\* A stored configurator that is disabled: InstanceConfigOperatorLogPUT
\* answers 200 while the GET keeps reporting the log off.
CONSTANTS
    ip1 = ip1
    ip10 = ip10
    IPs = {ip1, ip10}
    TextWithin <- MCTextWithin
    Handlers = {h1, h2}
    MaxPut = 3
    VersionedUpdate = TRUE
    DisabledConfigurator = TRUE
    None = None
SPECIFICATION Spec
SYMMETRY HandlerSymmetry
INVARIANT OperatorLogAckVisible
