SPECIFICATION Spec
CONSTANTS
    IPs = {i1, i2}
    Codenames = {c1, c2, c3}
    Unknown = u
    BlankNode = BlankNode
INVARIANT RenderMatchesStatus RInv
CHECK_DEADLOCK FALSE
