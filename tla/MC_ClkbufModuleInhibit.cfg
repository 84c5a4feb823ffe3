CONSTANTS
    d = d
    e = e
    f1 = f1
    f2 = f2
    g1 = g1
    g2 = g2
    p1 = p1
    p2 = p2
    a = a
    k = k
    ca = ca
    ck = ck
    i1 = i1
    i2 = i2
    i3 = i3
    i4 = i4
    Cells <- MCCells
    Types <- MCTypes
    PortNames <- MCPorts
    Bits <- MCBits
    CellType <- MCCellType
    SinkPorts <- MCSinkPorts
    BufPorts <- MCBufPorts
    InvOut <- MCNoInv
    InvIn <- MCNoInv
    Conns <- MCConns
    SigMaps <- MCSigMaps
    Wires <- MCWires
    IWires <- MCIWires
    Copy <- MCCopy
    Width <- MCWidth
    BufCells = {g1, g2}
    PadCells = {p1, p2}
    OutPorts <- MCOutPorts
    BufOut = "O"
    BufIn = "I"
    PadOut = "O"
    PadIn = "I"
    HasBuf = TRUE
    HasPad = TRUE
    BufferInputs = TRUE
    SelectGiven = FALSE
    Hash <- MCHash
    WireAttrs <- MCWireAttrs
SPECIFICATION MCSpec
CHECK_DEADLOCK FALSE
INVARIANT InhibitRespected
