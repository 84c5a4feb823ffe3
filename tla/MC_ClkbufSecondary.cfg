CONSTANTS
    d = d
    f1 = f1
    r = r
    g1 = g1
    g2 = g2
    p1 = p1
    p2 = p2
    a = a
    k = k
    ca = ca
    ck = ck
    i1 = i1
    i2 = i2
    i3 = i3
    i4 = i4
    Cells <- SecCells
    Types <- SecTypes
    PortNames <- SecPorts
    Bits <- SecBits
    CellType <- SecCellType
    SinkPorts <- SecSinkPorts
    BufPorts <- SecBufPorts
    InvOut <- SecNoInv
    InvIn <- SecNoInv
    Conns <- SecConns
    SigMaps <- SigMapsIdentity
    SecTops = {FALSE}
    Wires <- SecWires
    IWires <- SecIWires
    Copy <- SecCopy
    Width <- SecWidth
    BufCells = {g1, g2}
    PadCells = {p1, p2}
    OutPorts <- SecOutPorts
    BufOut = "O"
    BufIn = "I"
    PadOut = "O"
    PadIn = "I"
    HasBuf = TRUE
    HasPad = TRUE
    BufferInputs = TRUE
    SelectGiven = FALSE
    Hash <- HashInjective
    WireAttrs <- SecWireAttrs
SPECIFICATION SecSpec
INVARIANT SecondaryRealigned
INVARIANT SecondaryUntouched
CHECK_DEADLOCK FALSE
