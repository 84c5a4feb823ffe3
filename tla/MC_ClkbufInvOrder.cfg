CONSTANTS
    inv1 = inv1
    inv2 = inv2
    ff = ff
    drv = drv
    b1 = b1
    b2 = b2
    b3 = b3
    Cells <- MCCells
    Types <- MCTypes
    PortNames <- MCPorts
    Bits <- MCBits
    CellType <- MCCellType
    SinkPorts <- MCSinkPorts
    BufPorts <- MCBufPorts
    InvOut <- MCInvOut
    InvIn <- MCInvIn
    Conns <- MCConns
    SigMaps <- MCSigMaps
SPECIFICATION InvSpec
CHECK_DEADLOCK FALSE
INVARIANT SinkOrderIndependent
