CONSTANTS
    t = t
    u = u
    v = v
    b = b
    Modules <- MCModules
    Prims <- MCPrims
    PortNames <- MCPortNames
    Blackbox = {b}
    Designs <- MCDesigns
    PortsOf <- MCPortsOf
    Width <- MCWidth
    OutPortsOf <- MCOutPortsOf
    InPortsOf <- MCInPortsOf
    BbDriver <- MCBbDriver
    BbSink <- MCBbSink
    BbInv <- MCBbInv
    MaxDepth = 5
SPECIFICATION HierSpec
INVARIANT HierTypeOK
INVARIANT BottomUp
INVARIANT QueueCovers
INVARIANT HierarchyMonotone
PROPERTY Completes
CHECK_DEADLOCK FALSE
