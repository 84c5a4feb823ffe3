------------------------------ MODULE ClkbufHier ------------------------------
(***************************************************************************)
(* The module level of the clkbufmap pass (passes/techmap/clkbufmap.cc):   *)
(* module_queue, the depth-first post-order walk over cell types that      *)
(* orders the modules (lines 67-78, 132-136), and the loop over the sorted *)
(* modules (lines 138-414) that fills the process-wide tag tables:         *)
(* a blackbox module's port attributes become entries keyed by its name   *)
(* (lines 140-159), and an ordinary module reads the entries of its cell  *)
(* types and publishes entries for its own ports.                          *)
(*                                                                         *)
(* The recursion of module_queue is an explicit stack of frames, one per   *)
(* active call, each holding the module and the index of the next cell to *)
(* visit (0 before the modules_processed test of line 68).  What an        *)
(* ordinary module publishes is computed by the per-module processing     *)
(* modelled in ClkbufModule; here it is any set of its port bits when the *)
(* module is selected, and every output bit when it is not (the bypass    *)
(* branch of lines 233-241 and 277-284 taken for every wire).              *)
(***************************************************************************)
EXTENDS Naturals, Sequences, FiniteSets, Functions, TLC

CONSTANTS
    Modules,     \* the modules of the design (design->module(name) != null)
    Prims,       \* cell types that are not modules of the design
    PortNames,   \* port wire names
    Blackbox,    \* modules with the blackbox attribute
    Designs,     \* [cells |-> module -> sequence of cell types, sel |-> selected modules]
    PortsOf,     \* module -> its ports in module->ports order
    Width,       \* port name -> width
    OutPortsOf,  \* module -> its output ports
    InPortsOf,   \* module -> its input ports
    BbDriver,    \* <<module, port>> pairs with clkbuf_driver
    BbSink,      \* <<module, port>> pairs with clkbuf_sink
    BbInv,       \* <<module, port>> -> the port named by clkbuf_inv
    MaxDepth     \* bound on the depth of the module_queue recursion

ASSUME HierAssumption ==
    /\ Blackbox \subseteq Modules /\ Modules \cap Prims = {}
    /\ PortsOf \in [Modules -> Seq(PortNames)]
    /\ Width \in [PortNames -> Nat \ {0}]
    /\ OutPortsOf \in [Modules -> SUBSET PortNames]
    /\ InPortsOf \in [Modules -> SUBSET PortNames]
    /\ MaxDepth \in Nat

Types == Modules \cup Prims

ASSUME DesignsAssumption ==
    Designs \subseteq [cells : [Modules -> Seq(Types)], sel : SUBSET Modules]

\* The (cell type, port, bit) keys of a module's ports.
PortBits(m, ports) == UNION {{<<m, w, i>> : i \in 0 .. Width[w] - 1} : w \in ports}

VARIABLES
    cells,      \* the design: module -> its cells' types, in module->cells() order
    sel,        \* design->selected_modules()
    rootsLeft,  \* selected modules not yet passed to module_queue (line 135)
    stack,      \* the active module_queue calls
    sorted,     \* modules_sorted
    queued,     \* modules_processed
    ph,         \* "queue" (lines 133-136), "process" (138-414), "end"
    pidx,       \* index into sorted of the module being processed
    portIdx,    \* index into a blackbox's ports (line 141)
    bufPorts,   \* buf_ports
    sinkPorts,  \* sink_ports
    invOut,     \* inv_ports_out: key -> <<port, bit>>
    invIn,      \* inv_ports_in: key -> <<port, bit>>
    seen        \* module -> the table entries about its cell types when it was processed

hierVars == <<cells, sel, rootsLeft, stack, sorted, queued, ph, pidx, portIdx,
              bufPorts, sinkPorts, invOut, invIn, seen>>
tables == <<bufPorts, sinkPorts, invOut, invIn>>

\* The entries of the four tag tables keyed by a cell type in T.
TablesAbout(T) ==
    [buf |-> {k \in bufPorts : k[1] \in T},
     sink |-> {k \in sinkPorts : k[1] \in T},
     out |-> {<<k, invOut[k]>> : k \in {k \in DOMAIN invOut : k[1] \in T}},
     in |-> {<<k, invIn[k]>> : k \in {k \in DOMAIN invIn : k[1] \in T}}]

HierInit ==
    /\ \E d \in Designs : cells = d.cells /\ sel = d.sel
    /\ rootsLeft = sel
    /\ stack = <<>>
    /\ sorted = <<>>
    /\ queued = {}
    /\ ph = "queue"
    /\ pidx = 1
    /\ portIdx = 1
    /\ bufPorts = {} /\ sinkPorts = {}
    /\ invOut = [k \in {} |-> <<>>] /\ invIn = [k \in {} |-> <<>>]
    /\ seen = [m \in Modules |-> TablesAbout({})]

Top == stack[Len(stack)]
Pop == SubSeq(stack, 1, Len(stack) - 1)
\* The top frame moved to its next cell.
Advance == [stack EXCEPT ![Len(stack)].next = @ + 1]

-----------------------------------------------------------------------------
(* module_queue *)

\* Line 136: the next selected module is queued.
QueueRoot(m) ==
    /\ ph = "queue" /\ stack = <<>> /\ m \in rootsLeft
    /\ rootsLeft' = rootsLeft \ {m}
    /\ stack' = <<[mod |-> m, next |-> 0]>>
    /\ UNCHANGED <<cells, sel, sorted, queued, ph, pidx, portIdx, seen>> /\ UNCHANGED tables

\* Lines 68-69: a module already processed returns at once.
QueueSkip ==
    /\ stack # <<>> /\ Top.next = 0 /\ Top.mod \in queued
    /\ stack' = Pop
    /\ UNCHANGED <<cells, sel, rootsLeft, sorted, queued, ph, pidx, portIdx, seen>>
    /\ UNCHANGED tables

\* Fault variant: the module is put in order before its cells' types
\* (pre-order); the push of line 76 stays where it is.
QueueEnterPreorder ==
    /\ stack # <<>> /\ Top.next = 0 /\ Top.mod \notin queued
    /\ stack' = [stack EXCEPT ![Len(stack)].next = 1]
    /\ sorted' = Append(sorted, Top.mod)
    /\ UNCHANGED <<cells, sel, rootsLeft, queued, ph, pidx, portIdx, seen>>
    /\ UNCHANGED tables

\* Fault variant: the modules_processed test of line 68 is missing, so a
\* module reached twice is walked twice.
QueueEnterNoCheck ==
    /\ stack # <<>> /\ Top.next = 0
    /\ stack' = [stack EXCEPT ![Len(stack)].next = 1]
    /\ UNCHANGED <<cells, sel, rootsLeft, sorted, queued, ph, pidx, portIdx, seen>>
    /\ UNCHANGED tables

\* Line 70: a module not yet processed starts on its cells.
QueueEnter ==
    /\ stack # <<>> /\ Top.next = 0 /\ Top.mod \notin queued
    /\ stack' = [stack EXCEPT ![Len(stack)].next = 1]
    /\ UNCHANGED <<cells, sel, rootsLeft, sorted, queued, ph, pidx, portIdx, seen>>
    /\ UNCHANGED tables

\* Lines 70-75: the next cell; a type that is a module of the design is
\* queued first by a recursive call (one more frame).
QueueCell ==
    /\ stack # <<>> /\ Top.next \in 1 .. Len(cells[Top.mod])
    /\ LET t == cells[Top.mod][Top.next]
       IN  stack' = IF t \in Modules
                      THEN Append(Advance, [mod |-> t, next |-> 0])
                      ELSE Advance
    /\ Len(stack) < MaxDepth
    /\ UNCHANGED <<cells, sel, rootsLeft, sorted, queued, ph, pidx, portIdx, seen>>
    /\ UNCHANGED tables

\* Lines 76-77: after its cells' types, the module itself.
QueueDone ==
    /\ stack # <<>> /\ Top.next = Len(cells[Top.mod]) + 1
    /\ sorted' = Append(sorted, Top.mod)
    /\ queued' = queued \cup {Top.mod}
    /\ stack' = Pop
    /\ UNCHANGED <<cells, sel, rootsLeft, ph, pidx, portIdx, seen>> /\ UNCHANGED tables

\* Line 138: every selected module is queued; processing starts.
StartProcess ==
    /\ ph = "queue" /\ stack = <<>> /\ rootsLeft = {}
    /\ ph' = "process"
    /\ UNCHANGED <<cells, sel, rootsLeft, stack, sorted, queued, pidx, portIdx, seen>>
    /\ UNCHANGED tables

-----------------------------------------------------------------------------
(* The loop over modules_sorted *)

Cur == sorted[pidx]

\* Function f with the entries of function g assigned over it (g wins).
Put(f, g) == [x \in DOMAIN g \cup DOMAIN f |-> IF x \in DOMAIN g THEN g[x] ELSE f[x]]

\* Fault variant: the bit loops of lines 144-153 run one bit too far.
BlackboxPortOffByOne ==
    /\ ph = "process" /\ pidx <= Len(sorted) /\ Cur \in Blackbox
    /\ portIdx <= Len(PortsOf[Cur])
    /\ LET m == Cur
           w == PortsOf[m][portIdx]
           bits == {<<m, w, i>> : i \in 0 .. Width[w]}
       IN  /\ bufPorts' = IF <<m, w>> \in BbDriver THEN bufPorts \cup bits ELSE bufPorts
           /\ sinkPorts' = IF <<m, w>> \in BbSink THEN sinkPorts \cup bits ELSE sinkPorts
           /\ UNCHANGED <<invOut, invIn>>
    /\ portIdx' = portIdx + 1
    /\ UNCHANGED <<cells, sel, rootsLeft, stack, sorted, queued, ph, pidx, seen>>

\* Lines 141-157: one port of a blackbox.  clkbuf_driver and clkbuf_sink
\* put every bit of the port in buf_ports or sink_ports; clkbuf_inv names
\* the paired port, and bit i of each is linked to bit i of the other in
\* both maps (a dict assignment: an earlier link of the same key is
\* overwritten).  The width of the named port is not consulted.
BlackboxPort ==
    /\ ph = "process" /\ pidx <= Len(sorted) /\ Cur \in Blackbox
    /\ portIdx <= Len(PortsOf[Cur])
    /\ LET m == Cur
           w == PortsOf[m][portIdx]
           bits == PortBits(m, {w})
       IN  /\ bufPorts' = IF <<m, w>> \in BbDriver THEN bufPorts \cup bits ELSE bufPorts
           /\ sinkPorts' = IF <<m, w>> \in BbSink THEN sinkPorts \cup bits ELSE sinkPorts
           /\ IF <<m, w>> \in DOMAIN BbInv
                THEN LET inName == BbInv[<<m, w>>]
                         inBits == {<<m, inName, k[3]>> : k \in bits}
                     IN  /\ invOut' = Put(invOut, [k \in bits |-> <<inName, k[3]>>])
                         /\ invIn' = Put(invIn, [k \in inBits |-> <<w, k[3]>>])
                ELSE UNCHANGED <<invOut, invIn>>
    /\ portIdx' = portIdx + 1
    /\ UNCHANGED <<cells, sel, rootsLeft, stack, sorted, queued, ph, pidx, seen>>

\* Fault variant: the loop stays on the blackbox after its last port.
BlackboxDoneStuck ==
    /\ ph = "process" /\ pidx <= Len(sorted) /\ Cur \in Blackbox
    /\ portIdx = Len(PortsOf[Cur]) + 1
    /\ UNCHANGED hierVars

\* Line 158: on to the next module.
BlackboxDone ==
    /\ ph = "process" /\ pidx <= Len(sorted) /\ Cur \in Blackbox
    /\ portIdx = Len(PortsOf[Cur]) + 1
    /\ pidx' = pidx + 1 /\ portIdx' = 1
    /\ UNCHANGED <<cells, sel, rootsLeft, stack, sorted, queued, ph, seen>> /\ UNCHANGED tables

\* Lines 160-414 for an ordinary module: its cells' types are looked up in
\* the tables (lines 168-207, recorded in seen), and it publishes entries
\* keyed by its own name: output bits to buf_ports (lines 238-240,
\* 281-283, 357-368) and deferred input bits to sink_ports (328-332).  An
\* unselected module takes the bypass branch for every wire.
ProcessModule ==
    /\ ph = "process" /\ pidx <= Len(sorted) /\ Cur \notin Blackbox
    /\ LET m == Cur
       IN  /\ seen' = [seen EXCEPT ![m] = TablesAbout(Range(cells[m]))]
           /\ IF m \in sel
                THEN \E pb \in SUBSET PortBits(m, OutPortsOf[m] \ InPortsOf[m]),
                        ps \in SUBSET PortBits(m, InPortsOf[m] \ OutPortsOf[m]) :
                       /\ bufPorts' = bufPorts \cup pb
                       /\ sinkPorts' = sinkPorts \cup ps
                ELSE /\ bufPorts' = bufPorts \cup PortBits(m, OutPortsOf[m] \ InPortsOf[m])
                     /\ UNCHANGED sinkPorts
    /\ pidx' = pidx + 1
    /\ UNCHANGED <<cells, sel, rootsLeft, stack, sorted, queued, ph, portIdx, invOut, invIn>>

\* The loop is over.
EndProcess ==
    /\ ph = "process" /\ pidx = Len(sorted) + 1
    /\ ph' = "end"
    /\ UNCHANGED <<cells, sel, rootsLeft, stack, sorted, queued, pidx, portIdx, seen>>
    /\ UNCHANGED tables

HierNext ==
    \/ \E m \in Modules : QueueRoot(m)
    \/ QueueSkip \/ QueueEnter \/ QueueCell \/ QueueDone \/ StartProcess
    \/ BlackboxPort \/ BlackboxDone \/ ProcessModule \/ EndProcess

\* The pass is sequential code that runs to its end.
HierSpec == HierInit /\ [][HierNext]_hierVars /\ WF_hierVars(HierNext)

-----------------------------------------------------------------------------
\* The modules a module instantiates.
ChildModules(m) == Range(cells[m]) \cap Modules

\* The modules reachable from the selection in at most n instantiation steps.
ReachIn[n \in Nat] ==
    IF n = 0 THEN sel
    ELSE LET prev == ReachIn[n - 1] IN prev \cup UNION {ChildModules(m) : m \in prev}

Reachable == ReachIn[Cardinality(Modules)]

AllPortBits == UNION {PortBits(m, PortNames) : m \in Modules}

HierTypeOK ==
    /\ stack \in Seq([mod : Modules, next : Nat])
    /\ sorted \in Seq(Modules) /\ queued \subseteq Modules /\ rootsLeft \subseteq sel
    /\ ph \in {"queue", "process", "end"}
    /\ pidx \in 1 .. Len(sorted) + 1 /\ portIdx \in Nat \ {0}
    /\ bufPorts \subseteq AllPortBits /\ sinkPorts \subseteq AllPortBits

(***************************************************************************)
(* Spec 4.1: modules_sorted lists every module after every module it      *)
(* instantiates, so that a cell's type is processed before the module     *)
(* that holds the cell (the post-order of module_queue, lines 70-77).     *)
(***************************************************************************)
BottomUp ==
    \A j \in 1 .. Len(sorted) : \A c \in ChildModules(sorted[j]) :
        \E i \in 1 .. j - 1 : sorted[i] = c

(***************************************************************************)
(* Spec 4.1: once module_queue has run for every selected module, the     *)
(* order covers exactly the modules reachable from the selection, each    *)
(* once (the modules_processed test of line 68).                          *)
(***************************************************************************)
QueueCovers ==
    ph # "queue" => IsInjective(sorted) /\ Range(sorted) = Reachable

(***************************************************************************)
(* Spec 4.1, stated without the closure ReachIn: once module_queue has    *)
(* run for every selected module (line 135), every selected module is in *)
(* modules_sorted, and every module in it is selected or instantiated by  *)
(* a module sorted after it (the call of line 75 that queued it).  With   *)
(* BottomUp (every child of a sorted module is sorted) and no module      *)
(* twice, this makes modules_sorted exactly the reachable modules.        *)
(***************************************************************************)
QueueClosed ==
    ph # "queue" =>
        /\ sel \subseteq Range(sorted)
        /\ \A j \in 1 .. Len(sorted) :
               sorted[j] \in sel \/ \E i \in j + 1 .. Len(sorted) : sorted[j] \in ChildModules(sorted[i])

(***************************************************************************)
(* Hierarchy monotonicity (spec 5 and 8): the tag-table entries an        *)
(* ordinary module read about its cell types when it was processed are    *)
(* still all the entries about those types: no entry keyed by one of them *)
(* is added after the module that instantiates it has been processed.     *)
(***************************************************************************)
HierarchyMonotone ==
    \A j \in 1 .. pidx - 1 :
        LET m == sorted[j]
        IN  ph # "queue" /\ m \notin Blackbox => seen[m] = TablesAbout(Range(cells[m]))

(***************************************************************************)
(* The recursion of module_queue is never deeper than the number of       *)
(* modules (spec 9: a cyclic hierarchy recurses without bound).           *)
(***************************************************************************)
StackBounded == Len(stack) <= Cardinality(Modules)

(***************************************************************************)
(* The pass reaches the end of its module loop.                           *)
(***************************************************************************)
Completes == <>(ph = "end")

=============================================================================
