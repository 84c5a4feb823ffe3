----------------------------- MODULE ClkbufModule -----------------------------
(***************************************************************************)
(* The whole processing of one ordinary (non-blackbox) module by the      *)
(* clkbufmap pass (passes/techmap/clkbufmap.cc, lines 160-414): tag        *)
(* collection and inverter propagation (ClkbufInv), then driven-bit        *)
(* collection, the secondary-buffer index, the per-wire-bit buffer         *)
(* insertion decision, the input-port rewiring, the marking of buffered    *)
(* output ports, the reconnection of drivers, and the final name swap of   *)
(* rewired input ports.                                                    *)
(*                                                                         *)
(* Bits are wire bits <<w, i>> (SigBit(wire, i), i 0-based).  New cells   *)
(* (buffers, pads) and new wires (buffer inputs, port copies) come from   *)
(* pools of fresh identities, the model of NEW_ID.  The canonical map      *)
(* sigmap is the snapshot built at line 163: it maps every bit of a new    *)
(* wire to itself, and module->connect() calls made later do not change    *)
(* it; they are kept in aliases.                                           *)
(***************************************************************************)
EXTENDS ClkbufInv

CONSTANTS
    Wires,        \* the module's wires before the pass
    IWires,       \* fresh 1-bit wires for buffer/pad inputs (addWire(NEW_ID))
    Copy,         \* Copy[w]: the fresh wire addWire(NEW_ID, w) would create
    Width,        \* width of every wire
    BufCells,     \* fresh cell identities of buffer cells
    PadCells,     \* fresh cell identities of pad cells
    OutPorts,     \* <<type, port>> pairs for which cell->output(port) holds
    BufOut, BufIn, PadOut, PadIn,   \* -buf / -inpad port names
    HasBuf,       \* -buf was given
    HasPad,       \* -inpad was given
    BufferInputs, \* buffer_inputs (line 123-130)
    SelectGiven,  \* a selection argument was given (select, line 106-111)
    Hash,         \* SigBit::hash(), bit -> hash value
    WireAttrs     \* the wire attributes a module can have

AllWires == Wires \cup IWires \cup {Copy[w] : w \in Wires}

WireBits(w) == {<<w, i>> : i \in 0 .. Width[w] - 1}

\* The secondary buffer cell types of line 258.
SecondaryTypes == {"BUFR", "BUFIO"}

ASSUME ModuleAssumption ==
    /\ Width \in [AllWires -> Nat \ {0}]
    /\ \A w \in IWires : Width[w] = 1
    /\ \A w \in Wires : Copy[w] \notin Wires \cup IWires /\ Width[Copy[w]] = Width[w]
    /\ \A v, w \in Wires : Copy[v] = Copy[w] => v = w
    /\ Wires \cap IWires = {}
    /\ Bits = UNION {WireBits(w) : w \in AllWires}
    /\ BufCells \cup PadCells \subseteq Cells /\ BufCells \cap PadCells = {}
    /\ HasBuf \in BOOLEAN /\ HasPad \in BOOLEAN /\ (HasBuf \/ HasPad)
    /\ BufferInputs \in BOOLEAN /\ SelectGiven \in BOOLEAN
    /\ {BufOut, BufIn, PadOut, PadIn, "I"} \subseteq PortNames
    /\ \A a \in WireAttrs :
          /\ DOMAIN a = {"pin", "pout", "inhibit", "selected", "top"}
          /\ a.pin \subseteq Wires /\ a.pout \subseteq Wires
          /\ a.inhibit \subseteq Wires /\ a.selected \subseteq Wires
          /\ a.top \in BOOLEAN

\* cell->getPort(ID::I).as_bit() (line 262) needs a 1-bit input.
ASSUME SecondaryAssumption ==
    \A cn \in Conns, c \in Cells : CellType[c] \in SecondaryTypes => Len(cn[c]["I"]) = 1

VARIABLES
    wa,          \* the module's wire attributes (fixed)
    pin, pout,   \* wire -> port_input / port_output
    wname,       \* wire -> name (swap_names changes it)
    inhibited,   \* wires carrying clkbuf_inhibit
    driven,      \* driven_wire_bits (raw bits)
    bufBits,     \* buf_bits of lines 225-252
    bufrIndex,   \* bufr_cells_map: hash -> set of secondary cells
    wtodo,       \* wires of the snapshot not yet visited
    cur,         \* wire being visited, or NoWire
    bitIdx,      \* next bit of cur
    inputBits,   \* input_bits of cur
    buffered,    \* buffered_bits: bit -> [cell, iwire]
    aliases,     \* module->connect() pairs added by the pass
    queue,       \* input_queue: <<wire, new wire>> pairs
    rtodo,       \* <<cell, port>> output connections not yet reconnected
    pubBuf,      \* <<wire name, index>> inserted into buf_ports for this module
    pubSink,     \* <<wire name, index>> inserted into sink_ports for this module
    fresh,       \* new cells and wires created so far (NEW_ID)
    conn0        \* the connections before the pass (history)

NoWire == "none"

modVars == <<wa, pin, pout, wname, inhibited, driven, bufBits, bufrIndex, wtodo,
             cur, bitIdx, inputBits, buffered, aliases, queue, rtodo, pubBuf,
             pubSink, fresh, conn0>>

vars == <<invVars, modVars>>

\* process_wire of lines 231-233 / 274-276.
Processed(w) == w \in wa.selected /\ ~(~SelectGiven /\ w \in inhibited)

Malformed(w) == pin[w] /\ pout[w]

\* Raw bits on the output ports of cells (lines 212-217).
OutputBitsOf(cn) ==
    {cn[s[1]][s[2]][s[3]] : s \in {t \in SlotsOf(cn) : <<CellType[t[1]], t[2]>> \in OutPorts}}

\* A new cell whose only connections are out -> o and in -> i.
CellConn(out, o, in, i) ==
    [p \in PortNames |-> IF p = out THEN <<o>> ELSE IF p = in THEN <<i>> ELSE <<>>]

\* The bit of cur being classified, and its canonical form.
CurBit == <<cur, bitIdx>>
CurMapped == sigmap[CurBit]

\* Fault variant: the entry keyed by the raw wire bit, not its canonical form.
SetBufferedRaw(m, c, iw) ==
    [x \in DOMAIN buffered \cup {CurBit} |-> IF x = CurBit THEN [cell |-> c, iwire |-> iw] ELSE buffered[x]]

\* buffered_bits[m] = make_pair(cell, iwire)
SetBuffered(m, c, iw) ==
    [x \in DOMAIN buffered \cup {m} |-> IF x = m THEN [cell |-> c, iwire |-> iw] ELSE buffered[x]]

-----------------------------------------------------------------------------
ModInit ==
    /\ InvInit
    /\ wa \in WireAttrs
    /\ pin = [x \in AllWires |-> x \in wa.pin]
    /\ pout = [x \in AllWires |-> x \in wa.pout]
    /\ wname = [x \in AllWires |-> x]
    /\ inhibited = wa.inhibit
    /\ driven = {} /\ bufBits = {} /\ bufrIndex = {}
    /\ wtodo = {} /\ cur = NoWire /\ bitIdx = 0 /\ inputBits = {}
    /\ buffered = [x \in {} |-> NoWire]
    /\ aliases = {} /\ queue = {} /\ rtodo = {}
    /\ pubBuf = {} /\ pubSink = {} /\ fresh = {}
    /\ conn0 = conn

\* Lines 212-267: driven bits, the wire snapshot, buf_bits (publishing the
\* output ports of bypassed wires) and the secondary-cell index, keyed by
\* the hash of the cell's raw input bit.
Prepare ==
    /\ pc = "done"
    /\ LET bb == {sigmap[x] : x \in
                    {x \in UNION {WireBits(v) : v \in Wires} : ~Malformed(x[1]) /\ Processed(x[1])}}
       IN  /\ bufBits' = bb
           /\ bufrIndex' = {<<Hash[conn[c]["I"][1]], c>> :
                              c \in {r \in Cells : CellType[r] \in SecondaryTypes /\ conn[r]["I"][1] \in bb}}
    /\ driven' = OutputBitsOf(conn)
    /\ pubBuf' = pubBuf \cup {<<wname[x[1]], x[2]>> : x \in
                    {x \in UNION {WireBits(v) : v \in Wires} :
                        ~Malformed(x[1]) /\ ~Processed(x[1]) /\ pout[x[1]]}}
    /\ wtodo' = Wires
    /\ pc' = "wires"
    /\ UNCHANGED <<conn, sigmap, sink, buf, todo, retry, wa, pin, pout, wname, inhibited,
                   cur, bitIdx, inputBits, buffered, aliases, queue, rtodo, pubSink, fresh, conn0>>

\* The first two rows of the decision table (lines 271-284).
SkipWire(w) ==
    /\ pc = "wires" /\ cur = NoWire /\ w \in wtodo
    /\ Malformed(w) \/ ~Processed(w)
    /\ pubBuf' = IF ~Malformed(w) /\ pout[w]
                   THEN pubBuf \cup {<<wname[w], i>> : i \in 0 .. Width[w] - 1} ELSE pubBuf
    /\ wtodo' = wtodo \ {w}
    /\ UNCHANGED <<invVars, wa, pin, pout, wname, inhibited, driven, bufBits, bufrIndex,
                   cur, bitIdx, inputBits, buffered, aliases, queue, rtodo, pubSink, fresh, conn0>>

BeginWire(w) ==
    /\ pc = "wires" /\ cur = NoWire /\ w \in wtodo
    /\ ~Malformed(w) /\ Processed(w)
    /\ cur' = w /\ bitIdx' = 0 /\ inputBits' = {}
    /\ UNCHANGED <<invVars, wa, pin, pout, wname, inhibited, driven, bufBits, bufrIndex,
                   wtodo, buffered, aliases, queue, rtodo, pubBuf, pubSink, fresh, conn0>>

\* Shared guard of one iteration of the bit loop (lines 286-333).
InBitLoop == pc = "wires" /\ cur # NoWire /\ bitIdx < Width[cur]

BitVars == <<invVars, wa, pin, pout, wname, inhibited, driven, bufBits, bufrIndex,
             wtodo, cur, aliases, queue, rtodo, conn0>>

\* Row 3 (lines 290-293): already buffered downstream; an output is marked.
BitBuffered ==
    /\ InBitLoop
    /\ CurMapped \in buf
    /\ pubBuf' = IF pout[cur] THEN pubBuf \cup {<<wname[cur], bitIdx>>} ELSE pubBuf
    /\ bitIdx' = bitIdx + 1
    /\ UNCHANGED <<BitVars, inputBits, buffered, pubSink, fresh>>

\* Row 4 (lines 294-295): not a clock sink.
BitNoSink ==
    /\ InBitLoop
    /\ CurMapped \notin buf /\ CurMapped \notin sink
    /\ bitIdx' = bitIdx + 1
    /\ UNCHANGED <<BitVars, inputBits, buffered, pubBuf, pubSink, fresh>>

\* The insertion condition of line 296: the raw bit is driven by a cell of
\* this module, or the wire is an input of the top module.
Triggers == CurBit \in driven \/ (pin[cur] /\ wa.top)

\* Row 5 (lines 296-327): insert a buffer and/or a pad.  is_input and the
\* two branches follow lines 302-322; the pad's output feeds the buffer's
\* input when both are inserted, and iwire ends as the pad's input.
BitInsert ==
    /\ InBitLoop
    /\ CurMapped \notin buf /\ CurMapped \in sink /\ Triggers
    /\ LET m       == CurMapped
           isInput == pin[cur] /\ HasPad /\ wa.top
           useBuf  == HasBuf /\ (~isInput \/ BufferInputs)
           b       == CHOOSE x \in BufCells \ fresh : TRUE
           iw1     == CHOOSE x \in IWires \ fresh : TRUE
           pd      == CHOOSE x \in PadCells \ fresh : TRUE
           iw2     == CHOOSE x \in IWires \ (fresh \cup IF useBuf THEN {iw1} ELSE {}) : TRUE
           iwire   == IF isInput THEN iw2 ELSE IF useBuf THEN iw1 ELSE NoWire
       IN  /\ useBuf => BufCells \ fresh # {} /\ IWires \ fresh # {}
           /\ isInput => PadCells \ fresh # {}
                         /\ IWires \ (fresh \cup IF useBuf THEN {iw1} ELSE {}) # {}
           /\ conn' = [c \in Cells |->
                         IF useBuf /\ c = b THEN CellConn(BufOut, m, BufIn, <<iw1, 0>>)
                         ELSE IF isInput /\ c = pd
                           THEN CellConn(PadOut, IF useBuf THEN <<iw1, 0>> ELSE m, PadIn, <<iw2, 0>>)
                         ELSE conn[c]]
           /\ fresh' = fresh \cup (IF useBuf THEN {b, iw1} ELSE {})
                             \cup (IF isInput THEN {pd, iw2} ELSE {})
           /\ buffered' = IF iwire # NoWire
                            THEN SetBuffered(m, IF useBuf THEN b ELSE pd, iwire)
                            ELSE buffered
    /\ inputBits' = IF pin[cur] THEN inputBits \cup {bitIdx} ELSE inputBits
    /\ bitIdx' = bitIdx + 1
    /\ UNCHANGED <<sigmap, sink, buf, todo, retry, pc, wa, pin, pout, wname, inhibited,
                   driven, bufBits, bufrIndex, wtodo, cur, aliases, queue, rtodo,
                   pubBuf, pubSink, conn0>>

\* Row 6 (lines 328-332): a clock sink not driven here; an input port
\* defers it to the parent.
BitDefer ==
    /\ InBitLoop
    /\ CurMapped \notin buf /\ CurMapped \in sink /\ ~Triggers
    /\ pubSink' = IF pin[cur] THEN pubSink \cup {<<wname[cur], bitIdx>>} ELSE pubSink
    /\ bitIdx' = bitIdx + 1
    /\ UNCHANGED <<BitVars, inputBits, buffered, pubBuf, fresh>>

\* Fault variant: the wire is never taken off the snapshot list.
EndWireKeepTodo ==
    /\ pc = "wires" /\ cur # NoWire /\ bitIdx = Width[cur]
    /\ cur' = NoWire
    /\ UNCHANGED <<invVars, wa, pin, pout, wname, inhibited, driven, bufBits, bufrIndex,
                   wtodo, bitIdx, inputBits, buffered, aliases, queue, rtodo, pubBuf,
                   pubSink, fresh, conn0>>

\* Lines 334-354: after the last bit.  An input port with an inserted bit
\* gets a copy wire (addWire(NEW_ID, wire) copies flags and attributes),
\* connected bit by bit to the buffer input or to the old wire.
EndWire ==
    /\ pc = "wires" /\ cur # NoWire /\ bitIdx = Width[cur]
    /\ LET nw == Copy[cur] IN
       IF inputBits # {}
         THEN /\ pin' = [pin EXCEPT ![nw] = pin[cur]]
              /\ pout' = [pout EXCEPT ![nw] = pout[cur]]
              /\ inhibited' = IF cur \in inhibited THEN inhibited \cup {nw} ELSE inhibited
              /\ aliases' = aliases \cup
                   {<<IF sigmap[<<cur, i>>] \in DOMAIN buffered
                        THEN <<buffered[sigmap[<<cur, i>>]].iwire, 0>> ELSE <<cur, i>>,
                      <<nw, i>>>> : i \in 0 .. Width[cur] - 1}
              /\ queue' = queue \cup {<<cur, nw>>}
              /\ fresh' = fresh \cup {nw}
         ELSE UNCHANGED <<pin, pout, inhibited, aliases, queue, fresh>>
    /\ wtodo' = wtodo \ {cur}
    /\ cur' = NoWire
    /\ UNCHANGED <<invVars, wa, wname, driven, bufBits, bufrIndex, bitIdx, inputBits,
                   buffered, rtodo, pubBuf, pubSink, conn0>>

\* Lines 356-368: mark the newly buffered output ports, then enter the
\* driver-reconnection loop over every output connection of every cell.
MarkOutputs ==
    /\ pc = "wires" /\ cur = NoWire /\ wtodo = {}
    /\ pubBuf' = pubBuf \cup
         {<<wname[b[1]], b[2]>> : b \in {x \in UNION {WireBits(w) : w \in Wires} :
             /\ x[1] \in wa.selected /\ ~pin[x[1]] /\ pout[x[1]]
             /\ sigmap[x] \in DOMAIN buffered}}
    /\ rtodo' = {cp \in Cells \X PortNames :
                    <<CellType[cp[1]], cp[2]>> \in OutPorts /\ conn[cp[1]][cp[2]] # <<>>}
    /\ pc' = "reconnect"
    /\ UNCHANGED <<conn, sigmap, sink, buf, todo, retry, wa, pin, pout, wname, inhibited,
                   driven, bufBits, bufrIndex, wtodo, cur, bitIdx, inputBits, buffered,
                   aliases, queue, pubSink, fresh, conn0>>

\* Fault variants: the buffer's own output is not skipped; the lookup uses
\* the raw bit instead of sigmap(bit).
HitNoSelfSkip(c, p, k) == sigmap[conn[c][p][k]] \in DOMAIN buffered

HitRawBit(c, p, k) ==
    /\ conn[c][p][k] \in DOMAIN buffered
    /\ c # buffered[conn[c][p][k]].cell

\* Bit k of output port p of cell c is substituted (lines 377-382): its
\* canonical form is buffered by another cell.
Hit(c, p, k) ==
    /\ sigmap[conn[c][p][k]] \in DOMAIN buffered
    /\ c # buffered[sigmap[conn[c][p][k]]].cell

HitWire(c, p, k) == buffered[sigmap[conn[c][p][k]]].iwire

\* The secondary cells bufr_cells_map.find(sigmap(bit).hash()) returns.
IndexedAt(c, p, k) == {r \in Cells : <<Hash[sigmap[conn[c][p][k]]], r>> \in bufrIndex}

\* Fault variants: the secondary cells are never repointed; every secondary
\* cell is repointed whatever the index says.
ReconnectResultNoRepoint(c, p) ==
    LET n      == Len(conn[c][p])
        newsig == [k \in 1 .. n |-> IF Hit(c, p, k) THEN <<HitWire(c, p, k), 0>> ELSE conn[c][p][k]]
    IN  [conn EXCEPT ![c][p] = newsig]

ReconnectResultAnySecondary(c, p) ==
    LET n       == Len(conn[c][p])
        hits    == {k \in 1 .. n : Hit(c, p, k)}
        newsig  == [k \in 1 .. n |-> IF k \in hits THEN <<HitWire(c, p, k), 0>> ELSE conn[c][p][k]]
        conn1   == [conn EXCEPT ![c][p] = newsig]
        lastk   == CHOOSE k \in hits : \A j \in hits : j <= k
    IN  [x \in Cells |->
           IF hits = {} \/ CellType[x] \notin SecondaryTypes THEN conn1[x]
           ELSE [conn1[x] EXCEPT !["I"] =
                   [j \in 1 .. Len(conn1[x]["I"]) |-> <<HitWire(c, p, lastk), 0>>]]]

\* Lines 371-400, one output connection: every substituted bit is replaced
\* by the buffer input, and every secondary cell found for it has all bits
\* of its I replaced by that wire (the last substituted bit wins).
ReconnectResult(c, p) ==
    LET n       == Len(conn[c][p])
        hits    == {k \in 1 .. n : Hit(c, p, k)}
        newsig  == [k \in 1 .. n |-> IF k \in hits THEN <<HitWire(c, p, k), 0>> ELSE conn[c][p][k]]
        conn1   == [conn EXCEPT ![c][p] = newsig]
        repts(r) == {k \in hits : r \in IndexedAt(c, p, k)}
        lastk(r) == CHOOSE k \in repts(r) : \A j \in repts(r) : j <= k
    IN  [x \in Cells |->
           IF repts(x) = {} THEN conn1[x]
           ELSE [conn1[x] EXCEPT !["I"] =
                   [j \in 1 .. Len(conn1[x]["I"]) |-> <<HitWire(c, p, lastk(x)), 0>>]]]

Reconnect(c, p) ==
    /\ pc = "reconnect" /\ <<c, p>> \in rtodo
    /\ conn' = ReconnectResult(c, p)
    /\ rtodo' = rtodo \ {<<c, p>>}
    /\ UNCHANGED <<sigmap, sink, buf, todo, retry, pc, wa, pin, pout, wname, inhibited,
                   driven, bufBits, bufrIndex, wtodo, cur, bitIdx, inputBits, buffered,
                   aliases, queue, pubBuf, pubSink, fresh, conn0>>

\* Fault variant: the old wire keeps its port flags.
SwapKeepFlags ==
    /\ pc = "reconnect" /\ rtodo = {}
    /\ LET olds == {q[1] : q \in queue}
           news == {q[2] : q \in queue}
           orig(x) == CHOOSE q \in queue : q[2] = x
           copy(x) == CHOOSE q \in queue : q[1] = x
       IN  wname' = [x \in AllWires |->
                       IF x \in olds THEN wname[copy(x)[2]]
                       ELSE IF x \in news THEN wname[orig(x)[1]] ELSE wname[x]]
    /\ pc' = "end"
    /\ UNCHANGED <<conn, sigmap, sink, buf, todo, retry, wa, pin, pout, inhibited, driven,
                   bufBits, bufrIndex, wtodo, cur, bitIdx, inputBits, buffered, aliases,
                   queue, rtodo, pubBuf, pubSink, fresh, conn0>>

\* Lines 402-414: each rewired input port and its copy exchange names; the
\* old wire loses its attributes and port flags.  fixup_ports() only
\* renumbers the ports.
Swap ==
    /\ pc = "reconnect" /\ rtodo = {}
    /\ LET olds == {q[1] : q \in queue}
           news == {q[2] : q \in queue}
           orig(x) == CHOOSE q \in queue : q[2] = x
           copy(x) == CHOOSE q \in queue : q[1] = x
       IN  /\ wname' = [x \in AllWires |->
                          IF x \in olds THEN wname[copy(x)[2]]
                          ELSE IF x \in news THEN wname[orig(x)[1]] ELSE wname[x]]
           /\ pin' = [x \in AllWires |-> IF x \in olds THEN FALSE ELSE pin[x]]
           /\ pout' = [x \in AllWires |-> IF x \in olds THEN FALSE ELSE pout[x]]
           /\ inhibited' = inhibited \ olds
    /\ pc' = "end"
    /\ UNCHANGED <<conn, sigmap, sink, buf, todo, retry, wa, driven, bufBits, bufrIndex,
                   wtodo, cur, bitIdx, inputBits, buffered, aliases, queue, rtodo,
                   pubBuf, pubSink, fresh, conn0>>

ModNext ==
    \/ InvNext /\ UNCHANGED modVars
    \/ Prepare
    \/ \E w \in Wires : SkipWire(w) \/ BeginWire(w)
    \/ BitBuffered \/ BitNoSink \/ BitInsert \/ BitDefer
    \/ EndWire
    \/ MarkOutputs
    \/ \E c \in Cells, p \in PortNames : Reconnect(c, p)
    \/ Swap

\* The pass is sequential code that runs to completion.
ModSpec == ModInit /\ [][ModNext]_vars /\ WF_vars(ModNext)

-----------------------------------------------------------------------------
ModTypeOK ==
    /\ pc \in {"collect", "prop", "done", "wires", "reconnect", "end"}
    /\ conn \in [Cells -> [PortNames -> Seq(Bits)]]
    /\ wa \in WireAttrs
    /\ pin \in [AllWires -> BOOLEAN] /\ pout \in [AllWires -> BOOLEAN]
    /\ wtodo \subseteq Wires /\ cur \in Wires \cup {NoWire}
    /\ DOMAIN buffered \subseteq sink \ buf
    /\ \A m \in DOMAIN buffered : buffered[m].cell \in BufCells \cup PadCells
                                  /\ buffered[m].iwire \in IWires
    /\ aliases \subseteq Bits \X Bits
    /\ fresh \subseteq BufCells \cup PadCells \cup IWires \cup {Copy[w] : w \in Wires}

\* The bits connected to b in the current netlist: the connections sigmap
\* already knew, and those module->connect() added.
Linked(x, y) == sigmap[x] = sigmap[y] \/ <<x, y>> \in aliases \/ <<y, x>> \in aliases

NetOf(b) ==
    LET r[n \in Nat] == IF n = 0 THEN {b}
                        ELSE LET prev == r[n - 1]
                             IN  prev \cup {y \in Bits : \E x \in prev : Linked(x, y)}
    IN  r[Cardinality(Bits)]

\* What drives a net: cell output port bits, and input ports (by name).
DriversIn(N, cn, nm, pi) ==
    {<<"cell", cp[1], cp[2]>> : cp \in {cp \in Cells \X PortNames :
        <<CellType[cp[1]], cp[2]>> \in OutPorts /\ \E k \in 1 .. Len(cn[cp[1]][cp[2]]) : cn[cp[1]][cp[2]][k] \in N}}
    \cup {<<"port", nm[b[1]], b[2]>> : b \in {x \in N : pi[x[1]]}}

Drivers(N) == DriversIn(N, conn, wname, pin)

\* The drivers of canonical bit m before the pass.
Drivers0(m) == DriversIn({x \in Bits : sigmap[x] = m}, conn0, [x \in AllWires |-> x],
                         [x \in AllWires |-> x \in wa.pin])

\* The module's ports: name, width and direction.
PortSet == {<<wname[w], Width[w], pin[w], pout[w]>> : w \in {x \in AllWires : pin[x] \/ pout[x]}}

PortSet0 == {<<w, Width[w], w \in wa.pin, w \in wa.pout>> : w \in wa.pin \cup wa.pout}

\* A clock sink that needs a buffer: not yet buffered, and some bit of its
\* net lies on a processed wire and is driven by a cell or is a top input.
NeedsBuffer(m) ==
    /\ m \in sink \ buf
    /\ \E x \in {y \in Bits : sigmap[y] = m} :
          /\ x[1] \in Wires /\ ~(x[1] \in wa.pin /\ x[1] \in wa.pout)
          /\ x[1] \in wa.selected /\ ~(~SelectGiven /\ x[1] \in wa.inhibit)
          /\ (x \in OutputBitsOf(conn0) \/ (x[1] \in wa.pin /\ wa.top))

(***************************************************************************)
(* Spec 8, port-identity preservation: after the pass (including the      *)
(* rewiring of input ports and the name swap of lines 402-414) the module *)
(* has exactly the ports it had, with the same names, widths and           *)
(* directions.                                                             *)
(***************************************************************************)
PortsPreserved == pc = "end" => PortSet = PortSet0

(***************************************************************************)
(* Every clock sink pin whose net needs a buffer is, after the pass,      *)
(* driven by exactly one driver: an inserted buffer or pad cell.  A stale *)
(* substitution, a reconnection that skipped a driver or rewired the      *)
(* buffer itself, or a port copy left on the clock net breaks it.         *)
(***************************************************************************)
SinksBuffered ==
    pc = "end" =>
      \A c \in Cells \ (BufCells \cup PadCells), p \in PortNames :
        \A k \in 1 .. Len(conn0[c][p]) :
          (<<CellType[c], p, k - 1>> \in SinkPorts /\ NeedsBuffer(sigmap[conn0[c][p][k]])) =>
             \E d \in BufCells \cup PadCells, q \in PortNames :
                Drivers(NetOf(conn[c][p][k])) = {<<"cell", d, q>>}

(***************************************************************************)
(* Every inserted buffer chain is fed by what drove the clock net before  *)
(* the pass: the net of the buffer input (iwire) has exactly the drivers  *)
(* the canonical bit had, the driver cells and the input port by its      *)
(* original name.                                                         *)
(***************************************************************************)
SourceKept ==
    pc = "end" =>
      \A m \in DOMAIN buffered : Drivers(NetOf(<<buffered[m].iwire, 0>>)) = Drivers0(m)

\* Secondary cells (BUFR, BUFIO) and the canonical bit of their input
\* before the pass.
Secondaries == {c \in Cells : CellType[c] \in SecondaryTypes}

SecBit0(r) == sigmap[conn0[r]["I"][1]]

(***************************************************************************)
(* Spec 4.5 and the comment at line 388: a secondary cell whose input was *)
(* on a clock net that got a buffer is repointed to the buffer input      *)
(* (iwire), so that it reads the source the primary buffer reads.         *)
(***************************************************************************)
SecondaryRealigned ==
    pc = "end" =>
      \A r \in Secondaries :
        SecBit0(r) \in DOMAIN buffered =>
           conn[r]["I"][1] \in NetOf(<<buffered[SecBit0(r)].iwire, 0>>)

(***************************************************************************)
(* A secondary cell whose input net got no buffer keeps its input (the    *)
(* index of lines 254-267 and the lookup at line 385 must not confuse two *)
(* nets).                                                                 *)
(***************************************************************************)
SecondaryUntouched ==
    pc = "end" =>
      \A r \in Secondaries : SecBit0(r) \notin DOMAIN buffered => conn[r]["I"] = conn0[r]["I"]

(***************************************************************************)
(* Spec 8, selective inhibition: without an explicit selection, every bit *)
(* of a wire carrying clkbuf_inhibit has the same drivers after the pass  *)
(* as before (lines 231-233 skip the wire).                               *)
(***************************************************************************)
InhibitRespected ==
    (pc = "end" /\ ~SelectGiven) =>
      \A w \in wa.inhibit : \A b \in WireBits(w) : Drivers(NetOf(b)) = Drivers0(sigmap[b])

\* The pass runs to its end (the pools of new cells and wires are enough).
Completes == <>(pc = "end")

=============================================================================
