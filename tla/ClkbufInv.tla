------------------------------ MODULE ClkbufInv ------------------------------
(***************************************************************************)
(* Tag collection and inverter propagation of one module in the clkbufmap *)
(* pass (passes/techmap/clkbufmap.cc, execute(), lines 160-210).           *)
(*                                                                         *)
(* A module's netlist is abstracted to its cells, the bits each cell port  *)
(* connects (conn) and the canonical signal map (sigmap).  The pass reads  *)
(* the run-wide tag tables sink_ports, buf_ports, inv_ports_out and        *)
(* inv_ports_in (constants here: they are fixed while one module is        *)
(* processed) and builds two module-local sets of canonical bits:          *)
(* sink_wire_bits (sink) and buf_wire_bits (buf).  Then the while(retry)   *)
(* loop re-scans every cell port bit ("slot") until a full pass changes    *)
(* nothing.  The order in which a pass visits the slots is the iteration   *)
(* order of yosys' hash containers, which the code does not fix: a pass    *)
(* here visits the slots in any order (todo is the set not yet visited).   *)
(***************************************************************************)
EXTENDS Naturals, Sequences, FiniteSets

CONSTANTS
    Cells,      \* the cells of the module
    Types,      \* cell types: library cells and module names
    PortNames,  \* port names of cell types
    Bits,       \* signal bits of the module (wire bits)
    CellType,   \* cell -> cell type (a library cell or a module name)
    SinkPorts,  \* sink_ports: set of <<type, port, index>>
    BufPorts,   \* buf_ports:  set of <<type, port, index>>
    InvOut,     \* inv_ports_out: <<type, out port, index>> -> <<in port, index>>
    InvIn,      \* inv_ports_in:  <<type, in port, index>>  -> <<out port, index>>
    Conns,      \* the connection maps a module can have
    SigMaps     \* the canonical signal maps a module can have

\* A tag-table key: (cell type, port name, bit index).
Keys == Types \X PortNames \X Nat

\* A canonical map sends every bit to a representative that maps to itself.
IsSigMap(m) == m \in [Bits -> Bits] /\ \A b \in Bits : m[m[b]] = m[b]

ASSUME TablesAssumption ==
    /\ CellType \in [Cells -> Types]
    /\ SinkPorts \subseteq Keys /\ BufPorts \subseteq Keys
    /\ DOMAIN InvOut \subseteq Keys /\ DOMAIN InvIn \subseteq Keys
    /\ \A k \in DOMAIN InvOut : InvOut[k] \in PortNames \X Nat
    /\ \A k \in DOMAIN InvIn : InvIn[k] \in PortNames \X Nat

ASSUME NetlistAssumption ==
    /\ Conns \subseteq [Cells -> [PortNames -> Seq(Bits)]]
    /\ \A m \in SigMaps : IsSigMap(m)

-----------------------------------------------------------------------------
VARIABLES
    conn,    \* cell -> port -> SigSpec (sequence of bits)
    sigmap,  \* SigMap sigmap(module)
    sink,    \* sink_wire_bits
    buf,     \* buf_wire_bits
    todo,    \* slots the current pass of the retry loop has not visited
    retry,   \* the loop's retry flag
    pc       \* "collect", "prop" or "done"

invVars == <<conn, sigmap, sink, buf, todo, retry, pc>>

\* A slot is bit i of port p of cell c, for every port c connects.
SlotsOf(cn) == UNION {{<<c, p, i>> : i \in 1 .. Len(cn[c][p])} : c \in Cells, p \in PortNames}

Slots == SlotsOf(conn)

\* The tag-table key of a slot: (cell type, port name, 0-based bit index).
TagKey(s) == <<CellType[s[1]], s[2], s[3] - 1>>

\* sigmap(port.second[i])
Bit(s) == sigmap[conn[s[1]][s[2]][s[3]]]

\* sigmap(cell->getPort(pr.first)[pr.second]): the paired bit of the inverter.
PairBit(s, pr) == sigmap[conn[s[1]][pr[1]][pr[2] + 1]]

\* Every inverter cell connects the paired port at the paired index
\* (getPort would abort otherwise).
ASSUME PairAssumption ==
    \A cn \in Conns : \A s \in SlotsOf(cn) :
        /\ TagKey(s) \in DOMAIN InvOut => InvOut[TagKey(s)][2] + 1 \in 1 .. Len(cn[s[1]][InvOut[TagKey(s)][1]])
        /\ TagKey(s) \in DOMAIN InvIn => InvIn[TagKey(s)][2] + 1 \in 1 .. Len(cn[s[1]][InvIn[TagKey(s)][1]])

\* Canonical bits of all slots whose key is in a tag table (lines 168-179).
TaggedBits(tags) == {Bit(s) : s \in {t \in Slots : TagKey(t) \in tags}}

\* Rule 1 (lines 190-197): an inverter output that is a sink and not yet
\* buffered becomes buffered, and its input becomes a sink.
InvOutFires(s, sk, bf) ==
    /\ TagKey(s) \in DOMAIN InvOut
    /\ Bit(s) \notin bf
    /\ Bit(s) \in sk

\* Rule 2 (lines 198-207): an inverter input that is buffered makes its
\* output buffered.
InvInFires(s, bf) ==
    /\ TagKey(s) \in DOMAIN InvIn
    /\ Bit(s) \in bf
    /\ PairBit(s, InvIn[TagKey(s)]) \notin bf

\* Fault variants of ScanResult (a rule-2 change that does not set retry;
\* a retry set whenever an inverter input is buffered).
ScanResultNoRetry2(s, sk, bf) ==
    LET r1  == InvOutFires(s, sk, bf)
        bf1 == IF r1 THEN bf \cup {Bit(s)} ELSE bf
        sk1 == IF r1 THEN sk \cup {PairBit(s, InvOut[TagKey(s)])} ELSE sk
        r2  == InvInFires(s, bf1)
    IN  [sink |-> sk1,
         buf |-> IF r2 THEN bf1 \cup {PairBit(s, InvIn[TagKey(s)])} ELSE bf1,
         changed |-> r1]

ScanResultAlwaysRetry(s, sk, bf) ==
    LET r1  == InvOutFires(s, sk, bf)
        bf1 == IF r1 THEN bf \cup {Bit(s)} ELSE bf
        sk1 == IF r1 THEN sk \cup {PairBit(s, InvOut[TagKey(s)])} ELSE sk
        r2  == InvInFires(s, bf1)
    IN  [sink |-> sk1,
         buf |-> IF r2 THEN bf1 \cup {PairBit(s, InvIn[TagKey(s)])} ELSE bf1,
         changed |-> r1 \/ (TagKey(s) \in DOMAIN InvIn /\ Bit(s) \in bf1)]

\* One iteration of the innermost loop body (lines 188-208): rule 1, then
\* rule 2 on the sets rule 1 left.
ScanResult(s, sk, bf) ==
    LET r1  == InvOutFires(s, sk, bf)
        bf1 == IF r1 THEN bf \cup {Bit(s)} ELSE bf
        sk1 == IF r1 THEN sk \cup {PairBit(s, InvOut[TagKey(s)])} ELSE sk
        r2  == InvInFires(s, bf1)
    IN  [sink |-> sk1,
         buf |-> IF r2 THEN bf1 \cup {PairBit(s, InvIn[TagKey(s)])} ELSE bf1,
         changed |-> r1 \/ r2]

-----------------------------------------------------------------------------
InvInit ==
    /\ conn \in Conns
    /\ sigmap \in SigMaps
    /\ sink = {}
    /\ buf = {}
    /\ todo = {}
    /\ retry = TRUE
    /\ pc = "collect"

\* Lines 167-179 and the entry into the first pass of while (retry).
CollectTags ==
    /\ pc = "collect"
    /\ sink' = TaggedBits(SinkPorts)
    /\ buf' = TaggedBits(BufPorts)
    /\ todo' = Slots
    /\ retry' = FALSE
    /\ pc' = "prop"
    /\ UNCHANGED <<conn, sigmap>>

\* One slot of the current pass.
ScanSlot(s) ==
    /\ pc = "prop"
    /\ s \in todo
    /\ LET r == ScanResult(s, sink, buf) IN
         /\ sink' = r.sink
         /\ buf' = r.buf
         /\ retry' = (retry \/ r.changed)
    /\ todo' = todo \ {s}
    /\ UNCHANGED <<conn, sigmap, pc>>

\* Fault variant: the loop is left before the pass has visited every slot.
EndPassEarly ==
    /\ pc = "prop"
    /\ IF retry /\ todo = {}
         THEN todo' = Slots /\ retry' = FALSE /\ pc' = pc
         ELSE pc' = "done" /\ UNCHANGED <<todo, retry>>
    /\ UNCHANGED <<conn, sigmap, sink, buf>>

\* The end of a pass: the while condition (lines 183-184, 210).
EndPass ==
    /\ pc = "prop"
    /\ todo = {}
    /\ IF retry
         THEN todo' = Slots /\ retry' = FALSE /\ pc' = pc
         ELSE pc' = "done" /\ UNCHANGED <<todo, retry>>
    /\ UNCHANGED <<conn, sigmap, sink, buf>>

InvNext ==
    \/ CollectTags
    \/ \E s \in Slots : ScanSlot(s)
    \/ EndPass

\* The loop is sequential code that runs until it exits.
InvSpec == InvInit /\ [][InvNext]_invVars /\ WF_invVars(InvNext)

-----------------------------------------------------------------------------
InvTypeOK ==
    /\ conn \in [Cells -> [PortNames -> Seq(Bits)]]
    /\ sigmap \in SigMaps
    /\ sink \subseteq Bits
    /\ buf \subseteq Bits
    /\ todo \subseteq Slots
    /\ retry \in BOOLEAN
    /\ pc \in {"collect", "prop", "done"}
    /\ pc = "done" => todo = {}

\* Neither rule can fire at slot s.
Quiescent(s) == ~InvOutFires(s, sink, buf) /\ ~InvInFires(s, buf)

(***************************************************************************)
(* When the retry loop exits, the sets are a fixed point of both rules:    *)
(* no inverter output is an unbuffered sink and no inverter input is       *)
(* buffered with an unbuffered output.  The loop only knows that its last  *)
(* pass changed nothing; this says that is enough, whatever the order.     *)
(***************************************************************************)
FixedPoint == pc = "done" => \A s \in Slots : Quiescent(s)

(***************************************************************************)
(* The retry loop terminates (spec 4.4: both sets only grow).              *)
(***************************************************************************)
Terminates == <>(pc = "done")

=============================================================================
