--------------------------- MODULE MC_ClkbufModule ---------------------------
(***************************************************************************)
(* A module with one driver cell d (output Y), one clock driver e (output *)
(* O, tagged clkbuf_driver) on a[0] or unconnected, two flip-flops f1, f2  *)
(* whose clock pins C are clock sinks, a 1-bit wire a and a 2-bit wire k. *)
(* Every way to connect d.Y, f1.C and f2.C to the three bits, each wire   *)
(* an input, an output, both (malformed) or neither, the module top or    *)
(* not, wire a inhibited or not, and sigmap either the identity or an     *)
(* alias of a[0] with k[1] (either bit canonical).  New cells come from   *)
(* two buffer and two pad identities, new wires from four 1-bit wires and *)
(* one copy per wire, enough for every insertion.                         *)
(***************************************************************************)
EXTENDS ClkbufModule, TLC

CONSTANTS d, e, f1, f2, g1, g2, p1, p2, a, k, ca, ck, i1, i2, i3, i4

MCCells == {d, e, f1, f2, g1, g2, p1, p2}
MCTypes == {"DRV", "CKBUF", "FF", "BUFG", "IBUF"}
MCPorts == {"Y", "C", "O", "I"}
MCCellType == [c \in MCCells |-> IF c = d THEN "DRV" ELSE IF c = e THEN "CKBUF" ELSE IF c \in {f1, f2} THEN "FF"
                                 ELSE IF c \in {g1, g2} THEN "BUFG" ELSE "IBUF"]
MCSinkPorts == {<<"FF", "C", 0>>}
MCBufPorts == {<<"CKBUF", "O", 0>>, <<"BUFG", "O", 0>>, <<"IBUF", "O", 0>>}
MCNoInv == [x \in {} |-> <<"I", 0>>]
MCOutPorts == {<<"DRV", "Y">>, <<"CKBUF", "O">>, <<"BUFG", "O">>, <<"IBUF", "O">>}

MCWires == {a, k}
MCIWires == {i1, i2, i3, i4}
MCCopy == [w \in MCWires |-> IF w = a THEN ca ELSE ck]
MCWidth == [w \in MCWires \cup MCIWires \cup {ca, ck} |-> IF w \in {k, ck} THEN 2 ELSE 1]
MCBits == UNION {{<<w, i>> : i \in 0 .. MCWidth[w] - 1} : w \in DOMAIN MCWidth}

A0 == <<a, 0>>
K0 == <<k, 0>>
K1 == <<k, 1>>

\* d.Y, f1.C and f2.C on the original bits; d.Y may be unconnected.
MCConns == {[c \in MCCells |->
                [p \in MCPorts |->
                   IF c = d /\ p = "Y" THEN y
                   ELSE IF c = e /\ p = "O" THEN z
                   ELSE IF c = f1 /\ p = "C" THEN <<s1>>
                   ELSE IF c = f2 /\ p = "C" THEN <<s2>> ELSE <<>>]] :
            y \in {<<A0>>, <<K0>>, <<K1>>, <<>>}, z \in {<<A0>>, <<>>}, s1 \in {A0, K0, K1}, s2 \in {A0, K0, K1}}

Alias(from, to) == [b \in MCBits |-> IF b = from THEN to ELSE b]
MCSigMaps == {Alias(A0, A0), Alias(K1, A0), Alias(A0, K1)}

Dir == {"none", "in", "out", "inout"}
MCWireAttrs ==
    {[pin |-> {w \in MCWires : dir[w] \in {"in", "inout"}},
      pout |-> {w \in MCWires : dir[w] \in {"out", "inout"}},
      inhibit |-> inh, selected |-> MCWires, top |-> t] :
     dir \in [MCWires -> Dir], inh \in {{}, {a}}, t \in BOOLEAN}

MCHash == [b \in MCBits |-> b]

\* A well-formed netlist drives every net at most once (a cell output or
\* an input port).
SingleDriver == \A m \in Bits : Cardinality(Drivers0(m)) <= 1

WellFormedInit == ModInit /\ SingleDriver

MCSpec == WellFormedInit /\ [][ModNext]_vars /\ WF_vars(ModNext)

=============================================================================
