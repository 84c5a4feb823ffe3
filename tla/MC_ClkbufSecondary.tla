------------------------- MODULE MC_ClkbufSecondary -------------------------
(***************************************************************************)
(* Secondary buffers: a module with a driver cell d (output Y), one       *)
(* flip-flop f1 whose clock pin C is a clock sink, and one BUFR cell r     *)
(* whose input I may sit on any bit of a 1-bit wire a and a 2-bit wire k, *)
(* each wire an input, an output or neither.  The cfg chooses the signal  *)
(* maps (SigMaps), whether the module is the top (SecTops) and the     *)
(* hash of bits (Hash).                                                   *)
(***************************************************************************)
EXTENDS ClkbufModule, TLC

CONSTANTS d, f1, r, g1, g2, p1, p2, a, k, ca, ck, i1, i2, i3, i4, SecTops

SecCells == {d, f1, r, g1, g2, p1, p2}
SecTypes == {"DRV", "FF", "BUFR", "BUFG", "IBUF"}
SecPorts == {"Y", "C", "O", "I"}
SecCellType == [c \in SecCells |-> IF c = d THEN "DRV" ELSE IF c = f1 THEN "FF"
                                   ELSE IF c = r THEN "BUFR"
                                   ELSE IF c \in {g1, g2} THEN "BUFG" ELSE "IBUF"]
SecSinkPorts == {<<"FF", "C", 0>>}
SecBufPorts == {<<"BUFG", "O", 0>>, <<"IBUF", "O", 0>>}
SecNoInv == [x \in {} |-> <<"I", 0>>]
SecOutPorts == {<<"DRV", "Y">>, <<"BUFR", "O">>, <<"BUFG", "O">>, <<"IBUF", "O">>}

SecWires == {a, k}
SecIWires == {i1, i2, i3, i4}
SecCopy == [w \in SecWires |-> IF w = a THEN ca ELSE ck]
SecWidth == [w \in SecWires \cup SecIWires \cup {ca, ck} |-> IF w \in {k, ck} THEN 2 ELSE 1]
SecBits == UNION {{<<w, i>> : i \in 0 .. SecWidth[w] - 1} : w \in DOMAIN SecWidth}

A0 == <<a, 0>>
K0 == <<k, 0>>
K1 == <<k, 1>>

SecConns == {[c \in SecCells |->
                [p \in SecPorts |->
                   IF c = d /\ p = "Y" THEN y
                   ELSE IF c = f1 /\ p = "C" THEN <<s>>
                   ELSE IF c = r /\ p = "I" THEN <<q>> ELSE <<>>]] :
             y \in {<<A0>>, <<K0>>, <<K1>>, <<>>}, s \in {A0, K0, K1}, q \in {A0, K0, K1}}

Alias(from, to) == [b \in SecBits |-> IF b = from THEN to ELSE b]
SigMapsIdentity == {Alias(A0, A0)}
SigMapsAliased == {Alias(K1, A0)}

Dir == {"none", "in", "out"}
SecWireAttrs ==
    {[pin |-> {w \in SecWires : dir[w] = "in"}, pout |-> {w \in SecWires : dir[w] = "out"},
      inhibit |-> {}, selected |-> SecWires, top |-> t] :
     dir \in [SecWires -> Dir], t \in SecTops}

\* An injective hash, and one under which a[0] and k[0] collide.
HashInjective == [b \in SecBits |-> b]
HashCollide == [b \in SecBits |-> IF b = K0 THEN A0 ELSE b]

\* A well-formed netlist drives every net at most once.
SingleDriver == \A m \in Bits : Cardinality(Drivers0(m)) <= 1

WellFormedInit == ModInit /\ SingleDriver

SecSpec == WellFormedInit /\ [][ModNext]_vars /\ WF_vars(ModNext)

=============================================================================
