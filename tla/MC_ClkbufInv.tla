---------------------------- MODULE MC_ClkbufInv ----------------------------
(***************************************************************************)
(* A module with two inverter cells, one flip-flop clock pin (a clock     *)
(* sink) and one already-buffered driver (a BUFG output), each port one    *)
(* bit wide, wired in every way over three bits.  That covers chains of    *)
(* two inverters, an inverter feeding itself or a sink, buffered and       *)
(* unbuffered sources and inverter rings.                                  *)
(***************************************************************************)
EXTENDS ClkbufInv, TLC, SequencesExt

CONSTANTS inv1, inv2, ff, drv, b1, b2, b3

MCCells == {inv1, inv2, ff, drv}
MCTypes == {"INV", "FF", "BUFG"}
MCPorts == {"I", "O", "C"}
MCBits == {b1, b2, b3}
MCCellType == [c \in MCCells |-> IF c \in {inv1, inv2} THEN "INV"
                                 ELSE IF c = ff THEN "FF" ELSE "BUFG"]
\* FF.C carries (* clkbuf_sink *), BUFG.O (* clkbuf_driver *), and INV has
\* (* clkbuf_inv = "I" *) on O.
MCSinkPorts == {<<"FF", "C", 0>>}
MCBufPorts == {<<"BUFG", "O", 0>>}
MCInvOut == <<"INV", "O", 0>> :> <<"I", 0>>
MCInvIn == <<"INV", "I", 0>> :> <<"O", 0>>

\* The connected ports; every other port is left unconnected.
Wired == <<<<inv1, "O">>, <<inv1, "I">>, <<inv2, "O">>, <<inv2, "I">>,
           <<ff, "C">>, <<drv, "O">>>>

\* The output ports; a well-formed netlist drives each bit at most once.
Outputs == {<<inv1, "O">>, <<inv2, "O">>, <<drv, "O">>}

\* The buffered driver may also be absent ("none"), leaving a bit undriven.
MCConns == {[c \in MCCells |-> [p \in MCPorts |->
                IF <<c, p>> \in ToSet(Wired) /\ f[<<c, p>>] # "none"
                  THEN <<f[<<c, p>>]>> ELSE <<>>]] :
            f \in {g \in [ToSet(Wired) -> MCBits \cup {"none"}] :
                      /\ \A x \in ToSet(Wired) : g[x] = "none" => x = <<drv, "O">>
                      /\ \A x, y \in Outputs : g[x] = g[y] => x = y}}

MCSigMaps == {[b \in MCBits |-> b]}

-----------------------------------------------------------------------------
(***************************************************************************)
(* The result of the retry loop when every pass visits the slots in one    *)
(* fixed order (the order of Wired): a reference run to compare with.      *)
(***************************************************************************)
RefOrder == SelectSeq([k \in 1 .. Len(Wired) |-> <<Wired[k][1], Wired[k][2], 1>>],
                      LAMBDA s : s \in Slots)

RefPass(st) ==
    FoldLeft(LAMBDA acc, s :
                LET r == ScanResult(s, acc.sink, acc.buf)
                IN  [sink |-> r.sink, buf |-> r.buf, retry |-> acc.retry \/ r.changed],
             [st EXCEPT !.retry = FALSE], RefOrder)

RECURSIVE RefLoop(_)
RefLoop(st) == LET nx == RefPass(st) IN IF nx.retry THEN RefLoop(nx) ELSE nx

RefResult == RefLoop([sink |-> TaggedBits(SinkPorts), buf |-> TaggedBits(BufPorts),
                      retry |-> TRUE])

(***************************************************************************)
(* What the insertion step acts on does not depend on the scan order of    *)
(* the retry loop: the set of buffered bits, and the set of sink bits not  *)
(* buffered (those a buffer may be inserted on), equal those of the fixed- *)
(* order run.                                                              *)
(***************************************************************************)
OutcomeOrderIndependent ==
    pc = "done" =>
        /\ buf = RefResult.buf
        /\ sink \ buf = RefResult.sink \ RefResult.buf

(***************************************************************************)
(* Spec 4.4 and 8: the final sink and buffered sets are identical for any  *)
(* scan order.  Checked for the sink set.                                  *)
(***************************************************************************)
SinkOrderIndependent == pc = "done" => sink = RefResult.sink

=============================================================================
