---------------------------- MODULE MC_ClkbufHier ----------------------------
(***************************************************************************)
(* Three ordinary modules t, u, v and a blackbox b (a clock buffer: sink  *)
(* port c, driver port o of two bits, and q linked to c by clkbuf_inv),   *)
(* plus a primitive cell type.  t may instantiate u, v, b and the         *)
(* primitive, u may instantiate v, b and the primitive, v b or the        *)
(* primitive, each at most twice in any order; the selection is {t},     *)
(* {u} or {t, u}.  This covers a module reached along two paths, an      *)
(* unselected module reached through a selected one, and a blackbox that *)
(* is never reached.  MC_ClkbufHierCycle lets v instantiate u instead.    *)
(***************************************************************************)
EXTENDS ClkbufHier, TLC

CONSTANTS t, u, v, b

MCModules == {t, u, v, b}
MCPrims == {"dff"}
MCPortNames == {"c", "o", "q"}
MCWidth == [w \in MCPortNames |-> IF w = "o" THEN 2 ELSE 1]
MCPortsOf == [m \in MCModules |->
                IF m = b THEN <<"c", "o", "q">> ELSE IF m = v THEN <<"o">> ELSE <<"c", "o">>]
MCOutPortsOf == [m \in MCModules |-> IF m = b THEN {"o", "q"} ELSE {"o"}]
MCInPortsOf == [m \in MCModules |-> IF m = v THEN {} ELSE {"c"}]
MCBbDriver == {<<b, "o">>}
MCBbSink == {<<b, "c">>}
MCBbInv == [k \in {<<b, "q">>} |-> "c"]

\* Sequences of at most two cell types from S.
Upto2(S) == {<<>>} \cup {<<x>> : x \in S} \cup {<<x, y>> : x, y \in S}

Sels == {{t}, {u}, {t, u}}

MCDesigns ==
    {[cells |-> [m \in MCModules |-> IF m = t THEN ct ELSE IF m = u THEN cu
                                     ELSE IF m = v THEN cv ELSE <<>>],
      sel |-> s] :
     ct \in Upto2({u, v, b, "dff"}), cu \in Upto2({v, b, "dff"}),
     cv \in {<<>>, <<b>>, <<"dff">>}, s \in Sels}

\* v instantiates u, which may instantiate v: a cycle when it does.
MCCyclicDesigns ==
    {[cells |-> [m \in MCModules |-> IF m = t THEN <<u>> ELSE IF m = u THEN cu
                                     ELSE IF m = v THEN <<u>> ELSE <<>>],
      sel |-> {t}] :
     cu \in Upto2({v, b, "dff"})}

=============================================================================
