-------------------------- MODULE ClkbufModuleProofs --------------------------
(***************************************************************************)
(* Proofs about the processing of one ordinary module by clkbufmap, for    *)
(* every module, wire attributes and netlist the assumptions allow.        *)
(***************************************************************************)
EXTENDS ClkbufModule, TLAPS

(***************************************************************************)
(* PortsPreserved speaks only of the final state, so it is not inductive.  *)
(* Until the name swap of lines 402-414, every wire keeps its own name,    *)
(* every wire of the module keeps its port flags, and a port copy made at *)
(* lines 334-354 carries the flags of the wire it copies and nothing else *)
(* is a port.  input_queue pairs each rewired wire with its copy.          *)
(***************************************************************************)
CopyPairs == {<<w, Copy[w]>> : w \in Wires}

\* The port flag a wire has before the swap, given the original flags F.
FlagBeforeSwap(F) ==
    [x \in AllWires |-> x \in F \/ \E q \in queue : q[2] = x /\ q[1] \in F]

PortInv ==
    /\ wa \in WireAttrs
    /\ cur \in Wires \cup {NoWire}
    /\ queue \subseteq CopyPairs
    /\ pc \in {"collect", "prop", "done", "wires", "reconnect", "end"}
    /\ pc # "end" =>
          /\ wname = [x \in AllWires |-> x]
          /\ pin = FlagBeforeSwap(wa.pin)
          /\ pout = FlagBeforeSwap(wa.pout)
    /\ pc = "end" => PortSet = PortSet0

\* The wires of the module that input_queue pairs with their copy.
Rewired == {w \in Wires : <<w, Copy[w]>> \in queue}

\* A port copy is a wire of its own, of the width of the wire it copies.
LEMMA CopyFacts ==
    ASSUME NEW w \in Wires
    PROVE  /\ Copy[w] \in AllWires /\ Copy[w] \notin Wires /\ Copy[w] \notin IWires
           /\ Width[Copy[w]] = Width[w]
BY ModuleAssumption DEF AllWires

LEMMA CopyInjective ==
    ASSUME NEW v \in Wires, NEW w \in Wires, Copy[v] = Copy[w]
    PROVE  v = w
BY ModuleAssumption

\* Every wire is a wire of the module, a buffer input or a port copy.
LEMMA WireCases ==
    ASSUME NEW x \in AllWires
    PROVE  x \in Wires \/ x \in IWires \/ \E w \in Wires : x = Copy[w]
BY DEF AllWires

\* The flags before the swap: a wire of the module has its own, a copy
\* those of its rewired wire, a buffer input none.
LEMMA FlagBefore ==
    ASSUME NEW F \in SUBSET Wires, queue \subseteq CopyPairs
    PROVE  /\ \A w \in Wires : FlagBeforeSwap(F)[w] = (w \in F)
           /\ \A w \in Wires : FlagBeforeSwap(F)[Copy[w]] = (w \in Rewired /\ w \in F)
           /\ \A i \in IWires : ~FlagBeforeSwap(F)[i]
<1>1. ASSUME NEW w \in Wires PROVE FlagBeforeSwap(F)[w] = (w \in F)
  <2>1. w \in AllWires
    BY DEF AllWires
  <2>2. \A q \in queue : q[2] # w
    BY CopyFacts DEF CopyPairs
  <2>. QED  BY <2>1, <2>2 DEF FlagBeforeSwap
<1>2. ASSUME NEW w \in Wires PROVE FlagBeforeSwap(F)[Copy[w]] = (w \in Rewired /\ w \in F)
  <2>1. Copy[w] \in AllWires /\ Copy[w] \notin F
    BY CopyFacts
  <2>2. (\E q \in queue : q[2] = Copy[w] /\ q[1] \in F) <=> (w \in Rewired /\ w \in F)
    BY CopyInjective DEF CopyPairs, Rewired
  <2>. QED  BY <2>1, <2>2 DEF FlagBeforeSwap
<1>3. ASSUME NEW i \in IWires PROVE ~FlagBeforeSwap(F)[i]
  <2>1. i \in AllWires /\ i \notin F
    BY ModuleAssumption DEF AllWires
  <2>2. \A q \in queue : q[2] # i
    BY CopyFacts DEF CopyPairs
  <2>. QED  BY <2>1, <2>2 DEF FlagBeforeSwap
<1>. QED  BY <1>1, <1>2, <1>3

LEMMA InitPortInv == ModInit => PortInv
<1> SUFFICES ASSUME ModInit PROVE PortInv
  OBVIOUS
<1>1. wa \in WireAttrs /\ queue = {} /\ cur = NoWire /\ pc = "collect"
  BY DEF ModInit, InvInit
<1>2. wa.pin \subseteq Wires /\ wa.pout \subseteq Wires
  BY <1>1, ModuleAssumption
<1>3. pin = FlagBeforeSwap(wa.pin) /\ pout = FlagBeforeSwap(wa.pout)
  BY <1>1 DEF ModInit, FlagBeforeSwap
<1>. QED  BY <1>1, <1>3 DEF ModInit, PortInv, CopyPairs

\* The tag collection and inverter loop runs before the wire loop.
LEMMA InvStepPc ==
    ASSUME InvNext
    PROVE  pc \in {"collect", "prop"} /\ pc' \in {"collect", "prop", "done"}
BY DEF InvNext, CollectTags, ScanSlot, EndPass

\* A step before the swap that leaves the names, the flags and input_queue.
LEMMA QuietStep ==
    ASSUME PortInv, pc # "end",
           pc' \in {"collect", "prop", "done", "wires", "reconnect"},
           cur' \in Wires \cup {NoWire},
           UNCHANGED <<wa, queue, wname, pin, pout>>
    PROVE  PortInv'
BY DEF PortInv, FlagBeforeSwap

\* Lines 334-354 on an input port with an inserted bit: the copy takes
\* the flags of the wire, and the pair joins input_queue.
LEMMA EndWireStep ==
    ASSUME PortInv, EndWire
    PROVE  PortInv'
<1>1. pc = "wires" /\ pc' = "wires" /\ cur \in Wires /\ cur' = NoWire
      /\ UNCHANGED <<wa, wname>>
  BY DEF EndWire, PortInv, invVars
<1>2. wa.pin \subseteq Wires /\ wa.pout \subseteq Wires
  BY <1>1, ModuleAssumption DEF PortInv
<1>3. CASE inputBits = {}
  BY <1>1, <1>3, QuietStep DEF EndWire
<1>4. CASE inputBits # {}
  <2> DEFINE nw == Copy[cur]
  <2>1. /\ pin' = [pin EXCEPT ![nw] = pin[cur]]
        /\ pout' = [pout EXCEPT ![nw] = pout[cur]]
        /\ queue' = queue \cup {<<cur, nw>>}
    BY <1>4 DEF EndWire
  <2>2. queue' \subseteq CopyPairs
    BY <1>1, <2>1 DEF PortInv, CopyPairs
  <2>3. nw \in AllWires /\ nw \notin Wires /\ \A q \in queue : q[2] # cur
    BY <1>1, CopyFacts DEF PortInv, CopyPairs
  <2>4. ASSUME NEW F \in SUBSET Wires, NEW fl, fl = FlagBeforeSwap(F)
        PROVE  [fl EXCEPT ![nw] = fl[cur]]
                 = [x \in AllWires |-> x \in F \/ \E q \in queue' : q[2] = x /\ q[1] \in F]
    <3>1. fl[cur] = (cur \in F)
      BY <1>1, <2>4, FlagBefore DEF PortInv
    <3>2. (\E q \in queue : q[2] = nw /\ q[1] \in F) => cur \in F
      BY <1>1, CopyInjective DEF PortInv, CopyPairs
    <3>3. ASSUME NEW x \in AllWires, x # nw
          PROVE  (\E q \in queue' : q[2] = x /\ q[1] \in F) <=> (\E q \in queue : q[2] = x /\ q[1] \in F)
      <4>1. <<cur, nw>>[2] # x
        BY <3>3
      <4>. QED  BY <2>1, <4>1
    <3>4. \A x \in AllWires : x # nw => fl[x] = (x \in F \/ \E q \in queue : q[2] = x /\ q[1] \in F)
      BY <2>4 DEF FlagBeforeSwap
    <3>5. nw \notin F
      BY <2>3
    <3>6. (\E q \in queue' : q[2] = nw /\ q[1] \in F) <=> cur \in F
      <4>1. <<cur, nw>> \in queue' /\ <<cur, nw>>[2] = nw /\ <<cur, nw>>[1] = cur
        BY <2>1
      <4>2. ASSUME NEW q \in queue', q[2] = nw, q[1] \in F PROVE cur \in F
        <5>1. CASE q \in queue
          BY <3>2, <4>2, <5>1
        <5>2. CASE q = <<cur, nw>>
          BY <4>2, <5>2
        <5>. QED  BY <2>1, <5>1, <5>2
      <4>. QED  BY <4>1, <4>2
    <3>7. DOMAIN fl = AllWires
      BY <2>4 DEF FlagBeforeSwap
    <3>8. ASSUME NEW x \in AllWires
          PROVE  [fl EXCEPT ![nw] = fl[cur]][x] = (x \in F \/ \E q \in queue' : q[2] = x /\ q[1] \in F)
      <4>1. CASE x = nw
        BY <2>3, <3>1, <3>5, <3>6, <3>7, <4>1
      <4>2. CASE x # nw
        BY <3>3, <3>4, <3>7, <4>2
      <4>. QED  BY <4>1, <4>2
    <3>. QED  BY <3>7, <3>8
  <2>5. pin = FlagBeforeSwap(wa.pin) /\ pout = FlagBeforeSwap(wa.pout)
        /\ wa.pin \in SUBSET Wires /\ wa.pout \in SUBSET Wires
    BY <1>1, <1>2 DEF PortInv
  <2>6. pin' = FlagBeforeSwap(wa.pin)'
    <3>1. pin' = [x \in AllWires |-> x \in wa.pin \/ \E q \in queue' : q[2] = x /\ q[1] \in wa.pin]
      BY <2>1, <2>5, <2>4
    <3>. QED  BY <1>1, <3>1 DEF FlagBeforeSwap
  <2>7. pout' = FlagBeforeSwap(wa.pout)'
    <3>1. pout' = [x \in AllWires |-> x \in wa.pout \/ \E q \in queue' : q[2] = x /\ q[1] \in wa.pout]
      BY <2>1, <2>5, <2>4
    <3>. QED  BY <1>1, <3>1 DEF FlagBeforeSwap
  <2>. QED  BY <1>1, <2>2, <2>6, <2>7 DEF PortInv
<1>. QED  BY <1>3, <1>4

(***************************************************************************)
(* Lines 402-414.  After the swap a rewired wire keeps no flag and carries *)
(* the name of its copy; the copy carries the wire's name and flags.      *)
(***************************************************************************)
LEMMA SwapValues ==
    ASSUME PortInv, pc # "end", Swap
    PROVE  /\ \A w \in Wires :
                 /\ wname'[w] = IF w \in Rewired THEN Copy[w] ELSE w
                 /\ pin'[w] = (w \notin Rewired /\ w \in wa.pin)
                 /\ pout'[w] = (w \notin Rewired /\ w \in wa.pout)
           /\ \A w \in Wires :
                 /\ w \in Rewired => wname'[Copy[w]] = w
                 /\ pin'[Copy[w]] = (w \in Rewired /\ w \in wa.pin)
                 /\ pout'[Copy[w]] = (w \in Rewired /\ w \in wa.pout)
           /\ \A i \in IWires : ~pin'[i] /\ ~pout'[i]
<1> DEFINE olds == {q[1] : q \in queue}
           news == {q[2] : q \in queue}
           orig(x) == CHOOSE q \in queue : q[2] = x
           copy(x) == CHOOSE q \in queue : q[1] = x
<1> USE DEF olds, news, orig, copy
<1>1. /\ wname' = [x \in AllWires |->
                     IF x \in olds THEN wname[copy(x)[2]]
                     ELSE IF x \in news THEN wname[orig(x)[1]] ELSE wname[x]]
      /\ pin' = [x \in AllWires |-> IF x \in olds THEN FALSE ELSE pin[x]]
      /\ pout' = [x \in AllWires |-> IF x \in olds THEN FALSE ELSE pout[x]]
  BY DEF Swap
<1>2. /\ queue \subseteq CopyPairs /\ wname = [x \in AllWires |-> x]
      /\ pin = FlagBeforeSwap(wa.pin) /\ pout = FlagBeforeSwap(wa.pout)
      /\ wa.pin \subseteq Wires /\ wa.pout \subseteq Wires
  BY ModuleAssumption DEF PortInv
<1>3. olds = Rewired
  BY <1>2 DEF CopyPairs, Rewired
<1>4. ASSUME NEW w \in Wires PROVE Copy[w] \notin olds /\ (Copy[w] \in news <=> w \in Rewired)
  BY <1>2, CopyFacts, CopyInjective DEF CopyPairs, Rewired
<1>5. ASSUME NEW w \in Rewired PROVE copy(w)[2] = Copy[w] /\ orig(Copy[w])[1] = w
  <2>1. <<w, Copy[w]>> \in queue
    BY DEF Rewired
  <2>2. \A q \in queue : q[1] = w => q = <<w, Copy[w]>>
    BY <1>2 DEF CopyPairs, Rewired
  <2>3. \A q \in queue : q[2] = Copy[w] => q = <<w, Copy[w]>>
    BY <1>2, CopyInjective DEF CopyPairs, Rewired
  <2>4. copy(w) = <<w, Copy[w]>>
    BY <2>1, <2>2, Zenon
  <2>5. orig(Copy[w]) = <<w, Copy[w]>>
    BY <2>1, <2>3, Zenon
  <2>6. <<w, Copy[w]>>[2] = Copy[w] /\ <<w, Copy[w]>>[1] = w
    OBVIOUS
  <2>. QED  BY <2>4, <2>5, <2>6
<1>6. ASSUME NEW w \in Wires PROVE w \notin news
  BY <1>2, CopyFacts DEF CopyPairs
<1>7. ASSUME NEW w \in Wires
      PROVE  /\ wname'[w] = IF w \in Rewired THEN Copy[w] ELSE w
             /\ pin'[w] = (w \notin Rewired /\ w \in wa.pin)
             /\ pout'[w] = (w \notin Rewired /\ w \in wa.pout)
  <2>0. w \in olds <=> w \in Rewired
    BY <1>3
  <2>1. w \in AllWires /\ Copy[w] \in AllWires
    BY CopyFacts DEF AllWires
  <2>2. pin[w] = (w \in wa.pin) /\ pout[w] = (w \in wa.pout)
    BY <1>2, FlagBefore
  <2>3. w \in Rewired => wname'[w] = Copy[w]
    <3> SUFFICES ASSUME w \in Rewired PROVE wname'[w] = Copy[w]
      OBVIOUS
    <3>1. wname'[w] = wname[copy(w)[2]]
      BY <1>1, <1>3, <2>1
    <3>2. copy(w)[2] = Copy[w]
      BY <1>5
    <3>. QED  BY <1>2, <2>1, <3>1, <3>2
  <2>4. w \notin Rewired => wname'[w] = w
    BY <1>1, <1>2, <1>3, <1>6, <2>1
  <2>5. /\ pin'[w] = (IF w \in olds THEN FALSE ELSE pin[w])
        /\ pout'[w] = (IF w \in olds THEN FALSE ELSE pout[w])
    BY <1>1, <2>1, Zenon
  <2>6. pin'[w] = (w \notin Rewired /\ w \in wa.pin)
    <3>1. CASE w \in Rewired
      <4>1. pin'[w] = FALSE
        BY <2>0, <2>5, <3>1
      <4>. QED  BY <3>1, <4>1
    <3>2. CASE w \notin Rewired
      <4>1. pin'[w] = pin[w]
        BY <2>0, <2>5, <3>2
      <4>. QED  BY <2>2, <3>2, <4>1
    <3>. QED  BY <3>1, <3>2
  <2>7. pout'[w] = (w \notin Rewired /\ w \in wa.pout)
    <3>1. CASE w \in Rewired
      <4>1. pout'[w] = FALSE
        BY <2>0, <2>5, <3>1
      <4>. QED  BY <3>1, <4>1
    <3>2. CASE w \notin Rewired
      <4>1. pout'[w] = pout[w]
        BY <2>0, <2>5, <3>2
      <4>. QED  BY <2>2, <3>2, <4>1
    <3>. QED  BY <3>1, <3>2
  <2>. QED  BY <2>3, <2>4, <2>6, <2>7
<1>8. ASSUME NEW w \in Wires
      PROVE  /\ w \in Rewired => wname'[Copy[w]] = w
             /\ pin'[Copy[w]] = (w \in Rewired /\ w \in wa.pin)
             /\ pout'[Copy[w]] = (w \in Rewired /\ w \in wa.pout)
  <2>1. w \in AllWires /\ Copy[w] \in AllWires
    BY CopyFacts DEF AllWires
  <2>2. pin[Copy[w]] = (w \in Rewired /\ w \in wa.pin)
        /\ pout[Copy[w]] = (w \in Rewired /\ w \in wa.pout)
    BY <1>2, FlagBefore
  <2>3. w \in Rewired => wname'[Copy[w]] = w
    <3> SUFFICES ASSUME w \in Rewired PROVE wname'[Copy[w]] = w
      OBVIOUS
    <3>1. wname'[Copy[w]] = wname[orig(Copy[w])[1]]
      BY <1>1, <1>4, <2>1
    <3>2. orig(Copy[w])[1] = w
      BY <1>5
    <3>. QED  BY <1>2, <2>1, <3>1, <3>2
  <2>. QED  BY <1>1, <1>4, <2>1, <2>2, <2>3
<1>9. ASSUME NEW i \in IWires PROVE ~pin'[i] /\ ~pout'[i]
  <2>1. i \in AllWires
    BY DEF AllWires
  <2>2. ~pin[i] /\ ~pout[i]
    BY <1>2, FlagBefore
  <2>. QED  BY <1>1, <2>1, <2>2
<1>. QED  BY <1>7, <1>8, <1>9

\* The swap leaves the module with the ports it had.
LEMMA SwapStep ==
    ASSUME PortInv, pc # "end", Swap
    PROVE  PortInv'
<1>1. /\ pc' = "end" /\ UNCHANGED <<wa, cur, queue>>
      /\ wa \in WireAttrs /\ wa.pin \subseteq Wires /\ wa.pout \subseteq Wires
  BY ModuleAssumption DEF Swap, PortInv
<1>2. PortSet' \subseteq PortSet0
  <2> SUFFICES ASSUME NEW x \in AllWires, pin'[x] \/ pout'[x]
               PROVE  <<wname'[x], Width[x], pin'[x], pout'[x]>> \in PortSet0
    BY DEF PortSet
  <2>1. CASE x \in Wires
    <3>0. /\ wname'[x] = IF x \in Rewired THEN Copy[x] ELSE x
          /\ pin'[x] = (x \notin Rewired /\ x \in wa.pin)
          /\ pout'[x] = (x \notin Rewired /\ x \in wa.pout)
      BY <2>1, SwapValues
    <3>a. x \notin Rewired
      <4> SUFFICES ASSUME x \in Rewired PROVE FALSE
        OBVIOUS
      <4>1. pin'[x] = FALSE /\ pout'[x] = FALSE
        BY <3>0
      <4>. QED  BY <4>1
    <3>1. x \notin Rewired /\ wname'[x] = x
          /\ pin'[x] = (x \in wa.pin) /\ pout'[x] = (x \in wa.pout)
      BY <3>0, <3>a
    <3>2. x \in wa.pin \cup wa.pout
      BY <3>1
    <3>. QED  BY <1>1, <3>1, <3>2 DEF PortSet0
  <2>2. CASE x \in IWires
    BY <2>2, SwapValues
  <2>3. CASE \E w \in Wires : x = Copy[w]
    <3>1. PICK w \in Wires : x = Copy[w]
      BY <2>3
    <3>0. /\ w \in Rewired => wname'[Copy[w]] = w
          /\ pin'[Copy[w]] = (w \in Rewired /\ w \in wa.pin)
          /\ pout'[Copy[w]] = (w \in Rewired /\ w \in wa.pout)
      BY SwapValues
    <3>a. w \in Rewired
      <4> SUFFICES ASSUME w \notin Rewired PROVE FALSE
        OBVIOUS
      <4>1. pin'[x] = FALSE /\ pout'[x] = FALSE
        BY <3>0, <3>1
      <4>. QED  BY <4>1
    <3>2. w \in Rewired /\ wname'[x] = w
          /\ pin'[x] = (w \in wa.pin) /\ pout'[x] = (w \in wa.pout)
      BY <3>0, <3>1, <3>a
    <3>3. Width[x] = Width[w] /\ w \in wa.pin \cup wa.pout
      BY <3>1, <3>2, CopyFacts
    <3>. QED  BY <1>1, <3>2, <3>3 DEF PortSet0
  <2>. QED  BY <2>1, <2>2, <2>3, WireCases
<1>3. PortSet0 \subseteq PortSet'
  <2> SUFFICES ASSUME NEW w \in wa.pin \cup wa.pout
               PROVE  <<w, Width[w], w \in wa.pin, w \in wa.pout>> \in PortSet'
    BY <1>1 DEF PortSet0
  <2>1. w \in Wires
    BY <1>1
  <2>2. CASE w \notin Rewired
    <3>1. wname'[w] = w /\ pin'[w] = (w \in wa.pin) /\ pout'[w] = (w \in wa.pout)
      BY <2>1, <2>2, SwapValues
    <3>2. w \in AllWires
      BY <2>1 DEF AllWires
    <3>. QED  BY <3>1, <3>2 DEF PortSet
  <2>3. CASE w \in Rewired
    <3>1. wname'[Copy[w]] = w /\ pin'[Copy[w]] = (w \in wa.pin)
          /\ pout'[Copy[w]] = (w \in wa.pout)
      BY <2>1, <2>3, SwapValues
    <3>2. Copy[w] \in AllWires /\ Width[Copy[w]] = Width[w]
      BY <2>1, CopyFacts
    <3>3. <<wname'[Copy[w]], Width[Copy[w]], pin'[Copy[w]], pout'[Copy[w]]>> \in PortSet'
      BY <3>1, <3>2 DEF PortSet
    <3>. QED  BY <3>1, <3>2, <3>3
  <2>. QED  BY <2>2, <2>3
<1>4. PortSet0' = PortSet0
  BY <1>1 DEF PortSet0
<1>. QED  BY <1>1, <1>2, <1>3, <1>4 DEF PortInv

\* Once the pass is over no step of it is enabled: only stuttering remains.
LEMMA EndStutter ==
    ASSUME pc = "end", ModNext
    PROVE  FALSE
BY DEF ModNext, InvNext, CollectTags, ScanSlot, EndPass, Prepare, SkipWire, BeginWire,
       BitBuffered, BitNoSink, BitInsert, BitDefer, InBitLoop, EndWire, MarkOutputs,
       Reconnect, Swap

LEMMA PortInvInductive == PortInv /\ [ModNext]_vars => PortInv'
<1> SUFFICES ASSUME PortInv, [ModNext]_vars PROVE PortInv'
  OBVIOUS
<1>1. CASE pc = "end"
  <2>1. UNCHANGED vars
    BY <1>1, EndStutter
  <2>2. UNCHANGED <<wa, cur, queue, pc, wname, pin, pout>>
    BY <2>1 DEF vars, modVars, invVars
  <2>. QED  BY <2>2 DEF PortInv, PortSet, PortSet0, FlagBeforeSwap
<1>2. CASE pc # "end"
  <2>1. CASE InvNext /\ UNCHANGED modVars
    <3>1. pc' \in {"collect", "prop", "done"}
      BY <2>1, InvStepPc
    <3>. QED  BY <1>2, <2>1, <3>1, QuietStep DEF modVars, PortInv
  <2>2. CASE Prepare \/ MarkOutputs \/ (\E c \in Cells, p \in PortNames : Reconnect(c, p))
    <3>1. pc' \in {"wires", "reconnect"} /\ UNCHANGED <<wa, queue, wname, pin, pout, cur>>
      BY <2>2 DEF Prepare, MarkOutputs, Reconnect
    <3>. QED  BY <1>2, <3>1, QuietStep DEF PortInv
  <2>3. CASE \E w \in Wires : SkipWire(w) \/ BeginWire(w)
    <3>1. pc' = "wires" /\ cur' \in Wires \cup {NoWire}
          /\ UNCHANGED <<wa, queue, wname, pin, pout>>
      BY <2>3 DEF SkipWire, BeginWire, PortInv, invVars
    <3>. QED  BY <1>2, <3>1, QuietStep
  <2>4. CASE BitBuffered \/ BitNoSink \/ BitInsert \/ BitDefer
    <3>1. pc' = "wires" /\ UNCHANGED <<wa, queue, wname, pin, pout, cur>>
      BY <2>4 DEF BitBuffered, BitNoSink, BitInsert, BitDefer, InBitLoop, BitVars, invVars
    <3>. QED  BY <1>2, <3>1, QuietStep DEF PortInv
  <2>5. CASE EndWire
    BY <2>5, EndWireStep
  <2>6. CASE Swap
    BY <1>2, <2>6, SwapStep
  <2>7. CASE UNCHANGED vars
    <3>1. UNCHANGED <<wa, cur, queue, pc, wname, pin, pout>>
      BY <2>7 DEF vars, modVars, invVars
    <3>. QED  BY <3>1 DEF PortInv, PortSet, PortSet0, FlagBeforeSwap
  <2>. QED  BY <2>1, <2>2, <2>3, <2>4, <2>5, <2>6, <2>7 DEF ModNext
<1>. QED  BY <1>1, <1>2

(***************************************************************************)
(* Spec 8, port-identity preservation: for every module, wire attributes  *)
(* and netlist, when the pass is over (lines 334-354 rewired the input    *)
(* ports, lines 402-414 swapped the names) the module has exactly the     *)
(* ports it had, with the same names, widths and directions.               *)
(***************************************************************************)
THEOREM PortsPreservedHolds == ModSpec => []PortsPreserved
<1>1. PortInv => PortsPreserved
  BY DEF PortInv, PortsPreserved
<1>. QED  BY <1>1, InitPortInv, PortInvInductive, PTL DEF ModSpec

=============================================================================
