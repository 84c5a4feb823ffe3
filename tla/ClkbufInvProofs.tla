--------------------------- MODULE ClkbufInvProofs ---------------------------
(***************************************************************************)
(* Proofs about the inverter-propagation loop of ClkbufInv, for every      *)
(* netlist and every tag table the assumptions allow.                      *)
(***************************************************************************)
EXTENDS ClkbufInv, TLAPS

\* The type invariant together with the fact that the netlist is one the
\* assumptions allow (it never changes).
TypeInv == InvTypeOK /\ conn \in Conns

\* A slot names a connected bit of one of the cells.
LEMMA SlotShape ==
    ASSUME NEW cn \in [Cells -> [PortNames -> Seq(Bits)]], NEW s \in SlotsOf(cn)
    PROVE  /\ s[1] \in Cells /\ s[2] \in PortNames
           /\ s[3] \in 1 .. Len(cn[s[1]][s[2]])
           /\ cn[s[1]][s[2]][s[3]] \in Bits
BY DEF SlotsOf

\* The canonical bit of every slot is a bit.
LEMMA BitType ==
    ASSUME TypeInv, NEW s \in Slots
    PROVE  Bit(s) \in Bits
<1>1. conn \in [Cells -> [PortNames -> Seq(Bits)]] /\ sigmap \in [Bits -> Bits]
  BY NetlistAssumption DEF TypeInv, InvTypeOK, IsSigMap
<1>2. conn[s[1]][s[2]][s[3]] \in Bits
  BY <1>1, SlotShape DEF Slots
<1>. QED  BY <1>1, <1>2 DEF Bit

\* The paired bit of an inverter slot is a bit.
LEMMA PairType ==
    ASSUME TypeInv, NEW s \in Slots
    PROVE  /\ TagKey(s) \in DOMAIN InvOut => PairBit(s, InvOut[TagKey(s)]) \in Bits
           /\ TagKey(s) \in DOMAIN InvIn => PairBit(s, InvIn[TagKey(s)]) \in Bits
<1>1. conn \in [Cells -> [PortNames -> Seq(Bits)]] /\ sigmap \in [Bits -> Bits]
      /\ conn \in Conns
  BY NetlistAssumption DEF TypeInv, InvTypeOK, IsSigMap
<1>2. s[1] \in Cells
  BY <1>1, SlotShape DEF Slots
<1>3. ASSUME TagKey(s) \in DOMAIN InvOut
      PROVE  PairBit(s, InvOut[TagKey(s)]) \in Bits
  <2>1. InvOut[TagKey(s)] \in PortNames \X Nat
    BY <1>3, TablesAssumption
  <2>2. InvOut[TagKey(s)][2] + 1 \in 1 .. Len(conn[s[1]][InvOut[TagKey(s)][1]])
    BY <1>1, <1>3, PairAssumption DEF Slots
  <2>. QED  BY <1>1, <1>2, <2>1, <2>2 DEF PairBit
<1>4. ASSUME TagKey(s) \in DOMAIN InvIn
      PROVE  PairBit(s, InvIn[TagKey(s)]) \in Bits
  <2>1. InvIn[TagKey(s)] \in PortNames \X Nat
    BY <1>4, TablesAssumption
  <2>2. InvIn[TagKey(s)][2] + 1 \in 1 .. Len(conn[s[1]][InvIn[TagKey(s)][1]])
    BY <1>1, <1>4, PairAssumption DEF Slots
  <2>. QED  BY <1>1, <1>2, <2>1, <2>2 DEF PairBit
<1>. QED  BY <1>3, <1>4

\* One scan step yields sets of bits.
LEMMA ScanType ==
    ASSUME TypeInv, NEW s \in Slots
    PROVE  /\ ScanResult(s, sink, buf).sink \subseteq Bits
           /\ ScanResult(s, sink, buf).buf \subseteq Bits
           /\ ScanResult(s, sink, buf).changed \in BOOLEAN
BY BitType, PairType DEF ScanResult, TypeInv, InvTypeOK, InvOutFires, InvInFires

\* One step of the loop keeps the types.
LEMMA TypeStep == TypeInv /\ [InvNext]_invVars => TypeInv'
<1> SUFFICES ASSUME TypeInv, [InvNext]_invVars PROVE TypeInv'
  OBVIOUS
<1>1. CASE CollectTags
  <2>1. TaggedBits(SinkPorts) \subseteq Bits /\ TaggedBits(BufPorts) \subseteq Bits
    BY BitType DEF TaggedBits
  <2>. QED  BY <1>1, <2>1 DEF CollectTags, TypeInv, InvTypeOK, Slots
<1>2. ASSUME NEW s \in Slots, ScanSlot(s) PROVE TypeInv'
  BY <1>2, ScanType DEF ScanSlot, TypeInv, InvTypeOK, Slots
<1>3. CASE EndPass
  BY <1>3 DEF EndPass, TypeInv, InvTypeOK, Slots
<1>4. CASE UNCHANGED invVars
  BY <1>4 DEF invVars, TypeInv, InvTypeOK, Slots
<1>. QED  BY <1>1, <1>2, <1>3, <1>4 DEF InvNext

(***************************************************************************)
(* Type correctness: the loop's sets stay sets of bits and todo stays a    *)
(* set of slots of the (unchanged) netlist.                                *)
(***************************************************************************)
THEOREM InvTypeCorrect == InvSpec => []InvTypeOK
<1>1. InvInit => TypeInv
  BY NetlistAssumption DEF InvInit, TypeInv, InvTypeOK
<1>2. TypeInv => InvTypeOK
  BY DEF TypeInv
<1>. QED  BY <1>1, <1>2, TypeStep, PTL DEF InvSpec

-----------------------------------------------------------------------------
(***************************************************************************)
(* FixedPoint is not inductive: it speaks only of the final state.  The    *)
(* loop's argument is that during a pass in which nothing has changed yet  *)
(* (retry is still FALSE) every slot already visited is quiescent, because *)
(* the sets have not moved since it was visited.  At the end of such a     *)
(* pass every slot has been visited.                                       *)
(***************************************************************************)
IInv ==
    /\ TypeInv
    /\ (pc = "prop" /\ ~retry) => \A s \in Slots \ todo : Quiescent(s)
    /\ pc = "done" => \A s \in Slots : Quiescent(s)

\* A scan that reports no change leaves the sets alone, and the slot
\* scanned is quiescent.
LEMMA ScanUnchanged ==
    ASSUME TypeInv, NEW s \in Slots, ~ScanResult(s, sink, buf).changed
    PROVE  /\ ScanResult(s, sink, buf).sink = sink
           /\ ScanResult(s, sink, buf).buf = buf
           /\ Quiescent(s)
BY DEF ScanResult, Quiescent

LEMMA IInvInductive == IInv /\ [InvNext]_invVars => IInv'
<1> SUFFICES ASSUME IInv, [InvNext]_invVars PROVE IInv'
  OBVIOUS
<1>0. TypeInv /\ TypeInv'
  BY TypeStep DEF IInv
<1>1. CASE CollectTags
  BY <1>0, <1>1 DEF CollectTags, IInv, Slots
<1>2. ASSUME NEW s \in Slots, ScanSlot(s) PROVE IInv'
  <2>1. pc' = "prop" /\ Slots' = Slots
    BY <1>2 DEF ScanSlot, Slots
  <2>2. SUFFICES ASSUME ~retry' PROVE \A t \in Slots \ todo' : Quiescent(t)'
    BY <1>0, <2>1 DEF IInv
  <2>3. ~retry /\ ~ScanResult(s, sink, buf).changed
    BY <1>2, <2>2 DEF ScanSlot
  <2>4. /\ ScanResult(s, sink, buf).sink = sink
        /\ ScanResult(s, sink, buf).buf = buf
        /\ Quiescent(s)
    BY <1>0, <2>3, ScanUnchanged
  <2>5. sink' = sink /\ buf' = buf /\ conn' = conn /\ sigmap' = sigmap
        /\ todo' = todo \ {s} /\ pc = "prop"
    BY <1>2, <2>4 DEF ScanSlot
  <2>6. \A t \in Slots \ todo : Quiescent(t)
    BY <2>3, <2>5 DEF IInv
  <2>7. \A t \in Slots : Quiescent(t)' = Quiescent(t)
    BY <2>5 DEF Quiescent, InvOutFires, InvInFires, Bit, PairBit, TagKey
  <2>. QED  BY <2>1, <2>4, <2>5, <2>6, <2>7
<1>3. CASE EndPass
  <2>1. CASE retry
    BY <1>0, <1>3, <2>1 DEF EndPass, IInv, Slots
  <2>2. CASE ~retry
    <3>1. pc' = "done" /\ todo = {} /\ pc = "prop"
      BY <1>3, <2>2 DEF EndPass
    <3>2. \A t \in Slots : Quiescent(t)
      BY <2>2, <3>1 DEF IInv
    <3>3. \A t \in Slots : Quiescent(t)' = Quiescent(t)
      BY <1>3 DEF EndPass, Quiescent, InvOutFires, InvInFires, Bit, PairBit, TagKey
    <3>4. Slots' = Slots
      BY <1>3 DEF EndPass, Slots
    <3>5. \A t \in Slots' : Quiescent(t)'
      BY <3>2, <3>3, <3>4
    <3>. QED  BY <1>0, <3>1, <3>5 DEF IInv
  <2>. QED  BY <2>1, <2>2
<1>4. CASE UNCHANGED invVars
  BY <1>0, <1>4 DEF invVars, IInv, Slots, Quiescent, InvOutFires, InvInFires, Bit, PairBit, TagKey
<1>. QED  BY <1>1, <1>2, <1>3, <1>4 DEF InvNext

(***************************************************************************)
(* When the retry loop exits, both propagation rules are quiescent at      *)
(* every cell port bit (clkbufmap.cc lines 182-210), for every netlist.    *)
(***************************************************************************)
THEOREM FixedPointHolds == InvSpec => []FixedPoint
<1>1. InvInit => IInv
  BY NetlistAssumption DEF InvInit, IInv, TypeInv, InvTypeOK
<1>2. IInv => FixedPoint
  BY DEF IInv, FixedPoint
<1>. QED  BY <1>1, <1>2, IInvInductive, PTL DEF InvSpec

=============================================================================
