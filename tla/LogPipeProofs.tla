---------------------------- MODULE LogPipeProofs ----------------------------
(***************************************************************************)
(* Proofs about the log cache of LogPipe, for every bound and every        *)
(* outcome of connect and write.                                           *)
(***************************************************************************)
EXTENDS LogPipe, SequenceTheorems, TLAPS

(***************************************************************************)
(* HeadersInOrder is not inductive by itself: a send appends the whole     *)
(* cache to what the reader has, so the cache must itself be increasing   *)
(* and lie above everything received, and a new header must lie above     *)
(* both (it is numbered by created).                                       *)
(***************************************************************************)
LInv ==
    /\ LogTypeOK
    /\ Range(received) \subseteq 0 .. created - 1
    /\ Increasing(cache)
    /\ Increasing(received)
    /\ \A i \in 1 .. Len(received), j \in 1 .. Len(cache) : received[i] < cache[j]

\* The reader's stream extended by an increasing sequence above it stays
\* increasing.
LEMMA ConcatIncreasing ==
    ASSUME NEW r \in Seq(Int), NEW c \in Seq(Int), Increasing(r), Increasing(c),
           \A i \in 1 .. Len(r), j \in 1 .. Len(c) : r[i] < c[j]
    PROVE  Increasing(r \o c)
<1>1. /\ Len(r \o c) = Len(r) + Len(c)
      /\ \A i \in 1 .. Len(r) + Len(c) : (r \o c)[i] = IF i <= Len(r) THEN r[i] ELSE c[i - Len(r)]
  BY ConcatProperties
<1> SUFFICES ASSUME NEW i \in 1 .. Len(r) + Len(c), NEW j \in 1 .. Len(r) + Len(c), i < j
             PROVE  (r \o c)[i] < (r \o c)[j]
  BY <1>1 DEF Increasing
<1>2. CASE j <= Len(r)
  BY <1>1, <1>2 DEF Increasing
<1>3. CASE i <= Len(r) /\ j > Len(r)
  BY <1>1, <1>3
<1>4. CASE i > Len(r)
  <2>1. i - Len(r) \in 1 .. Len(c) /\ j - Len(r) \in 1 .. Len(c) /\ i - Len(r) < j - Len(r)
    BY <1>4
  <2>2. c[i - Len(r)] < c[j - Len(r)]
    BY <2>1 DEF Increasing
  <2>3. (r \o c)[i] = c[i - Len(r)] /\ (r \o c)[j] = c[j - Len(r)]
    BY <1>1, <1>4
  <2>. QED  BY <2>2, <2>3
<1>. QED  BY <1>2, <1>3, <1>4

\* A header numbered above an increasing sequence keeps it increasing.
LEMMA AppendIncreasing ==
    ASSUME NEW c \in Seq(Int), NEW e \in Int, Increasing(c), \A j \in 1 .. Len(c) : c[j] < e
    PROVE  Increasing(Append(c, e))
<1>1. /\ Len(Append(c, e)) = Len(c) + 1
      /\ \A i \in 1 .. Len(c) : Append(c, e)[i] = c[i]
      /\ Append(c, e)[Len(c) + 1] = e
  BY AppendProperties
<1> SUFFICES ASSUME NEW i \in 1 .. Len(c) + 1, NEW j \in 1 .. Len(c) + 1, i < j
             PROVE  Append(c, e)[i] < Append(c, e)[j]
  BY <1>1 DEF Increasing
<1>2. CASE j <= Len(c)
  BY <1>1, <1>2 DEF Increasing
<1>3. CASE j = Len(c) + 1
  BY <1>1, <1>3
<1>. QED  BY <1>2, <1>3

\* The range of a function within a set, element by element.
LEMMA RangeWithin ==
    ASSUME NEW s, NEW D, NEW X, DOMAIN s = D
    PROVE  Range(s) \subseteq X <=> \A i \in D : s[i] \in X
BY Zenon DEF Range

LEMMA InitLInv == LogInit => LInv
<1> SUFFICES ASSUME LogInit PROVE LInv
  OBVIOUS
<1>1. cache = <<>> /\ received = <<>> /\ created = 0
  BY DEF LogInit
<1>2. Range(<<>>) = {}
  BY DEF Range
<1>3. msgs \in [PipeTypes -> Nat] /\ indices \in [Categories -> IntMin .. IntMax]
  BY IntAssumption DEF LogInit, IntMin
<1>4. Increasing(<<>>)
  BY DEF Increasing
<1>. QED  BY <1>1, <1>2, <1>3, <1>4, LogPipeAssumption DEF LInv, LogTypeOK

LEMMA HeaderStep == LInv /\ CreateLogHeader => LInv'
<1> SUFFICES ASSUME LInv, CreateLogHeader PROVE LInv'
  OBVIOUS
<1>1. cache \in Seq(0 .. MaxHeaders) /\ received \in Seq(0 .. MaxHeaders)
      /\ created \in 0 .. MaxHeaders /\ created < MaxHeaders /\ MaxHeaders \in Nat
  BY LogPipeAssumption DEF LInv, LogTypeOK, CreateLogHeader
<1>0. DOMAIN cache = 1 .. Len(cache) /\ DOMAIN received = 1 .. Len(received)
  BY <1>1
<1>2. \A j \in 1 .. Len(cache) : cache[j] \in 0 .. created - 1
  BY <1>0, RangeWithin DEF LInv, LogTypeOK
<1>3. \A i \in 1 .. Len(received) : received[i] \in 0 .. created - 1
  BY <1>0, RangeWithin DEF LInv
<1>4. cache' = Append(cache, created) /\ created' = created + 1
      /\ received' = received /\ UNCHANGED <<msgs, indices>>
  BY DEF CreateLogHeader
<1>5. Increasing(cache')
  BY <1>1, <1>2, <1>4, AppendIncreasing DEF LInv
<1>6. /\ Len(cache') = Len(cache) + 1
      /\ \A j \in 1 .. Len(cache) : cache'[j] = cache[j]
      /\ cache'[Len(cache) + 1] = created
      /\ cache' \in Seq(0 .. MaxHeaders)
  BY <1>1, <1>4, AppendProperties
<1>7. Range(cache') \subseteq 0 .. created' - 1
  <2>1. \A j \in 1 .. Len(cache') : cache'[j] \in 0 .. created' - 1
    BY <1>1, <1>2, <1>4, <1>6
  <2>2. DOMAIN cache' = 1 .. Len(cache')
    BY <1>6
  <2>. QED  BY <2>1, <2>2 DEF Range
<1>8. Range(received') \subseteq 0 .. created' - 1
  <2>1. \A i \in 1 .. Len(received) : received[i] \in 0 .. created' - 1
    BY <1>1, <1>3, <1>4
  <2>. QED  BY <1>0, <1>4, <2>1 DEF Range
<1>9. \A i \in 1 .. Len(received'), j \in 1 .. Len(cache') : received'[i] < cache'[j]
  BY <1>3, <1>4, <1>6 DEF LInv
<1>10. created' \in 0 .. MaxHeaders
  BY <1>1, <1>4
<1>. QED  BY <1>4, <1>5, <1>6, <1>7, <1>8, <1>9, <1>10 DEF LInv, LogTypeOK

LEMMA DeliverStep ==
    ASSUME LInv, NEW t \in PipeTypes, cache' = <<>>, Deliver(t),
           UNCHANGED <<created, indices>>
    PROVE  LInv'
<1>1. cache \in Seq(0 .. MaxHeaders) /\ received \in Seq(0 .. MaxHeaders)
      /\ created \in 0 .. MaxHeaders /\ msgs \in [PipeTypes -> Nat]
  BY DEF LInv, LogTypeOK
<1>2. received' = received \o Payload(t) /\ msgs' \in [PipeTypes -> Nat]
  BY <1>1 DEF Deliver
<1>3. CASE t = "LOG"
  <2>1. received' = received \o cache
    BY <1>2, <1>3 DEF Payload
  <2>2. Increasing(received')
    <3>1. cache \in Seq(Int) /\ received \in Seq(Int)
      <4>1. 0 .. MaxHeaders \subseteq Int
        OBVIOUS
      <4>2. cache \in Seq(Int)
        BY <1>1, <4>1, SeqMonotonic
      <4>3. received \in Seq(Int)
        BY <1>1, <4>1, SeqMonotonic
      <4>. QED  BY <4>2, <4>3
    <3>2. Increasing(received \o cache)
      BY <3>1, ConcatIncreasing DEF LInv
    <3>. QED  BY <2>1, <3>2
  <2>3. received' \in Seq(0 .. MaxHeaders)
    BY <1>1, <2>1, ConcatProperties
  <2>4. Range(received') \subseteq 0 .. created - 1
    <3>1. Len(received') = Len(received) + Len(cache)
          /\ \A i \in 1 .. Len(received) + Len(cache) :
               received'[i] = IF i <= Len(received) THEN received[i] ELSE cache[i - Len(received)]
      BY <1>1, <2>1, ConcatProperties
    <3>2. DOMAIN cache = 1 .. Len(cache) /\ DOMAIN received = 1 .. Len(received)
          /\ DOMAIN received' = 1 .. Len(received')
      BY <1>1, <2>3
    <3>3. \A j \in 1 .. Len(cache) : cache[j] \in 0 .. created - 1
      BY <3>2, RangeWithin DEF LInv, LogTypeOK
    <3>4. \A i \in 1 .. Len(received) : received[i] \in 0 .. created - 1
      BY <3>2, RangeWithin DEF LInv
    <3>5. \A i \in 1 .. Len(received') : received'[i] \in 0 .. created - 1
      <4> SUFFICES ASSUME NEW i \in 1 .. Len(received') PROVE received'[i] \in 0 .. created - 1
        OBVIOUS
      <4>1. CASE i <= Len(received)
        BY <3>1, <3>4, <4>1
      <4>2. CASE i > Len(received)
        <5>1. i - Len(received) \in 1 .. Len(cache)
          BY <1>1, <3>1, <4>2
        <5>. QED  BY <3>1, <3>3, <4>2, <5>1
      <4>. QED  BY <4>1, <4>2
    <3>. QED  BY <3>2, <3>5 DEF Range
  <2>. QED  BY <1>2, <2>2, <2>3, <2>4 DEF LInv, LogTypeOK, Increasing, Range
<1>4. CASE t # "LOG"
  <2>1. received' = received
    BY <1>1, <1>2, <1>4, ConcatEmptySeq DEF Payload
  <2>. QED  BY <1>2, <2>1 DEF LInv, LogTypeOK, Increasing, Range
<1>. QED  BY <1>3, <1>4

LEMMA SendStep ==
    ASSUME LInv, NEW t \in PipeTypes, ConnectAndSendJson(t) PROVE LInv'
<1>1. CASE ~FatherSet \/ ~Windows
  BY <1>1 DEF ConnectAndSendJson, LInv, LogTypeOK, Increasing, Range
<1>2. CASE FatherSet /\ Windows
  <2>1. PICK connected \in BOOLEAN, written \in BOOLEAN :
          /\ IF ~connected THEN UNCHANGED <<cache, received, msgs>>
             ELSE /\ cache' = <<>>
                  /\ IF written THEN Deliver(t) ELSE UNCHANGED <<received, msgs>>
    BY <1>2 DEF ConnectAndSendJson
  <2>2. UNCHANGED <<created, indices>>
    BY DEF ConnectAndSendJson
  <2>3. CASE ~connected
    BY <2>1, <2>2, <2>3 DEF LInv, LogTypeOK, Increasing, Range
  <2>4. CASE connected /\ written
    BY <2>1, <2>2, <2>4, DeliverStep
  <2>5. CASE connected /\ ~written
    BY <2>1, <2>2, <2>5 DEF LInv, LogTypeOK, Increasing, Range
  <2>. QED  BY <2>3, <2>4, <2>5
<1>. QED  BY <1>1, <1>2, LogPipeAssumption

LEMMA StructStep ==
    ASSUME LInv, NEW c \in Categories, CreateLogStruct(c) PROVE LInv'
<1>1. indices \in [Categories -> IntMin .. IntMax] /\ IntMax \in Nat
  BY IntAssumption DEF LInv, LogTypeOK
<1>2. Incr(indices[c]) \in IntMin .. IntMax
  BY <1>1 DEF Incr, IntMin
<1>. QED  BY <1>2 DEF CreateLogStruct, LInv, LogTypeOK, Increasing, Range

LEMMA LInvInductive == LInv /\ [LogNext]_logVars => LInv'
<1> SUFFICES ASSUME LInv, [LogNext]_logVars PROVE LInv'
  OBVIOUS
<1>1. CASE CreateLogHeader
  BY <1>1, HeaderStep
<1>2. ASSUME NEW t \in PipeTypes, ConnectAndSendJson(t) PROVE LInv'
  BY <1>2, SendStep
<1>3. ASSUME NEW c \in Categories, CreateLogStruct(c) PROVE LInv'
  BY <1>3, StructStep
<1>4. CASE UNCHANGED logVars
  BY <1>4 DEF logVars, LInv, LogTypeOK, Increasing, Range
<1>. QED  BY <1>1, <1>2, <1>3, <1>4 DEF LogNext

(***************************************************************************)
(* Type correctness of the log pipe client.                                *)
(***************************************************************************)
THEOREM LogTypeCorrect == LogSpec => []LogTypeOK
<1>1. LInv => LogTypeOK
  BY DEF LInv
<1>. QED  BY <1>1, InitLInv, LInvInductive, PTL DEF LogSpec

(***************************************************************************)
(* Whatever the outcomes of connect and write, the log reader receives     *)
(* the headers of CreateLogHeader in creation order and never twice        *)
(* (ConnectAndSendJson clears the cache it sends, common.cc line 156).     *)
(***************************************************************************)
THEOREM HeadersInOrderHolds == LogSpec => []HeadersInOrder
<1>1. LInv => HeadersInOrder
  BY DEF LInv, HeadersInOrder
<1>. QED  BY <1>1, InitLInv, LInvInductive, PTL DEF LogSpec

-----------------------------------------------------------------------------
(* Refinement of the log channel *)

\* A sequence is the prefix of its extensions.
LEMMA ConcatPrefix ==
    ASSUME NEW S, NEW r \in Seq(S), NEW x \in Seq(S)
    PROVE  /\ Len(r) <= Len(r \o x)
           /\ SubSeq(r \o x, 1, Len(r)) = r
<1>1. /\ r \o x \in Seq(S)
      /\ Len(r \o x) = Len(r) + Len(x)
      /\ \A i \in 1 .. Len(r) + Len(x) : (r \o x)[i] = IF i <= Len(r) THEN r[i] ELSE x[i - Len(r)]
  BY ConcatProperties
<1>2. \A i \in 1 .. Len(r) : (r \o x)[i] \in S
  BY <1>1
<1>3. /\ SubSeq(r \o x, 1, Len(r)) \in Seq(S)
      /\ Len(SubSeq(r \o x, 1, Len(r))) = Len(r)
      /\ \A i \in 1 .. Len(r) : SubSeq(r \o x, 1, Len(r))[i] = (r \o x)[i]
  BY <1>2, SubSeqProperties
<1>4. SubSeq(r \o x, 1, Len(r)) = r
  BY <1>1, <1>3, SeqEqual
<1>. QED  BY <1>1, <1>4

\* Every send extends the reader's stream (possibly by nothing).
LEMMA SendExtends ==
    ASSUME LInv, NEW t \in PipeTypes, ConnectAndSendJson(t)
    PROVE  \E x \in Seq(Int) : received' = received \o x
<1>1. received \in Seq(Int) /\ cache \in Seq(Int)
  <2>1. 0 .. MaxHeaders \subseteq Int
    OBVIOUS
  <2>. QED  BY <2>1, SeqMonotonic DEF LInv, LogTypeOK
<1>2. received = received \o << >>
  BY <1>1, ConcatEmptySeq
<1>3. Payload(t) \in Seq(Int)
  BY <1>1 DEF Payload
<1>4. received' = received \/ received' = received \o Payload(t)
  BY DEF ConnectAndSendJson, Deliver
<1>5. CASE received' = received
  <2>1. << >> \in Seq(Int)
    BY EmptySeq
  <2>. QED  BY <1>2, <1>5, <2>1
<1>6. CASE received' = received \o Payload(t)
  BY <1>3, <1>6
<1>. QED  BY <1>4, <1>5, <1>6

\* A send is a Receive of the log channel.
LEMMA SendRefines ==
    ASSUME LInv, LInv', NEW t \in PipeTypes, ConnectAndSendJson(t)
    PROVE  Chan!Receive
<1>1. PICK x \in Seq(Int) : received' = received \o x
  BY SendExtends
<1>2. received \in Seq(Int)
  <2>1. 0 .. MaxHeaders \subseteq Int
    OBVIOUS
  <2>. QED  BY <2>1, SeqMonotonic DEF LInv, LogTypeOK
<1>3. Len(received) <= Len(received') /\ SubSeq(received', 1, Len(received)) = received
  BY <1>1, <1>2, ConcatPrefix
<1>4. created' = created
  BY DEF ConnectAndSendJson
<1>5. Chan!Ascending(received')
  BY DEF Chan!Ascending, LInv, Increasing
<1>6. Chan!Range(received') \subseteq 0 .. created - 1
  <2>1. Range(received') \subseteq 0 .. created' - 1
    BY DEF LInv
  <2>. QED  BY <1>4, <2>1 DEF Chan!Range, Range
<1>. QED  BY <1>3, <1>4, <1>5, <1>6 DEF Chan!Receive

(***************************************************************************)
(* The log pipe client implements the log channel (ChanRefined): the      *)
(* reader's stream only grows at its end, in creation order, by headers   *)
(* that exist, under every outcome of connect and write.                  *)
(***************************************************************************)
THEOREM ChanRefinement == LogSpec => ChanRefined
<1>1. LogInit => Chan!ChanInit
  BY DEF LogInit, Chan!ChanInit
<1>2. LInv /\ LInv' /\ [LogNext]_logVars => [Chan!ChanNext]_<<created, received>>
  <2> SUFFICES ASSUME LInv, LInv', [LogNext]_logVars
               PROVE  [Chan!ChanNext]_<<created, received>>
    OBVIOUS
  <2>1. CASE CreateLogHeader
    BY <2>1 DEF CreateLogHeader, Chan!ChanNext, Chan!Create
  <2>2. ASSUME NEW t \in PipeTypes, ConnectAndSendJson(t)
        PROVE  [Chan!ChanNext]_<<created, received>>
    BY <2>2, SendRefines DEF Chan!ChanNext
  <2>3. ASSUME NEW c \in Categories, CreateLogStruct(c)
        PROVE  [Chan!ChanNext]_<<created, received>>
    BY <2>3 DEF CreateLogStruct
  <2>4. CASE UNCHANGED logVars
    BY <2>4 DEF logVars
  <2>. QED  BY <2>1, <2>2, <2>3, <2>4 DEF LogNext
<1>. QED  BY <1>1, <1>2, InitLInv, LInvInductive, PTL
          DEF LogSpec, ChanRefined, Chan!ChanSpec, Chan!chanVars

=============================================================================
