------------------------------ MODULE LogChannel ------------------------------
(***************************************************************************)
(* What the log pipe promises the reading process: log headers are         *)
(* numbered as they are created, and the stream of headers the reader has *)
(* received only grows at its end, in creation order, with headers that   *)
(* exist.  Headers may be skipped (the client does not promise delivery). *)
(***************************************************************************)
EXTENDS Integers, Sequences, Functions

CONSTANT MaxHeaders   \* bound on the headers created

VARIABLES
    headers,   \* headers created so far
    stream     \* the headers the reader has received, in order

chanVars == <<headers, stream>>

\* A sequence of numbers in strictly increasing order.
Ascending(seq) == \A i, j \in 1 .. Len(seq) : i < j => seq[i] < seq[j]

ChanInit == headers = 0 /\ stream = <<>>

\* A header is created.
Create ==
    /\ headers < MaxHeaders
    /\ headers' = headers + 1
    /\ UNCHANGED stream

\* The reader receives some created headers after those it has, above them.
Receive ==
    /\ Len(stream) <= Len(stream')
    /\ SubSeq(stream', 1, Len(stream)) = stream
    /\ Ascending(stream')
    /\ Range(stream') \subseteq 0 .. headers - 1
    /\ UNCHANGED headers

ChanNext == Create \/ Receive

ChanSpec == ChanInit /\ [][ChanNext]_chanVars

=============================================================================
