------------------------------- MODULE LogPipe -------------------------------
(***************************************************************************)
(* The log pipe client of libs/utils/log_pipe/common.cc: the process-wide  *)
(* log cache g_log_cache that CreateLogHeader appends to and that          *)
(* ConnectAndSendJson prepends to the next LOG message, the sends over the *)
(* three named pipes (LOG, DATA, CONTROL), and the per-category message    *)
(* numbering of GetNextIndex used by LogData::CreateLogStruct.             *)
(*                                                                         *)
(* A header string is abstracted to its creation number, a message to the  *)
(* headers it carries; the reader's side is the stream of headers it got   *)
(* on the LOG pipe and the number of messages on each pipe.  Whether the   *)
(* reading process has the pipe open (CreateFileW) and whether WriteFile   *)
(* succeeds are outside the program: every send chooses both.              *)
(***************************************************************************)
EXTENDS Integers, Sequences, FiniteSets, Functions

CONSTANTS
    Categories,   \* log categories (LogCategoryToString values)
    Windows,      \* built for _WIN32 / __MINGW32__ (line 130)
    FatherSet,    \* g_father_process_id is not "-1" (line 117)
    IntWidth,     \* width of int (indices values)
    MaxHeaders,   \* bound on CreateLogHeader calls
    MaxSends,     \* bound on ConnectAndSendJson calls
    MaxStructs,   \* bound on CreateLogStruct calls
    WriteCanFail  \* WriteFile may fail (the reader closed the pipe)

ASSUME LogPipeAssumption ==
    /\ Windows \in BOOLEAN /\ FatherSet \in BOOLEAN /\ WriteCanFail \in BOOLEAN
    /\ IntWidth \in Nat /\ IntWidth >= 2
    /\ MaxHeaders \in Nat /\ MaxSends \in Nat /\ MaxStructs \in Nat

PipeTypes == {"LOG", "DATA", "CONTROL"}

\* ++ on a signed int of IntWidth bits: overflow is undefined behaviour; the
\* build's outcome is the two's-complement wrap.
IntMax == (2^(IntWidth - 2) - 1) + 2^(IntWidth - 2)
IntMin == -IntMax - 1
Incr(i) == IF i = IntMax THEN IntMin ELSE i + 1

ASSUME IntAssumption == IntMax \in Nat

VARIABLES
    cache,      \* g_log_cache: the headers appended since it was last cleared
    created,    \* headers created so far (the next header's number)
    sends,      \* ConnectAndSendJson calls so far
    received,   \* the headers the reader received on the LOG pipe, in order
    msgs,       \* pipe type -> number of messages the reader received
    indices,    \* indices: category -> last number handed out (0 if none)
    structs     \* CreateLogStruct calls so far

logVars == <<cache, created, sends, received, msgs, indices, structs>>

LogInit ==
    /\ cache = <<>>
    /\ created = 0
    /\ sends = 0
    /\ received = <<>>
    /\ msgs = [t \in PipeTypes |-> 0]
    /\ indices = [c \in Categories |-> 0]
    /\ structs = 0

\* Fault variant: the header is numbered one past the counter.
CreateLogHeaderOffByOne ==
    /\ created < MaxHeaders
    /\ cache' = Append(cache, created + 1)
    /\ created' = created + 1
    /\ UNCHANGED <<sends, received, msgs, indices, structs>>

\* CreateLogHeader (lines 107-109): g_log_cache += log_info.
CreateLogHeader ==
    /\ created < MaxHeaders
    /\ cache' = Append(cache, created)
    /\ created' = created + 1
    /\ UNCHANGED <<sends, received, msgs, indices, structs>>

\* The message a send of type t puts on the pipe: a LOG message carries
\* the cache in front of its own content (line 122).
Payload(t) == IF t = "LOG" THEN cache ELSE <<>>

\* The reader gets one message of type t.
Deliver(t) ==
    /\ received' = received \o Payload(t)
    /\ msgs' = [msgs EXCEPT ![t] = @ + 1]

\* Fault variant: the send leaves the cache as it was.
ConnectAndSendJsonNoClear(t) ==
    /\ sends < MaxSends
    /\ sends' = sends + 1
    /\ IF ~FatherSet \/ ~Windows
         THEN UNCHANGED <<cache, received, msgs>>
         ELSE \E connected \in BOOLEAN, written \in IF WriteCanFail THEN BOOLEAN ELSE {TRUE} :
                /\ IF connected /\ written THEN Deliver(t) ELSE UNCHANGED <<received, msgs>>
                /\ UNCHANGED cache
    /\ UNCHANGED <<created, indices, structs>>

\* ConnectAndSendJson (lines 116-171).  Nothing is sent when no father
\* process is known or on a build without named pipes; a failed connect
\* returns (line 153) with the cache kept; otherwise the cache is cleared
\* (line 156) before WriteFile, whatever the pipe type and whether the
\* write then succeeds.
ConnectAndSendJson(t) ==
    /\ sends < MaxSends
    /\ sends' = sends + 1
    /\ IF ~FatherSet \/ ~Windows
         THEN UNCHANGED <<cache, received, msgs>>
         ELSE \E connected \in BOOLEAN, written \in IF WriteCanFail THEN BOOLEAN ELSE {TRUE} :
                IF ~connected THEN UNCHANGED <<cache, received, msgs>>
                ELSE /\ cache' = <<>>
                     /\ IF written THEN Deliver(t) ELSE UNCHANGED <<received, msgs>>
    /\ UNCHANGED <<created, indices, structs>>

\* LogData::CreateLogStruct (lines 77-87) numbers its message with
\* GetNextIndex (lines 98-101): ++indices[key].
CreateLogStruct(c) ==
    /\ structs < MaxStructs
    /\ indices' = [indices EXCEPT ![c] = Incr(@)]
    /\ structs' = structs + 1
    /\ UNCHANGED <<cache, created, sends, received, msgs>>

LogNext ==
    \/ CreateLogHeader
    \/ \E t \in PipeTypes : ConnectAndSendJson(t)
    \/ \E c \in Categories : CreateLogStruct(c)

LogSpec == LogInit /\ [][LogNext]_logVars

-----------------------------------------------------------------------------
LogTypeOK ==
    /\ cache \in Seq(0 .. MaxHeaders) /\ Range(cache) \subseteq 0 .. created - 1
    /\ created \in 0 .. MaxHeaders
    /\ received \in Seq(0 .. MaxHeaders)
    /\ msgs \in [PipeTypes -> Nat]
    /\ indices \in [Categories -> IntMin .. IntMax]

\* A sequence of numbers in strictly increasing order.
Increasing(seq) == \A i, j \in 1 .. Len(seq) : i < j => seq[i] < seq[j]

(***************************************************************************)
(* The reader receives the log headers in the order they were created,    *)
(* each at most once (a header reaches the LOG pipe only with the cache   *)
(* it was in, and the cache is cleared by the send that carries it).      *)
(***************************************************************************)
HeadersInOrder == Increasing(received)

(***************************************************************************)
(* No log header is lost: every header created is still in the cache or   *)
(* has been received on the LOG pipe (the cache exists to hold headers    *)
(* until the next LOG message carries them).                              *)
(***************************************************************************)
NoHeaderLost ==
    \A h \in 0 .. created - 1 : h \in Range(cache) \/ h \in Range(received)

(***************************************************************************)
(* The log pipe client implements the log channel: CreateLogHeader is its *)
(* Create, and every ConnectAndSendJson, whatever its pipe type and the    *)
(* outcomes of connect and write, is a Receive or leaves the reader's      *)
(* stream alone; what the reader has received is never reordered or      *)
(* taken back.                                                             *)
(***************************************************************************)
Chan == INSTANCE LogChannel WITH headers <- created, stream <- received

ChanRefined == Chan!ChanSpec

=============================================================================
