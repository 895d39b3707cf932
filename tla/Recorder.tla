------------------------------ MODULE Recorder ------------------------------
(***************************************************************************)
(* The syscall logs of recorder.ts: one file per process, appended to in   *)
(* frames of a length header and a payload, written one after the other by *)
(* a promise chain; opening a log that exists; and the reader, that stops  *)
(* at the first frame that is not whole.                                   *)
(*                                                                         *)
(* A file is a sequence of cells, the header or the payload of a frame, so *)
(* that an offset counts cells.  The magic of the file is left out.  Files *)
(* are opened with 'a+': a write goes to the end of the file, whatever the *)
(* position it asks for.  What the operating system was given survives a   *)
(* crash of the kernel process; fsync is not modelled.                     *)
(***************************************************************************)
EXTENDS Integers, Sequences, FiniteSetsExt

CONSTANTS
  Pids,      \* processes that a log may be opened for
  Callers,   \* asynchronous contexts that await an append
  MaxFaults  \* bound on the writes that fail

ASSUME RecorderAssumption ==
  /\ Pids \subseteq Nat \ {0}
  /\ MaxFaults \in Nat

VARIABLES
  log,     \* the file of each process
  offset,  \* #offset of its recorder
  chain,   \* #writeChain: appends that have not settled, [rec, by]
  half,    \* the header of the first of them is in the file
  answer,  \* what the last append of each caller came to
  faults,  \* failures so far
  acked,   \* history: records whose append resolved, until the file broke
  broken   \* history: a frame of the file is torn

files == <<log, broken, acked>>
writers == <<offset, chain, half, answer>>
recorder == <<files, writers, faults>>

Header(r) == <<"header", r>>
Payload(r) == <<"payload", r>>

RecorderInit ==
  /\ log = [p \in Pids |-> <<>>]
  /\ offset = [p \in Pids |-> 0]
  /\ chain = [p \in Pids |-> <<>>]
  /\ half = [p \in Pids |-> FALSE]
  /\ answer = [c \in Callers |-> "none"]
  /\ faults = 0
  /\ acked = [p \in Pids |-> <<>>]
  /\ broken = [p \in Pids |-> FALSE]

-----------------------------------------------------------------------------
(* The reader *)

\* readRecords() yields the payloads of this many frames, those before a torn one.
WholeFrames(f) ==
  LET torn == {i \in 1 .. Len(f) \div 2 :
                 f[2 * i - 1] /= Header(f[2 * i][2]) \/ f[2 * i][1] /= "payload"}
  IN IF torn = {} THEN Len(f) \div 2 ELSE Min(torn) - 1

-----------------------------------------------------------------------------
(* The writer *)

\* Recorder.open(): the offset is the size of the file.
Open(p) == offset' = [offset EXCEPT ![p] = Len(log[p])]

\* append() of r by c; the caller goes on when answer[c] is no longer "waiting".
Append1(p, c, r) ==
  /\ chain' = [chain EXCEPT ![p] = Append(@, [rec |-> r, by |-> c])]
  /\ answer' = [answer EXCEPT ![c] = "waiting"]

\* The append that is being written settles.
Settle(p, how) ==
  /\ answer' = [answer EXCEPT ![Head(chain[p]).by] = how]
  /\ chain' = [chain EXCEPT ![p] = Tail(@)]
  /\ half' = [half EXCEPT ![p] = FALSE]

\* Mutant: the append resolves when its header is written.
BugWriteHeader(p) ==
  /\ chain[p] /= <<>> /\ ~half[p]
  /\ log' = [log EXCEPT ![p] = Append(@, Header(Head(chain[p]).rec))]
  /\ half' = [half EXCEPT ![p] = TRUE]
  /\ acked' = [acked EXCEPT ![p] = IF broken[p] THEN @ ELSE Append(@, Head(chain[p]).rec)]
  /\ UNCHANGED <<offset, chain, answer, faults, broken>>

WriteHeader(p) ==
  /\ chain[p] /= <<>> /\ ~half[p]
  /\ log' = [log EXCEPT ![p] = Append(@, Header(Head(chain[p]).rec))]
  /\ half' = [half EXCEPT ![p] = TRUE]
  /\ UNCHANGED <<offset, chain, answer, faults, acked, broken>>

WritePayload(p) ==
  /\ half[p]
  /\ log' = [log EXCEPT ![p] = Append(@, Payload(Head(chain[p]).rec))]
  /\ offset' = [offset EXCEPT ![p] = @ + 2]
  /\ acked' = [acked EXCEPT ![p] = IF broken[p] THEN @ ELSE Append(@, Head(chain[p]).rec)]
  /\ Settle(p, "acked")
  /\ UNCHANGED <<faults, broken>>

\* A write fails: the offset stays, and a header that was written stays too.
FailWrite(p) ==
  /\ chain[p] /= <<>>
  /\ faults < MaxFaults
  /\ faults' = faults + 1
  /\ broken' = [broken EXCEPT ![p] = @ \/ half[p]]
  /\ Settle(p, "failed")
  /\ UNCHANGED <<log, offset, acked>>

\* The kernel process ends, in the middle of a frame or not.
LoseWriters ==
  /\ broken' = [p \in Pids |-> broken[p] \/ half[p]]
  /\ chain' = [p \in Pids |-> <<>>]
  /\ half' = [p \in Pids |-> FALSE]
  /\ answer' = [c \in Callers |-> "none"]
  /\ offset' = [p \in Pids |-> 0]
  /\ UNCHANGED <<log, faults, acked>>

RecorderStep == \E p \in Pids : WriteHeader(p) \/ WritePayload(p)

-----------------------------------------------------------------------------
(* Properties *)

(***************************************************************************)
(* A record whose append resolved is read back, in the order in which they *)
(* resolved, whatever crashes and failing writes follow it: until a frame  *)
(* of the file is torn.  (recorder.ts, append and readRecords)             *)
(***************************************************************************)
AckedIsReadable ==
  \A p \in Pids : /\ Len(acked[p]) <= WholeFrames(log[p])
                  /\ \A i \in DOMAIN acked[p] : acked[p][i] = log[p][2 * i][2]

=============================================================================
