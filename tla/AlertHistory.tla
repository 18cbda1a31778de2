--------------------------- MODULE AlertHistory ---------------------------
(***************************************************************************)
(* The files that only grow at their end: alert-history.ndjson and         *)
(* equity-history.ndjson.  A process appends under its own mutex and, once *)
(* every CompactEvery appends, rewrites the file to its newest Keep lines  *)
(* through a temporary file and a rename.  Two processes (`mkt daemon` and *)
(* `mkt`) share the files and no lock.                                     *)
(*                                                                         *)
(* at[p] is where process p is in Append: "idle"; "open", the file opened  *)
(* and the line not written; "moved", opened and replaced since by the     *)
(* other process's rename; "written"; "read", the lines read by Compact    *)
(* and the rename not done.  A line is written whole or not at all: what a *)
(* write cut short leaves in the file is left out.                         *)
(***************************************************************************)
EXTENDS Naturals, Sequences, SequencesExt

CONSTANTS
  Processes,
  CompactEvery,   \* compactEvery, appends between two looks at the length
  Keep,           \* entries retained
  MaxFailures     \* bounds of the model: appends of a process that fail

ASSUME HistoryAssumption ==
  CompactEvery \in Nat \ {0} /\ Keep \in Nat \ {0} /\ MaxFailures \in Nat

VARIABLES
  file,      \* the lines, oldest first
  at,        \* where each process is in Append
  entry,     \* the line each process is appending
  writes,    \* appends since the last look, by process
  lines,     \* what Compact read, by process
  written,   \* every line ever written, in order
  failed,    \* appends that failed, by process
  racing     \* lines whose Append overlapped another's compaction

historyVars == <<file, at, entry, writes, lines, written, failed, racing>>

\* Newest, keeping the first lines
SlipNewestOldest(seq) == SubSeq(seq, 1, IF Len(seq) <= Keep THEN Len(seq) ELSE Keep)

Newest(seq) == SubSeq(seq, IF Len(seq) <= Keep THEN 1 ELSE Len(seq) - Keep + 1, Len(seq))

HistoryInit ==
  /\ file = <<>>
  /\ at = [p \in Processes |-> "idle"]
  /\ entry = [p \in Processes |-> 0]
  /\ writes = [p \in Processes |-> 0]
  /\ lines = [p \in Processes |-> <<>>]
  /\ written = <<>>
  /\ failed = [p \in Processes |-> 0]
  /\ racing = {}

(* What the next start reads: the newest Keep lines; none when absent. *)
LoadAll == Newest(file)

Compacting(p) == at[p] = "read"
InFlight(p) == at[p] \in {"open", "moved"}
Others(p) == Processes \ {p}

Open(p, e) ==
  /\ at[p] = "idle"
  /\ at' = [at EXCEPT ![p] = "open"]
  /\ entry' = [entry EXCEPT ![p] = e]
  /\ racing' = racing \cup (IF \E q \in Others(p) : Compacting(q) THEN {e} ELSE {})
  /\ UNCHANGED <<file, writes, lines, written, failed>>

(* A line written to a file that was replaced meanwhile goes nowhere. *)
Write(p) ==
  /\ InFlight(p)
  /\ file' = IF at[p] = "open" THEN Append(file, entry[p]) ELSE file
  /\ written' = Append(written, entry[p])
  /\ LET due == writes[p] + 1 >= CompactEvery
     IN  /\ writes' = [writes EXCEPT ![p] = IF due THEN 0 ELSE @ + 1]
         /\ at' = [at EXCEPT ![p] = IF due THEN "written" ELSE "idle"]
  /\ UNCHANGED <<entry, lines, failed, racing>>

(* The file cannot be opened, the line not encoded or not written: Append  *)
(* returns an error and does not count the write.                          *)
AppendFails(p) ==
  /\ InFlight(p)
  /\ failed[p] < MaxFailures
  /\ failed' = [failed EXCEPT ![p] = @ + 1]
  /\ at' = [at EXCEPT ![p] = "idle"]
  /\ UNCHANGED <<file, entry, writes, lines, written, racing>>

(* Compact leaves a file alone until it holds twice what is kept. *)
ReadLines(p) ==
  /\ at[p] = "written"
  /\ IF Len(file) <= 2 * Keep
     THEN /\ at' = [at EXCEPT ![p] = "idle"]
          /\ UNCHANGED <<lines, racing>>
     ELSE /\ at' = [at EXCEPT ![p] = "read"]
          /\ lines' = [lines EXCEPT ![p] = Newest(file)]
          /\ racing' = racing \cup {entry[q] : q \in {r \in Others(p) : InFlight(r)}}
  /\ UNCHANGED <<file, entry, writes, written, failed>>

WriteLines(p) ==
  /\ Compacting(p)
  /\ file' = lines[p]
  /\ lines' = [lines EXCEPT ![p] = <<>>]
  /\ at' = [q \in Processes |->
              IF q = p THEN "idle" ELSE IF at[q] = "open" THEN "moved" ELSE at[q]]
  /\ UNCHANGED <<entry, writes, written, failed, racing>>

(* A failed write of the temporary file leaves the original as it was. *)
CompactFails(p) ==
  /\ at[p] \in {"written", "read"}
  /\ at' = [at EXCEPT ![p] = "idle"]
  /\ lines' = [lines EXCEPT ![p] = <<>>]
  /\ UNCHANGED <<file, entry, writes, written, failed, racing>>

(* The process ends between any two steps and another is started: its     *)
(* counter starts afresh, a temporary file it left is never looked at.    *)
Die(p) ==
  /\ at' = [at EXCEPT ![p] = "idle"]
  /\ lines' = [lines EXCEPT ![p] = <<>>]
  /\ writes' = [writes EXCEPT ![p] = 0]
  /\ UNCHANGED <<file, entry, written, failed, racing>>

Compact(p) == ReadLines(p) \/ WriteLines(p) \/ CompactFails(p)

-----------------------------------------------------------------------------

(* Whatever is read back is in the order written, each line once, and of   *)
(* the newest Keep lines only one whose append overlapped another process's *)
(* compaction may be missing: neither compaction, nor its failure, nor the *)
(* end of a process between any two steps loses another.                   *)
Position(e) == CHOOSE i \in 1..Len(written) : written[i] = e

HistoryKeepsNewest ==
  /\ \A i, j \in 1..Len(file) : i < j => Position(file[i]) < Position(file[j])
  /\ \A i \in 1..Len(written) :
       i > Len(written) - Keep => written[i] \in ToSet(LoadAll) \cup racing

=============================================================================
