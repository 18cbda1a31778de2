----------------------------- MODULE Recording -----------------------------
(***************************************************************************)
(* How quotes leave the providers for the hub, and the capture that        *)
(* MKT_RECORD makes of them on the way.                                    *)
(*                                                                         *)
(* A provider sends into the hub's channel.  When it is recorded it sends  *)
(* into a channel of its own, from which a copier takes one quote at a     *)
(* time, writes it to the capture and then sends it on.  All copiers share *)
(* the capture's file.  A quote is [from, n]: the n-th that its provider   *)
(* sends.                                                                  *)
(***************************************************************************)
EXTENDS Naturals, Sequences, SequencesExt, FiniteSetsExt

CONSTANTS
  Providers,      \* the providers that are subscribed
  TeeDepth,       \* what a copier's channel holds
  OutDepth,       \* what the hub's channel holds
  MaxBackups,     \* captures kept beside the current one
  MaxSameSecond   \* backups that one second can name

ASSUME RecordingAssumption == {TeeDepth, OutDepth} \subseteq Nat \ {0}

VARIABLES
  recorded,    \* MKT_RECORD is set
  cancelled,   \* the data plane's context is done
  mayCancel,   \* bound: whether that is considered
  returned,    \* the providers whose Subscribe has returned
  sent,        \* how many quotes each provider has sent
  tee,         \* the copiers' channels
  hand,        \* the quote that each copier has taken and not passed on
  copying,     \* the copiers that run
  sinkOpen,    \* Sink.w is set
  file,        \* the quotes of the capture, in order
  unwritten,   \* quotes whose write failed
  out,         \* the hub's channel
  delivered    \* what the hub has taken, in order

recordingVars == <<recorded, cancelled, mayCancel, returned, sent, tee, hand, copying, sinkOpen, file,
                   unwritten, out, delivered>>
copierVars == <<hand, copying>>

NoQuote == [from |-> "nobody", n |-> 0]

RecordingInit(on, recording, bounds) ==
  /\ recorded = recording
  /\ cancelled = FALSE
  /\ mayCancel = bounds.cancel
  /\ returned = {}
  /\ sent = [p \in Providers |-> 0]
  /\ tee = [p \in Providers |-> <<>>]
  /\ hand = [p \in Providers |-> NoQuote]
  /\ copying = IF recorded THEN on ELSE {}
  /\ sinkOpen = recorded
  /\ file = <<>>
  /\ unwritten = {}
  /\ out = <<>>
  /\ delivered = <<>>

(* Whether a provider could send now: else it waits, or gives up when its  *)
(* own context is done.                                                    *)
CanSend(p) == IF recorded THEN Len(tee[p]) < TeeDepth ELSE Len(out) < OutDepth

SlipSendPastTheCopier(p) ==
  /\ Len(out) < OutDepth
  /\ sent' = [sent EXCEPT ![p] = @ + 1]
  /\ out' = Append(out, [from |-> p, n |-> sent[p] + 1])
  /\ UNCHANGED <<recorded, cancelled, mayCancel, returned, tee, copierVars, sinkOpen, file, unwritten,
                 delivered>>

Send(p) ==
  LET q == [from |-> p, n |-> sent[p] + 1] IN
  /\ CanSend(p)
  /\ sent' = [sent EXCEPT ![p] = @ + 1]
  /\ IF recorded THEN tee' = [tee EXCEPT ![p] = Append(@, q)] /\ UNCHANGED out
     ELSE out' = Append(out, q) /\ UNCHANGED tee
  /\ UNCHANGED <<recorded, cancelled, mayCancel, returned, copierVars, sinkOpen, file, unwritten,
                 delivered>>

(* Sink.write, which fails when the sink is closed or the disk says so. *)
Copy(p) ==
  /\ p \in copying
  /\ hand[p] = NoQuote
  /\ tee[p] # <<>>
  /\ hand' = [hand EXCEPT ![p] = Head(tee[p])]
  /\ tee' = [tee EXCEPT ![p] = Tail(@)]
  /\ \/ sinkOpen /\ file' = Append(file, Head(tee[p])) /\ UNCHANGED unwritten
     \/ unwritten' = unwritten \cup {Head(tee[p])} /\ UNCHANGED file
  /\ UNCHANGED <<recorded, cancelled, mayCancel, returned, sent, copying, sinkOpen, out, delivered>>

Forward(p) ==
  /\ p \in copying
  /\ hand[p] # NoQuote
  /\ Len(out) < OutDepth
  /\ out' = Append(out, hand[p])
  /\ hand' = [hand EXCEPT ![p] = NoQuote]
  /\ UNCHANGED <<recorded, cancelled, mayCancel, returned, sent, tee, copying, sinkOpen, file, unwritten,
                 delivered>>

(* The copier ends when the context is done, whatever it holds, or when    *)
(* its channel is closed and empty.                                        *)
CopierEnds(p) ==
  /\ p \in copying
  /\ cancelled \/ (p \in returned /\ tee[p] = <<>> /\ hand[p] = NoQuote)
  /\ copying' = copying \ {p}
  /\ hand' = [hand EXCEPT ![p] = NoQuote]
  /\ UNCHANGED <<recorded, cancelled, mayCancel, returned, sent, tee, sinkOpen, file, unwritten, out,
                 delivered>>

HubTakes ==
  /\ out # <<>>
  /\ delivered' = Append(delivered, Head(out))
  /\ out' = Tail(out)
  /\ UNCHANGED <<recorded, cancelled, mayCancel, returned, sent, tee, copierVars, sinkOpen, file,
                 unwritten>>

Cancel ==
  /\ mayCancel
  /\ ~cancelled
  /\ cancelled' = TRUE
  /\ UNCHANGED <<recorded, mayCancel, returned, sent, tee, copierVars, sinkOpen, file, unwritten, out,
                 delivered>>

(* The cleanup of the back end; nothing waits for the copiers. *)
CloseSink ==
  /\ cancelled
  /\ sinkOpen
  /\ sinkOpen' = FALSE
  /\ UNCHANGED <<recorded, cancelled, mayCancel, returned, sent, tee, copierVars, file, unwritten, out,
                 delivered>>

(* Every quote that the hub got, or that waits for it, is in the capture   *)
(* or had its write refused, and the capture has each provider's quotes in *)
(* the order in which they were sent, with none that was not.              *)
CaptureLeadsDelivery ==
  recorded =>
    /\ ToSet(delivered) \cup ToSet(out) \subseteq ToSet(file) \cup unwritten
    /\ \A i \in 1..Len(file) :
         /\ file[i].from \in Providers
         /\ file[i].n \in 1..sent[file[i].from]
         /\ \A j \in (i + 1)..Len(file) : file[i].from = file[j].from => file[i].n < file[j].n

-----------------------------------------------------------------------------
(* The launch: the previous capture is copied aside before the file is     *)
(* opened, which empties it.  A directory is [now, old]: the current       *)
(* capture and its backups by name, <<second, number>>, which sort by text *)
(* as they do by number while the numbers have one digit.                  *)

BackupName(old, second) ==
  LET free == {i \in 0..MaxSameSecond : <<second, i>> \notin DOMAIN old}
  IN IF free = {} THEN <<>> ELSE <<second, Min(free)>>

Later(a, b) == a[1] > b[1] \/ (a[1] = b[1] /\ a[2] > b[2])

PruneRecordBackups(old) ==
  [n \in {x \in DOMAIN old : Cardinality({y \in DOMAIN old : Later(y, x)}) < MaxBackups} |->
     old[n]]

PreserveRecording(dir, second) ==
  LET name == BackupName(dir.old, second)
      old == [n \in DOMAIN dir.old \cup {name} |-> IF n = name THEN dir.now ELSE dir.old[n]]
  IN CASE dir.now = <<>> -> [ok |-> TRUE, dir |-> dir]
       [] dir.now # <<>> /\ name = <<>> -> [ok |-> FALSE, dir |-> dir]
       [] OTHER -> [ok |-> TRUE, dir |-> [dir EXCEPT !.old = PruneRecordBackups(old)]]

(* What a launch leaves, with the capture that it then makes. *)
Launch(dir, second, capture) ==
  LET kept == PreserveRecording(dir, second)
  IN IF kept.ok THEN [kept.dir EXCEPT !.now = capture] ELSE dir

(* A replay: the lines of a capture that can be read, are of a version     *)
(* that is known and of a symbol that is asked for; an empty filter asks   *)
(* for all.                                                                *)
Decodes(line) == line.v # 0 /\ line.v <= 1
Replayed(lines, symbols) ==
  SelectSeq(lines, LAMBDA l : Decodes(l) /\ (symbols = {} \/ l.symbol \in symbols))
(* In real time each quote waits for what passed since the one before. *)
Pauses(lines, symbols) ==
  LET r == Replayed(lines, symbols)
  IN [i \in 1..Len(r) |-> IF i = 1 \/ r[i].ts <= r[i - 1].ts THEN 0 ELSE r[i].ts - r[i - 1].ts]
=============================================================================
