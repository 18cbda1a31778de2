----------------------------- MODULE Broadcast -----------------------------
(***************************************************************************)
(* The broadcaster, internal/broadcast/broadcast.go: any number of         *)
(* data-plane goroutines Send to every live session, each session having a *)
(* bounded queue and a pump goroutine of its own; sessions come and go     *)
(* (cmd/serve.go).                                                         *)
(*                                                                         *)
(* Send holds b.mu for reading while it visits the queues one by one, in   *)
(* the random order of a map, so several Sends interleave; Add and the     *)
(* first half of Remove hold it for writing.  pushed[s] is the stream of   *)
(* messages session s was offered, and the slots of its ring hold          *)
(* positions in it, 0 where the code has nil.                              *)
(***************************************************************************)
EXTENDS Naturals, Sequences, FiniteSets, FiniteSetsExt

CONSTANTS
  Producers,    \* goroutines that call Send
  Sessions,     \* the senders: one program per session
  QueueSize,    \* b.queueSize (DefaultQueueSize = 256)
  Responsive,   \* sessions whose Send always returns (liveness only)
  MaxSends      \* bound of the model: messages sent in all

ASSUME BroadcastAssumption ==
  /\ IsFiniteSet(Producers) /\ IsFiniteSet(Sessions)
  /\ QueueSize \in Nat \ {0}
  /\ Responsive \subseteq Sessions
  /\ MaxSends \in [Producers -> Nat]

VARIABLES
  \* registration
  phase,      \* "new", "registered" (in b.subs), "removed" (deleted) or "stopped"
  retired,    \* b.retired
  joined,     \* history: joined[s][p], messages p had sent when s was added
  \* Send
  sent,       \* sent[p]: messages of p so far
  sending,    \* producers inside Send, holding b.mu for reading
  todo,       \* todo[p]: queues this Send of p has still to visit
  \* the subscribers
  pushed,     \* history: messages <<p, n>> offered to s, oldest first
  buf,        \* the ring of s: positions in pushed[s], 0 for nil
  head,       \* slot of the oldest queued message
  count,      \* queued messages
  drops,      \* drops[s]: messages evicted from the queue of s
  discarded,  \* history: messages stop() threw away
  \* the pumps
  pump,       \* "none", "next", "parked" (cond.Wait), "sending" or "exited"
  handing,    \* what the pump took and Sender.Send has not returned from
  handled     \* history: what Sender.Send returned from

regVars == <<phase, retired, joined>>
sendVars == <<sent, sending, todo>>
ringVars == <<buf, head, count>>
subVars == <<pushed, ringVars, drops, discarded>>
pumpVars == <<pump, handing, handled>>
vars == <<regVars, sendVars, subVars, pumpVars>>

Registered == {s \in Sessions : phase[s] = "registered"}

Slots == 0..(QueueSize - 1)
Slot(n) == n % QueueSize

(* The n messages that wait in the ring b, of which slot h has the oldest. *)
Waiting(b, h, n) == [i \in 1..n |-> b[Slot(h + (i - 1))]]

(* What waits for each session, oldest first: the queue that the ring is.  *)
queue == [s \in Sessions |-> Waiting(buf[s], head[s], count[s])]

Init ==
  /\ phase = [s \in Sessions |-> "new"]
  /\ retired = 0
  /\ joined = [s \in Sessions |-> [p \in Producers |-> 0]]
  /\ sent = [p \in Producers |-> 0]
  /\ sending = {}
  /\ todo = [p \in Producers |-> {}]
  /\ pushed = [s \in Sessions |-> <<>>]
  /\ buf = [s \in Sessions |-> [i \in Slots |-> 0]]
  /\ head = [s \in Sessions |-> 0]
  /\ count = [s \in Sessions |-> 0]
  /\ drops = [s \in Sessions |-> 0]
  /\ discarded = [s \in Sessions |-> 0]
  /\ pump = [s \in Sessions |-> "none"]
  /\ handing = [s \in Sessions |-> <<>>]
  /\ handled = [s \in Sessions |-> <<>>]

-----------------------------------------------------------------------------
(* What push, next and stop do to a ring.                                  *)

Full(s) == count[s] = QueueSize

(* push: the message goes to the slot after the newest. *)
Write(s, oldest, n) ==
  /\ buf' = [buf EXCEPT ![s][Slot(oldest + n)] = Len(pushed[s]) + 1]
  /\ head' = [head EXCEPT ![s] = oldest]
  /\ count' = [count EXCEPT ![s] = n + 1]

(* next: the oldest message leaves its slot. *)
TakeOldest(s) ==
  /\ buf' = [buf EXCEPT ![s][head[s]] = 0]
  /\ head' = [head EXCEPT ![s] = Slot(@ + 1)]
  /\ count' = [count EXCEPT ![s] = @ - 1]

(* stop: all of them do. *)
Clear(s) ==
  /\ buf' = [buf EXCEPT ![s] = [i \in Slots |-> 0]]
  /\ head' = [head EXCEPT ![s] = 0]
  /\ count' = [count EXCEPT ![s] = 0]

-----------------------------------------------------------------------------
(* Slips: the definition named in the comment, with one plausible bug.     *)

\* Queued, evicting a message without moving the head
SlipQueuedHeadStays(s) ==
  IF Full(s)
  THEN /\ Write(s, head[s], count[s] - 1)
       /\ drops' = [drops EXCEPT ![s] = @ + 1]
  ELSE /\ Write(s, head[s], count[s])
       /\ UNCHANGED drops

\* Queued, by a push that waits for the pump: one that keeps the queue's
\* lock while Sender.Send runs
SlipQueuedWaits(s) ==
  /\ pump[s] # "sending"
  /\ IF Full(s)
     THEN /\ Write(s, Slot(head[s] + 1), count[s] - 1)
          /\ drops' = [drops EXCEPT ![s] = @ + 1]
     ELSE /\ Write(s, head[s], count[s])
          /\ UNCHANGED drops

\* Unlocked, for a Send that lets go of b.mu while it visits the queues
SlipUnlocked == TRUE

\* SendReturns, at the first queue it finds full
SlipSendReturnsEarly(p) ==
  /\ p \in sending
  /\ todo[p] = {} \/ \E s \in todo[p] : Full(s)
  /\ sending' = sending \ {p}
  /\ todo' = [todo EXCEPT ![p] = {}]
  /\ UNCHANGED <<regVars, sent, subVars, pumpVars>>

\* Stop, without cond.Broadcast
SlipStopSilently(s) ==
  /\ phase[s] = "removed"
  /\ phase' = [phase EXCEPT ![s] = "stopped"]
  /\ Clear(s)
  /\ discarded' = [discarded EXCEPT ![s] = @ + count[s]]
  /\ UNCHANGED <<retired, joined, sendVars, pushed, drops, pumpVars>>

\* PumpNext, leaving the message it takes in the queue
SlipPumpNextKeeps(s) ==
  /\ pump[s] = "next"
  /\ count[s] > 0
  /\ phase[s] # "stopped"
  /\ handing' = [handing EXCEPT ![s] = <<buf[s][head[s]]>>]
  /\ pump' = [pump EXCEPT ![s] = "sending"]
  /\ UNCHANGED <<regVars, sendVars, subVars, handled>>

\* PumpNext, with one pump serving every session
SlipPumpNextShared(s) ==
  /\ pump[s] = "next"
  /\ count[s] > 0
  /\ phase[s] # "stopped"
  /\ \A x \in Sessions : pump[x] # "sending"
  /\ handing' = [handing EXCEPT ![s] = <<buf[s][head[s]]>>]
  /\ TakeOldest(s)
  /\ pump' = [pump EXCEPT ![s] = "sending"]
  /\ UNCHANGED <<regVars, sendVars, pushed, drops, discarded, handled>>

-----------------------------------------------------------------------------
(* Sessions come and go.                                                   *)

(* No Send is under way: b.mu can be had for writing. *)
Unlocked == sending = {}

(* serve and the dashboard add each program once. *)
Add(s) ==
  /\ phase[s] = "new"
  /\ Unlocked
  /\ phase' = [phase EXCEPT ![s] = "registered"]
  /\ joined' = [joined EXCEPT ![s] = sent]
  /\ pump' = [pump EXCEPT ![s] = "next"]
  /\ UNCHANGED <<retired, sendVars, subVars, handing, handled>>

(* Remove, when the session's context is done: first under b.mu ... *)
RemoveSession(s) ==
  /\ phase[s] = "registered"
  /\ Unlocked
  /\ phase' = [phase EXCEPT ![s] = "removed"]
  /\ retired' = retired + drops[s]
  /\ UNCHANGED <<joined, sendVars, subVars, pumpVars>>

Woken(s) == IF pump[s] = "parked" THEN "next" ELSE pump[s]

(* ... then stop, outside it: the queue is discarded and the pump woken. *)
Stop(s) ==
  /\ phase[s] = "removed"
  /\ phase' = [phase EXCEPT ![s] = "stopped"]
  /\ Clear(s)
  /\ discarded' = [discarded EXCEPT ![s] = @ + count[s]]
  /\ pump' = [pump EXCEPT ![s] = Woken(s)]
  /\ UNCHANGED <<retired, joined, sendVars, pushed, drops, handing, handled>>

-----------------------------------------------------------------------------
(* Send.                                                                   *)

Send(p) ==
  /\ p \notin sending
  /\ sent[p] < MaxSends[p]
  /\ sent' = [sent EXCEPT ![p] = @ + 1]
  /\ sending' = sending \cup {p}
  /\ todo' = [todo EXCEPT ![p] = Registered]
  /\ UNCHANGED <<regVars, subVars, pumpVars>>

(* A full queue loses its oldest message to the new one, which the slot it *)
(* frees takes at once.                                                    *)
Queued(s) ==
  IF Full(s)
  THEN /\ Write(s, Slot(head[s] + 1), count[s] - 1)
       /\ drops' = [drops EXCEPT ![s] = @ + 1]
  ELSE /\ Write(s, head[s], count[s])
       /\ UNCHANGED drops

(* push: the message is queued, unless s is stopped, and the pump signalled. *)
Push(p, s) ==
  /\ s \in todo[p]
  /\ todo' = [todo EXCEPT ![p] = @ \ {s}]
  /\ IF phase[s] = "stopped"
     THEN UNCHANGED <<pushed, ringVars, drops, pump>>
     ELSE /\ Queued(s)
          /\ pushed' = [pushed EXCEPT ![s] = Append(@, <<p, sent[p]>>)]
          /\ pump' = [pump EXCEPT ![s] = Woken(s)]
  /\ UNCHANGED <<regVars, sent, sending, discarded, handing, handled>>

SendReturns(p) ==
  /\ p \in sending
  /\ todo[p] = {}
  /\ sending' = sending \ {p}
  /\ UNCHANGED <<regVars, sent, todo, subVars, pumpVars>>

-----------------------------------------------------------------------------
(* The pumps.                                                              *)

(* next: parked while there is nothing to do ... *)
PumpParks(s) ==
  /\ pump[s] = "next"
  /\ count[s] = 0
  /\ phase[s] # "stopped"
  /\ pump' = [pump EXCEPT ![s] = "parked"]
  /\ UNCHANGED <<regVars, sendVars, subVars, handing, handled>>

(* ... the oldest message otherwise ... *)
PumpNext(s) ==
  /\ pump[s] = "next"
  /\ count[s] > 0
  /\ phase[s] # "stopped"
  /\ handing' = [handing EXCEPT ![s] = <<buf[s][head[s]]>>]
  /\ TakeOldest(s)
  /\ pump' = [pump EXCEPT ![s] = "sending"]
  /\ UNCHANGED <<regVars, sendVars, pushed, drops, discarded, handled>>

(* Sender.Send returns: maybe never, while the session is wedged. *)
HandOffReturns(s) ==
  /\ pump[s] = "sending"
  /\ handled' = [handled EXCEPT ![s] = @ \o handing[s]]
  /\ handing' = [handing EXCEPT ![s] = <<>>]
  /\ pump' = [pump EXCEPT ![s] = "next"]
  /\ UNCHANGED <<regVars, sendVars, subVars>>

(* ... and the end of the pump once stopped. *)
PumpExits(s) ==
  /\ pump[s] = "next"
  /\ phase[s] = "stopped"
  /\ pump' = [pump EXCEPT ![s] = "exited"]
  /\ UNCHANGED <<regVars, sendVars, subVars, handing, handled>>

-----------------------------------------------------------------------------

Pump(s) == PumpParks(s) \/ PumpNext(s) \/ PumpExits(s)
Visit(p) == \E s \in Sessions : Push(p, s)

Next ==
  \/ \E p \in Producers : Send(p) \/ Visit(p) \/ SendReturns(p)
  \/ \E s \in Sessions : Add(s) \/ RemoveSession(s) \/ Stop(s) \/ Pump(s) \/ HandOffReturns(s)

Spec == Init /\ [][Next]_vars

(* Goroutines run.  Nobody has to send, join or leave; a wedged session's  *)
(* Send returns only once its program's context is done, that is once it   *)
(* is being removed (broadcast.go:99).                                     *)
Ended(s) == phase[s] \in {"removed", "stopped"}

Fairness ==
  /\ \A p \in Producers : WF_vars(Visit(p)) /\ WF_vars(SendReturns(p))
  /\ \A s \in Sessions : /\ WF_vars(Pump(s)) /\ WF_vars(Stop(s))
                         /\ WF_vars(Ended(s) /\ HandOffReturns(s))
  /\ \A s \in Responsive : WF_vars(HandOffReturns(s))

FairSpec == Spec /\ Fairness

-----------------------------------------------------------------------------
(* Correctness.                                                            *)

TypeOK ==
  /\ phase \in [Sessions -> {"new", "registered", "removed", "stopped"}]
  /\ retired \in Nat
  /\ joined \in [Sessions -> [Producers -> Nat]]
  /\ sent \in [Producers -> Nat]
  /\ sending \in SUBSET Producers
  /\ todo \in [Producers -> SUBSET Sessions]
  /\ pushed \in [Sessions -> Seq(Producers \X Nat)]
  /\ buf \in [Sessions -> [Slots -> Nat]]
  /\ head \in [Sessions -> Slots]
  /\ count \in [Sessions -> 0..QueueSize]
  /\ drops \in [Sessions -> Nat]
  /\ discarded \in [Sessions -> Nat]
  /\ pump \in [Sessions -> {"none", "next", "parked", "sending", "exited"}]
  /\ handing \in [Sessions -> Seq(Nat)]
  /\ handled \in [Sessions -> Seq(Nat)]

(* The messages evicted from some queues, named one by one. *)
Evictions(some) == UNION {{s} \X (1..drops[s]) : s \in some}

(* Drops, broadcast.go:136: "across all senders, including senders that     *)
(* have since been removed".  A message a session was offered is handled,   *)
(* in hand, queued, dropped or was discarded by stop; and what retired and  *)
(* the live counters add up to is every drop there ever was, so removing a  *)
(* session never loses one, however Sends and Removes interleave.           *)
DropsAccounted ==
  /\ \A s \in Sessions :
       Len(pushed[s]) = Len(handled[s]) + Len(handing[s]) + Len(queue[s])
                          + drops[s] + discarded[s]
  /\ retired + Cardinality(Evictions(Registered)) = Cardinality(Evictions(Sessions))

(* push, broadcast.go:196, newest-wins: what waits for a live session is    *)
(* always the newest of what it was offered.                               *)
NewestKept ==
  \A s \in Sessions : phase[s] # "stopped" =>
    \A i \in 1..Len(queue[s]) : queue[s][i] = Len(pushed[s]) - Len(queue[s]) + i

Offered(s, p) == {i \in 1..Len(pushed[s]) : pushed[s][i][1] = p}

(* Of every producer, a session is offered each message sent since it was   *)
(* added, once and in the order they were sent, whatever other producers    *)
(* interleave and however many sessions come and go.                        *)
NoneSkipped ==
  \A s \in Registered, p \in Producers :
    LET due == sent[p] - (IF s \in todo[p] THEN 1 ELSE 0)
    IN  /\ {pushed[s][i][2] : i \in Offered(s, p)} = (joined[s][p] + 1)..due
        /\ \A i, j \in Offered(s, p) : i < j => pushed[s][i][2] < pushed[s][j][2]

(* Isolation, broadcast.go:11: with another session wedged, Send returns    *)
(* and a responsive session handles what it was offered, unless the message *)
(* was dropped from its queue or it left.                                  *)
SendAlwaysReturns == \A p \in Producers : p \in sending ~> p \notin sending

Isolation ==
  \A s \in Responsive, n \in 1..MapThenSumSet(LAMBDA p : MaxSends[p], Producers) :
    Len(pushed[s]) >= n ~> \/ \E i \in 1..Len(handled[s]) : handled[s][i] = n
                           \/ drops[s] > 0
                           \/ Ended(s)

(* Remove, broadcast.go:93: the pump of a removed session exits, parked on  *)
(* an empty queue or inside Sender.Send though it was.                      *)
RemovedPumpExits == \A s \in Sessions : Ended(s) ~> pump[s] = "exited"

(* Every variable has its type, and every message that a session was       *)
(* offered is accounted for: DropsAccounted.                               *)
QueuesSound == TypeOK /\ DropsAccounted

-----------------------------------------------------------------------------
(* Each session's queue implements LossyFifo: what its pump has in hand    *)
(* and what it has queued are the pending messages.                        *)
SessionFeeds == INSTANCE LossyFifo WITH
  Consumers <- Sessions,
  offered <- [s \in Sessions |-> Len(pushed[s])],
  pending <- [s \in Sessions |-> handing[s] \o queue[s]],
  received <- handled, lost <- drops, discarded <- discarded,
  open <- [s \in Sessions |-> phase[s] # "stopped"]

(* Per session, messages are delivered in the order offered, at most once,  *)
(* and every loss is counted; after stop only the one in hand may follow.   *)
QueuesAreLossyFifos == SessionFeeds!Spec
=============================================================================
