------------------------------ MODULE Delivery ------------------------------
(***************************************************************************)
(* From a triggered alert to its destinations, and the end of the process. *)
(*                                                                         *)
(* The alert check and the handlers of the inbound webhook are producers:  *)
(* for each alert they visit the registered destinations in order and      *)
(* queue it there or, the queue being full, drop it.  Each destination has *)
(* one pump, which asks the destination's limiter and then delivers with a *)
(* deadline.  When the program is told to stop it cancels its context,     *)
(* shuts the HTTP surface, and waits a bounded time for the queues to      *)
(* drain.                                                                  *)
(*                                                                         *)
(* An alert is named, at each destination, by the order in which it was    *)
(* offered there.  Time passes in Tick: a Notify has NotifyTimeout ticks,  *)
(* Flush has FlushTimeout.                                                 *)
(***************************************************************************)
EXTENDS AlertHistory, ReadAPI, Integers, FiniteSets, FiniteSetsExt

CONSTANTS
  Checker,         \* the observer pump that calls Engine.Check
  Handlers,        \* HTTP requests that can be in hand at once
  Self, Other,     \* this process, and one that shares the history file
  Destinations,    \* the kinds of notifier that some configuration registers
  Configs,         \* the configurations considered
  Requests,        \* the webhook requests considered
  QueueDepth,      \* notifierQueueDepth
  NotifyTimeout,   \* notifyTimeout, in ticks
  FlushTimeout,    \* alertFlushTimeout, in ticks
  MaxAlerts,       \* bound: alerts offered to a destination
  MaxRequests,     \* bound: webhook requests accepted or counted as rejected
  MaxShared        \* bound: lines the other process appends

Producers == {Checker} \cup Handlers

VARIABLES
  conf,          \* flags and configuration, fixed at the start
  queue,         \* each destination's channel
  delivering,    \* what each pump has in hand: [n, posts still to make]
  left,          \* ticks until the deadline of the current Notify
  inflight,      \* Engine.inflight
  notifyDrops,   \* Engine.notifyDrops
  todo,          \* destinations each producer has yet to visit
  counted,       \* the producer has added to inflight and not yet queued
  offered,       \* alerts offered to each destination
  taken,         \* what each pump took from its queue, in order
  overflowed,    \* alerts lost to a full queue, by destination
  limited,       \* alerts lost to the limiter, by destination
  hooks,         \* [accepted, rejected] requests of the webhook
  phase,         \* how far the end of the process has come
  flushLeft,     \* ticks until Flush gives up
  mark           \* what had been offered when Flush began

queueVars == <<queue, delivering, left, taken>>
engineVars == <<inflight, notifyDrops>>
producerVars == <<todo, counted, offered>>
lossVars == <<overflowed, limited>>
endVars == <<phase, flushLeft, mark>>
vars == <<conf, queueVars, engineVars, producerVars, lossVars, hooks, endVars,
          historyVars>>

History == "history"
Kinds == {"desktop", "webhook", "ntfy", "pushover", History}

(* registerNotifiers, then the history notifier, which no flag removes.    *)
Registered(c) ==
  LET notifyOn == ~c.noNotify /\ c.notifications
      on == [ k \in Kinds |->
                CASE k = "desktop" -> notifyOn /\ ~c.noDesktopNotify /\
                                      (IF c.desktopNotify = "unset" THEN ~c.serveMode
                                       ELSE c.desktopNotify = "on")
                  [] k = "webhook" -> notifyOn /\ (c.webhookURL \/ c.ruleWebhooks > 0)
                  [] k = "ntfy" -> notifyOn /\ c.ntfyTopic
                  [] k = "pushover" -> notifyOn /\ c.pushover
                  [] k = History -> TRUE ]
  IN SelectSeq(<<"desktop", "webhook", "ntfy", "pushover", History>>, LAMBDA k : on[k])

ASSUME DestinationsAssumption ==
  /\ Destinations \subseteq Kinds
  /\ History \in Destinations
  /\ \A c \in Configs : /\ Registered(c) \in Seq(Destinations)
                        /\ c.ruleWebhooks \in Nat

ASSUME DeliveryAssumption ==
  /\ IsFiniteSet(Handlers) /\ Checker \notin Handlers
  /\ Self \in Processes /\ Other \in Processes /\ Self # Other
  /\ QueueDepth \in Nat \ {0}
  /\ NotifyTimeout \in Nat /\ FlushTimeout \in Nat

(* The posts of one Notify: a rule's own webhooks, or else the default URL. *)
Posts(d) ==
  IF d = "webhook" THEN {c \in {conf.ruleWebhooks} : c > 0} \cup
                        {IF conf.webhookURL THEN 1 ELSE 0}
  ELSE {1}

Idle == [n |-> 0, posts |-> 0]
Busy(d) == delivering[d] # Idle
Running == phase # "exited"

Init ==
  /\ conf \in {c \in Configs : Starts(c.opts)}
  /\ queue = [d \in Destinations |-> <<>>]
  /\ delivering = [d \in Destinations |-> Idle]
  /\ left = [d \in Destinations |-> 0]
  /\ inflight = 0
  /\ notifyDrops = 0
  /\ todo = [p \in Producers |-> <<>>]
  /\ counted = [p \in Producers |-> FALSE]
  /\ offered = [d \in Destinations |-> 0]
  /\ taken = [d \in Destinations |-> <<>>]
  /\ overflowed = [d \in Destinations |-> 0]
  /\ limited = [d \in Destinations |-> 0]
  /\ hooks = [accepted |-> 0, rejected |-> 0]
  /\ phase = "running"
  /\ flushLeft = FlushTimeout
  /\ mark = [d \in Destinations |-> 0]
  /\ HistoryInit

-----------------------------------------------------------------------------
(* Producers *)

Promised(p) == Len(SelectSeq(todo[p], LAMBDA d : d = History))

Room(k) == offered[History] + SumFunction([p \in Producers |-> Promised(p)]) + k <= MaxAlerts

(* One pass over the rules triggers one or two of them; all destinations   *)
(* are visited for the first before the second.                            *)
Check(k) ==
  /\ Running
  /\ todo[Checker] = <<>>
  /\ Room(k)
  /\ todo' = [todo EXCEPT ![Checker] =
                IF k = 1 THEN Registered(conf) ELSE Registered(conf) \o Registered(conf)]
  /\ UNCHANGED <<conf, queueVars, engineVars, counted, offered, lossVars, hooks,
                 endVars, historyVars>>

(* handleTradingView: the first check that fails answers; else Inject.     *)
(* Whether the limiter of the route lets a request through is left open.   *)
Serve(h, req) ==
  /\ phase = "running"
  /\ Serves(conf.opts)
  /\ conf.opts.enableWebhook
  /\ todo[h] = <<>>
  /\ hooks.accepted + hooks.rejected < MaxRequests
  /\ \E allowed \in BOOLEAN :
       LET status == FirstFailure(WebhookChecks(conf.opts, req, allowed, TRUE))
       IN
         /\ status = 200 => Room(1)
         /\ todo' = [todo EXCEPT ![h] = IF status = 200 THEN Registered(conf) ELSE <<>>]
         /\ hooks' = IF status \in CountedRejections
                     THEN [hooks EXCEPT !.rejected = @ + 1] ELSE hooks
  /\ UNCHANGED <<conf, queueVars, engineVars, counted, offered, lossVars, endVars, historyVars>>

(* notifierSink.send: count first, then queue or drop. *)
CountIn(p) ==
  /\ Running
  /\ todo[p] # <<>>
  /\ ~counted[p]
  /\ counted' = [counted EXCEPT ![p] = TRUE]
  /\ inflight' = inflight + 1
  /\ UNCHANGED <<conf, queueVars, notifyDrops, todo, offered, lossVars, hooks,
                 endVars, historyVars>>

\* QueueOrDrop, leaving a dropped alert on the count
SlipQueueOrDropStillCounted(d) ==
  IF Len(queue[d]) < QueueDepth
  THEN /\ queue' = [queue EXCEPT ![d] = Append(@, offered[d] + 1)]
       /\ UNCHANGED <<engineVars, overflowed>>
  ELSE /\ notifyDrops' = notifyDrops + 1
       /\ overflowed' = [overflowed EXCEPT ![d] = @ + 1]
       /\ UNCHANGED <<inflight, queue>>

\* QueueOrDrop, overwriting the oldest
SlipQueueOrDropOverwrites(d) ==
  IF Len(queue[d]) < QueueDepth
  THEN /\ queue' = [queue EXCEPT ![d] = Append(@, offered[d] + 1)]
       /\ UNCHANGED <<engineVars, overflowed>>
  ELSE /\ queue' = [queue EXCEPT ![d] = Append(Tail(@), offered[d] + 1)]
       /\ UNCHANGED <<engineVars, overflowed>>

QueueOrDrop(d) ==
  IF Len(queue[d]) < QueueDepth
  THEN /\ queue' = [queue EXCEPT ![d] = Append(@, offered[d] + 1)]
       /\ UNCHANGED <<engineVars, overflowed>>
  ELSE /\ inflight' = inflight - 1
       /\ notifyDrops' = notifyDrops + 1
       /\ overflowed' = [overflowed EXCEPT ![d] = @ + 1]
       /\ UNCHANGED queue

Send(p) ==
  LET d == Head(todo[p]) IN
  /\ Running
  /\ counted[p]
  /\ QueueOrDrop(d)
  /\ offered' = [offered EXCEPT ![d] = @ + 1]
  /\ counted' = [counted EXCEPT ![p] = FALSE]
  /\ todo' = [todo EXCEPT ![p] = Tail(@)]
  /\ hooks' = IF p \in Handlers /\ Len(todo[p]) = 1
              THEN [hooks EXCEPT !.accepted = @ + 1] ELSE hooks
  /\ UNCHANGED <<conf, delivering, left, taken, limited, endVars, historyVars>>

-----------------------------------------------------------------------------
(* The pump of one destination *)

(* An alert over the limiter's rate is dropped, one that finds no URL is   *)
(* done.  How fast alerts come is not modelled: the limiter may refuse any. *)
Take(d) ==
  /\ Running
  /\ ~Busy(d)
  /\ queue[d] # <<>>
  /\ queue' = [queue EXCEPT ![d] = Tail(@)]
  /\ taken' = [taken EXCEPT ![d] = Append(@, Head(queue[d]))]
  /\ \/ /\ delivering' = [delivering EXCEPT ![d] = [n |-> Head(queue[d]), posts |-> 0]]
        /\ notifyDrops' = notifyDrops + 1
        /\ limited' = [limited EXCEPT ![d] = @ + 1]
        /\ UNCHANGED left
     \/ /\ \E k \in Posts(d) :
             delivering' = [delivering EXCEPT ![d] = [n |-> Head(queue[d]), posts |-> k]]
        /\ left' = [left EXCEPT ![d] = IF d = History THEN 0 ELSE NotifyTimeout]
        /\ UNCHANGED <<notifyDrops, limited>>
  /\ UNCHANGED <<conf, inflight, producerVars, overflowed, hooks, endVars, historyVars>>

(* One URL answers, well or badly; the next is tried in any case. *)
Answer(d) ==
  /\ Running
  /\ d # History
  /\ delivering[d].posts > 0
  /\ delivering' = [delivering EXCEPT ![d].posts = @ - 1]
  /\ UNCHANGED <<conf, queue, left, taken, engineVars, producerVars, lossVars,
                 hooks, endVars, historyVars>>

\* Deadline, for a context that never ends
SlipDeadlineNever(d) == FALSE

(* The deadline is one for all the URLs of a Notify: past it they all fail. *)
Deadline(d) ==
  /\ Running
  /\ d # History
  /\ delivering[d].posts > 0
  /\ left[d] = 0
  /\ delivering' = [delivering EXCEPT ![d].posts = 0]
  /\ UNCHANGED <<conf, queue, left, taken, engineVars, producerVars, lossVars,
                 hooks, endVars, historyVars>>

(* Only after the delivery is the alert taken off the count. *)
Settle(d) ==
  /\ Running
  /\ Busy(d)
  /\ delivering[d].posts = 0
  /\ delivering' = [delivering EXCEPT ![d] = Idle]
  /\ inflight' = inflight - 1
  /\ left' = [left EXCEPT ![d] = 0]
  /\ UNCHANGED <<conf, queue, taken, notifyDrops, producerVars, lossVars,
                 hooks, endVars, historyVars>>

(* HistoryNotifier.Notify is an Append and knows no deadline. *)
HistoryNotify ==
  /\ Running
  /\ delivering[History].posts > 0
  /\ \/ Open(Self, delivering[History].n) /\ UNCHANGED delivering
     \/ /\ Write(Self) \/ AppendFails(Self) \/ Compact(Self)
        /\ delivering' = IF at'[Self] = "idle"
                         THEN [delivering EXCEPT ![History].posts = 0] ELSE delivering
  /\ UNCHANGED <<conf, queue, left, taken, engineVars, producerVars, lossVars,
                 hooks, endVars>>

WrittenHere == {i \in 1..Len(written) : written[i] > 0}
WrittenThere == {i \in 1..Len(written) : written[i] < 0}

(* The other process appends its own alerts, -1, -2, ..., or ends at any   *)
(* point.                                                                  *)
Shared ==
  /\ conf.shared
  /\ \/ /\ Cardinality(WrittenThere) < MaxShared
        /\ Open(Other, -1 - Cardinality(WrittenThere))
     \/ Write(Other) \/ AppendFails(Other)
     \/ Compact(Other)
     \/ at[Other] # "idle" /\ Die(Other)
  /\ UNCHANGED <<conf, queueVars, engineVars, producerVars, lossVars, hooks,
                 endVars>>

-----------------------------------------------------------------------------
(* Time, and the end of the process *)

Flushing == phase = "flushing"
Expired(d) == d # History /\ delivering[d].posts > 0 /\ left[d] = 0

(* Deadlines are met promptly: time stands still while one is due. *)
Tick ==
  /\ Running
  /\ ~ \E d \in Destinations : Expired(d)
  /\ Flushing => flushLeft > 0
  /\ Flushing \/ \E d \in Destinations : Busy(d) /\ left[d] > 0
  /\ left' = [d \in Destinations |-> IF left[d] > 0 THEN left[d] - 1 ELSE 0]
  /\ flushLeft' = IF Flushing THEN flushLeft - 1 ELSE flushLeft
  /\ UNCHANGED <<conf, queue, delivering, taken, engineVars, producerVars, lossVars,
                 hooks, phase, mark, historyVars>>

(* A signal, or the user's quit: every command cancels its context and     *)
(* shuts the HTTP surface, which admits no further request and waits for   *)
(* those in hand.                                                          *)
Stop ==
  /\ phase = "running"
  /\ phase' = "draining"
  /\ UNCHANGED <<conf, queueVars, engineVars, producerVars, lossVars, hooks,
                 flushLeft, mark, historyVars>>

StartFlush ==
  /\ phase = "draining"
  /\ \A h \in Handlers : todo[h] = <<>>
  /\ phase' = "flushing"
  /\ mark' = offered
  /\ UNCHANGED <<conf, queueVars, engineVars, producerVars, lossVars, hooks,
                 flushLeft, historyVars>>

\* FlushDone, looking at the queues and not at what the pumps have in hand
SlipFlushDoneQueuesEmpty ==
  /\ Flushing
  /\ \A d \in Destinations : queue[d] = <<>>
  /\ phase' = "drained"
  /\ UNCHANGED <<conf, queueVars, engineVars, producerVars, lossVars, hooks,
                 flushLeft, mark, historyVars>>

(* Flush reads inflight, then the clock; after it the process is gone. *)
FlushDone ==
  /\ Flushing
  /\ inflight = 0
  /\ phase' = "drained"
  /\ UNCHANGED <<conf, queueVars, engineVars, producerVars, lossVars, hooks,
                 flushLeft, mark, historyVars>>

FlushGivesUp ==
  /\ Flushing
  /\ inflight # 0
  /\ flushLeft = 0
  /\ phase' = "gave up"
  /\ UNCHANGED <<conf, queueVars, engineVars, producerVars, lossVars, hooks,
                 flushLeft, mark, historyVars>>

Exit ==
  /\ phase \in {"drained", "gave up"}
  /\ phase' = "exited"
  /\ Die(Self)
  /\ UNCHANGED <<conf, queueVars, engineVars, producerVars, lossVars, hooks,
                 flushLeft, mark>>

Produce ==
  \/ \E k \in 1..2 : Check(k)
  \/ \E h \in Handlers, req \in Requests : Serve(h, req)
  \/ \E p \in Producers : CountIn(p) \/ Send(p)
Pump(d) == Take(d) \/ Answer(d) \/ Deadline(d) \/ Settle(d)
End == Stop \/ StartFlush \/ FlushDone \/ FlushGivesUp \/ Exit

Next ==
  \/ Produce
  \/ \E d \in Destinations : Pump(d)
  \/ HistoryNotify
  \/ Shared
  \/ Tick
  \/ End

Spec == Init /\ [][Next]_vars

(* Goroutines that can run do: producers in the middle of their sends, the *)
(* pumps, the append of a line, and the deferred calls once the program is *)
(* told to stop.  That a destination ever answers is not assumed, nor that *)
(* the program is ever told to stop, nor anything of the other process.    *)
Fairness ==
  /\ \A p \in Producers : WF_vars(CountIn(p) \/ Send(p))
  /\ \A d \in Destinations : WF_vars(Take(d) \/ Deadline(d) \/ Settle(d))
  /\ WF_vars(HistoryNotify)
  /\ WF_vars(Tick)
  /\ WF_vars(StartFlush \/ FlushDone \/ FlushGivesUp \/ Exit)

FairSpec == Spec /\ Fairness

-----------------------------------------------------------------------------

InHand == [n : Nat \ {0}, posts : Nat]

TypeOK ==
  /\ conf \in Configs
  /\ queue \in [Destinations -> Seq(Nat \ {0})]
  /\ \A d \in Destinations : Len(queue[d]) <= QueueDepth
  /\ delivering \in [Destinations -> InHand \cup {Idle}]
  /\ left \in [Destinations -> Nat]
  /\ taken \in [Destinations -> Seq(Nat \ {0})]
  /\ inflight \in Nat
  /\ notifyDrops \in Nat
  /\ todo \in [Producers -> Seq(Destinations)]
  /\ counted \in [Producers -> BOOLEAN]
  /\ offered \in [Destinations -> Nat]
  /\ overflowed \in [Destinations -> Nat]
  /\ limited \in [Destinations -> Nat]
  /\ hooks \in [accepted : Nat, rejected : Nat]
  /\ phase \in {"running", "draining", "flushing", "drained", "gave up", "exited"}
  /\ flushLeft \in Nat
  /\ mark \in [Destinations -> Nat]

(* A function's values added up, by naming what they count one by one. *)
Units(f) == UNION {{d} \X (1..f[d]) : d \in DOMAIN f}
Total(f) == Cardinality(Units(f))

Held == [d \in Destinations |-> Len(queue[d]) + (IF Busy(d) THEN 1 ELSE 0)]
Lost == [d \in Destinations |-> overflowed[d] + limited[d]]

(* inflight counts what is queued, in hand, or about to be queued: never   *)
(* less, or Flush would return too early, and never more, or it would      *)
(* never return.                                                           *)
InflightExact == inflight = Total(Held) + Cardinality({p \in Producers : counted[p]})

(* Every alert lost to a queue or a limiter is in notifyDrops, once. *)
DropsExact == notifyDrops = Total(Lost)

(* However the flags and the token are combined, an alert enters from the  *)
(* outside only through a surface that asks for a token.                   *)
NeverUnauthenticated ==
  (hooks.accepted > 0 \/ \E h \in Handlers : todo[h] # <<>>) => conf.opts.token # NoToken

DeliveryInv == TypeOK /\ InflightExact /\ DropsExact /\ NeverUnauthenticated

(* The appends of this process that are over. *)
Appended == Cardinality(WrittenHere) + failed[Self]

(* When Flush says that the queues drained, everything offered before it   *)
(* was called has been delivered or counted as dropped, at every           *)
(* destination; what the history took is in the file by then, or its       *)
(* append failed.                                                          *)
FlushSettles ==
  phase = "drained" =>
    /\ \A d \in Destinations :
         /\ \A i \in 1..Len(queue[d]) : queue[d][i] > mark[d]
         /\ Busy(d) => delivering[d].n > mark[d]
    /\ Appended >= mark[History] - overflowed[History] - limited[History]

(* A queued alert is delivered or dropped although no destination need     *)
(* ever answer: a wedged one holds back only itself, a deadline at a time. *)
DeliveryProgress ==
  /\ \A d \in Destinations :
       (queue[d] # <<>> \/ Busy(d)) ~> ((queue[d] = <<>> /\ ~Busy(d)) \/ ~Running)
  /\ phase = "draining" ~> phase = "exited"

-----------------------------------------------------------------------------
(* Each destination's queue implements LossyFifo: the pump is its          *)
(* consumer, and the alert that a full queue loses is the new one.  The    *)
(* end of the process takes nothing from a queue: it is never closed.      *)
DestinationFeeds == INSTANCE LossyFifo WITH
  Consumers <- Destinations,
  offered <- offered, pending <- queue, received <- taken, lost <- overflowed,
  discarded <- [d \in Destinations |-> 0],
  open <- [d \in Destinations |-> TRUE]

(* Each destination gets the alerts in the order in which they were sent   *)
(* to it, each at most once, and every one that its queue loses is counted. *)
DestinationsAreLossyFifos == DestinationFeeds!Spec
=============================================================================
