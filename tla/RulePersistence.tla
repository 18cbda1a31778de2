-------------------------- MODULE RulePersistence --------------------------
(***************************************************************************)
(* How an edit of the alert rules reaches config.yaml.  Every dashboard    *)
(* session is a goroutine that handles one key or mouse event at a time    *)
(* (internal/tui/alerts/model.go): it takes a copy of the rules, decides   *)
(* by it, and edits the engine by index.  The engine hands the new rules   *)
(* to the backend's callback once it has released its lock; the callback   *)
(* leaves them in a channel of capacity 1, whatever was there, and one     *)
(* goroutine saves what it finds there when no edit has come for two       *)
(* seconds (cmd/backend.go, startAlertPersistence).                        *)
(*                                                                         *)
(* A rule is who it is and whether it is on.  SaveSafely is one step here, *)
(* with the outcomes it can have.                                          *)
(***************************************************************************)
EXTENDS Integers, Sequences, SequencesExt

CONSTANTS
  Sessions,
  InitialRules,  \* what the configuration holds at startup
  Events,        \* the key presses and mouse events there can be
  MaxRules,      \* bounds of the model: rules there ever are,
  MaxEdits       \* and edits in a behaviour

Rule == [id : 1..MaxRules, on : BOOLEAN]

Keys == {"y", "j", "k", "t", "d", "other"}
Mouse == {"wheel up", "wheel down", "click"}
InCallback == {"offer", "drain"}
None == -1

ASSUME PersistenceAssumption ==
  /\ InitialRules \in Seq(Rule)
  /\ Events \subseteq Keys \cup Mouse
  /\ MaxRules \in Nat /\ Len(InitialRules) <= MaxRules
  /\ \A i \in DOMAIN InitialRules : InitialRules[i].id = i
  /\ MaxEdits \in Nat

VARIABLES
  rules,      \* e.rules
  known,      \* how many rules there have been
  edits,      \* how often the rules have been changed
  cursor,     \* of each session: Model.cursor,
  confirm,    \* Model.confirmDelete,
  at,         \* where its goroutine is: idle, handling an event, or in the callback,
  seen,       \* the copy of the rules its handler works on,
  snapshot,   \* and the rules it hands to the callback
  asked,      \* the rule it was asked about, 0 if the index means another by now
  pending,    \* the channel
  latest,     \* the locals of the persistence goroutine: what to save,
  armed,      \* whether a save is due,
  timer,      \* its timer: "off", "running" or "fired",
  saver,      \* and where it is, "off" if it was never started
  writable,   \* b.writable
  file,       \* the rules in config.yaml
  cancelled,  \* whether ctx is done
  alive,      \* whether the process still runs
  lastSent,   \* the rules that were put in the channel last
  late,       \* whether any were when the goroutine no longer looked
  overlapped  \* whether the last edit was made while another was in the callback

engineVars == <<rules, known, edits>>
viewVars == <<cursor, confirm, asked>>
saverVars == <<latest, armed, timer, saver, writable, file>>
sentVars == <<pending, lastSent, late>>
persistenceVars == <<engineVars, viewVars, at, seen, snapshot, sentVars, saverVars,
          cancelled, alive, overlapped>>

PersistenceInit ==
  /\ rules = InitialRules
  /\ known = Len(InitialRules)
  /\ edits = 0
  /\ cursor = [s \in Sessions |-> 0]
  /\ confirm = [s \in Sessions |-> None]
  /\ at = [s \in Sessions |-> "idle"]
  /\ seen = [s \in Sessions |-> <<>>]
  /\ snapshot = [s \in Sessions |-> <<>>]
  /\ asked = [s \in Sessions |-> 0]
  /\ pending = <<>>
  /\ latest = <<>>
  /\ armed = FALSE
  /\ timer = "off"
  /\ writable \in BOOLEAN
  /\ saver \in {"off"} \cup IF writable THEN {"select"} ELSE {}
  /\ file = InitialRules
  /\ cancelled = FALSE
  /\ alive = TRUE
  /\ lastSent = InitialRules
  /\ late = FALSE
  /\ overlapped = FALSE

-----------------------------------------------------------------------------
(* Slips: the definition named in the comment, with one plausible bug.     *)

\* Doomed, the rule under the cursor
SlipDoomedUnderCursor(s) == cursor[s]

\* Drain, which waits for the goroutine to make room
SlipDrainWaits(s) ==
  /\ alive
  /\ at[s] = "drain"
  /\ pending = <<>>
  /\ at' = [at EXCEPT ![s] = "offer"]
  /\ UNCHANGED <<engineVars, viewVars, seen, snapshot, sentVars, saverVars,
                 cancelled, alive, overlapped>>

\* Shutdown, without a look at the channel
SlipShutdownLeavesPending ==
  /\ alive
  /\ saver = "select"
  /\ cancelled
  /\ saver' = IF armed THEN "last save" ELSE "exited"
  /\ UNCHANGED <<engineVars, viewVars, at, seen, snapshot, sentVars, latest, armed, timer,
                 writable, file, cancelled, alive, overlapped>>

\* TakeEdit, which starts the timer for the first edit of a burst only
SlipTakeEditKeepsTimer ==
  /\ alive
  /\ saver = "select"
  /\ pending # <<>>
  /\ latest' = Head(pending)
  /\ pending' = <<>>
  /\ timer' = IF armed THEN "off" ELSE "running"
  /\ armed' = TRUE
  /\ UNCHANGED <<engineVars, viewVars, at, seen, snapshot, lastSent, late, saver,
                 writable, file, cancelled, alive, overlapped>>

-----------------------------------------------------------------------------
(* The engine's edits, by session s.  Indices count from 0, as in the code.*)

(* The rules become new; the lock is released and s enters the callback,   *)
(* if one was set.                                                         *)
Edit(s, new) ==
  /\ edits < MaxEdits
  /\ edits' = edits + 1
  /\ rules' = new
  /\ IF saver = "off"
     THEN at' = [at EXCEPT ![s] = "idle"] /\ UNCHANGED <<snapshot, overlapped>>
     ELSE /\ snapshot' = [snapshot EXCEPT ![s] = new]
          /\ at' = [at EXCEPT ![s] = "offer"]
          /\ overlapped' = \E t \in Sessions \ {s} : at[t] \in InCallback

(* An index the engine does not have changes nothing and calls nobody.     *)
Ignore(s) ==
  /\ at' = [at EXCEPT ![s] = "idle"]
  /\ UNCHANGED <<rules, edits, snapshot, overlapped>>

AddRule(s) ==
  /\ alive
  /\ at[s] = "idle"
  /\ known < MaxRules
  /\ known' = known + 1
  /\ Edit(s, Append(rules, [id |-> known + 1, on |-> TRUE]))
  /\ UNCHANGED <<viewVars, seen, sentVars, saverVars, cancelled, alive>>

-----------------------------------------------------------------------------
(* Update: an event arrives and the handler copies the rules ...           *)

Press(s, event) ==
  /\ alive
  /\ at[s] = "idle"
  /\ edits < MaxEdits
  /\ at' = [at EXCEPT ![s] = event]
  /\ seen' = [seen EXCEPT ![s] = rules]
  /\ UNCHANGED <<engineVars, viewVars, snapshot, sentVars, saverVars,
                 cancelled, alive, overlapped>>

(* ... and acts.  A key while a deletion is to be confirmed answers that.  *)
Handling(s, events) ==
  /\ alive
  /\ at[s] \in events
  /\ seen' = [seen EXCEPT ![s] = <<>>]
  /\ UNCHANGED <<known, sentVars, saverVars, cancelled, alive>>

Answering(s) == at[s] \in Keys /\ confirm[s] # None
Confirmed(s) == at[s] = "y" /\ confirm[s] < Len(seen[s])
Doomed(s) == confirm[s]
Above(c) == IF c > 0 THEN c - 1 ELSE 0

(* Whoever is asked about a rule at or behind a removed one is now asked   *)
(* about another.                                                          *)
Shifted(s, i) ==
  [t \in Sessions |-> IF t = s \/ confirm[t] >= i THEN 0 ELSE asked[t]]

ConfirmDelete(s) ==
  /\ Handling(s, Keys)
  /\ Answering(s) /\ Confirmed(s)
  /\ IF Doomed(s) < Len(rules)
     THEN Edit(s, RemoveAt(rules, Doomed(s) + 1)) /\ asked' = Shifted(s, Doomed(s))
     ELSE Ignore(s) /\ asked' = [asked EXCEPT ![s] = 0]
  /\ cursor' = [cursor EXCEPT ![s] = IF @ >= Len(seen[s]) - 1 THEN Above(@) ELSE @]
  /\ confirm' = [confirm EXCEPT ![s] = None]

CancelDelete(s) ==
  /\ Handling(s, Keys)
  /\ Answering(s) /\ ~Confirmed(s)
  /\ Ignore(s)
  /\ confirm' = [confirm EXCEPT ![s] = None]
  /\ asked' = [asked EXCEPT ![s] = 0]
  /\ UNCHANGED cursor

(* The question names the rule of the handler's copy.                      *)
AskDelete(s) ==
  /\ Handling(s, {"d"})
  /\ ~Answering(s)
  /\ Ignore(s)
  /\ IF cursor[s] < Len(seen[s])
     THEN LET i == cursor[s] + 1
          IN  /\ confirm' = [confirm EXCEPT ![s] = cursor[s]]
              /\ asked' = [asked EXCEPT ![s] =
                             IF i \in DOMAIN rules /\ rules[i].id = seen[s][i].id
                             THEN rules[i].id ELSE 0]
     ELSE UNCHANGED <<confirm, asked>>
  /\ UNCHANGED cursor

Toggle(s) ==
  /\ Handling(s, {"t"})
  /\ ~Answering(s)
  /\ IF cursor[s] < Len(rules)
     THEN Edit(s, [rules EXCEPT ![cursor[s] + 1].on = ~@])
     ELSE Ignore(s)
  /\ UNCHANGED viewVars

(* Where an event can put the cursor: a click on any row that is shown.    *)
Targets(s) ==
  LET c == cursor[s]
      last == Len(seen[s]) - 1
  IN  CASE at[s] \in {"j", "wheel down"} -> {IF c < last THEN c + 1 ELSE c}
        [] at[s] \in {"k", "wheel up"} -> {Above(c)}
        [] at[s] = "click" -> {c} \cup 0..last
        [] OTHER -> {c}

Move(s) ==
  /\ Handling(s, {"j", "k", "y", "other"} \cup Mouse)
  /\ ~Answering(s)
  /\ Ignore(s)
  /\ \E c \in Targets(s) : cursor' = [cursor EXCEPT ![s] = c]
  /\ UNCHANGED <<confirm, asked>>

-----------------------------------------------------------------------------
(* The callback: send, or else make room and try again.                    *)

Offer(s) ==
  /\ alive
  /\ at[s] = "offer"
  /\ IF pending = <<>>
     THEN /\ pending' = <<snapshot[s]>>
          /\ lastSent' = snapshot[s]
          /\ late' = (late \/ saver \in {"last save", "exited"})
          /\ at' = [at EXCEPT ![s] = "idle"]
          /\ snapshot' = [snapshot EXCEPT ![s] = <<>>]
     ELSE /\ at' = [at EXCEPT ![s] = "drain"]
          /\ UNCHANGED <<sentVars, snapshot>>
  /\ UNCHANGED <<engineVars, viewVars, seen, saverVars, cancelled, alive, overlapped>>

Drain(s) ==
  /\ alive
  /\ at[s] = "drain"
  /\ pending' = <<>>
  /\ at' = [at EXCEPT ![s] = "offer"]
  /\ UNCHANGED <<engineVars, viewVars, seen, snapshot, lastSent, late, saverVars,
                 cancelled, alive, overlapped>>

-----------------------------------------------------------------------------
(* The persistence goroutine.                                              *)

TakeEdit ==
  /\ alive
  /\ saver = "select"
  /\ pending # <<>>
  /\ latest' = Head(pending)
  /\ pending' = <<>>
  /\ timer' = "running"
  /\ armed' = TRUE
  /\ UNCHANGED <<engineVars, viewVars, at, seen, snapshot, lastSent, late, saver,
                 writable, file, cancelled, alive, overlapped>>

Expire ==
  /\ alive
  /\ timer = "running"
  /\ timer' = "fired"
  /\ UNCHANGED <<engineVars, viewVars, at, seen, snapshot, sentVars, latest, armed, saver,
                 writable, file, cancelled, alive, overlapped>>

SaveDue ==
  /\ alive
  /\ saver = "select"
  /\ timer = "fired"
  /\ timer' = "off"
  /\ armed' = FALSE
  /\ saver' = "save"
  /\ UNCHANGED <<engineVars, viewVars, at, seen, snapshot, sentVars, latest,
                 writable, file, cancelled, alive, overlapped>>

(* The context is done: what the last edit left behind is saved as well.   *)
Shutdown ==
  /\ alive
  /\ saver = "select"
  /\ cancelled
  /\ pending' = <<>>
  /\ latest' = IF pending = <<>> THEN latest ELSE Head(pending)
  /\ armed' = (armed \/ pending # <<>>)
  /\ saver' = IF armed' THEN "last save" ELSE "exited"
  /\ UNCHANGED <<engineVars, viewVars, at, seen, snapshot, lastSent, late, timer,
                 writable, file, cancelled, alive, overlapped>>

(* persistRules: SaveSafely writes the file or refuses, once and for all.  *)
Persist ==
  /\ alive
  /\ saver \in {"save", "last save"}
  /\ saver' = IF saver = "save" THEN "select" ELSE "exited"
  /\ \/ writable /\ file' = latest /\ UNCHANGED writable
     \/ writable /\ writable' = FALSE /\ UNCHANGED file
     \/ ~writable /\ UNCHANGED <<file, writable>>
  /\ UNCHANGED <<engineVars, viewVars, at, seen, snapshot, sentVars, latest, armed, timer,
                 cancelled, alive, overlapped>>

-----------------------------------------------------------------------------
(* The program is left: the command cancels the context and returns, and   *)
(* does not wait for this goroutine: what is in memory is gone.            *)

Cancel ==
  /\ alive
  /\ ~cancelled
  /\ cancelled' = TRUE
  /\ UNCHANGED <<engineVars, viewVars, at, seen, snapshot, sentVars, saverVars,
                 alive, overlapped>>

Return ==
  /\ alive
  /\ cancelled
  /\ alive' = FALSE
  /\ at' = [s \in Sessions |-> "idle"]
  /\ seen' = [s \in Sessions |-> <<>>]
  /\ snapshot' = [s \in Sessions |-> <<>>]
  /\ cursor' = [s \in Sessions |-> 0]
  /\ confirm' = [s \in Sessions |-> None]
  /\ asked' = [s \in Sessions |-> 0]
  /\ rules' = <<>>
  /\ pending' = <<>>
  /\ latest' = <<>>
  /\ armed' = FALSE
  /\ timer' = "off"
  /\ saver' = "gone"
  /\ UNCHANGED <<known, edits, lastSent, late, writable, file, cancelled, overlapped>>

Callback(s) == Offer(s) \/ Drain(s)
Handle(s) ==
  ConfirmDelete(s) \/ CancelDelete(s) \/ AskDelete(s) \/ Toggle(s) \/ Move(s)
Save == TakeEdit \/ SaveDue \/ Shutdown \/ Persist

PersistenceNext ==
  \/ \E s \in Sessions :
       \/ AddRule(s)
       \/ \E event \in Events : Press(s, event)
       \/ Handle(s)
       \/ Callback(s)
  \/ Save \/ Expire
  \/ Cancel \/ Return

(* Goroutines that can run do, and timers fire.                            *)
Fairness ==
  /\ \A s \in Sessions : WF_persistenceVars(Callback(s))
  /\ WF_persistenceVars(Save)
  /\ WF_persistenceVars(Expire)

PersistenceSpec == PersistenceInit /\ [][PersistenceNext]_persistenceVars /\ Fairness

-----------------------------------------------------------------------------
(* Properties.                                                             *)

EngineTypeOK ==
  /\ rules \in Seq(Rule)
  /\ known \in 0..MaxRules
  /\ edits \in 0..MaxEdits

ViewTypeOK ==
  /\ cursor \in [Sessions -> Nat]
  /\ confirm \in [Sessions -> Nat \cup {None}]
  /\ asked \in [Sessions -> 0..MaxRules]

HandlerTypeOK ==
  /\ at \in [Sessions -> Keys \cup Mouse \cup InCallback \cup {"idle"}]
  /\ seen \in [Sessions -> Seq(Rule)]
  /\ snapshot \in [Sessions -> Seq(Rule)]

ChannelTypeOK ==
  /\ pending \in Seq(Seq(Rule)) /\ Len(pending) <= 1
  /\ lastSent \in Seq(Rule)
  /\ late \in BOOLEAN

SaverTypeOK ==
  /\ latest \in Seq(Rule)
  /\ armed \in BOOLEAN
  /\ timer \in {"off", "running", "fired"}
  /\ saver \in {"select", "save", "last save", "exited", "off", "gone"}
  /\ writable \in BOOLEAN
  /\ file \in Seq(Rule)

PersistenceTypeOK ==
  /\ EngineTypeOK /\ ViewTypeOK /\ HandlerTypeOK /\ ChannelTypeOK /\ SaverTypeOK
  /\ {cancelled, alive, overlapped} \subseteq BOOLEAN

(* Nothing is on its way to the file.                                      *)
Quiet == \A s \in Sessions : at[s] \notin InCallback

Settled ==
  /\ Quiet
  /\ \/ saver = "select" /\ pending = <<>> /\ ~armed
     \/ saver = "exited" /\ ~late

(* When nothing is on its way the file holds what was sent last, burst or  *)
(* shutdown notwithstanding; and that is the rules in force, unless the    *)
(* last edit was made while another was in the callback (which runs        *)
(* outside the engine's lock: of two that are, the older may come second). *)
(* Whatever such edits left in the file, the next one alone puts right.    *)
SettledMeansSaved ==
  Settled /\ writable =>
    /\ file = lastSent
    /\ ~overlapped => file = rules

(* A deletion is confirmed by index, against rules that other sessions     *)
(* change and a cursor that the mouse still moves: the rule that goes is   *)
(* the one the question named, unless another session removed it or one    *)
(* before it in the meantime.                                              *)
DeletesWhatWasAsked ==
  [][\A s \in Sessions :
       at[s] = "y" /\ at'[s] # "y" /\ edits' # edits /\ asked[s] # 0 =>
         \E i \in DOMAIN rules : rules[i].id = asked[s] /\ rules' = RemoveAt(rules, i)]_persistenceVars

(* The engine's callback must never block: a session that edits the rules  *)
(* gets its program back, with a saver that is busy or gone.               *)
EditorsReturn ==
  \A s \in Sessions : at[s] \in InCallback ~> at[s] = "idle" \/ ~alive

(* An edit is saved in the end, unless saving is off or the process ends.  *)
EditsReachFile ==
  (pending # <<>> \/ armed) /\ saver # "exited"
    ~> Settled \/ late \/ ~writable \/ ~alive

=============================================================================
