---------------------------- MODULE AlertEngine ----------------------------
(***************************************************************************)
(* The alert engine, internal/alert/engine.go: Check runs on the goroutine *)
(* of the hub's observer, one quote at a time, and holds e.mu while it     *)
(* walks the rules; dashboard sessions add, remove and toggle rules        *)
(* between two checks.  The quotes a check has to catch up with are the    *)
(* observer's queue (see Hub); the cache is already ahead of it.           *)
(*                                                                         *)
(* A rule is its content, which is what ruleKey derives its identity from, *)
(* and whether it is enabled.  The maps of per-rule state are total here:  *)
(* the value of a missing entry is 0, "unseen", Fresh or not a member, and *)
(* NoPrice where 0 would be an entry.                                      *)
(***************************************************************************)
EXTENDS AlertConditions, FiniteSets

CONSTANTS
  Symbols,
  Contents,      \* rule contents [symbol, match, conds]; match is "single",
                 \* "any", "all" or "sequence"
  InitialRules,  \* what SetRules may be given at startup: sequences of rules
  Addable,       \* contents the dashboard's dialog can add
  Quotes,        \* records [symbol, price, volume, close]; close is the
                 \* previous session's, 0 when the quote carries none
  Cooldown,      \* e.cooldown
  RingSize,      \* samples the cache keeps of a symbol
  MaxQuotes,     \* bounds of the model: quotes in a behaviour,
  MaxBacklog,    \* quotes waiting for Check,
  MaxClock,      \* the clock,
  MaxEdits       \* and changes of the rule set

ASSUME AlertAssumption ==
  /\ Contents \subseteq
       [symbol : Symbols, match : {"single", "any", "all", "sequence"},
        conds : Seq([type : ConditionTypes, value : Int, period : Nat])]
  /\ Addable \subseteq Contents
  /\ InitialRules \subseteq Seq([content : Contents, enabled : BOOLEAN])
  /\ Quotes \subseteq [symbol : Symbols, price : Nat, volume : Nat, close : Nat]
  /\ Cooldown \in Nat \ {0}
  /\ RingSize \in Nat \ {0}
  /\ MaxClock \in Nat \ {0}
  /\ MaxQuotes \in Nat /\ MaxEdits \in Nat

VARIABLES
  clock,          \* e.now
  history,        \* the cache's series of each symbol (see Cache)
  arrived,        \* how many quotes have arrived
  backlog,        \* the observer's queue
  rules,          \* e.rules
  edits,          \* how often the rules have been changed
  cooldowns,      \* e.cooldowns: when a rule may alert again
  levelState,     \* e.levelState: "unseen", "clear" or "met"
  compoundState,  \* e.compoundState: sub-conditions met, and the next of a sequence
  warnedHistory,  \* e.warnedHistory
  refPrices,      \* e.refPrices: the first price seen, whatever it was
  sessionRefs,    \* e.sessionRefs, 0 when missing
  check,          \* the locals of the Check that holds e.mu
  reports,        \* the times Check found too little history for each rule
  log             \* and what each was evaluated to, both since it came to be one

rulesVars == <<rules, edits>>
memoryVars == <<cooldowns, levelState, compoundState, warnedHistory, reports, log>>
baseVars == <<refPrices, sessionRefs>>
feedVars == <<clock, history, arrived, backlog>>
vars == <<feedVars, rulesVars, memoryVars, baseVars, check>>

NoPrice == -1

NoCheck == [next |-> 0]
Unlocked == check.next = 0

Fresh == [met |-> {}, next |-> 1]

Init ==
  /\ clock = 1
  /\ history = [s \in Symbols |-> <<>>]
  /\ arrived = 0
  /\ backlog = <<>>
  /\ rules \in InitialRules
  /\ edits = 0
  /\ cooldowns = [k \in Contents |-> 0]
  /\ levelState = [k \in Contents |-> "unseen"]
  /\ compoundState = [k \in Contents |-> Fresh]
  /\ warnedHistory = {}
  /\ refPrices = [s \in Symbols |-> NoPrice]
  /\ sessionRefs = [s \in Symbols |-> 0]
  /\ check = NoCheck
  /\ reports = [k \in Contents |-> <<>>]
  /\ log = [k \in Contents |-> <<>>]

-----------------------------------------------------------------------------
(* Slips: the definition named in the comment, with one plausible bug.     *)

\* Rising, without the baseline of the first evaluation
SlipRisingUnseen(k) ==
  levelState[k] # "met" \/ ~(k.match = "any" \/ k.conds[1].type \in LevelConditions)

\* Progress, with the conditions of an "all" taken as they are now
SlipProgressUnlatched(k, holds) ==
  LET prog == compoundState[k]
  IN  CASE k.match = "all" -> [prog EXCEPT !.met = {i \in DOMAIN holds : holds[i]}]
        [] k.match = "sequence" /\ prog.next \in DOMAIN holds /\ holds[prog.next] ->
             [prog EXCEPT !.next = @ + 1]
        [] OTHER -> prog

\* Prune, with what was reported kept: a rule added again says nothing
SlipPruneKeepsWarned(live) ==
  /\ cooldowns' = [k \in Contents |-> IF k \in live THEN cooldowns[k] ELSE 0]
  /\ levelState' = [k \in Contents |-> IF k \in live THEN levelState[k] ELSE "unseen"]
  /\ compoundState' = [k \in Contents |-> IF k \in live THEN compoundState[k] ELSE Fresh]
  /\ reports' = [k \in Contents |-> IF k \in live THEN reports[k] ELSE <<>>]
  /\ log' = [k \in Contents |-> IF k \in live THEN log[k] ELSE <<>>]
  /\ UNCHANGED warnedHistory

\* ShortHistory, which reports without taking note of it
SlipShortHistoryForgets ==
  /\ check.next \in DOMAIN rules
  /\ LET k == rules[check.next].content
     IN  /\ rules[check.next].enabled /\ k.symbol = check.quote.symbol
         /\ \E i \in DOMAIN k.conds : RequiredHistory(k.conds[i]) > Len(check.prices)
         /\ reports' = [reports EXCEPT ![k] =
                          Append(@, [warned |-> k \notin warnedHistory, after |-> Len(log[k])])]
  /\ check' = [check EXCEPT !.next = @ + 1]
  /\ UNCHANGED <<feedVars, rulesVars, cooldowns, levelState, compoundState, warnedHistory, log,
                 baseVars>>

-----------------------------------------------------------------------------
(* Time passes, and quotes arrive: the cache has a quote before the        *)
(* observer's queue does.  A quote carries the time it was made, or 0.     *)

Tick ==
  /\ clock < MaxClock
  /\ clock' = clock + 1
  /\ UNCHANGED <<history, arrived, backlog, rulesVars, memoryVars, baseVars, check>>

(* The series of a ring once a price has been pushed (see Cache). *)
Pushed(series, price) ==
  IF Len(series) < RingSize THEN Append(series, price) ELSE Append(Tail(series), price)

Arrive(q, time) ==
  /\ arrived < MaxQuotes
  /\ Len(backlog) < MaxBacklog
  /\ arrived' = arrived + 1
  /\ history' = [history EXCEPT ![q.symbol] = Pushed(@, q.price)]
  /\ backlog' = Append(backlog, [quote |-> q, time |-> time])
  /\ UNCHANGED <<clock, rulesVars, memoryVars, baseVars, check>>

-----------------------------------------------------------------------------
(* Check.                                                                  *)

(* It takes the lock, brings the baseline up to date and reads the cached  *)
(* prices once for all rules.                                              *)
BeginCheck ==
  /\ Unlocked
  /\ backlog # <<>>
  /\ LET q == Head(backlog).quote
         time == Head(backlog).time
     IN  /\ sessionRefs' = [sessionRefs EXCEPT ![q.symbol] =
                              IF q.price > 0 /\ q.close > 0 THEN q.close ELSE @]
         /\ refPrices' = [refPrices EXCEPT ![q.symbol] = IF @ = NoPrice THEN q.price ELSE @]
         /\ check' = [quote  |-> q,
                      now    |-> IF time = 0 THEN clock ELSE time,
                      base   |-> IF sessionRefs'[q.symbol] > 0
                                 THEN sessionRefs'[q.symbol] ELSE refPrices'[q.symbol],
                      prices |-> history[q.symbol],
                      next   |-> 1]
  /\ backlog' = Tail(backlog)
  /\ UNCHANGED <<clock, history, arrived, rulesVars, memoryVars>>

Walking == ~Unlocked /\ check.next <= Len(rules)
Current == rules[check.next]
Concerned == Current.enabled /\ Current.content.symbol = check.quote.symbol

(* ruleHistory: a compound rule needs what its hungriest condition needs. *)
Ready(k) == \A i \in DOMAIN k.conds : RequiredHistory(k.conds[i]) <= Len(check.prices)

SkipRule ==
  /\ Walking
  /\ ~Concerned
  /\ check' = [check EXCEPT !.next = @ + 1]
  /\ UNCHANGED <<feedVars, rulesVars, memoryVars, baseVars>>

(* Reported once per dry spell. *)
ShortHistory ==
  /\ Walking
  /\ Concerned
  /\ LET k == Current.content
     IN  /\ ~Ready(k)
         /\ warnedHistory' = warnedHistory \cup {k}
         /\ reports' = [reports EXCEPT ![k] =
                          Append(@, [warned |-> k \notin warnedHistory, after |-> Len(log[k])])]
  /\ check' = [check EXCEPT !.next = @ + 1]
  /\ UNCHANGED <<feedVars, rulesVars, cooldowns, levelState, compoundState, log, baseVars>>

EdgeGated(k) ==
  IF k.match = "single" THEN k.conds[1].type \in LevelConditions ELSE k.match = "any"

(* The edge gate: a level has to have been seen false. *)
Rising(k) == EdgeGated(k) => levelState[k] = "clear"

(* evaluateCompound: what the conditions that hold add to the progress of  *)
(* a rule, and whether the rule fires then.                                *)
Progress(k, holds) ==
  LET prog == compoundState[k]
  IN  CASE k.match = "all" -> [prog EXCEPT !.met = @ \cup {i \in DOMAIN holds : holds[i]}]
        [] k.match = "sequence" /\ prog.next \in DOMAIN holds /\ holds[prog.next] ->
             [prog EXCEPT !.next = @ + 1]
        [] OTHER -> prog

Fires(k, holds, prog) ==
  CASE k.match = "all" -> prog.met = DOMAIN holds
    [] k.match = "sequence" -> prog.next > Len(holds)
    [] OTHER -> \E i \in DOMAIN holds : holds[i]

(* The edge is taken even in cooldown; progress is given up only when the  *)
(* rule alerts.                                                            *)
EvaluateRule ==
  /\ Walking
  /\ Concerned
  /\ LET k == Current.content
         holds == [i \in DOMAIN k.conds |-> Met(k.conds[i], check.quote, check.base, check.prices)]
         prog == Progress(k, holds)
         fires == Fires(k, holds, prog)
         alert == /\ fires
                  /\ Rising(k)
                  /\ check.now >= cooldowns[k]
     IN  /\ Ready(k)
         /\ warnedHistory' = warnedHistory \ {k}
         /\ levelState' = IF EdgeGated(k)
                          THEN [levelState EXCEPT ![k] = IF fires THEN "met" ELSE "clear"]
                          ELSE levelState
         /\ cooldowns' = IF alert THEN [cooldowns EXCEPT ![k] = check.now + Cooldown] ELSE cooldowns
         /\ compoundState' = [compoundState EXCEPT ![k] = IF alert THEN Fresh ELSE prog]
         /\ log' = [log EXCEPT ![k] =
                      Append(@, [now |-> check.now, holds |-> holds, alert |-> alert])]
  /\ check' = [check EXCEPT !.next = @ + 1]
  /\ UNCHANGED <<feedVars, rulesVars, reports, baseVars>>

(* It releases the lock, and hands the alerts to onAlert and the notifiers. *)
EndCheck ==
  /\ ~Unlocked
  /\ check.next > Len(rules)
  /\ check' = NoCheck
  /\ UNCHANGED <<feedVars, rulesVars, memoryVars, baseVars>>

-----------------------------------------------------------------------------
(* The dashboard sessions.                                                 *)

Live(seq) == {seq[i].content : i \in DOMAIN seq}

Forget(f, absent, live) == [k \in Contents |-> IF k \in live THEN f[k] ELSE absent]

(* pruneStateLocked, given the rules that are left. *)
Prune(live) ==
  /\ cooldowns' = Forget(cooldowns, 0, live)
  /\ levelState' = Forget(levelState, "unseen", live)
  /\ compoundState' = Forget(compoundState, Fresh, live)
  /\ warnedHistory' = warnedHistory \cap live
  /\ reports' = Forget(reports, <<>>, live)
  /\ log' = Forget(log, <<>>, live)

Edit == Unlocked /\ edits < MaxEdits /\ edits' = edits + 1

AddRule(k) ==
  /\ Edit
  /\ rules' = Append(rules, [content |-> k, enabled |-> TRUE])
  /\ UNCHANGED <<feedVars, memoryVars, baseVars, check>>

RemoveRule(i) ==
  /\ Edit
  /\ rules' = RemoveAt(rules, i)
  /\ Prune(Live(rules'))
  /\ UNCHANGED <<feedVars, baseVars, check>>

ToggleRule(i) ==
  /\ Edit
  /\ rules' = [rules EXCEPT ![i].enabled = ~@]
  /\ UNCHANGED <<feedVars, memoryVars, baseVars, check>>

-----------------------------------------------------------------------------

Check == BeginCheck \/ SkipRule \/ ShortHistory \/ EvaluateRule \/ EndCheck

Sessions ==
  \/ \E k \in Addable : AddRule(k)
  \/ \E i \in DOMAIN rules : RemoveRule(i) \/ ToggleRule(i)

Next ==
  \/ Tick
  \/ \E q \in Quotes, time \in {0, clock} : Arrive(q, time)
  \/ Check
  \/ Sessions

Spec == Init /\ [][Next]_vars

-----------------------------------------------------------------------------
(* Correctness.  A rule's log is judged against what its conditions said,  *)
(* with none of the engine's own bookkeeping.                              *)

Evaluation == [now : 0..MaxClock, holds : Seq(BOOLEAN), alert : BOOLEAN]

TypeOK ==
  /\ clock \in 1..MaxClock
  /\ history \in [Symbols -> Seq(Nat)]
  /\ \A s \in Symbols : Len(history[s]) <= RingSize
  /\ arrived \in 0..MaxQuotes
  /\ backlog \in Seq([quote : Quotes, time : 0..MaxClock])
  /\ rules \in Seq([content : Contents, enabled : BOOLEAN])
  /\ edits \in 0..MaxEdits
  /\ cooldowns \in [Contents -> 0..(MaxClock + Cooldown)]
  /\ levelState \in [Contents -> {"unseen", "clear", "met"}]
  /\ compoundState \in [Contents -> [met : SUBSET Nat, next : Nat \ {0}]]
  /\ \A k \in Contents : /\ compoundState[k].met \subseteq DOMAIN k.conds
                         /\ compoundState[k].next <= Len(k.conds) + 1
  /\ warnedHistory \in SUBSET Contents
  /\ refPrices \in [Symbols -> Nat \cup {NoPrice}]
  /\ sessionRefs \in [Symbols -> Nat]
  /\ check \in {NoCheck} \cup [quote : Quotes, now : 0..MaxClock, base : Nat, prices : Seq(Nat),
                              next : Nat \ {0}]
  /\ check.next <= Len(rules) + 1
  /\ reports \in [Contents -> Seq([warned : BOOLEAN, after : Nat])]
  /\ log \in [Contents -> Seq(Evaluation)]

(* Every earlier alert of the log is a cooldown away. *)
Cooled(l, i) == \A j \in 1..(i - 1) : l[j].alert => l[i].now >= l[j].now + Cooldown

Holds(e) == \E x \in DOMAIN e.holds : e.holds[x]

(* engine.go:44: level conditions alert only "on the transition into the    *)
(* condition", and the first evaluation is a baseline.  A simple rule or an *)
(* "any" alerts exactly when what it says has become true since the last   *)
(* evaluation, whether or not that one fell into a cooldown, and no alert  *)
(* is closer than the cooldown; a crossing alerts whenever it holds.       *)
LevelEdges ==
  \A k \in Contents : k.match \in {"single", "any"} =>
    LET l == log[k]
    IN  \A i \in DOMAIN l :
          l[i].alert <=> /\ Holds(l[i])
                         /\ EdgeGated(k) => i > 1 /\ ~Holds(l[i - 1])
                         /\ Cooled(l, i)

(* The conditions have come true among the evaluations from..to: all of    *)
(* them in any order, or one after the other, at most one per evaluation.  *)
Completed(k, l, from, to) ==
  IF k.match = "all"
  THEN \A x \in DOMAIN k.conds : \E j \in from..to : l[j].holds[x]
  ELSE \E at \in [DOMAIN k.conds -> from..to] :
         /\ \A x \in DOMAIN k.conds : l[at[x]].holds[x]
         /\ \A x, y \in DOMAIN k.conds : x < y => at[x] < at[y]

LastAlert(l, i) == Max({0} \cup {j \in 1..(i - 1) : l[j].alert})

(* An "all" or a "sequence" alerts exactly when it has been completed since *)
(* its last alert and that one is a cooldown away: progress made while in  *)
(* cooldown is not lost, and none is left over from before an alert.       *)
LatchedCompletions ==
  \A k \in Contents : k.match \in {"all", "sequence"} =>
    LET l == log[k]
    IN  \A i \in DOMAIN l :
          l[i].alert <=> Completed(k, l, LastAlert(l, i) + 1, i) /\ Cooled(l, i)

(* engine.go:126: a rule without enough history is reported "once per dry   *)
(* spell rather than once per quote", whatever edits and quotes come in    *)
(* between, and has no second dry spell, since the ring never shrinks.     *)
ShortHistoryReportedOnce ==
  \A k \in Contents : \A i \in DOMAIN reports[k] :
    /\ reports[k][i].warned <=> i = 1
    /\ reports[k][i].after = 0

Memory(k) == <<cooldowns[k], levelState[k], compoundState[k], k \in warnedHistory>>

(* ruleKey, engine.go:734: "deleting or reordering rules can never hand one *)
(* rule's state to another".  An edit leaves the memory of every rule that *)
(* stays as it was and nothing behind of one that goes, so a rule added    *)
(* again starts from nothing.                                              *)
RuleEditsKeepState ==
  [][rules' # rules =>
       \A k \in Contents :
         Memory(k)' = IF k \in Live(rules') THEN Memory(k) ELSE <<0, "unseen", Fresh, FALSE>>]_vars

(* evaluateCompound, engine.go:760: for "all" and "sequence" the progress  *)
(* latch makes the rule fire "on the transition that completes it".        *)
FiresOnCompletion ==
  \A k \in Contents : k.match \in {"all", "sequence"} =>
    LET l == log[k]
    IN  \A i \in DOMAIN l :
          l[i].alert => ~Completed(k, l, LastAlert(l, i) + 1, i - 1)

(* Every variable has its type, and level rules alert on their edges and   *)
(* nowhere else: LevelEdges.                                               *)
LevelsSound == TypeOK /\ LevelEdges

=============================================================================
