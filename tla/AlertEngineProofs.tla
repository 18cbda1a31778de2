------------------------- MODULE AlertEngineProofs -------------------------
(***************************************************************************)
(* Proofs about the alert engine for any symbols, rules, quotes, cooldown  *)
(* and ring size.                                                          *)
(***************************************************************************)
EXTENDS AlertEngine, TLAPS, SequenceTheorems

(***************************************************************************)
(* What an evaluation adds to the log of a rule.                           *)
(***************************************************************************)
LEMMA LogAppend ==
  ASSUME NEW l \in Seq(Evaluation), NEW e \in Evaluation
  PROVE  /\ Len(l) \in Nat /\ Append(l, e) \in Seq(Evaluation)
         /\ Len(Append(l, e)) = Len(l) + 1 /\ Append(l, e)[Len(l) + 1] = e
         /\ \A i \in 1..Len(l) : Append(l, e)[i] = l[i]
         /\ \A i \in 1..(Len(l) + 1) : i \in 1..Len(l) \/ i = Len(l) + 1
BY LenProperties, AppendProperties

(* The last alert of a log, 0 when there is none. *)
IsLast(l, n, a) ==
  /\ a \in 0..n
  /\ a > 0 => l[a].alert
  /\ \A j \in (a + 1)..n : ~l[j].alert

(* The end of the last cooldown is the one that counts. *)
CooldownKept(k) ==
  /\ \A j \in 1..Len(log[k]) : log[k][j].alert => cooldowns[k] >= log[k][j].now + Cooldown
  /\ cooldowns[k] # 0 =>
       \E j \in 1..Len(log[k]) : log[k][j].alert /\ cooldowns[k] = log[k][j].now + Cooldown

(* levelState is what the last evaluation said. *)
EdgeKept(k) ==
  EdgeGated(k) =>
    (levelState[k] = "clear" <=> Len(log[k]) > 0 /\ ~Holds(log[k][Len(log[k])]))

(* The progress of an "all" is what has held since the last alert. *)
LatchKept(k) ==
  k.match = "all" =>
    \E a \in 0..Len(log[k]) :
      /\ IsLast(log[k], Len(log[k]), a)
      /\ \A x \in DOMAIN k.conds :
           x \in compoundState[k].met <=> \E j \in (a + 1)..Len(log[k]) : log[k][j].holds[x]

(* The first m conditions have come true one after the other. *)
InTurn(l, m, from, to) ==
  \E at \in [1..m -> from..to] :
    /\ \A x \in 1..m : l[at[x]].holds[x]
    /\ \A x, y \in 1..m : x < y => at[x] < at[y]

(* That of a "sequence" is the most that have come true one after the other. *)
SequenceKept(k) ==
  k.match = "sequence" =>
    \E a \in 0..Len(log[k]) :
      /\ IsLast(log[k], Len(log[k]), a)
      /\ InTurn(log[k], compoundState[k].next - 1, a + 1, Len(log[k]))
      /\ compoundState[k].next <= Len(k.conds) =>
           ~InTurn(log[k], compoundState[k].next, a + 1, Len(log[k]))

(* A rule that was not evaluated yet is warned of if it was reported. *)
WarningKept(k) == log[k] = <<>> => (k \in warnedHistory <=> reports[k] # <<>>)

RuleKept(k) ==
  CooldownKept(k) /\ EdgeKept(k) /\ LatchKept(k) /\ SequenceKept(k) /\ WarningKept(k)

Enough(k, n) == \A i \in DOMAIN k.conds : RequiredHistory(k.conds[i]) <= n

(* What was once enough stays enough: a ring never shrinks, and a check has *)
(* no fewer prices than one before it.                                     *)
HistoryKept ==
  /\ \A k \in Contents : log[k] # <<>> => Enough(k, Len(history[k.symbol]))
  /\ ~Unlocked =>
       /\ Len(check.prices) <= Len(history[check.quote.symbol])
       /\ \A k \in Contents : k.symbol = check.quote.symbol /\ log[k] # <<>> => Ready(k)

(* Nothing is remembered of a rule that is not there. *)
GoneForgotten ==
  \A k \in Contents : k \notin Live(rules) =>
    Memory(k) = <<0, "unseen", Fresh, FALSE>> /\ reports[k] = <<>> /\ log[k] = <<>>

EngineInv ==
  /\ TypeOK /\ HistoryKept /\ GoneForgotten
  /\ \A k \in Contents : RuleKept(k)

-----------------------------------------------------------------------------
(* The last alert of a log.                                                *)

LEMMA LastIsLast ==
  ASSUME NEW l, NEW n \in Nat, NEW a, IsLast(l, n, a)
  PROVE  LastAlert(l, n + 1) = a
<1> DEFINE S == {0} \cup {j \in 1..n : l[j].alert}
<1>1. a \in S /\ S \subseteq Nat
  BY DEF IsLast
<1>2. \A j \in S : j <= a
  <2> SUFFICES ASSUME NEW j \in S, ~(j <= a) PROVE FALSE
    OBVIOUS
  <2>1. a \in 0..n /\ j \in (a + 1)..n /\ l[j].alert
    BY DEF IsLast
  <2> QED BY <2>1 DEF IsLast
<1> HIDE DEF S
<1>3. \A x \in S : (\A y \in S : x >= y) => x = a
  BY <1>1, <1>2
<1>4. \A y \in S : a >= y
  BY <1>1, <1>2
<1>5. Max(S) = a
  BY <1>1, <1>3, <1>4 DEF Max
<1>6. n + 1 - 1 = n
  OBVIOUS
<1> QED BY <1>5, <1>6 DEF LastAlert, S

LEMMA LastAppend ==
  ASSUME NEW l \in Seq(Evaluation), NEW e \in Evaluation, NEW a, IsLast(l, Len(l), a)
  PROVE  /\ ~e.alert => IsLast(Append(l, e), Len(l) + 1, a)
         /\ e.alert => IsLast(Append(l, e), Len(l) + 1, Len(l) + 1)
         /\ IsLast(Append(l, e), Len(l), a)
<1> DEFINE n == Len(l)
           t == Append(l, e)
<1>1. /\ n \in Nat /\ t[n + 1] = e /\ \A i \in 1..n : t[i] = l[i]
      /\ \A i \in 1..(n + 1) : i \in 1..n \/ i = n + 1
  BY LogAppend
<1>2. a \in 0..n /\ (a > 0 => l[a].alert) /\ \A j \in (a + 1)..n : ~l[j].alert
  BY DEF IsLast
<1> HIDE DEF n, t
<1>3. (a > 0 => t[a].alert) /\ \A j \in (a + 1)..n : ~t[j].alert
  BY <1>1, <1>2
<1>4. ASSUME ~e.alert PROVE IsLast(t, n + 1, a)
  BY <1>1, <1>2, <1>3, <1>4 DEF IsLast
<1>5. ASSUME e.alert PROVE IsLast(t, n + 1, n + 1)
  BY <1>1, <1>5 DEF IsLast
<1>6. IsLast(t, n, a)
  BY <1>1, <1>2, <1>3 DEF IsLast
<1> QED BY <1>4, <1>5, <1>6 DEF n, t

-----------------------------------------------------------------------------
(* Conditions that come true one after the other, and what one more        *)
(* evaluation adds.                                                        *)

LEMMA InTurnFewer ==
  ASSUME NEW l, NEW m \in Nat, NEW from \in Nat, NEW to \in Nat, InTurn(l, m, from, to),
         NEW x \in 0..m
  PROVE  InTurn(l, x, from, to)
<1>1. PICK at \in [1..m -> from..to] :
        /\ \A y \in 1..m : l[at[y]].holds[y]
        /\ \A y, z \in 1..m : y < z => at[y] < at[z]
  BY DEF InTurn
<1> DEFINE b == [y \in 1..x |-> at[y]]
<1>2. 1..x \subseteq 1..m
  OBVIOUS
<1>3. b \in [1..x -> from..to] /\ \A y \in 1..x : b[y] = at[y]
  BY <1>2
<1> HIDE DEF b
<1>4. /\ \A y \in 1..x : l[b[y]].holds[y]
      /\ \A y, z \in 1..x : y < z => b[y] < b[z]
  BY <1>1, <1>2, <1>3
<1> QED BY <1>3, <1>4 DEF InTurn

LEMMA InTurnAppend ==
  ASSUME NEW l \in Seq(Evaluation), NEW e \in Evaluation, NEW m \in Nat,
         NEW from \in 1..(Len(l) + 1)
  PROVE  /\ InTurn(l, m, from, Len(l)) => InTurn(Append(l, e), m, from, Len(l) + 1)
         /\ InTurn(l, m, from, Len(l)) /\ e.holds[m + 1] =>
              InTurn(Append(l, e), m + 1, from, Len(l) + 1)
         /\ InTurn(Append(l, e), m + 1, from, Len(l) + 1) => InTurn(l, m, from, Len(l))
         /\ InTurn(Append(l, e), m + 1, from, Len(l) + 1) /\ ~e.holds[m + 1] =>
              InTurn(l, m + 1, from, Len(l))
<1> DEFINE n == Len(l)
           t == Append(l, e)
<1>1. /\ n \in Nat /\ t[n + 1] = e /\ from \in 1..(n + 1)
      /\ \A i \in 1..n : t[i] = l[i]
  BY LogAppend
<1> HIDE DEF n, t
<1>2. from..n \subseteq from..(n + 1) /\ from..n \subseteq 1..n
  BY <1>1
<1>3. ASSUME InTurn(l, m, from, n)
      PROVE  /\ InTurn(t, m, from, n + 1)
             /\ e.holds[m + 1] => InTurn(t, m + 1, from, n + 1)
  <2>1. PICK at \in [1..m -> from..n] :
          /\ \A y \in 1..m : l[at[y]].holds[y]
          /\ \A y, z \in 1..m : y < z => at[y] < at[z]
    BY <1>3 DEF InTurn
  <2>2. \A y \in 1..m : at[y] \in from..n /\ t[at[y]].holds[y]
    BY <1>1, <1>2, <2>1
  <2>3. at \in [1..m -> from..(n + 1)]
    BY <1>2
  <2>4. InTurn(t, m, from, n + 1)
    BY <2>1, <2>2, <2>3 DEF InTurn
  <2>5. ASSUME e.holds[m + 1] PROVE InTurn(t, m + 1, from, n + 1)
    <3> DEFINE b == [y \in 1..(m + 1) |-> IF y = m + 1 THEN n + 1 ELSE at[y]]
    <3>1. \A y \in 1..(m + 1) : y \in 1..m \/ y = m + 1
      OBVIOUS
    <3>0. m + 1 \in 1..(m + 1) /\ \A y \in 1..m : y # m + 1 /\ y \in 1..(m + 1)
      OBVIOUS
    <3>n. from \in Nat /\ n + 1 \in from..(n + 1)
      BY <1>1
    <3>2. /\ b[m + 1] = n + 1 /\ n + 1 \in from..(n + 1)
          /\ \A y \in 1..m : b[y] = at[y] /\ y # m + 1
      BY <3>0, <3>n
    <3>3. b \in [1..(m + 1) -> from..(n + 1)]
      BY <1>2, <2>2, <3>1, <3>2
    <3> HIDE DEF b
    <3>4. \A y \in 1..(m + 1) : t[b[y]].holds[y]
      BY <1>1, <2>2, <2>5, <3>1, <3>2
    <3>5. ASSUME NEW y \in 1..(m + 1), NEW z \in 1..(m + 1), y < z PROVE b[y] < b[z]
      <4>1. y \in 1..m /\ b[y] = at[y] /\ at[y] \in from..n
        BY <2>2, <3>1, <3>2, <3>5
      <4>2. CASE z = m + 1
        BY <1>1, <3>2, <4>1, <4>2
      <4>3. CASE z \in 1..m
        BY <2>1, <3>2, <3>5, <4>1, <4>3
      <4> QED BY <3>1, <4>2, <4>3
    <3> QED BY <3>3, <3>4, <3>5 DEF InTurn
  <2> QED BY <2>4, <2>5
<1>4. ASSUME InTurn(t, m + 1, from, n + 1)
      PROVE  /\ InTurn(l, m, from, n)
             /\ ~e.holds[m + 1] => InTurn(l, m + 1, from, n)
  <2>1. PICK at \in [1..(m + 1) -> from..(n + 1)] :
          /\ \A y \in 1..(m + 1) : t[at[y]].holds[y]
          /\ \A y, z \in 1..(m + 1) : y < z => at[y] < at[z]
    BY <1>4 DEF InTurn
  <2>2. m + 1 \in 1..(m + 1) /\ \A y \in 1..m : y \in 1..(m + 1) /\ y < m + 1
    OBVIOUS
  <2>3. \A y \in 1..m : at[y] \in from..n
    <3> SUFFICES ASSUME NEW y \in 1..m PROVE at[y] \in from..n
      OBVIOUS
    <3>1. at[y] \in from..(n + 1) /\ at[m + 1] \in from..(n + 1) /\ at[y] < at[m + 1]
      BY <2>1, <2>2
    <3> QED BY <1>1, <3>1
  <2>4. InTurn(l, m, from, n)
    <3> DEFINE b == [y \in 1..m |-> at[y]]
    <3>1. b \in [1..m -> from..n] /\ \A y \in 1..m : b[y] = at[y]
      BY <2>3
    <3> HIDE DEF b
    <3>2. /\ \A y \in 1..m : l[b[y]].holds[y]
          /\ \A y, z \in 1..m : y < z => b[y] < b[z]
      BY <1>1, <1>2, <2>1, <2>2, <2>3, <3>1
    <3> QED BY <3>1, <3>2 DEF InTurn
  <2>5. ASSUME ~e.holds[m + 1] PROVE InTurn(l, m + 1, from, n)
    <3>1. at[m + 1] \in from..(n + 1) /\ at[m + 1] # n + 1
      BY <1>1, <2>1, <2>2, <2>5
    <3>2. at[m + 1] \in from..n
      BY <1>1, <3>1
    <3>3. \A y \in 1..(m + 1) : at[y] \in from..n
      BY <2>3, <3>2
    <3>4. at \in [1..(m + 1) -> from..n]
      BY <2>1, <3>3
    <3>5. \A y \in 1..(m + 1) : l[at[y]].holds[y]
      BY <1>1, <1>2, <2>1, <3>3
    <3> QED BY <2>1, <3>4, <3>5 DEF InTurn
  <2> QED BY <2>4, <2>5
<1> QED BY <1>3, <1>4 DEF n, t

LEMMA NoneInTurn ==
  ASSUME NEW l, NEW n \in Nat
  PROVE  InTurn(l, 0, n + 1, n) /\ ~InTurn(l, 1, n + 1, n)
<1>1. 1..0 = {} /\ (n + 1)..n = {} /\ 1 \in 1..1
  OBVIOUS
<1>2. [x \in {} |-> 0] \in [1..0 -> (n + 1)..n]
  BY <1>1
<1>3. \A at : at \notin [1..1 -> (n + 1)..n]
  BY <1>1
<1> QED BY <1>1, <1>2, <1>3 DEF InTurn

-----------------------------------------------------------------------------
(* Types.                                                                  *)

LEMMA ContentTypes ==
  ASSUME NEW k \in Contents
  PROVE  /\ k.symbol \in Symbols /\ k.match \in {"single", "any", "all", "sequence"}
         /\ k.conds \in Seq([type : ConditionTypes, value : Int, period : Nat])
         /\ Len(k.conds) \in Nat /\ DOMAIN k.conds = 1..Len(k.conds)
<1>1. k \in [symbol : Symbols, match : {"single", "any", "all", "sequence"},
             conds : Seq([type : ConditionTypes, value : Int, period : Nat])]
  BY AlertAssumption DEF AlertAssumption
<1>2. /\ k.symbol \in Symbols /\ k.match \in {"single", "any", "all", "sequence"}
      /\ k.conds \in Seq([type : ConditionTypes, value : Int, period : Nat])
  BY <1>1
<1> QED BY <1>2, LenProperties

LEMMA RequiredIsNumber ==
  ASSUME NEW k \in Contents, NEW i \in DOMAIN k.conds
  PROVE  RequiredHistory(k.conds[i]) \in Int
<1>1. k.conds[i] \in [type : ConditionTypes, value : Int, period : Nat]
  BY ContentTypes, ElementOfSeq
<1>2. Period(k.conds[i]) \in Int
  BY <1>1 DEF Period
<1> QED BY <1>2 DEF RequiredHistory

LEMMA MetIsTrueOrFalse ==
  ASSUME NEW k \in Contents, NEW i \in DOMAIN k.conds, NEW q, NEW base, NEW prices
  PROVE  Met(k.conds[i], q, base, prices) \in BOOLEAN
<1> DEFINE c == k.conds[i]
<1>1. c.type \in ConditionTypes
  <2>1. c \in [type : ConditionTypes, value : Int, period : Nat]
    BY ContentTypes, ElementOfSeq
  <2> QED BY <2>1
<1> HIDE DEF c
<1>2. MetByHistory(c, prices) \in BOOLEAN
  BY DEF MetByHistory
<1>3. ASSUME c.type \notin IndicatorConditions PROVE MetByQuote(c, q, base) \in BOOLEAN
  <2>1. c.type \in {"above", "below", "pct_up", "pct_down", "volume_above"}
    BY <1>1, <1>3 DEF ConditionTypes, LevelConditions, IndicatorConditions
  <2>2. \A x, y : (x >= y) \in BOOLEAN /\ (x <= y) \in BOOLEAN /\ (x > y) \in BOOLEAN
    OBVIOUS
  <2>3. CASE c.type = "above"
    BY <2>2, <2>3 DEF MetByQuote
  <2>4. CASE c.type = "below"
    BY <2>2, <2>4 DEF MetByQuote
  <2>5. CASE c.type \in {"pct_up", "pct_down"}
    BY <2>5 DEF MetByQuote
  <2>6. CASE c.type = "volume_above"
    BY <2>2, <2>6 DEF MetByQuote
  <2> QED BY <2>1, <2>3, <2>4, <2>5, <2>6
<1>4. Met(c, q, base, prices) \in BOOLEAN
  BY <1>2, <1>3 DEF Met
<1> QED BY <1>4 DEF c

LEMMA PushedProperties ==
  ASSUME NEW series \in Seq(Nat), NEW price \in Nat, Len(series) <= RingSize
  PROVE  /\ Pushed(series, price) \in Seq(Nat)
         /\ Len(series) <= Len(Pushed(series, price)) /\ Len(Pushed(series, price)) <= RingSize
<1>1. RingSize \in Nat \ {0} /\ Len(series) \in Nat
  BY LenProperties, AlertAssumption DEF AlertAssumption
<1>2. CASE Len(series) < RingSize
  <2>1. /\ Append(series, price) \in Seq(Nat)
        /\ Len(Append(series, price)) = Len(series) + 1
    BY AppendProperties
  <2> QED BY <1>1, <1>2, <2>1 DEF Pushed
<1>3. CASE ~(Len(series) < RingSize)
  <2>1. series # <<>>
    BY <1>1, <1>3, EmptySeq
  <2>2. Tail(series) \in Seq(Nat) /\ Len(Tail(series)) = Len(series) - 1
    BY <2>1, HeadTailProperties
  <2>3. /\ Append(Tail(series), price) \in Seq(Nat)
        /\ Len(Append(Tail(series), price)) = Len(Tail(series)) + 1
    BY <2>2, AppendProperties
  <2> QED BY <1>1, <1>3, <2>2, <2>3 DEF Pushed
<1> QED BY <1>2, <1>3

LEMMA RemoveAtType ==
  ASSUME NEW S, NEW s \in Seq(S), NEW i \in 1..Len(s)
  PROVE  RemoveAt(s, i) \in Seq(S)
<1>1. Len(s) \in Nat
  BY LenProperties
<1>2. /\ 1 \in Int /\ i - 1 \in Int /\ i + 1 \in Int /\ Len(s) \in Int
      /\ 1..(i - 1) \subseteq 1..Len(s) /\ (i + 1)..Len(s) \subseteq 1..Len(s)
  BY <1>1
<1>3. \A j \in 1..Len(s) : s[j] \in S
  BY ElementOfSeq
<1>4. SubSeq(s, 1, i - 1) \in Seq(S)
  BY <1>2, <1>3, SubSeqProperties
<1>5. SubSeq(s, i + 1, Len(s)) \in Seq(S)
  BY <1>2, <1>3, SubSeqProperties
<1> QED BY <1>4, <1>5, ConcatProperties DEF RemoveAt

LEMMA EngineConstants ==
  /\ MaxClock \in Nat \ {0} /\ Cooldown \in Nat \ {0} /\ RingSize \in Nat \ {0}
  /\ MaxQuotes \in Nat /\ MaxEdits \in Nat
  /\ \A q \in Quotes : q.symbol \in Symbols /\ q.price \in Nat /\ q.close \in Nat
  /\ Addable \subseteq Contents /\ InitialRules \subseteq Seq([content : Contents, enabled : BOOLEAN])
BY AlertAssumption DEF AlertAssumption

-----------------------------------------------------------------------------
(* What a rule is evaluated to.                                            *)

Said(k) == [i \in DOMAIN k.conds |-> Met(k.conds[i], check.quote, check.base, check.prices)]
Alerts(k) == Fires(k, Said(k), Progress(k, Said(k))) /\ Rising(k) /\ check.now >= cooldowns[k]
Outcome(k) == [now |-> check.now, holds |-> Said(k), alert |-> Alerts(k)]

LEMMA CheckTypes ==
  ASSUME TypeOK, ~Unlocked
  PROVE  /\ check \in [quote : Quotes, now : 0..MaxClock, base : Nat, prices : Seq(Nat),
                       next : Nat \ {0}]
         /\ check.quote \in Quotes /\ check.now \in 0..MaxClock /\ check.prices \in Seq(Nat)
         /\ Len(check.prices) \in Nat
         /\ check.next \in Nat \ {0} /\ check.next <= Len(rules) + 1 /\ Len(rules) \in Nat
<1>1. check \in [quote : Quotes, now : 0..MaxClock, base : Nat, prices : Seq(Nat),
                 next : Nat \ {0}]
  BY DEF TypeOK, Unlocked, NoCheck
<1>2. check.prices \in Seq(Nat)
  BY <1>1
<1>3. check.next <= Len(rules) + 1 /\ rules \in Seq([content : Contents, enabled : BOOLEAN])
  BY DEF TypeOK
<1> QED BY <1>1, <1>2, <1>3, LenProperties

LEMMA CurrentTypes ==
  ASSUME TypeOK, Walking
  PROVE  /\ Current \in [content : Contents, enabled : BOOLEAN]
         /\ Current.content \in Contents /\ Current.content \in Live(rules)
         /\ check.next \in 1..Len(rules)
<1>1. check.next \in 1..Len(rules)
  BY CheckTypes DEF Walking
<1>2. rules \in Seq([content : Contents, enabled : BOOLEAN])
  BY DEF TypeOK
<1>3. Current \in [content : Contents, enabled : BOOLEAN]
  BY <1>1, <1>2, ElementOfSeq DEF Current
<1>4. DOMAIN rules = 1..Len(rules)
  BY <1>2, LenProperties
<1>5. Current.content \in Live(rules)
  BY <1>1, <1>4 DEF Live, Current
<1> QED BY <1>1, <1>3, <1>5

LEMMA SaidTypes ==
  ASSUME NEW k \in Contents
  PROVE  /\ Said(k) \in Seq(BOOLEAN) /\ Len(Said(k)) = Len(k.conds)
         /\ DOMAIN Said(k) = DOMAIN k.conds
<1>1. Len(k.conds) \in Nat /\ DOMAIN k.conds = 1..Len(k.conds)
  BY ContentTypes
<1>2. Said(k) \in [1..Len(k.conds) -> BOOLEAN]
  BY <1>1, MetIsTrueOrFalse DEF Said
<1> QED BY <1>1, <1>2

LEMMA OutcomeType ==
  ASSUME TypeOK, ~Unlocked, NEW k \in Contents
  PROVE  Outcome(k) \in Evaluation
<1>1. Said(k) \in Seq(BOOLEAN) /\ check.now \in 0..MaxClock
  BY SaidTypes, CheckTypes
<1>2. Alerts(k) \in BOOLEAN
  BY DEF Alerts
<1> QED BY <1>1, <1>2 DEF Outcome, Evaluation

LEMMA ProgressTypes ==
  ASSUME TypeOK, NEW k \in Contents
  PROVE  LET prog == Progress(k, Said(k)) IN
         /\ prog \in [met : SUBSET Nat, next : Nat \ {0}]
         /\ prog.met \subseteq DOMAIN k.conds /\ prog.next <= Len(k.conds) + 1
<1> DEFINE prog == compoundState[k]
           holds == Said(k)
           D == {i \in DOMAIN holds : holds[i]}
<1>1. /\ prog \in [met : SUBSET Nat, next : Nat \ {0}]
      /\ prog.met \subseteq DOMAIN k.conds /\ prog.next <= Len(k.conds) + 1
  BY DEF TypeOK
<1>2. /\ Len(k.conds) \in Nat /\ DOMAIN k.conds = 1..Len(k.conds)
      /\ DOMAIN holds = DOMAIN k.conds /\ D \subseteq DOMAIN k.conds
  BY ContentTypes, SaidTypes
<1>3. CASE k.match = "all"
  <2>1. Progress(k, holds) = [prog EXCEPT !.met = @ \cup D]
    BY <1>3 DEF Progress
  <2> HIDE DEF prog, D, holds
  <2> QED BY <1>1, <1>2, <2>1 DEF holds
<1>4. CASE k.match = "sequence" /\ prog.next \in DOMAIN holds /\ holds[prog.next]
  <2>1. Progress(k, holds) = [prog EXCEPT !.next = @ + 1]
    BY <1>4 DEF Progress
  <2>2. prog.next \in 1..Len(k.conds)
    BY <1>2, <1>4
  <2> HIDE DEF prog, D, holds
  <2> QED BY <1>1, <1>2, <2>1, <2>2 DEF holds
<1>5. CASE /\ k.match # "all"
           /\ ~(k.match = "sequence" /\ prog.next \in DOMAIN holds /\ holds[prog.next])
  <2>1. Progress(k, holds) = prog
    BY <1>5 DEF Progress
  <2> QED BY <1>1, <2>1
<1> QED BY <1>3, <1>4, <1>5

LEMMA EvaluateStep ==
  ASSUME TypeOK, EvaluateRule
  PROVE  LET k == Current.content IN
         /\ k \in Contents /\ k \in Live(rules) /\ ~Unlocked /\ k.symbol = check.quote.symbol
         /\ Ready(k) /\ Outcome(k) \in Evaluation
         /\ warnedHistory' = warnedHistory \ {k}
         /\ levelState' = IF EdgeGated(k)
                          THEN [levelState EXCEPT ![k] = IF Fires(k, Said(k), Progress(k, Said(k)))
                                                         THEN "met" ELSE "clear"]
                          ELSE levelState
         /\ cooldowns' = IF Alerts(k) THEN [cooldowns EXCEPT ![k] = check.now + Cooldown]
                         ELSE cooldowns
         /\ compoundState' = [compoundState EXCEPT ![k] =
                                IF Alerts(k) THEN Fresh ELSE Progress(k, Said(k))]
         /\ log' = [log EXCEPT ![k] = Append(@, Outcome(k))]
         /\ check' = [check EXCEPT !.next = @ + 1]
         /\ UNCHANGED <<feedVars, rulesVars, reports, baseVars>>
<1>1. Walking /\ ~Unlocked
  BY DEF EvaluateRule, Walking
<1>2. Current.content \in Contents /\ Current.content \in Live(rules)
  BY <1>1, CurrentTypes
<1>3. Outcome(Current.content) \in Evaluation
  BY <1>1, <1>2, OutcomeType
<1> QED BY <1>1, <1>2, <1>3 DEF EvaluateRule, Concerned, Said, Alerts, Outcome

-----------------------------------------------------------------------------
(* The type invariant is inductive.                                        *)

LEMMA NoCheckTypes ==
  /\ NoCheck.next = 0
  /\ NoCheck \notin [quote : Quotes, now : 0..MaxClock, base : Nat, prices : Seq(Nat),
                     next : Nat \ {0}]
BY DEF NoCheck

LEMMA InitTypeOK == Init => TypeOK
<1> SUFFICES ASSUME Init PROVE TypeOK
  OBVIOUS
<1>1. /\ clock \in 1..MaxClock /\ arrived \in 0..MaxQuotes /\ edits \in 0..MaxEdits
      /\ cooldowns \in [Contents -> 0..(MaxClock + Cooldown)]
  BY EngineConstants DEF Init
<1>2. /\ history \in [Symbols -> Seq(Nat)] /\ \A s \in Symbols : Len(history[s]) <= RingSize
      /\ backlog \in Seq([quote : Quotes, time : 0..MaxClock])
      /\ reports \in [Contents -> Seq([warned : BOOLEAN, after : Nat])]
      /\ log \in [Contents -> Seq(Evaluation)]
  BY EngineConstants, EmptySeq DEF Init
<1>3. rules \in Seq([content : Contents, enabled : BOOLEAN]) /\ Len(rules) \in Nat
  <2>1. rules \in Seq([content : Contents, enabled : BOOLEAN])
    BY EngineConstants DEF Init
  <2> QED BY <2>1, LenProperties
<1>4. /\ check = NoCheck /\ check.next <= Len(rules) + 1
  BY <1>3, NoCheckTypes DEF Init
<1>5. /\ compoundState \in [Contents -> [met : SUBSET Nat, next : Nat \ {0}]]
      /\ \A k \in Contents : /\ compoundState[k].met \subseteq DOMAIN k.conds
                             /\ compoundState[k].next <= Len(k.conds) + 1
  <2>1. \A k \in Contents : Len(k.conds) \in Nat
    BY ContentTypes
  <2> QED BY <2>1 DEF Init, Fresh
<1> QED BY <1>1, <1>2, <1>3, <1>4, <1>5 DEF Init, TypeOK

LEMMA TickKeepsTypes ==
  ASSUME TypeOK, Tick \/ \E q \in Quotes, time \in {0, clock} : Arrive(q, time)
  PROVE  TypeOK'
<1> USE DEF rulesVars, memoryVars, baseVars
<1>1. CASE Tick
  <2>1. clock' \in 1..MaxClock
    BY <1>1, EngineConstants DEF Tick, TypeOK
  <2> QED BY <1>1, <2>1 DEF Tick, TypeOK
<1>2. ASSUME NEW q \in Quotes, NEW time \in {0, clock}, Arrive(q, time) PROVE TypeOK'
  <2>1. arrived' \in 0..MaxQuotes
    BY <1>2, EngineConstants DEF Arrive, TypeOK
  <2>2. time \in 0..MaxClock
    BY EngineConstants DEF TypeOK
  <2>3. backlog' \in Seq([quote : Quotes, time : 0..MaxClock])
    <3>1. [quote |-> q, time |-> time] \in [quote : Quotes, time : 0..MaxClock]
      BY <2>2
    <3>2. backlog \in Seq([quote : Quotes, time : 0..MaxClock])
      BY DEF TypeOK
    <3> QED BY <1>2, <3>1, <3>2, AppendProperties DEF Arrive
  <2>4. history' \in [Symbols -> Seq(Nat)] /\ \A s \in Symbols : Len(history'[s]) <= RingSize
    <3>1. /\ history \in [Symbols -> Seq(Nat)] /\ \A s \in Symbols : Len(history[s]) <= RingSize
          /\ q.symbol \in Symbols /\ q.price \in Nat
      BY EngineConstants DEF TypeOK
    <3>2. /\ Pushed(history[q.symbol], q.price) \in Seq(Nat)
          /\ Len(Pushed(history[q.symbol], q.price)) <= RingSize
      BY <3>1, PushedProperties
    <3>3. history' = [history EXCEPT ![q.symbol] = Pushed(history[q.symbol], q.price)]
      BY <1>2 DEF Arrive
    <3> QED BY <3>1, <3>2, <3>3
  <2>5. UNCHANGED <<clock, rulesVars, memoryVars, baseVars, check>>
    BY <1>2 DEF Arrive
  <2> QED BY <2>1, <2>3, <2>4, <2>5 DEF TypeOK
<1> QED BY <1>1, <1>2

LEMMA CheckKeepsTypes ==
  ASSUME TypeOK, Check
  PROVE  TypeOK'
<1> USE DEF rulesVars, memoryVars, baseVars, feedVars
<1>0. rules \in Seq([content : Contents, enabled : BOOLEAN]) /\ Len(rules) \in Nat
  <2>1. rules \in Seq([content : Contents, enabled : BOOLEAN])
    BY DEF TypeOK
  <2> QED BY <2>1, LenProperties
<1> DEFINE CheckType == [quote : Quotes, now : 0..MaxClock, base : Nat, prices : Seq(Nat),
                         next : Nat \ {0}]
<1>1. CASE BeginCheck
  <2>1. backlog \in Seq([quote : Quotes, time : 0..MaxClock]) /\ backlog # <<>>
    BY <1>1 DEF BeginCheck, TypeOK
  <2>2. /\ Head(backlog) \in [quote : Quotes, time : 0..MaxClock]
        /\ Tail(backlog) \in Seq([quote : Quotes, time : 0..MaxClock])
    BY <2>1, HeadTailProperties
  <2> DEFINE q == Head(backlog).quote
             time == Head(backlog).time
  <2>3. /\ q \in Quotes /\ time \in 0..MaxClock
        /\ q.symbol \in Symbols /\ q.price \in Nat /\ q.close \in Nat
    BY <2>2, EngineConstants
  <2>4. /\ sessionRefs' = [sessionRefs EXCEPT ![q.symbol] =
                             IF q.price > 0 /\ q.close > 0 THEN q.close ELSE @]
        /\ refPrices' = [refPrices EXCEPT ![q.symbol] = IF @ = NoPrice THEN q.price ELSE @]
        /\ check' = [quote  |-> q,
                     now    |-> IF time = 0 THEN clock ELSE time,
                     base   |-> IF sessionRefs'[q.symbol] > 0
                                THEN sessionRefs'[q.symbol] ELSE refPrices'[q.symbol],
                     prices |-> history[q.symbol],
                     next   |-> 1]
        /\ backlog' = Tail(backlog)
        /\ UNCHANGED <<clock, history, arrived, rulesVars, memoryVars>>
    BY <1>1 DEF BeginCheck
  <2> HIDE DEF q, time
  <2>5. /\ sessionRefs' \in [Symbols -> Nat] /\ refPrices' \in [Symbols -> Nat \cup {NoPrice}]
        /\ refPrices'[q.symbol] \in Nat
    BY <2>3, <2>4 DEF TypeOK
  <2>6. check' \in CheckType /\ check'.next = 1
    <3>1. clock \in 0..MaxClock /\ history[q.symbol] \in Seq(Nat)
      BY <2>3 DEF TypeOK
    <3> QED BY <2>3, <2>4, <2>5, <3>1
  <2>7. check'.next <= Len(rules') + 1
    BY <1>0, <2>4, <2>6
  <2>8. /\ backlog' \in Seq([quote : Quotes, time : 0..MaxClock])
        /\ UNCHANGED <<clock, history, arrived, rulesVars, memoryVars>>
    BY <2>2, <2>4
  <2> QED BY <2>5, <2>6, <2>7, <2>8 DEF TypeOK
<1>2. ASSUME Walking, check' = [check EXCEPT !.next = @ + 1], rules' = rules
      PROVE  check' \in CheckType /\ check'.next <= Len(rules') + 1
  <2>1. check \in CheckType /\ check.next \in Nat \ {0} /\ check.next <= Len(rules)
    BY <1>2, CheckTypes DEF Walking
  <2>2. check'.next = check.next + 1 /\ check' \in CheckType
    BY <1>2, <2>1
  <2> QED BY <1>0, <1>2, <2>1, <2>2
<1>3. CASE SkipRule
  <2>1. check' \in CheckType /\ check'.next <= Len(rules') + 1
    BY <1>2, <1>3 DEF SkipRule
  <2> QED BY <1>3, <2>1 DEF SkipRule, TypeOK
<1>4. CASE ShortHistory
  <2> DEFINE k == Current.content
  <2>1. check' \in CheckType /\ check'.next <= Len(rules') + 1
    BY <1>2, <1>4 DEF ShortHistory
  <2>2. k \in Contents
    BY <1>4, CurrentTypes DEF ShortHistory
  <2>3. /\ warnedHistory' = warnedHistory \cup {k}
        /\ reports' = [reports EXCEPT ![k] =
                         Append(reports[k], [warned |-> k \notin warnedHistory, after |-> Len(log[k])])]
        /\ UNCHANGED <<feedVars, rulesVars, cooldowns, levelState, compoundState, log, baseVars>>
    BY <1>4 DEF ShortHistory
  <2> HIDE DEF k
  <2>4. reports' \in [Contents -> Seq([warned : BOOLEAN, after : Nat])]
    <3>1. /\ reports \in [Contents -> Seq([warned : BOOLEAN, after : Nat])]
          /\ log[k] \in Seq(Evaluation)
      BY <2>2 DEF TypeOK
    <3>2. Len(log[k]) \in Nat
      BY <3>1, LenProperties
    <3>3. [warned |-> k \notin warnedHistory, after |-> Len(log[k])] \in [warned : BOOLEAN, after : Nat]
      BY <3>2
    <3>4. Append(reports[k], [warned |-> k \notin warnedHistory, after |-> Len(log[k])])
            \in Seq([warned : BOOLEAN, after : Nat])
      BY <2>2, <3>1, <3>3, AppendProperties
    <3> QED BY <2>3, <3>1, <3>4
  <2>5. warnedHistory' \in SUBSET Contents
    BY <2>2, <2>3 DEF TypeOK
  <2> QED BY <2>1, <2>3, <2>4, <2>5 DEF TypeOK
<1>5. CASE EvaluateRule
  <2> DEFINE k == Current.content
             prog == Progress(k, Said(k))
             next == IF Alerts(k) THEN Fresh ELSE prog
  <2>1. check' \in CheckType /\ check'.next <= Len(rules') + 1
    BY <1>2, <1>5 DEF EvaluateRule
  <2>2. /\ k \in Contents /\ Outcome(k) \in Evaluation
        /\ warnedHistory' = warnedHistory \ {k}
        /\ levelState' = IF EdgeGated(k)
                         THEN [levelState EXCEPT ![k] = IF Fires(k, Said(k), prog)
                                                        THEN "met" ELSE "clear"]
                         ELSE levelState
        /\ cooldowns' = IF Alerts(k) THEN [cooldowns EXCEPT ![k] = check.now + Cooldown]
                        ELSE cooldowns
        /\ compoundState' = [compoundState EXCEPT ![k] = next]
        /\ log' = [log EXCEPT ![k] = Append(log[k], Outcome(k))]
        /\ UNCHANGED <<feedVars, rulesVars, reports, baseVars>>
    BY <1>5, EvaluateStep
  <2>3. ~Unlocked
    BY <1>5, EvaluateStep
  <2>4. /\ next \in [met : SUBSET Nat, next : Nat \ {0}]
        /\ next.met \subseteq DOMAIN k.conds /\ next.next <= Len(k.conds) + 1
    <3>1. /\ prog \in [met : SUBSET Nat, next : Nat \ {0}]
          /\ prog.met \subseteq DOMAIN k.conds /\ prog.next <= Len(k.conds) + 1
      BY <2>2, ProgressTypes
    <3>2. /\ Fresh \in [met : SUBSET Nat, next : Nat \ {0}]
          /\ Fresh.met \subseteq DOMAIN k.conds /\ Fresh.next <= Len(k.conds) + 1
      <4>1. Len(k.conds) \in Nat
        BY <2>2, ContentTypes
      <4> QED BY <4>1 DEF Fresh
    <3> HIDE DEF prog
    <3> QED BY <3>1, <3>2
  <2> HIDE DEF k, prog, next
  <2>5. cooldowns' \in [Contents -> 0..(MaxClock + Cooldown)]
    <3>1. check.now + Cooldown \in 0..(MaxClock + Cooldown)
      BY <2>3, CheckTypes, EngineConstants
    <3> QED BY <2>2, <3>1 DEF TypeOK
  <2>6. levelState' \in [Contents -> {"unseen", "clear", "met"}]
    BY <2>2 DEF TypeOK
  <2>7. /\ compoundState' \in [Contents -> [met : SUBSET Nat, next : Nat \ {0}]]
        /\ \A c \in Contents : /\ compoundState'[c].met \subseteq DOMAIN c.conds
                               /\ compoundState'[c].next <= Len(c.conds) + 1
    BY <2>2, <2>4 DEF TypeOK
  <2>8. log' \in [Contents -> Seq(Evaluation)]
    <3>1. log \in [Contents -> Seq(Evaluation)]
      BY DEF TypeOK
    <3>2. Append(log[k], Outcome(k)) \in Seq(Evaluation)
      BY <2>2, <3>1, AppendProperties
    <3> QED BY <2>2, <3>1, <3>2
  <2>9. warnedHistory' \in SUBSET Contents
    BY <2>2 DEF TypeOK
  <2> QED BY <2>1, <2>2, <2>5, <2>6, <2>7, <2>8, <2>9 DEF TypeOK
<1>6. CASE EndCheck
  <2>1. check' = NoCheck /\ check'.next <= Len(rules') + 1
    BY <1>0, <1>6, NoCheckTypes DEF EndCheck
  <2> QED BY <1>6, <2>1 DEF EndCheck, TypeOK
<1> QED BY <1>1, <1>3, <1>4, <1>5, <1>6 DEF Check

LEMMA UnlockedCheck ==
  ASSUME TypeOK, Unlocked
  PROVE  check = NoCheck /\ check.next = 0
BY DEF TypeOK, Unlocked

(* What an edit does to the rules, and to what is remembered of them. *)
LEMMA EditStep ==
  ASSUME TypeOK, Sessions
  PROVE  /\ Unlocked /\ edits' \in 0..MaxEdits
         /\ rules' \in Seq([content : Contents, enabled : BOOLEAN])
         /\ UNCHANGED <<feedVars, baseVars, check>>
         /\ \/ UNCHANGED memoryVars /\ Live(rules) \subseteq Live(rules')
            \/ Prune(Live(rules'))
<1> DEFINE R == [content : Contents, enabled : BOOLEAN]
<1>1. rules \in Seq(R) /\ Len(rules) \in Nat /\ DOMAIN rules = 1..Len(rules)
  <2>1. rules \in Seq(R)
    BY DEF TypeOK
  <2> QED BY <2>1, LenProperties
<1>2. Edit => Unlocked /\ edits' \in 0..MaxEdits
  BY EngineConstants DEF Edit, TypeOK
<1>3. ASSUME NEW k \in Addable, AddRule(k)
      PROVE  /\ rules' \in Seq(R) /\ UNCHANGED <<feedVars, baseVars, check>>
             /\ UNCHANGED memoryVars /\ Live(rules) \subseteq Live(rules')
  <2>1. [content |-> k, enabled |-> TRUE] \in R
    BY EngineConstants
  <2>2. /\ rules' \in Seq(R) /\ Len(rules') = Len(rules) + 1
        /\ \A i \in 1..Len(rules) : rules'[i] = rules[i]
    BY <1>1, <1>3, <2>1, AppendProperties DEF AddRule
  <2>3. DOMAIN rules' = 1..Len(rules')
    BY <2>2, LenProperties
  <2>4. \A i \in DOMAIN rules : i \in DOMAIN rules' /\ rules'[i] = rules[i]
    BY <1>1, <2>2, <2>3
  <2>5. Live(rules) \subseteq Live(rules')
    BY <2>4 DEF Live
  <2> QED BY <1>3, <2>2, <2>5 DEF AddRule
<1>4. ASSUME NEW i \in DOMAIN rules, RemoveRule(i)
      PROVE  /\ rules' \in Seq(R) /\ UNCHANGED <<feedVars, baseVars, check>>
             /\ Prune(Live(rules'))
  BY <1>1, <1>4, RemoveAtType DEF RemoveRule
<1>5. ASSUME NEW i \in DOMAIN rules, ToggleRule(i)
      PROVE  /\ rules' \in Seq(R) /\ UNCHANGED <<feedVars, baseVars, check>>
             /\ UNCHANGED memoryVars /\ Live(rules) \subseteq Live(rules')
  <2>1. rules \in [1..Len(rules) -> R] /\ i \in 1..Len(rules)
    BY <1>1, LenProperties
  <2>2. rules' = [rules EXCEPT ![i].enabled = ~rules[i].enabled]
    BY <1>5 DEF ToggleRule
  <2>3. /\ rules' \in [1..Len(rules) -> R]
        /\ \A j \in 1..Len(rules) : rules'[j].content = rules[j].content
    BY <2>1, <2>2
  <2>4. rules' \in Seq(R) /\ DOMAIN rules' = DOMAIN rules
    BY <1>1, <2>3
  <2>5. Live(rules) \subseteq Live(rules')
    BY <1>1, <2>3, <2>4 DEF Live
  <2> QED BY <1>5, <2>4, <2>5 DEF ToggleRule
<1> QED BY <1>2, <1>3, <1>4, <1>5 DEF Sessions, AddRule, RemoveRule, ToggleRule

LEMMA PruneKeepsTypes ==
  ASSUME TypeOK, NEW live, Prune(live)
  PROVE  /\ cooldowns' \in [Contents -> 0..(MaxClock + Cooldown)]
         /\ levelState' \in [Contents -> {"unseen", "clear", "met"}]
         /\ compoundState' \in [Contents -> [met : SUBSET Nat, next : Nat \ {0}]]
         /\ \A k \in Contents : /\ compoundState'[k].met \subseteq DOMAIN k.conds
                                /\ compoundState'[k].next <= Len(k.conds) + 1
         /\ warnedHistory' \in SUBSET Contents
         /\ reports' \in [Contents -> Seq([warned : BOOLEAN, after : Nat])]
         /\ log' \in [Contents -> Seq(Evaluation)]
<1>1. /\ cooldowns' \in [Contents -> 0..(MaxClock + Cooldown)]
      /\ levelState' \in [Contents -> {"unseen", "clear", "met"}]
      /\ warnedHistory' \in SUBSET Contents
  BY EngineConstants DEF Prune, Forget, TypeOK
<1>2. /\ reports' \in [Contents -> Seq([warned : BOOLEAN, after : Nat])]
      /\ log' \in [Contents -> Seq(Evaluation)]
  BY EmptySeq DEF Prune, Forget, TypeOK
<1>3. \A k \in Contents : compoundState'[k] = compoundState[k] \/ compoundState'[k] = Fresh
  BY DEF Prune, Forget
<1>4. \A k \in Contents : /\ Fresh \in [met : SUBSET Nat, next : Nat \ {0}]
                          /\ Fresh.met \subseteq DOMAIN k.conds
                          /\ Fresh.next <= Len(k.conds) + 1
  <2>1. \A k \in Contents : Len(k.conds) \in Nat
    BY ContentTypes
  <2> QED BY <2>1 DEF Fresh
<1>5. /\ compoundState \in [Contents -> [met : SUBSET Nat, next : Nat \ {0}]]
      /\ \A k \in Contents : /\ compoundState[k].met \subseteq DOMAIN k.conds
                             /\ compoundState[k].next <= Len(k.conds) + 1
  BY DEF TypeOK
<1>6. compoundState' = [k \in Contents |-> IF k \in live THEN compoundState[k] ELSE Fresh]
  BY DEF Prune, Forget
<1> HIDE DEF Fresh
<1>7. compoundState' \in [Contents -> [met : SUBSET Nat, next : Nat \ {0}]]
  BY <1>4, <1>5, <1>6
<1>8. \A k \in Contents : /\ compoundState'[k].met \subseteq DOMAIN k.conds
                          /\ compoundState'[k].next <= Len(k.conds) + 1
  BY <1>3, <1>4, <1>5
<1> QED BY <1>1, <1>2, <1>7, <1>8

LEMMA NextTypeOK ==
  ASSUME TypeOK, [Next]_vars
  PROVE  TypeOK'
<1>1. CASE Sessions
  <2>1. /\ Unlocked /\ edits' \in 0..MaxEdits
        /\ rules' \in Seq([content : Contents, enabled : BOOLEAN])
        /\ UNCHANGED <<feedVars, baseVars, check>>
        /\ UNCHANGED memoryVars \/ Prune(Live(rules'))
    BY <1>1, EditStep
  <2>2. check' = NoCheck /\ check'.next <= Len(rules') + 1
    <3>1. Len(rules') \in Nat
      BY <2>1, LenProperties
    <3> QED BY <2>1, <3>1, UnlockedCheck
  <2>3. CASE UNCHANGED memoryVars
    BY <2>1, <2>2, <2>3 DEF TypeOK, feedVars, baseVars, memoryVars
  <2>4. CASE Prune(Live(rules'))
    <3> DEFINE live == Live(rules')
    <3>1. Prune(live)
      BY <2>4
    <3> HIDE DEF live
    <3>2. /\ cooldowns' \in [Contents -> 0..(MaxClock + Cooldown)]
          /\ levelState' \in [Contents -> {"unseen", "clear", "met"}]
          /\ compoundState' \in [Contents -> [met : SUBSET Nat, next : Nat \ {0}]]
          /\ \A k \in Contents : /\ compoundState'[k].met \subseteq DOMAIN k.conds
                                 /\ compoundState'[k].next <= Len(k.conds) + 1
          /\ warnedHistory' \in SUBSET Contents
          /\ reports' \in [Contents -> Seq([warned : BOOLEAN, after : Nat])]
          /\ log' \in [Contents -> Seq(Evaluation)]
      BY <3>1, PruneKeepsTypes
    <3> QED BY <2>1, <2>2, <3>2 DEF TypeOK, feedVars, baseVars
  <2> QED BY <2>1, <2>3, <2>4
<1>2. CASE UNCHANGED vars
  BY <1>2 DEF TypeOK, vars, feedVars, rulesVars, memoryVars, baseVars
<1> QED BY <1>1, <1>2, TickKeepsTypes, CheckKeepsTypes DEF Next

-----------------------------------------------------------------------------
(* What is remembered, rule by rule.                                       *)

SameRule(k) ==
  /\ cooldowns'[k] = cooldowns[k] /\ levelState'[k] = levelState[k]
  /\ compoundState'[k] = compoundState[k] /\ (k \in warnedHistory' <=> k \in warnedHistory)
  /\ reports'[k] = reports[k] /\ log'[k] = log[k]

NewRule(k) ==
  /\ cooldowns'[k] = 0 /\ levelState'[k] = "unseen" /\ compoundState'[k] = Fresh
  /\ k \notin warnedHistory' /\ reports'[k] = <<>> /\ log'[k] = <<>>

(* A step that is neither an evaluation nor a report leaves every rule as  *)
(* it was, or forgets one that is gone.                                    *)
LEMMA OtherSteps ==
  ASSUME TypeOK, [Next]_vars, ~EvaluateRule, ~ShortHistory, NEW k \in Contents
  PROVE  /\ k \in Live(rules') => SameRule(k)
         /\ k \notin Live(rules') => NewRule(k) \/ (SameRule(k) /\ k \notin Live(rules))
<1> USE DEF rulesVars, memoryVars
<1>1. CASE UNCHANGED memoryVars /\ Live(rules) \subseteq Live(rules')
  BY <1>1 DEF SameRule
<1>2. CASE Prune(Live(rules'))
  BY <1>2 DEF Prune, Forget, SameRule, NewRule
<1>3. CASE UNCHANGED <<memoryVars, rules>>
  BY <1>1, <1>3
<1>4. CASE Sessions
  BY <1>1, <1>2, <1>4, EditStep
<1> QED
  BY <1>3, <1>4
  DEF Next, Tick, Arrive, Check, BeginCheck, SkipRule, EndCheck, vars

(* An evaluation or a report is about one rule, which is there. *)
LEMMA OthersStay ==
  ASSUME TypeOK, EvaluateRule \/ ShortHistory, NEW k \in Contents, k # Current.content
  PROVE  SameRule(k)
<1>1. CASE EvaluateRule
  <2> DEFINE c == Current.content
             next == IF Alerts(c) THEN Fresh ELSE Progress(c, Said(c))
             level == IF Fires(c, Said(c), Progress(c, Said(c))) THEN "met" ELSE "clear"
  <2>1. /\ warnedHistory' = warnedHistory \ {c}
        /\ levelState' = [levelState EXCEPT ![c] = level] \/ levelState' = levelState
        /\ cooldowns' = [cooldowns EXCEPT ![c] = check.now + Cooldown] \/ cooldowns' = cooldowns
        /\ compoundState' = [compoundState EXCEPT ![c] = next]
        /\ log' = [log EXCEPT ![c] = Append(log[c], Outcome(c))]
        /\ reports' = reports
    BY <1>1, EvaluateStep
  <2> HIDE DEF c, next, level
  <2>2. k # c
    BY DEF c
  <2> QED BY <2>1, <2>2 DEF SameRule, TypeOK
<1>2. CASE ShortHistory
  BY <1>2 DEF ShortHistory, SameRule, TypeOK
<1> QED BY <1>1, <1>2

LEMMA ReportStep ==
  ASSUME TypeOK, ShortHistory
  PROVE  LET k == Current.content IN
         /\ k \in Contents /\ k \in Live(rules) /\ ~Unlocked /\ k.symbol = check.quote.symbol
         /\ ~Ready(k)
         /\ cooldowns' = cooldowns /\ levelState' = levelState
         /\ compoundState' = compoundState /\ log' = log
         /\ warnedHistory' = warnedHistory \cup {k}
         /\ reports'[k] = Append(reports[k], [warned |-> k \notin warnedHistory,
                                              after |-> Len(log[k])])
         /\ UNCHANGED <<feedVars, rulesVars, baseVars>> /\ check' = [check EXCEPT !.next = @ + 1]
<1>1. Walking /\ ~Unlocked
  BY DEF ShortHistory, Walking
<1>2. Current.content \in Contents /\ Current.content \in Live(rules)
  BY <1>1, CurrentTypes
<1> QED BY <1>1, <1>2 DEF ShortHistory, Concerned, TypeOK

LEMMA NextGoneForgotten ==
  ASSUME TypeOK, GoneForgotten, [Next]_vars
  PROVE  GoneForgotten'
<1> SUFFICES ASSUME NEW k \in Contents, k \notin Live(rules')
             PROVE  /\ Memory(k)' = <<0, "unseen", Fresh, FALSE>>
                    /\ reports'[k] = <<>> /\ log'[k] = <<>>
  BY DEF GoneForgotten
<1>1. CASE NewRule(k)
  <2>1. (k \in warnedHistory') = FALSE
    BY <1>1 DEF NewRule
  <2> QED BY <1>1, <2>1 DEF NewRule, Memory
<1>2. CASE SameRule(k) /\ k \notin Live(rules)
  <2>1. /\ Memory(k) = <<0, "unseen", Fresh, FALSE>>
        /\ reports[k] = <<>> /\ log[k] = <<>>
    BY <1>2 DEF GoneForgotten
  <2>2. Memory(k)' = Memory(k)
    BY <1>2 DEF SameRule, Memory
  <2> QED BY <1>2, <2>1, <2>2 DEF SameRule
<1>3. CASE EvaluateRule \/ ShortHistory
  <2>1. Live(rules') = Live(rules) /\ Current.content \in Live(rules)
    <3>1. rules' = rules
      BY <1>3 DEF EvaluateRule, ShortHistory, rulesVars
    <3>2. Walking
      BY <1>3 DEF EvaluateRule, ShortHistory
    <3> QED BY <3>1, <3>2, CurrentTypes
  <2>2. k \notin Live(rules) /\ k # Current.content
    BY <2>1
  <2> QED BY <1>2, <1>3, <2>2, OthersStay
<1> QED BY <1>1, <1>2, <1>3, OtherSteps

(* An edit keeps the memory of every rule that stays, and nothing behind.  *)
LEMMA EditKeepsMemory ==
  ASSUME TypeOK, GoneForgotten, [Next]_vars, rules' # rules, NEW k \in Contents
  PROVE  Memory(k)' = IF k \in Live(rules') THEN Memory(k) ELSE <<0, "unseen", Fresh, FALSE>>
<1>1. ~EvaluateRule /\ ~ShortHistory
  BY DEF EvaluateRule, ShortHistory, rulesVars
<1>2. CASE k \in Live(rules')
  BY <1>1, <1>2, OtherSteps DEF SameRule, Memory
<1>3. CASE k \notin Live(rules')
  BY <1>3, NextGoneForgotten DEF GoneForgotten
<1> QED BY <1>2, <1>3

-----------------------------------------------------------------------------
(* What was once enough history stays enough.                              *)

LEMMA EnoughMore ==
  ASSUME NEW k \in Contents, NEW n \in Nat, NEW m \in Nat, n <= m, Enough(k, n)
  PROVE  Enough(k, m)
<1> SUFFICES ASSUME NEW i \in DOMAIN k.conds PROVE RequiredHistory(k.conds[i]) <= m
  BY DEF Enough
<1>1. RequiredHistory(k.conds[i]) \in Int /\ RequiredHistory(k.conds[i]) <= n
  BY RequiredIsNumber DEF Enough
<1> QED BY <1>1

(* The lock is taken by BeginCheck, and what it read stays. *)
LEMMA CheckStep ==
  ASSUME TypeOK, [Next]_vars, ~Unlocked', ~BeginCheck
  PROVE  ~Unlocked /\ check'.prices = check.prices /\ check'.quote = check.quote
<1>1. ASSUME check' = check PROVE ~Unlocked /\ check' = check
  BY <1>1 DEF Unlocked
<1>2. ASSUME Walking, check' = [check EXCEPT !.next = @ + 1]
      PROVE  ~Unlocked /\ check'.prices = check.prices /\ check'.quote = check.quote
  BY <1>2, CheckTypes DEF Walking
<1>3. CASE Sessions
  BY <1>1, <1>3, EditStep
<1>4. CASE SkipRule \/ ShortHistory \/ EvaluateRule
  BY <1>2, <1>4 DEF SkipRule, ShortHistory, EvaluateRule
<1>5. ~EndCheck
  BY DEF EndCheck, Unlocked, NoCheck
<1> QED BY <1>1, <1>3, <1>4, <1>5 DEF Next, Tick, Arrive, Check, vars

LEMMA RingsGrow ==
  ASSUME TypeOK, [Next]_vars, NEW s \in Symbols
  PROVE  /\ Len(history[s]) \in Nat /\ Len(history'[s]) \in Nat
         /\ Len(history[s]) <= Len(history'[s])
<1>1. history \in [Symbols -> Seq(Nat)] /\ \A x \in Symbols : Len(history[x]) <= RingSize
  BY DEF TypeOK
<1>2. Len(history[s]) \in Nat /\ Len(history[s]) <= Len(history[s])
  BY <1>1, LenProperties
<1>3. ASSUME NEW q \in Quotes, NEW time \in {0, clock}, Arrive(q, time)
      PROVE  Len(history'[s]) \in Nat /\ Len(history[s]) <= Len(history'[s])
  <2>1. q.symbol \in Symbols /\ q.price \in Nat
    BY EngineConstants
  <2>2. history' = [history EXCEPT ![q.symbol] = Pushed(history[q.symbol], q.price)]
    BY <1>3 DEF Arrive
  <2>3. /\ Pushed(history[q.symbol], q.price) \in Seq(Nat)
        /\ Len(history[q.symbol]) <= Len(Pushed(history[q.symbol], q.price))
    BY <1>1, <2>1, PushedProperties
  <2>4. Len(Pushed(history[q.symbol], q.price)) \in Nat
    BY <2>3, LenProperties
  <2> QED BY <1>1, <1>2, <2>1, <2>2, <2>3, <2>4
<1>4. CASE history' = history
  BY <1>2, <1>4
<1>5. CASE Sessions
  BY <1>4, <1>5, EditStep DEF feedVars
<1> QED
  BY <1>2, <1>3, <1>4, <1>5
  DEF Next, Tick, Check, BeginCheck, SkipRule, ShortHistory, EvaluateRule, EndCheck, vars, feedVars

(* Only an evaluation starts a log. *)
LEMMA LogStarts ==
  ASSUME TypeOK, [Next]_vars, NEW k \in Contents, log'[k] # <<>>
  PROVE  log[k] # <<>> \/ (EvaluateRule /\ k = Current.content)
<1>1. CASE ~EvaluateRule /\ ~ShortHistory
  BY <1>1, OtherSteps DEF SameRule, NewRule
<1>2. CASE ShortHistory
  BY <1>2 DEF ShortHistory
<1>3. CASE EvaluateRule /\ k # Current.content
  BY <1>3, OthersStay DEF SameRule
<1> QED BY <1>1, <1>2, <1>3

LEMMA NextHistoryKept ==
  ASSUME TypeOK, HistoryKept, [Next]_vars
  PROVE  HistoryKept'
<1>1. ASSUME EvaluateRule
      PROVE  LET k == Current.content IN
             /\ k \in Contents /\ k.symbol = check.quote.symbol /\ Ready(k) /\ ~Unlocked
             /\ Enough(k, Len(check.prices))
  BY <1>1, EvaluateStep DEF Ready, Enough
<1>2. ASSUME ~Unlocked
      PROVE  /\ Len(check.prices) \in Nat /\ check.quote.symbol \in Symbols
             /\ Len(check.prices) <= Len(history[check.quote.symbol])
  BY <1>2, CheckTypes, EngineConstants DEF HistoryKept
<1>3. ASSUME NEW k \in Contents, log'[k] # <<>>
      PROVE  Enough(k, Len(history'[k.symbol]))
  <2>1. Enough(k, Len(history[k.symbol]))
    <3>1. k.symbol \in Symbols
      BY ContentTypes
    <3>2. CASE log[k] # <<>>
      BY <3>2 DEF HistoryKept
    <3>3. CASE EvaluateRule /\ k = Current.content
      BY <1>1, <1>2, <3>1, <3>3, EnoughMore, RingsGrow
    <3> QED BY <1>3, <3>2, <3>3, LogStarts
  <2> QED BY <2>1, ContentTypes, RingsGrow, EnoughMore
<1>4. ASSUME ~Unlocked'
      PROVE  /\ Len(check'.prices) <= Len(history'[check'.quote.symbol])
             /\ \A k \in Contents :
                  k.symbol = check'.quote.symbol /\ log'[k] # <<>> => Enough(k, Len(check'.prices))
  <2>1. CASE BeginCheck
    <3>1. /\ check'.quote = Head(backlog).quote /\ check'.prices = history[check'.quote.symbol]
          /\ history' = history /\ log' = log
      BY <2>1 DEF BeginCheck, memoryVars
    <3>2. check'.quote.symbol \in Symbols
      <4>1. backlog \in Seq([quote : Quotes, time : 0..MaxClock]) /\ backlog # <<>>
        BY <2>1 DEF BeginCheck, TypeOK
      <4>2. Head(backlog) \in [quote : Quotes, time : 0..MaxClock]
        BY <4>1, HeadTailProperties
      <4> QED BY <3>1, <4>2, EngineConstants
    <3>3. Len(check'.prices) <= Len(history'[check'.quote.symbol])
      BY <3>1, <3>2, RingsGrow
    <3> QED BY <3>1, <3>3 DEF HistoryKept
  <2>2. CASE ~BeginCheck
    <3>1. ~Unlocked /\ check'.prices = check.prices /\ check'.quote = check.quote
      BY <1>4, <2>2, CheckStep
    <3>2. Len(check.prices) <= Len(history'[check.quote.symbol])
      <4>1. /\ Len(history[check.quote.symbol]) \in Nat /\ Len(history'[check.quote.symbol]) \in Nat
            /\ Len(history[check.quote.symbol]) <= Len(history'[check.quote.symbol])
        BY <1>2, <3>1, RingsGrow
      <4> QED BY <1>2, <3>1, <4>1
    <3>3. ASSUME NEW k \in Contents, k.symbol = check.quote.symbol, log'[k] # <<>>
          PROVE  Enough(k, Len(check.prices))
      <4>1. CASE log[k] # <<>>
        BY <3>1, <3>3, <4>1 DEF HistoryKept, Ready, Enough
      <4> QED BY <1>1, <3>3, <4>1, LogStarts
    <3> QED BY <3>1, <3>2, <3>3
  <2> QED BY <2>1, <2>2
<1> QED BY <1>3, <1>4 DEF HistoryKept, Ready, Enough

-----------------------------------------------------------------------------
(* The properties, rule by rule.                                           *)

LevelRight(k) ==
  k.match \in {"single", "any"} =>
    \A i \in 1..Len(log[k]) :
      log[k][i].alert <=> /\ Holds(log[k][i])
                          /\ EdgeGated(k) => i > 1 /\ ~Holds(log[k][i - 1])
                          /\ Cooled(log[k], i)

LatchRight(k) ==
  k.match \in {"all", "sequence"} =>
    \A i \in 1..Len(log[k]) : \E a \in 0..(i - 1) :
      /\ IsLast(log[k], i - 1, a)
      /\ log[k][i].alert <=> Completed(k, log[k], a + 1, i) /\ Cooled(log[k], i)

ReportRight(k) ==
  \A i \in 1..Len(reports[k]) :
    /\ reports[k][i].warned <=> i = 1
    /\ reports[k][i].after = 0

RuleRight(k) == LevelRight(k) /\ LatchRight(k) /\ ReportRight(k)

LEMMA SameStays ==
  ASSUME NEW k, RuleKept(k), RuleRight(k), SameRule(k)
  PROVE  RuleKept(k)' /\ RuleRight(k)'
<1>1. CooldownKept(k)'
  BY DEF RuleKept, CooldownKept, SameRule
<1>2. EdgeKept(k)'
  BY DEF RuleKept, EdgeKept, SameRule, EdgeGated
<1>3. LatchKept(k)'
  BY DEF RuleKept, LatchKept, SameRule
<1>4. SequenceKept(k)'
  BY DEF RuleKept, SequenceKept, SameRule
<1>5. WarningKept(k)'
  BY DEF RuleKept, WarningKept, SameRule
<1>6. LevelRight(k)'
  BY DEF RuleRight, LevelRight, SameRule, EdgeGated
<1>7. LatchRight(k)'
  BY DEF RuleRight, LatchRight, SameRule
<1>8. ReportRight(k)'
  BY DEF RuleRight, ReportRight, SameRule
<1> QED BY <1>1, <1>2, <1>3, <1>4, <1>5, <1>6, <1>7, <1>8 DEF RuleKept, RuleRight

LEMMA EmptyIsLast ==
  ASSUME NEW l, NEW n \in Nat
  PROVE  /\ n = 0 => IsLast(l, n, n)
         /\ \A x : ~\E j \in (n + 1)..n : l[j].holds[x]
BY DEF IsLast

LEMMA NewIsRight ==
  ASSUME NEW k, NewRule(k)
  PROVE  RuleKept(k)' /\ RuleRight(k)'
<1>1. /\ log'[k] = <<>> /\ reports'[k] = <<>> /\ Len(log'[k]) = 0 /\ Len(reports'[k]) = 0
      /\ cooldowns'[k] = 0 /\ levelState'[k] = "unseen" /\ k \notin warnedHistory'
      /\ compoundState'[k].met = {} /\ compoundState'[k].next = 1
  BY EmptySeq DEF NewRule, Fresh
<1>2. 1..0 = {} /\ 0 \in 0..0 /\ 0 + 1 = 1 /\ 1 - 1 = 0
  OBVIOUS
<1>3. CooldownKept(k)' /\ EdgeKept(k)'
  BY <1>1, <1>2 DEF CooldownKept, EdgeKept
<1>4. LatchKept(k)'
  <2>1. /\ IsLast(log'[k], Len(log'[k]), 0)
        /\ \A x : ~\E j \in (0 + 1)..Len(log'[k]) : log'[k][j].holds[x]
    BY <1>1, <1>2, EmptyIsLast
  <2> QED BY <1>1, <1>2, <2>1 DEF LatchKept
<1>5. SequenceKept(k)'
  <2>1. /\ IsLast(log'[k], Len(log'[k]), 0)
        /\ InTurn(log'[k], 0, 0 + 1, Len(log'[k])) /\ ~InTurn(log'[k], 1, 0 + 1, Len(log'[k]))
    BY <1>1, <1>2, EmptyIsLast, NoneInTurn
  <2> QED BY <1>1, <1>2, <2>1 DEF SequenceKept
<1>6. WarningKept(k)'
  BY <1>1 DEF WarningKept
<1>7. RuleRight(k)'
  BY <1>1, <1>2 DEF RuleRight, LevelRight, LatchRight, ReportRight
<1> QED BY <1>3, <1>4, <1>5, <1>6, <1>7 DEF RuleKept

(* A rule is only ever reported before its first evaluation. *)
LEMMA ReportIsRight ==
  ASSUME TypeOK, HistoryKept, ShortHistory, NEW k \in Contents, k = Current.content,
         RuleKept(k), RuleRight(k)
  PROVE  RuleKept(k)' /\ RuleRight(k)'
<1>1. /\ ~Unlocked /\ k.symbol = check.quote.symbol /\ ~Ready(k)
      /\ cooldowns' = cooldowns /\ levelState' = levelState
      /\ compoundState' = compoundState /\ log' = log
      /\ warnedHistory' = warnedHistory \cup {k}
      /\ reports'[k] = Append(reports[k], [warned |-> k \notin warnedHistory, after |-> Len(log[k])])
  BY ReportStep
<1>2. log[k] = <<>> /\ Len(log[k]) = 0
  BY <1>1, EmptySeq DEF HistoryKept
<1> DEFINE r == Len(reports[k])
           e == [warned |-> k \notin warnedHistory, after |-> Len(log[k])]
<1>3. e.after = 0 /\ (e.warned <=> reports[k] = <<>>)
  BY <1>2 DEF RuleKept, WarningKept
<1>4. /\ r \in Nat /\ (reports[k] = <<>> <=> r = 0)
      /\ Len(reports'[k]) = r + 1 /\ reports'[k][r + 1] = e
      /\ \A i \in 1..r : reports'[k][i] = reports[k][i]
  <2>1. reports[k] \in Seq([warned : BOOLEAN, after : Nat])
    BY DEF TypeOK
  <2>2. e \in [warned : BOOLEAN, after : Nat]
    BY <1>2
  <2>3. /\ Len(reports'[k]) = r + 1 /\ reports'[k][r + 1] = e
        /\ \A i \in 1..r : reports'[k][i] = reports[k][i]
    BY <1>1, <2>1, <2>2, AppendProperties
  <2> QED BY <2>1, <2>3, LenProperties, EmptySeq
<1> HIDE DEF r, e
<1>5. ReportRight(k)'
  <2>1. ASSUME NEW i \in 1..(r + 1)
        PROVE  (reports'[k][i].warned <=> i = 1) /\ reports'[k][i].after = 0
    <3>1. CASE i = r + 1
      BY <1>3, <1>4, <3>1
    <3>2. CASE i \in 1..r
      BY <1>4, <3>2 DEF RuleRight, ReportRight, r
    <3> QED BY <1>4, <3>1, <3>2
  <2> QED BY <1>4, <2>1 DEF ReportRight
<1>6. WarningKept(k)'
  <2>1. reports'[k] # <<>>
    BY <1>4, EmptySeq
  <2> QED BY <1>1, <2>1 DEF WarningKept
<1>7. CooldownKept(k)' /\ EdgeKept(k)' /\ LatchKept(k)' /\ SequenceKept(k)'
  <2>1. CooldownKept(k)'
    BY <1>1 DEF RuleKept, CooldownKept
  <2>2. EdgeKept(k)'
    BY <1>1 DEF RuleKept, EdgeKept, EdgeGated
  <2>3. LatchKept(k)'
    BY <1>1 DEF RuleKept, LatchKept
  <2>4. SequenceKept(k)'
    BY <1>1 DEF RuleKept, SequenceKept
  <2> QED BY <2>1, <2>2, <2>3, <2>4
<1>8. LevelRight(k)' /\ LatchRight(k)'
  BY <1>1, <1>2 DEF LevelRight, LatchRight
<1> QED BY <1>5, <1>6, <1>7, <1>8 DEF RuleKept, RuleRight

-----------------------------------------------------------------------------
(* An evaluation, seen from the rule it is about: l is its log, e what is  *)
(* added to it.                                                            *)

LEMMA EvaluatedRule ==
  ASSUME TypeOK, EvaluateRule, NEW k \in Contents, k = Current.content
  PROVE  LET l == log[k]
             e == Outcome(k)
         IN  /\ ~Unlocked /\ l \in Seq(Evaluation) /\ e \in Evaluation
             /\ log'[k] = Append(l, e) /\ reports'[k] = reports[k]
             /\ cooldowns'[k] = IF e.alert THEN e.now + Cooldown ELSE cooldowns[k]
             /\ EdgeGated(k) =>
                  levelState'[k] = IF Fires(k, Said(k), Progress(k, Said(k))) THEN "met" ELSE "clear"
             /\ compoundState'[k] = IF e.alert THEN Fresh ELSE Progress(k, Said(k))
             /\ e.now = check.now /\ e.holds = Said(k) /\ (e.alert <=> Alerts(k))
             /\ e.now \in Nat /\ cooldowns[k] \in Nat
<1>1. /\ ~Unlocked /\ Outcome(k) \in Evaluation
      /\ levelState' = IF EdgeGated(k)
                       THEN [levelState EXCEPT ![k] = IF Fires(k, Said(k), Progress(k, Said(k)))
                                                      THEN "met" ELSE "clear"]
                       ELSE levelState
      /\ cooldowns' = IF Alerts(k) THEN [cooldowns EXCEPT ![k] = check.now + Cooldown]
                      ELSE cooldowns
      /\ compoundState' = [compoundState EXCEPT ![k] =
                             IF Alerts(k) THEN Fresh ELSE Progress(k, Said(k))]
      /\ log' = [log EXCEPT ![k] = Append(log[k], Outcome(k))]
      /\ UNCHANGED <<feedVars, rulesVars, reports, baseVars>>
  BY EvaluateStep
<1>2. /\ log \in [Contents -> Seq(Evaluation)] /\ cooldowns \in [Contents -> 0..(MaxClock + Cooldown)]
      /\ levelState \in [Contents -> {"unseen", "clear", "met"}]
      /\ compoundState \in [Contents -> [met : SUBSET Nat, next : Nat \ {0}]]
  BY DEF TypeOK
<1>3. /\ Outcome(k).now = check.now /\ Outcome(k).holds = Said(k)
      /\ (Outcome(k).alert <=> Alerts(k))
  BY DEF Outcome
<1>4. check.now \in Nat /\ cooldowns[k] \in Nat
  <2>1. check.now \in 0..MaxClock /\ cooldowns[k] \in 0..(MaxClock + Cooldown)
    BY <1>1, <1>2, CheckTypes
  <2> QED BY <2>1
<1> HIDE DEF EvaluateRule, TypeOK
<1> QED BY <1>1, <1>2, <1>3, <1>4

(* An alert is a cooldown away from every earlier one just when the end of *)
(* the last cooldown has come.                                             *)
LEMMA CooledNow ==
  ASSUME TypeOK, EvaluateRule, NEW k \in Contents, k = Current.content, CooldownKept(k)
  PROVE  /\ Cooled(log'[k], Len(log[k]) + 1) <=> check.now >= cooldowns[k]
         /\ CooldownKept(k)'
<1> DEFINE l == log[k]
           e == Outcome(k)
           t == log'[k]
           n == Len(l)
           c == cooldowns[k]
<1>1. /\ l \in Seq(Evaluation) /\ e \in Evaluation /\ t = Append(l, e)
      /\ cooldowns'[k] = IF e.alert THEN e.now + Cooldown ELSE c
      /\ e.now = check.now /\ (e.alert <=> Alerts(k))
      /\ e.now \in Nat /\ c \in Nat
  BY EvaluatedRule
<1>2. /\ n \in Nat /\ Len(t) = n + 1 /\ t[n + 1] = e /\ n + 1 - 1 = n /\ n + 1 \in 1..(n + 1)
      /\ \A i \in 1..n : t[i] = l[i] /\ i \in 1..(n + 1)
      /\ \A i \in 1..(n + 1) : i \in 1..n \/ i = n + 1
  <2>1. /\ n \in Nat /\ Len(t) = n + 1 /\ t[n + 1] = e
        /\ \A i \in 1..n : t[i] = l[i]
        /\ \A i \in 1..(n + 1) : i \in 1..n \/ i = n + 1
    BY <1>1, LogAppend
  <2> QED BY <2>1
<1>3. \A i \in 1..n : l[i].now \in Nat
  <2> SUFFICES ASSUME NEW i \in 1..n PROVE l[i].now \in Nat
    OBVIOUS
  <2>1. l[i] \in Evaluation
    BY <1>1, ElementOfSeq
  <2> QED BY <2>1, EngineConstants DEF Evaluation
<1>4. /\ \A j \in 1..n : l[j].alert => c >= l[j].now + Cooldown
      /\ c # 0 => \E j \in 1..n : l[j].alert /\ c = l[j].now + Cooldown
  BY DEF CooldownKept
<1>5. e.alert => e.now >= c
  BY <1>1 DEF Alerts
<1> HIDE DEF l, e, t, n, c
<1>6. Cooled(t, n + 1) <=> e.now >= c
  <2>1. ASSUME e.now >= c PROVE Cooled(t, n + 1)
    <3> SUFFICES ASSUME NEW j \in 1..n, l[j].alert PROVE e.now >= l[j].now + Cooldown
      BY <1>2 DEF Cooled
    <3>1. c >= l[j].now + Cooldown /\ l[j].now \in Nat
      BY <1>3, <1>4
    <3> QED BY <1>1, <2>1, <3>1, EngineConstants
  <2>2. ASSUME Cooled(t, n + 1) PROVE e.now >= c
    <3>1. CASE c = 0
      BY <1>1, <3>1
    <3>2. CASE c # 0
      <4>1. PICK j \in 1..n : l[j].alert /\ c = l[j].now + Cooldown
        BY <1>4, <3>2
      <4> QED BY <1>2, <2>2, <4>1 DEF Cooled
    <3> QED BY <3>1, <3>2
  <2> QED BY <2>1, <2>2
<1>7. /\ \A j \in 1..(n + 1) : t[j].alert => cooldowns'[k] >= t[j].now + Cooldown
      /\ cooldowns'[k] # 0 =>
           \E j \in 1..(n + 1) : t[j].alert /\ cooldowns'[k] = t[j].now + Cooldown
  <2>1. CASE e.alert
    <3>1. cooldowns'[k] = e.now + Cooldown /\ e.now \in Nat /\ e.now >= c /\ c \in Nat
      BY <1>1, <1>5, <2>1
    <3>2. ASSUME NEW j \in 1..n, l[j].alert PROVE cooldowns'[k] >= l[j].now + Cooldown
      <4>1. c >= l[j].now + Cooldown /\ l[j].now \in Nat
        BY <1>3, <1>4, <3>2
      <4> QED BY <3>1, <4>1, EngineConstants
    <3>3. cooldowns'[k] >= e.now + Cooldown
      BY <3>1, EngineConstants
    <3> QED BY <1>2, <2>1, <3>1, <3>2, <3>3
  <2>2. CASE ~e.alert
    <3>1. cooldowns'[k] = c
      BY <1>1, <2>2
    <3> QED BY <1>2, <1>4, <2>2, <3>1
  <2> QED BY <2>1, <2>2
<1>8. CooldownKept(k)'
  BY <1>2, <1>7 DEF CooldownKept, t
<1> QED BY <1>1, <1>6, <1>8 DEF t, n, l, c

(* What is said of an earlier evaluation stays true. *)
LEMMA EarlierStays ==
  ASSUME NEW l \in Seq(Evaluation), NEW e \in Evaluation, NEW i \in 1..Len(l)
  PROVE  /\ Append(l, e)[i] = l[i] /\ (i > 1 => Append(l, e)[i - 1] = l[i - 1])
         /\ Cooled(Append(l, e), i) <=> Cooled(l, i)
         /\ \A a \in 0..(i - 1) : IsLast(Append(l, e), i - 1, a) <=> IsLast(l, i - 1, a)
         /\ \A k \in Contents, a \in 0..(i - 1) :
              Completed(k, Append(l, e), a + 1, i) <=> Completed(k, l, a + 1, i)
<1> DEFINE n == Len(l)
           t == Append(l, e)
<1>1. n \in Nat /\ i \in 1..n /\ \A j \in 1..n : t[j] = l[j]
  BY LogAppend
<1> HIDE DEF n, t
<1>2. i \in Nat /\ \A j \in 1..(i - 1) : j \in 1..n
  BY <1>1
<1>3. t[i] = l[i] /\ (i > 1 => t[i - 1] = l[i - 1])
  <2>1. i > 1 => i - 1 \in 1..n
    BY <1>1
  <2> QED BY <1>1, <2>1
<1>4. Cooled(t, i) <=> Cooled(l, i)
  BY <1>1, <1>2 DEF Cooled
<1>5. ASSUME NEW a \in 0..(i - 1) PROVE IsLast(t, i - 1, a) <=> IsLast(l, i - 1, a)
  <2>1. /\ a > 0 => a \in 1..n
        /\ \A j \in (a + 1)..(i - 1) : j \in 1..n
    BY <1>1
  <2> QED BY <1>1, <2>1 DEF IsLast
<1>6. ASSUME NEW k \in Contents, NEW a \in 0..(i - 1)
      PROVE  Completed(k, t, a + 1, i) <=> Completed(k, l, a + 1, i)
  <2>1. \A j \in (a + 1)..i : j \in 1..n /\ t[j] = l[j]
    BY <1>1
  <2>2. CASE k.match = "all"
    BY <2>1, <2>2 DEF Completed
  <2>3. CASE k.match # "all"
    <3>1. ASSUME NEW at \in [DOMAIN k.conds -> (a + 1)..i], NEW x \in DOMAIN k.conds
          PROVE  t[at[x]] = l[at[x]]
      <4>1. at[x] \in (a + 1)..i
        OBVIOUS
      <4> QED BY <2>1, <4>1
    <3> QED BY <2>3, <3>1 DEF Completed
  <2> QED BY <2>2, <2>3
<1> QED BY <1>3, <1>4, <1>5, <1>6 DEF t

LEMMA EvaluatedLevel ==
  ASSUME TypeOK, EvaluateRule, NEW k \in Contents, k = Current.content,
         RuleKept(k), LevelRight(k)
  PROVE  EdgeKept(k)' /\ LevelRight(k)'
<1> DEFINE l == log[k]
           e == Outcome(k)
           t == log'[k]
           n == Len(l)
<1>1. /\ l \in Seq(Evaluation) /\ e \in Evaluation /\ t = Append(l, e)
      /\ e.holds = Said(k) /\ (e.alert <=> Alerts(k))
      /\ EdgeGated(k) =>
           levelState'[k] = IF Fires(k, Said(k), Progress(k, Said(k))) THEN "met" ELSE "clear"
  BY EvaluatedRule
<1>2. /\ n \in Nat /\ Len(t) = n + 1 /\ t[n + 1] = e /\ n + 1 - 1 = n /\ (n + 1 > 1 <=> n > 0)
      /\ n > 0 => t[n] = l[n]
      /\ n + 1 > 0
      /\ \A i \in 1..(n + 1) : i \in 1..n \/ i = n + 1
  <2>1. /\ n \in Nat /\ Len(t) = n + 1 /\ t[n + 1] = e
        /\ \A i \in 1..n : t[i] = l[i]
        /\ \A i \in 1..(n + 1) : i \in 1..n \/ i = n + 1
    BY <1>1, LogAppend
  <2>2. n > 0 => n \in 1..n
    BY <2>1
  <2> QED BY <2>1, <2>2
<1>3. k.match \in {"single", "any"} => (Fires(k, Said(k), Progress(k, Said(k))) <=> Holds(e))
  BY <1>1 DEF Fires, Holds
<1>4. EdgeGated(k) => k.match \in {"single", "any"}
  BY DEF EdgeGated
<1>5. EdgeGated(k) => (levelState[k] = "clear" <=> n > 0 /\ ~Holds(l[n]))
  BY DEF RuleKept, EdgeKept
<1>6. Cooled(t, n + 1) <=> check.now >= cooldowns[k]
  BY CooledNow DEF RuleKept
<1>7. \A i \in 1..n : /\ t[i] = l[i] /\ (i > 1 => t[i - 1] = l[i - 1])
                      /\ Cooled(t, i) <=> Cooled(l, i)
  BY <1>1, EarlierStays
<1>8. k.match \in {"single", "any"} =>
        \A i \in 1..n : l[i].alert <=> /\ Holds(l[i])
                                       /\ EdgeGated(k) => i > 1 /\ ~Holds(l[i - 1])
                                       /\ Cooled(l, i)
  BY DEF LevelRight
<1>9. e.alert <=> /\ Fires(k, Said(k), Progress(k, Said(k)))
                  /\ EdgeGated(k) => levelState[k] = "clear"
                  /\ check.now >= cooldowns[k]
  BY <1>1 DEF Alerts, Rising
<1> HIDE DEF l, e, t, n
<1>10. EdgeKept(k)'
  <2>1. EdgeGated(k) => (levelState'[k] = "clear" <=> n + 1 > 0 /\ ~Holds(t[n + 1]))
    BY <1>1, <1>2, <1>3, <1>4
  <2> QED BY <1>2, <2>1 DEF EdgeKept, EdgeGated, t
<1>11. ASSUME k.match \in {"single", "any"}
       PROVE  \A i \in 1..(n + 1) :
                t[i].alert <=> /\ Holds(t[i])
                               /\ EdgeGated(k) => i > 1 /\ ~Holds(t[i - 1])
                               /\ Cooled(t, i)
  <2> SUFFICES ASSUME NEW i \in 1..(n + 1)
               PROVE  t[i].alert <=> /\ Holds(t[i])
                                     /\ EdgeGated(k) => i > 1 /\ ~Holds(t[i - 1])
                                     /\ Cooled(t, i)
    OBVIOUS
  <2>1. CASE i = n + 1
    <3>1. e.alert <=> /\ Holds(e)
                      /\ EdgeGated(k) => n > 0 /\ ~Holds(l[n])
                      /\ Cooled(t, n + 1)
      BY <1>3, <1>5, <1>6, <1>9, <1>11
    <3> QED BY <1>2, <2>1, <3>1
  <2>2. CASE i \in 1..n
    BY <1>7, <1>8, <1>11, <2>2
  <2> QED BY <1>2, <2>1, <2>2
<1>12. LevelRight(k)'
  BY <1>2, <1>11 DEF LevelRight, EdgeGated, t
<1> QED BY <1>10, <1>12

(* Earlier evaluations are still right, so the new one decides. *)
LEMMA LatchStep ==
  ASSUME TypeOK, EvaluateRule, NEW k \in Contents, k = Current.content, LatchRight(k),
         k.match \in {"all", "sequence"} =>
           \E a \in 0..Len(log[k]) :
             /\ IsLast(log'[k], Len(log[k]), a)
             /\ Outcome(k).alert <=> /\ Completed(k, log'[k], a + 1, Len(log[k]) + 1)
                                     /\ Cooled(log'[k], Len(log[k]) + 1)
  PROVE  LatchRight(k)'
<1> DEFINE l == log[k]
           e == Outcome(k)
           t == log'[k]
           n == Len(l)
           Right(s, i) == \E a \in 0..(i - 1) :
                            /\ IsLast(s, i - 1, a)
                            /\ s[i].alert <=> Completed(k, s, a + 1, i) /\ Cooled(s, i)
<1>1. l \in Seq(Evaluation) /\ e \in Evaluation /\ t = Append(l, e)
  BY EvaluatedRule
<1>2. /\ n \in Nat /\ Len(t) = n + 1 /\ t[n + 1] = e /\ n + 1 - 1 = n
      /\ \A i \in 1..(n + 1) : i \in 1..n \/ i = n + 1
  <2>1. /\ n \in Nat /\ Len(t) = n + 1 /\ t[n + 1] = e
        /\ \A i \in 1..(n + 1) : i \in 1..n \/ i = n + 1
    BY <1>1, LogAppend
  <2> QED BY <2>1
<1>3. ASSUME k.match \in {"all", "sequence"} PROVE Right(t, n + 1)
  <2>1. PICK a \in 0..n : /\ IsLast(t, n, a)
                          /\ e.alert <=> Completed(k, t, a + 1, n + 1) /\ Cooled(t, n + 1)
    BY <1>3
  <2> QED BY <1>2, <2>1
<1>4. k.match \in {"all", "sequence"} => \A i \in 1..n : Right(l, i)
  BY DEF LatchRight
<1>5. ASSUME NEW i \in 1..n
      PROVE  /\ t[i] = l[i] /\ (Cooled(t, i) <=> Cooled(l, i))
             /\ \A a \in 0..(i - 1) : /\ IsLast(t, i - 1, a) <=> IsLast(l, i - 1, a)
                                      /\ Completed(k, t, a + 1, i) <=> Completed(k, l, a + 1, i)
  BY <1>1, EarlierStays
<1> HIDE DEF l, e, t, n
<1>6. ASSUME NEW i \in 1..n, Right(l, i) PROVE Right(t, i)
  <2>1. PICK a \in 0..(i - 1) : /\ IsLast(l, i - 1, a)
                                /\ l[i].alert <=> Completed(k, l, a + 1, i) /\ Cooled(l, i)
    BY <1>6
  <2>2. /\ IsLast(t, i - 1, a)
        /\ t[i].alert <=> Completed(k, t, a + 1, i) /\ Cooled(t, i)
    BY <1>5, <2>1
  <2> QED BY <2>2
<1> HIDE DEF Right
<1>7. k.match \in {"all", "sequence"} => \A i \in 1..(n + 1) : Right(t, i)
  BY <1>2, <1>3, <1>4, <1>6
<1> QED BY <1>2, <1>7 DEF LatchRight, Right, t

LEMMA EvaluatedAll ==
  ASSUME TypeOK, EvaluateRule, NEW k \in Contents, k = Current.content, k.match = "all",
         RuleKept(k), LatchRight(k)
  PROVE  LatchKept(k)' /\ LatchRight(k)'
<1> DEFINE l == log[k]
           e == Outcome(k)
           t == log'[k]
           n == Len(l)
           m == compoundState[k].met
           p == Progress(k, Said(k)).met
<1>1. /\ l \in Seq(Evaluation) /\ e \in Evaluation /\ t = Append(l, e)
      /\ e.holds = Said(k) /\ (e.alert <=> Alerts(k))
      /\ compoundState'[k] = IF e.alert THEN Fresh ELSE Progress(k, Said(k))
  BY EvaluatedRule
<1>2. /\ n \in Nat /\ Len(t) = n + 1 /\ t[n + 1] = e /\ n + 1 \in Nat
      /\ \A i \in 1..n : t[i] = l[i]
  <2>1. /\ n \in Nat /\ Len(t) = n + 1 /\ t[n + 1] = e /\ \A i \in 1..n : t[i] = l[i]
    BY <1>1, LogAppend
  <2> QED BY <2>1
<1>3. DOMAIN e.holds = DOMAIN k.conds /\ p \subseteq DOMAIN k.conds
  BY <1>1, SaidTypes, ProgressTypes
<1>4. p = m \cup {i \in DOMAIN e.holds : e.holds[i]}
  <2>1. compoundState[k] \in [met : SUBSET Nat, next : Nat \ {0}]
    BY DEF TypeOK
  <2>2. Progress(k, Said(k)) =
          [compoundState[k] EXCEPT !.met = @ \cup {i \in DOMAIN Said(k) : Said(k)[i]}]
    BY DEF Progress
  <2> QED BY <1>1, <2>1, <2>2
<1>5. PICK a \in 0..n :
        /\ IsLast(l, n, a)
        /\ \A x \in DOMAIN k.conds : x \in m <=> \E j \in (a + 1)..n : l[j].holds[x]
  BY DEF RuleKept, LatchKept
<1>6. /\ ~e.alert => IsLast(t, n + 1, a)
      /\ e.alert => IsLast(t, n + 1, n + 1)
      /\ IsLast(t, n, a)
  BY <1>1, <1>5, LastAppend
<1>7. compoundState'[k].met = IF e.alert THEN {} ELSE p
  BY <1>1 DEF Fresh
<1>8. e.alert <=> p = DOMAIN e.holds /\ check.now >= cooldowns[k]
  BY <1>1 DEF Alerts, Fires, Rising, EdgeGated
<1>9. Cooled(t, n + 1) <=> check.now >= cooldowns[k]
  BY CooledNow DEF RuleKept
<1> HIDE DEF l, e, t, n, m, p
<1>10. \A x \in DOMAIN k.conds : x \in p <=> \E j \in (a + 1)..(n + 1) : t[j].holds[x]
  <2> SUFFICES ASSUME NEW x \in DOMAIN k.conds
               PROVE  x \in p <=> \E j \in (a + 1)..(n + 1) : t[j].holds[x]
    OBVIOUS
  <2>1. /\ \A j \in (a + 1)..(n + 1) : j \in (a + 1)..n \/ j = n + 1
        /\ \A j \in (a + 1)..n : j \in (a + 1)..(n + 1) /\ j \in 1..n
        /\ n + 1 \in (a + 1)..(n + 1)
    BY <1>2
  <2>2. x \in p <=> x \in m \/ e.holds[x]
    BY <1>3, <1>4
  <2> QED BY <1>2, <1>5, <2>1, <2>2
<1>11. LatchKept(k)'
  <2>1. CASE e.alert
    <3>1. n + 1 \in 0..(n + 1) /\ \A x : ~\E j \in (n + 1 + 1)..(n + 1) : t[j].holds[x]
      BY <1>2, EmptyIsLast
    <3>2. IsLast(t, n + 1, n + 1) /\ compoundState'[k].met = {}
      BY <1>6, <1>7, <2>1
    <3> QED BY <1>2, <3>1, <3>2 DEF LatchKept, t
  <2>2. CASE ~e.alert
    <3>1. a \in 0..(n + 1)
      BY <1>2
    <3>2. IsLast(t, n + 1, a) /\ compoundState'[k].met = p
      BY <1>6, <1>7, <2>2
    <3> QED BY <1>2, <1>10, <3>1, <3>2 DEF LatchKept, t
  <2> QED BY <2>1, <2>2
<1>12. e.alert <=> Completed(k, t, a + 1, n + 1) /\ Cooled(t, n + 1)
  <2>1. p = DOMAIN k.conds <=> \A x \in DOMAIN k.conds : x \in p
    BY <1>3
  <2> QED BY <1>3, <1>8, <1>9, <1>10, <2>1 DEF Completed
<1>13. LatchRight(k)'
  BY <1>6, <1>12, LatchStep DEF l, e, t, n
<1> QED BY <1>11, <1>13

LEMMA EvaluatedSequence ==
  ASSUME TypeOK, EvaluateRule, NEW k \in Contents, k = Current.content, k.match = "sequence",
         RuleKept(k), LatchRight(k)
  PROVE  SequenceKept(k)' /\ LatchRight(k)'
<1> DEFINE l == log[k]
           e == Outcome(k)
           t == log'[k]
           n == Len(l)
           c == Len(k.conds)
           m == compoundState[k].next
           p == Progress(k, Said(k)).next
<1>1. /\ l \in Seq(Evaluation) /\ e \in Evaluation /\ t = Append(l, e)
      /\ e.holds = Said(k) /\ (e.alert <=> Alerts(k))
      /\ compoundState'[k] = IF e.alert THEN Fresh ELSE Progress(k, Said(k))
  BY EvaluatedRule
<1>2. /\ n \in Nat /\ Len(t) = n + 1 /\ n + 1 \in Nat
  <2>1. n \in Nat /\ Len(t) = n + 1
    BY <1>1, LogAppend
  <2> QED BY <2>1
<1>3. /\ c \in Nat /\ DOMAIN k.conds = 1..c /\ DOMAIN e.holds = 1..c /\ Len(e.holds) = c
  BY <1>1, ContentTypes, SaidTypes
<1>4. m \in Nat \ {0} /\ m <= c + 1
  BY DEF TypeOK
<1>5. p = IF m \in DOMAIN e.holds /\ e.holds[m] THEN m + 1 ELSE m
  <2>1. compoundState[k] \in [met : SUBSET Nat, next : Nat \ {0}]
    BY DEF TypeOK
  <2>2. CASE m \in DOMAIN e.holds /\ e.holds[m]
    <3>1. Progress(k, Said(k)) = [compoundState[k] EXCEPT !.next = @ + 1]
      BY <1>1, <2>2 DEF Progress
    <3> QED BY <2>1, <2>2, <3>1
  <2>3. CASE ~(m \in DOMAIN e.holds /\ e.holds[m])
    <3>1. Progress(k, Said(k)) = compoundState[k]
      BY <1>1, <2>3 DEF Progress
    <3> QED BY <2>3, <3>1
  <2> QED BY <2>2, <2>3
<1>6. PICK a \in 0..n : /\ IsLast(l, n, a)
                        /\ InTurn(l, m - 1, a + 1, n)
                        /\ m <= c => ~InTurn(l, m, a + 1, n)
  BY DEF RuleKept, SequenceKept
<1>7. /\ ~e.alert => IsLast(t, n + 1, a)
      /\ e.alert => IsLast(t, n + 1, n + 1)
      /\ IsLast(t, n, a)
  BY <1>1, <1>6, LastAppend
<1>8. compoundState'[k].next = IF e.alert THEN 1 ELSE p
  BY <1>1 DEF Fresh
<1>9. e.alert <=> p > c /\ check.now >= cooldowns[k]
  BY <1>1, <1>3 DEF Alerts, Fires, Rising, EdgeGated
<1>10. Cooled(t, n + 1) <=> check.now >= cooldowns[k]
  BY CooledNow DEF RuleKept
<1>11. a + 1 \in 1..(n + 1) /\ m - 1 \in Nat /\ m - 1 + 1 = m /\ m + 1 - 1 = m /\ m \in Nat
  BY <1>2, <1>4
<1>12. /\ InTurn(l, m - 1, a + 1, n) => InTurn(t, m - 1, a + 1, n + 1)
       /\ InTurn(l, m - 1, a + 1, n) /\ e.holds[m] => InTurn(t, m, a + 1, n + 1)
       /\ InTurn(t, m, a + 1, n + 1) /\ ~e.holds[m] => InTurn(l, m, a + 1, n)
       /\ InTurn(t, m + 1, a + 1, n + 1) => InTurn(l, m, a + 1, n)
  <2>1. ASSUME NEW j \in Nat
        PROVE  /\ InTurn(l, j, a + 1, n) => InTurn(t, j, a + 1, n + 1)
               /\ InTurn(l, j, a + 1, n) /\ e.holds[j + 1] => InTurn(t, j + 1, a + 1, n + 1)
               /\ InTurn(t, j + 1, a + 1, n + 1) => InTurn(l, j, a + 1, n)
               /\ InTurn(t, j + 1, a + 1, n + 1) /\ ~e.holds[j + 1] => InTurn(l, j + 1, a + 1, n)
    <3>1. n = Len(l) /\ l \in Seq(Evaluation) /\ e \in Evaluation /\ t = Append(l, e)
      BY <1>1
    <3> HIDE DEF l, e, t, n
    <3>2. a + 1 \in 1..(Len(l) + 1)
      BY <1>11, <3>1
    <3> QED BY <3>1, <3>2, InTurnAppend
  <2> HIDE DEF l, e, t, n, m
  <2> QED BY <1>11, <2>1
<1> HIDE DEF l, e, t, n, c, m, p
<1>13. /\ InTurn(t, p - 1, a + 1, n + 1)
       /\ p <= c => ~InTurn(t, p, a + 1, n + 1)
       /\ p \in Nat \ {0} /\ p <= c + 1
  <2>1. CASE m \in DOMAIN e.holds /\ e.holds[m]
    <3>1. p = m + 1 /\ m <= c /\ p - 1 = m
      BY <1>3, <1>5, <1>11, <2>1
    <3>2. InTurn(t, m, a + 1, n + 1) /\ ~InTurn(t, m + 1, a + 1, n + 1)
      BY <1>6, <1>12, <2>1, <3>1
    <3>3. p \in Nat \ {0} /\ p <= c + 1
      BY <1>3, <1>4, <3>1
    <3> QED BY <3>1, <3>2, <3>3
  <2>2. CASE ~(m \in DOMAIN e.holds /\ e.holds[m])
    <3>1. p = m
      BY <1>5, <2>2
    <3>2. m <= c => ~e.holds[m]
      BY <1>3, <1>4, <2>2
    <3>3. InTurn(t, m - 1, a + 1, n + 1) /\ (m <= c => ~InTurn(t, m, a + 1, n + 1))
      BY <1>6, <1>12, <3>2
    <3> QED BY <1>4, <3>1, <3>3
  <2> QED BY <2>1, <2>2
<1>14. SequenceKept(k)'
  <2>1. CASE e.alert
    <3>1. /\ n + 1 \in 0..(n + 1) /\ 1 - 1 = 0
          /\ InTurn(t, 0, n + 1 + 1, n + 1) /\ ~InTurn(t, 1, n + 1 + 1, n + 1)
      BY <1>2, NoneInTurn
    <3>2. IsLast(t, n + 1, n + 1) /\ compoundState'[k].next = 1
      BY <1>7, <1>8, <2>1
    <3> QED BY <1>2, <3>1, <3>2 DEF SequenceKept, t
  <2>2. CASE ~e.alert
    <3>1. a \in 0..(n + 1)
      BY <1>2
    <3>2. IsLast(t, n + 1, a) /\ compoundState'[k].next = p
      BY <1>7, <1>8, <2>2
    <3> QED BY <1>2, <1>13, <3>1, <3>2 DEF SequenceKept, t, c
  <2> QED BY <2>1, <2>2
<1>15. p > c <=> InTurn(t, c, a + 1, n + 1)
  <2>1. ASSUME p > c PROVE InTurn(t, c, a + 1, n + 1)
    <3>1. p - 1 = c
      BY <1>3, <1>13, <2>1
    <3> QED BY <1>13, <3>1
  <2>2. ASSUME ~(p > c) PROVE ~InTurn(t, c, a + 1, n + 1)
    <3>1. p <= c /\ p \in 0..c /\ a + 1 \in Nat
      BY <1>3, <1>11, <1>13, <2>2
    <3> QED BY <1>2, <1>3, <1>13, <3>1, InTurnFewer
  <2> QED BY <2>1, <2>2
<1>16. InTurn(t, c, a + 1, n + 1) <=> Completed(k, t, a + 1, n + 1)
  BY <1>3 DEF InTurn, Completed
<1>17. e.alert <=> Completed(k, t, a + 1, n + 1) /\ Cooled(t, n + 1)
  BY <1>9, <1>10, <1>15, <1>16
<1>18. LatchRight(k)'
  BY <1>7, <1>17, LatchStep DEF l, e, t, n
<1> QED BY <1>14, <1>18

LEMMA EvaluatedIsRight ==
  ASSUME TypeOK, EvaluateRule, NEW k \in Contents, k = Current.content,
         RuleKept(k), RuleRight(k)
  PROVE  RuleKept(k)' /\ RuleRight(k)'
<1>1. log'[k] = Append(log[k], Outcome(k)) /\ log[k] \in Seq(Evaluation)
      /\ Outcome(k) \in Evaluation /\ reports'[k] = reports[k]
  BY EvaluatedRule
<1>2. log'[k] # <<>>
  <2>1. Len(log'[k]) = Len(log[k]) + 1 /\ Len(log[k]) \in Nat
    BY <1>1, LogAppend
  <2> QED BY <2>1, EmptySeq
<1>3. WarningKept(k)' /\ ReportRight(k)'
  BY <1>1, <1>2 DEF WarningKept, RuleRight, ReportRight
<1>4. CooldownKept(k)'
  BY CooledNow DEF RuleKept
<1>5. EdgeKept(k)' /\ LevelRight(k)'
  BY EvaluatedLevel DEF RuleRight
<1>6. CASE k.match = "all"
  <2>1. LatchKept(k)' /\ LatchRight(k)'
    BY <1>6, EvaluatedAll DEF RuleRight
  <2>2. SequenceKept(k)'
    BY <1>6 DEF SequenceKept
  <2> QED BY <1>3, <1>4, <1>5, <2>1, <2>2 DEF RuleKept, RuleRight
<1>7. CASE k.match = "sequence"
  <2>1. SequenceKept(k)' /\ LatchRight(k)'
    BY <1>7, EvaluatedSequence DEF RuleRight
  <2>2. LatchKept(k)'
    BY <1>7 DEF LatchKept
  <2> QED BY <1>3, <1>4, <1>5, <2>1, <2>2 DEF RuleKept, RuleRight
<1>8. CASE k.match \notin {"all", "sequence"}
  <2>1. LatchKept(k)' /\ SequenceKept(k)' /\ LatchRight(k)'
    BY <1>8 DEF LatchKept, SequenceKept, LatchRight
  <2> QED BY <1>3, <1>4, <1>5, <2>1 DEF RuleKept, RuleRight
<1> QED BY <1>6, <1>7, <1>8

-----------------------------------------------------------------------------
(* The inductive invariant.                                                *)

EngineIInv == EngineInv /\ \A k \in Contents : RuleRight(k)

LEMMA InitEngineIInv == Init => EngineIInv
<1> SUFFICES ASSUME Init PROVE EngineIInv
  OBVIOUS
<1>1. TypeOK
  BY InitTypeOK
<1>2. \A k \in Contents : log[k] = <<>> /\ reports[k] = <<>>
  BY DEF Init
<1>3. HistoryKept
  BY <1>2, NoCheckTypes DEF Init, HistoryKept, Unlocked
<1>4. GoneForgotten
  <2>1. ASSUME NEW k \in Contents PROVE Memory(k) = <<0, "unseen", Fresh, FALSE>>
    <3>1. (k \in warnedHistory) = FALSE
      BY DEF Init
    <3> QED BY <3>1 DEF Init, Memory
  <2> QED BY <1>2, <2>1 DEF GoneForgotten
<1>5. ASSUME NEW k \in Contents PROVE RuleKept(k) /\ RuleRight(k)
  <2>1. /\ log[k] = <<>> /\ reports[k] = <<>> /\ Len(log[k]) = 0 /\ Len(reports[k]) = 0
        /\ cooldowns[k] = 0 /\ levelState[k] = "unseen" /\ k \notin warnedHistory
        /\ compoundState[k].met = {} /\ compoundState[k].next = 1
    BY EmptySeq DEF Init, Fresh
  <2>2. 1..0 = {} /\ 0 \in 0..0 /\ 0 + 1 = 1 /\ 1 - 1 = 0
    OBVIOUS
  <2>3. CooldownKept(k) /\ EdgeKept(k) /\ WarningKept(k)
    BY <2>1, <2>2 DEF CooldownKept, EdgeKept, WarningKept
  <2>4. /\ IsLast(log[k], Len(log[k]), 0)
        /\ \A x : ~\E j \in (0 + 1)..Len(log[k]) : log[k][j].holds[x]
        /\ InTurn(log[k], 0, 0 + 1, Len(log[k])) /\ ~InTurn(log[k], 1, 0 + 1, Len(log[k]))
    BY <2>1, <2>2, EmptyIsLast, NoneInTurn
  <2>5. LatchKept(k) /\ SequenceKept(k)
    BY <2>1, <2>2, <2>4 DEF LatchKept, SequenceKept
  <2>6. RuleRight(k)
    BY <2>1, <2>2 DEF RuleRight, LevelRight, LatchRight, ReportRight
  <2> QED BY <2>3, <2>5, <2>6 DEF RuleKept
<1> QED BY <1>1, <1>3, <1>4, <1>5 DEF EngineIInv, EngineInv

LEMMA NextEngineIInv ==
  ASSUME EngineIInv, [Next]_vars
  PROVE  EngineIInv'
<1>1. TypeOK /\ HistoryKept /\ GoneForgotten /\ \A k \in Contents : RuleKept(k) /\ RuleRight(k)
  BY DEF EngineIInv, EngineInv
<1>2. TypeOK' /\ HistoryKept' /\ GoneForgotten'
  BY <1>1, NextTypeOK, NextHistoryKept, NextGoneForgotten
<1>3. ASSUME NEW k \in Contents PROVE RuleKept(k)' /\ RuleRight(k)'
  <2>1. CASE SameRule(k)
    BY <1>1, <2>1, SameStays
  <2>2. CASE NewRule(k)
    BY <2>2, NewIsRight
  <2>3. CASE EvaluateRule /\ k = Current.content
    BY <1>1, <2>3, EvaluatedIsRight
  <2>4. CASE ShortHistory /\ k = Current.content
    BY <1>1, <2>4, ReportIsRight
  <2>5. CASE (EvaluateRule \/ ShortHistory) /\ k # Current.content
    BY <1>1, <2>1, <2>5, OthersStay
  <2>6. CASE ~EvaluateRule /\ ~ShortHistory
    BY <1>1, <2>1, <2>2, <2>6, OtherSteps
  <2> QED BY <2>3, <2>4, <2>5, <2>6
<1> QED BY <1>2, <1>3 DEF EngineIInv, EngineInv

LEMMA SpecEngineIInv == Spec => []EngineIInv
<1>1. EngineIInv /\ UNCHANGED vars => EngineIInv'
  BY NextEngineIInv
<1> QED BY InitEngineIInv, NextEngineIInv, PTL DEF Spec

-----------------------------------------------------------------------------
(* Every variable has its type, and a simple rule or an "any" alerts on    *)
(* its edges and nowhere else, no two alerts closer than the cooldown      *)
(* (Check, internal/alert/engine.go:320): LevelsSound, for any rules.      *)
THEOREM LevelsAlwaysSound == Spec => []LevelsSound
<1>1. ASSUME EngineIInv PROVE LevelsSound
  <2>1. TypeOK /\ \A k \in Contents : LevelRight(k)
    BY <1>1 DEF EngineIInv, EngineInv, RuleRight
  <2>2. \A k \in Contents : DOMAIN log[k] = 1..Len(log[k])
    BY <2>1, LenProperties DEF TypeOK
  <2>3. LevelEdges
    BY <2>1, <2>2 DEF LevelEdges, LevelRight
  <2> QED BY <2>1, <2>3 DEF LevelsSound
<1> QED BY <1>1, SpecEngineIInv, PTL

(* An "all" or a "sequence" alerts exactly when it has been completed since *)
(* its last alert and is out of its cooldown (evaluateCompound,            *)
(* internal/alert/engine.go:763): LatchedCompletions, for rules of any     *)
(* number of conditions.                                                   *)
THEOREM CompletionsAlwaysLatched == Spec => []LatchedCompletions
<1>1. ASSUME EngineIInv PROVE LatchedCompletions
  <2> SUFFICES ASSUME NEW k \in Contents, k.match \in {"all", "sequence"},
                      NEW i \in DOMAIN log[k]
               PROVE  log[k][i].alert <=>
                        /\ Completed(k, log[k], LastAlert(log[k], i) + 1, i)
                        /\ Cooled(log[k], i)
    BY DEF LatchedCompletions
  <2>1. LatchRight(k) /\ log[k] \in Seq(Evaluation)
    BY <1>1 DEF EngineIInv, EngineInv, RuleRight, TypeOK
  <2>2. i \in 1..Len(log[k]) /\ Len(log[k]) \in Nat
    BY <2>1, LenProperties
  <2>3. PICK a \in 0..(i - 1) :
          /\ IsLast(log[k], i - 1, a)
          /\ log[k][i].alert <=> Completed(k, log[k], a + 1, i) /\ Cooled(log[k], i)
    BY <2>1, <2>2 DEF LatchRight
  <2>4. i - 1 \in Nat /\ i - 1 + 1 = i
    BY <2>2
  <2>5. LastAlert(log[k], i) = a
    <3>1. LastAlert(log[k], i - 1 + 1) = a
      BY <2>3, <2>4, LastIsLast
    <3> QED BY <2>4, <3>1
  <2> QED BY <2>3, <2>5
<1> QED BY <1>1, SpecEngineIInv, PTL

(* A rule is reported short of history once, and never after it has been   *)
(* evaluated (warnedHistory, internal/alert/engine.go:126):                *)
(* ShortHistoryReportedOnce, for any ring and any conditions.              *)
THEOREM ShortHistoryAlwaysReportedOnce == Spec => []ShortHistoryReportedOnce
<1>1. ASSUME EngineIInv PROVE ShortHistoryReportedOnce
  <2>1. TypeOK /\ \A k \in Contents : ReportRight(k)
    BY <1>1 DEF EngineIInv, EngineInv, RuleRight
  <2>2. \A k \in Contents : DOMAIN reports[k] = 1..Len(reports[k])
    BY <2>1, LenProperties DEF TypeOK
  <2> QED BY <2>1, <2>2 DEF ShortHistoryReportedOnce, ReportRight
<1> QED BY <1>1, SpecEngineIInv, PTL

(* An edit leaves the memory of every rule that stays as it was, and none  *)
(* of a rule that goes (pruneStateLocked and ruleKey,                      *)
(* internal/alert/engine.go:436 and 734): RuleEditsKeepState, for any      *)
(* rules and any edits.                                                    *)
THEOREM RuleEditsAlwaysKeepState == Spec => RuleEditsKeepState
<1> DEFINE Kept ==
      rules' # rules =>
        \A k \in Contents :
          Memory(k)' = IF k \in Live(rules') THEN Memory(k) ELSE <<0, "unseen", Fresh, FALSE>>
<1>1. ASSUME EngineIInv, [Next]_vars PROVE [Kept]_vars
  BY <1>1, EditKeepsMemory DEF EngineIInv, EngineInv
<1> HIDE DEF Kept
<1>2. Spec => [][Kept]_vars
  BY <1>1, SpecEngineIInv, PTL DEF Spec
<1> QED BY <1>2 DEF RuleEditsKeepState, Kept

=============================================================================
