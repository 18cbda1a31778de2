------------------------- MODULE PersistenceProofs -------------------------
(***************************************************************************)
(* Proofs about what is kept in config.yaml: for any number of sessions,   *)
(* rules, events and edits, the way of the rules from the alerts tab to    *)
(* the save; and for any number of processes, any contents, and any number *)
(* of writes, crashes and edits by hand, what the file and its backups     *)
(* hold.                                                                   *)
(***************************************************************************)
EXTENDS RulePersistence, ConfigStore, TLAPS, SequenceTheorems, FiniteSetTheorems

(***************************************************************************)
(* The rules.  The inductive invariant.  Aimed: whoever is asked about a   *)
(* rule has an index that still means it.                                  *)
(***************************************************************************)
Aimed ==
  \A s \in Sessions :
    asked[s] # 0 =>
      /\ confirm[s] # None /\ confirm[s] < Len(rules)
      /\ rules[confirm[s] + 1].id = asked[s]

(* Newest: what was sent last is in the channel, else with the goroutine,  *)
(* else in the file, unless somebody is about to send again.               *)
Newest ==
  /\ pending # <<>> => Head(pending) = lastSent
  /\ saver \in {"last save", "exited"} /\ ~late => pending = <<>>
  /\ Quiet /\ pending = <<>> /\ ~late =>
       /\ (armed /\ saver = "select") \/ saver \in {"save", "last save"} => latest = lastSent
       /\ (~armed /\ saver = "select") \/ saver = "exited" => file = lastSent \/ ~writable

(* InForce: if the last edit overlapped with no other, what is about to be *)
(* sent, or was sent last, are the rules in force.                         *)
InForce ==
  ~overlapped /\ alive /\ saver # "off" =>
    /\ \A s, t \in Sessions : at[s] \in InCallback /\ at[t] \in InCallback => s = t
    /\ \A s \in Sessions : at[s] \in InCallback => snapshot[s] = rules
    /\ Quiet => lastSent = rules

(* Phase: a save is due only when something is there to be saved, and what *)
(* comes too late comes after the last look at the channel.                *)
Phase ==
  /\ (saver = "gone") <=> ~alive
  /\ saver = "select" /\ timer # "off" => armed
  /\ saver = "save" => timer = "off"
  /\ late => saver \in {"last save", "exited", "gone"}

PersistenceIInv == PersistenceTypeOK /\ Aimed /\ Newest /\ InForce /\ Phase

-----------------------------------------------------------------------------
(* What the edits do to the sequence of rules.                             *)

LEMMA RemoveAtRule ==
  ASSUME NEW q \in Seq(Rule), NEW i \in 1..Len(q)
  PROVE  /\ RemoveAt(q, i) \in Seq(Rule)
         /\ Len(RemoveAt(q, i)) = Len(q) - 1
         /\ \A j \in 1..(i - 1) : RemoveAt(q, i)[j] = q[j]
<1>1. SubSeq(q, 1, i - 1) \in Seq(Rule) /\ Len(SubSeq(q, 1, i - 1)) = i - 1
      /\ \A j \in 1..(i - 1) : SubSeq(q, 1, i - 1)[j] = q[j]
  OBVIOUS
<1>2. SubSeq(q, i + 1, Len(q)) \in Seq(Rule) /\ Len(SubSeq(q, i + 1, Len(q))) = Len(q) - i
  OBVIOUS
<1> DEFINE front == SubSeq(q, 1, i - 1)
           back == SubSeq(q, i + 1, Len(q))
<1>3. /\ front \o back \in Seq(Rule)
      /\ Len(front \o back) = Len(front) + Len(back)
      /\ \A j \in 1..(Len(front) + Len(back)) :
           (front \o back)[j] = IF j <= Len(front) THEN front[j] ELSE back[j - Len(front)]
  BY <1>1, <1>2, ConcatProperties
<1>4. RemoveAt(q, i) = front \o back
  BY DEF RemoveAt
<1> HIDE DEF front, back
<1>5. Len(front) = i - 1 /\ Len(back) = Len(q) - i /\ i \in Nat /\ Len(q) \in Nat /\ i <= Len(q)
  BY <1>1, <1>2 DEF front, back
<1>6. \A j \in 1..(i - 1) : (front \o back)[j] = q[j]
  BY <1>1, <1>3, <1>5 DEF front
<1> QED BY <1>3, <1>4, <1>5, <1>6

LEMMA ToggledRule ==
  ASSUME NEW q \in Seq(Rule), NEW i \in 1..Len(q)
  PROVE  /\ [q EXCEPT ![i].on = ~@] \in Seq(Rule)
         /\ Len([q EXCEPT ![i].on = ~@]) = Len(q)
         /\ \A j \in 1..Len(q) : [q EXCEPT ![i].on = ~@][j].id = q[j].id
<1> DEFINE r == [q[i] EXCEPT !.on = ~@]
<1>1. q[i] \in Rule
  OBVIOUS
<1>2. r \in Rule /\ r.id = q[i].id
  BY <1>1 DEF Rule
<1>3. [q EXCEPT ![i].on = ~@] = [q EXCEPT ![i] = r]
  OBVIOUS
<1>4. /\ [q EXCEPT ![i] = r] \in Seq(Rule)
      /\ Len([q EXCEPT ![i] = r]) = Len(q)
      /\ \A j \in 1..Len(q) : [q EXCEPT ![i] = r][j] = IF j = i THEN r ELSE q[j]
  BY <1>2, ExceptSeq
<1> QED BY <1>2, <1>3, <1>4

-----------------------------------------------------------------------------

LEMMA Single ==
  ASSUME NEW S, NEW x \in S
  PROVE  <<x>> \in Seq(S) /\ Len(<<x>>) = 1 /\ Head(<<x>>) = x /\ <<x>> # <<>>
OBVIOUS

LEMMA PersistenceIInvInit == PersistenceInit => PersistenceIInv
<1> SUFFICES ASSUME PersistenceInit PROVE PersistenceIInv
  OBVIOUS
<1> USE PersistenceAssumption DEF PersistenceInit, PersistenceAssumption
<1>1. EngineTypeOK
  BY DEF EngineTypeOK
<1>2. ViewTypeOK
  BY DEF ViewTypeOK
<1>3. HandlerTypeOK
  BY DEF HandlerTypeOK
<1>4. ChannelTypeOK
  <2>1. pending \in Seq(Seq(Rule))
    BY EmptySeq
  <2>2. Len(pending) <= 1
    OBVIOUS
  <2>3. lastSent \in Seq(Rule) /\ late \in BOOLEAN
    OBVIOUS
  <2> QED BY <2>1, <2>2, <2>3, Zenon DEF ChannelTypeOK
<1>5. SaverTypeOK
  <2>1. latest \in Seq(Rule)
    BY EmptySeq
  <2> QED BY <2>1 DEF SaverTypeOK
<1>6. {cancelled, alive, overlapped} \subseteq BOOLEAN
  OBVIOUS
<1>7. Aimed
  BY DEF Aimed
<1>8. Newest
  BY DEF Newest
<1>9. InForce
  BY DEF InForce, InCallback
<1>10. Phase
  BY DEF Phase
<1> QED BY <1>1, <1>2, <1>3, <1>4, <1>5, <1>6, <1>7, <1>8, <1>9, <1>10 DEF PersistenceIInv, PersistenceTypeOK

-----------------------------------------------------------------------------
(* What a session does outside the callback, and how it enters it.         *)

(* An event that leaves the rules alone.                                   *)
LEMMA IgnoredOK ==
  ASSUME PersistenceIInv, NEW s \in Sessions, at[s] \notin InCallback,
         NEW where \in Keys \cup Mouse \cup {"idle"},
         at' = [at EXCEPT ![s] = where],
         UNCHANGED <<rules, snapshot, sentVars, saverVars, alive, overlapped>>
  PROVE  Newest' /\ InForce' /\ Phase'
<1> USE DEF PersistenceIInv, PersistenceTypeOK, HandlerTypeOK
<1>1. where \notin InCallback
  BY DEF Keys, Mouse, InCallback
<1>2. \A t \in Sessions : at'[t] \in InCallback <=> at[t] \in InCallback
  BY <1>1
<1>3. Quiet' <=> Quiet
  BY <1>2 DEF Quiet
<1>4. Newest'
  BY <1>3 DEF Newest, sentVars, saverVars
<1>5. InForce'
  BY <1>2, <1>3 DEF InForce, sentVars, saverVars
<1> QED BY <1>4, <1>5 DEF Phase, saverVars, sentVars

(* An edit: its rules are the newest, if it is alone.                      *)
LEMMA EditedOK ==
  ASSUME PersistenceIInv, NEW s \in Sessions, at[s] \notin InCallback,
         NEW new \in Seq(Rule), Edit(s, new),
         UNCHANGED <<sentVars, saverVars, alive>>
  PROVE  /\ rules' \in Seq(Rule) /\ edits' \in 0..MaxEdits
         /\ at' \in [Sessions -> Keys \cup Mouse \cup InCallback \cup {"idle"}]
         /\ snapshot' \in [Sessions -> Seq(Rule)]
         /\ overlapped' \in BOOLEAN
         /\ Newest' /\ InForce' /\ Phase'
<1> USE DEF PersistenceIInv, PersistenceTypeOK, HandlerTypeOK
<1>1. rules' = new
  BY DEF Edit
<1>2. edits' \in 0..MaxEdits
  BY PersistenceAssumption DEF Edit, EngineTypeOK, PersistenceAssumption
<1>3. Phase'
  BY DEF Phase, saverVars, sentVars
<1>4. CASE saver = "off"
  <2>1. at' = [at EXCEPT ![s] = "idle"] /\ UNCHANGED <<snapshot, overlapped>>
    BY <1>4 DEF Edit
  <2>2. Newest'
    BY <1>4 DEF Newest, sentVars, saverVars
  <2>3. InForce'
    BY <1>4 DEF InForce, saverVars
  <2> QED BY <1>1, <1>2, <1>3, <2>1, <2>2, <2>3
<1>5. CASE saver # "off"
  <2>1. /\ at' = [at EXCEPT ![s] = "offer"] /\ snapshot' = [snapshot EXCEPT ![s] = new]
        /\ overlapped' = \E t \in Sessions \ {s} : at[t] \in InCallback
    BY <1>5 DEF Edit
  <2>2. at'[s] \in InCallback /\ ~Quiet'
    BY <2>1 DEF InCallback, Quiet
  <2>3. Newest'
    BY <2>2 DEF Newest, sentVars, saverVars
  <2>4. InForce'
    <3> SUFFICES ASSUME ~overlapped', alive' PROVE
          /\ \A t, u \in Sessions : at'[t] \in InCallback /\ at'[u] \in InCallback => t = u
          /\ \A t \in Sessions : at'[t] \in InCallback => snapshot'[t] = rules'
      BY <2>2 DEF InForce
    <3>1. \A t \in Sessions \ {s} : at[t] \notin InCallback
      BY <2>1
    <3>2. \A t \in Sessions : at'[t] \in InCallback => t = s
      BY <2>1, <3>1
    <3> QED BY <1>1, <2>1, <3>2
  <2>5. overlapped' \in BOOLEAN
    BY <2>1
  <2> QED BY <1>1, <1>2, <1>3, <2>1, <2>3, <2>4, <2>5 DEF InCallback
<1> QED BY <1>4, <1>5

(* A handler: all but the view, which is its own affair.                   *)
LEMMA HandlingOK ==
  ASSUME PersistenceIInv, NEW s \in Sessions, NEW events \in SUBSET (Keys \cup Mouse),
         Handling(s, events),
         Ignore(s) \/ \E new \in Seq(Rule) : Edit(s, new)
  PROVE  /\ EngineTypeOK' /\ HandlerTypeOK' /\ ChannelTypeOK' /\ SaverTypeOK'
         /\ {cancelled, alive, overlapped}' \subseteq BOOLEAN
         /\ Newest' /\ InForce' /\ Phase'
<1>1. at[s] \in Keys \cup Mouse /\ at[s] \notin InCallback
  BY DEF Handling, Keys, Mouse, InCallback
<1>2. ChannelTypeOK' /\ SaverTypeOK'
  BY DEF PersistenceIInv, PersistenceTypeOK, ChannelTypeOK, SaverTypeOK, Handling, sentVars, saverVars
<1>3. seen' \in [Sessions -> Seq(Rule)]
  BY DEF PersistenceIInv, PersistenceTypeOK, HandlerTypeOK, Handling
<1>4. known' = known /\ cancelled' = cancelled /\ alive' = alive
      /\ UNCHANGED <<sentVars, saverVars>>
  BY DEF Handling
<1>5. CASE Ignore(s)
  <2>1. EngineTypeOK'
    BY <1>4, <1>5 DEF PersistenceIInv, PersistenceTypeOK, EngineTypeOK, Ignore
  <2>2. HandlerTypeOK'
    BY <1>3, <1>5 DEF PersistenceIInv, PersistenceTypeOK, HandlerTypeOK, Ignore
  <2>3. {cancelled, alive, overlapped}' \subseteq BOOLEAN
    BY <1>4, <1>5 DEF PersistenceIInv, PersistenceTypeOK, Ignore
  <2>4. Newest' /\ InForce' /\ Phase'
    BY <1>1, <1>4, <1>5, IgnoredOK DEF Ignore
  <2> QED BY <1>2, <2>1, <2>2, <2>3, <2>4
<1>6. ASSUME NEW new \in Seq(Rule), Edit(s, new)
      PROVE  /\ EngineTypeOK' /\ HandlerTypeOK'
             /\ {cancelled, alive, overlapped}' \subseteq BOOLEAN
             /\ Newest' /\ InForce' /\ Phase'
  <2>1. /\ rules' \in Seq(Rule) /\ edits' \in 0..MaxEdits
        /\ at' \in [Sessions -> Keys \cup Mouse \cup InCallback \cup {"idle"}]
        /\ snapshot' \in [Sessions -> Seq(Rule)]
        /\ overlapped' \in BOOLEAN
        /\ Newest' /\ InForce' /\ Phase'
    BY <1>1, <1>4, <1>6, EditedOK
  <2>2. EngineTypeOK' /\ HandlerTypeOK'
    BY <1>3, <1>4, <2>1 DEF PersistenceIInv, PersistenceTypeOK, EngineTypeOK, HandlerTypeOK
  <2> QED BY <1>4, <2>1, <2>2 DEF PersistenceIInv, PersistenceTypeOK
<1> QED BY <1>2, <1>5, <1>6

-----------------------------------------------------------------------------
(* The steps of a session.                                                 *)

LEMMA AddRuleStep == ASSUME PersistenceIInv, NEW s \in Sessions, AddRule(s) PROVE PersistenceIInv'
<1> DEFINE r == [id |-> known + 1, on |-> TRUE]
           new == Append(rules, r)
<1> USE DEF PersistenceIInv, PersistenceTypeOK
<1>1. rules \in Seq(Rule) /\ known + 1 \in 1..MaxRules
  BY PersistenceAssumption DEF EngineTypeOK, AddRule, PersistenceAssumption
<1>2. r \in Rule
  BY <1>1 DEF Rule
<1>3. /\ new \in Seq(Rule) /\ Len(new) = Len(rules) + 1
      /\ \A i \in 1..Len(rules) : new[i] = rules[i]
  BY <1>1, <1>2, AppendProperties
<1> HIDE DEF new
<1>4. Edit(s, new) /\ UNCHANGED <<viewVars, seen, sentVars, saverVars, cancelled, alive>>
      /\ known' = known + 1 /\ at[s] \notin InCallback
  BY DEF AddRule, new, InCallback
<1>5. /\ rules' \in Seq(Rule) /\ edits' \in 0..MaxEdits
      /\ at' \in [Sessions -> Keys \cup Mouse \cup InCallback \cup {"idle"}]
      /\ snapshot' \in [Sessions -> Seq(Rule)]
      /\ overlapped' \in BOOLEAN
      /\ Newest' /\ InForce' /\ Phase'
  BY <1>3, <1>4, EditedOK
<1>6. EngineTypeOK' /\ HandlerTypeOK'
  BY <1>1, <1>4, <1>5, PersistenceAssumption DEF EngineTypeOK, HandlerTypeOK, PersistenceAssumption
<1>7. ViewTypeOK'
  BY <1>4 DEF ViewTypeOK, viewVars
<1>8. ChannelTypeOK'
  BY <1>4 DEF ChannelTypeOK, sentVars
<1>9. SaverTypeOK'
  BY <1>4 DEF SaverTypeOK, saverVars
<1>10. Aimed'
  <2>1. rules' = new
    BY <1>4 DEF Edit
  <2>2. UNCHANGED <<asked, confirm>>
    BY <1>4 DEF viewVars
  <2>3. ASSUME NEW t \in Sessions, asked[t] # 0
        PROVE  /\ confirm[t] # None /\ confirm[t] < Len(new)
               /\ new[confirm[t] + 1].id = asked[t]
    <3>1. /\ confirm[t] # None /\ confirm[t] < Len(rules)
          /\ rules[confirm[t] + 1].id = asked[t]
      BY <2>3 DEF Aimed
    <3>2. confirm[t] \in Nat /\ Len(rules) \in Nat
      BY <1>1, <3>1 DEF ViewTypeOK
    <3> QED BY <1>3, <3>1, <3>2
  <2> QED BY <2>1, <2>2, <2>3 DEF Aimed
<1>11. {cancelled, alive, overlapped}' \subseteq BOOLEAN
  BY <1>4, <1>5
<1> QED BY <1>5, <1>6, <1>7, <1>8, <1>9, <1>10, <1>11

LEMMA PressStep ==
  ASSUME PersistenceIInv, NEW s \in Sessions, NEW event \in Events, Press(s, event) PROVE PersistenceIInv'
<1> USE DEF PersistenceIInv, PersistenceTypeOK
<1>1. event \in Keys \cup Mouse \cup {"idle"} /\ at[s] \notin InCallback
  BY PersistenceAssumption DEF PersistenceAssumption, Press, InCallback
<1>2. /\ at' = [at EXCEPT ![s] = event] /\ seen' = [seen EXCEPT ![s] = rules]
      /\ UNCHANGED <<engineVars, viewVars, snapshot, sentVars, saverVars,
                     cancelled, alive, overlapped>>
  BY DEF Press
<1>3. Newest' /\ InForce' /\ Phase'
  BY <1>1, <1>2, IgnoredOK DEF engineVars
<1>4. EngineTypeOK'
  BY <1>2 DEF EngineTypeOK, engineVars
<1>5. HandlerTypeOK'
  BY <1>1, <1>2 DEF HandlerTypeOK, EngineTypeOK
<1>6. ViewTypeOK'
  BY <1>2 DEF ViewTypeOK, viewVars
<1>7. ChannelTypeOK'
  BY <1>2 DEF ChannelTypeOK, sentVars
<1>8. SaverTypeOK'
  BY <1>2 DEF SaverTypeOK, saverVars
<1>9. Aimed'
  BY <1>2 DEF Aimed, engineVars, viewVars
<1>10. {cancelled, alive, overlapped}' \subseteq BOOLEAN
  BY <1>2
<1> QED BY <1>3, <1>4, <1>5, <1>6, <1>7, <1>8, <1>9, <1>10

(* The removal at i leaves whoever is asked about a rule before i alone.   *)
LEMMA ConfirmDeleteStep == ASSUME PersistenceIInv, NEW s \in Sessions, ConfirmDelete(s) PROVE PersistenceIInv'
<1> USE DEF PersistenceIInv, PersistenceTypeOK
<1>1. Handling(s, Keys) /\ confirm' = [confirm EXCEPT ![s] = None]
      /\ confirm[s] \in Nat /\ rules \in Seq(Rule)
  BY DEF ConfirmDelete, ViewTypeOK, Answering, EngineTypeOK
<1>2. cursor' \in [Sessions -> Nat] /\ confirm' \in [Sessions -> Nat \cup {None}]
  BY DEF ConfirmDelete, ViewTypeOK, Above
<1>3. CASE confirm[s] < Len(rules)
  <2> DEFINE i == confirm[s] + 1
             new == RemoveAt(rules, i)
  <2>1. i \in 1..Len(rules) /\ i - 1 = confirm[s]
    BY <1>1, <1>3
  <2>2. /\ new \in Seq(Rule) /\ Len(new) = Len(rules) - 1
        /\ \A j \in 1..(i - 1) : new[j] = rules[j]
    BY <1>1, <2>1, RemoveAtRule
  <2>3. Edit(s, new) /\ asked' = Shifted(s, confirm[s])
    BY <1>3 DEF ConfirmDelete, Doomed
  <2> HIDE DEF new
  <2>4. /\ EngineTypeOK' /\ HandlerTypeOK' /\ ChannelTypeOK' /\ SaverTypeOK'
        /\ {cancelled, alive, overlapped}' \subseteq BOOLEAN
        /\ Newest' /\ InForce' /\ Phase'
    BY <1>1, <2>2, <2>3, HandlingOK
  <2>5. ViewTypeOK'
    BY <1>2, <2>3, PersistenceAssumption DEF ViewTypeOK, Shifted, PersistenceAssumption
  <2>6. Aimed'
    <3>1. rules' = new
      BY <2>3 DEF Edit
    <3> SUFFICES ASSUME NEW t \in Sessions, asked'[t] # 0
                 PROVE  /\ confirm'[t] # None /\ confirm'[t] < Len(new)
                        /\ new[confirm'[t] + 1].id = asked'[t]
      BY <3>1 DEF Aimed
    <3>2. t # s /\ asked'[t] = asked[t] /\ ~(confirm[t] >= confirm[s])
      BY <2>3 DEF Shifted
    <3>3. confirm'[t] = confirm[t]
      BY <1>1, <3>2 DEF ViewTypeOK
    <3>4. /\ confirm[t] # None /\ confirm[t] < Len(rules)
          /\ rules[confirm[t] + 1].id = asked[t]
      BY <3>2 DEF Aimed
    <3>5. confirm[t] \in Nat /\ confirm[t] < confirm[s] /\ Len(rules) \in Nat
      BY <1>1, <3>2, <3>4 DEF ViewTypeOK
    <3>6. confirm[t] + 1 \in 1..(i - 1) /\ confirm[t] < Len(rules) - 1
      BY <1>1, <1>3, <3>5
    <3> QED BY <2>2, <3>2, <3>3, <3>4, <3>6
  <2> QED BY <2>4, <2>5, <2>6
<1>4. CASE ~(confirm[s] < Len(rules))
  <2>1. Ignore(s) /\ asked' = [asked EXCEPT ![s] = 0]
    BY <1>4 DEF ConfirmDelete, Doomed
  <2>2. /\ EngineTypeOK' /\ HandlerTypeOK' /\ ChannelTypeOK' /\ SaverTypeOK'
        /\ {cancelled, alive, overlapped}' \subseteq BOOLEAN
        /\ Newest' /\ InForce' /\ Phase'
    BY <1>1, <2>1, HandlingOK
  <2>3. ViewTypeOK'
    BY <1>2, <2>1, PersistenceAssumption DEF ViewTypeOK, PersistenceAssumption
  <2>4. Aimed'
    BY <1>1, <2>1 DEF Aimed, Ignore, ViewTypeOK
  <2> QED BY <2>2, <2>3, <2>4
<1> QED BY <1>3, <1>4

LEMMA CancelDeleteStep == ASSUME PersistenceIInv, NEW s \in Sessions, CancelDelete(s) PROVE PersistenceIInv'
<1> USE DEF PersistenceIInv, PersistenceTypeOK
<1>1. /\ Handling(s, Keys) /\ Ignore(s)
      /\ confirm' = [confirm EXCEPT ![s] = None] /\ asked' = [asked EXCEPT ![s] = 0]
      /\ cursor' = cursor
  BY DEF CancelDelete
<1>2. /\ EngineTypeOK' /\ HandlerTypeOK' /\ ChannelTypeOK' /\ SaverTypeOK'
      /\ {cancelled, alive, overlapped}' \subseteq BOOLEAN
      /\ Newest' /\ InForce' /\ Phase'
  BY <1>1, HandlingOK
<1>3. ViewTypeOK'
  BY <1>1, PersistenceAssumption DEF ViewTypeOK, PersistenceAssumption
<1>4. Aimed'
  BY <1>1 DEF Aimed, Ignore, ViewTypeOK
<1> QED BY <1>2, <1>3, <1>4

LEMMA AskDeleteStep == ASSUME PersistenceIInv, NEW s \in Sessions, AskDelete(s) PROVE PersistenceIInv'
<1> USE DEF PersistenceIInv, PersistenceTypeOK
<1>1. Handling(s, {"d"}) /\ Ignore(s) /\ cursor' = cursor /\ {"d"} \subseteq Keys
  BY DEF AskDelete, Keys
<1>2. /\ EngineTypeOK' /\ HandlerTypeOK' /\ ChannelTypeOK' /\ SaverTypeOK'
      /\ {cancelled, alive, overlapped}' \subseteq BOOLEAN
      /\ Newest' /\ InForce' /\ Phase'
  BY <1>1, HandlingOK
<1>3. rules' = rules
  BY <1>1 DEF Ignore
<1>4. CASE UNCHANGED <<confirm, asked>>
  BY <1>1, <1>2, <1>3, <1>4 DEF ViewTypeOK, Aimed
<1>5. CASE cursor[s] < Len(seen[s])
  <2> DEFINE i == cursor[s] + 1
             a == IF i \in DOMAIN rules /\ rules[i].id = seen[s][i].id THEN rules[i].id ELSE 0
  <2>1. confirm' = [confirm EXCEPT ![s] = cursor[s]] /\ asked' = [asked EXCEPT ![s] = a]
    BY <1>5 DEF AskDelete
  <2>2. rules \in Seq(Rule) /\ cursor[s] \in Nat
    BY DEF EngineTypeOK, ViewTypeOK
  <2>3. a \in 0..MaxRules
    <3>1. i \in DOMAIN rules => rules[i] \in Rule
      BY <2>2
    <3>2. i \in DOMAIN rules => rules[i].id \in 1..MaxRules
      BY <3>1 DEF Rule
    <3> QED BY <3>2, PersistenceAssumption DEF PersistenceAssumption
  <2>4. a # 0 => cursor[s] # None /\ cursor[s] < Len(rules) /\ rules[cursor[s] + 1].id = a
    BY <2>2 DEF None
  <2> HIDE DEF a
  <2>5. ViewTypeOK'
    BY <1>1, <2>1, <2>2, <2>3 DEF ViewTypeOK
  <2>6. Aimed'
    BY <1>3, <2>1, <2>4 DEF Aimed, ViewTypeOK
  <2> QED BY <1>2, <2>5, <2>6
<1> QED BY <1>4, <1>5 DEF AskDelete

LEMMA ToggleStep == ASSUME PersistenceIInv, NEW s \in Sessions, Toggle(s) PROVE PersistenceIInv'
<1> USE DEF PersistenceIInv, PersistenceTypeOK
<1>1. Handling(s, {"t"}) /\ UNCHANGED viewVars /\ {"t"} \subseteq Keys
  BY DEF Toggle, Keys
<1>2. ViewTypeOK'
  BY <1>1 DEF ViewTypeOK, viewVars
<1>3. CASE cursor[s] < Len(rules)
  <2> DEFINE i == cursor[s] + 1
             new == [rules EXCEPT ![i].on = ~@]
  <2>1. rules \in Seq(Rule) /\ i \in 1..Len(rules)
    BY <1>3 DEF EngineTypeOK, ViewTypeOK
  <2>2. /\ new \in Seq(Rule) /\ Len(new) = Len(rules)
        /\ \A j \in 1..Len(rules) : new[j].id = rules[j].id
    BY <2>1, ToggledRule
  <2>3. Edit(s, new)
    BY <1>3 DEF Toggle
  <2> HIDE DEF new
  <2>4. /\ EngineTypeOK' /\ HandlerTypeOK' /\ ChannelTypeOK' /\ SaverTypeOK'
        /\ {cancelled, alive, overlapped}' \subseteq BOOLEAN
        /\ Newest' /\ InForce' /\ Phase'
    BY <1>1, <2>2, <2>3, HandlingOK
  <2>5. Aimed'
    <3>1. rules' = new /\ UNCHANGED <<asked, confirm>>
      BY <1>1, <2>3 DEF Edit, viewVars
    <3>2. ASSUME NEW t \in Sessions, asked[t] # 0
          PROVE  /\ confirm[t] # None /\ confirm[t] < Len(new)
                 /\ new[confirm[t] + 1].id = asked[t]
      <4>1. /\ confirm[t] # None /\ confirm[t] < Len(rules)
            /\ rules[confirm[t] + 1].id = asked[t]
        BY <3>2 DEF Aimed
      <4>2. confirm[t] \in Nat /\ Len(rules) \in Nat
        BY <2>1, <4>1 DEF ViewTypeOK
      <4> QED BY <2>2, <4>1, <4>2
    <3> QED BY <3>1, <3>2 DEF Aimed
  <2> QED BY <1>2, <2>4, <2>5
<1>4. CASE ~(cursor[s] < Len(rules))
  <2>1. Ignore(s)
    BY <1>4 DEF Toggle
  <2>2. /\ EngineTypeOK' /\ HandlerTypeOK' /\ ChannelTypeOK' /\ SaverTypeOK'
        /\ {cancelled, alive, overlapped}' \subseteq BOOLEAN
        /\ Newest' /\ InForce' /\ Phase'
    BY <1>1, <2>1, HandlingOK
  <2>3. Aimed'
    BY <1>1, <2>1 DEF Aimed, Ignore, viewVars
  <2> QED BY <1>2, <2>2, <2>3
<1> QED BY <1>3, <1>4

LEMMA MoveStep == ASSUME PersistenceIInv, NEW s \in Sessions, Move(s) PROVE PersistenceIInv'
<1> USE DEF PersistenceIInv, PersistenceTypeOK
<1>1. /\ Handling(s, {"j", "k", "y", "other"} \cup Mouse) /\ Ignore(s)
      /\ UNCHANGED <<confirm, asked>>
      /\ {"j", "k", "y", "other"} \cup Mouse \subseteq Keys \cup Mouse
  BY DEF Move, Keys
<1>2. /\ EngineTypeOK' /\ HandlerTypeOK' /\ ChannelTypeOK' /\ SaverTypeOK'
      /\ {cancelled, alive, overlapped}' \subseteq BOOLEAN
      /\ Newest' /\ InForce' /\ Phase'
  BY <1>1, HandlingOK
<1>3. Targets(s) \subseteq Nat
  <2>1. cursor[s] \in Nat /\ Len(seen[s]) \in Nat
    BY DEF ViewTypeOK, HandlerTypeOK
  <2>2. CASE at[s] \in {"j", "wheel down"}
    <3>1. Targets(s) = {IF cursor[s] < Len(seen[s]) - 1 THEN cursor[s] + 1 ELSE cursor[s]}
      BY <2>2, Zenon DEF Targets
    <3> QED BY <2>1, <3>1
  <2>3. CASE at[s] \in {"k", "wheel up"}
    <3>1. Targets(s) = {Above(cursor[s])}
      BY <2>3 DEF Targets
    <3> QED BY <2>1, <3>1 DEF Above
  <2>4. CASE at[s] = "click"
    BY <2>1, <2>4 DEF Targets
  <2>5. CASE at[s] \notin {"j", "wheel down", "k", "wheel up", "click"}
    BY <2>1, <2>5 DEF Targets
  <2> QED BY <2>2, <2>3, <2>4, <2>5
<1>4. ViewTypeOK'
  BY <1>1, <1>3 DEF Move, ViewTypeOK
<1>5. Aimed'
  BY <1>1 DEF Aimed, Ignore
<1> QED BY <1>2, <1>4, <1>5

-----------------------------------------------------------------------------
(* The callback.                                                           *)

LEMMA OfferStep == ASSUME PersistenceIInv, NEW s \in Sessions, Offer(s) PROVE PersistenceIInv'
<1> USE DEF PersistenceIInv, PersistenceTypeOK
<1>1. /\ alive /\ at[s] = "offer"
      /\ UNCHANGED <<engineVars, viewVars, seen, saverVars, cancelled, alive, overlapped>>
  BY DEF Offer
<1>2. EngineTypeOK' /\ ViewTypeOK' /\ SaverTypeOK' /\ Aimed'
      /\ {cancelled, alive, overlapped}' \subseteq BOOLEAN
  BY <1>1 DEF EngineTypeOK, ViewTypeOK, SaverTypeOK, Aimed, engineVars, viewVars, saverVars
<1> Phase'
  <2>1. late' => late \/ saver \in {"last save", "exited"}
    BY DEF Offer, sentVars
  <2> QED BY <1>1, <2>1 DEF Phase, saverVars
<1>3. CASE pending = <<>>
  <2>1. /\ pending' = <<snapshot[s]>> /\ lastSent' = snapshot[s]
        /\ late' = (late \/ saver \in {"last save", "exited"})
        /\ at' = [at EXCEPT ![s] = "idle"] /\ snapshot' = [snapshot EXCEPT ![s] = <<>>]
    BY <1>3 DEF Offer
  <2>2. snapshot[s] \in Seq(Rule)
    BY DEF HandlerTypeOK
  <2>3. HandlerTypeOK'
    BY <1>1, <2>1, EmptySeq DEF HandlerTypeOK
  <2>4. ChannelTypeOK'
    <3>1. <<snapshot[s]>> \in Seq(Seq(Rule)) /\ Len(<<snapshot[s]>>) = 1
      BY <2>2, Single, Zenon
    <3>2. lastSent' \in Seq(Rule) /\ late' \in BOOLEAN
      BY <2>1, <2>2 DEF ChannelTypeOK
    <3>3. pending' \in Seq(Seq(Rule)) /\ Len(pending') <= 1
      <4>1. pending' = <<snapshot[s]>>
        BY <2>1
      <4> QED BY <3>1, <4>1
    <3> QED BY <3>2, <3>3, Zenon DEF ChannelTypeOK
  <2>5. Newest'
    <3>1. pending' # <<>> /\ Head(pending') = lastSent'
      <4>1. <<snapshot[s]>> # <<>> /\ Head(<<snapshot[s]>>) = snapshot[s]
        BY <2>2, Single, Zenon
      <4> QED BY <2>1, <4>1
    <3>2. ~(saver' \in {"last save", "exited"} /\ ~late')
      BY <1>1, <2>1 DEF saverVars
    <3> QED BY <3>1, <3>2 DEF Newest
  <2>6. InForce'
    <3> SUFFICES ASSUME ~overlapped, alive, saver # "off" PROVE
          /\ \A t, u \in Sessions : at'[t] \in InCallback /\ at'[u] \in InCallback => t = u
          /\ \A t \in Sessions : at'[t] \in InCallback => snapshot'[t] = rules
          /\ lastSent' = rules
      BY <1>1 DEF InForce, engineVars, saverVars
    <3>1. at[s] \in InCallback
      BY <1>1 DEF InCallback
    <3>2. snapshot[s] = rules
      BY <3>1 DEF InForce
    <3>3. \A t \in Sessions : at'[t] \notin InCallback
      BY <2>1, <3>1 DEF InForce, HandlerTypeOK, InCallback
    <3> QED BY <2>1, <3>2, <3>3
  <2> QED BY <1>2, <2>3, <2>4, <2>5, <2>6
<1>4. CASE pending # <<>>
  <2>1. at' = [at EXCEPT ![s] = "drain"] /\ UNCHANGED <<sentVars, snapshot>>
    BY <1>4 DEF Offer
  <2>2. HandlerTypeOK'
    BY <1>1, <2>1 DEF HandlerTypeOK, InCallback
  <2>3. ChannelTypeOK'
    BY <2>1 DEF ChannelTypeOK, sentVars
  <2>4. \A t \in Sessions : at'[t] \in InCallback <=> at[t] \in InCallback
    BY <1>1, <2>1 DEF HandlerTypeOK, InCallback
  <2>5. Quiet' <=> Quiet
    BY <2>4 DEF Quiet
  <2>6. Newest'
    BY <1>1, <2>1, <2>5 DEF Newest, sentVars, saverVars
  <2>7. InForce'
    BY <1>1, <2>1, <2>4, <2>5 DEF InForce, sentVars, engineVars, saverVars
  <2> QED BY <1>2, <2>2, <2>3, <2>6, <2>7
<1> QED BY <1>3, <1>4

LEMMA DrainStep == ASSUME PersistenceIInv, NEW s \in Sessions, Drain(s) PROVE PersistenceIInv'
<1> USE DEF PersistenceIInv, PersistenceTypeOK
<1>1. /\ alive /\ at[s] = "drain" /\ pending' = <<>> /\ at' = [at EXCEPT ![s] = "offer"]
      /\ UNCHANGED <<engineVars, viewVars, seen, snapshot, lastSent, late, saverVars,
                     cancelled, alive, overlapped>>
  BY DEF Drain
<1>2. EngineTypeOK' /\ ViewTypeOK' /\ SaverTypeOK' /\ Aimed' /\ Phase'
      /\ {cancelled, alive, overlapped}' \subseteq BOOLEAN
  BY <1>1 DEF EngineTypeOK, ViewTypeOK, SaverTypeOK, Aimed, Phase, engineVars, viewVars, saverVars
<1>3. HandlerTypeOK'
  BY <1>1 DEF HandlerTypeOK, InCallback
<1>4. ChannelTypeOK'
  <2>1. pending' \in Seq(Seq(Rule)) /\ Len(pending') <= 1
    BY <1>1, EmptySeq
  <2> QED BY <1>1, <2>1 DEF ChannelTypeOK
<1>5. \A t \in Sessions : at'[t] \in InCallback <=> at[t] \in InCallback
  BY <1>1 DEF HandlerTypeOK, InCallback
<1>6. ~Quiet'
  BY <1>1 DEF Quiet, InCallback, HandlerTypeOK
<1>7. Newest'
  BY <1>1, <1>6 DEF Newest
<1>8. InForce'
  BY <1>1, <1>5, <1>6 DEF InForce, engineVars, saverVars
<1> QED BY <1>2, <1>3, <1>4, <1>7, <1>8

-----------------------------------------------------------------------------
(* The persistence goroutine, and the end.                                 *)

(* A step that leaves sessions and engine alone concerns Newest only.      *)
LEMMA ElsewhereOK ==
  ASSUME PersistenceIInv,
         UNCHANGED <<engineVars, viewVars, at, seen, snapshot, lastSent, overlapped, alive>>,
         cancelled' \in BOOLEAN, saver' # "off" => saver # "off"
  PROVE  /\ EngineTypeOK' /\ ViewTypeOK' /\ HandlerTypeOK' /\ Aimed' /\ InForce'
         /\ {cancelled, alive, overlapped}' \subseteq BOOLEAN
         /\ (Quiet' <=> Quiet)
<1> USE DEF PersistenceIInv, PersistenceTypeOK
<1>1. EngineTypeOK' /\ ViewTypeOK' /\ HandlerTypeOK' /\ Aimed'
  BY DEF EngineTypeOK, ViewTypeOK, HandlerTypeOK, Aimed, engineVars, viewVars
<1>2. Quiet' <=> Quiet
  BY DEF Quiet
<1>3. InForce'
  BY <1>2 DEF InForce, engineVars
<1> QED BY <1>1, <1>2, <1>3

LEMMA TakeEditStep == ASSUME PersistenceIInv, TakeEdit PROVE PersistenceIInv'
<1> USE DEF PersistenceIInv, PersistenceTypeOK
<1>1. /\ alive /\ saver = "select" /\ pending # <<>>
      /\ latest' = Head(pending) /\ pending' = <<>> /\ timer' = "running" /\ armed' = TRUE
      /\ UNCHANGED <<engineVars, viewVars, at, seen, snapshot, lastSent, late, saver,
                     writable, file, cancelled, alive, overlapped>>
  BY DEF TakeEdit
<1>2. /\ EngineTypeOK' /\ ViewTypeOK' /\ HandlerTypeOK' /\ Aimed' /\ InForce'
      /\ {cancelled, alive, overlapped}' \subseteq BOOLEAN
      /\ (Quiet' <=> Quiet)
  BY <1>1, ElsewhereOK
<1>3. latest' \in Seq(Rule) /\ latest' = lastSent
  BY <1>1 DEF Newest, ChannelTypeOK
<1>4. ChannelTypeOK'
  <2>1. pending' \in Seq(Seq(Rule)) /\ Len(pending') <= 1
    BY <1>1, EmptySeq
  <2> QED BY <1>1, <2>1 DEF ChannelTypeOK
<1>5. SaverTypeOK'
  BY <1>1, <1>3 DEF SaverTypeOK
<1>6. Newest'
  BY <1>1, <1>3 DEF Newest
<1> QED BY <1>1, <1>2, <1>4, <1>5, <1>6 DEF Phase

LEMMA ExpireStep == ASSUME PersistenceIInv, Expire PROVE PersistenceIInv'
<1> USE DEF PersistenceIInv, PersistenceTypeOK
<1>1. /\ timer = "running" /\ timer' = "fired"
      /\ UNCHANGED <<engineVars, viewVars, at, seen, snapshot, sentVars, latest, armed, saver,
                     writable, file, cancelled, alive, overlapped>>
  BY DEF Expire
<1>2. /\ EngineTypeOK' /\ ViewTypeOK' /\ HandlerTypeOK' /\ Aimed' /\ InForce'
      /\ {cancelled, alive, overlapped}' \subseteq BOOLEAN
      /\ (Quiet' <=> Quiet)
  BY <1>1, ElsewhereOK DEF sentVars
<1>3. ChannelTypeOK' /\ SaverTypeOK'
  BY <1>1 DEF ChannelTypeOK, SaverTypeOK, sentVars
<1>4. Newest'
  BY <1>1, <1>2 DEF Newest, sentVars
<1> QED BY <1>1, <1>2, <1>3, <1>4 DEF Phase, sentVars

LEMMA SaveDueStep == ASSUME PersistenceIInv, SaveDue PROVE PersistenceIInv'
<1> USE DEF PersistenceIInv, PersistenceTypeOK
<1>1. /\ alive /\ saver = "select" /\ timer' = "off" /\ armed' = FALSE /\ saver' = "save"
      /\ UNCHANGED <<engineVars, viewVars, at, seen, snapshot, sentVars, latest,
                     writable, file, cancelled, alive, overlapped>>
  BY DEF SaveDue
<1>2. /\ EngineTypeOK' /\ ViewTypeOK' /\ HandlerTypeOK' /\ Aimed' /\ InForce'
      /\ {cancelled, alive, overlapped}' \subseteq BOOLEAN
      /\ (Quiet' <=> Quiet)
  BY <1>1, ElsewhereOK DEF sentVars
<1>3. ChannelTypeOK' /\ SaverTypeOK'
  BY <1>1 DEF ChannelTypeOK, SaverTypeOK, sentVars
<1>4. Newest'
  <2>1. armed
    BY DEF SaveDue, Phase
  <2> QED BY <1>1, <1>2, <2>1 DEF Newest, sentVars
<1> QED BY <1>1, <1>2, <1>3, <1>4 DEF Phase, sentVars

LEMMA ShutdownStep == ASSUME PersistenceIInv, Shutdown PROVE PersistenceIInv'
<1> USE DEF PersistenceIInv, PersistenceTypeOK
<1>1. /\ alive /\ saver = "select" /\ pending' = <<>>
      /\ latest' = IF pending = <<>> THEN latest ELSE Head(pending)
      /\ armed' = (armed \/ pending # <<>>)
      /\ saver' = IF armed' THEN "last save" ELSE "exited"
      /\ UNCHANGED <<engineVars, viewVars, at, seen, snapshot, lastSent, late, timer,
                     writable, file, cancelled, alive, overlapped>>
  BY DEF Shutdown
<1>2. /\ EngineTypeOK' /\ ViewTypeOK' /\ HandlerTypeOK' /\ Aimed' /\ InForce'
      /\ {cancelled, alive, overlapped}' \subseteq BOOLEAN
      /\ (Quiet' <=> Quiet)
  BY <1>1, ElsewhereOK
<1>3. pending # <<>> => Head(pending) = lastSent /\ lastSent \in Seq(Rule)
  BY DEF Newest, ChannelTypeOK
<1>4. ChannelTypeOK'
  <2>1. pending' \in Seq(Seq(Rule)) /\ Len(pending') <= 1
    <3>1. pending' = <<>>
      BY <1>1
    <3> QED BY <3>1, EmptySeq
  <2> QED BY <1>1, <2>1 DEF ChannelTypeOK
<1>5. SaverTypeOK'
  BY <1>1, <1>3 DEF SaverTypeOK
<1>6. Newest'
  <2> SUFFICES ASSUME Quiet, ~late
               PROVE  /\ saver' = "last save" => latest' = lastSent
                      /\ saver' = "exited" => file = lastSent \/ ~writable
    BY <1>1, <1>2 DEF Newest
  <2>1. CASE pending # <<>>
    BY <1>1, <1>3, <2>1
  <2>2. CASE pending = <<>>
    BY <1>1, <2>2 DEF Newest, SaverTypeOK
  <2> QED BY <2>1, <2>2
<1>7. Phase'
  BY <1>1 DEF Phase
<1> QED BY <1>2, <1>4, <1>5, <1>6, <1>7

LEMMA PersistStep == ASSUME PersistenceIInv, Persist PROVE PersistenceIInv'
<1> USE DEF PersistenceIInv, PersistenceTypeOK
<1>1. /\ alive /\ saver \in {"save", "last save"}
      /\ saver' = IF saver = "save" THEN "select" ELSE "exited"
      /\ \/ writable /\ file' = latest /\ writable' = writable
         \/ writable' = FALSE /\ file' = file
      /\ UNCHANGED <<engineVars, viewVars, at, seen, snapshot, sentVars, latest, armed, timer,
                     cancelled, alive, overlapped>>
  BY DEF Persist, SaverTypeOK
<1>2. /\ EngineTypeOK' /\ ViewTypeOK' /\ HandlerTypeOK' /\ Aimed' /\ InForce'
      /\ {cancelled, alive, overlapped}' \subseteq BOOLEAN
      /\ (Quiet' <=> Quiet)
  BY <1>1, ElsewhereOK DEF sentVars
<1>3. ChannelTypeOK'
  BY <1>1 DEF ChannelTypeOK, sentVars
<1>4. SaverTypeOK'
  BY <1>1 DEF SaverTypeOK
<1>5. Newest'
  <2>1. UNCHANGED <<pending, lastSent, late>>
    BY <1>1 DEF sentVars
  <2>2. saver' \in {"last save", "exited"} => saver = "last save"
    BY <1>1
  <2> SUFFICES ASSUME Quiet, pending = <<>>, ~late
               PROVE  latest' = lastSent /\ (file' = lastSent \/ ~writable')
    BY <1>2, <2>1, <2>2 DEF Newest
  <2>3. latest = lastSent
    BY <1>1 DEF Newest
  <2> QED BY <1>1, <2>3
<1>6. Phase'
  BY <1>1 DEF Phase, sentVars
<1> QED BY <1>2, <1>3, <1>4, <1>5, <1>6

LEMMA CancelStep == ASSUME PersistenceIInv, Cancel PROVE PersistenceIInv'
<1> USE DEF PersistenceIInv, PersistenceTypeOK
<1>1. /\ cancelled' = TRUE
      /\ UNCHANGED <<engineVars, viewVars, at, seen, snapshot, sentVars, saverVars,
                     alive, overlapped>>
  BY DEF Cancel
<1>2. /\ EngineTypeOK' /\ ViewTypeOK' /\ HandlerTypeOK' /\ Aimed' /\ InForce'
      /\ {cancelled, alive, overlapped}' \subseteq BOOLEAN
      /\ (Quiet' <=> Quiet)
  BY <1>1, ElsewhereOK DEF sentVars, saverVars
<1>3. ChannelTypeOK' /\ SaverTypeOK'
  BY <1>1 DEF ChannelTypeOK, SaverTypeOK, sentVars, saverVars
<1>4. Newest'
  BY <1>1, <1>2 DEF Newest, sentVars, saverVars
<1> QED BY <1>1, <1>2, <1>3, <1>4 DEF Phase, saverVars, sentVars

LEMMA ReturnStep == ASSUME PersistenceIInv, Return PROVE PersistenceIInv'
<1> USE DEF PersistenceIInv, PersistenceTypeOK, Return
<1>1. EngineTypeOK'
  BY EmptySeq DEF EngineTypeOK
<1>2. ViewTypeOK'
  BY PersistenceAssumption DEF ViewTypeOK, PersistenceAssumption
<1>3. HandlerTypeOK'
  BY EmptySeq DEF HandlerTypeOK
<1>4. ChannelTypeOK'
  <2>1. pending' \in Seq(Seq(Rule)) /\ Len(pending') <= 1
    BY EmptySeq
  <2> QED BY <2>1 DEF ChannelTypeOK
<1>5. SaverTypeOK'
  BY EmptySeq DEF SaverTypeOK
<1>6. {cancelled, alive, overlapped}' \subseteq BOOLEAN
  OBVIOUS
<1>7. Aimed' /\ Newest' /\ InForce' /\ Phase'
  BY DEF Aimed, Newest, InForce, Phase
<1> QED BY <1>1, <1>2, <1>3, <1>4, <1>5, <1>6, <1>7

LEMMA PersistenceIInvStep == PersistenceIInv /\ [PersistenceNext]_persistenceVars => PersistenceIInv'
<1> SUFFICES ASSUME PersistenceIInv, [PersistenceNext]_persistenceVars PROVE PersistenceIInv'
  OBVIOUS
<1>1. ASSUME NEW s \in Sessions, AddRule(s) \/ \E event \in Events : Press(s, event)
      PROVE  PersistenceIInv'
  BY <1>1, AddRuleStep, PressStep
<1>2. ASSUME NEW s \in Sessions, Handle(s) PROVE PersistenceIInv'
  BY <1>2, ConfirmDeleteStep, CancelDeleteStep, AskDeleteStep, ToggleStep, MoveStep DEF Handle
<1>3. ASSUME NEW s \in Sessions, Callback(s) PROVE PersistenceIInv'
  BY <1>3, OfferStep, DrainStep DEF Callback
<1>4. CASE Save \/ Expire
  BY <1>4, TakeEditStep, SaveDueStep, ShutdownStep, PersistStep, ExpireStep DEF Save
<1>5. CASE Cancel \/ Return
  BY <1>5, CancelStep, ReturnStep
<1>6. CASE UNCHANGED persistenceVars
  <2>1. UNCHANGED <<engineVars, viewVars, at, seen, snapshot, sentVars, saverVars,
                    cancelled, alive, overlapped>>
    BY <1>6 DEF persistenceVars
  <2>2. /\ EngineTypeOK' /\ ViewTypeOK' /\ HandlerTypeOK' /\ Aimed' /\ InForce'
        /\ {cancelled, alive, overlapped}' \subseteq BOOLEAN
        /\ (Quiet' <=> Quiet)
    BY <2>1, ElsewhereOK DEF sentVars, saverVars, PersistenceIInv, PersistenceTypeOK
  <2>3. ChannelTypeOK' /\ SaverTypeOK'
    BY <2>1 DEF PersistenceIInv, PersistenceTypeOK, ChannelTypeOK, SaverTypeOK, sentVars, saverVars
  <2>4. Newest' /\ Phase'
    BY <2>1, <2>2 DEF PersistenceIInv, Newest, Phase, sentVars, saverVars
  <2> QED BY <2>2, <2>3, <2>4 DEF PersistenceIInv, PersistenceTypeOK
<1> QED BY <1>1, <1>2, <1>3, <1>4, <1>5, <1>6 DEF PersistenceNext

LEMMA PersistenceIInvAlways == PersistenceSpec => []PersistenceIInv
BY PersistenceIInvInit, PersistenceIInvStep, PTL DEF PersistenceSpec

(* Rules, views, channel and saver keep their types.                       *)
THEOREM PersistenceTypeCorrect == PersistenceSpec => []PersistenceTypeOK
<1>1. PersistenceIInv => PersistenceTypeOK
  BY DEF PersistenceIInv
<1> QED BY <1>1, PersistenceIInvAlways, PTL

(* startAlertPersistence: when nothing is on its way, the file holds what  *)
(* was sent last, and the rules in force unless the last edit overlapped   *)
(* with another.                                                           *)
THEOREM SettledMeansSavedAlways == PersistenceSpec => []SettledMeansSaved
<1>1. PersistenceIInv => SettledMeansSaved
  <2> SUFFICES ASSUME PersistenceIInv, Settled, writable
               PROVE  file = lastSent /\ (~overlapped => file = rules)
    BY DEF SettledMeansSaved
  <2>1. Quiet /\ pending = <<>> /\ ~late /\ alive /\ saver # "off"
    BY DEF PersistenceIInv, Settled, Newest, Phase, SaverTypeOK
  <2>2. file = lastSent
    BY <2>1 DEF PersistenceIInv, Settled, Newest
  <2>3. ~overlapped => lastSent = rules
    BY <2>1 DEF PersistenceIInv, InForce
  <2> QED BY <2>2, <2>3
<1> QED BY <1>1, PersistenceIInvAlways, PTL

(* alerts.Model: a confirmed deletion takes the rule the question named,   *)
(* however many sessions edit in the meantime, unless one of them removed  *)
(* it or one before it.                                                    *)
THEOREM DeletesWhatWasAskedAlways == PersistenceSpec => DeletesWhatWasAsked
<1>1. ASSUME PersistenceIInv, PersistenceNext, NEW s \in Sessions,
             at[s] = "y", at'[s] # "y", edits' # edits, asked[s] # 0
      PROVE  \E i \in DOMAIN rules : rules[i].id = asked[s] /\ rules' = RemoveAt(rules, i)
  <2> USE DEF PersistenceIInv, PersistenceTypeOK, HandlerTypeOK
  <2>1. at'[s] # at[s] /\ at' # at /\ at[s] # "idle" /\ edits' # edits
    BY <1>1
  <2>2. ConfirmDelete(s) /\ ~Ignore(s)
    <3>1. ~Ignore(s)
      BY <1>1 DEF Ignore
    <3>2. \A t \in Sessions : ~AddRule(t) /\ ~\E event \in Events : Press(t, event)
      BY <1>1, <2>1 DEF AddRule, Edit, Press, engineVars
    <3>3. \A t \in Sessions : ~Callback(t)
      BY <2>1 DEF Callback, Offer, Drain, engineVars
    <3>4. ~(Save \/ Expire \/ Cancel)
      BY <2>1 DEF Save, TakeEdit, SaveDue, Shutdown, Persist, Expire, Cancel
    <3>5. ~Return
      BY <2>1 DEF Return
    <3>6. \A t \in Sessions : Handle(t) => t = s
      <4>1. \A t \in Sessions \ {s} : ~Ignore(t)
        BY <2>1 DEF Ignore
      <4>2. \A t \in Sessions \ {s} : \A new : ~Edit(t, new)
        BY <1>1 DEF Edit
      <4> QED BY <4>1, <4>2 DEF Handle, ConfirmDelete, CancelDelete, AskDelete, Toggle, Move
    <3>7. Handle(s)
      BY <1>1, <3>2, <3>3, <3>4, <3>5, <3>6 DEF PersistenceNext
    <3> QED BY <1>1, <3>1, <3>7
            DEF Handle, CancelDelete, AskDelete, Toggle, Move, Handling, Mouse
  <2>3. confirm[s] < Len(rules) /\ rules' = RemoveAt(rules, confirm[s] + 1)
    BY <2>2 DEF ConfirmDelete, Doomed, Edit
  <2>4. confirm[s] \in Nat /\ rules[confirm[s] + 1].id = asked[s] /\ rules \in Seq(Rule)
    BY <1>1, <2>2 DEF Aimed, ViewTypeOK, ConfirmDelete, Answering, EngineTypeOK
  <2> QED BY <2>3, <2>4
<1> DEFINE Deletes ==
      \A s \in Sessions :
        at[s] = "y" /\ at'[s] # "y" /\ edits' # edits /\ asked[s] # 0 =>
          \E i \in DOMAIN rules : rules[i].id = asked[s] /\ rules' = RemoveAt(rules, i)
<1>2. PersistenceIInv /\ [PersistenceNext]_persistenceVars => [Deletes]_persistenceVars
  BY <1>1
<1> QED BY <1>2, PersistenceIInvAlways, PTL DEF PersistenceSpec, DeletesWhatWasAsked

-----------------------------------------------------------------------------
(***************************************************************************)
(* config.yaml.  The inductive invariant: what a process is about to write is a whole    *)
(* file, and once it is to be renamed the temporary file holds just that.  *)
(***************************************************************************)
Payload(m) == IF m.dest = "backup" THEN m.raw ELSE m.target

Prepared(m) ==
  /\ m.pc \notin {"out", "loaded"} => m.target \in Contents /\ m.job # "none"
  /\ m.pc = "name" \/ m.dest = "backup" => m.raw \in Contents
  /\ m.pc = "rename" => m.tmp = Payload(m)
  /\ m.dest = "backup" => m.sec # 0 /\ m.born # 0

ProcessesOK ==
  /\ process \in [Processes -> Process]
  /\ \A p \in Processes : Prepared(process[p])

FilesOK ==
  /\ disk \in Contents \cup {Missing}
  /\ backups \subseteq Backup
  /\ \A b \in backups : b.content \in Contents

CountersOK ==
  /\ now \in 1..MaxSeconds
  /\ made \in Nat /\ thisSecond \in 0..MaxPerSecond
  /\ writes \in 0..MaxWrites /\ byHand \in 0..MaxByHand /\ crashes \in 0..MaxCrashes

IInv == FilesOK /\ CountersOK /\ ProcessesOK

-----------------------------------------------------------------------------
(* What the kinds of file are.                                             *)

LEMMA Files ==
  /\ Missing \in File /\ Torn \in File /\ Contents \subseteq File
  /\ Torn \notin Contents /\ Missing \notin Contents /\ Broken \in Contents
  /\ Missing # Torn
  /\ \A items \in SUBSET Items : Whole(items) \in Contents
  /\ \A c \in Contents : c # Broken => c.items \in SUBSET Items
<1>1. Missing \in File /\ Torn \in File /\ Contents \subseteq File /\ Broken \in Contents
  BY DEF Contents, File
<1>2. \A items \in SUBSET Items : Whole(items) \in Contents
  BY DEF Contents
<1>3. Missing # Torn
  BY DEF Missing, Torn
<1>4. ASSUME NEW c \in Contents
      PROVE  /\ c.kind \in {"whole", "broken"}
             /\ c # Broken => c.items \in SUBSET Items
  <2>1. CASE c = Broken
    BY <2>1 DEF Broken
  <2>2. ASSUME NEW items \in SUBSET Items, c = Whole(items)
        PROVE  c.kind = "whole" /\ c.items \in SUBSET Items
    BY <2>2 DEF Whole
  <2> QED BY <2>1, <2>2 DEF Contents
<1>5. Missing.kind = "missing" /\ Torn.kind = "torn"
  BY DEF Missing, Torn
<1>6. Torn \notin Contents /\ Missing \notin Contents
  BY <1>4, <1>5
<1> QED BY <1>1, <1>2, <1>3, <1>4, <1>6

LEMMA IdleOK == Idle \in Process /\ Prepared(Idle)
<1>1. Idle \in Process
  BY Files, StoreAssumption DEF StoreAssumption, Idle, Process
<1>2. Prepared(Idle)
  BY DEF Idle, Prepared
<1> QED BY <1>1, <1>2

(* A step of one process that leaves it well prepared.                     *)
LEMMA OneMoves ==
  ASSUME ProcessesOK, NEW p \in Processes, NEW m \in Process, Prepared(m),
         process' = [process EXCEPT ![p] = m]
  PROVE  ProcessesOK'
<1>1. process' \in [Processes -> Process]
  BY DEF ProcessesOK
<1>2. ASSUME NEW q \in Processes PROVE Prepared(process'[q])
  BY DEF ProcessesOK
<1> QED BY <1>1, <1>2 DEF ProcessesOK

(* A change of the file outdates processes and changes nothing else.       *)
LEMMA OutdatedOK ==
  ASSUME ProcessesOK, NEW content
  PROVE  /\ Outdated(content) \in [Processes -> Process]
         /\ \A q \in Processes : Prepared(Outdated(content)[q])
<1>1. ASSUME NEW m \in Process, Prepared(m)
      PROVE  [m EXCEPT !.stale = TRUE] \in Process /\ Prepared([m EXCEPT !.stale = TRUE])
  <2> DEFINE old == [m EXCEPT !.stale = TRUE]
  <2>1. old \in Process
    BY <1>1 DEF Process
  <2>2. /\ old.pc = m.pc /\ old.job = m.job /\ old.dest = m.dest /\ old.sec = m.sec
        /\ old.born = m.born /\ old.target = m.target /\ old.raw = m.raw /\ old.tmp = m.tmp
    BY <1>1 DEF Process
  <2>3. Payload(old) = Payload(m)
    BY <2>2 DEF Payload
  <2>4. Prepared(old)
    BY <1>1, <2>2, <2>3 DEF Prepared
  <2> QED BY <2>1, <2>4
<1>2. \A q \in Processes :
        Outdated(content)[q] \in {process[q], [process[q] EXCEPT !.stale = TRUE]}
  BY DEF Outdated
<1>3. Outdated(content) = [q \in Processes |-> Outdated(content)[q]]
  BY DEF Outdated
<1> QED BY <1>1, <1>2, <1>3 DEF ProcessesOK

-----------------------------------------------------------------------------

LEMMA InitIInv == Init => IInv
<1> SUFFICES ASSUME Init PROVE IInv
  OBVIOUS
<1>1. FilesOK
  BY Files DEF Init, FilesOK
<1>2. CountersOK
  BY StoreAssumption DEF Init, CountersOK, StoreAssumption
<1>3. ProcessesOK
  BY IdleOK DEF Init, ProcessesOK
<1> QED BY <1>1, <1>2, <1>3 DEF IInv

-----------------------------------------------------------------------------
(* The steps of a process, in the order of SaveSafely.                     *)

LEMMA LeaveOK == ASSUME ProcessesOK, NEW p \in Processes, Leave(p) PROVE ProcessesOK'
BY IdleOK, OneMoves DEF Leave

(* Going on with nothing else changed, to a step before the rename.        *)
LEMMA GotoOK ==
  ASSUME ProcessesOK, NEW p \in Processes,
         process[p].pc \notin {"out", "loaded"},
         NEW pc \in {"confirm", "backup", "create", "prune"},
         Goto(p, pc)
  PROVE  ProcessesOK'
<1> DEFINE m == [process[p] EXCEPT !.pc = pc]
<1>1. m \in Process
  BY DEF ProcessesOK, Process
<1>2. Prepared(m)
  BY DEF ProcessesOK, Process, Prepared
<1> QED BY <1>1, <1>2, OneMoves DEF Goto

LEMMA LoadStep == ASSUME IInv, NEW p \in Processes, Load(p) PROVE IInv'
<1> USE DEF IInv
<1>1. FilesOK' /\ CountersOK'
  BY DEF Load, FilesOK, CountersOK, counters
<1>2. CASE disk = Missing
  <2> DEFINE m == [Idle EXCEPT !.pc = "create", !.job = "seed",
                               !.cfg = Defaults, !.target = Whole(Defaults)]
  <2>1. Whole(Defaults) \in Contents /\ Whole(Defaults) \in File /\ Defaults \in SUBSET Items
    BY Files, StoreAssumption DEF StoreAssumption
  <2>2. m \in Process
    BY <2>1, IdleOK DEF Process, Idle
  <2>3. Prepared(m)
    BY <2>1 DEF Prepared, Idle
  <2> QED BY <1>1, <1>2, <2>2, <2>3, OneMoves DEF Load
<1>3. CASE disk # Missing
  <2> DEFINE m == [Idle EXCEPT !.pc = "loaded",
                               !.cfg = IF disk = Broken THEN Defaults ELSE disk.items]
  <2>1. (IF disk = Broken THEN Defaults ELSE disk.items) \in SUBSET Items
    BY <1>3, Files, StoreAssumption DEF StoreAssumption, FilesOK
  <2>2. m \in Process
    BY <2>1, IdleOK DEF Process, Idle
  <2>3. Prepared(m)
    BY DEF Prepared, Idle
  <2> QED BY <1>1, <1>3, <2>2, <2>3, OneMoves DEF Load
<1> QED BY <1>2, <1>3

LEMMA BeginSaveStep == ASSUME IInv, NEW p \in Processes, BeginSave(p) PROVE IInv'
<1> USE DEF IInv
<1>1. FilesOK' /\ CountersOK'
  BY StoreAssumption DEF BeginSave, FilesOK, CountersOK, StoreAssumption
<1>2. PICK cfg \in SUBSET Items :
        process' = [process EXCEPT ![p] =
          [@ EXCEPT !.pc = "read", !.job = "save", !.cfg = cfg, !.target = Whole(cfg)]]
  <2>1. process[p].cfg \in SUBSET Items
    BY DEF ProcessesOK, Process
  <2> QED BY <2>1 DEF BeginSave
<1> DEFINE m == [process[p] EXCEPT !.pc = "read", !.job = "save",
                                   !.cfg = cfg, !.target = Whole(cfg)]
<1>3. Whole(cfg) \in Contents /\ Whole(cfg) \in File
  BY Files
<1>4. process[p] \in Process /\ Prepared(process[p])
  BY DEF ProcessesOK
<1>5. m \in Process
  BY <1>3, <1>4 DEF Process
<1>6. Prepared(m)
  BY <1>3, <1>4 DEF Prepared, Process
<1> QED BY <1>1, <1>2, <1>5, <1>6, OneMoves

LEMMA ReadStep == ASSUME IInv, NEW p \in Processes, Read(p) PROVE IInv'
<1> USE DEF IInv
<1>1. FilesOK' /\ CountersOK'
  BY DEF Read, FilesOK, CountersOK, counters
<1> DEFINE m == [process[p] EXCEPT !.pc = "examine", !.current = disk, !.stale = FALSE]
<1>2. process[p] \in Process /\ Prepared(process[p]) /\ process[p].pc = "read"
  BY DEF ProcessesOK, Read, At
<1>3. disk \in File
  BY Files DEF FilesOK
<1>4. m \in Process
  BY <1>2, <1>3 DEF Process
<1>5. Prepared(m)
  BY <1>2 DEF Prepared, Process
<1> QED BY <1>1, <1>4, <1>5, OneMoves DEF Read

LEMMA ExamineStep ==
  ASSUME IInv, NEW p \in Processes, NEW yes \in BOOLEAN, NEW force \in BOOLEAN,
         Examine(p, yes, force)
  PROVE  IInv'
<1> USE DEF IInv
<1>1. FilesOK' /\ CountersOK'
  BY DEF Examine, FilesOK, CountersOK, counters
<1>2. Leave(p) \/ \E pc \in {"confirm", "backup", "create", "prune"} : Goto(p, pc)
  BY DEF Examine, Proceed
<1>3. process[p].pc \notin {"out", "loaded"}
  BY DEF Examine, At
<1> QED BY <1>1, <1>2, <1>3, LeaveOK, GotoOK

LEMMA ConfirmStep == ASSUME IInv, NEW p \in Processes, Confirm(p) PROVE IInv'
<1> USE DEF IInv
<1>1. FilesOK' /\ CountersOK'
  BY DEF Confirm, FilesOK, CountersOK, counters
<1>2. Leave(p) \/ \E pc \in {"confirm", "backup", "create", "prune"} : Goto(p, pc)
  BY DEF Confirm, Proceed
<1>3. process[p].pc \notin {"out", "loaded"}
  BY DEF Confirm, At
<1> QED BY <1>1, <1>2, <1>3, LeaveOK, GotoOK

LEMMA RestoreStep ==
  ASSUME IInv, NEW p \in Processes, NEW b \in backups, Restore(p, b) PROVE IInv'
<1> USE DEF IInv
<1>1. FilesOK' /\ CountersOK'
  BY StoreAssumption DEF Restore, FilesOK, CountersOK, StoreAssumption
<1> DEFINE m == [Idle EXCEPT !.pc = "stat", !.job = "restore", !.target = b.content]
<1>2. b.content \in Contents /\ b.content \in File
  BY Files DEF FilesOK
<1>3. m \in Process
  BY <1>2, IdleOK DEF Process, Idle
<1>4. Prepared(m)
  BY <1>2 DEF Prepared, Idle
<1> QED BY <1>1, <1>3, <1>4, OneMoves DEF Restore

LEMMA RestoreStatStep == ASSUME IInv, NEW p \in Processes, RestoreStat(p) PROVE IInv'
<1> USE DEF IInv
<1>1. FilesOK' /\ CountersOK'
  BY DEF RestoreStat, FilesOK, CountersOK, counters
<1> DEFINE m == [process[p] EXCEPT !.pc = IF disk = Missing THEN "create" ELSE "backup",
                                   !.stale = FALSE]
<1>2. process[p] \in Process /\ Prepared(process[p]) /\ process[p].pc = "stat"
  BY DEF ProcessesOK, RestoreStat, At
<1>3. m \in Process
  BY <1>2 DEF Process
<1>4. Prepared(m)
  BY <1>2 DEF Prepared, Process
<1> QED BY <1>1, <1>3, <1>4, OneMoves DEF RestoreStat

-----------------------------------------------------------------------------
(* Backup.                                                                 *)

LEMMA BackupReadStep == ASSUME IInv, NEW p \in Processes, BackupRead(p) PROVE IInv'
<1> USE DEF IInv
<1>1. FilesOK' /\ CountersOK'
  BY DEF BackupRead, FilesOK, CountersOK, counters, Leave
<1>2. CASE disk = Missing
  BY <1>1, <1>2, LeaveOK DEF BackupRead
<1>3. CASE disk # Missing
  <2> DEFINE m == [process[p] EXCEPT !.pc = "name", !.raw = disk, !.stale = FALSE]
  <2>1. process[p] \in Process /\ Prepared(process[p]) /\ process[p].pc = "backup"
    BY DEF ProcessesOK, BackupRead, At
  <2>2. disk \in Contents /\ disk \in File
    BY <1>3, Files DEF FilesOK
  <2>3. m \in Process
    BY <2>1, <2>2 DEF Process
  <2>4. Prepared(m)
    BY <2>1, <2>2 DEF Prepared, Process
  <2> QED BY <1>1, <1>3, <2>3, <2>4, OneMoves DEF BackupRead
<1> QED BY <1>2, <1>3

LEMMA BackupNameStep == ASSUME IInv, NEW p \in Processes, BackupName(p) PROVE IInv'
<1> USE DEF IInv
<1>1. FilesOK'
  BY DEF BackupName, FilesOK
<1>2. CASE Leave(p) /\ UNCHANGED <<made, thisSecond>>
  <2>1. CountersOK'
    BY <1>2 DEF BackupName, CountersOK, counters
  <2> QED BY <1>1, <1>2, <2>1, LeaveOK
<1>3. CASE /\ thisSecond < MaxPerSecond
           /\ \E n \in 0..99 :
                process' = [process EXCEPT ![p] =
                  [@ EXCEPT !.pc = "create", !.dest = "backup", !.sec = now, !.n = n,
                            !.born = made + 1]]
           /\ made' = made + 1
           /\ thisSecond' = thisSecond + 1
  <2>1. CountersOK'
    <3>1. made' \in Nat /\ thisSecond' \in 0..MaxPerSecond
      BY <1>3, StoreAssumption DEF CountersOK, StoreAssumption
    <3>2. UNCHANGED <<now, writes, byHand, crashes>>
      BY DEF BackupName, counters
    <3> QED BY <3>1, <3>2 DEF CountersOK
  <2>2. PICK n \in 0..99 :
          process' = [process EXCEPT ![p] =
            [@ EXCEPT !.pc = "create", !.dest = "backup", !.sec = now, !.n = n,
                      !.born = made + 1]]
    BY <1>3
  <2> DEFINE m == [process[p] EXCEPT !.pc = "create", !.dest = "backup", !.sec = now,
                                     !.n = n, !.born = made + 1]
  <2>3. process[p] \in Process /\ Prepared(process[p]) /\ process[p].pc = "name"
    BY DEF ProcessesOK, BackupName, At
  <2>4. now \in 0..MaxSeconds /\ now # 0 /\ made + 1 \in Nat /\ made + 1 # 0
    BY StoreAssumption DEF CountersOK, StoreAssumption
  <2>5. m \in Process
    BY <2>3, <2>4 DEF Process
  <2>6. Prepared(m)
    BY <2>3, <2>4 DEF Prepared, Process
  <2> QED BY <1>1, <2>1, <2>2, <2>5, <2>6, OneMoves
<1> QED BY <1>2, <1>3 DEF BackupName

LEMMA PruneStep == ASSUME IInv, NEW p \in Processes, Prune(p) PROVE IInv'
<1> USE DEF IInv
<1>1. FilesOK' /\ CountersOK'
  BY DEF Prune, FilesOK, CountersOK, counters
<1> DEFINE m == [process[p] EXCEPT !.pc = "create", !.dest = "config"]
<1>2. process[p] \in Process /\ Prepared(process[p]) /\ process[p].pc = "prune"
  BY DEF ProcessesOK, Prune, At
<1>3. m \in Process
  BY <1>2 DEF Process
<1>4. Prepared(m)
  BY <1>2 DEF Prepared, Process
<1> QED BY <1>1, <1>3, <1>4, OneMoves DEF Prune

-----------------------------------------------------------------------------
(* writeAtomic.                                                            *)

LEMMA CreateStep == ASSUME IInv, NEW p \in Processes, Create(p) PROVE IInv'
<1> USE DEF IInv
<1>1. FilesOK' /\ CountersOK'
  BY DEF Create, FilesOK, CountersOK, counters
<1> DEFINE m == [process[p] EXCEPT !.pc = "fill", !.tmp = Torn]
<1>2. process[p] \in Process /\ Prepared(process[p]) /\ process[p].pc = "create"
  BY DEF ProcessesOK, Create, At
<1>3. m \in Process
  BY <1>2, Files DEF Process
<1>4. Prepared(m)
  BY <1>2 DEF Prepared, Process
<1> QED BY <1>1, <1>3, <1>4, OneMoves DEF Create

LEMMA FillStep == ASSUME IInv, NEW p \in Processes, Fill(p) PROVE IInv'
<1> USE DEF IInv
<1>1. FilesOK' /\ CountersOK'
  BY DEF Fill, FilesOK, CountersOK, counters
<1> DEFINE m == [process[p] EXCEPT !.pc = "rename", !.tmp = Payload(process[p])]
<1>2. process[p] \in Process /\ Prepared(process[p]) /\ process[p].pc = "fill"
  BY DEF ProcessesOK, Fill, At
<1>3. m \in Process
  BY <1>2 DEF Process, Payload
<1>4. Prepared(m)
  BY <1>2 DEF Prepared, Process, Payload
<1>5. process' = [process EXCEPT ![p] = m]
  BY DEF Fill, Payload
<1> QED BY <1>1, <1>3, <1>4, <1>5, OneMoves

LEMMA RenameBackupStep == ASSUME IInv, NEW p \in Processes, RenameBackup(p) PROVE IInv'
<1> USE DEF IInv
<1> DEFINE m == process[p]
           new == [sec |-> m.sec, n |-> m.n, born |-> m.born, content |-> m.tmp]
<1>1. m \in Process /\ Prepared(m) /\ m.pc = "rename" /\ m.dest = "backup"
  BY DEF ProcessesOK, RenameBackup, At
<1>2. m.tmp \in Contents
  BY <1>1 DEF Prepared, Payload
<1>3. new \in Backup /\ new.content \in Contents
  <2>1. m.sec \in 1..MaxSeconds /\ m.n \in 0..99 /\ m.born \in Nat \ {0}
    BY <1>1, StoreAssumption DEF Process, Prepared, StoreAssumption
  <2>2. m.tmp \in File \ {Missing}
    BY <1>2, Files
  <2> QED BY <1>2, <2>1, <2>2 DEF Backup
<1>4. backups' \subseteq backups \cup {new}
  BY DEF RenameBackup
<1>5. FilesOK'
  BY <1>3, <1>4 DEF FilesOK, RenameBackup
<1>6. CountersOK'
  BY DEF RenameBackup, CountersOK, counters
<1>7. ProcessesOK'
  BY <1>1, GotoOK DEF RenameBackup
<1> QED BY <1>5, <1>6, <1>7

LEMMA RenameConfigStep == ASSUME IInv, NEW p \in Processes, RenameConfig(p) PROVE IInv'
<1> USE DEF IInv
<1>1. process[p] \in Process /\ Prepared(process[p])
      /\ process[p].pc = "rename" /\ process[p].dest = "config"
  BY DEF ProcessesOK, RenameConfig, At
<1>2. process[p].tmp \in Contents
  BY <1>1 DEF Prepared, Payload
<1>3. FilesOK'
  BY <1>2 DEF FilesOK, RenameConfig
<1>4. CountersOK'
  BY DEF RenameConfig, CountersOK, counters
<1>5. PICK m \in {Idle, [Idle EXCEPT !.pc = "loaded", !.cfg = process[p].cfg]} :
        process' = [Outdated(process[p].tmp) EXCEPT ![p] = m]
  <2>1. PICK pc \in CASE process[p].job = "seed" -> {"loaded"}
                      [] process[p].job = "save" -> {"loaded", "out"}
                      [] process[p].job = "restore" -> {"out"} :
          process' = [Outdated(process[p].tmp) EXCEPT ![p] =
                        IF pc = "out" THEN Idle
                        ELSE [Idle EXCEPT !.pc = pc, !.cfg = process[p].cfg]]
    BY DEF RenameConfig
  <2>2. pc \in {"loaded", "out"}
    <3>1. process[p].job \in {"seed", "save", "restore"}
      BY <1>1 DEF Process, Prepared
    <3> QED BY <2>1, <3>1
  <2> QED BY <2>1, <2>2
<1>6. m \in Process /\ Prepared(m)
  <2>1. [Idle EXCEPT !.pc = "loaded", !.cfg = process[p].cfg] \in Process
    BY <1>1, IdleOK DEF Process, Idle
  <2>2. Prepared([Idle EXCEPT !.pc = "loaded", !.cfg = process[p].cfg])
    BY DEF Prepared, Idle
  <2> QED BY <2>1, <2>2, IdleOK
<1>7. process' \in [Processes -> Process]
  BY <1>5, <1>6, OutdatedOK
<1>8. ASSUME NEW q \in Processes PROVE Prepared(process'[q])
  BY <1>5, <1>6, OutdatedOK
<1> QED BY <1>3, <1>4, <1>7, <1>8 DEF ProcessesOK

-----------------------------------------------------------------------------
(* Failures, and others at work.                                           *)

LEMMA CrashStep == ASSUME IInv, NEW p \in Processes, Crash(p) PROVE IInv'
<1> USE DEF IInv
<1>1. FilesOK' /\ CountersOK'
  BY StoreAssumption DEF Crash, FilesOK, CountersOK, StoreAssumption
<1> DEFINE m == [Idle EXCEPT !.pc = "loaded", !.cfg = Defaults]
<1>2. m \in Process
  BY IdleOK, StoreAssumption DEF Process, Idle, StoreAssumption
<1>3. Prepared(m)
  BY DEF Prepared, Idle
<1>4. Leave(p) \/ process' = [process EXCEPT ![p] = m]
  BY DEF Crash
<1> QED BY <1>1, <1>2, <1>3, <1>4, LeaveOK, OneMoves

LEMMA EditByHandStep == ASSUME IInv, EditByHand PROVE IInv'
<1> USE DEF IInv
<1>1. PICK content \in Contents \cup {Missing} :
        disk' = content /\ process' = Outdated(content)
  BY DEF EditByHand
<1>2. FilesOK'
  BY <1>1 DEF FilesOK, EditByHand
<1>3. CountersOK'
  BY StoreAssumption DEF EditByHand, CountersOK, StoreAssumption
<1>4. ProcessesOK'
  BY <1>1, OutdatedOK DEF ProcessesOK
<1> QED BY <1>2, <1>3, <1>4

LEMMA TickStep == ASSUME IInv, Tick PROVE IInv'
<1> USE DEF IInv
<1>1. FilesOK' /\ ProcessesOK'
  BY DEF Tick, FilesOK, ProcessesOK
<1>2. CountersOK'
  BY StoreAssumption DEF Tick, CountersOK, counters, StoreAssumption
<1> QED BY <1>1, <1>2

LEMMA StepIInv == IInv /\ [Next]_vars => IInv'
<1> SUFFICES ASSUME IInv, [Next]_vars PROVE IInv'
  OBVIOUS
<1>1. ASSUME NEW p \in Processes,
             \/ Load(p) \/ BeginSave(p) \/ Read(p) \/ Confirm(p)
             \/ \E yes, force \in BOOLEAN : Examine(p, yes, force)
             \/ RestoreStat(p)
             \/ \E b \in backups : Restore(p, b)
      PROVE  IInv'
  BY <1>1, LoadStep, BeginSaveStep, ReadStep, ConfirmStep, ExamineStep, RestoreStep,
     RestoreStatStep
<1>2. ASSUME NEW p \in Processes,
             \/ BackupRead(p) \/ BackupName(p) \/ Prune(p)
             \/ Create(p) \/ Fill(p) \/ RenameBackup(p) \/ RenameConfig(p)
      PROVE  IInv'
  BY <1>2, BackupReadStep, BackupNameStep, PruneStep, CreateStep, FillStep,
     RenameBackupStep, RenameConfigStep
<1>3. CASE UNCHANGED vars
  <2>1. FilesOK'
    BY <1>3 DEF IInv, FilesOK, vars
  <2>2. CountersOK'
    BY <1>3 DEF IInv, CountersOK, vars, counters
  <2>3. ProcessesOK'
    BY <1>3 DEF IInv, ProcessesOK, vars
  <2> QED BY <2>1, <2>2, <2>3 DEF IInv
<1> QED BY <1>1, <1>2, <1>3, CrashStep, EditByHandStep, TickStep DEF Next

LEMMA IInvAlways == Spec => []IInv
BY InitIInv, StepIInv, PTL DEF Spec

(* The state of the store keeps its type: the file, the backups and every  *)
(* process, for any number of processes and any bounds.                    *)
THEOREM TypeCorrect == Spec => []TypeOK
<1>1. IInv => TypeOK
  BY Files DEF IInv, FilesOK, CountersOK, ProcessesOK, TypeOK
<1> QED BY <1>1, IInvAlways, PTL

(* writeAtomic: whoever is killed and whenever, config.yaml and the backups*)
(* are whole.                                                              *)
THEOREM NeverTornAlways == Spec => []NeverTorn
<1>1. IInv => NeverTorn
  BY Files DEF IInv, FilesOK, NeverTorn, Torn, Missing
<1> QED BY <1>1, IInvAlways, PTL

-----------------------------------------------------------------------------
(***************************************************************************)
(* Names.  A backup is known by its second and number; a process holds a   *)
(* name from the moment it finds it free.                                  *)
(***************************************************************************)
Name(x) == [sec |-> x.sec, n |-> x.n, born |-> x.born]

Names ==
  {Name(b) : b \in backups} \cup {Name(process[p]) : p \in {q \in Processes : process[q].born # 0}}

(* The text of the names of one second agrees with the order in which they *)
(* were found, and so does that of two seconds.                            *)
Earlier(x, y) == x.sec < y.sec \/ (x.sec = y.sec /\ x.n < y.n)

NamesInOrder ==
  \A x, y \in Names : Earlier(x, y) => x.born < y.born

NamesBounded ==
  \A x \in Names :
    /\ x.sec \in 1..now /\ x.born \in 1..made /\ x.n \in 0..(MaxPerSecond - 1)
    /\ x.sec = now => x.n < thisSecond

(* While there are names to be had in this second, those below one that    *)
(* was found are in use.                                                   *)
NamesDense ==
  thisSecond < MaxPerSecond =>
    \A x \in Names : x.sec = now =>
      \A i \in 0..(x.n - 1) : \E b \in backups : b.sec = now /\ b.n = i

BackupsDistinct ==
  /\ IsFiniteSet(backups)
  /\ \A b, c \in backups : b.sec = c.sec /\ b.n = c.n => b = c

FindersDistinct ==
  \A p, q \in Processes : process[p].born = process[q].born /\ process[p].born # 0 => p = q

NamesOK == NamesInOrder /\ NamesBounded /\ NamesDense /\ BackupsDistinct /\ FindersDistinct

(* What a process found in the file and has not backed up, or has read to  *)
(* back it up, is still there unless the process is out of date.           *)
Writing(m) == m.pc \in {"create", "fill", "rename"}

Looked(m) ==
  /\ m.pc \in {"out", "loaded", "read", "examine", "confirm", "stat", "backup", "name"} =>
       m.born = 0 /\ m.dest = "config"
  /\ m.pc = "stat" => m.current = Missing
  /\ m.pc = "prune" => m.dest = "backup"
  /\ m.pc \in {"examine", "confirm"} /\ ~m.stale => disk = m.current
  /\ m.pc = "name" \/ m.born # 0 => m.stale \/ disk = m.raw
  /\ Writing(m) /\ m.born = 0 =>
       /\ m.dest = "config"
       /\ m.current \in {Missing, m.target}
       /\ m.stale \/ disk = m.current

(* Once a backup has been written it is there, or another has its name, or *)
(* MaxBackups more have been started.                                      *)
Kept(m) ==
  \/ made - m.born >= MaxBackups
  \/ \E b \in backups : b.sec = m.sec /\ b.n = m.n /\ (b.born = m.born => b.content = m.raw)

BackedUp(m) == m.pc = "prune" \/ (Writing(m) /\ m.dest = "config" /\ m.born # 0) => Kept(m)

RestorePoints == NamesOK /\ \A p \in Processes : Looked(process[p]) /\ BackedUp(process[p])

(* There are names for no more backups in a second than are kept, and one. *)
Few == MaxPerSecond <= 10 /\ MaxPerSecond <= MaxBackups + 1

-----------------------------------------------------------------------------
(* The text of single digits is in the order of the numbers.               *)

LEMMA NewerIsLater ==
  ASSUME NEW x, NEW y, x.sec \in Int, y.sec \in Int, x.n \in 0..9, y.n \in 0..9
  PROVE  Newer(x, y) <=> Earlier(y, x)
<1>1. TextOrder(x.n) = 11 * x.n /\ TextOrder(y.n) = 11 * y.n
  BY DEF TextOrder
<1>2. TextOrder(x.n) > TextOrder(y.n) <=> y.n < x.n
  BY <1>1
<1>3. x.sec > y.sec <=> y.sec < x.sec
  OBVIOUS
<1> QED BY <1>2, <1>3 DEF Newer, Earlier

LEMMA StoreConstants ==
  /\ MaxBackups \in Nat \ {0} /\ MaxSeconds \in Nat \ {0} /\ MaxPerSecond \in Nat
BY StoreAssumption DEF StoreAssumption

(* What is known of the name of a backup, and of a process that holds one. *)
LEMMA BackupNames ==
  ASSUME IInv, NamesOK, Few, NEW b \in backups
  PROVE  /\ Name(b) \in Names
         /\ b.sec \in 1..now /\ b.born \in 1..made /\ b.n \in 0..9 /\ b.n < MaxPerSecond
         /\ b.sec = now => b.n < thisSecond
<1>1. Name(b) \in Names /\ Name(b).sec = b.sec /\ Name(b).n = b.n /\ Name(b).born = b.born
  BY DEF Names, Name
<1>2. /\ b.sec \in 1..now /\ b.born \in 1..made /\ b.n \in 0..(MaxPerSecond - 1)
      /\ b.sec = now => b.n < thisSecond
  BY <1>1 DEF NamesOK, NamesBounded
<1> QED BY <1>1, <1>2, StoreConstants DEF Few

LEMMA HeldNames ==
  ASSUME IInv, NamesOK, Few, NEW p \in Processes, process[p].born # 0
  PROVE  /\ Name(process[p]) \in Names
         /\ process[p].sec \in 1..now /\ process[p].born \in 1..made
         /\ process[p].n \in 0..9 /\ process[p].n < MaxPerSecond
         /\ process[p].sec = now => process[p].n < thisSecond
<1> DEFINE m == process[p]
<1>1. Name(m) \in Names /\ Name(m).sec = m.sec /\ Name(m).n = m.n /\ Name(m).born = m.born
  BY DEF Names, Name
<1>2. /\ m.sec \in 1..now /\ m.born \in 1..made /\ m.n \in 0..(MaxPerSecond - 1)
      /\ m.sec = now => m.n < thisSecond
  BY <1>1 DEF NamesOK, NamesBounded
<1> QED BY <1>1, <1>2, StoreConstants DEF Few

(* One of two backups has the earlier name, and was started earlier.       *)
LEMMA BackupsInOrder ==
  ASSUME IInv, NamesOK, Few, NEW b \in backups, NEW c \in backups
  PROVE  /\ Earlier(b, c) => b.born < c.born
         /\ Newer(c, b) <=> Earlier(b, c)
         /\ b = c \/ Earlier(b, c) \/ Earlier(c, b)
<1>1. /\ Name(b) \in Names /\ b.sec \in 1..now /\ b.n \in 0..9
      /\ Name(c) \in Names /\ c.sec \in 1..now /\ c.n \in 0..9
  BY BackupNames
<1>2. Earlier(b, c) => b.born < c.born
  BY <1>1 DEF NamesOK, NamesInOrder, Name, Earlier
<1>3. b.sec \in Int /\ c.sec \in Int /\ b.n \in Int /\ c.n \in Int
  BY <1>1
<1>4. Newer(c, b) <=> Earlier(b, c)
  BY <1>1, <1>3, NewerIsLater
<1>5. b.sec = c.sec /\ b.n = c.n => b = c
  BY DEF NamesOK, BackupsDistinct
<1>6. b = c \/ Earlier(b, c) \/ Earlier(c, b)
  BY <1>3, <1>5 DEF Earlier
<1> QED BY <1>2, <1>4, <1>6

(* The backups with a later name than b.                                   *)
After(b) == {c \in backups : Newer(c, b)}

LEMMA AfterFinite ==
  ASSUME NamesOK, NEW b
  PROVE  IsFiniteSet(After(b)) /\ Cardinality(After(b)) \in Nat
<1>1. IsFiniteSet(backups) /\ After(b) \in SUBSET backups
  BY DEF NamesOK, BackupsDistinct, After
<1> QED BY <1>1, FS_Subset, FS_CardinalityType

(* What has MaxBackups later names was started MaxBackups ago.             *)
LEMMA PrunedIsOld ==
  ASSUME IInv, NamesOK, Few, NEW x \in Names, NEW b \in backups, b.sec = x.sec, b.n = x.n,
         ~(Cardinality(After(b)) < MaxBackups)
  PROVE  made - x.born >= MaxBackups
<1> DEFINE f == [c \in After(b) |-> c.born]
<1>1. x.born \in 1..made /\ made \in Nat
  BY DEF NamesOK, NamesBounded, IInv, CountersOK
<1>2. ASSUME NEW c \in After(b) PROVE c.born \in (x.born + 1)..made
  <2>1. c \in backups /\ Newer(c, b)
    BY DEF After
  <2>2. Earlier(b, c) /\ Name(c) \in Names /\ c.born \in 1..made
    BY <2>1, BackupsInOrder, BackupNames
  <2>3. Earlier(x, Name(c)) /\ Name(c).born = c.born
    BY <2>2 DEF Earlier, Name
  <2>4. x.born < c.born
    BY <2>2, <2>3 DEF NamesOK, NamesInOrder
  <2> QED BY <1>1, <2>2, <2>4
<1>3. ASSUME NEW c \in After(b), NEW d \in After(b), c.born = d.born PROVE c = d
  <2>1. c \in backups /\ d \in backups /\ c.born \in Int /\ d.born \in Int
    BY <1>1, <1>2 DEF After
  <2> QED BY <1>3, <2>1, BackupsInOrder
<1>4. f \in Injection(After(b), (x.born + 1)..made)
  <2>1. f \in [After(b) -> (x.born + 1)..made] /\ IsInjective(f)
    BY <1>2, <1>3 DEF IsInjective
  <2> QED BY <2>1 DEF Injection
<1>5. /\ IsFiniteSet((x.born + 1)..made)
      /\ Cardinality((x.born + 1)..made) =
           IF x.born + 1 > made THEN 0 ELSE made - (x.born + 1) + 1
  <2>1. x.born + 1 \in Int /\ made \in Int
    BY <1>1
  <2> QED BY <2>1, FS_Interval
<1> HIDE DEF f
<1>6. Cardinality(After(b)) <= Cardinality((x.born + 1)..made)
  BY <1>4, <1>5, FS_Injection
<1>7. Cardinality(After(b)) \in Nat
  BY AfterFinite
<1> QED BY <1>1, <1>5, <1>6, <1>7, StoreConstants

(* While there are names to be had in this second, none of its backups is  *)
(* pruned.                                                                 *)
LEMMA ThisSecondStays ==
  ASSUME IInv, NamesOK, Few, thisSecond < MaxPerSecond, NEW b \in backups, b.sec = now
  PROVE  Cardinality(After(b)) < MaxBackups
<1> DEFINE f == [c \in After(b) |-> c.n]
           lo == b.n + 1
           hi == thisSecond - 1
<1>1. b.n \in 0..9 /\ b.n < thisSecond /\ thisSecond \in Nat /\ now \in Nat
  BY BackupNames, StoreConstants DEF IInv, CountersOK
<1>2. ASSUME NEW c \in After(b) PROVE c.sec = now /\ c.n \in lo..hi
  <2>1. c \in backups /\ Newer(c, b)
    BY DEF After
  <2>2. Earlier(b, c) /\ c.sec \in 1..now /\ c.n \in 0..9 /\ (c.sec = now => c.n < thisSecond)
    BY <2>1, BackupsInOrder, BackupNames
  <2>3. c.sec = now
    BY <1>1, <2>2 DEF Earlier
  <2>4. b.n < c.n
    BY <1>1, <2>2, <2>3 DEF Earlier
  <2> QED BY <1>1, <2>2, <2>3, <2>4
<1>3. ASSUME NEW c \in After(b), NEW d \in After(b), c.n = d.n PROVE c = d
  <2>1. c \in backups /\ d \in backups /\ c.sec = d.sec
    BY <1>2 DEF After
  <2> QED BY <1>3, <2>1 DEF NamesOK, BackupsDistinct
<1>4. f \in Injection(After(b), lo..hi)
  <2>1. f \in [After(b) -> lo..hi] /\ IsInjective(f)
    BY <1>2, <1>3 DEF IsInjective
  <2> QED BY <2>1 DEF Injection
<1>5. /\ IsFiniteSet(lo..hi)
      /\ Cardinality(lo..hi) = IF lo > hi THEN 0 ELSE hi - lo + 1
  <2>1. lo \in Int /\ hi \in Int
    BY <1>1
  <2> HIDE DEF lo, hi
  <2> QED BY <2>1, FS_Interval
<1>6. Cardinality(After(b)) <= Cardinality(lo..hi)
  <2> HIDE DEF f, lo, hi
  <2> QED BY <1>4, <1>5, FS_Injection
<1>7. Cardinality(After(b)) \in Nat
  BY AfterFinite
<1> QED BY <1>1, <1>5, <1>6, <1>7, StoreConstants DEF Few

(* A backup that goes was started before MaxBackups that are there.        *)
LEMMA OlderGoes ==
  ASSUME IInv, NamesOK, Few, NEW b \in backups, Cardinality(After(b)) >= MaxBackups
  PROVE  Cardinality(Later(b)) >= MaxBackups
<1>1. \A c \in After(b) : c \in backups /\ Newer(c, b)
  BY DEF After
<1>2. ASSUME NEW c \in After(b) PROVE c \in Later(b)
  <2>1. c \in backups /\ b.born < c.born
    BY <1>1, BackupsInOrder
  <2>2. b.born \in 1..made /\ c.born \in 1..made /\ made \in Nat
    BY <2>1, BackupNames DEF IInv, CountersOK
  <2> QED BY <2>1, <2>2 DEF Later
<1>3. IsFiniteSet(Later(b))
  BY FS_Subset DEF NamesOK, BackupsDistinct, Later
<1>4. After(b) \subseteq Later(b)
  BY <1>2
<1>5. Cardinality(After(b)) <= Cardinality(Later(b)) /\ Cardinality(Later(b)) \in Nat
  BY <1>3, <1>4, FS_Subset, FS_CardinalityType
<1>6. Cardinality(After(b)) \in Nat
  BY AfterFinite
<1> QED BY <1>5, <1>6, StoreConstants

-----------------------------------------------------------------------------
(* The steps of a process that leave the files and the counters alone.     *)

LEMMA IdleLooked == Looked(Idle) /\ BackedUp(Idle) /\ Idle.born = 0
BY DEF Idle, Looked, BackedUp, Writing

LEMMA SameFiles ==
  ASSUME RestorePoints, NEW p \in Processes, NEW m, process' = [process EXCEPT ![p] = m],
         process \in [Processes -> Process],
         UNCHANGED <<disk, backups, made>>, Looked(m), BackedUp(m)
  PROVE  \A q \in Processes : Looked(process[q])' /\ BackedUp(process[q])'
<1> SUFFICES ASSUME NEW q \in Processes PROVE Looked(process[q])' /\ BackedUp(process[q])'
  OBVIOUS
<1>1. process'[q] = m \/ process'[q] = process[q]
  OBVIOUS
<1>2. Looked(process[q]) /\ BackedUp(process[q])
  BY DEF RestorePoints
<1>3. ASSUME NEW x, x = process'[q], Looked(x), BackedUp(x)
      PROVE  Looked(process[q])' /\ BackedUp(process[q])'
  BY <1>3 DEF Looked, BackedUp, Kept, Writing
<1> QED BY <1>1, <1>2, <1>3

(* Processes that keep the names they have, or give them up. *)
LEMMA NamesStay ==
  ASSUME NamesOK, UNCHANGED <<backups, now, made, thisSecond>>,
         \A q \in Processes :
           process'[q].born # 0 => process[q].born # 0 /\ Name(process'[q]) = Name(process[q])
  PROVE  NamesOK'
<1>1. Names' \subseteq Names
  BY DEF Names
<1>2. NamesInOrder'
  BY <1>1 DEF NamesOK, NamesInOrder
<1>3. NamesBounded'
  BY <1>1 DEF NamesOK, NamesBounded
<1>4. NamesDense'
  BY <1>1 DEF NamesOK, NamesDense
<1>5. BackupsDistinct'
  BY DEF NamesOK, BackupsDistinct
<1>6. FindersDistinct'
  <2>1. \A q \in Processes :
          process'[q].born # 0 => process[q].born # 0 /\ process'[q].born = process[q].born
    BY DEF Name
  <2> QED BY <2>1 DEF NamesOK, FindersDistinct
<1> QED BY <1>2, <1>3, <1>4, <1>5, <1>6 DEF NamesOK

LEMMA SameNames ==
  ASSUME NamesOK, NEW p \in Processes, NEW m, process' = [process EXCEPT ![p] = m],
         process \in [Processes -> Process], UNCHANGED <<backups, now, made, thisSecond>>,
         m.born = 0 \/ Name(m) = Name(process[p])
  PROVE  NamesOK'
<1>1. Name(m) = Name(process[p]) => m.born = process[p].born
  BY DEF Name
<1>2. \A q \in Processes :
        process'[q].born # 0 => process[q].born # 0 /\ Name(process'[q]) = Name(process[q])
  BY <1>1
<1> QED BY <1>2, NamesStay

LEMMA OneGoesOn ==
  ASSUME IInv, RestorePoints, NEW p \in Processes, NEW m, process' = [process EXCEPT ![p] = m],
         UNCHANGED <<disk, backups, now, made, thisSecond>>,
         m.born = 0 \/ Name(m) = Name(process[p]), Looked(m), BackedUp(m)
  PROVE  RestorePoints'
<1>1. process \in [Processes -> Process] /\ NamesOK
  BY DEF IInv, ProcessesOK, RestorePoints
<1>2. NamesOK'
  BY <1>1, SameNames
<1>3. \A q \in Processes : Looked(process[q])' /\ BackedUp(process[q])'
  BY <1>1, SameFiles
<1> QED BY <1>2, <1>3 DEF RestorePoints

LEMMA LeaveKeeps ==
  ASSUME IInv, RestorePoints, NEW p \in Processes, Leave(p),
         UNCHANGED <<disk, backups, now, made, thisSecond>>
  PROVE  RestorePoints'
BY IdleLooked, OneGoesOn DEF Leave

(* The locals of a process at work. *)
LEMMA ProcessFacts ==
  ASSUME IInv, RestorePoints, NEW p \in Processes
  PROVE  process[p] \in Process /\ Looked(process[p]) /\ BackedUp(process[p]) /\ Prepared(process[p])
BY DEF IInv, ProcessesOK, RestorePoints

LEMMA LoadKeeps == ASSUME IInv, RestorePoints, NEW p \in Processes, Load(p) PROVE RestorePoints'
<1>1. UNCHANGED <<disk, backups, now, made, thisSecond>>
  BY DEF Load
<1>2. CASE disk = Missing
  <2> DEFINE m == [Idle EXCEPT !.pc = "create", !.job = "seed",
                               !.cfg = Defaults, !.target = Whole(Defaults)]
  <2>1. process' = [process EXCEPT ![p] = m]
    BY <1>2 DEF Load
  <2>2. /\ m.pc = "create" /\ m.born = 0 /\ m.dest = "config" /\ m.current = Missing
    BY DEF Idle
  <2> HIDE DEF m
  <2>3. Looked(m) /\ BackedUp(m)
    BY <1>2, <2>2 DEF Looked, BackedUp, Writing
  <2> QED BY <1>1, <2>1, <2>2, <2>3, OneGoesOn
<1>3. CASE disk # Missing
  <2> DEFINE m == [Idle EXCEPT !.pc = "loaded",
                               !.cfg = IF disk = Broken THEN Defaults ELSE disk.items]
  <2>1. process' = [process EXCEPT ![p] = m]
    BY <1>3 DEF Load
  <2>2. m.pc = "loaded" /\ m.born = 0 /\ m.dest = "config"
    BY DEF Idle
  <2> HIDE DEF m
  <2>3. Looked(m) /\ BackedUp(m)
    BY <2>2 DEF Looked, BackedUp, Writing
  <2> QED BY <1>1, <2>1, <2>2, <2>3, OneGoesOn
<1> QED BY <1>2, <1>3

LEMMA BeginSaveKeeps ==
  ASSUME IInv, RestorePoints, NEW p \in Processes, BeginSave(p) PROVE RestorePoints'
<1>1. UNCHANGED <<disk, backups, now, made, thisSecond>>
  BY DEF BeginSave
<1>2. PICK cfg :
        process' = [process EXCEPT ![p] =
          [@ EXCEPT !.pc = "read", !.job = "save", !.cfg = cfg, !.target = Whole(cfg)]]
  BY DEF BeginSave
<1> DEFINE m == [process[p] EXCEPT !.pc = "read", !.job = "save",
                                   !.cfg = cfg, !.target = Whole(cfg)]
<1>3. process[p] \in Process /\ Looked(process[p]) /\ process[p].pc = "loaded"
  BY ProcessFacts DEF BeginSave, At
<1>4. process[p].born = 0 /\ process[p].dest = "config"
  BY <1>3 DEF Looked
<1>5. m.pc = "read" /\ m.born = 0 /\ m.dest = "config"
  BY <1>3, <1>4 DEF Process
<1>6. process' = [process EXCEPT ![p] = m]
  BY <1>2
<1> HIDE DEF m
<1>7. Looked(m) /\ BackedUp(m)
  BY <1>5 DEF Looked, BackedUp, Writing
<1> QED BY <1>1, <1>5, <1>6, <1>7, OneGoesOn

LEMMA ReadKeeps == ASSUME IInv, RestorePoints, NEW p \in Processes, Read(p) PROVE RestorePoints'
<1> DEFINE m == [process[p] EXCEPT !.pc = "examine", !.current = disk, !.stale = FALSE]
<1>1. process' = [process EXCEPT ![p] = m] /\ UNCHANGED <<disk, backups, now, made, thisSecond>>
  BY DEF Read
<1>2. process[p] \in Process /\ Looked(process[p]) /\ process[p].pc = "read"
  BY ProcessFacts DEF Read, At
<1>3. process[p].born = 0 /\ process[p].dest = "config"
  BY <1>2 DEF Looked
<1>4. m.pc = "examine" /\ m.born = 0 /\ m.dest = "config" /\ m.current = disk
  BY <1>2, <1>3 DEF Process
<1> HIDE DEF m
<1>5. Looked(m) /\ BackedUp(m)
  BY <1>4 DEF Looked, BackedUp, Writing
<1> QED BY <1>1, <1>4, <1>5, OneGoesOn

(* Going on to ask, to back up or to write. *)
LEMMA GoesOn ==
  ASSUME IInv, RestorePoints, NEW p \in Processes, process[p].pc \in {"examine", "confirm"},
         NEW pc, pc = "confirm" \/ pc = Proceed(process[p]), Goto(p, pc),
         UNCHANGED <<disk, backups, now, made, thisSecond>>
  PROVE  RestorePoints'
<1> DEFINE o == process[p]
           m == [process[p] EXCEPT !.pc = pc]
<1>1. o \in Process /\ Looked(o)
  BY ProcessFacts
<1>2. o.born = 0 /\ o.dest = "config" /\ (o.stale \/ disk = o.current)
  BY <1>1 DEF Looked
<1>3. /\ pc \in {"confirm", "backup", "create"}
      /\ pc = "create" => o.current \in {Missing, o.target}
  BY DEF Proceed, Differs
<1>4. /\ m.pc = pc /\ m.born = 0 /\ m.dest = "config" /\ m.current = o.current
      /\ m.target = o.target /\ m.stale = o.stale
  BY <1>1, <1>2 DEF Process
<1>5. process' = [process EXCEPT ![p] = m]
  BY DEF Goto
<1> HIDE DEF m, o
<1>6. Looked(m) /\ BackedUp(m)
  BY <1>2, <1>3, <1>4 DEF Looked, BackedUp, Writing
<1> QED BY <1>4, <1>5, <1>6, OneGoesOn

LEMMA ExamineKeeps ==
  ASSUME IInv, RestorePoints, NEW p \in Processes, NEW yes \in BOOLEAN, NEW force \in BOOLEAN,
         Examine(p, yes, force)
  PROVE  RestorePoints'
<1>1. UNCHANGED <<disk, backups, now, made, thisSecond>> /\ process[p].pc \in {"examine", "confirm"}
  BY DEF Examine, At
<1>2. Leave(p) \/ \E pc : (pc = "confirm" \/ pc = Proceed(process[p])) /\ Goto(p, pc)
  BY DEF Examine
<1> QED BY <1>1, <1>2, LeaveKeeps, GoesOn

LEMMA ConfirmKeeps ==
  ASSUME IInv, RestorePoints, NEW p \in Processes, Confirm(p) PROVE RestorePoints'
<1>1. UNCHANGED <<disk, backups, now, made, thisSecond>> /\ process[p].pc \in {"examine", "confirm"}
  BY DEF Confirm, At
<1>2. Leave(p) \/ Goto(p, Proceed(process[p]))
  BY DEF Confirm
<1> QED BY <1>1, <1>2, LeaveKeeps, GoesOn

LEMMA RestoreKeeps ==
  ASSUME IInv, RestorePoints, NEW p \in Processes, NEW b \in backups, Restore(p, b)
  PROVE  RestorePoints'
<1> DEFINE m == [Idle EXCEPT !.pc = "stat", !.job = "restore", !.target = b.content]
<1>1. process' = [process EXCEPT ![p] = m] /\ UNCHANGED <<disk, backups, now, made, thisSecond>>
  BY DEF Restore
<1>2. m.pc = "stat" /\ m.born = 0 /\ m.dest = "config" /\ m.current = Missing
  BY DEF Idle
<1> HIDE DEF m
<1>3. Looked(m) /\ BackedUp(m)
  BY <1>2 DEF Looked, BackedUp, Writing
<1> QED BY <1>1, <1>2, <1>3, OneGoesOn

LEMMA RestoreStatKeeps ==
  ASSUME IInv, RestorePoints, NEW p \in Processes, RestoreStat(p) PROVE RestorePoints'
<1> DEFINE m == [process[p] EXCEPT !.pc = IF disk = Missing THEN "create" ELSE "backup",
                                   !.stale = FALSE]
<1>1. process' = [process EXCEPT ![p] = m] /\ UNCHANGED <<disk, backups, now, made, thisSecond>>
  BY DEF RestoreStat
<1>2. process[p] \in Process /\ Looked(process[p]) /\ process[p].pc = "stat"
  BY ProcessFacts DEF RestoreStat, At
<1>3. process[p].born = 0 /\ process[p].dest = "config" /\ process[p].current = Missing
  BY <1>2 DEF Looked
<1>4. /\ m.pc = IF disk = Missing THEN "create" ELSE "backup"
      /\ m.born = 0 /\ m.dest = "config" /\ m.current = Missing
  BY <1>2, <1>3 DEF Process
<1> HIDE DEF m
<1>5. Looked(m) /\ BackedUp(m)
  BY <1>4 DEF Looked, BackedUp, Writing
<1> QED BY <1>1, <1>4, <1>5, OneGoesOn

LEMMA BackupReadKeeps ==
  ASSUME IInv, RestorePoints, NEW p \in Processes, BackupRead(p) PROVE RestorePoints'
<1>1. UNCHANGED <<disk, backups, now, made, thisSecond>>
  BY DEF BackupRead
<1>2. CASE disk = Missing
  BY <1>1, <1>2, LeaveKeeps DEF BackupRead
<1>3. CASE disk # Missing
  <2> DEFINE m == [process[p] EXCEPT !.pc = "name", !.raw = disk, !.stale = FALSE]
  <2>1. process' = [process EXCEPT ![p] = m]
    BY <1>3 DEF BackupRead
  <2>2. process[p] \in Process /\ Looked(process[p]) /\ process[p].pc = "backup"
    BY ProcessFacts DEF BackupRead, At
  <2>3. process[p].born = 0 /\ process[p].dest = "config"
    BY <2>2 DEF Looked
  <2>4. m.pc = "name" /\ m.born = 0 /\ m.dest = "config" /\ m.raw = disk
    BY <2>2, <2>3 DEF Process
  <2> HIDE DEF m
  <2>5. Looked(m) /\ BackedUp(m)
    BY <2>4 DEF Looked, BackedUp, Writing
  <2> QED BY <1>1, <2>1, <2>4, <2>5, OneGoesOn
<1> QED BY <1>2, <1>3

(* The two steps of writeAtomic before the rename. *)
LEMMA WritesOn ==
  ASSUME IInv, RestorePoints, NEW p \in Processes, Create(p) \/ Fill(p) PROVE RestorePoints'
<1> DEFINE o == process[p]
<1>1. UNCHANGED <<disk, backups, now, made, thisSecond>> /\ Writing(o)
  BY DEF Create, Fill, At, Writing
<1>2. o \in Process /\ Looked(o) /\ BackedUp(o)
  BY ProcessFacts
<1>3. PICK pc \in {"fill", "rename"}, tmp \in File :
        process' = [process EXCEPT ![p] = [@ EXCEPT !.pc = pc, !.tmp = tmp]]
  <2>1. CASE Create(p)
    BY <2>1, Files DEF Create
  <2>2. CASE Fill(p)
    <3>1. o.raw \in File /\ o.target \in File
      BY <1>2 DEF Process
    <3> QED BY <2>2, <3>1 DEF Fill
  <2> QED BY <2>1, <2>2
<1> DEFINE m == [process[p] EXCEPT !.pc = pc, !.tmp = tmp]
<1>4. /\ m.pc = pc /\ m.born = o.born /\ m.dest = o.dest /\ m.current = o.current
      /\ m.target = o.target /\ m.raw = o.raw /\ m.stale = o.stale
      /\ m.sec = o.sec /\ m.n = o.n
  BY <1>2 DEF Process
<1>5. process' = [process EXCEPT ![p] = m]
  BY <1>3
<1> HIDE DEF m, o
<1>6. Looked(m)
  BY <1>1, <1>2, <1>4 DEF Looked, Writing
<1>7. BackedUp(m)
  BY <1>1, <1>2, <1>4 DEF BackedUp, Writing, Kept
<1>8. Name(m) = Name(o)
  BY <1>4 DEF Name
<1> QED BY <1>1, <1>5, <1>6, <1>7, <1>8, OneGoesOn DEF o

LEMMA CrashKeeps == ASSUME IInv, RestorePoints, NEW p \in Processes, Crash(p) PROVE RestorePoints'
<1> DEFINE m == [Idle EXCEPT !.pc = "loaded", !.cfg = Defaults]
<1>1. UNCHANGED <<disk, backups, now, made, thisSecond>>
  BY DEF Crash
<1>2. Leave(p) \/ process' = [process EXCEPT ![p] = m]
  BY DEF Crash
<1>3. m.pc = "loaded" /\ m.born = 0 /\ m.dest = "config"
  BY DEF Idle
<1> HIDE DEF m
<1>4. Looked(m) /\ BackedUp(m)
  BY <1>3 DEF Looked, BackedUp, Writing
<1> QED BY <1>1, <1>2, <1>3, <1>4, LeaveKeeps, OneGoesOn

-----------------------------------------------------------------------------
(* A name is found.                                                        *)

LEMMA BackupNameKeeps ==
  ASSUME IInv, RestorePoints, Few, NEW p \in Processes, BackupName(p) PROVE RestorePoints'
<1> DEFINE o == process[p]
           taken == {b.n : b \in {c \in backups : c.sec = now}}
<1>0. UNCHANGED <<disk, backups, now>>
  BY DEF BackupName
<1>1. CASE Leave(p) /\ UNCHANGED <<made, thisSecond>>
  BY <1>0, <1>1, LeaveKeeps
<1>2. ASSUME thisSecond < MaxPerSecond, NEW n \in 0..99, n \notin taken, 0..(n - 1) \subseteq taken,
             process' = [process EXCEPT ![p] =
               [@ EXCEPT !.pc = "create", !.dest = "backup", !.sec = now, !.n = n,
                         !.born = made + 1]],
             made' = made + 1, thisSecond' = thisSecond + 1
      PROVE  RestorePoints'
  <2> DEFINE m == [process[p] EXCEPT !.pc = "create", !.dest = "backup", !.sec = now,
                                     !.n = n, !.born = made + 1]
             x0 == [sec |-> now, n |-> n, born |-> made + 1]
  <2>1. o \in Process /\ Looked(o) /\ o.pc = "name" /\ process \in [Processes -> Process]
    BY ProcessFacts DEF BackupName, At, IInv, ProcessesOK
  <2>2. NamesOK /\ made \in Nat /\ now \in Nat \ {0} /\ thisSecond \in Nat
    BY StoreConstants DEF RestorePoints, IInv, CountersOK
  <2>3. /\ m.pc = "create" /\ m.dest = "backup" /\ m.sec = now /\ m.n = n /\ m.born = made + 1
        /\ m.raw = o.raw /\ m.stale = o.stale /\ m.born # 0
    BY <2>1, <2>2 DEF Process
  <2>4. process' = [process EXCEPT ![p] = m]
    BY <1>2
  <2>5. /\ Name(m) = x0 /\ x0.sec = now /\ x0.n = n /\ x0.born = made + 1
    BY <2>3 DEF Name
  <2>6. n <= thisSecond
    <3>1. CASE n = 0
      BY <2>2, <3>1
    <3>2. CASE n # 0
      <4>0. n - 1 \in 0..(n - 1)
        BY <3>2
      <4>1. n - 1 \in taken
        <5> HIDE DEF taken
        <5> QED BY <1>2, <4>0
      <4>2. PICK b \in backups : b.sec = now /\ b.n = n - 1
        BY <4>1
      <4>3. b.n < thisSecond
        BY <2>2, <4>2, BackupNames
      <4> QED BY <2>2, <4>2, <4>3
    <3> QED BY <3>1, <3>2
  <2> HIDE DEF m, o, x0
  <2>7. \A x \in Names' : x \in Names \/ x = x0
    <3>1. \A q \in Processes : process'[q] = m \/ process'[q] = process[q]
      BY <2>1, <2>4
    <3> QED BY <1>0, <2>5, <3>1 DEF Names
  <2>8. \A x \in Names : x.sec \in 1..now /\ x.born \in 1..made /\ x.n \in 0..(MaxPerSecond - 1)
                         /\ (x.sec = now => x.n < thisSecond)
    BY <2>2 DEF NamesOK, NamesBounded
  <2>9. NamesInOrder'
    <3> SUFFICES ASSUME NEW x \in Names', NEW y \in Names', Earlier(x, y)
                 PROVE  x.born < y.born
      BY DEF NamesInOrder
    <3>1. CASE x \in Names /\ y \in Names
      BY <2>2, <3>1 DEF NamesOK, NamesInOrder
    <3>2. CASE x \in Names /\ y = x0
      BY <2>2, <2>5, <2>8, <3>2
    <3>3. CASE x = x0 /\ y \in Names
      <4>1. y.sec = now /\ n < y.n
        BY <2>2, <2>5, <2>8, <3>3 DEF Earlier
      <4>2. n \in 0..(y.n - 1)
        BY <2>8, <3>3, <4>1
      <4>3. \E b \in backups : b.sec = now /\ b.n = n
        BY <1>2, <2>2, <3>3, <4>1, <4>2 DEF NamesOK, NamesDense
      <4> QED BY <1>2, <4>3
    <3>4. CASE x = x0 /\ y = x0
      BY <2>2, <2>5, <3>4 DEF Earlier
    <3> QED BY <2>7, <3>1, <3>2, <3>3, <3>4
  <2>10. NamesBounded'
    <3>1. x0.sec \in 1..now /\ x0.born \in 1..(made + 1) /\ x0.n \in 0..(MaxPerSecond - 1)
          /\ x0.n < thisSecond + 1
      BY <1>2, <2>2, <2>5, <2>6, StoreConstants
    <3>2. \A x \in Names : x.born \in 1..(made + 1) /\ (x.sec = now => x.n < thisSecond + 1)
      BY <2>2, <2>8
    <3> QED BY <1>0, <1>2, <2>7, <2>8, <3>1, <3>2 DEF NamesBounded
  <2>11. NamesDense'
    <3>1. \A i \in 0..(n - 1) : \E b \in backups : b.sec = now /\ b.n = i
      BY <1>2
    <3>2. \A x \in Names : x.sec = now =>
            \A i \in 0..(x.n - 1) : \E b \in backups : b.sec = now /\ b.n = i
      BY <1>2, <2>2 DEF NamesOK, NamesDense
    <3> QED BY <1>0, <2>5, <2>7, <3>1, <3>2 DEF NamesDense
  <2>12. BackupsDistinct'
    BY <1>0, <2>2 DEF NamesOK, BackupsDistinct
  <2>13. FindersDistinct'
    <3>1. ASSUME NEW q \in Processes, process[q].born # 0 PROVE process[q].born # made + 1
      BY <2>2, <3>1, HeldNames
    <3>2. process'[p].born = made + 1 /\ \A q \in Processes : q # p => process'[q] = process[q]
      BY <2>1, <2>3, <2>4
    <3> QED BY <2>2, <3>1, <3>2 DEF NamesOK, FindersDistinct
  <2>14. ASSUME NEW q \in Processes PROVE Looked(process[q])' /\ BackedUp(process[q])'
    <3>1. CASE q = p
      <4>1. process'[q] = m
        BY <2>1, <2>4, <3>1
      <4>2. o.stale \/ disk = o.raw
        BY <2>1 DEF Looked
      <4>3. Looked(process[q])'
        BY <1>0, <2>3, <4>1, <4>2 DEF Looked, Writing
      <4>4. BackedUp(process[q])'
        BY <2>3, <4>1 DEF BackedUp, Writing
      <4> QED BY <4>3, <4>4
    <3>2. CASE q # p
      <4>1. process'[q] = process[q] /\ process[q].born \in Nat
        BY <2>1, <2>4, <3>2 DEF Process
      <4>2. Looked(process[q]) /\ BackedUp(process[q])
        BY ProcessFacts
      <4>3. Looked(process[q])'
        BY <1>0, <4>1, <4>2 DEF Looked, Writing
      <4>4. ASSUME Kept(process[q]) PROVE Kept(process[q])'
        <5>1. CASE made - process[q].born >= MaxBackups
          <6>1. made' = made + 1 /\ made \in Nat /\ process[q].born \in Nat
            BY <1>2, <2>2, <4>1
          <6>2. made + 1 - process[q].born >= MaxBackups
            BY <5>1, <6>1, StoreConstants
          <6> QED BY <4>1, <6>1, <6>2 DEF Kept
        <5>2. CASE \E b \in backups : /\ b.sec = process[q].sec /\ b.n = process[q].n
                                      /\ b.born = process[q].born => b.content = process[q].raw
          BY <1>0, <4>1, <5>2 DEF Kept
        <5> QED BY <4>4, <5>1, <5>2 DEF Kept
      <4>5. BackedUp(process[q])'
        BY <4>1, <4>2, <4>4 DEF BackedUp, Writing
      <4> QED BY <4>3, <4>5
    <3> QED BY <3>1, <3>2
  <2> QED BY <2>9, <2>10, <2>11, <2>12, <2>13, <2>14 DEF RestorePoints, NamesOK
<1> QED BY <1>1, <1>2 DEF BackupName

-----------------------------------------------------------------------------
(* The oldest backups go.                                                  *)

LEMMA KeptWhenPruned ==
  ASSUME IInv, RestorePoints, Few, NEW q \in Processes, process[q].born # 0, Kept(process[q])
  PROVE  \/ made - process[q].born >= MaxBackups
         \/ \E b \in backups :
              /\ Cardinality(After(b)) < MaxBackups
              /\ b.sec = process[q].sec /\ b.n = process[q].n
              /\ b.born = process[q].born => b.content = process[q].raw
<1> DEFINE x == Name(process[q])
<1>1. NamesOK /\ x \in Names /\ x.sec = process[q].sec /\ x.n = process[q].n
      /\ x.born = process[q].born
  BY DEF RestorePoints, Names, Name
<1> HIDE DEF x
<1>2. ASSUME NEW b \in backups, b.sec = process[q].sec, b.n = process[q].n,
             ~(Cardinality(After(b)) < MaxBackups)
      PROVE  made - process[q].born >= MaxBackups
  BY <1>1, <1>2, PrunedIsOld
<1> QED BY <1>2 DEF Kept

(* Whoever has a backup behind it has a name. *)
LEMMA BackedUpNames ==
  ASSUME IInv, RestorePoints, NEW q \in Processes, process[q].pc = "prune"
  PROVE  process[q].born # 0 /\ process[q].dest = "backup"
BY ProcessFacts DEF Looked, Prepared

LEMMA PruneKeeps ==
  ASSUME IInv, RestorePoints, Few, NEW p \in Processes, Prune(p) PROVE RestorePoints'
<1> DEFINE o == process[p]
           m == [process[p] EXCEPT !.pc = "create", !.dest = "config"]
<1>0. NamesOK
  BY DEF RestorePoints
<1>1. UNCHANGED <<disk, now, made, thisSecond>> /\ process' = [process EXCEPT ![p] = m]
  BY DEF Prune
<1>2. /\ backups' \subseteq backups
      /\ \A b \in backups : Cardinality(After(b)) < MaxBackups => b \in backups'
  <2>1. \A b \in Excess : Cardinality(After(b)) >= MaxBackups
    BY DEF Excess, After
  <2>2. \A b \in Excess : ~(Cardinality(After(b)) < MaxBackups)
    BY <2>1, <1>0, AfterFinite, StoreConstants
  <2> QED BY <2>2 DEF Prune
<1>3. process \in [Processes -> Process] /\ NamesOK
  BY DEF IInv, ProcessesOK, RestorePoints
<1>4. o \in Process /\ Looked(o) /\ BackedUp(o) /\ o.pc = "prune" /\ o.born # 0
  BY ProcessFacts, BackedUpNames DEF Prune, At
<1>5. /\ m.pc = "create" /\ m.dest = "config" /\ m.raw = o.raw /\ m.stale = o.stale
      /\ m.sec = o.sec /\ m.n = o.n /\ m.born = o.born
  BY <1>4 DEF Process
<1> HIDE DEF m
<1>6. \A q \in Processes : process'[q] = process[q] \/ (q = p /\ process'[q] = m)
  BY <1>1, <1>3
<1>7. \A q \in Processes : Name(process'[q]) = Name(process[q]) /\ process'[q].born = process[q].born
  BY <1>5, <1>6 DEF Name
<1>8. Names' \subseteq Names
  BY <1>2, <1>7 DEF Names
<1>9. NamesInOrder'
  BY <1>3, <1>8 DEF NamesOK, NamesInOrder
<1>10. NamesBounded'
  BY <1>1, <1>3, <1>8 DEF NamesOK, NamesBounded
<1>11. NamesDense'
  <2> SUFFICES ASSUME thisSecond < MaxPerSecond, NEW x \in Names, x.sec = now,
                      NEW i \in 0..(x.n - 1)
               PROVE  \E b \in backups' : b.sec = now /\ b.n = i
    BY <1>1, <1>8 DEF NamesDense
  <2>1. PICK b \in backups : b.sec = now /\ b.n = i
    BY <1>3 DEF NamesOK, NamesDense
  <2>2. Cardinality(After(b)) < MaxBackups
    BY <1>3, <2>1, ThisSecondStays
  <2> QED BY <1>2, <2>1, <2>2
<1>12. BackupsDistinct'
  <2>1. backups' \in SUBSET backups /\ IsFiniteSet(backups)
    BY <1>2, <1>3 DEF NamesOK, BackupsDistinct
  <2>2. IsFiniteSet(backups')
    BY <2>1, FS_Subset
  <2> QED BY <1>3, <2>1, <2>2 DEF NamesOK, BackupsDistinct
<1>13. FindersDistinct'
  BY <1>3, <1>7 DEF NamesOK, FindersDistinct
<1>14. ASSUME NEW q \in Processes, process[q].born # 0, Kept(process[q]) PROVE Kept(process[q])'
  <2>1. /\ process'[q].sec = process[q].sec /\ process'[q].n = process[q].n
        /\ process'[q].born = process[q].born /\ process'[q].raw = process[q].raw
    BY <1>5, <1>6
  <2> QED BY <1>1, <1>2, <1>14, <2>1, KeptWhenPruned DEF Kept
<1>15. ASSUME NEW q \in Processes PROVE Looked(process[q])' /\ BackedUp(process[q])'
  <2>1. CASE process'[q] = process[q]
    <3>1. Looked(process[q]) /\ BackedUp(process[q])
      BY ProcessFacts
    <3>2. Looked(process[q])'
      BY <1>1, <2>1, <3>1 DEF Looked, Writing
    <3>3. BackedUp(process[q])'
      BY <1>14, <2>1, <3>1, BackedUpNames DEF BackedUp, Writing
    <3> QED BY <3>2, <3>3
  <2>2. CASE q = p /\ process'[q] = m
    <3>1. Looked(process[q])'
      BY <1>1, <1>4, <1>5, <2>2 DEF Looked, Writing
    <3>2. Kept(process[q])
      BY <1>4, <2>2 DEF BackedUp
    <3>3. BackedUp(process[q])'
      BY <1>4, <1>14, <2>2, <3>2 DEF BackedUp
    <3> QED BY <3>1, <3>3
  <2> QED BY <1>6, <2>1, <2>2
<1> QED BY <1>9, <1>10, <1>11, <1>12, <1>13, <1>15 DEF RestorePoints, NamesOK

-----------------------------------------------------------------------------
(* A backup is renamed into place, over one of the same name if there is.  *)

LEMMA RenameBackupKeeps ==
  ASSUME IInv, RestorePoints, Few, NEW p \in Processes, RenameBackup(p) PROVE RestorePoints'
<1> DEFINE o == process[p]
           m == [process[p] EXCEPT !.pc = "prune"]
           new == [sec |-> o.sec, n |-> o.n, born |-> o.born, content |-> o.tmp]
           others == {b \in backups : b.sec # o.sec \/ b.n # o.n}
<1>1. UNCHANGED <<disk, now, made, thisSecond>> /\ process' = [process EXCEPT ![p] = m]
  BY DEF RenameBackup, Goto
<1>2. backups' = others \cup {new}
  BY DEF RenameBackup
<1>3. process \in [Processes -> Process] /\ NamesOK
  BY DEF IInv, ProcessesOK, RestorePoints
<1>4. o \in Process /\ Looked(o) /\ Prepared(o) /\ o.pc = "rename" /\ o.dest = "backup"
  BY ProcessFacts DEF RenameBackup, At
<1>5. o.born # 0 /\ o.tmp = o.raw
  BY <1>4 DEF Prepared, Payload
<1>6. /\ m.pc = "prune" /\ m.dest = "backup" /\ m.raw = o.raw /\ m.stale = o.stale
      /\ m.sec = o.sec /\ m.n = o.n /\ m.born = o.born
  BY <1>4 DEF Process
<1>7. /\ new.sec = o.sec /\ new.n = o.n /\ new.born = o.born /\ new.content = o.raw
  BY <1>5
<1>8. o = process[p]
  OBVIOUS
<1>9. \A b : b \in others <=> b \in backups /\ (b.sec # o.sec \/ b.n # o.n)
  OBVIOUS
<1> HIDE DEF m, o, new, others
<1>10. \A q \in Processes : process'[q] = process[q] \/ (q = p /\ process'[q] = m)
  BY <1>1, <1>3
<1>11. \A q \in Processes : Name(process'[q]) = Name(process[q]) /\ process'[q].born = process[q].born
  BY <1>6, <1>8, <1>10 DEF Name
<1>12. Names' \subseteq Names
  <2>1. Name(new) = Name(process[p]) /\ process[p].born # 0
    BY <1>5, <1>7, <1>8 DEF Name
  <2> QED BY <1>2, <1>9, <1>11, <2>1 DEF Names
<1>13. ASSUME NEW b \in backups
       PROVE  \E c \in backups' : c.sec = b.sec /\ c.n = b.n /\ (c = b \/ c.born = o.born)
  BY <1>2, <1>7, <1>9
<1>14. NamesInOrder'
  BY <1>3, <1>12 DEF NamesOK, NamesInOrder
<1>15. NamesBounded'
  BY <1>1, <1>3, <1>12 DEF NamesOK, NamesBounded
<1>16. NamesDense'
  <2> SUFFICES ASSUME thisSecond < MaxPerSecond, NEW x \in Names, x.sec = now,
                      NEW i \in 0..(x.n - 1)
               PROVE  \E b \in backups' : b.sec = now /\ b.n = i
    BY <1>1, <1>12 DEF NamesDense
  <2>1. PICK b \in backups : b.sec = now /\ b.n = i
    BY <1>3 DEF NamesOK, NamesDense
  <2> QED BY <1>13, <2>1
<1>17. BackupsDistinct'
  <2>1. others \in SUBSET backups /\ IsFiniteSet(backups)
    BY <1>3, <1>9 DEF NamesOK, BackupsDistinct
  <2>2. IsFiniteSet(backups')
    BY <1>2, <2>1, FS_Subset, FS_AddElement
  <2> QED BY <1>2, <1>3, <1>7, <1>9, <2>2 DEF NamesOK, BackupsDistinct
<1>18. FindersDistinct'
  BY <1>3, <1>11 DEF NamesOK, FindersDistinct
<1>19. ASSUME NEW q \in Processes, q # p, process[q].born # 0, Kept(process[q])
       PROVE  Kept(process[q])'
  <2>1. process'[q] = process[q] /\ process[q].born # o.born
    BY <1>3, <1>5, <1>8, <1>10, <1>19 DEF NamesOK, FindersDistinct
  <2>2. CASE made - process[q].born >= MaxBackups
    BY <1>1, <2>1, <2>2 DEF Kept
  <2>3. ASSUME NEW b \in backups, b.sec = process[q].sec, b.n = process[q].n,
               b.born = process[q].born => b.content = process[q].raw
        PROVE  Kept(process[q])'
    <3>1. PICK c \in backups' : c.sec = b.sec /\ c.n = b.n /\ (c = b \/ c.born = o.born)
      BY <1>13
    <3> QED BY <2>1, <2>3, <3>1 DEF Kept
  <2> QED BY <1>19, <2>2, <2>3 DEF Kept
<1>20. ASSUME NEW q \in Processes PROVE Looked(process[q])' /\ BackedUp(process[q])'
  <2>1. CASE q # p
    <3>1. Looked(process[q]) /\ BackedUp(process[q]) /\ process'[q] = process[q]
      BY <1>10, <2>1, ProcessFacts
    <3>2. Looked(process[q])'
      BY <1>1, <3>1 DEF Looked, Writing
    <3>3. BackedUp(process[q])'
      BY <1>19, <2>1, <3>1, BackedUpNames DEF BackedUp, Writing
    <3> QED BY <3>2, <3>3
  <2>2. CASE q = p
    <3>1. process'[q] = m
      BY <1>1, <1>3, <2>2
    <3>2. Looked(process[q])'
      BY <1>1, <1>4, <1>5, <1>6, <3>1 DEF Looked, Writing
    <3>3. new \in backups'
      BY <1>2
    <3>4. Kept(process[q])'
      BY <1>6, <1>7, <3>1, <3>3 DEF Kept
    <3>5. BackedUp(process[q])'
      BY <3>4 DEF BackedUp
    <3> QED BY <3>2, <3>5
  <2> QED BY <2>1, <2>2
<1> QED BY <1>14, <1>15, <1>16, <1>17, <1>18, <1>20 DEF RestorePoints, NamesOK

-----------------------------------------------------------------------------
(* config.yaml changes: whoever was at work on it is out of date.          *)

LEMMA OutdatedKeeps ==
  ASSUME IInv, RestorePoints, NEW q \in Processes, NEW content, disk' = content,
         process'[q] = Outdated(content)[q], UNCHANGED <<backups, made>>
  PROVE  Looked(process[q])' /\ BackedUp(process[q])'
<1> DEFINE m == [process[q] EXCEPT !.stale = TRUE]
<1>1. process[q] \in Process /\ Looked(process[q]) /\ BackedUp(process[q])
  BY ProcessFacts
<1>2. /\ m.pc = process[q].pc /\ m.dest = process[q].dest /\ m.born = process[q].born
      /\ m.sec = process[q].sec /\ m.n = process[q].n /\ m.raw = process[q].raw
      /\ m.current = process[q].current /\ m.target = process[q].target /\ m.stale = TRUE
  BY <1>1 DEF Process
<1>3. process'[q] = IF content # disk /\ process[q].pc # "out" /\ process[q].pc # "loaded"
                    THEN m ELSE process[q]
  BY DEF Outdated, At
<1> HIDE DEF m
<1>4. CASE process'[q] = m
  <2>1. Looked(process[q])'
    BY <1>1, <1>2, <1>4 DEF Looked, Writing
  <2>2. BackedUp(process[q])'
    BY <1>1, <1>2, <1>4 DEF BackedUp, Kept, Writing
  <2> QED BY <2>1, <2>2
<1>5. CASE process'[q] = process[q]
  <2>1. disk' = disk \/ process[q].pc \in {"out", "loaded"} \/ process[q].stale
    BY <1>2, <1>3, <1>5
  <2>2. Looked(process[q])'
    BY <1>1, <1>5, <2>1 DEF Looked, Writing
  <2>3. BackedUp(process[q])'
    BY <1>1, <1>5 DEF BackedUp, Kept, Writing
  <2> QED BY <2>2, <2>3
<1> QED BY <1>3, <1>4, <1>5

LEMMA OutdatedNames ==
  ASSUME IInv, NEW q \in Processes, NEW content
  PROVE  /\ Outdated(content)[q].born = process[q].born
         /\ Name(Outdated(content)[q]) = Name(process[q])
<1> DEFINE m == [process[q] EXCEPT !.stale = TRUE]
<1>1. process[q] \in Process
  BY DEF IInv, ProcessesOK
<1>2. m.born = process[q].born /\ m.sec = process[q].sec /\ m.n = process[q].n
  BY <1>1 DEF Process
<1>3. Outdated(content)[q] = m \/ Outdated(content)[q] = process[q]
  BY DEF Outdated
<1> HIDE DEF m
<1> QED BY <1>2, <1>3 DEF Name

LEMMA RenameConfigKeeps ==
  ASSUME IInv, RestorePoints, NEW p \in Processes, RenameConfig(p) PROVE RestorePoints'
<1> DEFINE o == Outdated(process[p].tmp)
<1>1. disk' = process[p].tmp /\ UNCHANGED <<backups, now, made, thisSecond>>
  BY DEF RenameConfig
<1>2. PICK pc \in {"loaded", "out"} :
        process' = [o EXCEPT ![p] = IF pc = "out" THEN Idle
                                    ELSE [Idle EXCEPT !.pc = pc, !.cfg = process[p].cfg]]
  <2>1. process[p].job \in {"seed", "save", "restore"}
    BY ProcessFacts DEF RenameConfig, At, Prepared, Process
  <2> QED BY <2>1 DEF RenameConfig
<1> DEFINE m == IF pc = "out" THEN Idle ELSE [Idle EXCEPT !.pc = pc, !.cfg = process[p].cfg]
<1>3. m.pc \in {"out", "loaded"} /\ m.born = 0 /\ m.dest = "config"
  BY DEF Idle
<1>4. process' = [o EXCEPT ![p] = m]
  BY <1>2
<1>5. DOMAIN o = Processes
  BY DEF Outdated
<1>6. o = Outdated(process[p].tmp)
  OBVIOUS
<1> HIDE DEF m, o
<1>7. process'[p] = m /\ \A q \in Processes : q # p => process'[q] = o[q]
  BY <1>4, <1>5
<1>8. NamesOK'
  <2>1. ASSUME NEW q \in Processes, process'[q].born # 0
        PROVE  process[q].born # 0 /\ Name(process'[q]) = Name(process[q])
    <3>1. process'[q] = o[q]
      BY <1>3, <1>7, <2>1
    <3> QED BY <1>6, <2>1, <3>1, OutdatedNames
  <2> QED BY <1>1, <2>1, NamesStay DEF RestorePoints
<1>9. ASSUME NEW q \in Processes PROVE Looked(process[q])' /\ BackedUp(process[q])'
  <2>1. CASE q = p
    BY <1>3, <1>7, <2>1 DEF Looked, BackedUp, Writing
  <2>2. CASE q # p
    BY <1>1, <1>6, <1>7, <2>2, OutdatedKeeps
  <2> QED BY <2>1, <2>2
<1> QED BY <1>8, <1>9 DEF RestorePoints

LEMMA EditByHandKeeps == ASSUME IInv, RestorePoints, EditByHand PROVE RestorePoints'
<1>1. PICK content : disk' = content /\ process' = Outdated(content)
  BY DEF EditByHand
<1>2. UNCHANGED <<backups, now, made, thisSecond>>
  BY DEF EditByHand
<1>3. NamesOK'
  BY <1>1, <1>2, OutdatedNames, NamesStay DEF RestorePoints
<1>4. \A q \in Processes : Looked(process[q])' /\ BackedUp(process[q])'
  BY <1>1, <1>2, OutdatedKeeps
<1> QED BY <1>3, <1>4 DEF RestorePoints

(* The names of the second that is over are earlier than any to come.      *)
LEMMA TickKeeps == ASSUME IInv, RestorePoints, Tick PROVE RestorePoints'
<1>1. UNCHANGED <<disk, backups, process, made>> /\ now' = now + 1 /\ now \in Nat /\ NamesOK
  BY DEF Tick, IInv, CountersOK, RestorePoints
<1>2. Names' = Names
  BY <1>1 DEF Names
<1>3. \A x \in Names : x.sec \in 1..now' /\ x.sec # now'
  BY <1>1 DEF NamesOK, NamesBounded
<1>4. NamesInOrder'
  BY <1>1, <1>2 DEF NamesOK, NamesInOrder
<1>5. NamesBounded'
  BY <1>1, <1>2, <1>3 DEF NamesOK, NamesBounded
<1>6. NamesDense'
  BY <1>2, <1>3 DEF NamesDense
<1>7. BackupsDistinct' /\ FindersDistinct'
  BY <1>1 DEF NamesOK, BackupsDistinct, FindersDistinct
<1>8. \A q \in Processes : Looked(process[q])' /\ BackedUp(process[q])'
  BY <1>1, ProcessFacts DEF Looked, BackedUp, Kept
<1> QED BY <1>4, <1>5, <1>6, <1>7, <1>8 DEF RestorePoints, NamesOK

-----------------------------------------------------------------------------

LEMMA InitRestorePoints == Init => RestorePoints
<1> SUFFICES ASSUME Init PROVE RestorePoints
  OBVIOUS
<1>1. backups = {} /\ \A p \in Processes : process[p] = Idle
  BY DEF Init
<1>2. Names = {}
  BY <1>1, IdleLooked DEF Names
<1>3. NamesInOrder /\ NamesBounded /\ NamesDense
  BY <1>2 DEF NamesInOrder, NamesBounded, NamesDense
<1>4. BackupsDistinct /\ FindersDistinct
  BY <1>1, IdleLooked, FS_EmptySet DEF BackupsDistinct, FindersDistinct
<1> QED BY <1>1, <1>3, <1>4, IdleLooked DEF RestorePoints, NamesOK

LEMMA StepRestorePoints ==
  ASSUME IInv, RestorePoints, Few, [Next]_vars PROVE RestorePoints'
<1>1. ASSUME NEW p \in Processes,
             \/ Load(p) \/ BeginSave(p) \/ Read(p) \/ Confirm(p)
             \/ \E yes, force \in BOOLEAN : Examine(p, yes, force)
             \/ RestoreStat(p)
             \/ \E b \in backups : Restore(p, b)
      PROVE  RestorePoints'
  BY <1>1, LoadKeeps, BeginSaveKeeps, ReadKeeps, ConfirmKeeps, ExamineKeeps, RestoreKeeps,
     RestoreStatKeeps
<1>2. ASSUME NEW p \in Processes,
             \/ BackupRead(p) \/ BackupName(p) \/ Prune(p)
             \/ Create(p) \/ Fill(p) \/ RenameBackup(p) \/ RenameConfig(p)
      PROVE  RestorePoints'
  BY <1>2, BackupReadKeeps, BackupNameKeeps, PruneKeeps, WritesOn, RenameBackupKeeps,
     RenameConfigKeeps
<1>3. CASE UNCHANGED vars
  <2>1. UNCHANGED <<disk, backups, now, process, made, thisSecond>>
    BY <1>3 DEF vars
  <2>2. NamesOK'
    BY <2>1, NamesStay DEF RestorePoints
  <2>3. \A q \in Processes : Looked(process[q])' /\ BackedUp(process[q])'
    BY <2>1, ProcessFacts DEF Looked, BackedUp, Kept
  <2> QED BY <2>2, <2>3 DEF RestorePoints
<1> QED BY <1>1, <1>2, <1>3, CrashKeeps, EditByHandKeeps, TickKeeps DEF Next

LEMMA RestorePointsAlways == ASSUME Few PROVE Spec => [](IInv /\ RestorePoints)
<1>1. IInv /\ RestorePoints /\ [Next]_vars => (IInv /\ RestorePoints)'
  BY StepIInv, StepRestorePoints
<1> QED BY InitIInv, InitRestorePoints, <1>1, PTL DEF Spec

-----------------------------------------------------------------------------
(* As long as no more names can be found in a second than backups are kept *)
(* and one: with more, names compared as text are not in the order of      *)
(* their making, and a name that was pruned is found free and used again.  *)
(* Prune (backup.go) then removes a newer backup before an older one.      *)

(* Backup sorts the names and removes those after the first MaxBackups:    *)
(* what goes was started before MaxBackups that are there, whatever other  *)
(* processes write and remove in between, whoever is killed on the way and *)
(* whatever could not be removed before.                                   *)
THEOREM OldestAlwaysPrunedFirst ==
  ASSUME MaxPerSecond <= 10, MaxPerSecond <= MaxBackups + 1
  PROVE  Spec => OldestPrunedFirst
<1> DEFINE A == \A b \in backups :
     b \notin backups' /\ (\E p \in Processes : At(p, "prune") /\ ~At(p, "prune")')
       => Cardinality(Later(b)) >= MaxBackups
<1>1. Few
  BY DEF Few
<1>2. ASSUME IInv, RestorePoints, [Next]_vars PROVE A
  <2> SUFFICES ASSUME NEW b \in backups, b \notin backups',
                      NEW p \in Processes, At(p, "prune"), ~At(p, "prune")'
               PROVE  Cardinality(Later(b)) >= MaxBackups
    OBVIOUS
  <2>1. backups' # backups
    OBVIOUS
  <2>2. PICK q \in Processes : Prune(q) \/ RenameBackup(q)
    BY <1>2, <2>1 DEF Next, vars, Load, BeginSave, Read, Confirm, Examine, Restore, RestoreStat,
       BackupRead, BackupName, Create, Fill, RenameConfig, Crash, EditByHand, Tick
  <2>3. CASE Prune(q)
    <3>1. b \in Excess
      BY <2>3 DEF Prune
    <3>2. Cardinality(After(b)) >= MaxBackups
      BY <3>1 DEF Excess, After
    <3> QED BY <1>1, <1>2, <3>2, OlderGoes DEF RestorePoints
  <2>4. CASE RenameBackup(q)
    <3>1. p # q /\ process \in [Processes -> Process]
      BY <1>2, <2>4 DEF RenameBackup, At, IInv, ProcessesOK
    <3>2. process'[p] = process[p]
      BY <2>4, <3>1 DEF RenameBackup, Goto
    <3> QED BY <3>2 DEF At
  <2> QED BY <2>2, <2>3, <2>4
<1> HIDE DEF A
<1>3. Spec => [][A]_vars
  BY <1>1, <1>2, RestorePointsAlways, PTL DEF Spec
<1> QED BY <1>3 DEF OldestPrunedFirst, A

(* SaveSafely and RestoreBackup: what a write replaces is in a backup,     *)
(* unless the file changed after the writer last looked, or two processes  *)
(* found the same name free at once, or MaxBackups more were made since.   *)
THEOREM ReplacedAlwaysRecoverable ==
  ASSUME MaxPerSecond <= 10, MaxPerSecond <= MaxBackups + 1
  PROVE  Spec => ReplacedIsRecoverable
<1> DEFINE A == \A p \in Processes :
       /\ At(p, "rename") /\ ~At(p, "rename")' /\ disk' # disk
       /\ disk # Missing /\ ~process[p].stale
       /\ process[p].born # 0 => made - process[p].born < MaxBackups
       => \E b \in backups :
            \/ b.content = disk
            \/ b.sec = process[p].sec /\ b.n = process[p].n /\ b.born # process[p].born
<1>1. Few
  BY DEF Few
<1>2. ASSUME IInv, RestorePoints, [Next]_vars PROVE A
  <2> SUFFICES ASSUME NEW p \in Processes, At(p, "rename"), ~At(p, "rename")', disk' # disk,
                      disk # Missing, ~process[p].stale,
                      process[p].born # 0 => made - process[p].born < MaxBackups
               PROVE  \E b \in backups :
                        \/ b.content = disk
                        \/ b.sec = process[p].sec /\ b.n = process[p].n /\ b.born # process[p].born
    OBVIOUS
  <2>0. /\ process[p] \in Process /\ Looked(process[p]) /\ BackedUp(process[p])
        /\ Prepared(process[p]) /\ process[p].pc = "rename" /\ made \in Nat
    BY <1>2, ProcessFacts DEF At, IInv, CountersOK
  <2>1. (\E q \in Processes : RenameConfig(q)) \/ EditByHand
    BY <1>2 DEF Next, vars, Load, BeginSave, Read, Confirm, Examine, Restore, RestoreStat,
       BackupRead, BackupName, Prune, Create, Fill, RenameBackup, Crash, Tick
  <2>2. ASSUME NEW content PROVE Outdated(content)[p].pc = "rename"
    BY <2>0 DEF Outdated, Process
  <2>3. ~EditByHand
    BY <2>2 DEF EditByHand, At
  <2>4. RenameConfig(p)
    <3>1. PICK q \in Processes : RenameConfig(q)
      BY <2>1, <2>3
    <3>2. DOMAIN Outdated(process[q].tmp) = Processes
      BY DEF Outdated
    <3>3. q # p => process'[p] = Outdated(process[q].tmp)[p]
      BY <3>1, <3>2 DEF RenameConfig
    <3> QED BY <2>2, <3>1, <3>3 DEF At
  <2>5. process[p].dest = "config" /\ disk' = process[p].target
    BY <2>0, <2>4 DEF RenameConfig, Prepared, Payload
  <2>6. process[p].born # 0
    BY <2>0, <2>5 DEF Looked, Writing
  <2>7. disk = process[p].raw /\ Kept(process[p])
    BY <2>0, <2>5, <2>6 DEF Looked, BackedUp, Writing
  <2>8. ~(made - process[p].born >= MaxBackups)
    <3>1. process[p].born \in Nat
      BY <2>0 DEF Process
    <3> QED BY <2>0, <2>6, <3>1, StoreConstants
  <2> QED BY <2>7, <2>8 DEF Kept
<1> HIDE DEF A
<1>3. Spec => [][A]_vars
  BY <1>1, <1>2, RestorePointsAlways, PTL DEF Spec
<1> QED BY <1>3 DEF ReplacedIsRecoverable, A

=============================================================================
