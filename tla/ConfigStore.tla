---------------------------- MODULE ConfigStore ----------------------------
(***************************************************************************)
(* config.yaml and its backups, shared by every mkt process and the user's *)
(* editor (internal/config/config.go, save.go, backup.go).  A process      *)
(* loads the file once, changes what it holds, and saves it with           *)
(* SaveSafely, or puts a backup in its place with RestoreBackup.  Nothing  *)
(* locks the file: every read, rename and removal is a step of its own, a  *)
(* question to the user takes as long as it takes, and a process can be    *)
(* gone between any two steps.                                             *)
(*                                                                         *)
(* What a file holds is the set of the user's things in it.                *)
(***************************************************************************)
EXTENDS Integers, FiniteSets

CONSTANTS
  Processes,
  Items,         \* what a configuration can hold
  Defaults,      \* what LoadWithResult seeds a new file with
  MaxBackups,    \* config.MaxBackups
  MaxPerSecond,  \* bounds of the model: backups in one second,
  MaxSeconds,    \* seconds,
  MaxWrites,     \* saves and restores,
  MaxByHand,     \* edits of the file by other programs,
  MaxCrashes     \* and processes that fail or are killed on the way

ASSUME StoreAssumption ==
  /\ Defaults \subseteq Items
  /\ MaxBackups \in Nat \ {0}
  /\ MaxSeconds \in Nat \ {0}
  /\ {MaxPerSecond, MaxWrites, MaxByHand, MaxCrashes} \subseteq Nat

Whole(items) == [kind |-> "whole", items |-> items]
Missing == [kind |-> "missing", items |-> {}]
Broken == [kind |-> "broken", items |-> {}]
Torn == [kind |-> "torn", items |-> {}]
Contents == {Whole(items) : items \in SUBSET Items} \cup {Broken}

VARIABLES
  disk,        \* what config.yaml holds
  backups,     \* records [sec, n, born, content]: config.yaml.bak.<sec>-<n>
  now,         \* the second it is
  process,     \* the locals of each process; see Idle
  made,        \* how many backups have been started,
  thisSecond,  \* and how many of them in this second
  writes,      \* how many saves and restores have been started,
  byHand,      \* edits of the file by others,
  crashes      \* and crashes

counters == <<writes, byHand, crashes>>
vars == <<disk, backups, now, process, made, thisSecond, counters>>

(* pc: the operation that comes next; job: what the write is for.  stale:  *)
(* whether the file has changed under the process since it last looked.    *)
Idle ==
  [pc |-> "out", job |-> "none", cfg |-> {},
   current |-> Missing, target |-> Missing, raw |-> Missing,
   sec |-> 0, n |-> 0, born |-> 0, tmp |-> Missing, dest |-> "config", stale |-> FALSE]

Init ==
  /\ disk \in {Missing, Whole(Items)}
  /\ backups = {}
  /\ now = 1
  /\ process = [p \in Processes |-> Idle]
  /\ made = 0
  /\ thisSecond = 0
  /\ writes = 0
  /\ byHand = 0
  /\ crashes = 0

At(p, pc) == process[p].pc = pc
Goto(p, pc) == process' = [process EXCEPT ![p].pc = pc]
Leave(p) == process' = [process EXCEPT ![p] = Idle]

(* The processes once the file holds content: whoever is at work on it has *)
(* an old view of it.                                                      *)
Outdated(content) ==
  [q \in Processes |->
     IF content # disk /\ ~At(q, "out") /\ ~At(q, "loaded")
     THEN [process[q] EXCEPT !.stale = TRUE] ELSE process[q]]

-----------------------------------------------------------------------------
(* Slips: the definition named in the comment, with one plausible bug.     *)

\* Fill, half written when the rename comes
SlipFillUnsynced(p) ==
  /\ At(p, "fill")
  /\ Goto(p, "rename")
  /\ UNCHANGED <<disk, backups, now, made, thisSecond, counters>>

\* Differs, as if a file that does not parse held nothing to keep
SlipDiffersIfWhole(m) == m.current.kind = "whole" /\ m.current # m.target

\* Newer, with the names of a second in ascending order
SlipNewerAscending(b, c) == b.sec > c.sec \/ (b.sec = c.sec /\ b.n < c.n)

-----------------------------------------------------------------------------
(* LoadWithResult: a file that is missing is seeded, one that does not     *)
(* parse is replaced by the defaults in memory.                            *)

Load(p) ==
  /\ At(p, "out")
  /\ writes < MaxWrites
  /\ process' = [process EXCEPT ![p] =
       IF disk = Missing
       THEN [Idle EXCEPT !.pc = "create", !.job = "seed",
                         !.cfg = Defaults, !.target = Whole(Defaults)]
       ELSE [Idle EXCEPT !.pc = "loaded",
                         !.cfg = IF disk = Broken THEN Defaults ELSE disk.items]]
  /\ UNCHANGED <<disk, backups, now, made, thisSecond, counters>>

-----------------------------------------------------------------------------
(* SaveSafely.                                                             *)

(* A command or the dashboard has changed one thing and saves.             *)
BeginSave(p) ==
  /\ At(p, "loaded")
  /\ writes < MaxWrites
  /\ writes' = writes + 1
  /\ \E i \in Items :
       LET cfg == IF i \in process[p].cfg
                  THEN process[p].cfg \ {i} ELSE process[p].cfg \cup {i}
       IN  process' = [process EXCEPT ![p] =
             [@ EXCEPT !.pc = "read", !.job = "save", !.cfg = cfg, !.target = Whole(cfg)]]
  /\ UNCHANGED <<disk, backups, now, made, thisSecond, byHand, crashes>>

Read(p) ==
  /\ At(p, "read")
  /\ process' = [process EXCEPT ![p] =
       [@ EXCEPT !.pc = "examine", !.current = disk, !.stale = FALSE]]
  /\ UNCHANGED <<disk, backups, now, made, thisSecond, counters>>

Differs(m) == m.current # Missing /\ m.current # m.target

(* Once the loss is accepted: a backup first, if there is anything to keep.*)
Proceed(m) == IF Differs(m) THEN "backup" ELSE "create"

(* The file is read again to be parsed; what does not parse counts as lost.*)
(* This is where --yes and --force matter, and --force implies --yes.      *)
Examine(p, yes, force) ==
  /\ At(p, "examine")
  /\ force => yes
  /\ LET m == process[p]
         unreadable == m.current # Missing /\ disk.kind # "whole"
         loses == unreadable \/ (m.current # Missing /\ ~(disk.items \subseteq m.cfg))
     IN  IF unreadable /\ ~force THEN Leave(p)
         ELSE Goto(p, IF loses /\ ~yes THEN "confirm" ELSE Proceed(m))
  /\ UNCHANGED <<disk, backups, now, made, thisSecond, counters>>

Confirm(p) ==
  /\ At(p, "confirm")
  /\ Goto(p, Proceed(process[p])) \/ Leave(p)
  /\ UNCHANGED <<disk, backups, now, made, thisSecond, counters>>

-----------------------------------------------------------------------------
(* RestoreBackup: the backup is read, and what it replaces backed up, if   *)
(* the file is found to be there.                                          *)

Restore(p, b) ==
  /\ At(p, "out")
  /\ writes < MaxWrites
  /\ writes' = writes + 1
  /\ process' = [process EXCEPT ![p] =
       [Idle EXCEPT !.pc = "stat", !.job = "restore", !.target = b.content]]
  /\ UNCHANGED <<disk, backups, now, made, thisSecond, byHand, crashes>>

RestoreStat(p) ==
  /\ At(p, "stat")
  /\ process' = [process EXCEPT ![p] =
       [@ EXCEPT !.pc = IF disk = Missing THEN "create" ELSE "backup", !.stale = FALSE]]
  /\ UNCHANGED <<disk, backups, now, made, thisSecond, counters>>

-----------------------------------------------------------------------------
(* Backup.                                                                 *)

BackupRead(p) ==
  /\ At(p, "backup")
  /\ IF disk = Missing
     THEN Leave(p)
     ELSE process' = [process EXCEPT ![p] =
            [@ EXCEPT !.pc = "name", !.raw = disk, !.stale = FALSE]]
  /\ UNCHANGED <<disk, backups, now, made, thisSecond, counters>>

(* The first name of this second that no file has, if one of the hundred   *)
(* there are is free.                                                      *)
BackupName(p) ==
  /\ At(p, "name")
  /\ LET taken == {b.n : b \in {c \in backups : c.sec = now}}
     IN  \/ /\ thisSecond < MaxPerSecond
            /\ \E n \in 0..99 :
                 /\ n \notin taken /\ 0..(n - 1) \subseteq taken
                 /\ process' = [process EXCEPT ![p] =
                      [@ EXCEPT !.pc = "create", !.dest = "backup", !.sec = now, !.n = n,
                                !.born = made + 1]]
            /\ made' = made + 1
            /\ thisSecond' = thisSecond + 1
         \/ 0..99 \subseteq taken /\ Leave(p) /\ UNCHANGED <<made, thisSecond>>
  /\ UNCHANGED <<disk, backups, now, counters>>

(* Names are compared as text: "" is before "-1", and "-10" before "-2".   *)
TextOrder(n) == IF n < 10 THEN 11 * n ELSE 11 * (n \div 10) + 1 + (n % 10)
Newer(b, c) == b.sec > c.sec \/ (b.sec = c.sec /\ TextOrder(b.n) > TextOrder(c.n))

(* All but the first MaxBackups of the list are removed; one that cannot   *)
(* be, or all of them when there is no list to be had, stay.               *)
Excess == {b \in backups : Cardinality({c \in backups : Newer(c, b)}) >= MaxBackups}

Prune(p) ==
  /\ At(p, "prune")
  /\ \E gone \in SUBSET Excess : backups' = backups \ gone
  /\ process' = [process EXCEPT ![p] = [@ EXCEPT !.pc = "create", !.dest = "config"]]
  /\ UNCHANGED <<disk, now, made, thisSecond, counters>>

-----------------------------------------------------------------------------
(* writeAtomic, of a backup or of config.yaml: a temporary file, made,     *)
(* filled and synced, and then renamed.                                    *)

Create(p) ==
  /\ At(p, "create")
  /\ process' = [process EXCEPT ![p] = [@ EXCEPT !.pc = "fill", !.tmp = Torn]]
  /\ UNCHANGED <<disk, backups, now, made, thisSecond, counters>>

Fill(p) ==
  /\ At(p, "fill")
  /\ LET m == process[p]
     IN  process' = [process EXCEPT ![p] =
           [m EXCEPT !.pc = "rename", !.tmp = IF m.dest = "backup" THEN m.raw ELSE m.target]]
  /\ UNCHANGED <<disk, backups, now, made, thisSecond, counters>>

RenameBackup(p) ==
  /\ At(p, "rename")
  /\ process[p].dest = "backup"
  /\ LET m == process[p]
     IN  backups' = {b \in backups : b.sec # m.sec \/ b.n # m.n}
                      \cup {[sec |-> m.sec, n |-> m.n, born |-> m.born, content |-> m.tmp]}
  /\ Goto(p, "prune")
  /\ UNCHANGED <<disk, now, made, thisSecond, counters>>

(* A command ends with its write; the dashboard keeps its configuration    *)
(* and may save it again, without another look at the file.                *)
RenameConfig(p) ==
  /\ At(p, "rename")
  /\ process[p].dest = "config"
  /\ disk' = process[p].tmp
  /\ \E pc \in CASE process[p].job = "seed" -> {"loaded"}
                 [] process[p].job = "save" -> {"loaded", "out"}
                 [] process[p].job = "restore" -> {"out"} :
       process' = [Outdated(process[p].tmp) EXCEPT ![p] =
                     IF pc = "out" THEN Idle
                     ELSE [Idle EXCEPT !.pc = pc, !.cfg = process[p].cfg]]
  /\ UNCHANGED <<backups, now, made, thisSecond, counters>>

-----------------------------------------------------------------------------

(* A file operation fails, or the process is killed: a temporary file is   *)
(* removed, or left behind under a name nobody reads.  A seed that cannot  *)
(* be written is done without.                                             *)
Crash(p) ==
  /\ ~At(p, "out")
  /\ crashes < MaxCrashes
  /\ crashes' = crashes + 1
  /\ \/ Leave(p)
     \/ /\ process[p].job = "seed" /\ ~At(p, "loaded")
        /\ process' = [process EXCEPT ![p] = [Idle EXCEPT !.pc = "loaded", !.cfg = Defaults]]
  /\ UNCHANGED <<disk, backups, now, made, thisSecond, writes, byHand>>

(* The user's editor writes the file, well or badly, or it is removed.     *)
EditByHand ==
  /\ byHand < MaxByHand
  /\ byHand' = byHand + 1
  /\ \E content \in Contents \cup {Missing} :
       disk' = content /\ process' = Outdated(content)
  /\ UNCHANGED <<backups, now, made, thisSecond, writes, crashes>>

Tick ==
  /\ now < MaxSeconds
  /\ now' = now + 1
  /\ thisSecond' = 0
  /\ UNCHANGED <<disk, backups, process, made, counters>>

Next ==
  \/ \E p \in Processes :
       \/ Load(p) \/ BeginSave(p) \/ Read(p) \/ Confirm(p)
       \/ \E yes, force \in BOOLEAN : Examine(p, yes, force)
       \/ \E b \in backups : Restore(p, b)
       \/ RestoreStat(p)
       \/ BackupRead(p) \/ BackupName(p) \/ Prune(p)
       \/ Create(p) \/ Fill(p) \/ RenameBackup(p) \/ RenameConfig(p)
       \/ Crash(p)
  \/ EditByHand
  \/ Tick

Spec == Init /\ [][Next]_vars

-----------------------------------------------------------------------------
(* Properties.                                                             *)

File == Contents \cup {Missing, Torn}

Backup ==
  [sec : 1..MaxSeconds, n : 0..99, born : Nat \ {0}, content : File \ {Missing}]

Process ==
  [pc : {"out", "loaded", "read", "examine", "confirm", "stat", "backup", "name",
         "create", "fill", "rename", "prune"},
   job : {"none", "seed", "save", "restore"}, cfg : SUBSET Items,
   current : File, target : File, raw : File,
   sec : 0..MaxSeconds, n : 0..99, born : Nat, tmp : File,
   dest : {"config", "backup"}, stale : BOOLEAN]

TypeOK ==
  /\ disk \in File
  /\ backups \subseteq Backup
  /\ now \in 1..MaxSeconds
  /\ process \in [Processes -> Process]
  /\ made \in Nat /\ thisSecond \in 0..MaxPerSecond
  /\ writes \in 0..MaxWrites /\ byHand \in 0..MaxByHand /\ crashes \in 0..MaxCrashes

(* Whoever is killed and whenever: neither the configuration nor anything  *)
(* that looks like a restore point is ever half a file.                    *)
NeverTorn == disk # Torn /\ \A b \in backups : b.content # Torn

(* What a write replaces can be restored, unless it came to the file after *)
(* the writer last looked, another process wrote its backup under the name *)
(* both had found free in the same second, or MaxBackups more were made.   *)
ReplacedIsRecoverable ==
  [][\A p \in Processes :
       /\ At(p, "rename") /\ ~At(p, "rename")' /\ disk' # disk
       /\ disk # Missing /\ ~process[p].stale
       /\ process[p].born # 0 => made - process[p].born < MaxBackups
       => \E b \in backups :
            \/ b.content = disk
            \/ b.sec = process[p].sec /\ b.n = process[p].n /\ b.born # process[p].born]_vars

Later(b) == {c \in backups : c.born > b.born}

(* The oldest are pruned first: a backup goes only while MaxBackups that   *)
(* were started after it are there.                                        *)
OldestPrunedFirst ==
  [][\A b \in backups :
       b \notin backups' /\ (\E p \in Processes : At(p, "prune") /\ ~At(p, "prune")')
         => Cardinality(Later(b)) >= MaxBackups]_vars

=============================================================================
