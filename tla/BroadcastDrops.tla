--------------------------- MODULE BroadcastDrops ---------------------------
(***************************************************************************)
(* The broadcaster with the poller that logs its drop count (cmd/serve.go, *)
(* logDrops): Drops reads the retired count before it takes the lock under *)
(* which it sums the counters of the registered.                           *)
(***************************************************************************)
EXTENDS Broadcast

VARIABLES
  base,      \* the retired count a call in progress has read, <<>> between calls
  reported   \* the total the last call returned

pollerVars == <<base, reported>>
allVars == <<vars, pollerVars>>

DropsReadsRetired ==
  /\ base = <<>>
  /\ base' = <<retired>>
  /\ UNCHANGED <<vars, reported>>

(* The counters only grow while the read lock is held, so reading them all *)
(* at once is one of the sums the loop can come to.                        *)
DropsSums ==
  /\ base # <<>>
  /\ reported' = base[1] + MapThenSumSet(LAMBDA s : drops[s], Registered)
  /\ base' = <<>>
  /\ UNCHANGED vars

PolledInit == Init /\ base = <<>> /\ reported = 0

PolledNext ==
  \/ Next /\ UNCHANGED pollerVars
  \/ DropsReadsRetired
  \/ DropsSums

PolledSpec == PolledInit /\ [][PolledNext]_allVars

(* broadcast.go:55: retired is there "so Drops stays monotonic across       *)
(* session churn".                                                         *)
DropsMonotonic == [][reported' >= reported]_allVars

\* For the model checker: three messages of every producer.
ThreeEach == [p \in Producers |-> 3]

=============================================================================
