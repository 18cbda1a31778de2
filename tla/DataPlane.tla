----------------------------- MODULE DataPlane -----------------------------
(***************************************************************************)
(* Those who use the cache at once: the hub's reader, which pushes every   *)
(* quote (see Hub); the backfill pool of cmd/dataplane_seed.go, which seeds *)
(* each subscribed symbol from history; and the correlation tab, which     *)
(* memoizes a matrix derived from several rings under the generation it    *)
(* was computed at (internal/tui/correlation).                             *)
(***************************************************************************)
EXTENDS Cache

CONSTANTS
  Subscribed,   \* b.symbols, canonical and without duplicates
  Concurrency,  \* seedConcurrency
  Views         \* records [syms, bucket]: what the tab may be showing

ASSUME DataPlaneAssumption ==
  /\ Subscribed \in Seq(Symbols)
  /\ \A i, j \in 1..Len(Subscribed) : Subscribed[i] = Subscribed[j] => i = j
  /\ Concurrency \in Nat \ {0}
  /\ Views \subseteq [syms : Seq(Symbols), bucket : Nat]

VARIABLES
  \* the backfill pool
  backfill,   \* "spawning", "waiting" (wg.Wait) or "returned"
  upcoming,   \* index into Subscribed of the next symbol to spawn for
  fetching,   \* symbols whose history request is out
  failed,     \* symbols whose request failed or brought no bars
  ctxDone,    \* the budget is spent, or the program is shutting down
  \* the correlation tab
  view,       \* the window and bucket on screen
  memo,       \* matrixMemo
  pending     \* the matrix being computed: its key and the series read so far

poolVars == <<backfill, upcoming, fetching, failed, ctxDone>>
tabVars == <<view, memo, pending>>
vars == <<cacheVars, poolVars, tabVars>>

NoMatrix == [valid |-> FALSE]

Init ==
  /\ CacheInit
  /\ backfill = "spawning"
  /\ upcoming = 1
  /\ fetching = {}
  /\ failed = {}
  /\ ctxDone = FALSE
  /\ view \in Views
  /\ memo = NoMatrix
  /\ pending = NoMatrix

-----------------------------------------------------------------------------
(* Slips: the definition named in the comment, with one plausible bug.     *)

\* Slots, without the deferred release when a request fails
SlipSlotsKeptOnFailure == fetching \cup failed \cup (Symbols \cap {holder})

\* Memoize, keyed by the generation after the reads
SlipMemoizeLateKey ==
  /\ pending.valid
  /\ Len(pending.series) = Len(pending.view.syms)
  /\ memo' = [pending EXCEPT !.gen = gen]
  /\ pending' = NoMatrix
  /\ UNCHANGED <<cacheVars, poolVars, view>>

\* StopSpawning, whenever all slots are taken
SlipStopSpawningWhenFull ==
  /\ backfill = "spawning"
  /\ upcoming > Len(Subscribed) \/ ctxDone \/ Cardinality(fetching) = Concurrency
  /\ backfill' = "waiting"
  /\ UNCHANGED <<cacheVars, upcoming, fetching, failed, ctxDone, tabVars>>

-----------------------------------------------------------------------------
(* The hub's reader. *)
HubPush == \E s \in Symbols : Push(s) /\ UNCHANGED <<poolVars, tabVars>>

(* Whoever writes finishes: the counter moves and the lock is released. *)
WriterAdvances == Advance /\ UNCHANGED <<poolVars, tabVars>>

-----------------------------------------------------------------------------
(* seedCache.                                                              *)

(* The slots in use: a goroutine keeps its own until SeedCandles returns. *)
Slots == fetching \cup (Symbols \cap {holder})

(* The loop takes a slot for the next symbol, unless it is seeded already. *)
Spawn ==
  /\ backfill = "spawning"
  /\ upcoming <= Len(Subscribed)
  /\ holder = "none"
  /\ LET s == Subscribed[upcoming]
     IN  /\ s \notin seeded => Cardinality(Slots) < Concurrency
         /\ fetching' = fetching \cup ({s} \ seeded)
  /\ upcoming' = upcoming + 1
  /\ UNCHANGED <<cacheVars, backfill, failed, ctxDone, tabVars>>

(* The loop ends, or the context is done while it asks for a slot. *)
StopSpawning ==
  /\ backfill = "spawning"
  /\ upcoming > Len(Subscribed) \/ ctxDone
  /\ backfill' = "waiting"
  /\ UNCHANGED <<cacheVars, upcoming, fetching, failed, ctxDone, tabVars>>

(* The request fails, times out or is cancelled, or has no bars. *)
FetchFails(s) ==
  /\ s \in fetching
  /\ failed' = failed \cup {s}
  /\ fetching' = fetching \ {s}
  /\ UNCHANGED <<cacheVars, backfill, upcoming, ctxDone, tabVars>>

(* History arrives, at any time after the request. *)
FetchSeeds(s) ==
  /\ s \in fetching
  /\ \E h \in 1..MaxBars : Seed(s, h)
  /\ fetching' = fetching \ {s}
  /\ UNCHANGED <<backfill, upcoming, failed, ctxDone, tabVars>>

BackfillReturns ==
  /\ backfill = "waiting"
  /\ Slots = {}
  /\ backfill' = "returned"
  /\ UNCHANGED <<cacheVars, upcoming, fetching, failed, ctxDone, tabVars>>

CtxDone ==
  /\ ~ctxDone
  /\ ctxDone' = TRUE
  /\ UNCHANGED <<cacheVars, backfill, upcoming, fetching, failed, tabVars>>

-----------------------------------------------------------------------------
(* The correlation tab, on the update loop's goroutine.                    *)

(* A key press, a resize or a new watch list between two renders. *)
ChangeView ==
  /\ ~pending.valid
  /\ \E v \in Views \ {view} : view' = v
  /\ UNCHANGED <<cacheVars, poolVars, memo, pending>>

(* fresh: the memo's key is the one the caller arrives with. *)
Current == memo.valid /\ memo.view = view /\ memo.gen = gen

(* matrixFor reads the generation and, if the memo is not current, goes on *)
(* to read the series, one read lock each ...                              *)
Recompute ==
  /\ ~pending.valid
  /\ ~Current
  /\ pending' = [valid |-> TRUE, view |-> view, gen |-> gen, series |-> <<>>]
  /\ UNCHANGED <<cacheVars, poolVars, view, memo>>

ReadSeries ==
  /\ pending.valid
  /\ Len(pending.series) < Len(pending.view.syms)
  /\ holder = "none"
  /\ pending' = [pending EXCEPT !.series =
                   Append(@, Series(data[pending.view.syms[Len(@) + 1]]))]
  /\ UNCHANGED <<cacheVars, poolVars, view, memo>>

(* ... and stores the matrix under the generation it read first. *)
Memoize ==
  /\ pending.valid
  /\ Len(pending.series) = Len(pending.view.syms)
  /\ memo' = pending
  /\ pending' = NoMatrix
  /\ UNCHANGED <<cacheVars, poolVars, view>>

-----------------------------------------------------------------------------

Pool ==
  \/ Spawn \/ StopSpawning \/ BackfillReturns
  \/ \E s \in Symbols : FetchFails(s) \/ FetchSeeds(s)
Tab == ChangeView \/ Recompute \/ ReadSeries \/ Memoize

Next == HubPush \/ WriterAdvances \/ Pool \/ CtxDone \/ Tab

Spec == Init /\ [][Next]_vars

(* Goroutines run, c.mu is released, and a history request ends: it has a  *)
(* timeout (seedTimeout).  A writer waiting for c.mu gets it in the end     *)
(* (sync.RWMutex does not starve writers), hence SF.                        *)
Fairness ==
  /\ WF_vars(WriterAdvances)
  /\ SF_vars(Spawn) /\ WF_vars(StopSpawning) /\ WF_vars(BackfillReturns)
  /\ \A s \in Symbols : SF_vars(FetchFails(s) \/ FetchSeeds(s))

FairSpec == Spec /\ Fairness

-----------------------------------------------------------------------------
(* Correctness.                                                            *)

TypeOK ==
  /\ CacheTypeOK
  /\ backfill \in {"spawning", "waiting", "returned"}
  /\ upcoming \in 1..(Len(Subscribed) + 1)
  /\ fetching \in SUBSET Symbols
  /\ failed \in SUBSET Symbols
  /\ ctxDone \in BOOLEAN
  /\ view \in Views

(* matrixMemo, memo.go:18: no copy "can surface a matrix that does not      *)
(* belong to its own inputs".  Whenever the tab would reuse the memo, the   *)
(* memo's series are the ones it would read now, and were read for the same *)
(* bucket, although the rings were read one by one while quotes and         *)
(* backfills kept landing.  (While a writer holds the lock the old matrix   *)
(* is still the right answer: its write is not visible yet.)                *)
MemoNeverStale ==
  Current /\ holder = "none" =>
    /\ memo.view = view
    /\ memo.series = [i \in 1..Len(view.syms) |-> Series(data[view.syms[i]])]

(* The pool never has more than Concurrency requests out, and when it       *)
(* returns unhurried no subscribed symbol was passed over: each is seeded   *)
(* or had no history to give.                                              *)
BackfillComplete ==
  /\ Cardinality(Slots) <= Concurrency
  /\ (backfill = "returned" /\ ~ctxDone) => ToSet(Subscribed) \subseteq seeded \cup failed

(* seedCache returns whatever the requests do: no slot is lost to a failed  *)
(* one, and the last goroutine is waited for.                              *)
BackfillReturnsAlways == <>(backfill = "returned")

(* Every variable has its type, and every ring holds the newest samples:   *)
(* RingHoldsNewest, whatever the hub, the backfill and the views do at     *)
(* once.                                                                   *)
CacheSound == TypeOK /\ RingHoldsNewest

=============================================================================
