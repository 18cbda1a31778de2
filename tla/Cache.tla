------------------------------- MODULE Cache -------------------------------
(***************************************************************************)
(* The quote cache, internal/market/cache.go: a ring of recent prices and  *)
(* the last full quote per symbol, filled by live quotes and, once per     *)
(* symbol, from history.  A write holds c.mu throughout but moves the      *)
(* generation counter last, and Generation reads that counter without the  *)
(* lock: a write is two steps, with the lock held in between.              *)
(*                                                                         *)
(* A sample is a number: live quotes of a symbol are 1, 2, ... in the order *)
(* they are pushed, and a history of h bars is -h, ..., -1, oldest first.  *)
(* It stands for a price and its time, which the code keeps in step.       *)
(***************************************************************************)
EXTENDS Integers, Sequences, FiniteSets, SequencesExt

CONSTANTS
  Symbols,     \* canonical symbols
  RingSize,    \* c.ringSize (sparkline_len, 60 by default)
  MaxBars,     \* bound of the model: bars a history request returns
  MaxPushes    \* bound of the model: MaxPushes[s] live quotes of symbol s

ASSUME CacheAssumption ==
  /\ RingSize \in Nat \ {0}
  /\ MaxBars \in Nat
  /\ MaxPushes \in [Symbols -> Nat]
  /\ "none" \notin Symbols /\ "hub" \notin Symbols

VARIABLES
  data,     \* c.data: the ring of each symbol; an empty one is one not there yet
  last,     \* c.last: the latest live sample, 0 when never quoted
  seeded,   \* c.seeded
  gen,      \* c.gen
  holder,   \* who holds c.mu for writing: "none", "hub", or the symbol being seeded
  bars      \* history: bars the symbol's one seeding was given

cacheVars == <<data, last, seeded, gen, holder, bars>>

(* newRing, push and series of the ring. *)
NewRing == [buf |-> [i \in 0..(RingSize - 1) |-> 0], head |-> 0, size |-> 0]

Put(r, v) ==
  [buf  |-> [r.buf EXCEPT ![r.head] = v],
   head |-> (r.head + 1) % RingSize,
   size |-> IF r.size < RingSize THEN r.size + 1 ELSE r.size]

Series(r) ==
  LET start == (r.head - r.size + RingSize) % RingSize
  IN  [i \in 1..r.size |-> r.buf[(start + i - 1) % RingSize]]

(* What pushing a sequence that fits onto a new ring leaves. *)
Filled(seq) ==
  [buf  |-> [i \in 0..(RingSize - 1) |-> IF i < Len(seq) THEN seq[i + 1] ELSE 0],
   head |-> Len(seq) % RingSize,
   size |-> Len(seq)]

History(h) == [i \in 1..h |-> i - h - 1]
LastOf(seq, n) == IF Len(seq) > n THEN SubSeq(seq, Len(seq) - n + 1, Len(seq)) ELSE seq

CacheInit ==
  /\ data = [s \in Symbols |-> NewRing]
  /\ last = [s \in Symbols |-> 0]
  /\ seeded = {}
  /\ gen = 0
  /\ holder = "none"
  /\ bars = [s \in Symbols |-> 0]

-----------------------------------------------------------------------------
(* Slips: the definition named in the comment, with one plausible bug.     *)

\* Backfilled, with the history in front of the live samples
SlipBackfilledInFront(r, h) == Filled(LastOf(Series(r) \o History(h), RingSize))

-----------------------------------------------------------------------------

(* Push, by the hub's reader, up to the counter. *)
Push(s) ==
  /\ holder = "none"
  /\ last[s] < MaxPushes[s]
  /\ holder' = "hub"
  /\ data' = [data EXCEPT ![s] = Put(@, last[s] + 1)]
  /\ last' = [last EXCEPT ![s] = @ + 1]
  /\ UNCHANGED <<seeded, gen, bars>>

(* A ring with history behind its live samples: as many of the most recent *)
(* bars as there is room for.                                              *)
Backfilled(r, h) ==
  Filled(LastOf(History(h), RingSize - r.size) \o Series(r))

(* seed, with h > 0 bars, up to the counter: one-shot per symbol, and a    *)
(* full ring is left alone, though it counts as seeded.                    *)
Seed(s, h) ==
  /\ holder = "none"
  /\ seeded' = seeded \cup {s}
  /\ IF s \in seeded \/ data[s].size = RingSize
     THEN UNCHANGED <<data, holder>>
     ELSE /\ data' = [data EXCEPT ![s] = Backfilled(@, h)]
          /\ holder' = s
  /\ bars' = [bars EXCEPT ![s] = IF s \in seeded THEN @ ELSE h]
  /\ UNCHANGED <<last, gen>>

(* c.gen.Add(1) and the deferred unlock. *)
Advance ==
  /\ holder # "none"
  /\ gen' = gen + 1
  /\ holder' = "none"
  /\ UNCHANGED <<data, last, seeded, bars>>

-----------------------------------------------------------------------------

CacheTypeOK ==
  /\ data \in [Symbols -> [buf : [0..(RingSize - 1) -> Int],
                           head : 0..(RingSize - 1), size : 0..RingSize]]
  /\ last \in [Symbols -> Nat]
  /\ seeded \in SUBSET Symbols
  /\ gen \in Nat
  /\ holder \in Symbols \cup {"none", "hub"}
  /\ bars \in [Symbols -> Nat]

(* SeedCandles, cache.go:100: history goes behind live data, never in its  *)
(* place, and the most recent bars are the ones kept.  Whenever in the     *)
(* stream of live quotes the one seeding happened, the ring holds what it  *)
(* would hold had the history come first: the newest RingSize samples.     *)
RingHoldsNewest ==
  \A s \in Symbols :
    Series(data[s]) = LastOf(History(bars[s]) \o [i \in 1..last[s] |-> i], RingSize)

=============================================================================
