----------------------------- MODULE DedupIndex -----------------------------
(***************************************************************************)
(* The dedup index of the wallet tracker.                                  *)
(*                                                                         *)
(* The venue publishes no fill id.  A fill is identified by its content    *)
(* (transaction, trader, token, side, price, size) and its ordinal among   *)
(* the identical fills of that transaction.  The index counts, for each    *)
(* content, the ordinals it has handed out: a live row always takes the    *)
(* next one, a backfilled row claims the one of its position among the     *)
(* identical rows of its response.                                         *)
(*                                                                         *)
(* last_seen only matters against the retention window, so all that is     *)
(* kept of it is which contents were last touched longer ago than that.    *)
(***************************************************************************)
EXTENDS Integers

CONSTANTS
  ContentCount,     (* Contents are numbered in the order they happen.     *)
  MaxOccurrences    (* MAX_OCCURRENCES_PER_CONTENT.                        *)

ASSUME ContentCountAssumption   == ContentCount \in Nat
ASSUME MaxOccurrencesAssumption == MaxOccurrences \in Nat \ {0}

Contents == 1..ContentCount
Ordinals == 0..(MaxOccurrences - 1)

VARIABLES
  counts,           (* Ordinals handed out for each content.               *)
  aged              (* Contents last touched before the retention window.  *)

indexVars == <<counts, aged>>

IndexTypeOK ==
  /\ counts \in [Contents -> 0..MaxOccurrences]
  /\ aged \subseteq Contents

IndexInit ==
  /\ counts = [k \in Contents |-> 0]
  /\ aged = {}

\* Faulty variant: the ceiling is missing.
LiveIsNewAlways(k) == TRUE

\* A live row is new unless its content is at the ceiling.
LiveIsNew(k) == counts[k] < MaxOccurrences

\* Faulty variant: a backfilled row probes for a free ordinal, as a live row
\* does, and so is never recognised.
ClaimedFree(k, i) == counts[k]

\* The ordinal that a backfilled row claims is its position among the identical
\* rows of its response, whatever has been handed out already.
Claimed(k, i) == i

\* Faulty variant: the first ordinal not yet held is taken for held.
BackfillIsNewLate(k, n) == n < MaxOccurrences /\ n > counts[k]

\* A backfilled row is new unless the ordinal it claims is held.
BackfillIsNew(k, n) == n < MaxOccurrences /\ n >= counts[k]

\* Ordinal i of content k is handed out, by either path: the count becomes
\* i + 1, which for a live row is one more than before.
HandOut(k, i) ==
  /\ counts' = [counts EXCEPT ![k] = i + 1]
  /\ aged' = aged \ {k}

\* evict_older_than: the counts of aged contents are dropped.
EvictOlder ==
  /\ aged # {}
  /\ counts' = [k \in Contents |-> IF k \in aged THEN 0 ELSE counts[k]]
  /\ aged' = {}

\* restore into the empty index of a new process: one entry for every
\* content that has rows, touched within the window it was loaded for.
RestoreIndex(occurrences) ==
  /\ counts' = occurrences
  /\ aged' = {}
=============================================================================
