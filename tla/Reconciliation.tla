--------------------------- MODULE Reconciliation ---------------------------
(***************************************************************************)
(* The comparison of the own positions with those the venue reports.  Both *)
(* are functions from the tokens that have an entry, an own entry signed,  *)
(* one of the venue not.                                                   *)
(*                                                                         *)
(* The venue answers with rows of a token and a signed size, None for one  *)
(* that cannot be read; an answer that cannot be read at all is None.      *)
(***************************************************************************)
EXTENDS Optional, Amounts, SequencesExt

\* The rows that can be read, by their places.
ReadableRows(answer) ==
  {i \in DOMAIN Given(answer, <<>>) : answer[i].token # None /\ answer[i].size # None}

\* What is made of the answer: sizes lose their sign, the last row of a token
\* counts, and an answer that cannot be read lists nothing.
VenuePositions(answer) ==
  LET rows  == ReadableRows(answer)
      of(t) == {i \in rows : answer[i].token = t}
  IN  [t \in {answer[i].token : i \in rows} |-> AbsOf(answer[Max(of(t))].size)]

Disagree(x, y, tolerance) == AbsOf(x - y) > tolerance

\* Faulty variant: positions the venue has and this process has not are taken
\* for closed ones.
UnexpectedNever(own, venue, tolerance) == {}

Unexpected(own, venue, tolerance) ==
  {t \in DOMAIN venue \ DOMAIN own : AbsOf(venue[t]) > tolerance}

Mismatched(own, venue, tolerance) ==
  {t \in DOMAIN own \cap DOMAIN venue : Disagree(own[t], venue[t], tolerance)}

Missing(own, venue, tolerance) ==
  {t \in DOMAIN own \ DOMAIN venue : AbsOf(own[t]) > tolerance}

Mismatch(own, venue, t) ==
  [internal |-> own[t], venue |-> venue[t], difference |-> own[t] - venue[t]]

Reconcile(own, venue, tolerance) ==
  [mismatched |-> [t \in Mismatched(own, venue, tolerance) |-> Mismatch(own, venue, t)],
   unexpected |-> Unexpected(own, venue, tolerance),
   missing    |-> Missing(own, venue, tolerance)]

IsClean(report) ==
  /\ DOMAIN report.mismatched = {}
  /\ report.unexpected = {}
  /\ report.missing = {}

\* What is missing at the venue never halts, however much it is.
WarrantsHalt(report, tolerance) ==
  \/ report.unexpected # {}
  \/ \E t \in DOMAIN report.mismatched : AbsOf(report.mismatched[t].difference) > tolerance
=============================================================================
