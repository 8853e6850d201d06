------------------------------ MODULE CopyOnce ------------------------------
(***************************************************************************)
(* What the ingestion of source fills promises, in the abstract: every     *)
(* event identity is handed to the copy pipeline at most once, whatever    *)
(* delivered the fill and however often, until its content is forgotten.   *)
(***************************************************************************)
EXTENDS Integers

CONSTANTS Contents, Ordinals

VARIABLES
  copied,            (* How often each identity was copied.                *)
  forgotten          (* Contents that are no longer remembered.            *)

Init ==
  /\ copied = [k \in Contents |-> [n \in Ordinals |-> 0]]
  /\ forgotten = {}

Copy(k, n) ==
  /\ copied[k][n] = 0 \/ k \in forgotten
  /\ copied' = [copied EXCEPT ![k][n] = @ + 1]
  /\ UNCHANGED forgotten

Forget ==
  /\ forgotten' \in {F \in SUBSET Contents : forgotten \subseteq F}
  /\ UNCHANGED copied

Next == Forget \/ \E k \in Contents, n \in Ordinals : Copy(k, n)

Spec == Init /\ [][Next]_<<copied, forgotten>>
=============================================================================
