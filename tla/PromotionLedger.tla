--------------------------- MODULE PromotionLedger ---------------------------
(***************************************************************************)
(* What governed promotion promises, without files, queues or processes:   *)
(* a candidate enters the project only through a clearance, and a clearance*)
(* is given only while the operator's approval stands.                     *)
(***************************************************************************)
CONSTANTS Candidate, Decision

VARIABLES standing,  \* the decisions that stand for a candidate
          cleared,   \* candidates some command was cleared to promote
          ledger     \* candidates promoted through governance

Init ==
  /\ standing = [c \in Candidate |-> {}]
  /\ cleared = {}
  /\ ledger = {}

(* The operator decides; a promotion under way is not called back. *)
Decide(c) ==
  /\ \E s \in SUBSET Decision : standing' = [standing EXCEPT ![c] = s]
  /\ UNCHANGED ledger

Clear(c) ==
  /\ "approve" \in standing[c]
  /\ cleared' = cleared \cup {c}
  /\ UNCHANGED <<standing, ledger>>

Promote(c) ==
  /\ c \in cleared
  /\ ledger' = ledger \cup {c}
  /\ cleared' \in {cleared, cleared \ {c}}
  /\ UNCHANGED standing

(* The command fails validation or dies. *)
Lapse(c) ==
  /\ cleared' = cleared \ {c}
  /\ UNCHANGED <<standing, ledger>>

Next == \E c \in Candidate : (Decide(c) /\ UNCHANGED cleared) \/ Clear(c) \/ Promote(c) \/ Lapse(c)

Spec == Init /\ [][Next]_<<standing, cleared, ledger>>
=============================================================================
