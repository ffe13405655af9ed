-------------------------- MODULE GovernanceLedger --------------------------
(* Governance implements PromotionLedger: the mapping of its state. *)
EXTENDS Governance

Standing(c) == {d \in Decision : \E r \in RecordsOf(c) : r.decision = d /\ Latest(r)}

standing == [c \in Candidate |-> Standing(c)]
cleared  == {c \in Candidate : \E p \in Proc : proc[p].run = c /\ Promotes(p)}
ledger   == {c \in Candidate : \E i \in Governed : evolog[i].run = c}

Ledger == INSTANCE PromotionLedger

(* Several operators, crashing commands and unlocked files together still promote
   through governance only what a command was cleared for while an approval stood
   (governance.rs promote_approved_candidate). *)
LedgerSpec == Ledger!Spec
=============================================================================
