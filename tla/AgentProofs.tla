----------------------------- MODULE AgentProofs -----------------------------
(***************************************************************************)
(* Proofs about AgentTask for any operators, tasks, proposals, files and   *)
(* bounds.                                                                 *)
(***************************************************************************)
EXTENDS AgentTask, WellFoundedInduction, TLAPS

-----------------------------------------------------------------------------
(* Contents of files *)

(* An operation that is not refused leaves a well-formed content. *)
LEMMA AfterTyped ==
  ASSUME NEW op \in Op, NEW content \in Content, Refusal(op, content) = "none"
  PROVE  After(op, content) \in Content
  <1>0. op.text \in Text /\ op.kind \in Kind
    BY DEF Op
  <1>1. CASE op.kind = "AppendFile"
    <2>1. content \in Seq(Text)
      BY <1>1 DEF Refusal, Content
    <2>2. After(op, content) = Append(content, op.text)
      BY <1>1 DEF After
    <2>3. QED BY <1>0, <2>1, <2>2 DEF Content
  <1>2. CASE op.kind = "ReplaceExactText"
    <2>1. content \in Seq(Text)
      BY <1>2 DEF Refusal, Content
    <2>2. After(op, content)
            = [i \in DOMAIN content |-> IF content[i] = op.find THEN op.text ELSE content[i]]
      BY <1>2 DEF After
    <2>3. [i \in DOMAIN content |-> IF content[i] = op.find THEN op.text ELSE content[i]]
            \in Seq(Text)
      BY <1>0, <2>1
    <2>4. QED BY <2>2, <2>3 DEF Content
  <1>3. CASE op.kind \notin {"AppendFile", "ReplaceExactText"}
    <2>1. After(op, content) = <<op.text>>
      BY <1>3 DEF After
    <2>2. QED BY <1>0, <2>1 DEF Content
  <1>4. QED BY <1>1, <1>2, <1>3

(* The files an operation list names are project paths. *)
LEMMA PathsTyped ==
  ASSUME NEW x \in Proposal
  PROVE  PathsOf(OpsOf[x]) \subseteq Path
  <1>1. OpsOf[x] \in Seq(Op)
    BY AgentAssumption DEF AgentAssumption
  <1>2. \A i \in DOMAIN OpsOf[x] : OpsOf[x][i] \in Op
    BY <1>1
  <1>3. QED BY <1>2 DEF PathsOf, Op

-----------------------------------------------------------------------------
(* Type correctness *)

LEMMA IdleTyped == /\ NewTask \in TaskRecord
                   /\ NoDraft \in [task : {None}, status : {"AwaitingApproval"}, approved : BOOLEAN]
                   /\ Idle \in ProcState
  BY DEF NewTask, TaskRecord, TaskStatus, NoDraft, Idle, ProcState, Steps

LEMMA ChangedTyped ==
  ASSUME NEW k \in TaskRecord
  PROVE  ChangedFiles(k) \subseteq Path
  <1>1. CASE k.apply # None /\ k.apply \in applies
    <2>1. k.apply \in Proposal
      BY <1>1 DEF TaskRecord
    <2>2. QED BY <1>1, <2>1, PathsTyped DEF ChangedFiles
  <1>2. CASE ~ (k.apply # None /\ k.apply \in applies)
    BY <1>2 DEF ChangedFiles
  <1>3. QED BY <1>1, <1>2

LEMMA OutcomeFields ==
  ASSUME NEW success \in BOOLEAN, NEW applied \in BOOLEAN,
         NEW reason \in {"none", "blockers", "not_approved", "partial", "failed"},
         NEW changed \in SUBSET Path, NEW x \in Proposal \cup {None}
  PROVE  [success |-> success, applied |-> applied, reason |-> reason, changed |-> changed,
          proposal |-> x] \in OutcomeRecord
  BY DEF OutcomeRecord

LEMMA OutcomeTyped ==
  ASSUME NEW k \in TaskRecord, NEW saved
  PROVE  OutcomeOf(k, saved) \in OutcomeRecord
  <1> DEFINE applied == k.apply # None /\ k.apply \in applies
             success == applied /\ latest = "passed"
  <1>1. applied \in BOOLEAN /\ success \in BOOLEAN
    BY Zenon
  <1>2. FailureReason(k, saved) \in {"none", "blockers", "not_approved", "partial", "failed"}
    BY DEF FailureReason
  <1>3. ChangedFiles(k) \in SUBSET Path
    BY ChangedTyped
  <1>4. k.proposal \in Proposal \cup {None}
    BY DEF TaskRecord
  <1>5. OutcomeOf(k, saved) = [success |-> success, applied |-> applied,
          reason |-> FailureReason(k, saved), changed |-> ChangedFiles(k), proposal |-> k.proposal]
    BY Zenon DEF OutcomeOf
  <1> HIDE DEF applied, success
  <1>6. [success |-> success, applied |-> applied, reason |-> FailureReason(k, saved),
         changed |-> ChangedFiles(k), proposal |-> k.proposal] \in OutcomeRecord
    BY <1>1, <1>2, <1>3, <1>4, OutcomeFields
  <1>7. QED BY <1>5, <1>6, Zenon

LEMMA InitTyped == Init => TypeOK
  BY IdleTyped, AgentAssumption DEF Init, TypeOK, AgentAssumption

(* What a process inside a command holds. *)
LEMMA Holds ==
  ASSUME TypeOK, AgentInv, NEW p \in Proc
  PROVE  /\ proc[p] \in ProcState
         /\ CommandOK(proc[p], tasks, proposals, approvals, completed, ordered)
  BY DEF TypeOK, AgentInv

(* Each action leaves a well-typed state. *)
LEMMA BeginTyped ==
  ASSUME TypeOK, AgentInv, NEW p \in Proc, Begin(p)
  PROVE  TypeOK'
  <1> USE IdleTyped
  <1>1. ASSUME NEW t \in Task, CreateTask(p, t)
        PROVE  TypeOK'
    BY <1>1 DEF CreateTask, TypeOK, history
  <1>2. ASSUME NEW t \in Task, PlanBegin(p, t)
        PROVE  TypeOK'
    <2>1. [Idle EXCEPT !.step = "plan", !.task = t, !.copy = tasks[t]] \in ProcState
      BY <1>2 DEF PlanBegin, TypeOK, Idle, ProcState, Steps
    <2>2. QED BY <1>2, <2>1 DEF PlanBegin, Become, TypeOK, memory, history
  <1>3. ASSUME NEW t \in Task, ProposeBegin(p, t)
        PROVE  TypeOK'
    <2>1. [Idle EXCEPT !.step = IF tasks[t].planned THEN "propose" ELSE "inner plan",
                       !.task = t, !.copy = tasks[t]] \in ProcState
      BY <1>3 DEF ProposeBegin, TypeOK, Idle, ProcState, Steps
    <2>2. QED BY <1>3, <2>1 DEF ProposeBegin, Become, TypeOK, memory, history
  <1>4. ASSUME NEW t \in Task, Report(p, t)
        PROVE  TypeOK'
    <2>1. tasks[t] \in TaskRecord
      BY <1>4 DEF Report, TypeOK
    <2>2. [tasks[t] EXCEPT !.status = "Reported"] \in TaskRecord
      BY <2>1 DEF TaskRecord, TaskStatus
    <2>3. tasks' \in [Task -> TaskRecord \cup {None}] /\ tasks'[t] \in TaskRecord
      BY <1>4, <2>2 DEF Report, TypeOK
    <2>4. [planned |-> tasks[t].planned, proposal |-> tasks[t].proposal,
           changed |-> ChangedFiles(tasks[t])] \in ReportRecord
      BY <2>1, ChangedTyped DEF ReportRecord, TaskRecord
    <2>5. OutcomeOf(tasks'[t], proposals) \in OutcomeRecord
      BY <2>3, OutcomeTyped
    <2>6. QED BY <1>4, <2>3, <2>4, <2>5 DEF Report, TypeOK, history
  <1>5. ASSUME NEW t \in Task, PrSummary(p, t)
        PROVE  TypeOK'
    <2>1. tasks[t] \in TaskRecord
      BY <1>5 DEF PrSummary, TypeOK
    <2>2. [tasks[t] EXCEPT !.status = "Completed"] \in TaskRecord
      BY <2>1 DEF TaskRecord, TaskStatus
    <2>3. tasks' \in [Task -> TaskRecord \cup {None}] /\ tasks'[t] \in TaskRecord
      BY <1>5, <2>2 DEF PrSummary, TypeOK
    <2>4. OutcomeOf(tasks'[t], proposals) \in OutcomeRecord
      BY <2>3, OutcomeTyped
    <2>5. QED BY <1>5, <2>3, <2>4 DEF PrSummary, TypeOK, history
  <1>6. ASSUME NEW x \in Proposal, ApproveBegin(p, x)
        PROVE  TypeOK'
    <2>1. [Idle EXCEPT !.step = "approve", !.item = x, !.draft = proposals[x]] \in ProcState
      BY <1>6 DEF ApproveBegin, Approvable, TypeOK, Idle, ProcState, Steps
    <2>2. QED BY <1>6, <2>1 DEF ApproveBegin, Become, TypeOK, memory
  <1>7. ASSUME NEW x \in Proposal, ApplyBegin(p, x)
        PROVE  TypeOK'
    <2>1. [Idle EXCEPT !.step = "apply", !.item = x, !.draft = proposals[x], !.next = 1]
            \in ProcState
      BY <1>7 DEF ApplyBegin, Applicable, TypeOK, Idle, ProcState, Steps
    <2>2. QED BY <1>7, <2>1 DEF ApplyBegin, Become, TypeOK, memory
  <1>8. ASSUME Validate(p)
        PROVE  TypeOK'
    BY <1>8, AgentAssumption DEF Validate, TypeOK, history, AgentAssumption
  <1>9. ASSUME RefreshOutcomes(p)
        PROVE  TypeOK'
    <2>1. ASSUME NEW t \in Task, tasks[t] # None
          PROVE  OutcomeOf(tasks[t], proposals) \in OutcomeRecord
      BY <2>1, OutcomeTyped DEF TypeOK
    <2>2. outcomes' \in [Task -> OutcomeRecord \cup {None}]
      BY <1>9, <2>1 DEF RefreshOutcomes, TypeOK
    <2>3. QED BY <1>9, <2>2 DEF RefreshOutcomes, TypeOK, history
  <1>10. QED
    BY <1>1, <1>2, <1>3, <1>4, <1>5, <1>6, <1>7, <1>8, <1>9 DEF Begin

LEMMA ProceedTyped ==
  ASSUME TypeOK, AgentInv, NEW p \in Proc, Proceed(p)
  PROVE  TypeOK'
  <1> USE IdleTyped
  <1>0. /\ proc[p] \in ProcState
        /\ CommandOK(proc[p], tasks, proposals, approvals, completed, ordered)
    BY Holds
  <1> DEFINE copied == [proc[p].copy EXCEPT !.status = "Planned", !.planned = TRUE]
  <1>1. copied \in TaskRecord
    BY <1>0 DEF ProcState, TaskRecord, TaskStatus
  <1>2. ASSUME PlanEnd(p)
        PROVE  TypeOK'
    <2>1. proc[p].task \in Task
      BY <1>0, <1>2 DEF PlanEnd, At, CommandOK
    <2>2. tasks' \in [Task -> TaskRecord \cup {None}]
      BY <1>1, <1>2, <2>1 DEF PlanEnd, SavePlan, TypeOK
    <2>3. QED BY <1>2, <2>2 DEF PlanEnd, Finish, Become, TypeOK, history
  <1>3. ASSUME InnerPlan(p)
        PROVE  TypeOK'
    <2>1. proc[p].task \in Task
      BY <1>0, <1>3 DEF InnerPlan, At, CommandOK
    <2>2. tasks' \in [Task -> TaskRecord \cup {None}]
      BY <1>1, <1>3, <2>1 DEF InnerPlan, SavePlan, TypeOK
    <2>3. [proc[p] EXCEPT !.step = "propose"] \in ProcState
      BY <1>0 DEF ProcState, Steps
    <2>4. QED BY <1>3, <2>2, <2>3 DEF InnerPlan, TypeOK, history
  <1>4. ASSUME NEW x \in Proposal, ProposeSave(p, x)
        PROVE  TypeOK'
    <2>1. proc[p].task \in Task
      BY <1>0, <1>4 DEF ProposeSave, At, CommandOK
    <2>2. [task |-> proc[p].task, approved |-> FALSE,
           status |-> IF x \in Refusable THEN "Refused" ELSE "AwaitingApproval"]
            \in ProposalRecord
      BY <2>1 DEF ProposalRecord
    <2>3. [proc[p] EXCEPT !.step = "record proposal", !.item = x] \in ProcState
      BY <1>0 DEF ProcState, Steps
    <2>4. proc' = [proc EXCEPT ![p] = [proc[p] EXCEPT !.step = "record proposal", !.item = x]]
      BY <1>4 DEF ProposeSave, TypeOK
    <2>5. QED BY <1>4, <2>2, <2>3, <2>4 DEF ProposeSave, TypeOK, history
  <1>5. ASSUME ProposeRecord(p)
        PROVE  TypeOK'
    <2>1. proc[p].task \in Task /\ proc[p].item \in Proposal
      BY <1>0, <1>5 DEF ProposeRecord, At, CommandOK
    <2>2. [proc[p].copy EXCEPT
             !.status = IF proc[p].item \in Refusable THEN "Blocked" ELSE "Proposed",
             !.proposal = proc[p].item] \in TaskRecord
      BY <1>0, <2>1 DEF ProcState, TaskRecord, TaskStatus
    <2>3. tasks' \in [Task -> TaskRecord \cup {None}] /\ tasks'[proc[p].task] \in TaskRecord
      BY <1>5, <2>1, <2>2 DEF ProposeRecord, TypeOK
    <2>4. OutcomeOf(tasks'[proc[p].task], proposals) \in OutcomeRecord
      BY <2>3, OutcomeTyped
    <2>5. QED BY <1>5, <2>1, <2>3, <2>4 DEF ProposeRecord, Finish, Become, TypeOK, history
  <1>6. ASSUME ApproveSave(p)
        PROVE  TypeOK'
    <2>1. proc[p].item \in Proposal /\ proc[p].draft \in ProposalRecord
      BY <1>0, <1>6 DEF ApproveSave, At, CommandOK, TypeOK
    <2>2. [proc[p].draft EXCEPT !.status = "Approved", !.approved = TRUE] \in ProposalRecord
      BY <2>1 DEF ProposalRecord
    <2>3. [proc[p] EXCEPT !.step = "record approval"] \in ProcState
      BY <1>0 DEF ProcState, Steps
    <2>4. proposals' \in [Proposal -> ProposalRecord \cup {None}]
      <3> DEFINE saved == [proc[p].draft EXCEPT !.status = "Approved", !.approved = TRUE]
      <3>1. proposals' = [proposals EXCEPT ![proc[p].item] = saved]
        BY <1>6 DEF ApproveSave
      <3>2. saved \in ProposalRecord
        BY <2>2
      <3> HIDE DEF saved
      <3>3. QED BY <2>1, <3>1, <3>2 DEF TypeOK
    <2>5. given' \in [Proposal -> Nat]
      <3>1. given' = [given EXCEPT ![proc[p].item] = given[proc[p].item] + 1]
        BY <1>6, Zenon DEF ApproveSave
      <3>2. given \in [Proposal -> Nat]
        BY DEF TypeOK
      <3>3. given[proc[p].item] + 1 \in Nat
        BY <2>1, <3>2
      <3>4. QED BY <2>1, <3>1, <3>2, <3>3
    <2>6. proc' \in [Proc -> ProcState]
      BY <1>6, <2>3 DEF ApproveSave, TypeOK
    <2>7. QED BY <1>6, <2>4, <2>5, <2>6 DEF ApproveSave, TypeOK
  <1>7. ASSUME ApproveRecord(p)
        PROVE  TypeOK'
    <2>1. proc[p].item \in Proposal
      BY <1>0, <1>7 DEF ApproveRecord, At, CommandOK, TypeOK
    <2>2. [proc[p] EXCEPT !.step = "approve task"] \in ProcState
      BY <1>0 DEF ProcState, Steps
    <2>3. QED BY <1>7, <2>1, <2>2 DEF ApproveRecord, TypeOK, history
  <1>8. ASSUME ApproveTask(p)
         PROVE  TypeOK'
    <2>1. /\ proc[p].item \in Proposal /\ proc[p].draft.task \in Task
          /\ tasks[proc[p].draft.task] \in TaskRecord
      BY <1>0, <1>8 DEF ApproveTask, At, CommandOK, TypeOK, ProposalRecord
    <2>2. [tasks[proc[p].draft.task] EXCEPT !.status = "Approved", !.approval = proc[p].item]
            \in TaskRecord
      BY <2>1 DEF TaskRecord, TaskStatus
    <2>3. tasks' \in [Task -> TaskRecord \cup {None}]
      BY <1>8, <2>1, <2>2 DEF ApproveTask, TypeOK
    <2>4. QED BY <1>8, <2>1, <2>3 DEF ApproveTask, Finish, Become, TypeOK, history
  <1>9. ASSUME ApplyOp(p)
        PROVE  TypeOK'
    <2> DEFINE x == proc[p].item
               i == proc[p].next
               op == OpsOf[x][i]
    <2>1. x \in Proposal /\ i \in Nat /\ i > 0
      BY <1>0, <1>9 DEF ApplyOp, At, CommandOK, TypeOK, ProcState
    <2>2. OpsOf[x] \in Seq(Op) /\ i \in DOMAIN OpsOf[x]
      BY <1>9, <2>1, AgentAssumption DEF ApplyOp, AgentAssumption
    <2>3. op \in Op /\ op.path \in Path
      <3>1. op \in Op
        BY <2>2
      <3>2. QED BY <3>1 DEF Op
    <2>4. files \in [Path -> Content] /\ files[op.path] \in Content
      BY <2>3 DEF TypeOK
    <2>5. CASE Refusal(op, files[op.path]) = "none"
      <3>1. After(op, files[op.path]) \in Content
        BY <2>3, <2>4, <2>5, AfterTyped
      <3>2. Perform(files, op) \in [Path -> Content]
        BY <2>3, <2>4, <3>1 DEF Perform
      <3>3. [proc[p] EXCEPT !.next = i + 1] \in ProcState
        BY <1>0, <2>1 DEF ProcState
      <3>4. /\ files' = Perform(files, op)
            /\ touched' = [touched EXCEPT ![x] = @ \cup {op.path}]
            /\ proc' = [proc EXCEPT ![p] = [proc[p] EXCEPT !.next = i + 1]]
        BY <1>9, <2>5 DEF ApplyOp, TypeOK
      <3>5. touched' \in [Proposal -> SUBSET Path]
        BY <2>1, <2>3, <3>4 DEF TypeOK
      <3>6. QED
        BY <1>9, <3>2, <3>3, <3>4, <3>5 DEF ApplyOp, TypeOK, memory
    <2>6. CASE Refusal(op, files[op.path]) # "none"
      BY <1>9, <2>6 DEF ApplyOp, Finish, Become, TypeOK, memory
    <2>7. QED BY <2>5, <2>6
  <1>10. ASSUME ApplySave(p)
        PROVE  TypeOK'
    <2>1. proc[p].item \in Proposal /\ proc[p].draft \in ProposalRecord
      BY <1>0, <1>10 DEF ApplySave, At, CommandOK, TypeOK
    <2>2. [proc[p].draft EXCEPT !.status = "Applied"] \in ProposalRecord
      BY <2>1 DEF ProposalRecord
    <2>3. [proc[p] EXCEPT !.step = "record apply"] \in ProcState
      BY <1>0 DEF ProcState, Steps
    <2>4. proposals' \in [Proposal -> ProposalRecord \cup {None}]
      <3> DEFINE saved == [proc[p].draft EXCEPT !.status = "Applied"]
      <3>1. proposals' = [proposals EXCEPT ![proc[p].item] = saved]
        BY <1>10 DEF ApplySave
      <3>2. saved \in ProposalRecord
        BY <2>2
      <3> HIDE DEF saved
      <3>3. QED BY <2>1, <3>1, <3>2 DEF TypeOK
    <2>5. completed' \in [Proposal -> Nat]
      <3>1. completed' = [completed EXCEPT ![proc[p].item] = completed[proc[p].item] + 1]
        BY <1>10, Zenon DEF ApplySave
      <3>2. completed \in [Proposal -> Nat]
        BY DEF TypeOK
      <3>3. completed[proc[p].item] + 1 \in Nat
        BY <2>1, <3>2
      <3>4. QED BY <2>1, <3>1, <3>2, <3>3
    <2>6. proc' \in [Proc -> ProcState]
      BY <1>10, <2>3 DEF ApplySave, TypeOK
    <2>7. QED BY <1>10, <2>4, <2>5, <2>6 DEF ApplySave, TypeOK
  <1>11. ASSUME ApplyRecord(p)
         PROVE  TypeOK'
    <2>1. /\ proc[p].item \in Proposal /\ proc[p].draft.task \in Task
          /\ tasks[proc[p].draft.task] \in TaskRecord
      BY <1>0, <1>11 DEF ApplyRecord, At, CommandOK, TypeOK, ProposalRecord
    <2>2. [tasks[proc[p].draft.task] EXCEPT !.status = "Applied", !.apply = proc[p].item]
            \in TaskRecord
      BY <2>1 DEF TaskRecord, TaskStatus
    <2>3. tasks' \in [Task -> TaskRecord \cup {None}]
      BY <1>11, <2>1, <2>2 DEF ApplyRecord, TypeOK
    <2>4. [proc[p] EXCEPT !.step = "save result"] \in ProcState
      BY <1>0 DEF ProcState, Steps
    <2>5. QED BY <1>11, <2>3, <2>4 DEF ApplyRecord, TypeOK, history
  <1>12. ASSUME SaveResult(p)
         PROVE  TypeOK'
    <2>1. proc[p].item \in Proposal
      BY <1>0, <1>12 DEF SaveResult, At, CommandOK, TypeOK
    <2>2. QED BY <1>12, <2>1 DEF SaveResult, Finish, Become, TypeOK, history
  <1>13. QED
    BY <1>2, <1>3, <1>4, <1>5, <1>6, <1>7, <1>8, <1>9, <1>10, <1>11, <1>12 DEF Proceed

LEMMA StepTyped == TypeOK /\ AgentInv /\ [Next]_vars => TypeOK'
  <1> SUFFICES ASSUME TypeOK, AgentInv, [Next]_vars PROVE TypeOK'
    OBVIOUS
  <1>1. ASSUME NEW p \in Proc, Crash(p)
        PROVE  TypeOK'
    BY <1>1, IdleTyped DEF Crash, Finish, Become, TypeOK, memory, history
  <1>2. CASE UNCHANGED vars
    BY <1>2 DEF vars, memory, history, TypeOK
  <1>3. QED BY <1>1, <1>2, BeginTyped, ProceedTyped DEF Next

-----------------------------------------------------------------------------
(* The inductive invariant *)

(* Records and history are never taken back. *)
Grows ==
  /\ \A t \in Task : tasks[t] # None => tasks'[t] # None
  /\ \A x \in Proposal : proposals[x] # None => proposals'[x] # None
  /\ approvals \subseteq approvals'
  /\ \A x \in Proposal : completed'[x] >= completed[x]
  /\ ordered \subseteq ordered'

LEMMA LinksKept ==
  ASSUME TypeOK, TypeOK', Grows, NEW k \in TaskRecord,
         Resolves(k, proposals, approvals, completed)
  PROVE  Resolves(k, proposals', approvals', completed')
  <1>1. /\ k.proposal \in Proposal \cup {None}
        /\ k.approval \in Proposal \cup {None}
        /\ k.apply \in Proposal \cup {None}
    BY DEF TaskRecord
  <1>2. \A x \in Proposal : completed[x] \in Nat /\ completed'[x] \in Nat
    BY DEF TypeOK
  <1>3. QED BY <1>1, <1>2 DEF Resolves, Grows

LEMMA CommandKept ==
  ASSUME TypeOK, TypeOK', Grows, NEW s \in ProcState,
         CommandOK(s, tasks, proposals, approvals, completed, ordered)
  PROVE  CommandOK(s, tasks', proposals', approvals', completed', ordered')
  <1>1. s.copy \in TaskRecord
    BY DEF ProcState
  <1>2. Resolves(s.copy, proposals, approvals, completed)
          => Resolves(s.copy, proposals', approvals', completed')
    BY <1>1, LinksKept
  <1>3. \A x \in Proposal : completed[x] \in Nat /\ completed'[x] \in Nat
    BY DEF TypeOK
  <1>4. ordered \subseteq Proposal
    BY DEF TypeOK
  <1>5. s.draft \in ProposalRecord => s.draft.task \in Task
    BY DEF ProposalRecord
  <1>6. CASE s.step \in {"plan", "inner plan", "propose", "record proposal"}
    BY <1>2, <1>6 DEF CommandOK, Grows
  <1>7. CASE s.step \in {"approve", "record approval", "approve task", "apply", "record apply",
                        "save result"}
    <2>1. s.item \in Proposal /\ s.draft.task \in Task
      BY <1>4, <1>5, <1>7 DEF CommandOK
    <2>2. s.item \in ordered' /\ proposals'[s.item] # None /\ tasks'[s.draft.task] # None
      BY <1>7, <2>1 DEF CommandOK, Grows
    <2>3. ASSUME s.step \in {"record apply", "save result"}
          PROVE  completed'[s.item] > 0
      <3>1. completed[s.item] > 0
        BY <2>3 DEF CommandOK
      <3>2. completed'[s.item] >= completed[s.item]
        BY <2>1 DEF Grows
      <3>3. QED BY <1>3, <2>1, <3>1, <3>2
    <2>4. s.step = "approve task" => s.item \in approvals'
      BY DEF CommandOK, Grows
    <2>5. QED BY <1>7, <2>2, <2>3, <2>4 DEF CommandOK
  <1>8. CASE s.step = "idle"
    BY <1>8 DEF CommandOK
  <1>9. QED BY <1>6, <1>7, <1>8 DEF ProcState, Steps

(* A step preserves the invariant when what it changes satisfies it afterwards. *)
LEMMA Preserved ==
  ASSUME TypeOK, TypeOK', AgentInv, Grows, NEW p \in Proc,
         \A q \in Proc \ {p} : proc'[q] = proc[q],
         CommandOK(proc'[p], tasks', proposals', approvals', completed', ordered'),
         \A t \in Task : tasks'[t] # tasks[t] => Resolves(tasks'[t], proposals', approvals', completed'),
         \A x \in Proposal : proposals'[x] # proposals[x]
                               => ProposalOK(x, tasks', proposals', ordered'),
         \A x \in Proposal : touched'[x] # touched[x] => x \in ordered' /\ x \notin Refusable
  PROVE  AgentInv'
  <1>1. WrittenUnderApproval'
    BY DEF AgentInv, WrittenUnderApproval, Grows
  <1>2. LinksSaved'
    <2>1. ASSUME NEW t \in Task, tasks'[t] # None, tasks'[t] = tasks[t]
          PROVE  Resolves(tasks'[t], proposals', approvals', completed')
      <3>1. tasks[t] \in TaskRecord
        BY <2>1 DEF TypeOK
      <3>2. Resolves(tasks[t], proposals, approvals, completed)
        BY <2>1 DEF AgentInv, LinksSaved
      <3>3. QED BY <2>1, <3>1, <3>2, LinksKept
    <2>2. QED BY <2>1 DEF LinksSaved
  <1>3. ASSUME NEW x \in Proposal
        PROVE  ProposalOK(x, tasks', proposals', ordered')
    <2>1. CASE proposals'[x] = proposals[x]
      <3>1. ProposalOK(x, tasks, proposals, ordered)
        BY DEF AgentInv
      <3>2. proposals[x] # None => proposals[x].task \in Task
        BY DEF TypeOK, ProposalRecord
      <3>3. QED BY <2>1, <3>1, <3>2 DEF ProposalOK, Grows
    <2>2. QED BY <2>1
  <1>4. ASSUME NEW q \in Proc
        PROVE  CommandOK(proc'[q], tasks', proposals', approvals', completed', ordered')
    <2>1. CASE q # p
      <3>1. proc[q] \in ProcState
        BY DEF TypeOK
      <3>2. CommandOK(proc[q], tasks, proposals, approvals, completed, ordered)
        BY DEF AgentInv
      <3>3. CommandOK(proc[q], tasks', proposals', approvals', completed', ordered')
        BY <3>1, <3>2, CommandKept
      <3>4. QED BY <2>1, <3>3
    <2>2. QED BY <2>1
  <1>5. QED BY <1>1, <1>2, <1>3, <1>4 DEF AgentInv

LEMMA InitInv == Init => AgentInv
  <1> SUFFICES ASSUME Init PROVE AgentInv
    OBVIOUS
  <1>1. \A p \in Proc : proc[p].step = "idle"
    BY DEF Init, Idle
  <1>2. \A p \in Proc : CommandOK(proc[p], tasks, proposals, approvals, completed, ordered)
    BY <1>1 DEF CommandOK
  <1>3. WrittenUnderApproval /\ LinksSaved
    BY DEF Init, WrittenUnderApproval, LinksSaved
  <1>4. \A x \in Proposal : ProposalOK(x, tasks, proposals, ordered)
    BY DEF Init, ProposalOK
  <1>5. QED BY <1>2, <1>3, <1>4 DEF AgentInv

(* The common case: only the command itself, and perhaps the orders, move. *)
LEMMA Quiet ==
  ASSUME TypeOK, TypeOK', AgentInv, NEW p \in Proc, NEW s,
         proc' = [proc EXCEPT ![p] = s],
         tasks' = tasks, proposals' = proposals, approvals' = approvals,
         completed' = completed, touched' = touched, ordered \subseteq ordered',
         CommandOK(s, tasks, proposals, approvals, completed, ordered')
  PROVE  AgentInv'
  <1>1. Grows
    BY DEF Grows, TypeOK
  <1>2. proc'[p] = s /\ \A q \in Proc \ {p} : proc'[q] = proc[q]
    BY DEF TypeOK
  <1>3. QED BY <1>1, <1>2, Preserved

LEMMA Rests ==
  ASSUME NEW known, NEW saved, NEW approved, NEW done, NEW asked
  PROVE  CommandOK(Idle, known, saved, approved, done, asked)
  BY DEF CommandOK, Idle

(* A task whose status alone changes still names saved records. *)
LEMMA StatusKeepsLinks ==
  ASSUME TypeOK, AgentInv, NEW t \in Task, tasks[t] # None, NEW status
  PROVE  Resolves([tasks[t] EXCEPT !.status = status], proposals, approvals, completed)
  <1>1. tasks[t] \in TaskRecord /\ Resolves(tasks[t], proposals, approvals, completed)
    BY DEF TypeOK, AgentInv, LinksSaved
  <1>2. QED BY <1>1 DEF Resolves, TaskRecord

LEMMA BeginInv ==
  ASSUME TypeOK, TypeOK', AgentInv, NEW p \in Proc, Begin(p)
  PROVE  AgentInv'
  <1>0. /\ \A t \in Task : tasks[t] # None
                             => Resolves(tasks[t], proposals, approvals, completed)
        /\ \A x \in Proposal : ProposalOK(x, tasks, proposals, ordered)
        /\ CommandOK(proc[p], tasks, proposals, approvals, completed, ordered)
        /\ proc[p] \in ProcState
        /\ proposals \in [Proposal -> ProposalRecord \cup {None}]
        /\ tasks \in [Task -> TaskRecord \cup {None}]
        /\ completed \in [Proposal -> Nat]
    BY DEF AgentInv, LinksSaved, TypeOK
  <1>1. ASSUME NEW t \in Task, CreateTask(p, t)
        PROVE  AgentInv'
    <2>1. /\ tasks' = [tasks EXCEPT ![t] = NewTask]
          /\ UNCHANGED <<proposals, approvals, completed, ordered, touched, proc>>
      BY <1>1 DEF CreateTask, history
    <2>2. NewTask # None
      BY IdleTyped, NoneAssumption DEF NoneAssumption
    <2>3. Grows
      BY <1>0, <2>1, <2>2 DEF Grows
    <2>4. Resolves(NewTask, proposals', approvals', completed')
      BY DEF NewTask, Resolves
    <2>5. \A u \in Task : tasks'[u] # tasks[u] => tasks'[u] = NewTask
      BY <1>0, <2>1
    <2>6. CommandOK(proc'[p], tasks', proposals', approvals', completed', ordered')
      BY <1>0, <2>1, <2>3, CommandKept
    <2>7. QED BY <2>1, <2>3, <2>4, <2>5, <2>6, Preserved
  <1>2. ASSUME NEW t \in Task, PlanBegin(p, t)
        PROVE  AgentInv'
    <2> DEFINE s == [Idle EXCEPT !.step = "plan", !.task = t, !.copy = tasks[t]]
    <2>1. CommandOK(s, tasks, proposals, approvals, completed, ordered)
      BY <1>0, <1>2 DEF PlanBegin, CommandOK, Idle
    <2>2. QED BY <1>2, <2>1, Quiet DEF PlanBegin, Become, memory, history
  <1>3. ASSUME NEW t \in Task, ProposeBegin(p, t)
        PROVE  AgentInv'
    <2> DEFINE s == [Idle EXCEPT !.step = IF tasks[t].planned THEN "propose" ELSE "inner plan",
                                 !.task = t, !.copy = tasks[t]]
    <2>1. CommandOK(s, tasks, proposals, approvals, completed, ordered)
      BY <1>0, <1>3 DEF ProposeBegin, CommandOK, Idle
    <2>2. QED BY <1>3, <2>1, Quiet DEF ProposeBegin, Become, memory, history
  <1>4. ASSUME NEW t \in Task, Report(p, t) \/ PrSummary(p, t)
        PROVE  AgentInv'
    <2>1. /\ UNCHANGED <<proposals, approvals, completed, ordered, touched, proc>>
          /\ tasks[t] # None
      BY <1>4 DEF Report, PrSummary, history
    <2>2. PICK status \in {"Reported", "Completed"} :
            tasks' = [tasks EXCEPT ![t] = [tasks[t] EXCEPT !.status = status]]
      BY <1>4 DEF Report, PrSummary
    <2>3. tasks'[t] # None
      <3>1. [tasks[t] EXCEPT !.status = status] \in TaskRecord
        BY <1>0, <2>1 DEF TaskRecord, TaskStatus
      <3>2. QED BY <1>0, <2>2, <3>1, NoneAssumption DEF NoneAssumption
    <2>4. Grows
      BY <1>0, <2>1, <2>2, <2>3 DEF Grows
    <2>5. Resolves([tasks[t] EXCEPT !.status = status], proposals, approvals, completed)
      BY <2>1, StatusKeepsLinks
    <2>6. \A u \in Task : tasks'[u] # tasks[u] => tasks'[u] = [tasks[t] EXCEPT !.status = status]
      BY <1>0, <2>2
    <2>7. CommandOK(proc'[p], tasks', proposals', approvals', completed', ordered')
      BY <1>0, <2>1, <2>4, CommandKept
    <2>8. QED BY <2>1, <2>4, <2>5, <2>6, <2>7, Preserved
  <1>5. ASSUME NEW x \in Proposal, ApproveBegin(p, x)
        PROVE  AgentInv'
    <2> DEFINE s == [Idle EXCEPT !.step = "approve", !.item = x, !.draft = proposals[x]]
    <2>1. proposals[x] \in ProposalRecord /\ x \notin Refusable /\ x \in ordered'
      BY <1>0, <1>5 DEF ApproveBegin, Approvable
    <2>2. CommandOK(s, tasks, proposals, approvals, completed, ordered')
      BY <1>0, <2>1, NoneAssumption DEF CommandOK, Idle, ProposalOK, NoneAssumption
    <2>3. QED BY <1>5, <2>2, Quiet DEF ApproveBegin, Become, memory
  <1>6. ASSUME NEW x \in Proposal, ApplyBegin(p, x)
        PROVE  AgentInv'
    <2> DEFINE s == [Idle EXCEPT !.step = "apply", !.item = x, !.draft = proposals[x],
                                 !.next = 1]
    <2>1. proposals[x] \in ProposalRecord /\ x \notin Refusable /\ x \in ordered
      BY <1>0, <1>6 DEF ApplyBegin, Applicable, ProposalOK
    <2>2. CommandOK(s, tasks, proposals, approvals, completed, ordered)
      <3>1. s.step = "apply" /\ s.item = x /\ s.draft = proposals[x] /\ s.next = 1
        BY DEF Idle
      <3>2. proposals[x] # None /\ tasks[proposals[x].task] # None
        BY <1>0, <2>1, NoneAssumption DEF ProposalOK, NoneAssumption
      <3> HIDE DEF s
      <3>3. QED BY <2>1, <3>1, <3>2 DEF CommandOK
    <2>3. QED BY <1>6, <2>2, Quiet DEF ApplyBegin, Become, memory
  <1>7. ASSUME Validate(p) \/ RefreshOutcomes(p)
        PROVE  AgentInv'
    <2>1. UNCHANGED <<tasks, proposals, approvals, completed, ordered, touched, proc>>
      BY <1>7 DEF Validate, RefreshOutcomes, history
    <2>2. proc' = [proc EXCEPT ![p] = proc[p]]
      BY <2>1 DEF TypeOK
    <2>3. QED BY <1>0, <2>1, <2>2, Quiet
  <1>8. QED
    BY <1>1, <1>2, <1>3, <1>4, <1>5, <1>6, <1>7 DEF Begin

LEMMA ProceedInv ==
  ASSUME TypeOK, TypeOK', AgentInv, NEW p \in Proc, Proceed(p)
  PROVE  AgentInv'
  <1> DEFINE t == proc[p].task
             x == proc[p].item
             d == proc[p].draft
  <1>0. /\ \A u \in Task : tasks[u] # None
                             => Resolves(tasks[u], proposals, approvals, completed)
        /\ \A y \in Proposal : ProposalOK(y, tasks, proposals, ordered)
        /\ CommandOK(proc[p], tasks, proposals, approvals, completed, ordered)
        /\ proc[p] \in ProcState
        /\ proc \in [Proc -> ProcState]
        /\ proposals \in [Proposal -> ProposalRecord \cup {None}]
        /\ tasks \in [Task -> TaskRecord \cup {None}]
        /\ completed \in [Proposal -> Nat]
        /\ ordered \subseteq Proposal
    BY DEF AgentInv, LinksSaved, TypeOK
  <1>1. None \notin TaskRecord /\ None \notin ProposalRecord
    BY NoneAssumption DEF NoneAssumption
  <1>2. ASSUME PlanEnd(p) \/ InnerPlan(p)
        PROVE  AgentInv'
    <2> DEFINE k == [proc[p].copy EXCEPT !.status = "Planned", !.planned = TRUE]
    <2>1. /\ UNCHANGED <<proposals, approvals, completed, ordered, touched>>
          /\ tasks' = [tasks EXCEPT ![t] = k]
      BY <1>2 DEF PlanEnd, InnerPlan, SavePlan, history
    <2>2. t \in Task /\ Resolves(proc[p].copy, proposals, approvals, completed)
      BY <1>0, <1>2 DEF PlanEnd, InnerPlan, At, CommandOK
    <2>3. k \in TaskRecord /\ Resolves(k, proposals, approvals, completed)
      BY <1>0, <2>2 DEF ProcState, TaskRecord, TaskStatus, Resolves
    <2> HIDE DEF k
    <2>4. Grows
      BY <1>0, <1>1, <2>1, <2>2, <2>3 DEF Grows
    <2>5. \A u \in Task : tasks'[u] # tasks[u] => tasks'[u] = k
      BY <1>0, <2>1, <2>2
    <2>6. CommandOK(proc'[p], tasks', proposals', approvals', completed', ordered')
      <3>1. CASE PlanEnd(p)
        <4>1. proc'[p] = Idle
          BY <1>0, <3>1 DEF PlanEnd, Finish, Become
        <4>2. QED BY <4>1, Rests
      <3>2. CASE InnerPlan(p)
        <4>1. proc'[p] = [proc[p] EXCEPT !.step = "propose"]
          BY <1>0, <3>2 DEF InnerPlan
        <4>2. CommandOK(proc'[p], tasks, proposals, approvals, completed, ordered)
          BY <1>0, <3>2, <4>1 DEF InnerPlan, At, CommandOK, ProcState
        <4>3. proc'[p] \in ProcState
          BY DEF TypeOK
        <4>4. QED BY <2>4, <4>2, <4>3, CommandKept
      <3>3. QED BY <1>2, <3>1, <3>2
    <2>7. \A q \in Proc \ {p} : proc'[q] = proc[q]
      BY <1>0, <1>2 DEF PlanEnd, InnerPlan, Finish, Become
    <2>8. QED BY <2>1, <2>3, <2>4, <2>5, <2>6, <2>7, Preserved
  <1>3. ASSUME NEW y \in Proposal, ProposeSave(p, y)
        PROVE  AgentInv'
    <2> DEFINE r == [task |-> t, approved |-> FALSE,
                     status |-> IF y \in Refusable THEN "Refused" ELSE "AwaitingApproval"]
               s == [proc[p] EXCEPT !.step = "record proposal", !.item = y]
    <2>1. /\ UNCHANGED <<tasks, approvals, completed, ordered, touched>>
          /\ proposals' = [proposals EXCEPT ![y] = r]
          /\ proc' = [proc EXCEPT ![p] = s]
      BY <1>0, <1>3 DEF ProposeSave, history
    <2>2. t \in Task /\ tasks[t] # None
          /\ Resolves(proc[p].copy, proposals, approvals, completed)
      BY <1>0, <1>3 DEF ProposeSave, At, CommandOK
    <2>3. r \in ProposalRecord /\ r.task = t /\ r.approved = FALSE
      BY <2>2 DEF ProposalRecord
    <2>4. s.step = "record proposal" /\ s.item = y /\ s.task = t /\ s.copy = proc[p].copy
      BY <1>0 DEF ProcState
    <2> HIDE DEF r, s
    <2>5. Grows /\ proposals'[y] # None
      BY <1>0, <1>1, <2>1, <2>3 DEF Grows
    <2>6. ProposalOK(y, tasks', proposals', ordered')
      BY <1>0, <2>1, <2>2, <2>3 DEF ProposalOK
    <2>7. Resolves(s.copy, proposals', approvals', completed')
      <3>1. proc[p].copy \in TaskRecord
        BY <1>0 DEF ProcState
      <3>2. QED BY <2>2, <2>4, <2>5, <3>1, LinksKept
    <2>8. CommandOK(s, tasks', proposals', approvals', completed', ordered')
      BY <2>1, <2>2, <2>4, <2>5, <2>7 DEF CommandOK
    <2>9. \A z \in Proposal : proposals'[z] # proposals[z] => z = y
      BY <1>0, <2>1
    <2>10. proc'[p] = s /\ \A q \in Proc \ {p} : proc'[q] = proc[q]
      BY <1>0, <2>1
    <2>11. QED BY <2>1, <2>5, <2>6, <2>8, <2>9, <2>10, Preserved
  <1>4. ASSUME ProposeRecord(p)
        PROVE  AgentInv'
    <2> DEFINE k == [proc[p].copy EXCEPT
                       !.status = IF x \in Refusable THEN "Blocked" ELSE "Proposed",
                       !.proposal = x]
    <2>1. /\ UNCHANGED <<proposals, approvals, completed, ordered, touched>>
          /\ tasks' = [tasks EXCEPT ![t] = k]
          /\ proc' = [proc EXCEPT ![p] = Idle]
      BY <1>4 DEF ProposeRecord, Finish, Become, history
    <2>2. /\ t \in Task /\ x \in Proposal /\ proposals[x] # None
          /\ Resolves(proc[p].copy, proposals, approvals, completed)
      BY <1>0, <1>4 DEF ProposeRecord, At, CommandOK
    <2>3. k \in TaskRecord /\ Resolves(k, proposals, approvals, completed)
      BY <1>0, <2>2 DEF ProcState, TaskRecord, TaskStatus, Resolves
    <2> HIDE DEF k
    <2>4. Grows
      BY <1>0, <1>1, <2>1, <2>2, <2>3 DEF Grows
    <2>5. \A u \in Task : tasks'[u] # tasks[u] => tasks'[u] = k
      BY <1>0, <2>1, <2>2
    <2>6. CommandOK(proc'[p], tasks', proposals', approvals', completed', ordered')
      BY <1>0, <2>1, Rests
    <2>7. \A q \in Proc \ {p} : proc'[q] = proc[q]
      BY <1>0, <2>1
    <2>8. QED BY <2>1, <2>3, <2>4, <2>5, <2>6, <2>7, Preserved
  <1>5. ASSUME NEW r, NEW s,
               x \in ordered, x \notin Refusable, r \in ProposalRecord, r.task = d.task,
               proposals[x] # None, tasks[d.task] # None, d \in ProposalRecord,
               proposals' = [proposals EXCEPT ![x] = r],
               UNCHANGED <<tasks, approvals, ordered, touched>>,
               \A y \in Proposal : completed'[y] >= completed[y],
               proc' = [proc EXCEPT ![p] = s], s.item = x, s.draft = d,
               \/ s.step = "record approval"
               \/ s.step = "record apply" /\ completed'[x] > 0
        PROVE  AgentInv'
    <2>1. Grows /\ proposals'[x] # None
      BY <1>0, <1>1, <1>5 DEF Grows
    <2>2. ProposalOK(x, tasks', proposals', ordered')
      BY <1>0, <1>5 DEF ProposalOK
    <2>3. CommandOK(s, tasks', proposals', approvals', completed', ordered')
      BY <1>5, <2>1 DEF CommandOK
    <2>4. \A y \in Proposal : proposals'[y] # proposals[y] => y = x
      BY <1>0, <1>5
    <2>5. proc'[p] = s /\ \A q \in Proc \ {p} : proc'[q] = proc[q]
      BY <1>0, <1>5
    <2>6. QED BY <1>5, <2>1, <2>2, <2>3, <2>4, <2>5, Preserved
  <1>6. ASSUME ApproveSave(p)
        PROVE  AgentInv'
    <2> DEFINE r == [d EXCEPT !.status = "Approved", !.approved = TRUE]
               s == [proc[p] EXCEPT !.step = "record approval"]
    <2>1. /\ x \in ordered /\ x \notin Refusable /\ proposals[x] # None
          /\ d \in ProposalRecord /\ tasks[d.task] # None
      BY <1>0, <1>6 DEF ApproveSave, At, CommandOK
    <2>2. r \in ProposalRecord /\ r.task = d.task
      BY <2>1 DEF ProposalRecord
    <2>3. s.item = x /\ s.draft = d /\ s.step = "record approval"
      BY <1>0 DEF ProcState
    <2>4. /\ proposals' = [proposals EXCEPT ![x] = r]
          /\ UNCHANGED <<tasks, approvals, ordered, touched, completed>>
          /\ proc' = [proc EXCEPT ![p] = s]
      BY <1>0, <1>6 DEF ApproveSave
    <2> HIDE DEF r, s
    <2>5. \A y \in Proposal : completed'[y] >= completed[y]
      BY <1>0, <2>4
    <2>6. QED BY <1>5, <2>1, <2>2, <2>3, <2>4, <2>5
  <1>7. ASSUME ApplySave(p)
        PROVE  AgentInv'
    <2> DEFINE r == [d EXCEPT !.status = "Applied"]
               s == [proc[p] EXCEPT !.step = "record apply"]
    <2>1. /\ x \in ordered /\ x \notin Refusable /\ proposals[x] # None
          /\ d \in ProposalRecord /\ tasks[d.task] # None
      BY <1>0, <1>7 DEF ApplySave, At, CommandOK
    <2>2. r \in ProposalRecord /\ r.task = d.task
      BY <2>1 DEF ProposalRecord
    <2>3. s.item = x /\ s.draft = d /\ s.step = "record apply"
      BY <1>0 DEF ProcState
    <2>4. /\ proposals' = [proposals EXCEPT ![x] = r]
          /\ UNCHANGED <<tasks, approvals, ordered, touched>>
          /\ completed' = [completed EXCEPT ![x] = completed[x] + 1]
          /\ proc' = [proc EXCEPT ![p] = s]
      BY <1>0, <1>7 DEF ApplySave
    <2> HIDE DEF r, s
    <2>5. (\A y \in Proposal : completed'[y] >= completed[y]) /\ completed'[x] > 0
      BY <1>0, <2>1, <2>4
    <2>6. QED BY <1>5, <2>1, <2>2, <2>3, <2>4, <2>5
  <1>8. ASSUME NEW k, NEW s,
               d.task \in Task, tasks' = [tasks EXCEPT ![d.task] = k], k \in TaskRecord,
               approvals \subseteq approvals', Resolves(k, proposals, approvals', completed),
               UNCHANGED <<proposals, completed, ordered, touched>>,
               proc' = [proc EXCEPT ![p] = s],
               CommandOK(s, tasks, proposals, approvals, completed, ordered)
        PROVE  AgentInv'
    <2>1. Grows
      BY <1>0, <1>1, <1>8 DEF Grows
    <2>2. \A u \in Task : tasks'[u] # tasks[u] => tasks'[u] = k
      BY <1>0, <1>8
    <2>3. proc'[p] = s /\ s \in ProcState /\ \A q \in Proc \ {p} : proc'[q] = proc[q]
      BY <1>0, <1>8 DEF TypeOK
    <2>4. CommandOK(s, tasks', proposals', approvals', completed', ordered')
      BY <1>8, <2>1, <2>3, CommandKept
    <2>5. QED BY <1>8, <2>1, <2>2, <2>3, <2>4, Preserved
  <1>9. ASSUME ApproveRecord(p)
        PROVE  AgentInv'
    <2> DEFINE s == [proc[p] EXCEPT !.step = "approve task"]
    <2>1. /\ x \in ordered /\ x \notin Refusable /\ proposals[x] # None
          /\ d \in ProposalRecord /\ tasks[d.task] # None
      BY <1>0, <1>9 DEF ApproveRecord, At, CommandOK
    <2>2. s.item = x /\ s.draft = d /\ s.step = "approve task"
      BY <1>0 DEF ProcState
    <2>3. /\ approvals' = approvals \cup {x}
          /\ UNCHANGED <<tasks, proposals, completed, ordered, touched>>
          /\ proc' = [proc EXCEPT ![p] = s]
      BY <1>0, <1>9 DEF ApproveRecord, history
    <2> HIDE DEF s
    <2>4. Grows
      BY <1>0, <2>3 DEF Grows
    <2>5. CommandOK(s, tasks', proposals', approvals', completed', ordered')
      BY <2>1, <2>2, <2>3 DEF CommandOK
    <2>6. proc'[p] = s /\ \A q \in Proc \ {p} : proc'[q] = proc[q]
      BY <1>0, <2>3
    <2>7. QED BY <2>3, <2>4, <2>5, <2>6, Preserved
  <1>10. ASSUME ApproveTask(p)
         PROVE  AgentInv'
    <2> DEFINE k == [tasks[d.task] EXCEPT !.status = "Approved", !.approval = x]
    <2>1. x \in Proposal /\ x \in approvals /\ d.task \in Task /\ tasks[d.task] # None
      BY <1>0, <1>10 DEF ApproveTask, At, CommandOK, ProposalRecord
    <2>2. /\ tasks' = [tasks EXCEPT ![d.task] = k]
          /\ UNCHANGED <<proposals, approvals, completed, ordered, touched>>
          /\ proc' = [proc EXCEPT ![p] = Idle]
      BY <1>10 DEF ApproveTask, Finish, Become, history
    <2>3. k \in TaskRecord
      BY <1>0, <2>1 DEF TaskRecord, TaskStatus
    <2>4. Resolves(k, proposals, approvals', completed)
      BY <1>0, <2>1, <2>2 DEF Resolves, TaskRecord
    <2> HIDE DEF k
    <2>5. QED BY <1>8, <2>1, <2>2, <2>3, <2>4, Rests
  <1>11. ASSUME ApplyRecord(p)
         PROVE  AgentInv'
    <2> DEFINE k == [tasks[d.task] EXCEPT !.status = "Applied", !.apply = x]
               s == [proc[p] EXCEPT !.step = "save result"]
    <2>1. /\ x \in Proposal /\ d.task \in Task /\ tasks[d.task] # None /\ completed[x] > 0
          /\ proc[p].step = "record apply"
      BY <1>0, <1>11 DEF ApplyRecord, At, CommandOK, ProposalRecord
    <2>2. /\ tasks' = [tasks EXCEPT ![d.task] = k]
          /\ UNCHANGED <<proposals, approvals, completed, ordered, touched>>
          /\ proc' = [proc EXCEPT ![p] = s]
      BY <1>0, <1>11 DEF ApplyRecord, history
    <2>3. k \in TaskRecord
      BY <1>0, <2>1 DEF TaskRecord, TaskStatus
    <2>4. Resolves(k, proposals, approvals', completed)
      BY <1>0, <2>1, <2>2 DEF Resolves, TaskRecord
    <2>5. CommandOK(s, tasks, proposals, approvals, completed, ordered)
      BY <1>0, <2>1 DEF CommandOK, ProcState
    <2> HIDE DEF k, s
    <2>6. QED BY <1>8, <2>1, <2>2, <2>3, <2>4, <2>5
  <1>12. ASSUME ApplyOp(p)
         PROVE  AgentInv'
    <2>1. x \in ordered /\ x \notin Refusable /\ proc[p].step = "apply"
      BY <1>0, <1>12 DEF ApplyOp, At, CommandOK
    <2>2. UNCHANGED <<tasks, proposals, approvals, completed, ordered>>
      BY <1>12 DEF ApplyOp, memory
    <2>3. PICK s : /\ proc' = [proc EXCEPT ![p] = s]
                   /\ s = Idle \/ s = [proc[p] EXCEPT !.next = proc[p].next + 1]
      BY <1>0, <1>12 DEF ApplyOp, Finish, Become
    <2>4. CommandOK(s, tasks, proposals, approvals, completed, ordered)
      <3>1. CASE s = Idle
        BY <3>1, Rests
      <3>2. CASE s = [proc[p] EXCEPT !.next = proc[p].next + 1]
        <4>1. /\ s.step = "apply" /\ s.item = x /\ s.draft = d
              /\ s.next = proc[p].next + 1 /\ proc[p].next \in Nat
          BY <1>0, <2>1, <3>2 DEF ProcState
        <4>2. s.next > 0
          BY <4>1
        <4>3. QED BY <1>0, <2>1, <4>1, <4>2 DEF CommandOK
      <3>3. QED BY <2>3, <3>1, <3>2
    <2>5. \A y \in Proposal : touched'[y] # touched[y] => y = x
      BY <1>12 DEF ApplyOp, TypeOK
    <2>6. Grows
      BY <1>0, <2>2 DEF Grows
    <2>7. proc'[p] = s /\ \A q \in Proc \ {p} : proc'[q] = proc[q]
      BY <1>0, <2>3
    <2>8. QED BY <2>1, <2>2, <2>4, <2>5, <2>6, <2>7, Preserved
  <1>13. ASSUME SaveResult(p)
         PROVE  AgentInv'
    <2>1. /\ proc' = [proc EXCEPT ![p] = Idle]
          /\ UNCHANGED <<tasks, proposals, approvals, completed, ordered, touched>>
      BY <1>13 DEF SaveResult, Finish, Become, history
    <2>2. QED BY <2>1, Quiet, Rests
  <1>14. QED
    BY <1>2, <1>3, <1>4, <1>6, <1>7, <1>9, <1>10, <1>11, <1>12, <1>13 DEF Proceed

LEMMA StepInv == TypeOK /\ TypeOK' /\ AgentInv /\ [Next]_vars => AgentInv'
  <1> SUFFICES ASSUME TypeOK, TypeOK', AgentInv, [Next]_vars PROVE AgentInv'
    OBVIOUS
  <1>1. ASSUME NEW p \in Proc, Crash(p)
        PROVE  AgentInv'
    <2>1. /\ proc' = [proc EXCEPT ![p] = Idle]
          /\ UNCHANGED <<tasks, proposals, approvals, completed, ordered, touched>>
      BY <1>1 DEF Crash, Finish, Become, memory, history
    <2>2. QED BY <2>1, Quiet, Rests
  <1>2. CASE UNCHANGED vars
    <2>1. /\ UNCHANGED <<tasks, proposals, approvals, completed, ordered, touched, proc>>
      BY <1>2 DEF vars, memory, history
    <2>2. QED
      BY <2>1 DEF AgentInv, WrittenUnderApproval, LinksSaved
  <1>3. QED BY <1>1, <1>2, BeginInv, ProceedInv DEF Next

-----------------------------------------------------------------------------
(* Theorems *)

(* Both halves of the invariant are inductive only together: the type of a draft
   comes from AgentInv, and AgentInv's comparisons from the types. *)
LEMMA Inductive == Spec => [](TypeOK /\ AgentInv)
  <1>1. Init => TypeOK /\ AgentInv
    BY InitTyped, InitInv
  <1>2. TypeOK /\ AgentInv /\ [Next]_vars => (TypeOK /\ AgentInv)'
    BY StepTyped, StepInv
  <1>3. QED BY <1>1, <1>2, PTL DEF Spec

(* Every reachable state of the agent loop is well typed: commands that interleave
   or die never leave a record the next one cannot use (task.rs, propose.rs,
   approve.rs, apply.rs). *)
THEOREM TypeCorrect == Spec => []TypeOK
  BY Inductive, PTL

(* A proposal changes the project's files only after an operator asked to approve it
   and only if it has no blockers, however commands interleave (approve_proposal,
   apply_proposal). *)
THEOREM FilesChangeUnderApproval == Spec => []WrittenUnderApproval
  <1>1. AgentInv => WrittenUnderApproval
    BY DEF AgentInv
  <1>2. QED BY <1>1, Inductive, PTL

-----------------------------------------------------------------------------
(* Results of applies *)

Planning == {"plan", "inner plan", "propose", "record proposal"}

(* The tasks, and the copies of them that commands hold, name applies whose results are saved, or
   are being saved, or were left out by a death. *)
ResultsInv ==
  /\ \A t \in Task : tasks[t] # None => tasks[t].apply \in Results \cup {None}
  /\ \A p \in Proc : proc[p].step \in Planning => proc[p].copy.apply \in Results \cup {None}

(* A command that is not at saving a result takes none back. *)
LEMMA ResultsKept ==
  ASSUME TypeOK, NEW p \in Proc, proc[p].step # "save result",
         \A q \in Proc \ {p} : proc'[q] = proc[q], UNCHANGED <<applies, crashes>>
  PROVE  Results \subseteq Results'
  BY DEF Results, At

LEMMA ResultsPreserved ==
  ASSUME TypeOK, ResultsInv, Results \subseteq Results', NEW p \in Proc,
         \A q \in Proc \ {p} : proc'[q] = proc[q],
         \A t \in Task : tasks'[t] # tasks[t] => tasks'[t].apply \in Results' \cup {None},
         proc'[p].step \in Planning => proc'[p].copy.apply \in Results' \cup {None}
  PROVE  ResultsInv'
  <1>1. \A t \in Task : tasks'[t] # None => tasks'[t].apply \in Results' \cup {None}
    BY DEF ResultsInv
  <1>2. \A q \in Proc : proc'[q].step \in Planning => proc'[q].copy.apply \in Results' \cup {None}
    BY DEF ResultsInv
  <1>3. QED BY <1>1, <1>2 DEF ResultsInv

LEMMA BeginResults ==
  ASSUME TypeOK, ResultsInv, NEW p \in Proc, Begin(p)
  PROVE  ResultsInv'
  <1>0. /\ proc[p].step = "idle" /\ UNCHANGED <<applies, crashes>>
        /\ \A q \in Proc \ {p} : proc'[q] = proc[q]
    BY DEF Begin, CreateTask, PlanBegin, ProposeBegin, Report, PrSummary, ApproveBegin, ApplyBegin,
           Validate, RefreshOutcomes, At, Become, memory, TypeOK
  <1>1. Results \subseteq Results'
    BY <1>0, ResultsKept
  <1>2. \A t \in Task : tasks'[t] # tasks[t] => tasks'[t].apply \in Results' \cup {None}
    <2>1. ASSUME NEW t \in Task, CreateTask(p, t)
          PROVE  \A u \in Task : tasks'[u] # tasks[u] => tasks'[u].apply = None
      BY <2>1 DEF CreateTask, NewTask, TypeOK
    <2>2. ASSUME NEW t \in Task, Report(p, t) \/ PrSummary(p, t)
          PROVE  \A u \in Task : tasks'[u] # tasks[u]
                                   => tasks'[u].apply \in Results' \cup {None}
      <3>1. tasks[t] \in TaskRecord /\ tasks[t].apply \in Results' \cup {None}
        BY <1>1, <2>2 DEF Report, PrSummary, TypeOK, ResultsInv
      <3>2. PICK status : tasks' = [tasks EXCEPT ![t] = [tasks[t] EXCEPT !.status = status]]
        BY <2>2 DEF Report, PrSummary
      <3>3. [tasks[t] EXCEPT !.status = status].apply = tasks[t].apply
        BY <3>1 DEF TaskRecord
      <3>4. QED BY <3>1, <3>2, <3>3 DEF TypeOK
    <2>3. CASE UNCHANGED tasks
      BY <2>3
    <2>4. QED BY <2>1, <2>2, <2>3 DEF Begin, PlanBegin, ProposeBegin, ApproveBegin, ApplyBegin,
                                      Validate, RefreshOutcomes, memory
  <1>3. proc'[p].step \in Planning => proc'[p].copy.apply \in Results' \cup {None}
    <2>1. ASSUME NEW t \in Task, PlanBegin(p, t) \/ ProposeBegin(p, t)
          PROVE  proc'[p].copy.apply \in Results' \cup {None}
      <3>1. proc'[p].copy = tasks[t] /\ tasks[t] # None
        BY <2>1 DEF PlanBegin, ProposeBegin, Become, Idle, TypeOK
      <3>2. QED BY <1>1, <3>1 DEF ResultsInv
    <2>2. ASSUME NEW x \in Proposal, ApproveBegin(p, x) \/ ApplyBegin(p, x)
          PROVE  proc'[p].step \notin Planning
      BY <2>2 DEF ApproveBegin, ApplyBegin, Become, Idle, TypeOK, Planning
    <2>3. CASE proc' = proc
      BY <1>0, <2>3 DEF Planning
    <2>4. QED BY <2>1, <2>2, <2>3 DEF Begin, CreateTask, Report, PrSummary, Validate,
                                      RefreshOutcomes
  <1>4. QED BY <1>0, <1>1, <1>2, <1>3, ResultsPreserved

LEMMA ProceedResults ==
  ASSUME TypeOK, AgentInv, ResultsInv, NEW p \in Proc, Proceed(p)
  PROVE  ResultsInv'
  <1>0. /\ proc[p] \in ProcState /\ Idle.step = "idle"
        /\ CommandOK(proc[p], tasks, proposals, approvals, completed, ordered)
        /\ proc \in [Proc -> ProcState]
        /\ tasks \in [Task -> TaskRecord \cup {None}]
    BY Holds DEF Idle, TypeOK
  <1>1. \A q \in Proc \ {p} : proc'[q] = proc[q]
    BY <1>0 DEF Proceed, PlanEnd, InnerPlan, ProposeSave, ProposeRecord, ApproveSave,
                ApproveRecord, ApproveTask, ApplyOp, ApplySave, ApplyRecord, SaveResult, Finish,
                Become
  <1>2. CASE PlanEnd(p) \/ InnerPlan(p) \/ ProposeRecord(p)
    <2>1. /\ proc[p].step \in Planning /\ UNCHANGED <<applies, crashes>>
          /\ proc[p].task \in Task
      BY <1>0, <1>2 DEF PlanEnd, InnerPlan, ProposeRecord, At, Planning, CommandOK
    <2>2. Results \subseteq Results'
      BY <1>1, <2>1, ResultsKept DEF Planning
    <2>3. proc[p].copy \in TaskRecord /\ proc[p].copy.apply \in Results' \cup {None}
      BY <1>0, <2>1, <2>2 DEF ResultsInv, ProcState
    <2>4. \A t \in Task : tasks'[t] # tasks[t] => tasks'[t].apply = proc[p].copy.apply
      <3>1. CASE PlanEnd(p) \/ InnerPlan(p)
        <4>1. PICK k : k = [proc[p].copy EXCEPT !.status = "Planned", !.planned = TRUE]
          OBVIOUS
        <4>2. k.apply = proc[p].copy.apply
          BY <2>3, <4>1 DEF TaskRecord
        <4>3. tasks' = [tasks EXCEPT ![proc[p].task] = k]
          BY <3>1, <4>1 DEF PlanEnd, InnerPlan, SavePlan
        <4>4. QED BY <1>0, <4>2, <4>3
      <3>2. CASE ProposeRecord(p)
        <4>1. PICK k : k = [proc[p].copy EXCEPT
                 !.status = IF proc[p].item \in Refusable THEN "Blocked" ELSE "Proposed",
                 !.proposal = proc[p].item]
          OBVIOUS
        <4>2. k.apply = proc[p].copy.apply
          BY <2>3, <4>1 DEF TaskRecord
        <4>3. tasks' = [tasks EXCEPT ![proc[p].task] = k]
          BY <3>2, <4>1 DEF ProposeRecord
        <4>4. QED BY <1>0, <4>2, <4>3
      <3>3. QED BY <1>2, <3>1, <3>2
    <2>5. proc'[p].step \in Planning => proc'[p].copy = proc[p].copy
      <3>1. CASE InnerPlan(p)
        BY <1>0, <3>1 DEF InnerPlan, ProcState
      <3>2. CASE PlanEnd(p) \/ ProposeRecord(p)
        <4>1. proc'[p] = Idle
          BY <1>0, <3>2 DEF PlanEnd, ProposeRecord, Finish, Become
        <4>2. QED BY <1>0, <4>1 DEF Planning
      <3>3. QED BY <1>2, <3>1, <3>2
    <2>6. QED BY <1>1, <2>2, <2>3, <2>4, <2>5, ResultsPreserved
  <1>3. CASE \E x \in Proposal : ProposeSave(p, x)
    <2>1. PICK x \in Proposal : ProposeSave(p, x)
      BY <1>3
    <2>2. /\ proc[p].step = "propose" /\ UNCHANGED <<applies, crashes, tasks>>
          /\ proc'[p].copy = proc[p].copy
      BY <1>0, <2>1 DEF ProposeSave, At, ProcState
    <2>3. Results \subseteq Results'
      BY <1>1, <2>2, ResultsKept
    <2>4. proc[p].copy.apply \in Results' \cup {None}
      BY <2>2, <2>3 DEF ResultsInv, Planning
    <2>5. QED BY <1>1, <2>2, <2>3, <2>4, ResultsPreserved
  <1>4. CASE ApproveSave(p) \/ ApproveRecord(p) \/ ApplyOp(p) \/ ApplySave(p)
    <2>1. /\ proc[p].step \in {"approve", "record approval", "apply"}
          /\ UNCHANGED <<applies, crashes, tasks>>
      BY <1>4 DEF ApproveSave, ApproveRecord, ApplyOp, ApplySave, At, memory
    <2>2. proc'[p].step \notin Planning
      <3>1. CASE ApproveSave(p)
        BY <1>0, <3>1 DEF ApproveSave, ProcState, Planning
      <3>2. CASE ApproveRecord(p)
        BY <1>0, <3>2 DEF ApproveRecord, ProcState, Planning
      <3>3. CASE ApplySave(p)
        BY <1>0, <3>3 DEF ApplySave, ProcState, Planning
      <3>4. CASE ApplyOp(p)
        <4>1. proc'[p] = Idle \/ proc'[p].step = proc[p].step
          BY <1>0, <3>4 DEF ApplyOp, Finish, Become, ProcState
        <4>2. QED BY <1>0, <2>1, <4>1 DEF Planning
      <3>5. QED BY <1>4, <3>1, <3>2, <3>3, <3>4
    <2>3. Results \subseteq Results'
      BY <1>1, <2>1, ResultsKept
    <2>4. QED BY <1>1, <2>1, <2>2, <2>3, ResultsPreserved
  <1>5. CASE ApproveTask(p)
    <2>1. /\ proc[p].step = "approve task" /\ UNCHANGED <<applies, crashes>> /\ proc'[p] = Idle
          /\ proc[p].draft.task \in Task /\ tasks[proc[p].draft.task] # None
      BY <1>0, <1>5 DEF ApproveTask, At, Finish, Become, CommandOK, ProposalRecord
    <2>2. Results \subseteq Results'
      BY <1>1, <2>1, ResultsKept
    <2>3. PICK k : k = [tasks[proc[p].draft.task] EXCEPT !.status = "Approved",
                                                         !.approval = proc[p].item]
      OBVIOUS
    <2>4. k.apply = tasks[proc[p].draft.task].apply
      BY <1>0, <2>1, <2>3 DEF TaskRecord
    <2>5. tasks' = [tasks EXCEPT ![proc[p].draft.task] = k]
      BY <1>5, <2>3 DEF ApproveTask
    <2>6. \A t \in Task : tasks'[t] # tasks[t] => tasks'[t].apply \in Results' \cup {None}
      BY <1>0, <2>1, <2>2, <2>4, <2>5 DEF ResultsInv
    <2>7. QED BY <1>0, <1>1, <2>1, <2>2, <2>6, ResultsPreserved DEF Planning
  <1>6. CASE ApplyRecord(p)
    <2>1. /\ proc[p].step = "record apply" /\ UNCHANGED <<applies, crashes>>
          /\ proc[p].draft.task \in Task /\ tasks[proc[p].draft.task] # None
          /\ proc'[p].step = "save result" /\ proc'[p].item = proc[p].item
          /\ proc[p].item \in Proposal
      BY <1>0, <1>6 DEF ApplyRecord, At, CommandOK, ProposalRecord, ProcState, TypeOK
    <2>2. Results \subseteq Results'
      BY <1>1, <2>1, ResultsKept
    <2>3. PICK k : k = [tasks[proc[p].draft.task] EXCEPT !.status = "Applied",
                                                         !.apply = proc[p].item]
      OBVIOUS
    <2>4. k.apply = proc[p].item
      BY <1>0, <2>1, <2>3 DEF TaskRecord
    <2>5. tasks' = [tasks EXCEPT ![proc[p].draft.task] = k]
      BY <1>6, <2>3 DEF ApplyRecord
    <2>6. proc[p].item \in Results'
      BY <2>1 DEF Results, At
    <2>7. \A t \in Task : tasks'[t] # tasks[t] => tasks'[t].apply \in Results' \cup {None}
      BY <1>0, <2>1, <2>4, <2>5, <2>6
    <2>8. QED BY <1>1, <2>1, <2>2, <2>7, ResultsPreserved DEF Planning
  <1>7. CASE SaveResult(p)
    <2>1. /\ proc'[p] = Idle /\ UNCHANGED <<tasks, crashes>>
          /\ applies' = applies \cup {proc[p].item}
      BY <1>0, <1>7 DEF SaveResult, Finish, Become
    <2>2. Results \subseteq Results'
      BY <1>1, <2>1 DEF Results, At
    <2>3. QED BY <1>0, <1>1, <2>1, <2>2, ResultsPreserved DEF Planning
  <1>8. QED BY <1>2, <1>3, <1>4, <1>5, <1>6, <1>7 DEF Proceed

LEMMA StepResults == TypeOK /\ TypeOK' /\ AgentInv /\ ResultsInv /\ [Next]_vars => ResultsInv'
  <1> SUFFICES ASSUME TypeOK, TypeOK', AgentInv, ResultsInv, [Next]_vars PROVE ResultsInv'
    OBVIOUS
  <1>1. ASSUME NEW p \in Proc, Crash(p)
        PROVE  ResultsInv'
    <2>1. /\ UNCHANGED tasks /\ crashes' > 0 /\ proc'[p] = Idle /\ Idle.step = "idle"
          /\ \A q \in Proc \ {p} : proc'[q] = proc[q]
      BY <1>1 DEF Crash, Finish, Become, memory, TypeOK, Idle
    <2>2. Results' = Proposal
      BY <2>1 DEF Results
    <2>3. \A t \in Task : tasks'[t] # None => tasks'[t].apply \in Proposal \cup {None}
      BY DEF TypeOK, TaskRecord
    <2>4. \A q \in Proc : proc'[q].copy.apply \in Proposal \cup {None}
      BY DEF TypeOK, ProcState, TaskRecord
    <2>5. QED BY <2>2, <2>3, <2>4 DEF ResultsInv
  <1>2. CASE UNCHANGED vars
    BY <1>2 DEF vars, memory, ResultsInv, Results, At
  <1>3. QED BY <1>1, <1>2, BeginResults, ProceedResults DEF Next

(* A task never names a proposal or approval that is not saved, or an apply that did not run to its
   end; and the result of the apply it names is missing only while the command is at saving it, or
   once a command has died (the order of saves in propose.rs, approve.rs and apply.rs). *)
THEOREM TaskLinksResolve == Spec => []LinksResolve
  <1>1. ASSUME Init
        PROVE  ResultsInv
    <2>1. \A t \in Task : tasks[t] = None
      BY <1>1 DEF Init
    <2>2. \A p \in Proc : proc[p].step = "idle"
      BY <1>1 DEF Init, Idle
    <2>3. "idle" \notin Planning
      BY DEF Planning
    <2>4. QED BY <2>1, <2>2, <2>3 DEF ResultsInv
  <1>2. TypeOK /\ TypeOK' /\ AgentInv /\ ResultsInv /\ [Next]_vars => ResultsInv'
    BY StepResults
  <1>3. AgentInv /\ ResultsInv => LinksResolve
    BY DEF AgentInv, ResultsInv, LinksResolve
  <1>4. QED BY <1>1, <1>2, <1>3, Inductive, PTL DEF Spec

-----------------------------------------------------------------------------
(* The operations of a proposal, one after the other *)

Less == {pair \in Nat \X Nat : pair[1] < pair[2]}

LEMMA LessWellFounded == IsWellFoundedOn(Less, Nat)
  BY NatLessThanWellFounded DEF Less, OpToRel

(* Induction, of a set instead of a predicate: the least number outside would have its predecessor
   inside. *)
LEMMA SetInduction ==
  ASSUME NEW S, 0 \in S, \A n \in Nat : n \in S => n + 1 \in S
  PROVE  Nat \subseteq S
  <1> SUFFICES ASSUME Nat \ S # {} PROVE FALSE
    OBVIOUS
  <1>1. PICK least \in Nat \ S : \A n \in Nat \ S : ~ (<<n, least>> \in Less)
    BY LessWellFounded, WFMin
  <1>2. least \in Nat /\ least # 0
    BY <1>1
  <1>3. least - 1 \in Nat /\ least - 1 < least /\ (least - 1) + 1 = least
    BY <1>2
  <1>4. <<least - 1, least>> \in Less
    BY <1>2, <1>3 DEF Less
  <1>5. least - 1 \in S
    BY <1>1, <1>3, <1>4
  <1>6. QED BY <1>1, <1>3, <1>5

(* g is what the first n operations do, one by one. *)
UpTo(g, n, old, ops) ==
  g = [i \in 0 .. n |-> IF i = 0 THEN [files |-> old, reason |-> "none"]
                        ELSE PerformNext(g[i - 1], ops[i])]

LEMMA UpToExists ==
  ASSUME NEW old, NEW ops, NEW n \in Nat
  PROVE  \E g : UpTo(g, n, old, ops)
  <1> DEFINE S == {k \in Nat : \E g : UpTo(g, k, old, ops)}
  <1>1. 0 \in S
    <2> DEFINE g == [i \in 0 .. 0 |-> [files |-> old, reason |-> "none"]]
    <2>1. UpTo(g, 0, old, ops)
      BY DEF UpTo
    <2>2. QED BY <2>1
  <1>2. ASSUME NEW k \in Nat, k \in S
        PROVE  k + 1 \in S
    <2>1. PICK g : UpTo(g, k, old, ops)
      BY <1>2
    <2> DEFINE h == [i \in 0 .. k + 1 |-> IF i \in 0 .. k THEN g[i] ELSE PerformNext(g[k], ops[k + 1])]
    <2>2. \A i \in 0 .. k : h[i] = g[i]
      BY <1>2
    <2>3. h[k + 1] = PerformNext(g[k], ops[k + 1])
      BY <1>2
    <2>4. \A i \in 0 .. k : g[i] = IF i = 0 THEN [files |-> old, reason |-> "none"]
                                  ELSE PerformNext(g[i - 1], ops[i])
      BY <2>1 DEF UpTo
    <2>5. ASSUME NEW i \in 0 .. k + 1
          PROVE  h[i] = IF i = 0 THEN [files |-> old, reason |-> "none"]
                        ELSE PerformNext(h[i - 1], ops[i])
      <3>1. CASE i = k + 1
        <4>1. i - 1 = k /\ i # 0 /\ h[k] = g[k]
          BY <1>2, <2>2, <3>1
        <4>2. QED BY <2>3, <3>1, <4>1
      <3>2. CASE i \in 0 .. k
        <4>1. h[i] = g[i] /\ (i # 0 => h[i - 1] = g[i - 1])
          BY <1>2, <2>2, <3>2
        <4>2. QED BY <2>4, <3>2, <4>1
      <3>3. QED BY <1>2, <3>1, <3>2
    <2>6. h = [i \in 0 .. k + 1 |-> h[i]]
      OBVIOUS
    <2> HIDE DEF h
    <2>7. UpTo(h, k + 1, old, ops)
      BY <2>5, <2>6 DEF UpTo
    <2>8. QED BY <2>7
  <1> HIDE DEF S
  <1>3. Nat \subseteq S
    BY <1>1, <1>2, SetInduction
  <1>4. QED BY <1>3 DEF S

(* What PerformUpTo is, first and next. *)
LEMMA PerformUpToIs ==
  ASSUME NEW old, NEW ops \in Seq(Op)
  PROVE  /\ PerformUpTo(old, ops)[0] = [files |-> old, reason |-> "none"]
         /\ \A i \in 1 .. Len(ops) :
              PerformUpTo(old, ops)[i] = PerformNext(PerformUpTo(old, ops)[i - 1], ops[i])
  <1> DEFINE g == PerformUpTo(old, ops)
  <1>1. Len(ops) \in Nat
    OBVIOUS
  <1>2. g = CHOOSE f : UpTo(f, Len(ops), old, ops)
    BY DEF PerformUpTo, UpTo
  <1> HIDE DEF g
  <1>3. UpTo(g, Len(ops), old, ops)
    BY <1>1, <1>2, UpToExists
  <1>4. \A i \in 0 .. Len(ops) : g[i] = IF i = 0 THEN [files |-> old, reason |-> "none"]
                                       ELSE PerformNext(g[i - 1], ops[i])
    BY <1>3 DEF UpTo
  <1>5. g[0] = [files |-> old, reason |-> "none"]
    BY <1>1, <1>4
  <1>6. \A i \in 1 .. Len(ops) : g[i] = PerformNext(g[i - 1], ops[i])
    BY <1>1, <1>4
  <1>7. QED BY <1>5, <1>6 DEF g

-----------------------------------------------------------------------------
(* One operator: snapshots, whole applications, and one application per approval *)

(* The snapshot holds what the files were that its apply may have written; the others are as they
   were. *)
SnapshotHolds ==
  snapshot # None =>
    /\ DOMAIN snapshot.saved = PathsOf(OpsOf[snapshot.of])
    /\ \A f \in Path : (IF f \in DOMAIN snapshot.saved THEN snapshot.saved[f] ELSE files[f]) = base[f]

(* An apply under way took the last snapshot, has done all operations before the next one, and its
   proposal is still Approved. *)
ApplyUnderWay(s) ==
  s.step = "apply" =>
    /\ snapshot.of = s.item
    /\ s.next \in 1 .. Len(OpsOf[s.item]) + 1
    /\ PerformUpTo(base, OpsOf[s.item])[s.next - 1] = [files |-> files, reason |-> "none"]
    /\ proposals[s.item].status = "Approved"

(* Who is Approved has an approval that no application has used up. *)
ApprovalsLeft ==
  \A x \in Proposal :
    /\ completed[x] <= given[x]
    /\ proposals[x] # None /\ proposals[x].status = "Approved" => completed[x] < given[x]

SoleInv ==
  /\ SnapshotHolds
  /\ \A p \in Proc : ApplyUnderWay(proc[p])
  /\ AppliedIsComplete
  /\ ApprovalsLeft

LEMMA InitSole == Init => SoleInv
  <1> SUFFICES ASSUME Init PROVE SoleInv
    OBVIOUS
  <1>1. SnapshotHolds
    BY DEF Init, SnapshotHolds
  <1>2. \A p \in Proc : ApplyUnderWay(proc[p])
    BY DEF Init, ApplyUnderWay, Idle
  <1>3. AppliedIsComplete
    BY DEF Init, AppliedIsComplete
  <1>4. ApprovalsLeft
    BY DEF Init, ApprovalsLeft
  <1>5. QED BY <1>1, <1>2, <1>3, <1>4 DEF SoleInv

(* A step that leaves files and proposals alone, of a command that applies nothing afterwards. *)
LEMMA SoleQuiet ==
  ASSUME NEW o, Proc = {o}, SoleInv,
         UNCHANGED <<files, snapshot, base, given, completed, proposals>>,
         proc' = proc \/ proc'[o].step # "apply"
  PROVE  SoleInv'
  <1>1. SnapshotHolds' /\ AppliedIsComplete' /\ ApprovalsLeft'
    BY DEF SoleInv, SnapshotHolds, AppliedIsComplete, ApprovalsLeft
  <1>2. \A p \in Proc : ApplyUnderWay(proc[p])'
    BY DEF SoleInv, ApplyUnderWay
  <1>3. QED BY <1>1, <1>2 DEF SoleInv

(* So is a proposal that is saved anew, and not as Approved or Applied. *)
LEMMA SoleProposed ==
  ASSUME TypeOK, NEW o, Proc = {o}, SoleInv, NEW x \in Proposal, ProposeSave(o, x)
  PROVE  SoleInv'
  <1>1. /\ UNCHANGED <<files, snapshot, base, given, completed>>
        /\ \A y \in Proposal \ {x} : proposals'[y] = proposals[y]
        /\ proposals'[x].status \in {"Refused", "AwaitingApproval"}
    BY DEF ProposeSave, TypeOK, history
  <1>2. proc'[o].step # "apply"
    BY DEF ProposeSave, TypeOK, ProcState
  <1>3. SnapshotHolds'
    BY <1>1 DEF SoleInv, SnapshotHolds
  <1>4. AppliedIsComplete' /\ ApprovalsLeft'
    BY <1>1 DEF SoleInv, AppliedIsComplete, ApprovalsLeft
  <1>5. QED BY <1>2, <1>3, <1>4 DEF SoleInv, ApplyUnderWay

LEMMA SoleApproved ==
  ASSUME TypeOK, AgentInv, NEW o, Proc = {o}, SoleInv, ApproveSave(o)
  PROVE  SoleInv'
  <1> DEFINE x == proc[o].item
  <1>0. proc[o] \in ProcState /\ CommandOK(proc[o], tasks, proposals, approvals, completed, ordered)
    BY Holds
  <1>1. x \in Proposal /\ proc[o].draft \in ProposalRecord
    BY <1>0 DEF ApproveSave, At, CommandOK, TypeOK
  <1>2. /\ UNCHANGED <<files, snapshot, base, completed>>
        /\ \A y \in Proposal \ {x} : proposals'[y] = proposals[y] /\ given'[y] = given[y]
        /\ proposals'[x].status = "Approved" /\ given'[x] = given[x] + 1
    BY <1>1 DEF ApproveSave, TypeOK, ProposalRecord
  <1>3. proc'[o].step # "apply"
    BY <1>0 DEF ApproveSave, TypeOK, ProcState
  <1>4. SnapshotHolds'
    BY <1>2 DEF SoleInv, SnapshotHolds
  <1>5. AppliedIsComplete'
    BY <1>2 DEF SoleInv, AppliedIsComplete
  <1>6. ApprovalsLeft'
    BY <1>1, <1>2 DEF SoleInv, ApprovalsLeft, TypeOK
  <1>7. QED BY <1>3, <1>4, <1>5, <1>6 DEF SoleInv, ApplyUnderWay

LEMMA SoleApplies ==
  ASSUME TypeOK, NEW o, Proc = {o}, SoleInv, NEW x \in Proposal, ApplyBegin(o, x)
  PROVE  SoleInv'
  <1> DEFINE ops == OpsOf[x]
  <1>1. ops \in Seq(Op) /\ PathsOf(ops) \subseteq Path /\ Len(ops) \in Nat
    BY PathsTyped, AgentAssumption DEF AgentAssumption
  <1>2. /\ UNCHANGED <<proposals, files, given, completed>> /\ base' = files
        /\ snapshot'.of = x /\ snapshot'.saved = SnapshotOf(ops)
        /\ proposals[x] # None /\ proposals[x].status = "Approved"
    BY DEF ApplyBegin, Applicable, memory
  <1>3. proc'[o].step = "apply" /\ proc'[o].item = x /\ proc'[o].next = 1
    BY DEF ApplyBegin, Become, TypeOK, Idle
  <1>4. SnapshotHolds'
    BY <1>1, <1>2 DEF SnapshotHolds, SnapshotOf
  <1>5. PerformUpTo(files, ops)[0] = [files |-> files, reason |-> "none"]
    BY <1>1, PerformUpToIs
  <1>6. ApplyUnderWay(proc[o])'
    BY <1>1, <1>2, <1>3, <1>5 DEF ApplyUnderWay
  <1>7. AppliedIsComplete'
    BY <1>2 DEF AppliedIsComplete
  <1>8. ApprovalsLeft'
    BY <1>2 DEF SoleInv, ApprovalsLeft
  <1>9. QED BY <1>4, <1>6, <1>7, <1>8 DEF SoleInv

LEMMA SoleOperates ==
  ASSUME TypeOK, AgentInv, NEW o, Proc = {o}, SoleInv, ApplyOp(o)
  PROVE  SoleInv'
  <1> DEFINE x   == proc[o].item
             i   == proc[o].next
             ops == OpsOf[x]
             op  == ops[i]
             upTo == PerformUpTo(base, ops)
  <1>0. /\ proc[o] \in ProcState /\ proc[o].step = "apply"
        /\ CommandOK(proc[o], tasks, proposals, approvals, completed, ordered)
    BY Holds DEF ApplyOp, At
  <1>1. x \in Proposal /\ proposals[x] # None
    BY <1>0 DEF CommandOK, TypeOK
  <1>2. ops \in Seq(Op) /\ i \in 1 .. Len(ops) /\ op \in Op /\ op.path \in Path
    <2>1. ops \in Seq(Op)
      BY <1>1, AgentAssumption DEF AgentAssumption
    <2>2. i \in 1 .. Len(ops)
      BY <1>0, <2>1 DEF ApplyOp, CommandOK, ProcState
    <2>3. op \in Op
      BY <2>1, <2>2
    <2>4. QED BY <2>1, <2>2, <2>3 DEF Op
  <1>3. /\ snapshot.of = x /\ proposals[x].status = "Approved"
        /\ upTo[i - 1] = [files |-> files, reason |-> "none"]
    BY <1>0 DEF SoleInv, ApplyUnderWay
  <1>4. UNCHANGED <<snapshot, base, given, completed, proposals>>
    BY DEF ApplyOp, memory
  <1>5. CASE Refusal(op, files[op.path]) # "none"
    <2>1. UNCHANGED files /\ proc'[o] = Idle
      BY <1>5 DEF ApplyOp, Finish, Become, TypeOK
    <2>2. QED BY <1>4, <2>1, SoleQuiet DEF Idle
  <1>6. CASE Refusal(op, files[op.path]) = "none"
    <2>1. files' = Perform(files, op)
      BY <1>6 DEF ApplyOp
    <2>2. proc'[o].step = "apply" /\ proc'[o].item = x /\ proc'[o].next = i + 1
      BY <1>0, <1>6 DEF ApplyOp, TypeOK, ProcState
    <2>3. \A f \in Path \ {op.path} : files'[f] = files[f]
      BY <2>1 DEF Perform, TypeOK
    <2>4. SnapshotHolds'
      <3>1. op.path \in PathsOf(ops)
        BY <1>2 DEF PathsOf
      <3>2. QED BY <1>3, <1>4, <2>3, <3>1 DEF SoleInv, SnapshotHolds
    <2>5. upTo[i] = [files |-> files', reason |-> "none"]
      <3>1. upTo[i] = PerformNext(upTo[i - 1], op)
        BY <1>2, PerformUpToIs
      <3>2. PICK sofar : sofar = upTo[i - 1]
        OBVIOUS
      <3>3. sofar = [files |-> files, reason |-> "none"]
        BY <1>3, <3>2
      <3>4. PerformNext(sofar, op) = [sofar EXCEPT !.files = Perform(@, op)]
        BY <1>6, <3>3 DEF PerformNext
      <3>5. [sofar EXCEPT !.files = Perform(@, op)] = [files |-> files', reason |-> "none"]
        BY <2>1, <3>3
      <3>6. QED BY <3>1, <3>2, <3>4, <3>5
    <2>6. ApplyUnderWay(proc[o])'
      <3>1. i + 1 \in 1 .. Len(ops) + 1 /\ (i + 1) - 1 = i
        BY <1>2
      <3>2. QED BY <1>3, <1>4, <2>2, <2>5, <3>1 DEF ApplyUnderWay
    <2>7. AppliedIsComplete'
      BY <1>3, <1>4 DEF AppliedIsComplete
    <2>8. ApprovalsLeft'
      BY <1>4 DEF SoleInv, ApprovalsLeft
    <2>9. QED BY <2>4, <2>6, <2>7, <2>8 DEF SoleInv
  <1>7. QED BY <1>5, <1>6

LEMMA SoleSaves ==
  ASSUME TypeOK, AgentInv, NEW o, Proc = {o}, SoleInv, ApplySave(o)
  PROVE  SoleInv'
  <1> DEFINE x == proc[o].item
  <1>0. /\ proc[o] \in ProcState /\ proc[o].step = "apply"
        /\ CommandOK(proc[o], tasks, proposals, approvals, completed, ordered)
    BY Holds DEF ApplySave, At
  <1>1. x \in Proposal /\ proposals[x] # None /\ proc[o].draft \in ProposalRecord
    BY <1>0 DEF CommandOK, TypeOK
  <1>2. OpsOf[x] \in Seq(Op)
    BY <1>1, AgentAssumption DEF AgentAssumption
  <1>3. /\ snapshot.of = x /\ proposals[x].status = "Approved"
        /\ proc[o].next \in 1 .. Len(OpsOf[x]) + 1
        /\ PerformUpTo(base, OpsOf[x])[proc[o].next - 1] = [files |-> files, reason |-> "none"]
    BY <1>0 DEF SoleInv, ApplyUnderWay
  <1>4. PerformAll(base, OpsOf[x]) = [files |-> files, reason |-> "none"]
    <2>1. proc[o].next - 1 = Len(OpsOf[x])
      <3>1. proc[o].next > Len(OpsOf[x])
        BY DEF ApplySave
      <3>2. Len(OpsOf[x]) \in Nat
        BY <1>2
      <3>3. QED BY <1>3, <3>1, <3>2
    <2>2. QED BY <1>3, <2>1 DEF PerformAll
  <1>5. /\ UNCHANGED <<files, snapshot, base, given>>
        /\ \A y \in Proposal \ {x} : proposals'[y] = proposals[y] /\ completed'[y] = completed[y]
        /\ proposals'[x].status = "Applied" /\ completed'[x] = completed[x] + 1
    BY <1>1 DEF ApplySave, TypeOK, ProposalRecord
  <1>6. proc'[o].step # "apply"
    BY <1>0 DEF ApplySave, TypeOK, ProcState
  <1>7. SnapshotHolds'
    BY <1>5 DEF SoleInv, SnapshotHolds
  <1>8. AppliedIsComplete'
    BY <1>3, <1>4, <1>5 DEF SoleInv, AppliedIsComplete
  <1>9. ApprovalsLeft'
    BY <1>1, <1>3, <1>5 DEF SoleInv, ApprovalsLeft, TypeOK
  <1>10. QED BY <1>6, <1>7, <1>8, <1>9 DEF SoleInv, ApplyUnderWay

LEMMA StepSole ==
  ASSUME TypeOK, AgentInv, NEW o, Proc = {o}, SoleInv, [Next]_vars
  PROVE  SoleInv'
  <1>0. proc \in [Proc -> ProcState] /\ proc[o] \in ProcState /\ Idle.step = "idle"
    BY DEF TypeOK, Idle
  <1>1. ASSUME NEW p \in Proc, Begin(p)
        PROVE  SoleInv'
    <2>1. ASSUME NEW x \in Proposal, ApplyBegin(o, x)
          PROVE  SoleInv'
      BY <2>1, SoleApplies
    <2>2. ASSUME NEW x \in Proposal, ApproveBegin(o, x)
          PROVE  SoleInv'
      <3>1. proc'[o].step = "approve"
        BY <1>0, <2>2 DEF ApproveBegin, Become, Idle
      <3>2. QED BY <2>2, <3>1, SoleQuiet DEF ApproveBegin, memory
    <2>3. ASSUME NEW t \in Task, PlanBegin(o, t) \/ ProposeBegin(o, t)
          PROVE  SoleInv'
      <3>1. proc'[o].step \in {"plan", "propose", "inner plan"}
        <4>1. CASE PlanBegin(o, t)
          <5>1. proc'[o].step = "plan"
            BY <1>0, <4>1 DEF PlanBegin, Become, Idle
          <5>2. QED BY <5>1
        <4>2. CASE ProposeBegin(o, t) /\ tasks[t].planned
          <5>1. proc'[o].step = "propose"
            BY <1>0, <4>2 DEF ProposeBegin, Become, Idle
          <5>2. QED BY <5>1
        <4>3. CASE ProposeBegin(o, t) /\ ~ tasks[t].planned
          <5>1. proc'[o].step = "inner plan"
            BY <1>0, <4>3 DEF ProposeBegin, Become, Idle
          <5>2. QED BY <5>1
        <4>4. QED BY <2>3, <4>1, <4>2, <4>3
      <3>2. QED BY <2>3, <3>1, SoleQuiet DEF PlanBegin, ProposeBegin, memory, history
    <2>4. ASSUME NEW t \in Task, CreateTask(o, t) \/ Report(o, t) \/ PrSummary(o, t)
          PROVE  SoleInv'
      BY <2>4, SoleQuiet DEF CreateTask, Report, PrSummary, history
    <2>5. CASE Validate(o) \/ RefreshOutcomes(o)
      BY <2>5, SoleQuiet DEF Validate, RefreshOutcomes, history
    <2>6. QED BY <1>1, <2>1, <2>2, <2>3, <2>4, <2>5 DEF Begin
  <1>2. ASSUME NEW p \in Proc, Proceed(p)
        PROVE  SoleInv'
    <2>1. CASE \E x \in Proposal : ProposeSave(o, x)
      BY <2>1, SoleProposed
    <2>2. CASE ApproveSave(o)
      BY <2>2, SoleApproved
    <2>3. CASE ApplyOp(o)
      BY <2>3, SoleOperates
    <2>4. CASE ApplySave(o)
      BY <2>4, SoleSaves
    <2>5. CASE PlanEnd(o) \/ ProposeRecord(o) \/ ApproveTask(o) \/ SaveResult(o)
      <3>1. proc'[o] = Idle
        BY <1>0, <2>5 DEF PlanEnd, ProposeRecord, ApproveTask, SaveResult, Finish, Become
      <3>2. QED
        BY <1>0, <2>5, <3>1, SoleQuiet DEF PlanEnd, ProposeRecord, ApproveTask, SaveResult, history
    <2>6. CASE InnerPlan(o) \/ ApproveRecord(o) \/ ApplyRecord(o)
      <3>1. proc'[o].step \in {"propose", "approve task", "save result"}
        BY <1>0, <2>6 DEF InnerPlan, ApproveRecord, ApplyRecord, ProcState
      <3>2. QED BY <2>6, <3>1, SoleQuiet DEF InnerPlan, ApproveRecord, ApplyRecord, history
    <2>7. QED BY <1>2, <2>1, <2>2, <2>3, <2>4, <2>5, <2>6 DEF Proceed
  <1>3. ASSUME NEW p \in Proc, Crash(p)
        PROVE  SoleInv'
    <2>1. proc'[o] = Idle
      BY <1>0, <1>3 DEF Crash, Finish, Become
    <2>2. QED BY <1>0, <1>3, <2>1, SoleQuiet DEF Crash, memory, history
  <1>4. CASE UNCHANGED vars
    BY <1>4, SoleQuiet DEF vars, memory, history
  <1>5. QED BY <1>1, <1>2, <1>3, <1>4 DEF Next

LEMMA SoleInductive ==
  ASSUME NEW o, Proc = {o}
  PROVE  Spec => []SoleInv
  <1>1. TypeOK /\ AgentInv /\ SoleInv /\ [Next]_vars => SoleInv'
    BY StepSole
  <1>2. QED BY <1>1, InitSole, Inductive, PTL DEF Spec

(* One operator: putting the last snapshot back yields the files as its apply found them, wherever
   a command was refused or died. *)
THEOREM SnapshotAlwaysRestores ==
  ASSUME NEW o, Proc = {o}
  PROVE  Spec => []SnapshotRestores
  <1>1. TypeOK /\ SoleInv => SnapshotRestores
    <2> SUFFICES ASSUME TypeOK, SoleInv, snapshot # None
                 PROVE  [f \in Path |-> IF f \in DOMAIN snapshot.saved THEN snapshot.saved[f]
                                        ELSE files[f]] = base
      BY DEF SnapshotRestores
    <2>1. base = [f \in Path |-> base[f]]
      BY DEF TypeOK
    <2>2. \A f \in Path : (IF f \in DOMAIN snapshot.saved THEN snapshot.saved[f]
                           ELSE files[f]) = base[f]
      BY DEF SoleInv, SnapshotHolds
    <2>3. QED BY <2>1, <2>2
  <1>2. QED BY <1>1, SoleInductive, TypeCorrect, PTL

(* One operator: what is Applied took effect whole, every operation in order, on the files the
   apply found. *)
THEOREM AppliedAlwaysComplete ==
  ASSUME NEW o, Proc = {o}
  PROVE  Spec => []AppliedIsComplete
  <1>1. SoleInv => AppliedIsComplete
    BY DEF SoleInv
  <1>2. QED BY <1>1, SoleInductive, PTL

(* One operator: an approval is good for one application that runs to the end. *)
THEOREM ApprovalUsedOnce ==
  ASSUME NEW o, Proc = {o}
  PROVE  Spec => []AppliedOncePerApproval
  <1>1. SoleInv => AppliedOncePerApproval
    BY DEF SoleInv, ApprovalsLeft, AppliedOncePerApproval
  <1>2. QED BY <1>1, SoleInductive, PTL
=============================================================================
