----------------------------- MODULE AgentTask ------------------------------
(***************************************************************************)
(* The governed agent loop: task, plan, proposal, operator approval, apply,*)
(* validation, report.  Every command is a process of its own that loads   *)
(* JSON files under memory/, works, and saves them whole; nothing locks    *)
(* them.  A step below is the work of a command up to the next point where *)
(* another command, or its own death, can matter.                          *)
(*                                                                         *)
(* Ids of plans, proposals, approvals and apply results are new in every   *)
(* command (prefix, second and process id); a task holds at most one of    *)
(* each, so the model names them by the proposal they belong to.           *)
(***************************************************************************)
EXTENDS PatchOps

CONSTANTS Proc,         \* operator processes
          Task,
          Proposal,
          OpsOf,        \* patch operations of a proposal
          Refusable,    \* proposals validate_patch_proposal finds blockers in
          OldFiles,     \* the project files at first
          None,         \* an id that is not set, a file that does not exist
          Verdicts,     \* statuses a validation may come to
          MaxApprovals, \* bound: approvals of one proposal
          MaxLength,    \* bound: no apply starts on a longer file
          MaxCrashes    \* bound: deaths of commands

ASSUME AgentAssumption ==
  /\ OpsOf \in [Proposal -> Seq(Op)]
  /\ Refusable \subseteq Proposal
  /\ OldFiles \in [Path -> Content]
  /\ None \notin Proposal
  /\ Verdicts \subseteq {"passed", "partial", "failed"}
  /\ MaxApprovals \in Nat /\ MaxLength \in Nat /\ MaxCrashes \in Nat

VARIABLES
  tasks,      \* tasks/<task>.json
  proposals,  \* proposals/<proposal>.json
  approvals,  \* proposals with a record under approvals/
  applies,    \* proposals with a saved apply result
  latest,     \* status in validations/latest_validation.json
  reports,    \* reports/agent-<task>.json
  outcomes,   \* task_outcomes/<task>.json
  files,      \* the project's files
  snapshot,   \* the last snapshot under applies/
  proc,       \* the command each process is in
  crashes,
  ordered,    \* history: proposals an operator asked to approve
  touched,    \* history: files changed by apply commands of a proposal
  base,       \* history: the project's files when the last snapshot was taken
  given,      \* history: approvals saved for a proposal
  completed   \* history: applications of a proposal that ran to the end

memory  == <<tasks, proposals, approvals, applies, latest, reports, outcomes>>
history == <<ordered, touched, base, given, completed>>
vars    == <<memory, files, snapshot, proc, crashes, history>>

TaskStatus     == {"Created", "Planned", "Proposed", "Blocked", "Approved", "Applied",
                   "Reported", "Completed"}
TaskRecord     == [status : TaskStatus, planned : BOOLEAN, proposal : Proposal \cup {None},
                   approval : Proposal \cup {None}, apply : Proposal \cup {None}]
ProposalRecord == [task : Task, status : {"AwaitingApproval", "Refused", "Approved", "Applied"},
                   approved : BOOLEAN]
ReportRecord   == [planned : BOOLEAN, proposal : Proposal \cup {None}, changed : SUBSET Path]
OutcomeRecord  == [success : BOOLEAN, applied : BOOLEAN, reason : {"none", "blockers",
                   "not_approved", "partial", "failed"}, changed : SUBSET Path,
                   proposal : Proposal \cup {None}]

(* An unset id or missing file is no record. *)
ASSUME NoneAssumption == None \notin TaskRecord /\ None \notin ProposalRecord

NewTask == [status |-> "Created", planned |-> FALSE, proposal |-> None, approval |-> None,
            apply |-> None]
NoDraft == [task |-> None, status |-> "AwaitingApproval", approved |-> FALSE]
Idle    == [step |-> "idle", task |-> None, item |-> None, copy |-> NewTask, draft |-> NoDraft,
            next |-> 0]

Steps == {"idle", "plan", "inner plan", "propose", "record proposal", "approve",
          "record approval", "approve task", "apply", "record apply", "save result"}
ProcState == [step : Steps, task : Task \cup {None}, item : Proposal \cup {None},
              copy : TaskRecord, draft : ProposalRecord \cup {NoDraft}, next : Nat]

TypeOK ==
  /\ tasks \in [Task -> TaskRecord \cup {None}]
  /\ proposals \in [Proposal -> ProposalRecord \cup {None}]
  /\ approvals \subseteq Proposal /\ applies \subseteq Proposal
  /\ latest \in {"none", "passed", "partial", "failed"}
  /\ reports \in [Task -> ReportRecord \cup {None}]
  /\ outcomes \in [Task -> OutcomeRecord \cup {None}]
  /\ files \in [Path -> Content]
  /\ snapshot # None => snapshot.of \in Proposal
  /\ proc \in [Proc -> ProcState]
  /\ crashes \in Nat
  /\ ordered \subseteq Proposal
  /\ touched \in [Proposal -> SUBSET Path]
  /\ base \in [Path -> Content]
  /\ given \in [Proposal -> Nat] /\ completed \in [Proposal -> Nat]

Init ==
  /\ tasks = [t \in Task |-> None]
  /\ proposals = [x \in Proposal |-> None]
  /\ approvals = {} /\ applies = {}
  /\ latest = "none"
  /\ reports = [t \in Task |-> None]
  /\ outcomes = [t \in Task |-> None]
  /\ files = OldFiles
  /\ snapshot = None
  /\ proc = [p \in Proc |-> Idle]
  /\ crashes = 0
  /\ ordered = {}
  /\ touched = [x \in Proposal |-> {}]
  /\ base = OldFiles
  /\ given = [x \in Proposal |-> 0] /\ completed = [x \in Proposal |-> 0]

At(p, step) == proc[p].step = step
Become(p, state) == proc' = [proc EXCEPT ![p] = state]
Finish(p) == Become(p, Idle)

-----------------------------------------------------------------------------
(* Outcomes *)

(* infer_failure_reason; the apply results that are saved have no blockers. *)
FailureReason(k, saved) ==
  IF k.proposal # None /\ k.proposal \in Refusable             THEN "blockers"
  ELSE IF k.proposal # None /\ ~ saved[k.proposal].approved     THEN "not_approved"
  ELSE IF latest \in {"partial", "failed"}                      THEN latest
  ELSE "none"

ChangedFiles(k) == IF k.apply # None /\ k.apply \in applies THEN PathsOf(OpsOf[k.apply]) ELSE {}

(* build_task_outcome.  run_validation never sets a task's validation_id, so the
   latest validation is taken, whenever and for whatever it ran. *)
OutcomeOf(k, saved) ==
  LET applied == k.apply # None /\ k.apply \in applies IN
  [success |-> applied /\ latest = "passed", applied |-> applied,
   reason |-> FailureReason(k, saved), changed |-> ChangedFiles(k), proposal |-> k.proposal]

-----------------------------------------------------------------------------
(* task, plan, propose *)

CreateTask(p, t) ==
  /\ At(p, "idle")
  /\ tasks[t] = None
  /\ tasks' = [tasks EXCEPT ![t] = NewTask]
  /\ UNCHANGED <<proposals, approvals, applies, latest, reports, outcomes, files, snapshot, proc,
                 crashes, history>>

(* Mutant: a task that cannot be loaded is planned all the same. *)
PlanBeginUnloaded(p, t) ==
  /\ At(p, "idle")
  /\ Become(p, [Idle EXCEPT !.step = "plan", !.task = t, !.copy = tasks[t]])
  /\ UNCHANGED <<memory, files, snapshot, crashes, history>>

PlanBegin(p, t) ==
  /\ At(p, "idle")
  /\ tasks[t] # None
  /\ Become(p, [Idle EXCEPT !.step = "plan", !.task = t, !.copy = tasks[t]])
  /\ UNCHANGED <<memory, files, snapshot, crashes, history>>

SavePlan(p) == tasks' = [tasks EXCEPT ![proc[p].task] =
                           [proc[p].copy EXCEPT !.status = "Planned", !.planned = TRUE]]

PlanEnd(p) ==
  /\ At(p, "plan")
  /\ SavePlan(p)
  /\ Finish(p)
  /\ UNCHANGED <<proposals, approvals, applies, latest, reports, outcomes, files, snapshot,
                 crashes, history>>

(* propose_task_with_provider plans a task that has no plan.  It keeps the task
   it loaded before that. *)
ProposeBegin(p, t) ==
  /\ At(p, "idle")
  /\ tasks[t] # None
  /\ Become(p, [Idle EXCEPT !.step = IF tasks[t].planned THEN "propose" ELSE "inner plan",
                            !.task = t, !.copy = tasks[t]])
  /\ UNCHANGED <<memory, files, snapshot, crashes, history>>

InnerPlan(p) ==
  /\ At(p, "inner plan")
  /\ SavePlan(p)
  /\ proc' = [proc EXCEPT ![p].step = "propose"]
  /\ UNCHANGED <<proposals, approvals, applies, latest, reports, outcomes, files, snapshot,
                 crashes, history>>

ProposeSave(p, x) ==
  /\ At(p, "propose")
  /\ proposals[x] = None
  /\ proposals' = [proposals EXCEPT ![x] =
       [task |-> proc[p].task, approved |-> FALSE,
        status |-> IF x \in Refusable THEN "Refused" ELSE "AwaitingApproval"]]
  /\ proc' = [proc EXCEPT ![p].step = "record proposal", ![p].item = x]
  /\ UNCHANGED <<tasks, approvals, applies, latest, reports, outcomes, files, snapshot, crashes,
                 history>>

ProposeRecord(p) ==
  LET t == proc[p].task
      x == proc[p].item
      refused == x \in Refusable
  IN /\ At(p, "record proposal")
     /\ tasks' = [tasks EXCEPT ![t] =
          [proc[p].copy EXCEPT !.status = IF refused THEN "Blocked" ELSE "Proposed",
                               !.proposal = x]]
     /\ outcomes' = IF refused
                    THEN [outcomes EXCEPT ![t] = OutcomeOf(tasks'[t], proposals)]
                    ELSE outcomes
     /\ Finish(p)
     /\ UNCHANGED <<proposals, approvals, applies, latest, reports, files, snapshot, crashes,
                    history>>

-----------------------------------------------------------------------------
(* approve: an applied proposal can be approved again. *)

Approvable(x) ==
  /\ proposals[x] # None
  /\ x \notin Refusable
  /\ proposals[x].status # "Refused"

ApproveBegin(p, x) ==
  /\ At(p, "idle")
  /\ Approvable(x)
  /\ given[x] < MaxApprovals
  /\ ordered' = ordered \cup {x}
  /\ Become(p, [Idle EXCEPT !.step = "approve", !.item = x, !.draft = proposals[x]])
  /\ UNCHANGED <<memory, files, snapshot, crashes, touched, base, given, completed>>

ApproveSave(p) ==
  LET x == proc[p].item IN
  /\ At(p, "approve")
  /\ proposals' = [proposals EXCEPT ![x] =
       [proc[p].draft EXCEPT !.status = "Approved", !.approved = TRUE]]
  /\ given' = [given EXCEPT ![x] = @ + 1]
  /\ proc' = [proc EXCEPT ![p].step = "record approval"]
  /\ UNCHANGED <<tasks, approvals, applies, latest, reports, outcomes, files, snapshot, crashes,
                 ordered, touched, base, completed>>

ApproveRecord(p) ==
  /\ At(p, "record approval")
  /\ approvals' = approvals \cup {proc[p].item}
  /\ proc' = [proc EXCEPT ![p].step = "approve task"]
  /\ UNCHANGED <<tasks, proposals, applies, latest, reports, outcomes, files, snapshot, crashes,
                 history>>

ApproveTask(p) ==
  LET t == proc[p].draft.task IN
  /\ At(p, "approve task")
  /\ tasks' = [tasks EXCEPT ![t] = [@ EXCEPT !.status = "Approved", !.approval = proc[p].item]]
  /\ Finish(p)
  /\ UNCHANGED <<proposals, approvals, applies, latest, reports, outcomes, files, snapshot, crashes,
                 history>>

-----------------------------------------------------------------------------
(* apply *)

(* Mutant: an awaiting proposal can be applied. *)
ApplicableAny(x) == proposals[x] # None /\ x \notin Refusable

Applicable(x) ==
  /\ proposals[x] # None
  /\ proposals[x].approved /\ proposals[x].status = "Approved"
  /\ x \notin Refusable

(* Mutant: only files that exist are put into the snapshot. *)
ExistingOnly(ops) == [f \in {g \in PathsOf(ops) : files[g] # NoFile} |-> files[f]]

(* create_snapshot: every file an operation names, before the first is written. *)
SnapshotOf(ops) == [f \in PathsOf(ops) |-> files[f]]

WithinBounds(ops) ==
  \A f \in PathsOf(ops) : files[f] # NoFile => Len(files[f]) <= MaxLength

ApplyBegin(p, x) ==
  /\ At(p, "idle")
  /\ Applicable(x)
  /\ WithinBounds(OpsOf[x])
  /\ snapshot' = [of |-> x, saved |-> SnapshotOf(OpsOf[x])]
  /\ base' = files
  /\ Become(p, [Idle EXCEPT !.step = "apply", !.item = x, !.draft = proposals[x], !.next = 1])
  /\ UNCHANGED <<memory, files, crashes, ordered, touched, given, completed>>

(* Mutant: a refused operation does not end the command. *)
ApplyOpOn(p) ==
  LET x == proc[p].item
      i == proc[p].next
      op == OpsOf[x][i]
  IN /\ At(p, "apply")
     /\ i <= Len(OpsOf[x])
     /\ IF Refusal(op, files[op.path]) = "none"
        THEN /\ files' = Perform(files, op)
             /\ touched' = [touched EXCEPT ![x] = @ \cup {op.path}]
             /\ proc' = [proc EXCEPT ![p].next = i + 1]
        ELSE /\ proc' = [proc EXCEPT ![p].step = "record apply"]
             /\ UNCHANGED <<files, touched>>
     /\ UNCHANGED <<memory, snapshot, crashes, ordered, base, given, completed>>

(* One operation.  A refused one ends the command: what the earlier ones wrote
   stays, nothing is saved, and the result lists no changed file. *)
ApplyOp(p) ==
  LET x == proc[p].item
      i == proc[p].next
      op == OpsOf[x][i]
  IN /\ At(p, "apply")
     /\ i <= Len(OpsOf[x])
     /\ IF Refusal(op, files[op.path]) = "none"
        THEN /\ files' = Perform(files, op)
             /\ touched' = [touched EXCEPT ![x] = @ \cup {op.path}]
             /\ proc' = [proc EXCEPT ![p].next = i + 1]
        ELSE Finish(p) /\ UNCHANGED <<files, touched>>
     /\ UNCHANGED <<memory, snapshot, crashes, ordered, base, given, completed>>

(* Mutant: the proposal stays Approved. *)
ApplyUnmarked(p) ==
  /\ At(p, "apply")
  /\ proc[p].next > Len(OpsOf[proc[p].item])
  /\ completed' = [completed EXCEPT ![proc[p].item] = @ + 1]
  /\ proc' = [proc EXCEPT ![p].step = "record apply"]
  /\ UNCHANGED <<memory, files, snapshot, crashes, ordered, touched, base, given>>

(* Mutant: the last operation is not waited for. *)
ApplyEarly(p) ==
  LET x == proc[p].item IN
  /\ At(p, "apply")
  /\ proc[p].next >= Len(OpsOf[x])
  /\ proposals' = [proposals EXCEPT ![x] = [proc[p].draft EXCEPT !.status = "Applied"]]
  /\ completed' = [completed EXCEPT ![x] = @ + 1]
  /\ proc' = [proc EXCEPT ![p].step = "record apply"]
  /\ UNCHANGED <<tasks, approvals, applies, latest, reports, outcomes, files, snapshot, crashes,
                 ordered, touched, base, given>>

ApplySave(p) ==
  LET x == proc[p].item IN
  /\ At(p, "apply")
  /\ proc[p].next > Len(OpsOf[x])
  /\ proposals' = [proposals EXCEPT ![x] = [proc[p].draft EXCEPT !.status = "Applied"]]
  /\ completed' = [completed EXCEPT ![x] = @ + 1]
  /\ proc' = [proc EXCEPT ![p].step = "record apply"]
  /\ UNCHANGED <<tasks, approvals, applies, latest, reports, outcomes, files, snapshot, crashes,
                 ordered, touched, base, given>>

(* The task points to the apply result before that is saved. *)
ApplyRecord(p) ==
  LET x == proc[p].item
      t == proc[p].draft.task
  IN /\ At(p, "record apply")
     /\ tasks' = [tasks EXCEPT ![t] = [@ EXCEPT !.status = "Applied", !.apply = x]]
     /\ proc' = [proc EXCEPT ![p].step = "save result"]
     /\ UNCHANGED <<proposals, approvals, applies, latest, reports, outcomes, files, snapshot,
                    crashes, history>>

SaveResult(p) ==
  /\ At(p, "save result")
  /\ applies' = applies \cup {proc[p].item}
  /\ Finish(p)
  /\ UNCHANGED <<tasks, proposals, approvals, latest, reports, outcomes, files, snapshot, crashes,
                 history>>

-----------------------------------------------------------------------------
(* validate, report, pr-summary, task-outcomes *)

Validate(p) ==
  /\ At(p, "idle")
  /\ latest' \in Verdicts
  /\ UNCHANGED <<tasks, proposals, approvals, applies, reports, outcomes, files, snapshot, proc,
                 crashes, history>>

(* build_agent_report: it reads the task before its status becomes Reported. *)
Report(p, t) ==
  /\ At(p, "idle")
  /\ tasks[t] # None
  /\ reports' = [reports EXCEPT ![t] =
       [planned |-> tasks[t].planned, proposal |-> tasks[t].proposal,
        changed |-> ChangedFiles(tasks[t])]]
  /\ tasks' = [tasks EXCEPT ![t] = [@ EXCEPT !.status = "Reported"]]
  /\ outcomes' = [outcomes EXCEPT ![t] = OutcomeOf(tasks'[t], proposals)]
  /\ UNCHANGED <<proposals, approvals, applies, latest, files, snapshot, proc, crashes, history>>

PrSummary(p, t) ==
  /\ At(p, "idle")
  /\ tasks[t] # None
  /\ tasks' = [tasks EXCEPT ![t] = [@ EXCEPT !.status = "Completed"]]
  /\ outcomes' = [outcomes EXCEPT ![t] = OutcomeOf(tasks'[t], proposals)]
  /\ UNCHANGED <<proposals, approvals, applies, latest, reports, files, snapshot, proc, crashes,
                 history>>

RefreshOutcomes(p) ==
  /\ At(p, "idle")
  /\ outcomes' = [t \in Task |-> IF tasks[t] = None THEN outcomes[t]
                                 ELSE OutcomeOf(tasks[t], proposals)]
  /\ UNCHANGED <<tasks, proposals, approvals, applies, latest, reports, files, snapshot, proc,
                 crashes, history>>

Crash(p) ==
  /\ ~ At(p, "idle")
  /\ crashes < MaxCrashes
  /\ crashes' = crashes + 1
  /\ Finish(p)
  /\ UNCHANGED <<memory, files, snapshot, history>>

Begin(p) ==
  \/ \E t \in Task : CreateTask(p, t) \/ PlanBegin(p, t) \/ ProposeBegin(p, t) \/ Report(p, t)
                     \/ PrSummary(p, t)
  \/ \E x \in Proposal : ApproveBegin(p, x) \/ ApplyBegin(p, x)
  \/ Validate(p)
  \/ RefreshOutcomes(p)

Proceed(p) ==
  \/ PlanEnd(p) \/ InnerPlan(p)
  \/ \E x \in Proposal : ProposeSave(p, x)
  \/ ProposeRecord(p)
  \/ ApproveSave(p) \/ ApproveRecord(p) \/ ApproveTask(p)
  \/ ApplyOp(p) \/ ApplySave(p) \/ ApplyRecord(p) \/ SaveResult(p)

Next == \E p \in Proc : Begin(p) \/ Proceed(p) \/ Crash(p)

Spec == Init /\ [][Next]_vars

-----------------------------------------------------------------------------
(* Properties *)

(* The project's files change only under a proposal an operator asked to approve,
   never under one with blockers, with any number of commands at once: no proposal
   can apply itself (approve.rs, apply.rs, docs/agent_proposal_apply.md). *)
WrittenUnderApproval ==
  \A x \in Proposal : touched[x] # {} => x \in ordered /\ x \notin Refusable

Resolves(k, saved, approved, done) ==
  /\ k.proposal # None => saved[k.proposal] # None
  /\ k.approval # None => k.approval \in approved
  /\ k.apply # None => done[k.apply] > 0

LinksSaved ==
  \A t \in Task : tasks[t] # None => Resolves(tasks[t], proposals, approvals, completed)

(* Apply results that are saved or being saved; a command that died may have left its own out. *)
Results == IF crashes > 0 THEN Proposal
           ELSE applies \cup {proc[p].item : p \in {q \in Proc : At(q, "save result")}}

(* What a task names is there, whatever commands race on its file and wherever one dies: the
   proposal and the approval are saved, and the apply ran to its end.  The task names an apply
   before its result is saved: only while the command is at that, or after a death, is the result
   of an apply that a task names not there (the order of the saves in propose.rs, approve.rs and
   apply.rs). *)
LinksResolve ==
  /\ LinksSaved
  /\ \A t \in Task : tasks[t] # None => tasks[t].apply \in Results \cup {None}

(* What makes the two inductive.  A command keeps what it loaded: the copy of a task
   names saved records only; a proposal that is being approved or applied was asked
   for, has no blockers and its task exists; the result of an apply is recorded when
   it ran to its end. *)
CommandOK(s, known, saved, approved, done, asked) ==
  /\ s.step \in {"plan", "inner plan", "propose", "record proposal"} =>
       s.task \in Task /\ known[s.task] # None /\ Resolves(s.copy, saved, approved, done)
  /\ s.step = "record proposal" => s.item \in Proposal /\ saved[s.item] # None
  /\ s.step \in {"approve", "record approval", "approve task", "apply", "record apply",
                "save result"} =>
       /\ s.item \in asked /\ s.item \notin Refusable /\ saved[s.item] # None
       /\ s.draft \in ProposalRecord /\ known[s.draft.task] # None
  /\ s.step = "approve task" => s.item \in approved
  /\ s.step = "apply" => s.next > 0
  /\ s.step \in {"record apply", "save result"} => done[s.item] > 0

(* A saved proposal belongs to a saved task and is approved only if it was asked for. *)
ProposalOK(x, known, saved, asked) ==
  saved[x] # None => /\ known[saved[x].task] # None
                     /\ saved[x].approved => x \in asked /\ x \notin Refusable

(* The inductive invariant behind WrittenUnderApproval and LinksSaved: what commands
   hold and what the files say stays in step however the commands interleave. *)
AgentInv ==
  /\ WrittenUnderApproval
  /\ LinksSaved
  /\ \A x \in Proposal : ProposalOK(x, tasks, proposals, ordered)
  /\ \A p \in Proc : CommandOK(proc[p], tasks, proposals, approvals, completed, ordered)

(* With one operator, putting the last snapshot back yields the files as they were
   before its apply: after a refusal in the middle, a death, or a completed apply
   (snapshot.rs create_snapshot). *)
SnapshotRestores ==
  snapshot # None =>
    [f \in Path |-> IF f \in DOMAIN snapshot.saved THEN snapshot.saved[f] ELSE files[f]] = base

(* With one operator, an Applied proposal took effect whole: all its operations, in
   order, on the files the apply found (apply.rs apply_proposal). *)
AppliedIsComplete ==
  \A x \in Proposal :
    proposals[x] # None /\ proposals[x].status = "Applied" /\ snapshot.of = x
      => PerformAll(base, OpsOf[x]) = [files |-> files, reason |-> "none"]

(* With one operator, an approval lets a proposal be applied to the end once, deaths
   and refused attempts in between included (apply.rs, the Applied status). *)
AppliedOncePerApproval == \A x \in Proposal : completed[x] <= given[x]

=============================================================================
