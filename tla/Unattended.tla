------------------------------ MODULE Unattended ------------------------------
(***************************************************************************)
(* Unattended evolution: a campaign runs several cycles of one task, a     *)
(* bounded run several campaigns of one cycle each, a supervised run       *)
(* several bounded runs, and between them the task is redrafted.           *)
(*                                                                         *)
(* One such command runs at a time; beside it an operator runs cycles and  *)
(* promotes candidates (EvolutionCycle and Governance say how).  Each      *)
(* reads the others' effects from the log, the candidates and sandboxes/.  *)
(* The files only written here, or derived anew from others (reports,      *)
(* reviews, portfolio, policy, queue), are left out.                       *)
(***************************************************************************)
EXTENDS CampaignReport

CONSTANTS
  TaskId, Contract,       \* tasks, and the contract an operator wrote for each
  PlanSets,               \* plans the graph may give; learning changes them
  GraphFiles,             \* files of the graph before
  Strategy,               \* strategies that the memories may speak for
  NoPolicy,               \* no evolution policy on file
  RunsBefore,             \* entries of the log before, with full gates
  PassedBefore,           \* of which passed by the metrics
  ReplaysBefore,          \* replay_passed of the metrics before
  HasBenchmark,           \* whether benchmarks/ holds one
  NoTask,                 \* no contract on file
  MaxCommands, MaxCycles, \* bounds: commands, and cycles, that ever begin
  MaxAsked,               \* bound: rounds or cycles asked for
  MaxOthers, MaxDeaths    \* bounds: the operator's doings, and deaths

ASSUME UnattendedAssumption ==
  /\ Contract \in [TaskId -> Task]
  /\ PlanSets \subseteq SUBSET Plan /\ \A plans \in PlanSets : IsFiniteSet(plans)
  /\ GraphFiles \subseteq Target /\ Strategy \subseteq DOMAIN StrategyKinds /\ Strategy # {}
  /\ RunsBefore \in Nat /\ PassedBefore \in 0..RunsBefore /\ ReplaysBefore \in Nat
  /\ HasBenchmark \in BOOLEAN
  /\ NoTask \notin Task
  /\ {MaxCommands, MaxCycles, MaxAsked, MaxOthers, MaxDeaths} \subseteq Nat
  /\ MaxAsked <= 10

VARIABLES
  cmd,         \* the command at work
  stored,      \* tasks/<id>.task.json
  adjusted,    \* tasks/adjusted/<id>.adjusted.task.json
  campaigns,   \* campaigns/<id>.json, in the order of their ids
  boundedRuns, \* bounded_runs/<id>.json
  supervised,  \* supervised_runs/<id>.json
  log,         \* evolution.jsonl, after what RunsBefore counts
  candidates,  \* candidates on file
  replays,     \* replays/<run>.json: how the last recorded replay of a run ended
  policy,      \* evolution_policy.json: the kinds it allows
  leaked,      \* sandboxes left behind
  theirs,      \* the operator's sandboxes: at work, and left since a campaign last asked the gate
  made,        \* history: runs each campaign's own cycles logged
  count        \* how many commands, cycles, others' doings and deaths there were

vars == <<cmd, stored, adjusted, campaigns, boundedRuns, supervised, log, candidates, replays,
          policy, leaked, theirs, made, count>>

Digest == Target \X Kind
Entry  == [run : Nat, digest : Digest, duplicate : BOOLEAN,
           status : {"failed", "passed", "candidate", "promoted"}]
Candidate == [run : Nat, digest : Digest, sound : BOOLEAN]

Bounded == [task : TaskId, campaigns : Seq(Nat), candidates : Seq(Nat), ready : Seq(Nat),
            zeroYield : Seq(Nat), drafts : Nat, leaks : Nat]
Status == {"running", "safety_stop", "promotion_ready_candidate_found", "zero_yield_exhausted",
           "no_progress", "replay_failed_exhausted", "max_rounds_reached"}
Supervised == [bounded : Seq(Bounded), ready : SUBSET Nat, rejected : SUBSET Nat,
               zeroYields : Nat, failures : Nat, status : Status]

Level == {"campaign", "bounded", "supervised"}
Path  == {"given", "stored", "adjusted"}
Step  == {"round", "open", "cycle", "record", "replay", "adjust", "again", "review", "finish",
          "collect", "end"}
Review == [ok : BOOLEAN, allowed : BOOLEAN, promoted : BOOLEAN]

Idle == [step |-> "idle"]
Command ==
  [step : Step, level : Level, id : TaskId, path : Path,
   task : Task,         \* the contract loaded last
   rounds : Nat,        \* supervised rounds left
   turns : Nat,         \* campaigns of the bounded run left
   cycles : Nat,        \* cycles of the campaign left
   before : Nat,        \* run of the last entry before the cycle
   ended : {"ok", "error"},
   found : Nat,         \* run of the entry taken for the cycle's
   review : Review,
   report : Report, own : SUBSET Nat,
   todo : Seq(Nat),     \* candidates still to be replayed and reviewed
   bounded : Bounded, supervised : Supervised]

TypeOK ==
  /\ cmd \in Command \cup {Idle}
  /\ stored \in [TaskId -> Task \cup {NoTask}]
  /\ adjusted \in [TaskId -> Task \cup {NoTask}]
  /\ campaigns \in Seq(Report)
  /\ boundedRuns \in Seq(Bounded)
  /\ supervised \in Seq(Supervised)
  /\ log \in Seq(Entry)
  /\ candidates \subseteq Candidate
  /\ DOMAIN replays \subseteq Nat /\ \A r \in DOMAIN replays : replays[r] \in BOOLEAN
  /\ policy \in (SUBSET SafeKinds) \cup {NoPolicy}
  /\ leaked \in Nat /\ theirs \in [live : Nat, stray : Nat]
  /\ made \in Seq(SUBSET Nat)
  /\ count \in [{"commands", "cycles", "others", "deaths"} -> Nat]

Init ==
  /\ cmd = Idle
  /\ stored = [t \in TaskId |-> NoTask] /\ adjusted = [t \in TaskId |-> NoTask]
  /\ campaigns = <<>> /\ boundedRuns = <<>> /\ supervised = <<>>
  /\ log = <<>> /\ candidates = {} /\ replays = <<>>
  /\ policy = NoPolicy /\ leaked = 0 /\ theirs = [live |-> 0, stray |-> 0]
  /\ made = <<>>
  /\ count = [c \in {"commands", "cycles", "others", "deaths"} |-> 0]

At(step) == cmd.step = step
Counted(c) == count' = [count EXCEPT ![c] = @ + 1]

-----------------------------------------------------------------------------
(* The autonomy gate *)

Runs == RunsBefore + Len(log)
Logged(s) == {i \in DOMAIN log : log[i].status \in s /\ ~ log[i].duplicate}
Sandboxes == leaked + theirs.live + theirs.stray

(* Mutant: sandboxes left behind do not matter to the gate. *)
AutonomousDespiteLeaks ==
  /\ Runs >= 10
  /\ (PassedBefore + Cardinality(Logged({"passed", "candidate"}))) * 10 >= 8 * Runs
  /\ ReplaysBefore + Cardinality({r \in DOMAIN replays : replays[r]}) >= 3

(* Level 3 of autonomy_status.  No command logs a forbidden target. *)
Autonomous ==
  /\ Runs >= 10
  /\ (PassedBefore + Cardinality(Logged({"passed", "candidate"}))) * 10 >= 8 * Runs
  /\ Sandboxes = 0
  /\ ReplaysBefore + Cardinality({r \in DOMAIN replays : replays[r]}) >= 3
  /\ Logged({"candidate", "promoted"}) # {} \/ ReplaysBefore > 0
  /\ Cardinality({log[i].digest : i \in {j \in DOMAIN log : log[j].status \in {"failed", "passed"}}})
       * 10 <= 3 * Runs

(* recent_gate_summary: at least nine of the last ten trials passed every gate. *)
Stable ==
  LET trials == SelectSeq(log, LAMBDA e : ~ e.duplicate /\ e.status # "promoted")
      recent == SubSeq(trials, IF Len(trials) > 10 THEN Len(trials) - 9 ELSE 1, Len(trials))
      checked == Least(10, RunsBefore + Len(trials))
      failed == Len(SelectSeq(recent, LAMBDA e : e.status # "candidate"))
  IN failed = 0 \/ (checked - failed) * 10 >= 9 * checked

MaxCampaignCycles == IF Runs >= 40 /\ ReplaysBefore >= 8 THEN 50 ELSE 20

-----------------------------------------------------------------------------
(* Candidates *)

ReplayOk(run) == run \in DOMAIN replays /\ replays[run]
Promoted == {log[i].digest : i \in {j \in DOMAIN log : log[j].status = "promoted"}}
Gone(run) == \E c \in candidates : c.run = run /\ c.digest \in Promoted

(* review_candidate; the blockers no later step changes are the candidate's soundness. *)
Allowed(run) ==
  /\ \E c \in candidates : c.run = run /\ c.sound
  /\ ReplayOk(run) /\ ~ Gone(run)
  /\ Autonomous /\ Stable
ReviewOf(run) == [ok |-> ReplayOk(run), allowed |-> Allowed(run), promoted |-> Gone(run)]

(* should_reject_duplicate_bad: the last trial of the mutation was no use. *)
KnownBad(d) ==
  \E i \in DOMAIN log : /\ log[i].digest = d /\ log[i].status \in {"failed", "passed"}
                        /\ \A j \in DOMAIN log : (j > i /\ log[j].digest = d)
                                                   => log[j].status # "candidate"

(* repeated_target_overused: six of the last ten candidates are about the generated tests. *)
Overused ==
  LET recent == {c \in candidates :
                   Cardinality({e \in candidates : e.run > c.run}) < 10}
      repeated == {c \in recent : c.digest[1] = GeneratedTests}
  IN recent # {} /\ Cardinality(repeated) * 10 >= Cardinality(recent) * 6

LastRun == IF log = <<>> THEN 0 ELSE log[Len(log)].run
NewRun  == 1 + Len(log)

-----------------------------------------------------------------------------
(* Beginnings and ends *)

EmptyBounded(t) == [task |-> t, campaigns |-> <<>>, candidates |-> <<>>, ready |-> <<>>,
                    zeroYield |-> <<>>, drafts |-> 0, leaks |-> 0]
EmptySupervised == [bounded |-> <<>>, ready |-> {}, rejected |-> {}, zeroYields |-> 0,
                    failures |-> 0, status |-> "running"]
NoReview == [ok |-> FALSE, allowed |-> FALSE, promoted |-> FALSE]

FileAt(t, path) ==
  CASE path = "given" -> Contract[t] [] path = "stored" -> stored[t] [] OTHER -> adjusted[t]

(* load_task_contract and validate_task_contract *)
Loadable(t, path) == FileAt(t, path) # NoTask /\ Valid(FileAt(t, path))

Become(next) == cmd' = next
Go(step) == Become([cmd EXCEPT !.step = step])
Stop == Become(Idle)

(* run_task_from_path, run_bounded_evolution, supervise_task: a task file, and how many
   rounds or cycles were asked for. *)
Begin(level, t, path, n) ==
  /\ At("idle")
  /\ count["commands"] < MaxCommands
  /\ Loadable(t, path)
  /\ level = "campaign" => n = 1
  /\ Become([step |-> IF level = "supervised" THEN "round" ELSE "open",
             level |-> level, id |-> t, path |-> path, task |-> FileAt(t, path),
             rounds |-> n, turns |-> Least(n, MaxCampaignCycles), cycles |-> 0,
             before |-> 0, ended |-> "ok", found |-> 0,
             review |-> NoReview, report |-> EmptyReport, own |-> {}, todo |-> <<>>,
             bounded |-> EmptyBounded(t), supervised |-> EmptySupervised])
  /\ level = "bounded" => Autonomous
  /\ Counted("commands")
  /\ UNCHANGED <<stored, adjusted, campaigns, boundedRuns, supervised, log, candidates, replays,
                 policy, leaked, theirs, made>>

(* A round of supervise_task: the task at the current path, as many campaigns as it has
   cycles, between one and ten; run_bounded_evolution asks the gate again. *)
Round ==
  /\ At("round")
  /\ IF Loadable(cmd.id, cmd.path) /\ Autonomous
     THEN LET task == FileAt(cmd.id, cmd.path)
          IN Become([cmd EXCEPT !.step = "open", !.task = task,
                       !.turns = Least(Least(task.cycles, 10), MaxCampaignCycles),
                       !.bounded = EmptyBounded(cmd.id)])
     ELSE Stop
  /\ UNCHANGED <<stored, adjusted, campaigns, boundedRuns, supervised, log, candidates, replays,
                 policy, leaked, theirs, made, count>>

(* What the loop of run_bounded_evolution stores for one campaign. *)
OneCycle(task) == [task EXCEPT !.cycles = 1]

(* The policy is made anew for each campaign of a bounded run.  run_campaign up to its loop:
   the contract is stored under the task's id, and the gate has to let the campaign through.
   What the operator left before it counts as left behind from here on. *)
Open ==
  /\ At("open")
  /\ LET task == IF cmd.level = "campaign" THEN cmd.task ELSE OneCycle(cmd.task)
     IN /\ IF cmd.level = "campaign" THEN UNCHANGED policy
           ELSE \E strategy \in Strategy : policy' = PolicyKinds(strategy, task.kinds)
        /\ stored' = [stored EXCEPT ![cmd.id] = task]
        /\ IF Autonomous /\ task.cycles <= MaxCampaignCycles
              /\ (task.benchmark => HasBenchmark)
           THEN Become([cmd EXCEPT !.step = "cycle", !.cycles = task.cycles,
                                   !.report = EmptyReport, !.own = {}])
           ELSE Stop
  /\ leaked' = leaked + theirs.stray
  /\ theirs' = [theirs EXCEPT !.stray = 0]
  /\ UNCHANGED <<adjusted, campaigns, boundedRuns, supervised, log, candidates, replays, made,
                 count>>

-----------------------------------------------------------------------------
(* One cycle of a campaign *)

Log(d, duplicate, status) ==
  log' = Append(log, [run |-> NewRun, digest |-> d, duplicate |-> duplicate, status |-> status])

(* run_evolution_cycle_with_mutation: how a trial may end.  It gives an error when the result
   was not accepted, and when the sandbox could not be removed. *)
Trial(d, next) ==
  \/ /\ KnownBad(d)
     /\ Log(d, TRUE, "failed")
     /\ Become([next EXCEPT !.ended = "error", !.own = @ \cup {NewRun}])
     /\ UNCHANGED <<candidates, leaked>>
  \/ /\ ~ KnownBad(d)
     /\ \E status \in {"failed", "passed", "candidate"}, sound, removed \in BOOLEAN :
          /\ status # "candidate" => sound
          /\ Log(d, FALSE, status)
          /\ candidates' = IF status = "candidate"
                           THEN candidates \cup {[run |-> NewRun, digest |-> d, sound |-> sound]}
                           ELSE candidates
          /\ leaked' = IF removed THEN leaked ELSE leaked + 1
          /\ Become([next EXCEPT !.ended = IF removed /\ status # "failed" THEN "ok" ELSE "error",
                                 !.own = @ \cup {NewRun}])
  \/ (* the copy failed, or the mutation does not apply *)
     /\ ~ KnownBad(d)
     /\ leaked' \in {leaked, leaked + 1}
     /\ Become([next EXCEPT !.ended = "error"])
     /\ UNCHANGED <<log, candidates>>

Trials == {i \in DOMAIN log : log[i].status # "promoted"}

(* update_graph_for_evolution *)
InGraph == GraphFiles \cup {log[i].digest[1] : i \in Trials}

(* A trial that gave no candidate, or was refused as a duplicate, is a regression of its file:
   the worst of the kinds counts. *)
FailuresOn(file) ==
  LET failed(kind) == {i \in Trials : log[i].digest = <<file, kind>> /\ log[i].status # "candidate"}
      counts == {Cardinality(failed(kind)) : kind \in Kind}
  IN CHOOSE n \in counts : \A other \in counts : other <= n

(* One that gave a candidate is a success. *)
UnitTestsWorked ==
  \E i \in Trials : log[i].status = "candidate" /\ log[i].digest[2] = "AddUnitTest"

HypothesesNow(kinds, onFile) ==
  Hypotheses(InGraph, [file \in Target |-> FailuresOn(file)], UnitTestsWorked, kinds, onFile)

(* The planner takes the best plan the task admits, overused target or not; without an
   accepted plan the best hypothesis that fits is tried, under the policy on file or the one
   that this puts there. *)
Cycle ==
  /\ At("cycle")
  /\ cmd.cycles > 0
  /\ count["cycles"] < MaxCycles
  /\ \E plans \in PlanSets :
       LET d == Diagnosis(plans, cmd.task, Overused)
           counted == WithDiagnosis(cmd.report, d)
           next == [cmd EXCEPT !.step = "record", !.cycles = @ - 1, !.before = LastRun]
       IN IF d.accepted > 0
          THEN /\ \E p \in {q \in plans : Admits(cmd.task, q)} :
                    Trial(<<p.target, p.kind>>, [next EXCEPT !.report = counted])
               /\ UNCHANGED policy
          ELSE \E kinds \in IF policy # NoPolicy THEN {policy}
                            ELSE {PolicyKinds(strategy, {}) : strategy \in Strategy} :
               LET fits  == {h \in HypothesesNow(kinds, policy # NoPolicy) : Fits(cmd.task, h)}
                   tried == [next EXCEPT !.report = WithFallback(counted, fits # {})]
               IN /\ policy' = kinds
                  /\ IF fits # {} THEN \E h \in fits : Trial(<<h.target, h.kind>>, tried)
                     ELSE /\ Become([tried EXCEPT !.ended = "error"])
                          /\ UNCHANGED <<log, candidates, leaked>>
  /\ Counted("cycles")
  /\ UNCHANGED <<stored, adjusted, campaigns, boundedRuns, supervised, replays, theirs, made>>

Last == log[Len(log)]

(* Mutant: an error is a duplicate's if the last entry of the log is one. *)
BlindErrorCounts == IF log # <<>> /\ Last.duplicate THEN DuplicateCounts ELSE ErrorCounts

(* After an error the last entry tells, if it is a new one, whether it was a duplicate's. *)
ErrorCountsNow ==
  IF LastRun # cmd.before /\ Last.duplicate THEN DuplicateCounts ELSE ErrorCounts

(* After a cycle that ended well the last entry is taken for its entry, whoever wrote it. *)
Record ==
  /\ At("record")
  /\ LET seen == EntryCounts(Last.status)
         report == [cmd.report EXCEPT !.leaks = @ + Sandboxes]
         done(r) == Become([cmd EXCEPT !.step = "cycle", !.report = r])
     IN \/ cmd.ended = "error" /\ done(Raise(cmd.report, ErrorCountsNow))
        \/ /\ cmd.ended = "ok"
           /\ Last.duplicate
           /\ done(Raise(cmd.report, seen \cup Rejection("duplicate")))
        \/ /\ cmd.ended = "ok"
           /\ ~ Last.duplicate /\ Last.status # "candidate"
           /\ done(Raise(report, seen \cup Rejection("notUseful")))
        \/ /\ cmd.ended = "ok"
           /\ Last.status = "candidate" /\ 100 < cmd.task.minScore
           /\ done(Raise(report, seen \cup Rejection("belowScore")))
        \/ /\ cmd.ended = "ok"
           /\ Last.status = "candidate" /\ 100 >= cmd.task.minScore
           /\ Become([cmd EXCEPT !.step = "replay", !.found = Last.run,
                                 !.review = ReviewOf(Last.run), !.report = Raise(report, seen)])
  /\ UNCHANGED <<stored, adjusted, campaigns, boundedRuns, supervised, log, candidates, replays,
                 policy, leaked, theirs, made, count>>

(* write_replay_result *)
Recorded(run, ok) ==
  replays' = [r \in DOMAIN replays \cup {run} |-> IF r = run THEN ok ELSE replays[r]]

(* replay_candidate: an error leaves no record, and perhaps a sandbox. *)
Replay(run, result) ==
  \/ /\ result \in {"ok", "failed"}
     /\ Recorded(run, result = "ok")
     /\ UNCHANGED leaked
  \/ /\ result = "error"
     /\ leaked' \in {leaked, leaked + 1}
     /\ UNCHANGED replays

(* The candidate was reviewed before this replay: what the review says of its replay is what
   an earlier one gave. *)
ReplayAndCount ==
  /\ At("replay")
  /\ LET found == IF cmd.review.promoted THEN Rejection("alreadyPromoted")
                  ELSE UsefulCounts(cmd.review.allowed)
         kept == IF cmd.review.promoted THEN cmd.report
                 ELSE [cmd.report EXCEPT !.candidates = Append(@, cmd.found)]
         done(r) == Become([cmd EXCEPT !.step = "cycle", !.report = r])
     IN IF cmd.task.replay
        THEN \E result \in {"ok", "failed", "error"} :
               /\ Replay(cmd.found, result)
               /\ done(Raise(Raise(kept, ReplayCounts(result # "error" /\ cmd.review.ok)), found))
        ELSE done(Raise(kept, found)) /\ UNCHANGED <<replays, leaked>>
  /\ UNCHANGED <<stored, adjusted, campaigns, boundedRuns, supervised, log, candidates, policy,
                 theirs, made, count>>

(* The end of run_campaign: its report is written. *)
Close ==
  /\ At("cycle")
  /\ cmd.cycles = 0
  /\ LET report == Closed(cmd.report, Sandboxes)
     IN /\ campaigns' = Append(campaigns, report)
        /\ made' = Append(made, cmd.own)
        /\ IF cmd.level = "campaign" THEN Stop
           ELSE Become([cmd EXCEPT !.step = "adjust", !.report = report])
  /\ UNCHANGED <<stored, adjusted, boundedRuns, supervised, log, candidates, replays, policy,
                 leaked, theirs, count>>

-----------------------------------------------------------------------------
(* The bounded run around the campaigns *)

Cid == Len(campaigns)

(* adjust_task_from_campaign: the draft is made from the task as stored for the campaign. *)
Adjust ==
  /\ At("adjust")
  /\ LET report == cmd.report
         draft == Adjusted(stored[cmd.id], report.reason)
         drafted == /\ report.count["useful"] = 0
                    /\ report.reason \in DraftReason
                    /\ ValidDraft(draft, stored[cmd.id])
     IN /\ adjusted' = IF drafted THEN [adjusted EXCEPT ![cmd.id] = draft] ELSE adjusted
        /\ Become([cmd EXCEPT
             !.step = "again", !.todo = report.candidates,
             !.bounded.campaigns = Append(@, Cid),
             !.bounded.leaks = @ + report.leaks,
             !.bounded.zeroYield = IF report.count["useful"] = 0 THEN Append(@, Cid) ELSE @,
             !.bounded.drafts = IF drafted THEN @ + 1 ELSE @])
  /\ UNCHANGED <<stored, campaigns, boundedRuns, supervised, log, candidates, replays, policy,
                 leaked, theirs, made, count>>

(* Each candidate is replayed once more, whatever that gives, and then reviewed. *)
Again ==
  /\ At("again")
  /\ cmd.todo # <<>>
  /\ IF cmd.task.replay THEN \E result \in {"ok", "failed", "error"} : Replay(cmd.todo[1], result)
     ELSE UNCHANGED <<replays, leaked>>
  /\ Go("review")
  /\ UNCHANGED <<stored, adjusted, campaigns, boundedRuns, supervised, log, candidates, policy,
                 theirs, made, count>>

ReviewAgain ==
  /\ At("review")
  /\ cmd.todo # <<>>
  /\ LET run == cmd.todo[1]
     IN Become([cmd EXCEPT !.step = "again", !.todo = Tail(@),
                           !.bounded.candidates = Append(@, run),
                           !.bounded.ready = IF Allowed(run) THEN Append(@, run) ELSE @])
  /\ UNCHANGED <<stored, adjusted, campaigns, boundedRuns, supervised, log, candidates, replays,
                 policy, leaked, theirs, made, count>>

(* Mutant: a campaign's report stays as the campaign wrote it. *)
LeftAsWritten(report) == report

(* reconcile_campaign_candidate_state, on the report with the campaign's id. *)
Refreshed(report) ==
  LET runs == {c.run : c \in candidates}
  IN Reconciled(report, stored[cmd.id].replay, {r \in runs : ReplayOk(r)},
                {r \in runs : Allowed(r)}, {r \in runs : Gone(r)})

(* Mutant: a leak does not end the bounded run. *)
StopsOnlyWhenReady == cmd.bounded.ready # <<>>

(* A candidate that is ready, or a sandbox left over, ends the bounded run. *)
StopsNow == cmd.bounded.ready # <<>> \/ cmd.report.leaks > 0

(* Mutant: the number of campaigns asked for is no limit. *)
NeverLast == FALSE

LastTurn == cmd.turns = 1

Reconcile ==
  /\ At("again")
  /\ cmd.todo = <<>>
  /\ campaigns' = [campaigns EXCEPT ![Cid] = Refreshed(@)]
  /\ Become([cmd EXCEPT !.turns = @ - 1,
                        !.step = IF StopsNow \/ LastTurn THEN "finish" ELSE "open"])
  /\ UNCHANGED <<stored, adjusted, boundedRuns, supervised, log, candidates, replays, policy,
                 leaked, theirs, made, count>>

(* write_bounded_run *)
Finish ==
  /\ At("finish")
  /\ boundedRuns' = Append(boundedRuns, cmd.bounded)
  /\ IF cmd.level = "bounded" THEN Stop ELSE Go("collect")
  /\ UNCHANGED <<stored, adjusted, campaigns, supervised, log, candidates, replays, policy,
                 leaked, theirs, made, count>>

-----------------------------------------------------------------------------
(* The supervisor around the bounded runs *)

Elements(s) == {s[i] : i \in DOMAIN s}
ZeroYield(b) == b.zeroYield # <<>> /\ b.candidates = <<>>
ReplayFailed(b) == \E c \in Elements(b.campaigns) : campaigns[c].count["failedReplay"] > 0

(* The run after one more round, up to the decision about the next. *)
Collected ==
  LET s == cmd.supervised
      b == cmd.bounded
      ready == {r \in Elements(b.candidates) : Allowed(r)}
  IN IF b.leaks > 0 THEN [s EXCEPT !.bounded = Append(@, b)]
     ELSE [s EXCEPT !.bounded = Append(@, b),
                    !.ready = @ \cup ready,
                    !.rejected = @ \cup (Elements(b.candidates) \ ready),
                    !.failures = IF ReplayFailed(b) THEN @ + 1 ELSE @,
                    !.zeroYields = IF ZeroYield(b) THEN @ + 1 ELSE @]

(* Mutant: one failed replay is enough to give up, as one leak is. *)
StatusAfterHasty(s, b) ==
  IF b.leaks > 0 THEN "safety_stop"
  ELSE IF s.ready # {} THEN "promotion_ready_candidate_found"
  ELSE IF ZeroYield(b)
  THEN IF s.zeroYields >= 2 THEN "zero_yield_exhausted"
       ELSE IF b.drafts > 0 THEN "running" ELSE "no_progress"
  ELSE IF ReplayFailed(b)
  THEN "replay_failed_exhausted"
  ELSE IF b.drafts = 0 /\ b.candidates = <<>> THEN "no_progress" ELSE "running"

(* The ladder of supervise_task; the safety stop comes before everything. *)
StatusAfter(s, b) ==
  IF b.leaks > 0 THEN "safety_stop"
  ELSE IF s.ready # {} THEN "promotion_ready_candidate_found"
  ELSE IF ZeroYield(b)
  THEN IF s.zeroYields >= 2 THEN "zero_yield_exhausted"
       ELSE IF b.drafts > 0 THEN "running" ELSE "no_progress"
  ELSE IF ReplayFailed(b)
  THEN IF s.failures >= 2 THEN "replay_failed_exhausted" ELSE "running"
  ELSE IF b.drafts = 0 /\ b.candidates = <<>> THEN "no_progress" ELSE "running"

(* The draft is the next round's task; without one the task stays. *)
Collect ==
  /\ At("collect")
  /\ LET s == Collected
         status == StatusAfter(s, cmd.bounded)
         last == cmd.rounds = 1
         draft == cmd.bounded.leaks = 0 /\ ZeroYield(cmd.bounded)
     IN Become([cmd EXCEPT
          !.rounds = @ - 1,
          !.step = IF status # "running" \/ last THEN "end" ELSE "round",
          !.path = IF draft THEN "adjusted" ELSE @,
          !.supervised = [s EXCEPT !.status = IF status = "running" /\ last
                                              THEN "max_rounds_reached" ELSE status]])
  /\ UNCHANGED <<stored, adjusted, campaigns, boundedRuns, supervised, log, candidates, replays,
                 policy, leaked, theirs, made, count>>

(* The queue is refreshed (Governance) and the run written. *)
End ==
  /\ At("end")
  /\ supervised' = Append(supervised, cmd.supervised)
  /\ Stop
  /\ UNCHANGED <<stored, adjusted, campaigns, boundedRuns, log, candidates, replays, policy,
                 leaked, theirs, made, count>>

-----------------------------------------------------------------------------
(* What else happens *)

(* A death; in a trial or a replay it leaves the sandbox. *)
Crash ==
  /\ ~ At("idle")
  /\ count["deaths"] < MaxDeaths
  /\ Stop
  /\ leaked' \in IF cmd.step \in {"cycle", "replay", "again"} THEN {leaked, leaked + 1} ELSE {leaked}
  /\ Counted("deaths")
  /\ UNCHANGED <<stored, adjusted, campaigns, boundedRuns, supervised, log, candidates, replays,
                 policy, theirs, made>>

(* An operator's cycle or replay makes its sandbox. *)
OthersBegin ==
  /\ count["others"] < MaxOthers
  /\ theirs' = [theirs EXCEPT !.live = @ + 1]
  /\ Counted("others")
  /\ UNCHANGED <<cmd, stored, adjusted, campaigns, boundedRuns, supervised, log, candidates,
                 replays, policy, leaked, made>>

(* It ends, or dies, or its sandbox cannot be removed: with an entry of the log, with the
   record of a replay, or with neither, where it failed before. *)
OthersEnd ==
  /\ theirs.live > 0
  /\ \E left \in {0, 1} : theirs' = [live |-> theirs.live - 1, stray |-> theirs.stray + left]
  /\ \/ \E p \in UNION PlanSets, status \in {"failed", "passed", "candidate"}, sound \in BOOLEAN :
          /\ status # "candidate" => sound
          /\ Log(<<p.target, p.kind>>, FALSE, status)
          /\ candidates' = IF status = "candidate"
                           THEN candidates \cup {[run |-> NewRun, digest |-> <<p.target, p.kind>>,
                                                  sound |-> sound]}
                           ELSE candidates
          /\ UNCHANGED replays
     \/ /\ \E c \in candidates, ok \in BOOLEAN : Recorded(c.run, ok)
        /\ UNCHANGED <<log, candidates>>
     \/ UNCHANGED <<log, candidates, replays>>
  /\ UNCHANGED <<cmd, stored, adjusted, campaigns, boundedRuns, supervised, policy, leaked, made,
                 count>>

(* An operator's cycle whose mutation is refused makes no sandbox. *)
OthersDuplicate ==
  /\ count["others"] < MaxOthers
  /\ \E p \in UNION PlanSets : /\ KnownBad(<<p.target, p.kind>>)
                               /\ Log(<<p.target, p.kind>>, TRUE, "failed")
  /\ Counted("others")
  /\ UNCHANGED <<cmd, stored, adjusted, campaigns, boundedRuns, supervised, candidates, replays,
                 policy, leaked, theirs, made>>

OthersPromote ==
  /\ count["others"] < MaxOthers
  /\ \E c \in candidates : Allowed(c.run) /\ Log(c.digest, FALSE, "promoted")
  /\ Counted("others")
  /\ UNCHANGED <<cmd, stored, adjusted, campaigns, boundedRuns, supervised, candidates, replays,
                 policy, leaked, theirs, made>>

Others == OthersBegin \/ OthersEnd \/ OthersDuplicate \/ OthersPromote

Next ==
  \/ \E level \in Level, t \in TaskId, path \in Path, n \in 1..MaxAsked : Begin(level, t, path, n)
  \/ Round \/ Open \/ Cycle \/ Record \/ ReplayAndCount \/ Close
  \/ Adjust \/ Again \/ ReviewAgain \/ Reconcile \/ Finish \/ Collect \/ End
  \/ Crash \/ Others

Spec == Init /\ [][Next]_vars

-----------------------------------------------------------------------------
(* Correctness *)

Alone == count["others"] = 0

(* In every report the cycles are the passed and the failed ones, every rejection has one
   cause, the useful ones are the candidates listed, and a replay that was asked for either
   passed or failed; whichever way a cycle ended and whatever a later recount changed. *)
CountsAgree ==
  \A r \in Elements(campaigns) \cup (IF At("idle") THEN {} ELSE {cmd.report}) :
    LET c == r.count
    IN /\ c["total"] = c["passed"] + c["failed"]
       /\ c["rejected"] = c["duplicate"] + c["failedValidator"] + c["notUseful"] + c["belowScore"]
                           + c["failedReplay"] + c["alreadyPromoted"]
       /\ c["useful"] = Len(r.candidates)
       /\ c["replayAttempted"] \in {0, c["replayPassed"] + c["replayFailed"]}
       /\ c["replayFailed"] = c["failedReplay"]

OwnRuns(c, P(_)) == {i \in DOMAIN log : log[i].run \in made[c] /\ P(log[i])}

(* Without other commands a campaign's report is about its own entries of the log: the
   duplicates it counts were logged by its cycles, its candidates too, and a candidate it
   leaves out was below the score asked for, promoted already, or left a sandbox behind. *)
ReportsMatchLog ==
  Alone =>
    \A c \in DOMAIN campaigns :
      LET r == campaigns[c]
          offered == {log[i].run : i \in OwnRuns(c, LAMBDA e : e.status = "candidate")}
          omitted == offered \ Elements(r.candidates)
      IN /\ r.count["duplicate"] = Cardinality(OwnRuns(c, LAMBDA e : e.duplicate))
         /\ Elements(r.candidates) \subseteq offered
         /\ omitted # {} => r.leaks + r.count["belowScore"] + r.count["alreadyPromoted"] > 0

Rounds(s, P(_)) == Cardinality({i \in DOMAIN s.bounded : P(s.bounded[i])})

(* Without other commands a supervised run ended the way it says: ready candidates have a
   passed replay on file, replays failed in two rounds if it gave up for that, two rounds found
   nothing if it gave up for that, a sandbox is left after a safety stop. *)
StatusIsEarned ==
  Alone =>
    \A s \in Elements(supervised) :
      /\ s.status = "promotion_ready_candidate_found" <=> s.ready # {} /\ s.status # "safety_stop"
      /\ \A r \in s.ready : ReplayOk(r)
      /\ s.status = "replay_failed_exhausted" =>
           Rounds(s, LAMBDA b : \E r \in Elements(b.candidates) : ~ ReplayOk(r)) >= 2
      /\ s.status = "zero_yield_exhausted" =>
           Rounds(s, LAMBDA b : \A c \in Elements(b.campaigns) :
                                  campaigns[c].count["useful"] = 0) >= 2
      /\ s.status = "safety_stop" => leaked > 0

(* Every campaign that found nothing for a reason with a template gives a draft, in the
   limits of a draft: its validation never refuses it. *)
DraftsAreKept ==
  /\ \A b \in Elements(boundedRuns) :
       b.drafts = Cardinality({i \in DOMAIN b.zeroYield :
                                 campaigns[b.zeroYield[i]].reason \in DraftReason})
  /\ \A t \in TaskId : adjusted[t] # NoTask => ValidDraft(adjusted[t], OneCycle(Contract[t]))

(* In a bounded or supervised run no cycle begins beside a sandbox that anyone left before its
   campaign asked the gate, or that the run itself left at any time: what the replays leave
   after the count of the leaks is found by the next gate.  One that an operator leaves between
   the gate and the cycle is noticed only when the campaign counts its leaks. *)
NothingAfterLeak == [][Cycle /\ cmd.level # "campaign" => leaked = 0]_vars
=============================================================================
