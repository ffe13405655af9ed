# Verification of eva-brain

TLA+ models of this repository (`src/`, a Rust program called EVE), the TLC
configurations that check them on small instances, and TLAPS proofs of the theorems that
matter most for every instance.  `PROJECT.json` maps every definition to the lines it models, lists
the hazards of the code with the properties that would catch them, and names for each property a plausible
bug (a mutant of a mapped definition) under which TLC finds it violated.

## 1. The system

EVE proposes small changes to a Rust project, tries them, and puts an accepted one into the
project only with an operator's consent.  It has no resident core: nearly every operation is one
command-line process that loads JSON files under `memory/`, works, and saves them whole
(`write_json`, `save_json_pretty` truncate in place; logs are appended).  Nothing locks the files,
so two terminals interleave freely, and a process that dies leaves what it had written.  The HTTP daemon is
the exception: it stays, handles each connection in a thread of its own, and runs none of the commands below.

| Part | Keeps | Operations | Hard about it | Correct when |
| --- | --- | --- | --- | --- |
| Candidate queue (`evolution/promotion_queue.rs`, `promotion/review.rs`) | `promotion_queue.json`, reports | refresh, classify three ways | stale queue after an unreadable summary; two ladders of labels | labels agree; what is ready can be approved |
| Operator approval (`operator_approval.rs`) | approval, rejection and deferral logs | approve, reject, defer | one record of a kind per run; seconds as order | the decision that stands is the one given last |
| Governance and promotion (`governance.rs`, `promotion/apply.rs`, `gate.rs`) | evolution log, project files, replays | `--promote`, `--promote-approved`, `--replay-candidate`, rollback | checks before writes, death in between (also between a log line and its newline), whole-file backup | governed promotion only under a standing approval; no digest twice; files match the log |
| Governed agent loop (`agent/*.rs`) | tasks, plans, proposals, approvals, applies, outcomes, snapshots | task, plan, propose, approve, apply, validate, report, pr-summary, task-outcomes | stale copies of a task, apply refused in the middle, re-approval | files change only under an approval; applied whole and once per approval; snapshot restores |
| Fix pipeline (`agent/fix.rs`) | fix reports, project files | detect, propose, dry run, apply, validate | provider replies, no snapshot, one problem a run | writes stay in scope; a repair settles its problem, or the problem is one of three; an apply stops half-way only by interference or an I/O error |
| Doctor, external trial (`agent/doctor.rs`, `external_trial.rs`) | doctor and trial reports | examine a project, try every suggested fix dry | its own checks for the problems the fix command detects; a developer edits in between | suggestions are what the fix command finds; following them ends |
| Repair benchmark (`agent/repair_bench.rs`) | history, `latest.json`, baselines | run a suite, gate | the baseline is read before the run; the latest run may be another suite's, another operator's or a failed gate's | gates against the latest run never pass on fewer cases unless the line was lowered in between |
| Evolution cycle (`runtime/evolution_loop.rs`, `evolution/{scorer,dedup,classification,memory,metrics}.rs`) | evolution log, candidates, metrics | one cycle | eight files written one after another, duplicate detection, sandbox cleanup on every path, deaths, overlapping commands | what is on offer is in the log; what was no use is not tried again; updated metrics equal recomputed ones |
| Sandbox (`sandbox/*.rs`) | copies of the project | create, validate, remove | removal on error paths | no copy leaks |
| Campaigns (`campaign.rs`, `task*.rs`, `recombination.rs`, `evolution_policy.rs`) | task contracts, campaign reports, adjusted contracts, policy | run cycles of a task, replay, review, draft a contract after a failure | results taken from the end of a shared log; a review older than the replay it is used with; drafts validated by other rules than they are made by | counters agree with the reviews; a report lists what its cycles logged; drafts keep the limits |
| Bounded loop, supervisor (`bounded_loop.rs`, `supervisor.rs`) | bounded and supervised reports | repeat campaigns, stop | one ladder of stop conditions over counters that add up; leaks from replays | no cycle beside what its gate could see left over; the final status is earned |
| Release chain (`release_*.rs`, `preflight_gate*.rs`, `trust_decision.rs`, `runtime_validation.rs`, `final_rc_report.rs`) | preflights, releases of five files each, ledger, validations, runtime candidates | approve, preflight, bundle, record, validate, report | every step reads what others change; five files in place; reports returned from file | a listed release is whole and approved; green is only written when each thing it stands for was seen |
| Runtime daemon (`runtime_daemon.rs`, `local_model.rs`) | configuration, managed servers, connections | start, spawn, accept, read, ask models, answer, be killed | half-made starts; models that come and go while they are asked; slow clients; reads and writes without a limit | starts whole or not at all; answers are true of the moments they were made in; only two things hold a client for good |
| GitHub benchmark (`bin/github_repo_discover.rs`, `github_repo_prepare.rs`, `bin/benchmark_batch.rs`, `benchmark_runner.rs`) | case lists, clones, reports | discover, prepare, reproduce, probe | clones shared and reused as they are, other cargo flags in the two steps, errors that end a batch | a report is true of the repositories it names; probes are removed |
| Repository inspection, learning, audit and phase reports, LLM adapters, terminal interface | reports | aggregate, input and output | - | - |

The components meet in files: an evolution cycle writes summaries, replays and the evolution log;
campaigns read what a cycle logged; the queue reads those and the decision logs; governance reads the queue and
writes the project and the log; release reads the queue, the decisions, the log and the directories.  The agent
loop shares only the project's files with the rest; the doctor's suggestions are command lines of the fix
pipeline, and the repair benchmark runs that pipeline on fixtures.

## 2. Modules

| Module | Models |
| --- | --- |
| `CandidateQueue` | what the code says about one candidate: blockers, lifecycle, candidate state, promotion state, who may be approved (pure operators) |
| `Governance` (extends it) | the decision logs, queue file, reports, replays, evolution log and project files as variables; one action per step of each command, time, half-written files, deaths |
| `PromotionLedger` | the abstract promise: decisions, clearances, promotions |
| `GovernanceLedger` | the mapping under which `Governance` implements `PromotionLedger` |
| `PatchOps` | patch operations on files, one by one and as a list (pure operators) |
| `AgentTask` (extends it) | the agent loop: the files under `memory/` as variables, one action per step of each command, deaths |
| `FixRules` (on `PatchOps`) | what is a problem, in which order, its repair, scope, blockers (pure operators) |
| `FixPipeline` (extends it and `CommandLine`) | fix commands, a developer, cargo and git around one project |
| `CommandLine` | how the repair tools read their arguments (pure operators) |
| `Doctor` (extends `FixRules`, `CommandLine`) | the doctor's checks, suggestions, score and verdict (pure operators) |
| `ExternalTrial` (extends it) | reports on a project a developer edits and somebody fixes |
| `BenchRules` (extends `FixRules`) | the cases of the repair benchmark, regressions and the gate (pure operators) |
| `RepairBench` (extends it) | runs, gates, the history and the latest run, between operators |
| `RepoDiscovery` | which repositories of an answer become cases, in which order, and where they are cloned (pure operators) |
| `GithubBench` (extends it) | discovery, preparation and batch over shared clones |
| `CycleRecords` | what a cycle says about a mutation: score, status, outcome, and what the metrics and the portfolio count (pure operators) |
| `EvolutionCycle` (extends it) | cycles, duplicate rejections, replays, promotions and refreshes: the files under `memory/` and the sandboxes as variables, one action per step between two writes, deaths |
| `CandidateStages` | the abstract promise: a run is logged, then offered, then replayed |
| `EvolutionStages` | the mapping under which `EvolutionCycle` implements `CandidateStages` |
| `TaskRules` | valid contracts, the plans and hypotheses they admit, the contract drafted after a failure (pure operators) |
| `Recombination` (extends it) | the hypotheses tried when no plan fits, and the policy's say in them (pure operators) |
| `CampaignReport` (extends it) | the counters of a campaign, its reason and its reconciliation (pure operators) |
| `Unattended` (extends it) | campaigns, bounded and supervised runs beside an operator, deaths |
| `ReleaseGates` (on `CandidateQueue`) | health, the two gates, trust, the conditions of green (pure operators) |
| `Release` (extends it) | the release commands, step by step, beside decisions, replays, promotions and edits |
| `DaemonConfig` | what the daemon makes of its arguments, environment and configuration file (pure operators) |
| `Daemon` (extends it) | its start, managed servers, connections, answers and death |
| `GovernanceProofs`, `AgentProofs`, `FixProofs`, `QualityProofs`, `EvolutionProofs`, `UnattendedProofs`, `ReleaseProofs`, `DaemonProofs` | the theorems |
| `MCGovernance`, `MCAgentTask`, `MCFixPipeline`, `MCEvolutionCycle`, `MCUnattended`, `MCRelease`, `MCQualityTools`, `MCDaemon` | constants of the checked instances |

### Governance

A candidate is a name with a profile (`Profile`) of the facts a cycle recorded about it: class,
score, risk, quality, forbidden target.  What changes later is in variables.  A record of the decision logs
keeps the decision, its second and, for an approval, the promotion state remembered in it; the
governance gate compares that with the state now.  `queue[c]` is not the item but the facts it was
computed from (`FactsNow`), so that every label is an operator over a stored fact and a stale queue is
a stale fact.  `tree[d]` counts the copies of a mutation's payload in its target.  A command is a
process with a `step`: a promotion goes `gate` (only `--promote-approved`), `apply`, `validate`,
`log`, `newline`, `record`; between any two steps other processes run or it dies.  `evolog` holds the entries that were
written, `text` how they stand in the file: `append_jsonl` (`memory.rs:287`) writes a line and its newline by two calls, so
a death between them leaves the line open (`tail`), and whatever is appended next shares it.  Such a line cannot be read: its
promotions are `lost` to `promoted_digest_exists`, and the log is `damaged`, which fails `refresh_metrics` and so
the review of every candidate.  `CycleLogs` is an evolution cycle that appends its own entry, or dies before the newline.
`named` is the rung `duplicate_test_function_name`: a payload whose test names (`SameTest`) are in the target.
`torn` says that a summary or
replay file cannot be parsed: a refresh then fails and the old queue stays.  `hindered` stands for the
blockers of `autonomy_status` that come from metrics outside the model.

### Agent loop

Ids are new in every command, and a task names at most one plan, proposal, approval and apply, so all of
them are named by the proposal they belong to.  A file is the sequence of pieces of text written to it.
A command takes a copy of a record when it starts (`proc[p].copy`, `draft`) and saves that copy later,
which is what the code does and where updates are lost.  `apply` runs one operation a step; a refused
one ends the command with earlier ones written.  Approving and applying save several files, one step each: the approval
before the task that names it (`ApproveSave`, `ApproveRecord`, `ApproveTask`), the result of an apply after the task that names it
(`ApplyRecord`, `SaveResult`).  The result of a validation, cargo's, is chosen from `Verdicts`.
`ordered`, `touched`, `base`, `given`, `completed` are history: no action reads them
except to update them.

Behaviour of the code that no property forbids: proposing for a task whose plan another command has just added
loses the link to the plan (`propose.rs:80` saves the copy); an outcome takes the latest validation, whichever task it
belongs to (`outcome.rs:41`).

### Fix pipeline

A problem is repaired in one file, so files are named by their part (`module` is the missing module file,
`workflow` the CI workflow), and a file is again a sequence of pieces.  `build` says which modules the
project declares, `lock` how Cargo.lock stands, `git` what the last commit knew.  A command is a line that `CommandLine`
reads, from left to right, an option taking whatever comes next for its value.  It detects, proposes
and tries dry, then applies operation by operation and validates: `Detect`, `Propose`, `ApplyOp`,
`ValidateBegin` and `ValidateEnd`; `FailOp` is an operation the file system refuses, which may have emptied its file.  What a provider answers is any member of `Reply`; the model keeps that the
files it lists and the files it edits are two lists.  `alone` is history: nobody else changed the file a command
repairs since it looked.  `last` is history too: what the last step wrote or reported.

At this commit `contracts/fix.rs` lacks `FixOnly::Hygiene` and three of the problem kinds `agent/fix.rs` names,
so that the crate does not compile there; the model follows `agent/fix.rs` and its tests.  Three selections (`Hopeless`) are
never repaired and shadow every later problem, which `RepairSettles` states, with the claim that no others do: a missing `target` entry, because `safe_paths` refuses `.gitignore`
(although `tests/fix_capability_expansion_tests.rs:188-191` expects that repair to be applied), a module missed in a nested
module, and a workflow without exactly one test step.

### Doctor, external trial and repair benchmark

The doctor has its own checks for the problems the fix command knows, and a suggestion is a command line of
that command, a dry run unless somebody adds `--apply`.  `ExternalTrial` runs the doctor, then each suggestion dry, on a project that a
developer edits between any two steps and to which somebody applies suggestions (`Follow`).  The evidence a doctor writes
inside the project makes its work tree dirty.  `RepairBench` runs a suite as one step per case over an immutable set of
fixtures; what may go wrong is the version of EVA (`fit`), which upgrades change between and during runs.
`latest.json` and the history are written separately, and a run the gate fails becomes the latest all the same.
The two and the GitHub benchmark share no file; `MCQualityTools` checks them in one run, a behaviour
being of one of the three (`scene`).

### GitHub benchmark

A clone is a project with a fault (none, in its manifest, build or tests, or a flaky test) and a
lock file that is current, stale or missing.  Two names that differ only in "/" and "_" share a workspace, and one that is
there is used as it is: a half-made clone or something foreign is never cloned again.  Preparation runs cargo with `--locked` where there
is a lock and the batch never does, so what failed for its lock alone cannot be reproduced.  The probe the batch
writes repairs nothing: a "success" is a flaky test.  An error of the executor, or a death, ends the whole batch without a report
and leaves the probe.  A developer changes any clone at any time, and removes one only while no command uses it, a
restriction of the model.

### Evolution cycle

A mutation is its digest, from which its kind follows; how far a trial got is a number of gates (check, test,
run), from which score, usefulness and status follow as in `scorer.rs` and `build_log_entry_with_plan`.  Every
command is a process of its own (cycles are run by the command line, campaigns and benchmarks; none of them
locks anything).  A process holds its entry and, between reading a store and writing it back, a copy of it:
`Load` and `Save` are the two halves of every `record_*` and `update_*` function, and updates are lost between them.
`NextStep` is the order of the writes.  `append_jsonl` writes a line and its newline by two calls, hence `ended` and
`glued`.  `torn` holds the files a death, or another command in the middle of a write, makes unreadable.
`abandoned` and `alone` are history: which sandboxes nobody can be expected to remove, and whether commands ever
overlapped.  The graph keeps only which result a mutation had; averages, the strategy portfolio (whose
errors are ignored by its callers), reports and the ranking of plans are left out.

### Unattended evolution

One command is at work: a campaign, a bounded run of campaigns of one cycle each, or a supervised run of bounded
runs; an operator runs cycles, replays and promotes beside it.  An operator's cycle or replay takes a sandbox
(`theirs.live`), and when it ends, fails or dies the sandbox may stay (`theirs.stray`), with a log entry, a replay record or neither;
a cycle refused as a duplicate logs without a sandbox.  `leaked` is what a campaign's gate finds when it looks.  A contract is a record of targets, kinds, objectives and limits.
Any plan or hypothesis a contract admits may be the best: scores hang on all the memories and are left out.
The policy on file is derived anew at each bounded campaign and read as it is otherwise.  The cycle takes the last entry of
the log for its own (`found`), which an operator's entry can be.  `made` is history: what each campaign's own
cycles logged.  Drafted contracts replace each other under `tasks/adjusted/`, and a bounded run writes over
`tasks/<id>.task.json` with its one-cycle copy.  An error of the autonomy gate in the middle of a bounded run loses its report,
and the stop for a forbidden target cannot be reached because such plans are never admitted.

### Release chain

A release is five files named by a digest of run, approval, replay and state; a file keeps the moment its context
is of, what it says, and (as history) when its preflight was judged and which queue that was judged by.  `queue` is the
file with its moment: `let _ = refresh_promotion_queue` leaves the old one in place when a summary cannot be parsed, and then the commands
read that (`Refreshed`, `Settled`).  `--release-bundle` judges the
preflight on one context and takes times and decision from a second, loaded later.  Each report a validation asks for
(governance status, the gates, trust, health, latest release, queue) is a step of its own, and the write another, so
that decisions, leaks and edits come in between; `seen` is history, what held at those steps.  `--final-rc-report` validates a second time after its
manifest.  Merged into one step are the reports a validation's blockers come from and the two gates a manifest quotes, because what
green stands for is asked again after them.  Governance's commands are one action each here, because `Governance` has their steps.
`tangled` is history: releases whose last build died or was crossed by another of the same id.
A validation, once written, is returned from file whatever changes: the property is about the writing.

### Runtime daemon

`DaemonConfig` resolves a command line (flags, environment, `eva.runtime.json`, mode) to models, a default and servers, or a
refusal.  A command of one exact word never reads the configuration; an option in the environment does not keep `eva.runtime.json` from
being read; the model of `--model-url` is dropped when the file has one called "default"; a
model file for `eva-lite` is refused when nothing else names it, since the built-in one is added last.  `Daemon` spawns the servers one by one and kills
them when a later one fails or the address is in use; once it serves, nothing but a signal ends it, and that leaves them
running.  A connection is queued, read part by part (`Limit` parts stand for 1 MiB), and answered; models are asked one
after the other, the file first (`Check`), then the backend (`Exchange`), while `there` changes.  A backend is away, answers
as the API says, answers what cannot be parsed (which `health` counts as reachable and a chat as an error), or drips bytes
without an end: the timeout is one for every read.  `health` finds the list of models only beside `/chat/completions`, so another URL
(`bare`) is never reachable to it although chats are sent there.  The answer is a step of its own (`Write`), without a timeout: a client
that stops reading holds its thread.  `worlds` is history: what was there while one model was asked.

## 3. Runs

| Run | Shows |
| --- | --- |
| `gov_sequential` | one operator, torn files and log lines, two deaths: types, log against files, labels agree |
| `gov_twins` | two candidates with one digest, one death, also between a log line and its newline: governance never promotes a digest that was logged, readable or not; under fairness and without deaths, a governed promotion gets recorded |
| `gov_concurrent` | two operators: the approval property and the refinement of `PromotionLedger` |
| `gov_reject` | (violated) a rejection after reject and approve is acknowledged, not appended; the gate opens |
| `agent_sequential` | one operator, two proposals, re-approval, refusals in the middle, one death: types, snapshot, whole application, one application per approval |
| `agent_concurrent` | two operators: files change only under approval; what a task names is saved, but for the result being saved |
| `fix` | two commands, replies from good to out of scope, one edit by a developer or one I/O error: scope, repairs settle but for three problems, half-applied proposals only by interference |
| `evolution` | two commands at once or three in turn, one death: candidates on offer are backed by the log, no trial leaks a sandbox, bad mutations stay rejected, updated metrics and portfolio equal recomputed ones, and the refinement of `CandidateStages` |
| `unattended` | campaigns, bounded and supervised runs over three contracts, one doing of an operator that may leave its sandbox, one death: reports match the log, counters agree, statuses are earned, drafts keep the limits, no cycle begins beside a leak its gate could see |
| `release` | two operators, one candidate, one death, refreshes that fail unnoticed: listed releases are whole, bundles only under a standing approval, green only when each thing it stands for was seen |
| `quality` | benchmark, doctor and GitHub benchmark: a gate holds the line, doctor and fix command agree, following suggestions ends, reports are true, probes are accounted for |
| `daemon` | fifteen command lines, two clients, one change: starts whole, true answers, every client is served unless held |

Bounds.  One or two processes: every race in question is between two commands.  One or two candidates
or proposals: properties relate at most two.  `MaxClock` up to 2 gives up to three seconds, enough for "same second"
and "newer"; `MaxLog = 2` and `MaxCopies` up to 3 allow a second promotion on top of a first;
`MaxCrashes = 1` puts one death at every step; `gov_sequential` has two, of which one
can hide a log line and the other a copy, and no clock, which its properties do not read.  `MaxLength = 2` lets text be appended until an exact
match is ambiguous; `MaxApprovals = 2` lets a proposal be approved again.  In `fix`, two projects start with every
problem between them, `MaxEdits = 1` puts one edit at every step, and `MaxLength = 2` keeps two commands from
appending for ever: no command starts on a longer file.  In `evolution`,
a cosmetic mutation and a useful one give every score, status and outcome; `MaxCommands = 3` is a cycle, its repetition
or replay, and one more command after it; `MaxBusy = 2` lets the first two overlap at every step, and
`MaxDeaths = 1` kills one of them at every step.  In `unattended`, the constraint `InBounds` bounds everything together:
four cycles alone (two rounds of two campaigns), or fewer with a second command, an operator's doing or a death.  In `release`, `MaxWork = 4`
is, on a candidate replayed before, what it takes to approve, bundle, withdraw and bundle or validate again, with a death for one of these (`InBounds`); `MaxValidating = 1` keeps two
validations from crossing, which the theorem `GreenIsOnlyEarned` covers.  In `quality`, three runs are a line, a worse run and a
gate after it; two reports and one edit put the edit before, between and inside them; three repositories, of which two
share a clone, and four commands are a preparation and a batch crossed by another pair.  In `daemon`,
two starts meet what a killed one left, one change of a backend or file happens at every step, and a behaviour starts with the
file there and the backend sound or away (`AtFirst`).
`gov_twins` starts with nothing in autonomy's way and no report yet (the other starts, which `HinderedAtFirst` and `ReportsAtFirst`
allow elsewhere, would be too many), its log lines may be cut (`Faults = {"log"}`), and `MaxCopies = 2` lets a payload go in twice.  `GovernedPromotionIsNew` and `TreeMatchesLog` are stated, and run, for one operator: with two, the rollback of one
overwrites the other's promotion with its older backup, which is what the code does (see `hazards`).  Symmetric
are only processes that do the same things.

Deadlock is not checked: all counters are bounded, so the models stop.

Fairness.  `gov_twins`: weak fairness of each process's next step once its command has started.
The code never waits for anything but a child process, and the operating system schedules it; nothing
obliges an operator to start a command, so beginnings are not fair; the property leaves out behaviours with a death, and the run
has no unreadable summary, because either legitimately ends a command early.  `daemon`: the accept loop and the threads run
on, and the time-out of a read fires; a backend that does not drip ends its answer or stays silent for the
timeout, and writing to a client that reads gets on.  Clients need not send or read, nobody need start or kill the daemon, backends need not
come or go.  Nothing is assumed of a backend that drips or of a client that does not read: `EveryClientIsServed` names these two (`Held`)
as what holds a connection for good.  A connection that its daemon's death drops has come to an end too.

Properties of these runs speak of what tests hardly reach; types apart, each is about one of the `hazards`.
`GreenIsEarned`, `NothingAfterLeak` and `SuggestionsSettle` are action properties, `StagesSpec` and `LedgerSpec`
are refinements.

## 4. Proofs

Every property the passing runs check, but for the two named at the end, is a theorem
for all constants that satisfy the named assumptions.  Where a run has one operator, so does the theorem
(`ASSUME NEW o, Proc = {o}`).

`GovernanceProofs`:

* `TypeCorrect`: `Spec => []TypeOK`.
* `ApprovalInvariant`, `GovernedPromotionIsApproved`.  "Every governed log entry had a standing
  approval when its gate ran" is not inductive: the entry is written three steps after the gate, when newer
  decisions may exist.  `ApprovalInv` adds that the same holds of every command between gate and log, that no
  record is dated in the future (so a later record cannot count as older than the gate), and that gate
  times do not exceed the clock.
* `GovernanceRefinesLedger`: `Spec => LedgerSpec`; each action maps to a `Decide`, `Clear`,
  `Promote`, `Lapse` or a stutter.
* `LabelsAlwaysAgree`.  Both labels are operators of the same facts; the lemma `LabelsOfFacts` compares the two ladders
  case by case.
* `GovernedPromotionAlwaysNew` (one operator, no torn summary).  `NewInv` adds that only candidates with a useful change have
  approvals, that a promotion is lost only on a line that closes the gate to everyone, and that between gate and log the digest of the
  command is in no log entry, readable or not.
* `TreeAlwaysMatchesLog` (one operator, any faults).  A death costs one copy that was not logged, or the newline of an entry, and
  then two entries on one line: at most two copies more than the log accounts for.  `TreeInv` counts what deaths may still
  cost, and adds that during a validation the backup is the tree without the
  copy under way, so that a rollback takes away exactly that one.

`AgentProofs`:

* `TypeCorrect`, `FilesChangeUnderApproval` and `TaskLinksResolve`.  The
  inductive invariant `AgentInv` carries what commands hold between steps: a copy of a task names saved
  records only, a proposal under approval or apply was asked for and has no blockers.  Types and
  `AgentInv` are inductive only together, because the type of a draft depends on the command's step.
  An apply is named before its result is saved; `ResultsInv` says of every copy of a task that the result it names is saved or
  being saved, while nothing has died.
* `SnapshotAlwaysRestores`, `AppliedAlwaysComplete`, `ApprovalUsedOnce` (one operator).  All three follow from `SoleInv`: outside the
  paths in the snapshot the files are as the apply found them; a command that applies has performed a prefix of its proposal's
  operations on those files; a proposal that is Approved has an approval no application has used.  "Applied whole" compares
  single steps with a fold over the whole list; that its prefixes obey the recursion is shown by induction over the
  operations (`WFMin` of the library, with the set of lengths at which it fails).

`FixProofs`, for any requests, replies, projects and edits, and any number of commands:

* `TypeCorrect`, `FixesStayInScope`.  Scope is inductive once it is said of the proposals commands hold.
* `RepairsSettle` rests on `Kept`: a command that was alone with its file holds a problem that is still there until
  it writes, and one that is gone afterwards; what others do to other files cannot change that, because every
  detector reads one file only (`DetectsLocally`).  For what stays, `BlockedIsHopeless` goes through the repairs: a dry run of the rules on the
  file they were made for refuses only those of `Hopeless`.
* `StopsAlwaysByRace`.  `ForeseenInv`: a command whose file nobody else touched applies to the files its dry run read, so
  that what it will find at its next operation was foreseen.

`QualityProofs`:

* `GateAlwaysHolds`.  `BenchInv` relates the history, the latest run and the run a gate has read: the line a gate compares with is a run
  of the same suite saved before it, and a lower one needs a run that lowered it in between.
* `ReportAlwaysTrue`, `ProbesAlwaysAccounted`.  `GithubInv` says of every prepared case, job and end
  what it was read from, as long as nobody changed that workspace: a clone is of the repository that lies there, a fault
  lasts, and a verdict depends only on it.  A probe is in a clone only while the job that put it there is at the step that
  removes it, or has recorded it.  `SortedIs` shows that sorting loses and invents no repository.
* `DoctorAndFixAlwaysAgree`, `SuggestionsAlwaysSettle`.  `TrialInv` says what a trial holds of the repository it is in:
  unless somebody edited under it, each dry run so far was made on the files the doctor saw.  The lemmas beneath hold the two programs
  against each other: what the doctor misses is what the fix command detects (`SelectedIs`), the words of the suggested
  command are read as a request for that (`AskedIs`), nothing speaks against the repair (`NothingAgainst`), and it leaves
  less to do (`Mends`).

`EvolutionProofs`, for any mutations, patterns and number of commands, overlaps and deaths:

* `TypeCorrect` and `NoTrialLeaks`.  Types are inductive together with two facts: the files of candidates and replays are
  finitely many, so that a refresh counts numbers, and only a command at a store has one loaded.  No sandbox leaks because
  whoever leaves the steps `trial` and `destroy` has removed it or is in `abandoned`, and because
  no other command's step changes one's own place (`OthersStay`).
* `OffersBacked`.  "A candidate on offer can be loaded and is a Candidate in the log" is not inductive: the
  offer is stored several steps after the entry.  `OfferInv` says what a command holds in between: from its append on, its
  run is in the log as its verdict, and what it still has to store is what it logged.
* `CycleRefinesStages`: `Spec => StagesSpec`; an append logs, a summary offers, a replay record replays, and every
  other step stutters.
* `BadNeverRetried`.  `BadStaysRejected` speaks of commands that never overlapped.  `RejectInv` adds that
  then at most one command runs, that the digest of every bad log entry is known as bad except to
  the command that has yet to record it, and that a cycle which passed the duplicate gate has, until it appends, no
  bad entry of its digest in the log.
* `UpdatesAlwaysMatch`.  Updated and recomputed books agree only at rest; `MatchInv` says by how much they differ while a command
  runs: metrics and portfolio count all but the last log entry from its append to their own write, the candidates all but the last offer from
  the summary to the metrics, and a replay is counted one step before it is stored.  A refresh in between commands
  counts the same sets, so both ways keep `MetricsAgree`.

`UnattendedProofs`, for all contracts, plans, policies and numbers of rounds, with the operator and deaths:

* `TypeCorrect`.  The types of reports and rounds are inductive only together with what the command under way holds (`Going`)
  and with the validity of drafts.
* `NothingBesideALeak`: a cycle of a bounded run never begins beside a sandbox anybody left before its campaign asked the gate, or
  the run itself left at any time (one an operator leaves after that is only counted later).  A replay leaves one after the
  bounded run has counted; `LeakInv` says that a campaign of a bounded run has one cycle, whose gate has looked, and none left
  once it is recorded.
* `CountsAlwaysAgree`.  `CountsInv` says that the counters of the report under way add up at every step (`Sums`), and those on
  file besides agree with its candidates.
* `DraftsAlwaysKept`.  `DraftIsValid` says that the rules a draft is made by keep the limits it is validated by, so that the
  refusal of `validate_adjusted_task` is never met; `DraftInv` carries that, and how many drafts there are, from campaign to campaign.
* `ReportsAlwaysMatchLog`.  A campaign takes its results from the end of a shared log.  `LogInv` says that, without an operator, the
  entries since it began are exactly its own (`AtWork`), that runs are numbered (`Numbered`), and that each report on file tells
  the entries of its own interval (`Told`).
* `StatusAlwaysEarned`.  A final status speaks of replays and leaks at the end of a run, and later commands write the same files.
  `EarnedInv` separates the runs a supervised run is done with from those of the open campaign (`Past`, `Apart`): only the latter are
  replayed or recounted, so what a closed round was judged by stays on file (`OnFile`, `RunKnown`, `RoundKnown`, `CampaignKnown`).

`ReleaseProofs`, for all candidates, operators and bounds:

* `GreenIsOnlyEarned`.  Green is written several steps after what it stands for was read.  `SeenInv` says what a reading that
  found nothing missing so far has seen: a gate v3 that passes has seen trust allow (`PassingGate`), and a ready item is in the state
  an operator sees as ready (`ReadyIsReady`).
* `BundlesAreUnderApproval`.  A bundle is written several steps after its preflight was judged, when decisions
  and promotions may be newer.  `IInv` says that a queue file is true of the moment it was made, however old (`QueueOk`), that the commands carry what was judged (`CommandOk`), and `JudgedStays` that nothing a
  later step adds changes how a run stood then, because every new record is dated later than the clock.
* `ReleasesAreWhole`.  `WholeInv` adds, for every release id that is not tangled, that at most one command is past the
  first file of a build (`Clean`), that what it has written so far is of its moment, and that a release nobody is building is whole.
  A preflight written under the id of a release always allows it, because the id determines what the preflight judges.

`DaemonProofs`, for any command lines, configurations and clients:

* `StartsAlwaysWhole`, `AnswersAlwaysTrue`.  `DaemonInv` is the types, `StartInv` (a start holds the models of its configuration, and the
  servers it has spawned so far are the first of those it will manage) and, for each connection, `ConnInv` (what it has found of each model
  was so while that model was asked: file and backend at two moments of it, perhaps).

Model-checked only:

* liveness (`GovernedPromotionIsRecorded`, `EveryClientIsServed`), which is beyond the prover;
* what `SelectSeq` counts and lists (`CommandLine.Targets`, the counts of `GithubBench`, the drafts of `Unattended`): its
  definition is opaque to the provers, and the proofs use nothing of it.  A recursive function (`PerformUpTo`, `Read`) is
  reasoned about by its equation, which holds because some function satisfies it.

## 5. Not modelled

See `components` in `PROJECT.json`.  Repository inspection, the memory and learning reports, the repository and phase
reports and the operator console read a tree or logs into a text and change nothing another part depends on.  The LLM
adapters are network input and output (what they could return is an input of `FixPipeline` and `AgentTask`); the terminal
interface renders reports; the contracts are data types, modelled where they are used.  Of the modelled parts,
left out are: texts of reports and notes, the second run of
the same cargo commands in a validation, `latest_*.json` copies nothing reads back, JSON files of
the agent loop left half-written (every later command on them stops with an error), scores of plans and hypotheses with the strategy
portfolio that moves them, hygiene (renaming over-long generated tests), and the predictions of the batch.

## 6. Remaining

1. A run of `EvolutionCycle` for `docs/candidate_queue.md:17` (a failed replay becomes Unreplayable)
   with a replay whose cargo check fails.
2. Proofs: the theorems of one operator (`GovernedPromotionAlwaysNew`, `TreeAlwaysMatchesLog`, `SnapshotAlwaysRestores`) for
   several whose commands do not overlap; an abstract specification of the release chain, and that `Release` implements it.
3. Hygiene as a command of its own over `PatchOps`, with its validation and rollback.
