----------------------------- MODULE Governance -----------------------------
(***************************************************************************)
(* Operator decisions, the governance trust gate and manual promotion of   *)
(* stored candidates into the project tree.                                *)
(*                                                                         *)
(* Every command is a process of its own (one CLI invocation) working on   *)
(* files: the three governance logs, promotion_queue.json, reports/,       *)
(* replays/, evolution.jsonl and the source files candidates target.       *)
(* Nothing locks them.  A step below is the work of a process up to the    *)
(* next point where another process, or its own death, can matter.         *)
(***************************************************************************)
EXTENDS CandidateQueue, Sequences, FiniteSets

CONSTANTS Proc,       \* operator processes that may run at the same time
          File,       \* source files that candidates target
          FileOf,     \* target file of a mutation digest
          Appends,    \* digests whose mutation appends; the others replace text
          SameTest,   \* digests whose payload holds a test of a digest's test's name
          NoItem,     \* what is found for a candidate no queue item exists for
          NoRun,      \* what an idle process works on
          Faults,     \* what may be found half-written: subset of {"summary", "replay", "log"}
          AutonomyVaries, \* whether autonomy's blockers come and go, or stay
          HinderedAtFirst, \* whether there may be any at first
          ReportsAtFirst, \* how reports may stand at first
          MaxClock,   \* bound: seconds the model's clock may advance
          MaxLog,     \* bound: promotions started only below this log length ...
          MaxCopies,  \* bound: ... and below this many copies in the target
          MaxCrashes  \* bound: process deaths

ASSUME GovernanceAssumption ==
  /\ FileOf \in [Digest -> File]
  /\ Appends \subseteq Digest
  /\ SameTest \in [Digest -> SUBSET Digest]
  /\ NoItem \notin Facts
  /\ NoRun \notin Candidate
  /\ Faults \subseteq {"summary", "replay", "log"}
  /\ AutonomyVaries \in BOOLEAN /\ HinderedAtFirst \subseteq BOOLEAN
  /\ ReportsAtFirst \subseteq {"missing", "not_run"}
  /\ MaxClock \in Nat /\ MaxLog \in Nat /\ MaxCopies \in Nat /\ MaxCrashes \in Nat

VARIABLES
  decisions,   \* records of approval_log, rejections and deferred .jsonl
  queue,       \* promotion_queue.json: the facts behind each item
  replayFile,  \* replays/<run>.json
  report,      \* replay_status in reports/<run>.report.json
  evolog,      \* retained_in_core entries appended to evolution.jsonl
  text,        \* how they stand in it, line by line
  tree,        \* how many copies of a digest's payload its target contains
  hindered,    \* autonomy_status has blockers (metrics, leaked sandboxes, ...)
  torn,        \* kind of file left unparsable under memory/, or "none"
  clock,       \* now_unix, in seconds
  proc,        \* the command each process is in
  crashes,     \* deaths so far
  ordered      \* history: last decision command on a candidate that returned Ok

vars == <<decisions, queue, replayFile, report, evolog, text, tree, hindered, torn,
          clock, proc, crashes, ordered>>

Decision == {"approve", "defer", "promoted", "reject"}
Record   == [run : Candidate, decision : Decision, at : Nat,
             state : {"ready", "blocked", "not read"}]
Entry    == [run : Candidate, digest : Digest, governed : BOOLEAN, gatedAt : Nat]
Command  == {"approve", "defer", "reject", "promote_approved", "promote", "replay"}
Step     == {"idle", "decide", "gate", "apply", "validate", "log", "newline", "record", "report"}

(* The end of the log: a whole line, or the text of a promotion's or of a cycle's
   entry; the promotions on a line with something else; whether there is such a line. *)
Text     == [tail : {"newline", "promotion", "cycle"}, lost : SUBSET Nat, damaged : BOOLEAN]
ProcState == [step : Step, cmd : Command, run : Candidate \cup {NoRun},
              facts : Facts, gatedAt : Nat, backup : [Digest -> Nat]]
NoFacts  == [replay |-> "unknown", promoted |-> FALSE, present |-> FALSE, named |-> FALSE,
             hindered |-> FALSE]
Idle     == [step |-> "idle", cmd |-> "replay", run |-> NoRun, facts |-> NoFacts,
             gatedAt |-> 0, backup |-> [d \in Digest |-> 0]]

CommandsOK ==
  \A p \in Proc : /\ proc[p].step # "idle" => proc[p].run \in Candidate
                  /\ proc[p].step = "decide" => proc[p].cmd \in {"approve", "defer", "reject"}

TypeOK ==
  /\ decisions \subseteq Record
  /\ queue \in [Candidate -> Facts \cup {NoItem}]
  /\ replayFile \in [Candidate -> {"not_run", "ok", "failed"}]
  /\ report \in [Candidate -> {"missing", "not_run", "ok", "failed"}]
  /\ evolog \in Seq(Entry)
  /\ text \in Text
  /\ tree \in [Digest -> Nat]
  /\ hindered \in BOOLEAN
  /\ torn \in {"none", "summary", "replay"}
  /\ clock \in Nat
  /\ proc \in [Proc -> ProcState]
  /\ CommandsOK
  /\ crashes \in Nat
  /\ ordered \in [Candidate -> {"none", "approve", "defer", "reject"}]

Init ==
  /\ decisions = {}
  /\ queue = [c \in Candidate |-> NoItem]
  /\ replayFile = [c \in Candidate |-> "not_run"]
  /\ report \in [Candidate -> ReportsAtFirst]
  /\ evolog = <<>>
  /\ text = [tail |-> "newline", lost |-> {}, damaged |-> FALSE]
  /\ tree = [d \in Digest |-> 0]
  /\ hindered \in HinderedAtFirst
  /\ torn = "none"
  /\ clock = 0
  /\ proc = [p \in Proc |-> Idle]
  /\ crashes = 0
  /\ ordered = [c \in Candidate |-> "none"]

-----------------------------------------------------------------------------
(* The queue file *)

Readable == DOMAIN evolog \ text.lost

(* promoted_digest_exists: the lines of evolution.jsonl that can be parsed are
   searched for the digest, the others skipped. *)
Retained(d) == \E i \in Readable : evolog[i].digest = d

(* duplicate_test_function_name *)
TestNamed(d) == \E e \in SameTest[d] : tree[e] > 0 /\ FileOf[e] = FileOf[d]

(* Mutant: a report rebuilt without a replay is labelled by a status of its own. *)
RebuiltUnlabelled == [c \in Candidate |-> IF report[c] = "missing" THEN "unknown" ELSE report[c]]

(* refresh_report on a missing report: rebuilt from the replay file. *)
RebuiltReport == [c \in Candidate |-> IF report[c] = "missing" THEN replayFile[c] ELSE report[c]]

(* Mutant: metrics skip a line of the log they cannot parse, as the digest search does. *)
FactsReadingOn(c) ==
  [replay   |-> IF torn = "replay" THEN "unknown" ELSE RebuiltReport[c],
   promoted |-> Retained(DigestOf(c)),
   present  |-> tree[DigestOf(c)] > 0,
   named    |-> TestNamed(DigestOf(c)),
   hindered |-> hindered]

(* build_queue_item.  One unreadable replay or line of the log fails refresh_metrics
   and so autonomy_status, and with it the review of every candidate. *)
FactsNow(c) ==
  [replay   |-> IF torn = "replay" \/ text.damaged THEN "unknown" ELSE RebuiltReport[c],
   promoted |-> Retained(DigestOf(c)),
   present  |-> tree[DigestOf(c)] > 0,
   named    |-> TestNamed(DigestOf(c)),
   hindered |-> hindered]

(* refresh_promotion_queue: one unreadable summary fails the whole refresh, and
   then the old file stays. *)
Refreshed == IF torn = "summary" THEN queue ELSE [c \in Candidate |-> FactsNow(c)]

RefreshQueue ==
  /\ queue' = Refreshed
  /\ report' = IF torn = "summary" THEN report ELSE RebuiltReport

-----------------------------------------------------------------------------
(* The governance logs *)

RecordsOf(c) == {r \in decisions : r.run = c}

(* latest_record_for_run orders by second, then by the decision's spelling. *)
Spelling == [approve |-> 1, defer |-> 2, promoted |-> 3, reject |-> 4]
NotNewer(q, r) ==
  \/ q.at < r.at
  \/ q.at = r.at /\ Spelling[q.decision] <= Spelling[r.decision]

Latest(r) == \A q \in RecordsOf(r.run) : NotNewer(q, r)

StandingApproval(c) == {r \in RecordsOf(c) : r.decision = "approve" /\ Latest(r)}

(* upsert_append_only: a second record of the same kind is never appended.  Of what
   a record remembers of its item only an approval's promotion state is ever read
   and may differ later: its replay status was ok, the rest is the profile. *)
Upsert(c, decision, f) ==
  IF \E r \in RecordsOf(c) : r.decision = decision
  THEN UNCHANGED decisions
  ELSE decisions' = decisions \cup
         {[run |-> c, decision |-> decision, at |-> clock,
           state |-> IF decision = "approve" THEN PromotionState(c, f) ELSE "not read"]}

Become(p, state) == proc' = [proc EXCEPT ![p] = state]
Finish(p) == Become(p, Idle)
At(p, step) == proc[p].step = step

-----------------------------------------------------------------------------
(* --approve-candidate, --reject-candidate, --defer-candidate *)

BeginDecision(p, c, decision) ==
  /\ At(p, "idle")
  /\ RefreshQueue
  /\ queue'[c] # NoItem
  /\ Become(p, [Idle EXCEPT !.step = "decide", !.cmd = decision, !.run = c,
                            !.facts = queue'[c]])
  /\ UNCHANGED <<decisions, replayFile, evolog, text, tree, hindered, torn, clock, crashes, ordered>>

Decide(p) ==
  LET c == proc[p].run
      decision == proc[p].cmd
  IN /\ At(p, "decide")
     /\ IF decision = "approve" /\ ~ Approvable(c, proc[p].facts)
        THEN UNCHANGED <<decisions, ordered>>
        ELSE /\ Upsert(c, decision, proc[p].facts)
             /\ ordered' = [ordered EXCEPT ![c] = decision]
     /\ Finish(p)
     /\ UNCHANGED <<queue, replayFile, report, evolog, text, tree, hindered, torn, clock, crashes>>

-----------------------------------------------------------------------------
(* --promote-approved *)

WithinBounds(c) == Len(evolog) < MaxLog /\ tree[DigestOf(c)] < MaxCopies

BeginPromoteApproved(p, c) ==
  /\ At(p, "idle")
  /\ WithinBounds(c)
  /\ StandingApproval(c) # {}
  /\ Become(p, [Idle EXCEPT !.step = "gate", !.cmd = "promote_approved", !.run = c])
  /\ UNCHANGED <<decisions, queue, replayFile, report, evolog, text, tree, hindered, torn,
                 clock, crashes, ordered>>

(* Mutant: the gate trusts the decision the command read when it started. *)
GateAllowsUnread(c, f) == f.replay = "ok" /\ Lifecycle(c, f) # "already_promoted"

(* governance_trust_gate: no blocker.  An approval is stale when what it
   remembers of the item differs from the item now. *)
GateAllows(c, f) ==
  /\ \E r \in StandingApproval(c) : r.state = PromotionState(c, f)
  /\ f.replay = "ok"
  /\ ClassOf(c) = "useful"
  /\ "forbidden_target" \notin Blockers(c, f)
  /\ Lifecycle(c, f) # "already_promoted"
  /\ ~ Has(c, "high_risk")

TrustGate(p) ==
  LET c == proc[p].run IN
  /\ At(p, "gate")
  /\ RefreshQueue
  /\ IF queue'[c] # NoItem /\ GateAllows(c, queue'[c])
     THEN proc' = [proc EXCEPT ![p].step = "apply", ![p].gatedAt = clock]
     ELSE Finish(p)
  /\ UNCHANGED <<decisions, replayFile, evolog, text, tree, hindered, torn, clock, crashes, ordered>>

(* Mutant: --promote counts as a governed promotion. *)
BeginPromoteUngated(p, c) ==
  /\ At(p, "idle")
  /\ WithinBounds(c)
  /\ Become(p, [Idle EXCEPT !.step = "apply", !.cmd = "promote_approved", !.run = c])
  /\ UNCHANGED <<decisions, queue, replayFile, report, evolog, text, tree, hindered, torn,
                 clock, crashes, ordered>>

(* --promote goes to promote_candidate without the governance gate. *)
BeginPromote(p, c) ==
  /\ At(p, "idle")
  /\ WithinBounds(c)
  /\ Become(p, [Idle EXCEPT !.step = "apply", !.cmd = "promote", !.run = c])
  /\ UNCHANGED <<decisions, queue, replayFile, report, evolog, text, tree, hindered, torn,
                 clock, crashes, ordered>>

-----------------------------------------------------------------------------
(* promote_candidate *)

(* apply_mutation: replaced text is no longer there to be found again. *)
Applicable(d) == d \in Appends \/ tree[d] = 0

(* check_promotion_gate, prepare_promotion_backup, apply_mutation: the backup
   is the whole target file, written back whole by a rollback. *)
Apply(p) ==
  LET c == proc[p].run
      d == DigestOf(c)
  IN /\ At(p, "apply")
     /\ IF GateReason(c) = "open" /\ Applicable(d)
        THEN /\ tree' = [tree EXCEPT ![d] = @ + 1]
             /\ proc' = [proc EXCEPT ![p].step = "validate", ![p].backup = tree]
        ELSE Finish(p) /\ UNCHANGED tree
     /\ UNCHANGED <<decisions, queue, replayFile, report, evolog, text, hindered, torn, clock,
                    crashes, ordered>>

(* validate_promoted_project succeeds (score_cycle then accepts), ... *)
ValidateOk(p) ==
  /\ At(p, "validate")
  /\ proc' = [proc EXCEPT ![p].step = "log", ![p].backup = Idle.backup]
  /\ UNCHANGED <<decisions, queue, replayFile, report, evolog, text, tree, hindered, torn, clock,
                 crashes, ordered>>

(* Mutant: the failed validation is reported and the target left as written. *)
NotRestored(p) == tree

RestoredTree(p) ==
  [d \in Digest |-> IF FileOf[d] = FileOf[DigestOf(proc[p].run)]
                    THEN proc[p].backup[d] ELSE tree[d]]

(* ... or cargo fmt, check or test fails and rollback_promoted_target runs. *)
ValidateFails(p) ==
  /\ At(p, "validate")
  /\ tree' = RestoredTree(p)
  /\ Finish(p)
  /\ UNCHANGED <<decisions, queue, replayFile, report, evolog, text, hindered, torn, clock,
                 crashes, ordered>>

(* The evolution log entry with retained_in_core = true. *)
NewEntry(p) == [run |-> proc[p].run, digest |-> DigestOf(proc[p].run),
                gatedAt |-> proc[p].gatedAt, governed |-> proc[p].cmd = "promote_approved"]

(* What is written where the last line has no newline yet shares that line. *)
Written(kind) ==
  LET open == text.tail # "newline"
      next == Len(evolog) + 1
  IN [tail    |-> kind,
      lost    |-> text.lost \cup {i \in {next - 1} : text.tail = "promotion"}
                            \cup {i \in {next} : open /\ kind = "promotion"},
      damaged |-> text.damaged \/ open]

(* append_jsonl writes the text of the entry and its newline by two calls. *)
LogPromotion(p) ==
  /\ At(p, "log")
  /\ evolog' = Append(evolog, NewEntry(p))
  /\ text' = Written("promotion")
  /\ proc' = [proc EXCEPT ![p].step = "newline", ![p].gatedAt = 0]
  /\ UNCHANGED <<decisions, queue, replayFile, report, tree, hindered, torn, clock, crashes,
                 ordered>>

(* Mutant: the command ends with the evolution log entry. *)
EndLineAndForget(p) ==
  /\ At(p, "newline")
  /\ text' = [text EXCEPT !.tail = "newline"]
  /\ Finish(p)
  /\ UNCHANGED <<decisions, queue, replayFile, report, evolog, tree, hindered, torn, clock,
                 crashes, ordered>>

(* --promote is done with the newline. *)
EndLine(p) ==
  /\ At(p, "newline")
  /\ text' = [text EXCEPT !.tail = "newline"]
  /\ IF proc[p].cmd = "promote_approved"
     THEN proc' = [proc EXCEPT ![p].step = "record"] ELSE Finish(p)
  /\ UNCHANGED <<decisions, queue, replayFile, report, evolog, tree, hindered, torn, clock,
                 crashes, ordered>>

(* refresh_promotion_queue (an error ends the command) and record_promotion_event. *)
RecordPromotion(p) ==
  LET c == proc[p].run IN
  /\ At(p, "record")
  /\ RefreshQueue
  /\ IF torn = "summary" THEN UNCHANGED decisions ELSE Upsert(c, "promoted", queue'[c])
  /\ Finish(p)
  /\ UNCHANGED <<replayFile, evolog, text, tree, hindered, torn, clock, crashes, ordered>>

-----------------------------------------------------------------------------
(* --replay-candidate: the sandbox run ends in a result (a sandbox that cannot
   be prepared ends in an error and no result), then the report is rebuilt. *)

BeginReplay(p, c) ==
  /\ At(p, "idle")
  /\ \E result \in {"ok", "failed"} : replayFile' = [replayFile EXCEPT ![c] = result]
  /\ Become(p, [Idle EXCEPT !.step = "report", !.run = c])
  /\ UNCHANGED <<decisions, queue, report, evolog, text, tree, hindered, torn, clock, crashes, ordered>>

RefreshReport(p) ==
  /\ At(p, "report")
  /\ report' = [report EXCEPT ![proc[p].run] = replayFile[proc[p].run]]
  /\ Finish(p)
  /\ UNCHANGED <<decisions, queue, replayFile, evolog, text, tree, hindered, torn, clock, crashes,
                 ordered>>

-----------------------------------------------------------------------------
(* The surroundings: time, metrics, half-written files, deaths *)

Tick ==
  /\ clock < MaxClock
  /\ clock' = clock + 1
  /\ UNCHANGED <<decisions, queue, replayFile, report, evolog, text, tree, hindered, torn, proc,
                 crashes, ordered>>

(* Evolution cycles move the metrics autonomy_status is computed from. *)
AutonomyChanges ==
  /\ AutonomyVaries
  /\ hindered' = ~ hindered
  /\ UNCHANGED <<decisions, queue, replayFile, report, evolog, text, tree, torn, clock, proc,
                 crashes, ordered>>

(* write_json is not atomic: a cycle or a replay that dies inside it leaves a
   file serde cannot parse, until somebody removes it. *)
Tear ==
  /\ torn = "none"
  /\ torn' \in Faults \ {"log"}
  /\ UNCHANGED <<decisions, queue, replayFile, report, evolog, text, tree, hindered, clock, proc,
                 crashes, ordered>>

Mend ==
  /\ torn # "none"
  /\ torn' = "none"
  /\ UNCHANGED <<decisions, queue, replayFile, report, evolog, text, tree, hindered, clock, proc,
                 crashes, ordered>>

(* An evolution cycle between the commands appends an entry of its own to the
   log, and may die before its newline. *)
CycleLogs ==
  /\ "log" \in Faults
  /\ \A p \in Proc : At(p, "idle")
  /\ \/ text' = [Written("cycle") EXCEPT !.tail = "newline"] /\ UNCHANGED crashes
     \/ /\ crashes < MaxCrashes
        /\ crashes' = crashes + 1
        /\ text' = Written("cycle")
  /\ UNCHANGED <<decisions, queue, replayFile, report, evolog, tree, hindered, torn, clock,
                 proc, ordered>>

Crash(p) ==
  /\ ~ At(p, "idle")
  /\ crashes < MaxCrashes
  /\ crashes' = crashes + 1
  /\ Finish(p)
  /\ UNCHANGED <<decisions, queue, replayFile, report, evolog, text, tree, hindered, torn, clock,
                 ordered>>

Begin(p) ==
  \E c \in Candidate :
    \/ \E decision \in {"approve", "defer", "reject"} : BeginDecision(p, c, decision)
    \/ BeginPromoteApproved(p, c)
    \/ BeginPromote(p, c)
    \/ BeginReplay(p, c)

Proceed(p) ==
  \/ Decide(p)
  \/ TrustGate(p)
  \/ Apply(p)
  \/ ValidateOk(p)
  \/ ValidateFails(p)
  \/ LogPromotion(p)
  \/ EndLine(p)
  \/ RecordPromotion(p)
  \/ RefreshReport(p)

Environment == Tick \/ AutonomyChanges \/ Tear \/ Mend \/ CycleLogs

Next ==
  \/ \E p \in Proc : Begin(p) \/ Proceed(p) \/ Crash(p)
  \/ Environment

Spec == Init /\ [][Next]_vars

(* A started command keeps running: the operating system schedules it. *)
FairSpec == Spec /\ \A p \in Proc : WF_vars(Proceed(p))

-----------------------------------------------------------------------------
(* Properties *)

Governed == {i \in DOMAIN evolog : evolog[i].governed}
Entries(d) == {i \in Readable : evolog[i].digest = d}
Promoting(d) == {p \in Proc : /\ proc[p].step \in {"validate", "log"}
                              /\ DigestOf(proc[p].run) = d}

(* Among some records, c had an approval at t, newer than anything else by then. *)
ApprovedIn(records, c, t) ==
  \E a \in records :
    /\ a.run = c /\ a.decision = "approve" /\ a.at <= t
    /\ \A r \in records : r.run = c /\ r.decision # "approve" /\ r.at < t => r.at < a.at

(* Whatever --promote-approved put into the project was approved when its trust
   gate ran, and every other decision known by then was older than the approval:
   a promotion never slips past an earlier rejection or deferral, even with
   several operators and unreadable files (governance.rs, operator_approval.rs). *)
PromotedUnderStandingApproval ==
  \A i \in Governed : ApprovedIn(decisions, evolog[i].run, evolog[i].gatedAt)

Promotes(p) == proc[p].cmd = "promote_approved" /\ proc[p].step \in {"apply", "validate", "log"}

(* The inductive form of the last property: it is true of every command between
   the gate and the log too, and no decision is dated later than the clock. *)
ApprovalInv ==
  /\ \A r \in decisions : r.at <= clock
  /\ \A p \in Proc : Promotes(p) =>
       proc[p].gatedAt <= clock /\ ApprovedIn(decisions, proc[p].run, proc[p].gatedAt)
  /\ \A i \in Governed : evolog[i].gatedAt <= clock
  /\ PromotedUnderStandingApproval

(* With one operator and readable summaries, a governed promotion never puts in a
   digest that was put in and logged before, not even when --promote was used, the
   approval was given while other blockers were up, or a death before a newline hid
   the earlier entry: the line nobody can read then closes the gate to every
   candidate (review.rs promoted_digest_exists and autonomy_status, governance.rs gate). *)
GovernedPromotionIsNew ==
  \A j \in Governed : \A i \in DOMAIN evolog :
    i < j => evolog[i].digest # evolog[j].digest

(* With one operator, a target holds each payload once per promotion the log can be
   read to have, once for the promotion under way, and at most twice more per death:
   failed validations leave nothing behind, a death before the log entry leaves one
   copy nobody accounts for, and a death before its newline puts two entries on a line
   that cannot be read (promotion/apply.rs promote_candidate, rollback_promoted_target,
   memory.rs append_jsonl). *)
TreeMatchesLog ==
  \A d \in Digest :
    LET accounted == Cardinality(Entries(d)) + Cardinality(Promoting(d))
    IN accounted <= tree[d] /\ tree[d] <= accounted + 2 * crashes

(* The label governance reads and the state the operator and the release commands
   read agree on what is ready, and what is ready can be approved
   (promotion_queue.rs classify_lifecycle and classify_candidate_state,
   operator_approval.rs validate_approval_candidate). *)
LabelsAgree ==
  \A c \in Candidate : queue[c] # NoItem =>
    LET f == queue[c] IN
    /\ Lifecycle(c, f) = "ready" <=> CandidateState(c, f) = "Ready"
    /\ CandidateState(c, f) = "Ready" => Approvable(c, f)

(* Unless a command dies or the store cannot be read, a governed promotion that reached
   the evolution log also reaches the governance log (governance.rs
   promote_approved_candidate). *)
GovernedPromotionIsRecorded ==
  \A c \in Candidate :
    (\E i \in Governed : evolog[i].run = c)
      ~> ((\E r \in RecordsOf(c) : r.decision = "promoted") \/ crashes > 0)

(* The help of --reject-candidate says a rejection record is appended, and that of
   --promote-approved that promotion runs only after operator approval: the gate
   does not open for a candidate whose last acknowledged decision is a rejection. *)
RejectionIsHonoured ==
  [][\A p \in Proc : At(p, "gate") /\ At(p, "apply")' => ordered[proc[p].run] # "reject"]_vars
=============================================================================
