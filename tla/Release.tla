------------------------------- MODULE Release -------------------------------
(***************************************************************************)
(* The release chain beside governance: --release-approve,                 *)
(* --release-preflight, --release-bundle, --record-release-attempt,        *)
(* --final-rc-report and --runtime-validation.  Nothing here changes the   *)
(* project: the commands read queue, decisions and directories, and write  *)
(* records of what they saw.                                               *)
(*                                                                         *)
(* Decisions, replays, promotions, leaked sandboxes and edits happen       *)
(* beside them; Governance and EvolutionCycle model those step by step,    *)
(* here each is one action.  A step is one report's reading or one write;  *)
(* what it reads, it reads at one moment.  The reports a validation's      *)
(* blockers come from are one step, and so are the two a manifest quotes:  *)
(* what green stands for is asked again after them.  Another cycle may be  *)
(* writing a candidate's summary in place: a refresh that finds it half    *)
(* written leaves the old queue file, which most readers do not notice,    *)
(* and the proof cannot be built.                                          *)
(***************************************************************************)
EXTENDS ReleaseGates, Sequences, FiniteSets

CONSTANTS
  Operator,            \* command lines at work
  MaxWork,             \* bound: commands, decisions, replays, promotions, upsets in all
  MaxDeaths, MaxLedger, \* bounds: deaths, and lines of the ledger
  MaxValidating        \* bound: operators validating at once

ASSUME ReleaseAssumption ==
  /\ Candidate \subseteq Nat
  /\ {MaxWork, MaxDeaths, MaxLedger, MaxValidating} \subseteq Nat

VARIABLES
  decided,     \* records of the governance logs, in the order of created_at
  replayed,    \* how the last replay of each run ended, and when
  promotions,  \* retained_in_core entries: digest, and when
  artifacts,   \* sandboxes/ and the git index
  dirty,       \* the work tree differs from HEAD
  queue,       \* promotion_queue.json: when it was made, and the facts behind each item
  files,       \* files under releases/
  ledger,      \* releases/release_ledger.jsonl
  rcs,         \* runs with a release_candidates/rc-<run>
  proof,       \* proof/eva_proof.json exists
  validation,  \* status of the latest runtime_validation/*.json
  rcStatus,    \* rc_status of the latest runtime candidate
  proc,        \* the command each operator is in
  tangled,     \* history: releases whose last build was cut short or crossed another
  now, work, deaths

vars == <<decided, replayed, promotions, artifacts, dirty, queue, files, ledger, rcs, proof,
          validation, rcStatus, proc, tangled, now, work, deaths>>

world == <<decided, replayed, promotions, artifacts, dirty, now>>

Kind == {"bundle", "manifest", "rollback", "changelog", "preflight"}
(* What a release id is the digest of; score, risk, target and kind are the run's. *)
ReleaseId == [run : Candidate, approved : BOOLEAN, replay : ReplayStatus, state : STRING]
(* says: the decision in a bundle, approved in a manifest, allowed in a preflight;
   cleared: history, when the preflight was judged; asOf: and the queue it was judged by *)
File == [id : ReleaseId, kind : Kind, at : Nat, says : STRING, cleared : Nat, asOf : Nat]
Context == [run : Candidate, decision : STRING, replay : ReplayStatus, state : STRING, at : Nat,
            asOf : Nat]
NoQueue == [at |-> 0, facts |-> <<>>]

Idle == [step |-> "idle"]

(* The chain starts on candidates that were replayed before, or not. *)
Init ==
  /\ decided = <<>>
  /\ replayed \in [Candidate -> [status : {"not_run", "ok"}, at : {0}]]
  /\ promotions = {}
  /\ artifacts = "clean" /\ dirty = FALSE
  /\ queue = NoQueue
  /\ files = {} /\ ledger = <<>> /\ rcs = {}
  /\ proof = FALSE /\ validation = "none" /\ rcStatus = "none"
  /\ proc = [o \in Operator |-> Idle]
  /\ tangled = {}
  /\ now = 0 /\ work = 0 /\ deaths = 0

Become(o, state) == proc' = [proc EXCEPT ![o] = state]
Finish(o) == Become(o, Idle)
At(o, step) == proc[o].step = step
Room == now + work < MaxWork
Begin(o) == At(o, "idle") /\ Room /\ work' = work + 1

-----------------------------------------------------------------------------
(* What the commands read *)

FactsNow(c) ==
  LET done == \E e \in promotions : e.digest = DigestOf(c)
  IN [replay |-> replayed[c].status, promoted |-> done, present |-> done, named |-> done,
      hindered |-> artifacts = "leaks"]

Fresh == [at |-> now, facts |-> [c \in Candidate |-> FactsNow(c)]]
Loaded == IF queue = NoQueue THEN Fresh ELSE queue

(* let _ = refresh_promotion_queue: a failure is not noticed. *)
Refreshed == {queue, Fresh}
(* ... and where the item is then asked for, there is a queue. *)
Consulted == Refreshed \ {NoQueue}

LastOf(c) == {i \in DOMAIN decided :
                /\ decided[i].run = c
                /\ \A j \in DOMAIN decided : decided[j].run = c => j <= i}
Latest(c) == decided[CHOOSE i \in LastOf(c) : TRUE]
LatestDecision(c) == IF LastOf(c) = {} THEN "missing" ELSE Latest(c).decision

ReadyIn(q) == {c \in Candidate : Lifecycle(c, q.facts[c]) = "ready"}
Approved == {c \in Candidate : LatestDecision(c) = "approve"}

(* governance_trust_gate of an approved run, on the item it finds *)
PassesTrustGate(c, f) ==
  /\ Latest(c).state = PromotionState(c, f)
  /\ f.replay = "ok"
  /\ ClassOf(c) = "useful"
  /\ "forbidden_target" \notin Blockers(c, f)
  /\ Lifecycle(c, f) # "already_promoted"
  /\ ~ Has(c, "high_risk")

(* promotion_ready_approved: the trust gate refreshes the queue, but is only reached for
   an item the file calls ready.  The queue it leaves, q, is the one it judges by. *)
Settled == IF ReadyIn(Loaded) \cap Approved = {} THEN {Loaded} ELSE {Loaded, Fresh}
Cleared(q) == {c \in ReadyIn(Loaded) \cap Approved : PassesTrustGate(c, q.facts[c])}

OfKind(kind) == {f \in files : f.kind = kind}

(* A release file that cannot be parsed fails every gate: bundles through
   load_release_entries, manifests through the determinism audit. *)
Readable == \A f \in files : f.kind \in {"bundle", "manifest", "rollback"} => f.says # "torn"

ViewOf(q) ==
  [items |-> Cardinality(Candidate), ready |-> Cardinality(ReadyIn(Loaded)),
   cleared |-> Cardinality(Cleared(q)), artifacts |-> artifacts, dirty |-> dirty,
   releases |-> Cardinality(OfKind("bundle")), rollback |-> OfKind("rollback") # {},
   proof |-> proof, preflights |-> OfKind("preflight") # {}]

-----------------------------------------------------------------------------
(* --release-approve *)

(* The item comes from the queue file, whatever its age. *)
BeginApprove(o, c) ==
  /\ Begin(o)
  /\ queue' = Loaded
  /\ CandidateState(c, Loaded.facts[c]) = "Ready"
  /\ Become(o, [step |-> "approve", run |-> c])
  /\ UNCHANGED <<world, files, ledger, rcs, proof, validation, rcStatus, tangled, deaths>>

Record(c, decision, f) == [run |-> c, decision |-> decision, at |-> now + 1,
                           state |-> PromotionState(c, f)]

(* upsert_append_only: a second record of a kind is never appended. *)
Upsert(c, decision, f) ==
  IF \E i \in DOMAIN decided : decided[i].run = c /\ decided[i].decision = decision
  THEN UNCHANGED <<decided, now>>
  ELSE decided' = Append(decided, Record(c, decision, f)) /\ now' = now + 1

(* approve_candidate; an approval on file is returned as it is. *)
Approve(o) ==
  LET c == proc[o].run IN
  /\ At(o, "approve")
  /\ \E q \in Consulted :
       /\ queue' = q
       /\ IF Approvable(c, q.facts[c])
          THEN Upsert(c, "approve", q.facts[c]) /\ Become(o, [step |-> "evidence", run |-> c])
          ELSE Finish(o) /\ UNCHANGED <<decided, now>>
  /\ UNCHANGED <<replayed, promotions, artifacts, dirty, files, ledger, rcs, proof,
                 validation, rcStatus, tangled, work, deaths>>

(* build_proof_report: the proof is written before anything that asks for it. *)
WriteProof == proof' = TRUE

(* build_evidence_bundle writes the proof first. *)
Evidence(o) ==
  /\ At(o, "evidence")
  /\ Readable
  /\ queue' \in Settled
  /\ WriteProof
  /\ Become(o, [proc[o] EXCEPT !.step = "rc"])
  /\ UNCHANGED <<world, files, ledger, rcs, validation, rcStatus, tangled, work, deaths>>

WriteRc(o) ==
  /\ At(o, "rc")
  /\ rcs' = rcs \cup {proc[o].run}
  /\ Finish(o)
  /\ UNCHANGED <<world, queue, files, ledger, proof, validation, rcStatus, tangled, work, deaths>>

-----------------------------------------------------------------------------
(* --release-preflight and --release-bundle *)

Later(a, b) == IF a > b THEN a ELSE b

(* load_release_candidate_context: the latest decision, the replay status of the
   report, and the item of the queue file, q. *)
ContextOf(c, q) ==
  [run |-> c, decision |-> LatestDecision(c), replay |-> replayed[c].status,
   state |-> IF q = NoQueue THEN "unknown" ELSE Lifecycle(c, q.facts[c]),
   at |-> Later(replayed[c].at, IF LastOf(c) = {} THEN 0 ELSE Latest(c).at),
   asOf |-> q.at]

(* Mutant: whoever was ever approved is. *)
PreflightAllowsOnce(x) ==
  /\ \E i \in DOMAIN decided : decided[i].run = x.run /\ decided[i].decision = "approve"
  /\ x.replay = "ok" /\ x.state = "ready"

(* build_release_preflight_from_context: no blocker. *)
PreflightAllows(x) ==
  /\ Has(x.run, "useful_change") /\ ClassOf(x.run) = "useful"
  /\ x.replay = "ok"
  /\ x.decision = "approve"
  /\ x.state = "ready"
  /\ ~ Has(x.run, "forbidden")

(* release_id_from_preflight *)
IdOf(x) == [run |-> x.run, approved |-> x.decision = "approve", replay |-> x.replay,
            state |-> x.state]

Says(kind, x, first) ==
  CASE kind = "bundle"    -> x.decision
    [] kind = "manifest"  -> IF first.decision = "approve" THEN "approved" ELSE "unapproved"
    [] kind = "preflight" -> IF PreflightAllows(first) THEN "allowed" ELSE "blocked"
    [] OTHER              -> "written"

FileOf(kind, x, first, cleared) ==
  [id |-> IdOf(first), kind |-> kind, at |-> IF kind = "preflight" THEN first.at ELSE x.at,
   says |-> Says(kind, x, first), cleared |-> cleared, asOf |-> first.asOf]

Put(f) == files' = {g \in files : g.id # f.id \/ g.kind # f.kind} \cup {f}

BeginPreflight(o, c, bundling) ==
  /\ Begin(o)
  /\ \E q \in Refreshed :
       /\ queue' = q
       /\ Become(o, [step |-> "preflight", bundling |-> bundling, first |-> ContextOf(c, q),
                     cleared |-> now])
  /\ UNCHANGED <<world, files, ledger, rcs, proof, validation, rcStatus, tangled, deaths>>

(* write_release_preflight; a blocked preflight ends --release-bundle. *)
WritePreflight(o) ==
  LET first == proc[o].first IN
  /\ At(o, "preflight")
  /\ Put(FileOf("preflight", first, first, proc[o].cleared))
  /\ IF proc[o].bundling /\ PreflightAllows(first)
     THEN Become(o, [proc[o] EXCEPT !.step = "context"]) ELSE Finish(o)
  /\ UNCHANGED <<world, queue, ledger, rcs, proof, validation, rcStatus, tangled, work, deaths>>

(* build_release_bundle loads the context a second time: times, report and the
   bundle's approval come from it, the rest from the preflight. *)
SecondContext(o) ==
  /\ At(o, "context")
  /\ \E q \in Refreshed :
       /\ queue' = q
       /\ Become(o, [step |-> "bundle", first |-> proc[o].first, cleared |-> proc[o].cleared,
                     second |-> ContextOf(proc[o].first.run, q)])
  /\ UNCHANGED <<world, files, ledger, rcs, proof, validation, rcStatus, tangled, work, deaths>>

(* write_release_bundle: five files, in this order. *)
NextKind == [bundle |-> "manifest", manifest |-> "rollback", rollback |-> "changelog",
             changelog |-> "final", final |-> "none"]

(* Mutant: an existing manifest is kept. *)
WriteKeeping(f) == IF f.kind = "manifest" /\ \E g \in files : g.id = f.id /\ g.kind = f.kind
                   THEN UNCHANGED files ELSE Put(f)

Write(f) == Put(f)

Building(o) == proc[o].step \in DOMAIN NextKind
WriteFile(o) ==
  LET step == proc[o].step
      id   == IdOf(proc[o].first)
      others == {p \in Operator \ {o} : Building(p) /\ IdOf(proc[p].first) = id}
  IN /\ Building(o)
     /\ Write(FileOf(IF step = "final" THEN "preflight" ELSE step,
                     proc[o].second, proc[o].first, proc[o].cleared))
     /\ IF step = "final" THEN Finish(o) ELSE Become(o, [proc[o] EXCEPT !.step = NextKind[step]])
     /\ tangled' = IF step # "bundle" THEN tangled
                   ELSE IF others = {} THEN tangled \ {id} ELSE tangled \cup {id}
     /\ UNCHANGED <<world, queue, ledger, rcs, proof, validation, rcStatus, work, deaths>>

-----------------------------------------------------------------------------
(* --record-release-attempt *)

RecordRelease(o, id) ==
  /\ Begin(o)
  /\ Len(ledger) < MaxLedger
  /\ \E f \in OfKind("bundle") : f.id = id
  /\ Readable
  /\ \E q \in Settled :
       /\ queue' = q
       /\ ledger' = Append(ledger, [id |-> id, status |-> IF GateV2(ViewOf(q)) = "fail"
                                                          THEN "blocked" ELSE "recorded"])
  /\ UNCHANGED <<world, files, rcs, proof, validation, rcStatus, proc, tangled, deaths>>

-----------------------------------------------------------------------------
(* --runtime-candidate, --final-rc-report, and --runtime-validation when none is on
   file.  What a command goes on with after its validation is its rest: nothing, the
   manifest, or the manifest and, for the report, a second validation. *)

Validating(p) == p.step \in {"evaluate", "refresh", "count", "gate", "trust", "health", "latest",
                             "queue", "write", "candidate"}
MayValidate == Cardinality({o \in Operator : Validating(proc[o])}) < MaxValidating

(* build_runtime_candidate_manifest: proof, governance and gate v3, read together;
   --runtime-validation starts with the evaluation. *)
BeginCandidate(o, rest) ==
  /\ Begin(o) /\ MayValidate
  /\ Readable
  /\ \E q \in Settled :
       /\ queue' = q
       /\ Become(o, [step |-> "evaluate", rest |-> rest,
                     gate |-> GateV3([ViewOf(q) EXCEPT !.proof = TRUE]),
                     cleared |-> Cardinality(Cleared(q))])
  /\ WriteProof
  /\ UNCHANGED <<world, files, ledger, rcs, validation, rcStatus, tangled, deaths>>

Alone == [step |-> "evaluate", rest |-> "nothing", gate |-> "none", cleared |-> 0]

BeginValidation(o) ==
  /\ Begin(o) /\ MayValidate
  /\ validation = "none"
  /\ Become(o, Alone)
  /\ UNCHANGED <<world, queue, files, ledger, rcs, proof, validation, rcStatus, tangled, deaths>>

(* History: what held at some step of a reading; ready is a run when the queue file in
   place was made. *)
Unseen == [project |-> {}, approved |-> {}, ready |-> {}]
Look(seen) ==
  [project |-> seen.project
               \cup When(artifacts = "clean", "clean") \cup When(~ dirty, "tidy")
               \cup When(OfKind("bundle") # {}, "released")
               \cup When(OfKind("rollback") # {}, "revertible"),
   approved |-> seen.approved \cup Approved,
   ready |-> seen.ready \cup ReadyIn(Loaded)]

(* evaluate_runtime_validation, on reports of its own. *)
Evaluate(o) ==
  /\ At(o, "evaluate")
  /\ Readable
  /\ \E q \in Settled :
       /\ queue' = q
       /\ Become(o, [step |-> "refresh", rest |-> proc[o].rest, gate |-> proc[o].gate,
                     cleared |-> proc[o].cleared,
                     blocked |-> ValidationBlocked([ViewOf(q) EXCEPT !.proof = TRUE]),
                     missing |-> {}, chosen |-> {}, seen |-> Unseen])
  /\ WriteProof
  /\ UNCHANGED <<world, files, ledger, rcs, validation, rcStatus, tangled, work, deaths>>

FirstOf(S) == {c \in S : \A d \in S : c <= d}

(* One report apply_green_gate_details or build_release_candidate_state asks for, the
   conditions it finds missing, and the queue file it leaves. *)
Reads(o, step, next, q, missing) ==
  /\ At(o, step)
  /\ queue' = q
  /\ Become(o, [proc[o] EXCEPT !.step = next, !.missing = @ \cup missing, !.seen = Look(@),
                               !.chosen = IF step = "latest" THEN FirstOf(Approved) ELSE @])
  /\ UNCHANGED <<world, files, ledger, rcs, proof, validation, rcStatus, tangled, work, deaths>>

RefreshFirst(o) == \E q \in Refreshed : Reads(o, "refresh", "count", q, {})

(* governance_status; gate v3, which starts with the second gate and then asks for the
   trust decision; and health. *)
Judge(o) ==
  \E q \in Settled :
    LET v == [ViewOf(q) EXCEPT !.proof = TRUE] IN
    \/ Reads(o, "count", "gate", q, When(v.cleared = 0, "operator_approved"))
    \/ /\ Readable
       /\ \/ Reads(o, "gate", "trust", q, When(GateV2(v) # "pass", "preflight_gate_v3_pass"))
          \/ Reads(o, "trust", "health", q, When(GateV3(v) # "pass", "preflight_gate_v3_pass"))
          \/ Reads(o, "health", "latest", q, When(Health(v) # "green", "release_health_green"))

(* latest_release_id and latest_decisions *)
ReadReleases(o) ==
  /\ Readable
  /\ Reads(o, "latest", "queue", queue,
           When(OfKind("bundle") = {}, "release_bundle_exists")
           \cup When(Approved = {}, "approved_release_candidate"))

(* The sandboxes are not asked here: the field tested is only set afterwards. *)
ReadQueue(o) ==
  Reads(o, "queue", "write", Loaded,
        When(ReadyIn(Loaded) = {} /\ "operator_approved" \in proc[o].missing,
             "candidate_queue_has_ready_or_approved_candidate")
        \cup When(\A c \in proc[o].chosen : Loaded.facts[c].replay # "ok",
                  "replay_status_for_approved_candidate"))

(* write_runtime_validation *)
WriteValidation(o) ==
  LET status == ValidationStatus(proc[o].blocked, proc[o].missing) IN
  /\ At(o, "write")
  /\ validation' = IF validation = "unreadable" THEN validation ELSE status
  /\ IF proc[o].rest = "nothing" THEN Finish(o)
     ELSE Become(o, [step |-> "candidate", rest |-> proc[o].rest, gate |-> proc[o].gate,
                     cleared |-> proc[o].cleared, status |-> status, seen |-> proc[o].seen])
  /\ UNCHANGED <<world, queue, files, ledger, rcs, proof, rcStatus, tangled, work, deaths>>

WriteManifest(o) ==
  /\ At(o, "candidate")
  /\ rcStatus' = RcStatus(proc[o].status, proc[o].gate, proc[o].cleared)
  /\ IF proc[o].rest = "report" THEN Become(o, Alone) ELSE Finish(o)
  /\ UNCHANGED <<world, queue, files, ledger, rcs, proof, validation, tangled, work, deaths>>

(* A summary or a release file that cannot be parsed ends the command with an error. *)
Fail(o) ==
  /\ proc[o].step \in {"evidence", "evaluate", "gate", "trust", "health", "latest"}
  /\ queue' \in {queue} \cup Settled
  /\ Finish(o)
  /\ UNCHANGED <<world, files, ledger, rcs, proof, validation, rcStatus, tangled, work, deaths>>

-----------------------------------------------------------------------------
(* A death: the file being written is left as it was, or truncated. *)

Target(o) ==
  IF At(o, "preflight") THEN {FileOf("preflight", proc[o].first, proc[o].first, 0)}
  ELSE IF Building(o)
       THEN {FileOf(IF At(o, "final") THEN "preflight" ELSE proc[o].step,
                    proc[o].second, proc[o].first, proc[o].cleared)}
  ELSE {}

Die(o) ==
  /\ ~ At(o, "idle")
  /\ deaths < MaxDeaths
  /\ deaths' = deaths + 1
  /\ \/ UNCHANGED files
     \/ \E f \in Target(o) : Put([f EXCEPT !.says = "torn"])
  /\ validation' \in {validation} \cup When(At(o, "write"), "unreadable")
  /\ tangled' = tangled \cup {f.id : f \in Target(o)}
  /\ Finish(o)
  /\ UNCHANGED <<world, queue, ledger, rcs, proof, rcStatus, work>>

-----------------------------------------------------------------------------
(* Beside the release commands *)

UNCHANGED_Release == UNCHANGED <<files, ledger, rcs, proof, validation, rcStatus, proc, tangled,
                                 work, deaths>>

(* --approve-candidate, --reject-candidate, --defer-candidate *)
Decide(c, decision) ==
  /\ Room
  /\ \E q \in Consulted :
       /\ decision = "approve" => Approvable(c, q.facts[c])
       /\ queue' = q
       /\ Upsert(c, decision, q.facts[c])
  /\ UNCHANGED <<replayed, promotions, artifacts, dirty>> /\ UNCHANGED_Release

(* --replay-candidate: the report follows, the queue does not. *)
Replay(c, status) ==
  /\ Room
  /\ now' = now + 1
  /\ replayed' = [replayed EXCEPT ![c] = [status |-> status, at |-> now + 1]]
  /\ UNCHANGED <<decided, promotions, artifacts, dirty, queue>> /\ UNCHANGED_Release

(* --promote, and --promote-approved, which also refreshes and records, unless the
   refresh fails. *)
Promote(c, governed) ==
  /\ Room
  /\ GateReason(c) = "open"
  /\ now' = now + 1
  /\ promotions' = promotions \cup {[digest |-> DigestOf(c), at |-> now + 1]}
  /\ dirty' = TRUE
  /\ UNCHANGED <<replayed, artifacts>> /\ UNCHANGED_Release
  /\ IF governed
     THEN \E q \in Consulted :
            /\ c \in Approved /\ PassesTrustGate(c, q.facts[c])
            /\ \/ queue' = q /\ decided' = decided
               \/ /\ queue' = Fresh'
                  /\ decided' = Append(decided, Record(c, "promoted", FactsNow(c)'))
     ELSE UNCHANGED <<queue, decided>>

(* Cycles leave sandboxes, runtime files are committed by mistake, the work tree is
   edited and committed; and a cycle's end refreshes the queue. *)
Upset ==
  /\ Room
  /\ work' = work + 1
  /\ \/ artifacts' \in {"clean", "leaks", "tracked"} \ {artifacts} /\ dirty' = dirty
     \/ dirty' = ~ dirty /\ artifacts' = artifacts
  /\ UNCHANGED <<decided, replayed, promotions, now, queue, files, ledger, rcs, proof, validation,
                 rcStatus, proc, tangled, deaths>>

RefreshQueue ==
  /\ queue' = Fresh
  /\ UNCHANGED world /\ UNCHANGED_Release

Command(o) ==
  \/ \E c \in Candidate : BeginApprove(o, c) \/ BeginPreflight(o, c, TRUE)
                          \/ BeginPreflight(o, c, FALSE)
  \/ Approve(o) \/ Evidence(o) \/ WriteRc(o)
  \/ WritePreflight(o) \/ SecondContext(o) \/ WriteFile(o)
  \/ \E f \in OfKind("bundle") : RecordRelease(o, f.id)
  \/ BeginCandidate(o, "manifest") \/ BeginCandidate(o, "report") \/ BeginValidation(o)
  \/ Evaluate(o) \/ RefreshFirst(o) \/ Judge(o) \/ ReadReleases(o) \/ ReadQueue(o)
  \/ WriteValidation(o) \/ WriteManifest(o)
  \/ Fail(o)

Beside ==
  \/ \E c \in Candidate :
       \/ \E decision \in {"approve", "reject", "defer"} : Decide(c, decision)
       \/ \E status \in {"ok", "failed"} : Replay(c, status)
       \/ \E governed \in BOOLEAN : Promote(c, governed)
  \/ Upset \/ RefreshQueue

Next == (\E o \in Operator : Command(o) \/ Die(o)) \/ Beside

Spec == Init /\ [][Next]_vars

-----------------------------------------------------------------------------
(* Properties *)

Releases == {f.id : f \in OfKind("bundle")}
Underway(id) == \E o \in Operator : Building(o) /\ IdOf(proc[o].first) = id

(* A release that is listed can be printed and rolled back: its five files are on
   file, none is torn, the four of the build are of one moment, and the preflight
   stored under its id is one that allowed it, however often the run is bundled or
   preflighted again; a build under way, cut short by a death or crossed by another
   of the same release is excused until the next whole one (release_bundle.rs
   write_release_bundle, print_last_release; release_preflight.rs
   release_id_from_preflight). *)
ReleaseIsWhole ==
  \A id \in Releases : ~ Underway(id) /\ id \notin tangled =>
    LET own == {f \in files : f.id = id} IN
    /\ {f.kind : f \in own} = Kind
    /\ \A f \in own : f.says \notin {"torn", "blocked"}
    /\ \A f, g \in own : f.kind # "preflight" /\ g.kind # "preflight" => f.at = g.at

StandsAt(c, decision, t) ==
  \E i \in DOMAIN decided :
    /\ decided[i].run = c /\ decided[i].decision = decision /\ decided[i].at <= t
    /\ \A j \in DOMAIN decided : decided[j].run = c /\ decided[j].at <= t => j <= i

(* A bundle exists only for a run that stood approved when its preflight was judged
   and that nothing had promoted when the queue file it was judged by was made (which
   is then, unless the refresh failed).  The decision the bundle quotes, read later, is
   the one that stood at the moment the bundle is dated, so an approval withdrawn
   between the two readings shows.  And a run has one release however often it is
   bundled (release_preflight.rs build_release_preflight_from_context,
   release_bundle.rs build_release_bundle). *)
BundledUnderApproval ==
  /\ \A f \in OfKind("bundle") :
       /\ StandsAt(f.id.run, "approve", f.cleared)
       /\ f.says # "torn" => StandsAt(f.id.run, f.says, f.at)
       /\ \A e \in promotions : e.digest = DigestOf(f.id.run) => e.at > f.asOf
  /\ \A id, other \in Releases : id.run = other.run => id = other

(* What docs/phase_15x_status.md lists for green, as a reading saw it. *)
Earned(seen) ==
  /\ {"clean", "tidy", "released", "revertible"} \subseteq seen.project
  /\ seen.approved \cap seen.ready # {}

(* A validation is only written green, and a runtime candidate only passes, when each
   thing green stands for was true at some step of the reading behind it: no leaked
   sandbox, no tracked runtime file, a clean work tree, a release, a rollback manifest,
   and a run that was approved and, when the queue file was made, ready.  Decisions,
   leaks and edits come between the steps, so not all at once, and not any more when
   green is written (runtime_validation.rs apply_green_gate_details,
   release_candidate.rs build_release_candidate_state). *)
GreenIsEarned ==
  [][\A o \in Operator :
       \/ WriteValidation(o) /\ validation' = "green"
       \/ WriteManifest(o) /\ rcStatus' = "pass"
       => Earned(proc[o].seen)]_vars

=============================================================================
