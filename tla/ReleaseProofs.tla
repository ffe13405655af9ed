---------------------------- MODULE ReleaseProofs ----------------------------
(***************************************************************************)
(* Theorems about Release, for all candidates, profiles, operators and     *)
(* bounds: a validation turns green only when what it stands for holds,    *)
(* and a bundle goes back to a preflight judged under a standing approval. *)
(***************************************************************************)
EXTENDS Release, FiniteSetTheorems, TLAPS

-----------------------------------------------------------------------------
(* Green *)

(* A gate that passes has seen a clean project, a clean work tree, a rollback
   manifest and a cleared candidate (preflight_gate_v3.rs build_preflight_gate_v3). *)
LEMMA PassingGate ==
  ASSUME NEW v, GateV3(v) = "pass"
  PROVE  v.artifacts = "clean" /\ ~ v.dirty /\ v.rollback /\ v.cleared # 0
<1>1. Trust(v) # "deny" /\ Trust(v) # "warn"
  BY DEF GateV3
<1> QED BY <1>1 DEF Trust

(* A candidate the queue calls ready is in the state an operator sees as ready, and
   has not been promoted (promotion_queue.rs classify_lifecycle,
   candidate_state.rs classify_candidate_state). *)
LEMMA ReadyIsReady ==
  ASSUME NEW c \in Candidate, NEW f, Lifecycle(c, f) = "ready"
  PROVE  CandidateState(c, f) = "Ready" /\ ~ f.promoted
<1>1. /\ ClassOf(c) \notin {"cosmetic", "unsafe", "legacy"}
      /\ Has(c, "useful_change")
      /\ f.replay = "ok"
      /\ Blockers(c, f) = {}
  BY DEF Lifecycle, PromotionAllowed
<1>2. CandidateState(c, f) = "Ready"
  BY <1>1 DEF CandidateState
<1>3. When(f.promoted, "already_promoted") \subseteq Blockers(c, f)
  BY <1>1 DEF Blockers
<1>4. ~ f.promoted
  BY <1>1, <1>3 DEF When
<1> QED BY <1>2, <1>4

(* What the trust step of a reading has seen when it finds nothing missing. *)
Gated(seen) ==
  /\ {"clean", "tidy", "revertible"} \subseteq seen.project
  /\ seen.approved \cap seen.ready # {}

(* Whatever passes the third gate was there to be seen. *)
LEMMA PassingIsSeen ==
  ASSUME NEW q, NEW seen, GateV3([ViewOf(q) EXCEPT !.proof = TRUE]) = "pass"
  PROVE  Gated(Look(seen))
<1> DEFINE v == [ViewOf(q) EXCEPT !.proof = TRUE]
<1>1. /\ v.artifacts = artifacts /\ v.dirty = dirty
      /\ v.rollback = (OfKind("rollback") # {})
      /\ v.cleared = Cardinality(Cleared(q))
  BY DEF ViewOf
<1>2. GateV3(v) = "pass"
  OBVIOUS
<1> HIDE DEF v
<1>3. artifacts = "clean" /\ ~ dirty /\ OfKind("rollback") # {} /\ v.cleared # 0
  BY <1>1, <1>2, PassingGate
<1>4. Cleared(q) # {}
  BY <1>1, <1>3, FS_EmptySet
<1>5. PICK c \in Candidate : c \in ReadyIn(Loaded) /\ c \in Approved
  BY <1>4 DEF Cleared, Approved
<1>6. {"clean", "tidy", "revertible"} \subseteq Look(seen).project
  BY <1>3 DEF Look, When
<1>7. c \in Look(seen).approved /\ c \in Look(seen).ready
  BY <1>5 DEF Look
<1> QED BY <1>6, <1>7 DEF Gated

(* Nothing seen is forgotten. *)
LEMMA SeenStays ==
  ASSUME NEW seen
  PROVE  /\ Gated(seen) => Gated(Look(seen))
         /\ "released" \in seen.project => "released" \in Look(seen).project
<1>1. /\ seen.project \subseteq Look(seen).project
      /\ seen.approved \subseteq Look(seen).approved
      /\ seen.ready \subseteq Look(seen).ready
  BY DEF Look
<1> QED BY <1>1 DEF Gated

Reading == {"refresh", "count", "gate", "trust", "health", "latest", "queue", "write"}

(* What a reading that found nothing missing so far has seen. *)
Promised(p) ==
  /\ "step" \in DOMAIN p
  /\ p.step \in Reading => {"missing", "seen", "chosen"} \subseteq DOMAIN p
  /\ p.step \in {"health", "latest", "queue", "write"} /\ "preflight_gate_v3_pass" \notin p.missing
       => Gated(p.seen)
  /\ p.step \in {"queue", "write"} /\ "release_bundle_exists" \notin p.missing
       => "released" \in p.seen.project
  /\ p.step = "candidate" /\ p.status = "green" => Earned(p.seen)

SeenInv ==
  /\ proc = [o \in Operator |-> proc[o]]
  /\ \A o \in Operator : Promised(proc[o])

(* A command outside a reading has promised nothing. *)
LEMMA ElsewherePromised ==
  ASSUME NEW p, "step" \in DOMAIN p, p.step \notin Reading \cup {"candidate"}
  PROVE  Promised(p)
BY DEF Promised, Reading

LEMMA PromiseMoves ==
  ASSUME SeenInv, NEW o \in Operator, NEW state, Become(o, state), Promised(state)
  PROVE  SeenInv'
<1>1. \A q \in Operator : proc'[q] = IF q = o THEN state ELSE proc[q]
  BY DEF Become, SeenInv
<1>2. proc' = [q \in Operator |-> proc'[q]]
  BY DEF Become, SeenInv
<1>3. \A q \in Operator : Promised(proc'[q])
  BY <1>1 DEF SeenInv
<1> QED BY <1>2, <1>3 DEF SeenInv

(* One report more: what was promised still is, and the two reports that promise have
   seen it. *)
LEMMA ReadsPromise ==
  ASSUME SeenInv, NEW o \in Operator, NEW step \in Reading \ {"write"}, NEW next, NEW q, NEW missing,
         Reads(o, step, next, q, missing),
         \/ step \in {"refresh", "count", "gate"} /\ next \in {"count", "gate", "trust"}
         \/ step = "trust" /\ next = "health"
            /\ ("preflight_gate_v3_pass" \notin missing => Gated(Look(proc[o].seen)))
         \/ step = "health" /\ next = "latest"
         \/ step = "latest" /\ next = "queue"
            /\ ("release_bundle_exists" \notin missing => "released" \in Look(proc[o].seen).project)
         \/ step = "queue" /\ next = "write"
  PROVE  SeenInv'
<1>1. PICK p : p = proc[o]
  OBVIOUS
<1>2. PICK chosen : Become(o, [p EXCEPT !.step = next, !.missing = p.missing \cup missing,
                                        !.seen = Look(p.seen), !.chosen = chosen])
  BY <1>1 DEF Reads
<1>3. PICK new : new = [p EXCEPT !.step = next, !.missing = p.missing \cup missing,
                                 !.seen = Look(p.seen), !.chosen = chosen]
  OBVIOUS
<1>4. Promised(p) /\ p.step = step
  BY <1>1 DEF SeenInv, Reads, At
<1>5. {"step", "missing", "seen", "chosen"} \subseteq DOMAIN p
  BY <1>4 DEF Promised, Reading
<1>6. /\ DOMAIN new = DOMAIN p
      /\ new.step = next /\ new.missing = p.missing \cup missing /\ new.seen = Look(p.seen)
  BY <1>3, <1>5
<1>7. Gated(p.seen) => Gated(new.seen)
  BY <1>6, SeenStays
<1>8. "released" \in p.seen.project => "released" \in new.seen.project
  BY <1>6, SeenStays
<1>9. Promised(new)
  <2>1. CASE step \in {"refresh", "count", "gate"} /\ next \in {"count", "gate", "trust"}
    BY <1>5, <1>6, <2>1 DEF Promised
  <2>2. CASE step = "trust"
    <3>1. next = "health" /\ ("preflight_gate_v3_pass" \notin missing => Gated(new.seen))
      BY <1>1, <1>6, <2>2
    <3> QED BY <1>5, <1>6, <3>1 DEF Promised
  <2>3. CASE step = "health"
    <3>1. next = "latest" /\ ("preflight_gate_v3_pass" \notin p.missing => Gated(p.seen))
      BY <1>4, <2>3 DEF Promised
    <3> QED BY <1>5, <1>6, <1>7, <3>1 DEF Promised
  <2>4. CASE step = "latest"
    <3>1. /\ next = "queue"
          /\ "preflight_gate_v3_pass" \notin p.missing => Gated(p.seen)
          /\ "release_bundle_exists" \notin missing => "released" \in new.seen.project
      BY <1>1, <1>4, <1>6, <2>4 DEF Promised
    <3> QED BY <1>5, <1>6, <1>7, <3>1 DEF Promised
  <2>5. CASE step = "queue"
    <3>1. /\ next = "write"
          /\ "preflight_gate_v3_pass" \notin p.missing => Gated(p.seen)
          /\ "release_bundle_exists" \notin p.missing => "released" \in p.seen.project
      BY <1>4, <2>5 DEF Promised
    <3> QED BY <1>5, <1>6, <1>7, <1>8, <3>1 DEF Promised
  <2> QED BY <2>1, <2>2, <2>3, <2>4, <2>5 DEF Reading
<1> QED BY <1>2, <1>3, <1>9, PromiseMoves

LEMMA JudgesPromise == ASSUME SeenInv, NEW o \in Operator, Judge(o) PROVE SeenInv'
<1>1. PICK q \in Settled :
        LET v == [ViewOf(q) EXCEPT !.proof = TRUE] IN
        \/ Reads(o, "count", "gate", q, When(v.cleared = 0, "operator_approved"))
        \/ Reads(o, "gate", "trust", q, When(GateV2(v) # "pass", "preflight_gate_v3_pass"))
        \/ Reads(o, "trust", "health", q, When(GateV3(v) # "pass", "preflight_gate_v3_pass"))
        \/ Reads(o, "health", "latest", q, When(Health(v) # "green", "release_health_green"))
  BY DEF Judge
<1>2. CASE \E missing : Reads(o, "count", "gate", q, missing)
  BY <1>2, ReadsPromise DEF Reading
<1>3. CASE \E missing : Reads(o, "gate", "trust", q, missing)
  BY <1>3, ReadsPromise DEF Reading
<1>4. CASE Reads(o, "trust", "health", q,
                 When(GateV3([ViewOf(q) EXCEPT !.proof = TRUE]) # "pass", "preflight_gate_v3_pass"))
  <2>1. PICK missing :
          missing = When(GateV3([ViewOf(q) EXCEPT !.proof = TRUE]) # "pass", "preflight_gate_v3_pass")
    OBVIOUS
  <2>2. "preflight_gate_v3_pass" \notin missing => GateV3([ViewOf(q) EXCEPT !.proof = TRUE]) = "pass"
    BY <2>1 DEF When
  <2>3. "preflight_gate_v3_pass" \notin missing => Gated(Look(proc[o].seen))
    BY <2>2, PassingIsSeen
  <2>4. Reads(o, "trust", "health", q, missing)
    BY <1>4, <2>1
  <2> QED BY <2>3, <2>4, ReadsPromise DEF Reading
<1>5. CASE \E missing : Reads(o, "health", "latest", q, missing)
  BY <1>5, ReadsPromise DEF Reading
<1> QED BY <1>1, <1>2, <1>3, <1>4, <1>5

LEMMA ReleasesPromise == ASSUME SeenInv, NEW o \in Operator, ReadReleases(o) PROVE SeenInv'
<1>1. PICK missing :
        /\ missing = When(OfKind("bundle") = {}, "release_bundle_exists")
                     \cup When(Approved = {}, "approved_release_candidate")
        /\ Reads(o, "latest", "queue", queue, missing)
  BY DEF ReadReleases
<1>2. "release_bundle_exists" \notin missing => OfKind("bundle") # {}
  BY <1>1 DEF When
<1>3. OfKind("bundle") # {} => "released" \in Look(proc[o].seen).project
  BY DEF Look, When
<1> QED BY <1>1, <1>2, <1>3, ReadsPromise DEF Reading

(* A status of green stands for a reading that found nothing missing. *)
LEMMA GreenIsSeen ==
  ASSUME NEW p, Promised(p), p.step = "write", ValidationStatus(p.blocked, p.missing) = "green"
  PROVE  Earned(p.seen)
<1>1. p.missing = {}
  BY DEF ValidationStatus
<1> QED BY <1>1 DEF Promised, Gated, Earned

LEMMA WritesPromise == ASSUME SeenInv, NEW o \in Operator, WriteValidation(o) PROVE SeenInv'
<1>1. PICK p : p = proc[o]
  OBVIOUS
<1>2. Promised(p) /\ p.step = "write"
  BY <1>1 DEF SeenInv, WriteValidation, At
<1>3. CASE Become(o, Idle)
  <2>1. Promised(Idle)
    BY ElsewherePromised DEF Idle, Reading
  <2> QED BY <1>3, <2>1, PromiseMoves
<1>4. CASE p.rest # "nothing"
  <2>1. PICK status : status = ValidationStatus(p.blocked, p.missing)
    OBVIOUS
  <2>2. PICK new : new = [step |-> "candidate", rest |-> p.rest, gate |-> p.gate,
                          cleared |-> p.cleared, status |-> status, seen |-> p.seen]
    OBVIOUS
  <2>3. Become(o, new)
    BY <1>1, <1>4, <2>1, <2>2 DEF WriteValidation
  <2>4. status = "green" => Earned(p.seen)
    BY <1>2, <2>1, GreenIsSeen
  <2>5. Promised(new)
    BY <2>2, <2>4 DEF Promised, Reading
  <2> QED BY <2>3, <2>5, PromiseMoves
<1> QED BY <1>1, <1>3, <1>4 DEF WriteValidation, Finish

LEMMA EvaluatePromises == ASSUME SeenInv, NEW o \in Operator, Evaluate(o) PROVE SeenInv'
<1>1. PICK blocked :
        Become(o, [step |-> "refresh", rest |-> proc[o].rest, gate |-> proc[o].gate,
                   cleared |-> proc[o].cleared, blocked |-> blocked,
                   missing |-> {}, chosen |-> {}, seen |-> Unseen])
  BY DEF Evaluate
<1>2. PICK new : new = [step |-> "refresh", rest |-> proc[o].rest, gate |-> proc[o].gate,
                        cleared |-> proc[o].cleared, blocked |-> blocked,
                        missing |-> {}, chosen |-> {}, seen |-> Unseen]
  OBVIOUS
<1>3. Promised(new)
  BY <1>2 DEF Promised
<1> QED BY <1>1, <1>2, <1>3, PromiseMoves

(* Every other step leaves or enters no reading. *)
LEMMA OthersPromise ==
  ASSUME SeenInv, NEW o \in Operator,
         \/ \E c \in Candidate : BeginApprove(o, c) \/ BeginPreflight(o, c, TRUE)
                                \/ BeginPreflight(o, c, FALSE)
         \/ Approve(o) \/ Evidence(o) \/ WriteRc(o)
         \/ WritePreflight(o) \/ SecondContext(o) \/ WriteFile(o)
         \/ BeginCandidate(o, "manifest") \/ BeginCandidate(o, "report") \/ BeginValidation(o)
         \/ WriteManifest(o) \/ Fail(o) \/ Die(o)
  PROVE  SeenInv'
<1>1. "step" \in DOMAIN proc[o]
  BY DEF SeenInv, Promised
<1>2. PICK state : Become(o, state) /\ "step" \in DOMAIN state
                   /\ state.step \notin Reading \cup {"candidate"}
  <2> USE DEF Reading
  <2>1. "step" \in DOMAIN Idle /\ Idle.step = "idle"
    BY DEF Idle
  <2>2. "step" \in DOMAIN Alone /\ Alone.step = "evaluate"
    BY DEF Alone
  <2>3. CASE \E c \in Candidate : BeginApprove(o, c)
    BY <2>3 DEF BeginApprove
  <2>4. CASE \E c \in Candidate : BeginPreflight(o, c, TRUE) \/ BeginPreflight(o, c, FALSE)
    <3>1. PICK bundling, first, cleared :
            Become(o, [step |-> "preflight", bundling |-> bundling, first |-> first,
                       cleared |-> cleared])
      BY <2>4 DEF BeginPreflight
    <3>2. PICK new : new = [step |-> "preflight", bundling |-> bundling, first |-> first,
                            cleared |-> cleared]
      OBVIOUS
    <3>3. "step" \in DOMAIN new /\ new.step = "preflight"
      BY <3>2
    <3> QED BY <3>1, <3>2, <3>3
  <2>5. CASE Approve(o)
    <3>1. PICK c : Become(o, Idle) \/ Become(o, [step |-> "evidence", run |-> c])
      BY <2>5 DEF Approve, Finish
    <3>2. PICK new : new = [step |-> "evidence", run |-> c]
      OBVIOUS
    <3>3. "step" \in DOMAIN new /\ new.step = "evidence"
      BY <3>2
    <3> QED BY <2>1, <3>1, <3>2, <3>3
  <2>6. CASE Evidence(o)
    <3>1. Become(o, [proc[o] EXCEPT !.step = "rc"])
      BY <2>6 DEF Evidence
    <3>2. "step" \in DOMAIN [proc[o] EXCEPT !.step = "rc"] /\ [proc[o] EXCEPT !.step = "rc"].step = "rc"
      BY <1>1
    <3> QED BY <3>1, <3>2
  <2>7. CASE WriteRc(o) \/ Fail(o) \/ Die(o)
    BY <2>1, <2>7 DEF WriteRc, Fail, Die, Finish
  <2>8. CASE WritePreflight(o)
    <3>1. Become(o, Idle) \/ Become(o, [proc[o] EXCEPT !.step = "context"])
      BY <2>8 DEF WritePreflight, Finish
    <3>2. /\ "step" \in DOMAIN [proc[o] EXCEPT !.step = "context"]
          /\ [proc[o] EXCEPT !.step = "context"].step = "context"
      BY <1>1
    <3> QED BY <2>1, <3>1, <3>2
  <2>9. CASE SecondContext(o)
    BY <2>9 DEF SecondContext
  <2>10. CASE WriteFile(o)
    <3>1. PICK next \in {"manifest", "rollback", "changelog", "final", "none"} :
            Become(o, Idle) \/ Become(o, [proc[o] EXCEPT !.step = next])
      BY <2>10 DEF WriteFile, Finish, Building, NextKind
    <3>2. PICK new : new = [proc[o] EXCEPT !.step = next]
      OBVIOUS
    <3>3. "step" \in DOMAIN new /\ new.step = next
      BY <1>1, <3>2
    <3> QED BY <2>1, <3>1, <3>2, <3>3
  <2>11. CASE BeginCandidate(o, "manifest") \/ BeginCandidate(o, "report")
    <3>1. PICK rest, gate, cleared :
            Become(o, [step |-> "evaluate", rest |-> rest, gate |-> gate, cleared |-> cleared])
      BY <2>11 DEF BeginCandidate
    <3>2. PICK new : new = [step |-> "evaluate", rest |-> rest, gate |-> gate, cleared |-> cleared]
      OBVIOUS
    <3>3. "step" \in DOMAIN new /\ new.step = "evaluate"
      BY <3>2
    <3> QED BY <3>1, <3>2, <3>3
  <2>12. CASE BeginValidation(o)
    BY <2>2, <2>12 DEF BeginValidation
  <2>13. CASE WriteManifest(o)
    BY <2>1, <2>2, <2>13 DEF WriteManifest, Finish
  <2> QED BY <2>3, <2>4, <2>5, <2>6, <2>7, <2>8, <2>9, <2>10, <2>11, <2>12, <2>13
<1> QED BY <1>2, ElsewherePromised, PromiseMoves

LEMMA StepSeen == SeenInv /\ [Next]_vars => SeenInv'
<1> SUFFICES ASSUME SeenInv, [Next]_vars PROVE SeenInv'
  OBVIOUS
<1>1. ASSUME proc' = proc PROVE SeenInv'
  BY <1>1 DEF SeenInv
<1>2. ASSUME NEW o \in Operator, Command(o) PROVE SeenInv'
  <2>1. CASE RefreshFirst(o)
    BY <2>1, ReadsPromise DEF RefreshFirst, Reading
  <2>2. CASE ReadQueue(o)
    BY <2>2, ReadsPromise DEF ReadQueue, Reading
  <2>3. CASE \E f \in OfKind("bundle") : RecordRelease(o, f.id)
    BY <1>1, <2>3 DEF RecordRelease
  <2> QED BY <1>2, <2>1, <2>2, <2>3, JudgesPromise, ReleasesPromise, WritesPromise, EvaluatePromises,
            OthersPromise DEF Command
<1>3. CASE Beside
  BY <1>1, <1>3 DEF Beside, Decide, Replay, Promote, Upset, RefreshQueue, UNCHANGED_Release
<1>4. CASE UNCHANGED vars
  BY <1>1, <1>4 DEF vars
<1> QED BY <1>2, <1>3, <1>4, OthersPromise DEF Next

LEMMA InitSeen == Init => SeenInv
<1> SUFFICES ASSUME Init PROVE SeenInv
  OBVIOUS
<1>1. proc = [o \in Operator |-> Idle]
  BY DEF Init
<1>2. Promised(Idle)
  BY ElsewherePromised DEF Idle, Reading
<1> QED BY <1>1, <1>2 DEF SeenInv

(* A command that writes green, or lets a runtime candidate pass, has seen all of it. *)
LEMMA WritersHaveSeen ==
  ASSUME SeenInv, NEW o \in Operator,
         \/ WriteValidation(o) /\ validation' = "green"
         \/ WriteManifest(o) /\ rcStatus' = "pass"
  PROVE  Earned(proc[o].seen)
<1>1. PICK p : p = proc[o]
  OBVIOUS
<1>2. Promised(p)
  BY <1>1 DEF SeenInv
<1>3. CASE WriteValidation(o) /\ validation' = "green"
  <2>1. p.step = "write" /\ ValidationStatus(p.blocked, p.missing) = "green"
    BY <1>1, <1>3 DEF WriteValidation, At
  <2> QED BY <1>1, <1>2, <2>1, GreenIsSeen
<1>4. CASE WriteManifest(o) /\ rcStatus' = "pass"
  <2>1. p.step = "candidate" /\ RcStatus(p.status, p.gate, p.cleared) = "pass"
    BY <1>1, <1>4 DEF WriteManifest, At
  <2>2. p.status = "green"
    BY <2>1 DEF RcStatus
  <2> QED BY <1>1, <1>2, <2>1, <2>2 DEF Promised
<1> QED BY <1>3, <1>4

(* A validation is only written green, and a runtime candidate only passes, on a reading
   that has seen no leaked sandbox, no tracked runtime file, a clean work tree, a release,
   a rollback manifest and an approved run its queue file calls ready, whatever comes
   between its steps (runtime_validation.rs apply_green_gate_details, release_candidate.rs
   build_release_candidate_state). *)
THEOREM GreenIsOnlyEarned == Spec => GreenIsEarned
<1>1. Spec => []SeenInv
  BY InitSeen, StepSeen, PTL DEF Spec
<1>2. SeenInv => (\A o \in Operator :
                    \/ WriteValidation(o) /\ validation' = "green"
                    \/ WriteManifest(o) /\ rcStatus' = "pass"
                    => Earned(proc[o].seen))
  BY WritersHaveSeen
<1> QED BY <1>1, <1>2, PTL DEF Spec, GreenIsEarned

-----------------------------------------------------------------------------
(* Bundles *)

Decision == {"approve", "reject", "defer", "promoted"}

Quoted(c, decision, t) == t \in Nat /\ t <= now /\ StandsAt(c, decision, t)

Unpromoted(c, t) ==
  /\ t \in Nat /\ t <= now
  /\ \A e \in promotions : e.digest = DigestOf(c) => e.at > t

Judged(c, t, asOf) == Quoted(c, "approve", t) /\ Unpromoted(c, asOf)

(* What the queue file says of a run not being promoted was so when it was made. *)
QueueOk(q) ==
  /\ q.at \in Nat /\ q.at <= now
  /\ q # NoQueue => \A c \in Candidate : ~ q.facts[c].promoted => Unpromoted(c, q.at)

(* What a command is to know from the moment its preflight is judged. *)
Bundling(p) ==
  \/ p.step = "preflight" /\ p.bundling /\ PreflightAllows(p.first)
  \/ p.step = "context"
  \/ p.step \in DOMAIN NextKind

Shaped(p) ==
  /\ "step" \in DOMAIN p
  /\ p.step \in {"preflight", "context"} \cup DOMAIN NextKind
       => {"first", "cleared"} \subseteq DOMAIN p /\ p.first.run \in Candidate
  /\ p.step \in DOMAIN NextKind => "second" \in DOMAIN p /\ p.second.decision \in Decision

CommandOk(p) ==
  /\ Shaped(p)
  /\ Bundling(p) => PreflightAllows(p.first) /\ Judged(p.first.run, p.cleared, p.first.asOf)
  /\ p.step \in DOMAIN NextKind => Quoted(p.first.run, p.second.decision, p.second.at)

AllowedId(id) ==
  /\ id = [run |-> id.run, approved |-> TRUE, replay |-> "ok", state |-> "ready"]
  /\ Has(id.run, "useful_change") /\ ClassOf(id.run) = "useful" /\ ~ Has(id.run, "forbidden")

BundleOk(f) ==
  /\ AllowedId(f.id)
  /\ Judged(f.id.run, f.cleared, f.asOf)
  /\ f.says = "torn" \/ Quoted(f.id.run, f.says, f.at)

(* The strengthening: decisions and replays are dated by a clock that only runs forward,
   the queue file is true of the moment it was made, and what a command will put into a
   bundle is judged already. *)
IInv ==
  /\ now \in Nat
  /\ decided \in Seq({decided[i] : i \in DOMAIN decided})
  /\ \A i \in DOMAIN decided : decided[i].at \in Nat /\ decided[i].at <= now
  /\ \A i \in DOMAIN decided : decided[i].decision \in Decision
  /\ \A c : (\E i \in DOMAIN decided : decided[i].run = c) => LastOf(c) # {}
  /\ replayed = [c \in Candidate |-> replayed[c]]
  /\ \A c \in Candidate : replayed[c].at \in Nat /\ replayed[c].at <= now
  /\ QueueOk(queue)
  /\ proc = [o \in Operator |-> proc[o]]
  /\ \A o \in Operator : CommandOk(proc[o])
  /\ \A f \in OfKind("bundle") : BundleOk(f)
  /\ \A f \in files : f.kind \in Kind

(* What a step does to decisions, promotions and the clock: it adds, dated later than
   all there is. *)
WorldStep ==
  /\ now' \in {now, now + 1}
  /\ \/ decided' = decided
     \/ now' = now + 1 /\ \E r : r.at = now + 1 /\ r.decision \in Decision /\ decided' = Append(decided, r)
  /\ \A e \in promotions' \ promotions : now' = now + 1 /\ e.at = now + 1
  /\ \/ replayed' = replayed
     \/ /\ now' = now + 1
        /\ \E c, r : r.at = now + 1 /\ replayed' = [replayed EXCEPT ![c] = r]
  /\ queue' \in {queue, Fresh} \/ queue' = Fresh'

LEMMA DecisionsAdded ==
  ASSUME IInv, WorldStep
  PROVE  /\ now' \in Nat /\ now' >= now
         /\ decided' \in Seq({decided'[i] : i \in DOMAIN decided'})
         /\ DOMAIN decided \subseteq DOMAIN decided'
         /\ \A i \in DOMAIN decided : decided'[i] = decided[i]
         /\ \A i \in DOMAIN decided' \ DOMAIN decided : decided'[i].at = now + 1
         /\ \A i \in DOMAIN decided' : decided'[i].at \in Nat /\ decided'[i].at <= now'
         /\ \A i \in DOMAIN decided' : decided'[i].decision \in Decision
         /\ \A c : (\E i \in DOMAIN decided' : decided'[i].run = c) => LastOf(c)' # {}
<1>1. now \in Nat /\ now' \in Nat /\ now' >= now
  BY DEF IInv, WorldStep
<1>2. /\ \A i \in DOMAIN decided : decided[i].at \in Nat /\ decided[i].at <= now
      /\ \A i \in DOMAIN decided : decided[i].decision \in Decision
  BY DEF IInv
<1>3. CASE decided' = decided
  <2>1. decided' \in Seq({decided'[i] : i \in DOMAIN decided'})
    BY <1>3 DEF IInv
  <2>2. \A i \in DOMAIN decided' : decided'[i].at \in Nat /\ decided'[i].at <= now'
    BY <1>1, <1>2, <1>3
  <2>3. \A c : LastOf(c)' = LastOf(c)
    BY <1>3 DEF LastOf
  <2>4. \A c : (\E i \in DOMAIN decided' : decided'[i].run = c) => LastOf(c)' # {}
    BY <1>3, <2>3 DEF IInv
  <2> QED BY <1>1, <1>2, <1>3, <2>1, <2>2, <2>4
<1>4. ASSUME now' = now + 1, NEW r, r.at = now + 1, r.decision \in Decision, decided' = Append(decided, r)
      PROVE  /\ decided' \in Seq({decided'[i] : i \in DOMAIN decided'})
             /\ DOMAIN decided \subseteq DOMAIN decided'
             /\ \A i \in DOMAIN decided : decided'[i] = decided[i]
             /\ \A i \in DOMAIN decided' \ DOMAIN decided : decided'[i].at = now + 1
             /\ \A i \in DOMAIN decided' : decided'[i].at \in Nat /\ decided'[i].at <= now'
             /\ \A i \in DOMAIN decided' : decided'[i].decision \in Decision
             /\ \A c : (\E i \in DOMAIN decided' : decided'[i].run = c) => LastOf(c)' # {}
  <2> DEFINE S == {decided[i] : i \in DOMAIN decided}
  <2>1. decided \in Seq(S)
    BY DEF IInv
  <2> HIDE DEF S
  <2>2. decided' \in Seq(S \cup {r}) /\ Len(decided) \in Nat
    BY <1>4, <2>1
  <2>3. /\ DOMAIN decided = 1..Len(decided)
        /\ DOMAIN decided' = 1..(Len(decided) + 1)
        /\ Len(decided') = Len(decided) + 1
        /\ \A i \in 1..Len(decided) : decided'[i] = decided[i]
        /\ decided'[Len(decided) + 1] = r
    BY <1>4, <2>1
  <2> DEFINE T == {decided'[i] : i \in DOMAIN decided'}
  <2>4. decided' = [i \in 1..Len(decided') |-> decided'[i]]
    BY <2>2
  <2>5. \A i \in 1..Len(decided') : decided'[i] \in T
    BY <2>3
  <2>6. Len(decided') \in Nat
    BY <2>2
  <2> HIDE DEF T
  <2>7. decided' \in [1..Len(decided') -> T]
    BY <2>4, <2>5
  <2>8. decided' \in Seq(T)
    BY <2>6, <2>7
  <2>9. \A i \in DOMAIN decided' : i \in DOMAIN decided \/ i = Len(decided) + 1
    BY <2>2, <2>3
  <2>10. DOMAIN decided \subseteq DOMAIN decided'
    BY <2>2, <2>3
  <2>11. \A i \in DOMAIN decided' : decided'[i].at \in Nat /\ decided'[i].at <= now'
    BY <1>1, <1>2, <1>4, <2>3, <2>9
  <2>12. \A i \in DOMAIN decided' : decided'[i].decision \in Decision
    BY <1>2, <1>4, <2>3, <2>9
  <2>13. ASSUME NEW c, \E i \in DOMAIN decided' : decided'[i].run = c PROVE LastOf(c)' # {}
    <3>1. CASE r.run = c
      <4>1. \A j \in DOMAIN decided' : j <= Len(decided) + 1
        BY <2>2, <2>3
      <4>2. Len(decided) + 1 \in DOMAIN decided' /\ decided'[Len(decided) + 1].run = c
        BY <2>2, <2>3, <3>1
      <4> QED BY <4>1, <4>2 DEF LastOf
    <3>2. CASE r.run # c
      <4>1. \E i \in DOMAIN decided : decided[i].run = c
        BY <2>3, <2>9, <2>13, <3>2
      <4>2. PICK i \in DOMAIN decided :
              decided[i].run = c /\ \A j \in DOMAIN decided : decided[j].run = c => j <= i
        BY <4>1 DEF IInv, LastOf
      <4>3. \A j \in DOMAIN decided' : decided'[j].run = c => j <= i
        BY <2>3, <2>9, <3>2, <4>2
      <4> QED BY <2>3, <2>10, <4>2, <4>3 DEF LastOf
    <3> QED BY <3>1, <3>2
  <2> QED BY <1>4, <2>3, <2>8, <2>9, <2>10, <2>11, <2>12, <2>13 DEF T
<1> QED BY <1>1, <1>3, <1>4 DEF WorldStep

(* Nothing that happens later changes how a run stood. *)
LEMMA QuotedStays ==
  ASSUME IInv, WorldStep, NEW c, NEW decision, NEW t, Quoted(c, decision, t)
  PROVE  Quoted(c, decision, t)'
<1>1. t \in Nat /\ now \in Nat /\ t <= now /\ now' \in Nat /\ now' >= now
  BY DecisionsAdded DEF Quoted, IInv
<1>2. StandsAt(c, decision, t)'
  <2>1. PICK i \in DOMAIN decided :
          /\ decided[i].run = c /\ decided[i].decision = decision /\ decided[i].at <= t
          /\ \A j \in DOMAIN decided : decided[j].run = c /\ decided[j].at <= t => j <= i
    BY DEF Quoted, StandsAt
  <2>2. i \in DOMAIN decided' /\ decided'[i] = decided[i]
    BY DecisionsAdded
  <2>3. ASSUME NEW j \in DOMAIN decided', decided'[j].at <= t PROVE j \in DOMAIN decided
    <3>1. j \notin DOMAIN decided => decided'[j].at = now + 1
      BY DecisionsAdded
    <3> QED BY <1>1, <2>3, <3>1
  <2>4. \A j \in DOMAIN decided' : decided'[j].run = c /\ decided'[j].at <= t => j <= i
    BY <2>1, <2>3, DecisionsAdded
  <2> QED BY <2>1, <2>2, <2>4 DEF StandsAt
<1> QED BY <1>1, <1>2 DEF Quoted

LEMMA UnpromotedStays ==
  ASSUME IInv, WorldStep, NEW c, NEW t, Unpromoted(c, t)
  PROVE  Unpromoted(c, t)'
<1>1. t \in Nat /\ now \in Nat /\ t <= now /\ now' \in Nat /\ now' >= now
  BY DecisionsAdded DEF Unpromoted, IInv
<1>2. ASSUME NEW e \in promotions', e.digest = DigestOf(c) PROVE e.at > t
  <2>1. CASE e \in promotions
    BY <2>1, <1>2 DEF Unpromoted
  <2>2. CASE e \notin promotions
    <3>1. e.at = now + 1
      BY <2>2 DEF WorldStep
    <3> QED BY <3>1, <1>1
  <2> QED BY <2>1, <2>2
<1>3. t \in Nat /\ t <= now'
  BY <1>1
<1> QED BY <1>2, <1>3 DEF Unpromoted

LEMMA JudgedStays ==
  ASSUME IInv, WorldStep, NEW c, NEW t, NEW asOf, Judged(c, t, asOf)
  PROVE  Judged(c, t, asOf)'
BY QuotedStays, UnpromotedStays DEF Judged

(* A queue file is true of the moment it was made. *)
LEMMA FreshIsOk ==
  ASSUME now \in Nat PROVE QueueOk(Fresh)
<1>1. Fresh.at = now /\ \A c \in Candidate : Fresh.facts[c] = FactsNow(c)
  BY DEF Fresh
<1>2. \A c \in Candidate : ~ FactsNow(c).promoted => ~ \E e \in promotions : e.digest = DigestOf(c)
  BY DEF FactsNow
<1> QED BY <1>1, <1>2 DEF QueueOk, Unpromoted

LEMMA FreshWillBeOk ==
  ASSUME now' \in Nat PROVE QueueOk(Fresh)'
<1>1. Fresh'.at = now' /\ \A c \in Candidate : Fresh'.facts[c] = FactsNow(c)'
  BY DEF Fresh
<1>2. \A c \in Candidate : ~ FactsNow(c)'.promoted => ~ \E e \in promotions' : e.digest = DigestOf(c)
  BY DEF FactsNow
<1> QED BY <1>1, <1>2 DEF QueueOk, Unpromoted

LEMMA QueueStays ==
  ASSUME IInv, WorldStep PROVE QueueOk(queue)'
<1>1. now \in Nat /\ now' \in Nat /\ now' >= now
  BY DecisionsAdded DEF IInv
<1>2. ASSUME NEW q, QueueOk(q) PROVE /\ q.at \in Nat /\ q.at <= now'
                                     /\ q # NoQueue => \A c \in Candidate : ~ q.facts[c].promoted
                                                                          => Unpromoted(c, q.at)'
  BY <1>1, <1>2, UnpromotedStays DEF QueueOk
<1>3. CASE queue' \in {queue, Fresh}
  <2>1. QueueOk(queue) /\ QueueOk(Fresh)
    BY <1>1, FreshIsOk DEF IInv
  <2>2. PICK q : q = queue' /\ QueueOk(q)
    BY <1>3, <2>1
  <2> QED BY <1>2, <2>2 DEF QueueOk
<1>4. CASE queue' = Fresh'
  BY <1>1, <1>4, FreshWillBeOk DEF QueueOk
<1> QED BY <1>3, <1>4 DEF WorldStep

LEMMA ReplaysStay ==
  ASSUME IInv, WorldStep
  PROVE  /\ replayed' = [c \in Candidate |-> replayed'[c]]
         /\ \A c \in Candidate : replayed'[c].at \in Nat /\ replayed'[c].at <= now'
<1>1. now \in Nat /\ now' \in Nat /\ now' >= now
  BY DecisionsAdded DEF IInv
<1>2. /\ replayed = [c \in Candidate |-> replayed[c]]
      /\ \A c \in Candidate : replayed[c].at \in Nat /\ replayed[c].at <= now
  BY DEF IInv
<1>3. CASE replayed' = replayed
  BY <1>1, <1>2, <1>3
<1>4. ASSUME now' = now + 1, NEW d, NEW r, r.at = now + 1, replayed' = [replayed EXCEPT ![d] = r]
      PROVE  /\ replayed' = [c \in Candidate |-> replayed'[c]]
             /\ \A c \in Candidate : replayed'[c].at \in Nat /\ replayed'[c].at <= now'
  <2>1. replayed' = [c \in Candidate |-> replayed'[c]]
    BY <1>2, <1>4
  <2>2. \A c \in Candidate : replayed'[c] = IF c = d THEN r ELSE replayed[c]
    BY <1>2, <1>4
  <2> QED BY <1>1, <1>2, <1>4, <2>1, <2>2
<1> QED BY <1>3, <1>4 DEF WorldStep

(* The latest decision on a run stands now, and at any moment since it was made. *)
LEMMA LatestStands ==
  ASSUME IInv, NEW c, LastOf(c) # {}, NEW t, t \in Nat, t <= now, Latest(c).at <= t
  PROVE  Quoted(c, Latest(c).decision, t)
<1> DEFINE i == CHOOSE i \in LastOf(c) : TRUE
<1>1. i \in LastOf(c) /\ Latest(c) = decided[i]
  BY DEF Latest
<1> HIDE DEF i
<1>2. StandsAt(c, Latest(c).decision, t)
  BY <1>1 DEF StandsAt, LastOf
<1> QED BY <1>2 DEF Quoted

LEMMA LatestIsDated ==
  ASSUME IInv, NEW c, LastOf(c) # {}
  PROVE  Latest(c).at \in Nat /\ Latest(c).at <= now /\ Latest(c).decision \in Decision
<1>1. PICK i \in LastOf(c) : Latest(c) = decided[i]
  BY DEF Latest
<1> QED BY <1>1 DEF LastOf, IInv

(* A preflight that allows has judged an approved run that nothing had promoted when its
   queue file was made (release_preflight.rs load_release_candidate_context). *)
LEMMA AllowedIsJudged ==
  ASSUME IInv, NEW c \in Candidate, NEW q \in Refreshed, PreflightAllows(ContextOf(c, q))
  PROVE  Judged(c, now, q.at)
<1>1. LatestDecision(c) = "approve" /\ q # NoQueue /\ Lifecycle(c, q.facts[c]) = "ready"
  BY DEF PreflightAllows, ContextOf
<1>2. LastOf(c) # {} /\ Latest(c).decision = "approve"
  BY <1>1 DEF LatestDecision
<1>3. Quoted(c, "approve", now)
  <2>1. PICK t : t = now
    OBVIOUS
  <2>0. now \in Nat
    BY DEF IInv
  <2>2. t \in Nat /\ t <= now /\ Latest(c).at <= t
    <3>1. Latest(c).at \in Nat /\ Latest(c).at <= now
      BY <1>2, LatestIsDated
    <3>2. PICK d : d = Latest(c).at
      OBVIOUS
    <3> QED BY <2>0, <2>1, <3>1, <3>2
  <2>3. Quoted(c, Latest(c).decision, t)
    BY <1>2, <2>2, LatestStands
  <2> QED BY <1>2, <2>1, <2>3
<1>4. ~ q.facts[c].promoted
  BY <1>1, ReadyIsReady
<1>5. QueueOk(q)
  BY FreshIsOk DEF IInv, Refreshed
<1> QED BY <1>1, <1>3, <1>4, <1>5 DEF Judged, QueueOk

(* What a context quotes of a run decided on stood at the moment the context is of. *)
LEMMA ContextQuotes ==
  ASSUME IInv, NEW c \in Candidate, LastOf(c) # {}, NEW q
  PROVE  /\ Quoted(c, ContextOf(c, q).decision, ContextOf(c, q).at)
         /\ ContextOf(c, q).decision \in Decision
<1>1. ContextOf(c, q).decision = Latest(c).decision
  BY DEF ContextOf, LatestDecision
<1>2. PICK r, d : r = replayed[c].at /\ d = Latest(c).at
  OBVIOUS
<1>3. r \in Nat /\ r <= now /\ d \in Nat /\ d <= now
  BY <1>2, LatestIsDated DEF IInv
<1>4. ContextOf(c, q).at = Later(r, d)
  BY <1>2 DEF ContextOf
<1>5. Later(r, d) \in Nat /\ Later(r, d) <= now /\ d <= Later(r, d)
  BY <1>3 DEF Later, IInv
<1> QED BY <1>1, <1>2, <1>4, <1>5, LatestStands, LatestIsDated

-----------------------------------------------------------------------------
(* What a step does to commands and files *)

(* A state in order stays in order. *)
LEMMA InOrderStays ==
  ASSUME IInv, WorldStep, NEW p, CommandOk(p)
  PROVE  CommandOk(p)'
<1>1. Bundling(p) => PreflightAllows(p.first) /\ Judged(p.first.run, p.cleared, p.first.asOf)'
  BY JudgedStays DEF CommandOk
<1>2. p.step \in DOMAIN NextKind => Quoted(p.first.run, p.second.decision, p.second.at)'
  BY QuotedStays DEF CommandOk
<1> QED BY <1>1, <1>2 DEF CommandOk, Bundling, PreflightAllows, Shaped

(* A command moves to a state that is in order, and the others stay in order. *)
LEMMA CommandMoves ==
  ASSUME IInv, WorldStep, NEW o \in Operator, NEW state, Become(o, state), CommandOk(state)
  PROVE  /\ proc' = [q \in Operator |-> proc'[q]]
         /\ \A q \in Operator : CommandOk(proc[q])'
<1>1. /\ proc = [q \in Operator |-> proc[q]]
      /\ \A q \in Operator : CommandOk(proc[q])
  BY DEF IInv
<1>2. \A q \in Operator : proc'[q] = IF q = o THEN state ELSE proc[q]
  BY <1>1 DEF Become
<1>3. proc' = [q \in Operator |-> proc'[q]]
  BY <1>1 DEF Become
<1>4. ASSUME NEW p, CommandOk(p) PROVE CommandOk(p)'
  BY <1>4, InOrderStays
<1>5. \A q \in Operator : CommandOk(proc[q])'
  BY <1>1, <1>2, <1>4
<1> QED BY <1>3, <1>5

LEMMA CommandsStay ==
  ASSUME IInv, WorldStep, proc' = proc
  PROVE  /\ proc' = [q \in Operator |-> proc'[q]]
         /\ \A q \in Operator : CommandOk(proc[q])'
<1>1. /\ proc = [q \in Operator |-> proc[q]]
      /\ \A q \in Operator : CommandOk(proc[q])
  BY DEF IInv
<1>2. ASSUME NEW p, CommandOk(p) PROVE CommandOk(p)'
  BY <1>2, InOrderStays
<1> QED BY <1>1, <1>2

(* The files are those there were, and at most one new one in order. *)
FilesStep ==
  \/ files' = files
  \/ \E f : Put(f) /\ f.kind \in Kind /\ (f.kind = "bundle" => BundleOk(f))

LEMMA BundlesStay ==
  ASSUME IInv, WorldStep, FilesStep
  PROVE  \A f \in OfKind("bundle")' : BundleOk(f)'
<1> SUFFICES ASSUME NEW f \in files', f.kind = "bundle" PROVE BundleOk(f)'
  BY DEF OfKind
<1>1. BundleOk(f)
  <2>1. f \in files => BundleOk(f)
    BY DEF IInv, OfKind
  <2>2. CASE files' = files
    BY <2>1, <2>2
  <2>3. CASE \E g : Put(g) /\ (g.kind = "bundle" => BundleOk(g))
    BY <2>1, <2>3 DEF Put
  <2> QED BY <2>2, <2>3 DEF FilesStep
<1> QED BY <1>1, JudgedStays, QuotedStays DEF BundleOk, AllowedId

LEMMA IInvFromParts ==
  ASSUME IInv, WorldStep, FilesStep,
         proc' = [q \in Operator |-> proc'[q]],
         \A q \in Operator : CommandOk(proc[q])'
  PROVE  IInv'
<1>1. /\ \A f \in OfKind("bundle")' : BundleOk(f)'
      /\ \A f \in files' : f.kind \in Kind
  BY BundlesStay DEF FilesStep, Put, IInv
<1>2. /\ now' \in Nat
      /\ decided' \in Seq({decided'[i] : i \in DOMAIN decided'})
      /\ \A i \in DOMAIN decided' : decided'[i].at \in Nat /\ decided'[i].at <= now'
      /\ \A i \in DOMAIN decided' : decided'[i].decision \in Decision
      /\ \A c : (\E i \in DOMAIN decided' : decided'[i].run = c) => LastOf(c)' # {}
  BY DecisionsAdded
<1> QED BY <1>1, <1>2, QueueStays, ReplaysStay DEF IInv

(* Every kind a command writes is one of the five. *)
LEMMA WrittenKinds ==
  ASSUME NEW o, Building(o)
  PROVE  (IF proc[o].step = "final" THEN "preflight" ELSE proc[o].step) \in Kind
BY DEF Building, NextKind, Kind

(* What a building command writes into a bundle is in order. *)
LEMMA BuiltIsOk ==
  ASSUME IInv, NEW o \in Operator, Building(o)
  PROVE  /\ BundleOk(FileOf("bundle", proc[o].second, proc[o].first, proc[o].cleared))
         /\ BundleOk([FileOf("bundle", proc[o].second, proc[o].first, proc[o].cleared)
                      EXCEPT !.says = "torn"])
<1>1. PICK p : p = proc[o]
  OBVIOUS
<1>2. /\ PreflightAllows(p.first) /\ Judged(p.first.run, p.cleared, p.first.asOf)
      /\ Quoted(p.first.run, p.second.decision, p.second.at)
  BY <1>1 DEF IInv, CommandOk, Bundling, Building
<1>3. AllowedId(IdOf(p.first)) /\ IdOf(p.first).run = p.first.run
  BY <1>2 DEF IdOf, PreflightAllows, AllowedId
<1>4. PICK f : f = FileOf("bundle", p.second, p.first, p.cleared)
  OBVIOUS
<1>5. PICK g : g = [f EXCEPT !.says = "torn"]
  OBVIOUS
<1>6. /\ f.id = IdOf(p.first) /\ f.cleared = p.cleared /\ f.asOf = p.first.asOf
      /\ f.says = p.second.decision /\ f.at = p.second.at
  BY <1>4 DEF FileOf, Says
<1>7. g.id = f.id /\ g.cleared = f.cleared /\ g.asOf = f.asOf /\ g.says = "torn"
  BY <1>4, <1>5 DEF FileOf
<1>8. BundleOk(f) /\ BundleOk(g)
  BY <1>2, <1>3, <1>6, <1>7 DEF BundleOk
<1> QED BY <1>1, <1>4, <1>5, <1>8

-----------------------------------------------------------------------------
(* The steps *)

(* A command outside a bundle has nothing to know. *)
LEMMA OutsideIsOk ==
  ASSUME NEW p, "step" \in DOMAIN p,
         p.step \in {"idle", "approve", "evidence", "rc", "evaluate", "candidate"} \cup Reading
  PROVE  CommandOk(p)
<1>1. p.step \notin {"preflight", "context"} \cup DOMAIN NextKind
  BY DEF Reading, NextKind
<1> QED BY <1>1 DEF CommandOk, Shaped, Bundling

LEMMA UnchangedWorld ==
  ASSUME IInv, UNCHANGED world, queue' \in {queue, Fresh} PROVE WorldStep
BY DEF WorldStep, world

LEMMA SettledQueues == Settled \cup {Loaded} \subseteq {queue, Fresh}
BY DEF Settled, Loaded

LEMMA UpsertIsWorldStep ==
  ASSUME NEW c, NEW decision \in Decision, NEW f, Upsert(c, decision, f), promotions' = promotions,
         replayed' = replayed, queue' \in {queue, Fresh}
  PROVE  WorldStep
<1>1. Record(c, decision, f).at = now + 1 /\ Record(c, decision, f).decision = decision
  BY DEF Record
<1> QED BY <1>1 DEF Upsert, WorldStep

(* A report more leaves a command in its reading. *)
LEMMA ReadsMove ==
  ASSUME NEW o, "step" \in DOMAIN proc[o], NEW step, NEW next \in Reading, NEW q, NEW missing,
         Reads(o, step, next, q, missing)
  PROVE  \E state : Become(o, state) /\ "step" \in DOMAIN state /\ state.step = next
<1>1. PICK p : p = proc[o]
  OBVIOUS
<1>2. PICK more, seen, chosen :
        Become(o, [p EXCEPT !.step = next, !.missing = more, !.seen = seen, !.chosen = chosen])
  BY <1>1 DEF Reads
<1>3. PICK new : new = [p EXCEPT !.step = next, !.missing = more, !.seen = seen, !.chosen = chosen]
  OBVIOUS
<1>4. "step" \in DOMAIN new /\ new.step = next
  BY <1>1, <1>3
<1> QED BY <1>2, <1>3, <1>4

(* --release-approve, and the commands that only read what is judged. *)
LEMMA ReadersKeep ==
  ASSUME IInv, NEW o \in Operator,
         \/ \E c \in Candidate : BeginApprove(o, c)
         \/ Evidence(o) \/ WriteRc(o)
         \/ BeginCandidate(o, "manifest") \/ BeginCandidate(o, "report") \/ BeginValidation(o)
         \/ Evaluate(o) \/ RefreshFirst(o) \/ Judge(o) \/ ReadReleases(o) \/ ReadQueue(o)
         \/ WriteValidation(o) \/ WriteManifest(o) \/ Fail(o)
  PROVE  IInv'
<1>1. UNCHANGED world /\ files' = files
  BY DEF BeginApprove, Evidence, WriteRc, BeginCandidate, BeginValidation, Evaluate, RefreshFirst,
         Judge, ReadReleases, ReadQueue, Reads, WriteValidation, WriteManifest, Fail
<1>2. queue' \in {queue, Fresh}
  BY SettledQueues
     DEF BeginApprove, Evidence, WriteRc, BeginCandidate, BeginValidation, Evaluate, RefreshFirst,
         Judge, ReadReleases, ReadQueue, Reads, WriteValidation, WriteManifest, Fail, Refreshed
<1>3. WorldStep /\ FilesStep
  BY <1>1, <1>2, UnchangedWorld DEF FilesStep
<1>4. "step" \in DOMAIN proc[o]
  BY DEF IInv, CommandOk, Shaped
<1>5. PICK state :
        /\ Become(o, state) /\ "step" \in DOMAIN state
        /\ state.step \in {"idle", "approve", "evidence", "rc", "evaluate", "candidate"} \cup Reading
  <2>1. /\ "step" \in DOMAIN Idle /\ Idle.step = "idle"
        /\ "step" \in DOMAIN Alone /\ Alone.step = "evaluate"
    BY DEF Idle, Alone
  <2>2. CASE \E c \in Candidate : BeginApprove(o, c)
    BY <2>2 DEF BeginApprove
  <2>3. CASE Evidence(o)
    <3>1. Become(o, [proc[o] EXCEPT !.step = "rc"])
      BY <2>3 DEF Evidence
    <3>2. "step" \in DOMAIN [proc[o] EXCEPT !.step = "rc"] /\ [proc[o] EXCEPT !.step = "rc"].step = "rc"
      BY <1>4
    <3> QED BY <3>1, <3>2
  <2>4. CASE WriteRc(o) \/ WriteManifest(o) \/ BeginValidation(o) \/ Fail(o)
    BY <2>1, <2>4 DEF WriteRc, WriteManifest, BeginValidation, Fail, Finish
  <2>5. CASE BeginCandidate(o, "manifest") \/ BeginCandidate(o, "report")
    <3>1. PICK rest, gate, cleared :
            Become(o, [step |-> "evaluate", rest |-> rest, gate |-> gate, cleared |-> cleared])
      BY <2>5 DEF BeginCandidate
    <3>2. PICK new : new = [step |-> "evaluate", rest |-> rest, gate |-> gate, cleared |-> cleared]
      OBVIOUS
    <3> QED BY <3>1, <3>2
  <2>6. CASE Evaluate(o)
    <3>1. PICK p, blocked : Become(o, [step |-> "refresh", rest |-> p.rest, gate |-> p.gate,
                                       cleared |-> p.cleared, blocked |-> blocked,
                                       missing |-> {}, chosen |-> {}, seen |-> Unseen])
      BY <2>6 DEF Evaluate
    <3>2. PICK new : new = [step |-> "refresh", rest |-> p.rest, gate |-> p.gate,
                            cleared |-> p.cleared, blocked |-> blocked,
                            missing |-> {}, chosen |-> {}, seen |-> Unseen]
      OBVIOUS
    <3>3. "step" \in DOMAIN new /\ new.step = "refresh"
      BY <3>2
    <3> QED BY <3>1, <3>2, <3>3 DEF Reading
  <2>7. CASE \E step, q, missing : \E next \in Reading : Reads(o, step, next, q, missing)
    BY <1>4, <2>7, ReadsMove
  <2>8. CASE RefreshFirst(o) \/ Judge(o) \/ ReadReleases(o) \/ ReadQueue(o)
    BY <2>7, <2>8 DEF RefreshFirst, Judge, ReadReleases, ReadQueue, Reading
  <2>9. CASE WriteValidation(o)
    <3>1. PICK p, status : /\ p = proc[o]
                           /\ \/ Become(o, Idle)
                              \/ Become(o, [step |-> "candidate", rest |-> p.rest, gate |-> p.gate,
                                            cleared |-> p.cleared, status |-> status, seen |-> p.seen])
      BY <2>9 DEF WriteValidation, Finish
    <3> QED BY <2>1, <3>1
  <2> QED BY <2>2, <2>3, <2>4, <2>5, <2>6, <2>8, <2>9
<1>6. CommandOk(state)
  BY <1>5, OutsideIsOk
<1> QED BY <1>3, <1>5, <1>6, CommandMoves, IInvFromParts

LEMMA ApproveKeeps == ASSUME IInv, NEW o \in Operator, Approve(o) PROVE IInv'
<1>1. PICK c, q : /\ q \in Refreshed /\ queue' = q
                  /\ IF Approvable(c, q.facts[c])
                     THEN Upsert(c, "approve", q.facts[c]) /\ Become(o, [step |-> "evidence", run |-> c])
                     ELSE Finish(o) /\ UNCHANGED <<decided, now>>
  BY DEF Approve, Consulted
<1>2. queue' \in {queue, Fresh} /\ promotions' = promotions /\ replayed' = replayed /\ files' = files
  BY <1>1 DEF Approve, Refreshed
<1>3. WorldStep
  <2>1. CASE Approvable(c, q.facts[c])
    BY <1>1, <1>2, <2>1, UpsertIsWorldStep DEF Decision
  <2>2. CASE ~ Approvable(c, q.facts[c])
    BY <1>1, <1>2, <2>2 DEF WorldStep, IInv
  <2> QED BY <2>1, <2>2
<1>4. FilesStep
  BY <1>2 DEF FilesStep
<1>5. PICK state : /\ Become(o, state) /\ "step" \in DOMAIN state
                   /\ state.step \in {"idle", "evidence"}
  BY <1>1 DEF Finish, Idle
<1>6. CommandOk(state)
  BY <1>5, OutsideIsOk
<1> QED BY <1>3, <1>4, <1>5, <1>6, CommandMoves, IInvFromParts

(* The preflight is judged where its context is read. *)
LEMMA PreflightKeeps ==
  ASSUME IInv, NEW o \in Operator, NEW c \in Candidate, NEW bundling, BeginPreflight(o, c, bundling)
  PROVE  IInv'
<1>1. PICK q \in Refreshed :
        /\ queue' = q
        /\ Become(o, [step |-> "preflight", bundling |-> bundling, first |-> ContextOf(c, q),
                      cleared |-> now])
  BY DEF BeginPreflight
<1>2. PICK first : first = ContextOf(c, q)
  OBVIOUS
<1>3. PICK state : state = [step |-> "preflight", bundling |-> bundling, first |-> first,
                           cleared |-> now]
  OBVIOUS
<1>4. WorldStep /\ FilesStep /\ Become(o, state)
  BY <1>1, <1>2, <1>3, UnchangedWorld DEF BeginPreflight, FilesStep, Refreshed
<1>5. first.run = c /\ first.asOf = q.at
  BY <1>2 DEF ContextOf
<1>6. PreflightAllows(first) => Judged(first.run, now, first.asOf)
  BY <1>2, <1>5, AllowedIsJudged
<1>7. CommandOk(state)
  BY <1>3, <1>5, <1>6 DEF CommandOk, Shaped, Bundling, NextKind
<1> QED BY <1>4, <1>7, CommandMoves, IInvFromParts

(* A blocked preflight ends --release-bundle. *)
LEMMA WritePreflightKeeps == ASSUME IInv, NEW o \in Operator, WritePreflight(o) PROVE IInv'
<1>0. PICK state : state = [proc[o] EXCEPT !.step = "context"]
  OBVIOUS
<1>1. WorldStep
  BY UnchangedWorld DEF WritePreflight
<1>2. FilesStep
  BY DEF WritePreflight, FilesStep, FileOf, Kind
<1>3. CommandOk(proc[o]) /\ proc[o].step = "preflight"
  BY DEF IInv, WritePreflight, At
<1>4. CASE proc[o].bundling /\ PreflightAllows(proc[o].first)
  <2>1. /\ PreflightAllows(proc[o].first)
        /\ Judged(proc[o].first.run, proc[o].cleared, proc[o].first.asOf)
    BY <1>3, <1>4 DEF CommandOk, Bundling
  <2>2. /\ {"step", "first", "cleared"} \subseteq DOMAIN state
        /\ state.first = proc[o].first /\ state.cleared = proc[o].cleared
        /\ state.step = "context"
        /\ proc[o].first.run \in Candidate
    BY <1>0, <1>3 DEF CommandOk, Shaped
  <2>3. Become(o, state)
    BY <1>0, <1>4 DEF WritePreflight
  <2>4. CommandOk(state)
    <3>1. /\ PreflightAllows(state.first)
          /\ Judged(state.first.run, state.cleared, state.first.asOf)
      BY <2>1, <2>2
    <3>2. state.step \notin DOMAIN NextKind /\ state.step # "preflight"
      BY <2>2 DEF NextKind
    <3>3. Shaped(state)
      BY <2>2, <3>2 DEF Shaped
    <3> QED BY <3>1, <3>2, <3>3 DEF CommandOk
  <2> QED BY <1>1, <1>2, <2>3, <2>4, CommandMoves, IInvFromParts
<1>5. CASE ~ (proc[o].bundling /\ PreflightAllows(proc[o].first))
  <2>1. Become(o, Idle)
    BY <1>5 DEF WritePreflight, Finish
  <2>2. CommandOk(Idle)
    BY OutsideIsOk DEF Idle
  <2> QED BY <1>1, <1>2, <2>1, <2>2, CommandMoves, IInvFromParts
<1> QED BY <1>4, <1>5

(* The second context does not replace what was judged. *)
LEMMA SecondContextKeeps == ASSUME IInv, NEW o \in Operator, SecondContext(o) PROVE IInv'
<1>1. PICK q \in Refreshed :
        /\ queue' = q
        /\ Become(o, [step |-> "bundle", first |-> proc[o].first, cleared |-> proc[o].cleared,
                      second |-> ContextOf(proc[o].first.run, q)])
  BY DEF SecondContext
<1>2. PICK p : p = proc[o]
  OBVIOUS
<1>3. PICK second : second = ContextOf(p.first.run, q)
  OBVIOUS
<1>4. PICK state : state = [step |-> "bundle", first |-> p.first, cleared |-> p.cleared,
                           second |-> second]
  OBVIOUS
<1>5. WorldStep /\ FilesStep /\ Become(o, state)
  BY <1>1, <1>2, <1>3, <1>4, UnchangedWorld DEF SecondContext, FilesStep, Refreshed
<1>6. PreflightAllows(p.first) /\ Judged(p.first.run, p.cleared, p.first.asOf)
  BY <1>2 DEF IInv, CommandOk, Bundling, SecondContext, At
<1>7. p.first.run \in Candidate /\ LastOf(p.first.run) # {}
  <2>1. \E i \in DOMAIN decided : decided[i].run = p.first.run
    BY <1>6 DEF Judged, Quoted, StandsAt
  <2>2. p.first.run \in Candidate
    BY <1>2 DEF IInv, CommandOk, Shaped, SecondContext, At
  <2> QED BY <2>1, <2>2 DEF IInv
<1>8. second.decision \in Decision /\ Quoted(p.first.run, second.decision, second.at)
  BY <1>3, <1>7, ContextQuotes
<1>9. CommandOk(state)
  BY <1>4, <1>6, <1>7, <1>8 DEF CommandOk, Shaped, Bundling
<1> QED BY <1>5, <1>9, CommandMoves, IInvFromParts

LEMMA WriteFileKeeps == ASSUME IInv, NEW o \in Operator, WriteFile(o) PROVE IInv'
<1>0. PICK state : state = [proc[o] EXCEPT !.step = NextKind[proc[o].step]]
  OBVIOUS
<1>1. WorldStep
  BY UnchangedWorld DEF WriteFile
<1>2. FilesStep
  <2>1. PICK kind \in Kind : Put(FileOf(kind, proc[o].second, proc[o].first, proc[o].cleared))
    BY WrittenKinds DEF WriteFile, Write
  <2>2. FileOf(kind, proc[o].second, proc[o].first, proc[o].cleared).kind = kind
    BY DEF FileOf
  <2>3. kind = "bundle" => BundleOk(FileOf(kind, proc[o].second, proc[o].first, proc[o].cleared))
    BY BuiltIsOk DEF WriteFile
  <2> QED BY <2>1, <2>2, <2>3 DEF FilesStep
<1>3. CommandOk(proc[o]) /\ proc[o].step \in DOMAIN NextKind
  BY DEF IInv, WriteFile, Building
<1>4. CASE proc[o].step # "final"
  <2>1. /\ PreflightAllows(proc[o].first)
        /\ Judged(proc[o].first.run, proc[o].cleared, proc[o].first.asOf)
        /\ Quoted(proc[o].first.run, proc[o].second.decision, proc[o].second.at)
    BY <1>3 DEF CommandOk, Bundling
  <2>2. /\ {"step", "first", "cleared"} \subseteq DOMAIN state
        /\ state.first = proc[o].first /\ state.cleared = proc[o].cleared
        /\ "second" \in DOMAIN state /\ state.second = proc[o].second
    BY <1>0, <1>3 DEF CommandOk, Shaped
  <2>3. Become(o, state)
    BY <1>0, <1>4 DEF WriteFile
  <2>4. CommandOk(state)
    BY <1>3, <2>1, <2>2 DEF CommandOk, Bundling, Shaped
  <2> QED BY <1>1, <1>2, <2>3, <2>4, CommandMoves, IInvFromParts
<1>5. CASE proc[o].step = "final"
  <2>1. Become(o, Idle)
    BY <1>5 DEF WriteFile, Finish
  <2>2. CommandOk(Idle)
    BY OutsideIsOk DEF Idle
  <2> QED BY <1>1, <1>2, <2>1, <2>2, CommandMoves, IInvFromParts
<1> QED BY <1>4, <1>5

(* A death leaves nothing the command would not have written. *)
LEMMA DeathKeeps == ASSUME IInv, NEW o \in Operator, Die(o) PROVE IInv'
<1>1. WorldStep /\ Become(o, Idle)
  BY UnchangedWorld DEF Die, Finish
<1>2. FilesStep
  <2>1. ASSUME NEW f \in Target(o) PROVE LET g == [f EXCEPT !.says = "torn"]
                                          IN g.kind \in Kind /\ (g.kind = "bundle" => BundleOk(g))
    <3>1. CASE At(o, "preflight")
      BY <2>1, <3>1 DEF Target, FileOf, Kind
    <3>2. CASE ~ At(o, "preflight")
      <4>1. PICK kind \in Kind : f = FileOf(kind, proc[o].second, proc[o].first, proc[o].cleared)
        BY <2>1, <3>2, WrittenKinds DEF Target, At
      <4>2. [f EXCEPT !.says = "torn"].kind = kind
        BY <4>1 DEF FileOf
      <4>3. Building(o)
        BY <2>1, <3>2 DEF Target
      <4>4. kind = "bundle" => BundleOk([f EXCEPT !.says = "torn"])
        BY <4>1, <4>3, BuiltIsOk
      <4> QED BY <4>1, <4>2, <4>4
    <3> QED BY <3>1, <3>2
  <2> QED BY <2>1 DEF Die, FilesStep
<1>3. CommandOk(Idle)
  BY OutsideIsOk DEF Idle
<1> QED BY <1>1, <1>2, <1>3, CommandMoves, IInvFromParts

LEMMA RecordKeeps == ASSUME IInv, NEW o \in Operator, NEW id, RecordRelease(o, id) PROVE IInv'
<1>1. WorldStep /\ FilesStep /\ proc' = proc
  BY UnchangedWorld, SettledQueues DEF RecordRelease, FilesStep
<1> QED BY <1>1, CommandsStay, IInvFromParts

(* Decisions, replays and promotions beside the commands only add to the past. *)
LEMMA BesideKeeps == ASSUME IInv, Beside PROVE IInv'
<1>1. FilesStep /\ proc' = proc
  BY DEF Beside, Decide, Replay, Promote, Upset, RefreshQueue, UNCHANGED_Release, FilesStep
<1>2. WorldStep
  <2>1. ASSUME NEW c \in Candidate, NEW decision \in {"approve", "reject", "defer"}, Decide(c, decision)
        PROVE  WorldStep
    <3>1. PICK q \in Refreshed : queue' = q /\ Upsert(c, decision, q.facts[c])
      BY <2>1 DEF Decide, Consulted
    <3> QED BY <2>1, <3>1, UpsertIsWorldStep DEF Decide, Decision, Refreshed
  <2>2. ASSUME NEW c \in Candidate, NEW status, Replay(c, status) PROVE WorldStep
    <3>1. PICK r : r = [status |-> status, at |-> now + 1]
      OBVIOUS
    <3>2. /\ now' = now + 1 /\ r.at = now + 1
          /\ replayed' = [replayed EXCEPT ![c] = r]
          /\ decided' = decided /\ promotions' = promotions /\ queue' = queue
      BY <2>2, <3>1 DEF Replay
    <3> QED BY <3>2 DEF WorldStep
  <2>3. ASSUME NEW c \in Candidate, NEW governed \in BOOLEAN, Promote(c, governed) PROVE WorldStep
    <3>1. \A f : Record(c, "promoted", f).at = now + 1 /\ Record(c, "promoted", f).decision \in Decision
      BY DEF Record, Decision
    <3>2. \A e \in promotions' \ promotions : e.at = now + 1
      <4>1. promotions' = promotions \cup {[digest |-> DigestOf(c), at |-> now + 1]}
        BY <2>3 DEF Promote
      <4> QED BY <4>1
    <3>3. /\ now' = now + 1 /\ replayed' = replayed
          /\ decided' = decided \/ \E f : decided' = Append(decided, Record(c, "promoted", f))
          /\ queue' \in {queue, Fresh} \/ queue' = Fresh'
      BY <2>3 DEF Promote, Consulted, Refreshed
    <3> QED BY <3>1, <3>2, <3>3 DEF WorldStep
  <2>4. CASE Upset
    BY <2>4 DEF Upset, WorldStep
  <2>5. CASE RefreshQueue
    BY <2>5 DEF RefreshQueue, WorldStep, world
  <2> QED BY <2>1, <2>2, <2>3, <2>4, <2>5 DEF Beside
<1> QED BY <1>1, <1>2, CommandsStay, IInvFromParts

LEMMA InitIInv == Init => IInv
<1> SUFFICES ASSUME Init PROVE IInv
  OBVIOUS
<1>1. decided = <<>> /\ now = 0 /\ files = {} /\ proc = [o \in Operator |-> Idle]
  BY DEF Init
<1>2. decided \in Seq({decided[i] : i \in DOMAIN decided}) /\ DOMAIN decided = {}
  BY <1>1
<1>3. \A o \in Operator : CommandOk(proc[o])
  BY <1>1 DEF CommandOk, Shaped, Bundling, Idle, NextKind
<1>4. OfKind("bundle") = {}
  BY <1>1 DEF OfKind
<1>5. proc = [o \in Operator |-> proc[o]]
  BY <1>1
<1>6. replayed \in [Candidate -> [status : {"not_run", "ok"}, at : {0}]]
  BY DEF Init
<1>7. replayed = [c \in Candidate |-> replayed[c]] /\ \A c \in Candidate : replayed[c].at = 0
  BY <1>6
<1>8. queue = NoQueue /\ NoQueue.at = 0
  BY DEF Init, NoQueue
<1>9. QueueOk(queue)
  BY <1>1, <1>8 DEF QueueOk
<1> QED BY <1>1, <1>2, <1>3, <1>4, <1>5, <1>7, <1>9 DEF IInv

LEMMA StepIInv == IInv /\ [Next]_vars => IInv'
<1> SUFFICES ASSUME IInv, [Next]_vars PROVE IInv'
  OBVIOUS
<1>1. ASSUME NEW o \in Operator, Command(o) PROVE IInv'
  <2>1. CASE \E c \in Candidate : BeginPreflight(o, c, TRUE) \/ BeginPreflight(o, c, FALSE)
    BY <2>1, PreflightKeeps
  <2>2. CASE Approve(o)
    BY <2>2, ApproveKeeps
  <2>3. CASE WritePreflight(o)
    BY <2>3, WritePreflightKeeps
  <2>4. CASE SecondContext(o)
    BY <2>4, SecondContextKeeps
  <2>5. CASE WriteFile(o)
    BY <2>5, WriteFileKeeps
  <2>6. CASE \E f \in OfKind("bundle") : RecordRelease(o, f.id)
    BY <2>6, RecordKeeps
  <2> QED BY <1>1, <2>1, <2>2, <2>3, <2>4, <2>5, <2>6, ReadersKeep DEF Command
<1>2. ASSUME NEW o \in Operator, Die(o) PROVE IInv'
  BY <1>2, DeathKeeps
<1>3. CASE Beside
  BY <1>3, BesideKeeps
<1>4. CASE UNCHANGED vars
  <2>1. WorldStep /\ FilesStep /\ proc' = proc
    BY <1>4, UnchangedWorld DEF vars, world, FilesStep
  <2> QED BY <2>1, CommandsStay, IInvFromParts
<1> QED BY <1>1, <1>2, <1>3, <1>4 DEF Next

LEMMA OneReleasePerRun == IInv => BundledUnderApproval
<1> SUFFICES ASSUME IInv PROVE BundledUnderApproval
  OBVIOUS
<1>1. \A f \in OfKind("bundle") : BundleOk(f)
  BY DEF IInv
<1>2. \A f \in OfKind("bundle") :
        /\ StandsAt(f.id.run, "approve", f.cleared)
        /\ f.says # "torn" => StandsAt(f.id.run, f.says, f.at)
        /\ \A e \in promotions : e.digest = DigestOf(f.id.run) => e.at > f.asOf
  BY <1>1 DEF BundleOk, Judged, Quoted, Unpromoted
<1>3. \A id, other \in Releases : id.run = other.run => id = other
  <2>1. \A id \in Releases : AllowedId(id)
    BY <1>1 DEF Releases, BundleOk
  <2> QED BY <2>1 DEF AllowedId
<1> QED BY <1>2, <1>3 DEF BundledUnderApproval

(* Every bundle is of a run that stood approved when its preflight was judged and was
   unpromoted when the queue file of that preflight was made, it quotes the decision that
   stood when it is dated, and a run has one release (release_bundle.rs
   build_release_bundle, release_preflight.rs build_release_preflight_from_context). *)
THEOREM BundlesAreUnderApproval == Spec => []BundledUnderApproval
<1>1. Init => IInv
  BY InitIInv
<1>2. IInv /\ [Next]_vars => IInv'
  BY StepIInv
<1>3. IInv => BundledUnderApproval
  BY OneReleasePerRun
<1> QED BY <1>1, <1>2, <1>3, PTL DEF Spec

-----------------------------------------------------------------------------
(* Releases are whole *)

Past(p) == p.step \in {"manifest", "rollback", "changelog", "final"}
PastOf(o, id) == Past(proc[o]) /\ IdOf(proc[o].first) = id

Before(step) ==
  CASE step = "manifest"  -> {"bundle"}
    [] step = "rollback"  -> {"bundle", "manifest"}
    [] step = "changelog" -> {"bundle", "manifest", "rollback"}
    [] OTHER              -> {"bundle", "manifest", "rollback", "changelog"}

(* What a builder has written, of the moment its second context is of. *)
Written(step, at, id) ==
  /\ \A kind \in Before(step) : \E f \in files : f.id = id /\ f.kind = kind
  /\ \A f \in files : f.id = id /\ f.kind \in Before(step) => f.at = at /\ f.says \notin {"torn", "blocked"}

Whole(id) ==
  /\ \A kind \in Kind : \E f \in files : f.id = id /\ f.kind = kind
  /\ \A f \in files : f.id = id => f.says \notin {"torn", "blocked"}
  /\ \A f, g \in files : f.id = id /\ g.id = id /\ f.kind # "preflight" /\ g.kind # "preflight"
                       => f.at = g.at

(* A release that is not tangled has one builder past its first file, whose files are
   in place, or none, and then it is whole. *)
Clean(id) ==
  /\ \A o, q \in Operator : PastOf(o, id) /\ PastOf(q, id) => o = q
  /\ \A o \in Operator : PastOf(o, id) => Written(proc[o].step, proc[o].second.at, id)
  /\ (\E f \in files : f.kind = "bundle" /\ f.id = id) /\ (\A o \in Operator : ~ PastOf(o, id))
       => Whole(id)

WholeInv == IInv /\ \A id : id \notin tangled => Clean(id)

(* The place of an operator is as before, or it builds nothing past a first file. *)
PlaceKept(o) == proc'[o] = proc[o] \/ (~ Past(proc[o]) /\ ~ Past(proc'[o]))

(* What a step leaves alone stays clean. *)
LEMMA CleanStays ==
  ASSUME NEW id, Clean(id),
         \A f : f.id = id => (f \in files' <=> f \in files),
         \A o \in Operator : PlaceKept(o) \/ (~ PastOf(o, id) /\ ~ PastOf(o, id)')
  PROVE  Clean(id)'
<1>1. \A o \in Operator : PastOf(o, id)' => PastOf(o, id) /\ proc'[o] = proc[o]
  BY DEF PlaceKept, PastOf
<1>2. \A o \in Operator : PastOf(o, id) => PastOf(o, id)'
  BY DEF PlaceKept, PastOf
<1>3. \A o, q \in Operator : PastOf(o, id)' /\ PastOf(q, id)' => o = q
  BY <1>1 DEF Clean
<1>4. ASSUME NEW step, NEW at, Written(step, at, id) PROVE Written(step, at, id)'
  BY <1>4 DEF Written
<1>5. \A o \in Operator : PastOf(o, id)' => Written(proc[o].step, proc[o].second.at, id)'
  BY <1>1, <1>4 DEF Clean
<1>6. Whole(id) => Whole(id)'
  BY DEF Whole
<1>7. (\E f \in files' : f.kind = "bundle" /\ f.id = id) /\ (\A o \in Operator : ~ PastOf(o, id)')
       => Whole(id)'
  BY <1>2, <1>6 DEF Clean
<1> QED BY <1>3, <1>5, <1>7 DEF Clean

(* A step that writes no release file and moves nobody who builds. *)
LEMMA QuietKeepsWhole ==
  ASSUME WholeInv, IInv', files' = files, tangled' = tangled, \A o \in Operator : PlaceKept(o)
  PROVE  WholeInv'
<1>1. \A id : id \notin tangled' => Clean(id)'
  BY CleanStays DEF WholeInv
<1> QED BY <1>1 DEF WholeInv

(* A command that is no builder before or after. *)
LEMMA MovesApart ==
  ASSUME IInv, NEW o \in Operator, NEW state, Become(o, state), ~ Past(proc[o]), ~ Past(state)
  PROVE  \A q \in Operator : PlaceKept(q)
<1>1. \A q \in Operator : proc'[q] = IF q = o THEN state ELSE proc[q]
  BY DEF IInv, Become
<1> QED BY <1>1 DEF PlaceKept

(* The steps of commands that write no release file. *)
LEMMA ReadersKeepWhole ==
  ASSUME WholeInv, IInv', NEW o \in Operator,
         \/ \E c \in Candidate : BeginApprove(o, c) \/ BeginPreflight(o, c, TRUE)
                                \/ BeginPreflight(o, c, FALSE)
         \/ Approve(o) \/ Evidence(o) \/ WriteRc(o) \/ SecondContext(o)
         \/ BeginCandidate(o, "manifest") \/ BeginCandidate(o, "report") \/ BeginValidation(o)
         \/ Evaluate(o) \/ RefreshFirst(o) \/ Judge(o) \/ ReadReleases(o) \/ ReadQueue(o)
         \/ WriteValidation(o) \/ WriteManifest(o) \/ Fail(o)
  PROVE  WholeInv'
<1>1. files' = files /\ tangled' = tangled
  BY DEF BeginApprove, BeginPreflight, Approve, Evidence, WriteRc, SecondContext, BeginCandidate,
         BeginValidation, Evaluate, RefreshFirst, Judge, ReadReleases, ReadQueue, Reads,
         WriteValidation, WriteManifest, Fail
<1>2. ~ Past(proc[o])
  BY DEF BeginApprove, BeginPreflight, Approve, Evidence, WriteRc, SecondContext, BeginCandidate,
         BeginValidation, Evaluate, RefreshFirst, Judge, ReadReleases, ReadQueue, Reads,
         WriteValidation, WriteManifest, Fail, Begin, At, Past
<1>3. "step" \in DOMAIN proc[o]
  BY DEF WholeInv, IInv, CommandOk, Shaped
<1>4. PICK state : Become(o, state) /\ ~ Past(state)
  <2>1. ~ Past(Idle)
    BY DEF Past, Idle
  <2>2. CASE \E c \in Candidate : BeginApprove(o, c)
    BY <2>2 DEF BeginApprove, Past
  <2>3. CASE \E c \in Candidate : BeginPreflight(o, c, TRUE) \/ BeginPreflight(o, c, FALSE)
    <3>1. PICK bundling, first, cleared :
            Become(o, [step |-> "preflight", bundling |-> bundling, first |-> first,
                       cleared |-> cleared])
      BY <2>3 DEF BeginPreflight
    <3>2. ~ Past([step |-> "preflight", bundling |-> bundling, first |-> first,
                  cleared |-> cleared])
      BY DEF Past
    <3> QED BY <3>1, <3>2
  <2>4. CASE Approve(o)
    <3>1. PICK c : Become(o, Idle) \/ Become(o, [step |-> "evidence", run |-> c])
      BY <2>4 DEF Approve, Finish
    <3>2. ~ Past([step |-> "evidence", run |-> c])
      BY DEF Past
    <3> QED BY <2>1, <3>1, <3>2
  <2>5. CASE Evidence(o)
    <3>1. Become(o, [proc[o] EXCEPT !.step = "rc"])
      BY <2>5 DEF Evidence
    <3>2. ~ Past([proc[o] EXCEPT !.step = "rc"])
      BY <1>3 DEF Past
    <3> QED BY <3>1, <3>2
  <2>6. CASE WriteRc(o) \/ Fail(o)
    BY <2>1, <2>6 DEF WriteRc, Fail, Finish
  <2>7. CASE SecondContext(o)
    BY <2>7 DEF SecondContext, Past
  <2>8. CASE BeginCandidate(o, "manifest") \/ BeginCandidate(o, "report")
    <3>1. PICK rest, gate, cleared :
            Become(o, [step |-> "evaluate", rest |-> rest, gate |-> gate, cleared |-> cleared])
      BY <2>8 DEF BeginCandidate
    <3>2. ~ Past([step |-> "evaluate", rest |-> rest, gate |-> gate, cleared |-> cleared])
      BY DEF Past
    <3> QED BY <3>1, <3>2
  <2>9. CASE BeginValidation(o) \/ WriteManifest(o)
    BY <2>1, <2>9 DEF BeginValidation, WriteManifest, Finish, Alone, Past
  <2>10. CASE Evaluate(o)
    BY <2>10 DEF Evaluate, Past
  <2>11. CASE \E step, q, missing : \E next \in Reading : Reads(o, step, next, q, missing)
    BY <1>3, <2>11, ReadsMove DEF Past, Reading
  <2>12. CASE RefreshFirst(o) \/ Judge(o) \/ ReadReleases(o) \/ ReadQueue(o)
    BY <2>11, <2>12 DEF RefreshFirst, Judge, ReadReleases, ReadQueue, Reading
  <2>13. CASE WriteValidation(o)
    <3>1. PICK p, status : /\ p = proc[o]
                           /\ \/ Become(o, Idle)
                              \/ Become(o, [step |-> "candidate", rest |-> p.rest, gate |-> p.gate,
                                            cleared |-> p.cleared, status |-> status, seen |-> p.seen])
      BY <2>13 DEF WriteValidation, Finish
    <3>2. ~ Past([step |-> "candidate", rest |-> p.rest, gate |-> p.gate,
                  cleared |-> p.cleared, status |-> status, seen |-> p.seen])
      BY DEF Past
    <3> QED BY <2>1, <3>1, <3>2
  <2> QED BY <2>2, <2>3, <2>4, <2>5, <2>6, <2>7, <2>8, <2>9, <2>10, <2>12, <2>13
<1>5. \A q \in Operator : PlaceKept(q)
  BY <1>2, <1>4, MovesApart DEF WholeInv
<1> QED BY <1>1, <1>5, QuietKeepsWhole

(* A preflight written under a release's id is one that allows it. *)
LEMMA WritePreflightKeepsWhole ==
  ASSUME WholeInv, IInv', NEW o \in Operator, WritePreflight(o)
  PROVE  WholeInv'
<1> DEFINE first == proc[o].first
           new == FileOf("preflight", first, first, proc[o].cleared)
<1>1. /\ Put(new) /\ tangled' = tangled
      /\ new.id = IdOf(first) /\ new.kind = "preflight"
      /\ new.says = IF PreflightAllows(first) THEN "allowed" ELSE "blocked"
  BY DEF WritePreflight, FileOf, Says
<1>2. \A q \in Operator : PlaceKept(q)
  <2>1. proc[o].step = "preflight" /\ "step" \in DOMAIN proc[o]
    BY DEF WritePreflight, At, WholeInv, IInv, CommandOk, Shaped
  <2>2. ~ Past(proc[o]) /\ ~ Past(Idle) /\ ~ Past([proc[o] EXCEPT !.step = "context"])
    BY <2>1 DEF Past, Idle
  <2>3. Become(o, Idle) \/ Become(o, [proc[o] EXCEPT !.step = "context"])
    BY DEF WritePreflight, Finish
  <2> QED BY <2>2, <2>3, MovesApart DEF WholeInv
<1> HIDE DEF first, new
<1>3. files' = {g \in files : g.id # new.id \/ g.kind # new.kind} \cup {new}
  BY <1>1 DEF Put
<1>4. ASSUME NEW id, id \notin tangled PROVE Clean(id)'
  <2>1. Clean(id)
    BY <1>4 DEF WholeInv
  <2>2. CASE id # new.id
    BY <1>2, <1>3, <2>1, <2>2, CleanStays
  <2>3. CASE id = new.id
    <3>1. \A f : f.id = id /\ f.kind # "preflight" => (f \in files' <=> f \in files)
      BY <1>1, <1>3
    <3>2. \A q \in Operator : PastOf(q, id)' <=> PastOf(q, id)
      BY <1>2 DEF PlaceKept, PastOf
    <3>3. \A q \in Operator : PastOf(q, id) => proc'[q] = proc[q]
      BY <1>2 DEF PlaceKept, PastOf
    <3>4. ASSUME NEW step, NEW at, Written(step, at, id) PROVE Written(step, at, id)'
      <4>1. "preflight" \notin Before(step)
        BY DEF Before
      <4> QED BY <3>1, <3>4, <4>1 DEF Written
    <3>5. \A q \in Operator : PastOf(q, id)' => Written(proc[q].step, proc[q].second.at, id)'
      BY <2>1, <3>2, <3>3, <3>4 DEF Clean
    <3>6. ASSUME NEW f \in files, f.kind = "bundle", f.id = id, Whole(id) PROVE Whole(id)'
      <4>1. AllowedId(id)
        BY <3>6 DEF WholeInv, IInv, OfKind, BundleOk
      <4>2. PreflightAllows(first)
        <5>1. /\ id.run = first.run /\ id.replay = first.replay /\ id.state = first.state
              /\ id.approved = (first.decision = "approve")
          BY <1>1, <2>3 DEF IdOf
        <5>2. id.replay = "ok" /\ id.state = "ready" /\ id.approved
          BY <4>1 DEF AllowedId
        <5> QED BY <4>1, <5>1, <5>2 DEF AllowedId, PreflightAllows
      <4>3. new.says = "allowed"
        BY <1>1, <4>2
      <4>4. \A kind \in Kind : \E g \in files' : g.id = id /\ g.kind = kind
        BY <1>1, <1>3, <2>3, <3>1, <3>6 DEF Whole
      <4>5. \A g \in files' : g.id = id => g.says \notin {"torn", "blocked"}
        BY <1>3, <3>6, <4>3 DEF Whole
      <4>6. \A g, h \in files' : g.id = id /\ h.id = id /\ g.kind # "preflight" /\ h.kind # "preflight"
                               => g.at = h.at
        BY <3>1, <3>6 DEF Whole
      <4> QED BY <4>4, <4>5, <4>6 DEF Whole
    <3>7. (\E f \in files' : f.kind = "bundle" /\ f.id = id) /\ (\A q \in Operator : ~ PastOf(q, id)')
           => Whole(id)'
      BY <2>1, <3>1, <3>2, <3>6 DEF Clean
    <3>8. \A q, r \in Operator : PastOf(q, id)' /\ PastOf(r, id)' => q = r
      BY <2>1, <3>2 DEF Clean
    <3> QED BY <3>5, <3>7, <3>8 DEF Clean
  <2> QED BY <2>2, <2>3
<1> QED BY <1>1, <1>4 DEF WholeInv

(* A death tangles the release whose file it leaves torn, or unwritten. *)
LEMMA DeathKeepsWhole ==
  ASSUME WholeInv, IInv', NEW o \in Operator, Die(o)
  PROVE  WholeInv'
<1>1. /\ files' = files \/ \E f \in Target(o) : Put([f EXCEPT !.says = "torn"])
      /\ tangled' = tangled \cup {f.id : f \in Target(o)}
      /\ Become(o, Idle)
  BY DEF Die, Finish
<1>2. \A q \in Operator : q # o => proc'[q] = proc[q]
  BY <1>1 DEF Become, WholeInv, IInv
<1>3. proc'[o] = Idle /\ ~ Past(Idle)
  BY <1>1 DEF Become, WholeInv, IInv, Past, Idle
<1>4. ASSUME NEW f \in Target(o) PROVE [f EXCEPT !.says = "torn"].id = f.id
  BY DEF Target, FileOf
<1>5. ASSUME NEW id, PastOf(o, id) PROVE id \in tangled'
  <2>1. PICK kind : FileOf(kind, proc[o].second, proc[o].first, proc[o].cleared) \in Target(o)
    BY <1>5 DEF PastOf, Past, Target, Building, NextKind, At
  <2>2. FileOf(kind, proc[o].second, proc[o].first, proc[o].cleared).id = id
    BY <1>5 DEF FileOf, PastOf
  <2> QED BY <1>1, <2>1, <2>2
<1>6. ASSUME NEW id, id \notin tangled' PROVE Clean(id)'
  <2>1. Clean(id)
    BY <1>1, <1>6 DEF WholeInv
  <2>2. \A f : f.id = id => (f \in files' <=> f \in files)
    <3>1. CASE files' = files
      BY <3>1
    <3>2. CASE \E f \in Target(o) : Put([f EXCEPT !.says = "torn"])
      <4>1. PICK f \in Target(o) : Put([f EXCEPT !.says = "torn"])
        BY <3>2
      <4>2. PICK g : g = [f EXCEPT !.says = "torn"]
        OBVIOUS
      <4>3. g.id # id
        BY <1>1, <1>4, <1>6, <4>2
      <4>4. files' = {h \in files : h.id # g.id \/ h.kind # g.kind} \cup {g}
        BY <4>1, <4>2 DEF Put
      <4> QED BY <4>3, <4>4
    <3> QED BY <1>1, <3>1, <3>2
  <2>3. \A q \in Operator : PlaceKept(q) \/ (~ PastOf(q, id) /\ ~ PastOf(q, id)')
    BY <1>2, <1>3, <1>5, <1>6 DEF PlaceKept, PastOf
  <2> QED BY <2>1, <2>2, <2>3, CleanStays
<1> QED BY <1>6 DEF WholeInv

(* A builder that is alone with its release puts the next of its files in place; one that
   is not tangles it with its first. *)
LEMMA WriteFileKeepsWhole ==
  ASSUME WholeInv, IInv', NEW o \in Operator, WriteFile(o)
  PROVE  WholeInv'
<1>1. PICK p : p = proc[o]
  OBVIOUS
<1> DEFINE kind == IF p.step = "final" THEN "preflight" ELSE p.step
           id0  == IdOf(p.first)
           new  == FileOf(kind, p.second, p.first, p.cleared)
<1>2. /\ p.step \in DOMAIN NextKind
      /\ files' = {g \in files : g.id # new.id \/ g.kind # new.kind} \cup {new}
  BY <1>1 DEF WriteFile, Building, Write, Put
<1>3. /\ {"step", "first", "second"} \subseteq DOMAIN p
      /\ PreflightAllows(p.first)
      /\ p.second.decision \in Decision
  BY <1>1, <1>2 DEF WholeInv, IInv, CommandOk, Shaped, Bundling
<1>4. /\ new.id = id0 /\ new.kind = kind
      /\ kind # "preflight" => new.at = p.second.at
      /\ new.says \notin {"torn", "blocked"}
  <2>1. Says(kind, p.second, p.first) \notin {"torn", "blocked"}
    BY <1>3 DEF Says, Decision
  <2> QED BY <2>1 DEF FileOf
<1>5. \A q \in Operator : q # o => proc'[q] = proc[q]
  BY DEF WriteFile, Become, Finish, WholeInv, IInv
<1>6. CASE p.step = "final"
  <2>1. proc'[o] = Idle /\ ~ Past(Idle)
    BY <1>1, <1>6 DEF WriteFile, Become, Finish, WholeInv, IInv, Past, Idle
  <2>2. tangled' = tangled
    BY <1>1, <1>6 DEF WriteFile
  <2> HIDE DEF new
  <2>3. ASSUME NEW id, id \notin tangled PROVE Clean(id)'
    <3>1. Clean(id)
      BY <2>3 DEF WholeInv
    <3>2. CASE id # id0
      <4>1. \A f : f.id = id => (f \in files' <=> f \in files)
        BY <1>2, <1>4, <3>2
      <4>2. ~ PastOf(o, id) /\ ~ PastOf(o, id)'
        BY <1>1, <2>1, <3>2 DEF PastOf
      <4> QED BY <1>5, <3>1, <4>1, <4>2, CleanStays DEF PlaceKept
    <3>3. CASE id = id0
      <4>1. PastOf(o, id)
        BY <1>1, <1>6, <3>3 DEF PastOf, Past
      <4>2. \A q \in Operator : ~ PastOf(q, id)'
        BY <1>5, <2>1, <3>1, <4>1 DEF Clean, PastOf
      <4>3. Written("final", p.second.at, id)
        BY <1>1, <1>6, <3>1, <4>1 DEF Clean
      <4>4. \A f \in files : f.id = id /\ f.kind # "preflight" => f.at = p.second.at /\ f.says \notin {"torn", "blocked"}
        BY <4>3 DEF Written, Before, WholeInv, IInv, Kind
      <4>5. \A k \in Kind : \E f \in files' : f.id = id /\ f.kind = k
        BY <1>2, <1>4, <1>6, <3>3, <4>3 DEF Written, Before, Kind
      <4>6. \A f \in files' : f.id = id => f.says \notin {"torn", "blocked"}
        BY <1>2, <1>4, <1>6, <3>3, <4>4
      <4>7. \A f \in files' : f.id = id /\ f.kind # "preflight" => f.at = p.second.at
        BY <1>2, <1>4, <1>6, <4>4
      <4>8. Whole(id)'
        BY <4>5, <4>6, <4>7 DEF Whole
      <4> QED BY <4>2, <4>8 DEF Clean
    <3> QED BY <3>2, <3>3
  <2> QED BY <2>2, <2>3 DEF WholeInv
<1>7. CASE p.step # "final"
  <2>1. PICK state : state = [p EXCEPT !.step = NextKind[p.step]]
    OBVIOUS
  <2>2. /\ state.step = NextKind[p.step] /\ state.first = p.first /\ state.second = p.second
        /\ Past(state)
    BY <1>2, <1>3, <1>7, <2>1 DEF Past, NextKind
  <2>3. proc'[o] = state
    BY <1>1, <1>7, <2>1 DEF WriteFile, Become, WholeInv, IInv
  <2>4. PastOf(o, id0)' /\ \A id : id # id0 => ~ PastOf(o, id) /\ ~ PastOf(o, id)'
    BY <1>1, <2>2, <2>3 DEF PastOf
  <2>5. ASSUME NEW id, id \notin tangled', id # id0 PROVE Clean(id)'
    <3>1. id \notin tangled
      BY <1>1, <2>5 DEF WriteFile
    <3>2. Clean(id)
      BY <3>1 DEF WholeInv
    <3>3. \A f : f.id = id => (f \in files' <=> f \in files)
      BY <1>2, <1>4, <2>5
    <3> QED BY <1>5, <2>4, <2>5, <3>2, <3>3, CleanStays DEF PlaceKept
  <2>6. ASSUME id0 \notin tangled' PROVE Clean(id0)'
    <3>1. PICK id : id = id0
      OBVIOUS
    <3> DEFINE at == p.second.at
    <3>2. \A q \in Operator \ {o} : ~ PastOf(q, id)
      <4>1. CASE p.step = "bundle"
        <5>1. {q \in Operator \ {o} : Building(q) /\ IdOf(proc[q].first) = id} = {}
          BY <1>1, <2>6, <3>1, <4>1 DEF WriteFile
        <5> QED BY <5>1 DEF PastOf, Past, Building, NextKind
      <4>2. CASE p.step # "bundle"
        <5>1. id \notin tangled
          BY <1>1, <2>6, <3>1, <4>2 DEF WriteFile
        <5>2. PastOf(o, id)
          BY <1>1, <1>2, <3>1, <4>2 DEF PastOf, Past, NextKind
        <5> QED BY <5>1, <5>2 DEF WholeInv, Clean
      <4> QED BY <4>1, <4>2
    <3>3. p.step # "bundle" => Written(p.step, at, id)
      <4> SUFFICES ASSUME p.step # "bundle" PROVE Written(p.step, at, id)
        OBVIOUS
      <4>1. id \notin tangled
        BY <1>1, <2>6, <3>1 DEF WriteFile
      <4>2. PastOf(o, id)
        BY <1>1, <1>2, <3>1 DEF PastOf, Past, NextKind
      <4> QED BY <1>1, <4>1, <4>2 DEF WholeInv, Clean
    <3>4. Before(state.step) = {kind} \cup (IF p.step = "bundle" THEN {} ELSE Before(p.step))
      BY <1>2, <1>7, <2>2 DEF Before, NextKind
    <3>5. kind # "preflight"
      BY <1>2, <1>7 DEF NextKind
    <3> HIDE DEF new, kind, at
    <3>6. Written(state.step, at, id)'
      <4>1. \A k \in Before(state.step) : \E f \in files' : f.id = id /\ f.kind = k
        BY <1>2, <1>4, <3>1, <3>3, <3>4 DEF Written
      <4>2. \A f \in files' : f.id = id /\ f.kind \in Before(state.step)
                             => f.at = p.second.at /\ f.says \notin {"torn", "blocked"}
        BY <1>2, <1>4, <3>1, <3>3, <3>4, <3>5 DEF Written, at
      <4> QED BY <4>1, <4>2 DEF Written, at
    <3>7. \A q \in Operator : PastOf(q, id)' => q = o
      BY <1>5, <3>2 DEF PastOf
    <3>8. Written(proc[o].step, proc[o].second.at, id)'
      BY <2>2, <2>3, <3>6 DEF at
    <3> QED BY <2>4, <3>1, <3>7, <3>8 DEF Clean
  <2>7. ASSUME NEW id, id \notin tangled' PROVE Clean(id)'
    BY <2>5, <2>6, <2>7
  <2> QED BY <2>7 DEF WholeInv
<1> QED BY <1>6, <1>7

LEMMA StepWholeInv == WholeInv /\ [Next]_vars => WholeInv'
<1> SUFFICES ASSUME WholeInv, [Next]_vars PROVE WholeInv'
  OBVIOUS
<1>1. IInv'
  BY StepIInv DEF WholeInv
<1>2. ASSUME NEW o \in Operator, Command(o) PROVE WholeInv'
  <2>1. CASE WritePreflight(o)
    BY <1>1, <2>1, WritePreflightKeepsWhole
  <2>2. CASE WriteFile(o)
    BY <1>1, <2>2, WriteFileKeepsWhole
  <2>3. CASE \E f \in OfKind("bundle") : RecordRelease(o, f.id)
    <3>1. files' = files /\ tangled' = tangled /\ proc' = proc
      BY <2>3 DEF RecordRelease
    <3> QED BY <1>1, <3>1, QuietKeepsWhole DEF PlaceKept
  <2> QED BY <1>1, <1>2, <2>1, <2>2, <2>3, ReadersKeepWhole DEF Command
<1>3. ASSUME NEW o \in Operator, Die(o) PROVE WholeInv'
  BY <1>1, <1>3, DeathKeepsWhole
<1>4. CASE Beside \/ UNCHANGED vars
  <2>1. files' = files /\ tangled' = tangled /\ proc' = proc
    BY <1>4 DEF vars, Beside, Decide, Replay, Promote, Upset, RefreshQueue, UNCHANGED_Release
  <2> QED BY <1>1, <2>1, QuietKeepsWhole DEF PlaceKept
<1> QED BY <1>2, <1>3, <1>4 DEF Next

(* A listed release that nobody is building is whole, whatever deaths and other builders
   did before its last build (release_bundle.rs write_release_bundle). *)
THEOREM ReleasesAreWhole == Spec => []ReleaseIsWhole
<1>1. Init => WholeInv
  <2> SUFFICES ASSUME Init PROVE WholeInv
    OBVIOUS
  <2>1. files = {} /\ \A o \in Operator : ~ Past(proc[o])
    BY DEF Init, Idle, Past
  <2>2. \A id : Clean(id)
    BY <2>1 DEF Clean, PastOf
  <2> QED BY <2>2, InitIInv DEF WholeInv
<1>2. WholeInv => ReleaseIsWhole
  <2> SUFFICES ASSUME WholeInv, NEW id \in Releases, ~ Underway(id), id \notin tangled
               PROVE  LET own == {f \in files : f.id = id} IN
                      /\ {f.kind : f \in own} = Kind
                      /\ \A f \in own : f.says \notin {"torn", "blocked"}
                      /\ \A f, g \in own : f.kind # "preflight" /\ g.kind # "preflight" => f.at = g.at
    BY DEF ReleaseIsWhole
  <2>1. \A o \in Operator : ~ PastOf(o, id)
    BY DEF Underway, PastOf, Past, Building, NextKind
  <2>2. \E f \in files : f.kind = "bundle" /\ f.id = id
    BY DEF Releases, OfKind
  <2>3. Whole(id)
    BY <2>1, <2>2 DEF WholeInv, Clean
  <2>4. \A f \in files : f.kind \in Kind
    BY DEF WholeInv, IInv
  <2> QED BY <2>3, <2>4 DEF Whole
<1> QED BY <1>1, <1>2, StepWholeInv, PTL DEF Spec
=============================================================================
