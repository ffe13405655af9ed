-------------------------- MODULE GovernanceProofs --------------------------
(***************************************************************************)
(* Proofs about Governance for any candidates, digests, operators, faults  *)
(* and bounds.                                                             *)
(***************************************************************************)
EXTENDS GovernanceLedger, FiniteSetTheorems, TLAPS

-----------------------------------------------------------------------------
(* Type correctness *)

(* The parts of TypeOK that an action seldom touches together. *)
LEMMA IdleTyped == Idle \in ProcState /\ NoFacts \in Facts
  BY DEF Idle, ProcState, NoFacts, Facts, ReplayStatus, Step, Command

(* What the state of a process inside a command looks like. *)
LEMMA BusyTyped ==
  ASSUME TypeOK, NEW p \in Proc, proc[p].step # "idle"
  PROVE  /\ proc[p] \in ProcState
         /\ proc[p].run \in Candidate
         /\ proc[p].step = "decide" => proc[p].cmd \in {"approve", "defer", "reject"}
  <1>1. proc[p] \in ProcState
    BY DEF TypeOK
  <1>2. CommandsOK
    BY DEF TypeOK
  <1>3. QED BY <1>1, <1>2 DEF CommandsOK

(* A process that moves on to a typed state with a run leaves all of them typed. *)
LEMMA MoveTyped ==
  ASSUME TypeOK, NEW p \in Proc, NEW s \in ProcState,
         proc' = [proc EXCEPT ![p] = s],
         s.step # "idle" => s.run \in Candidate,
         s.step # "decide"
  PROVE  proc' \in [Proc -> ProcState] /\ CommandsOK'
  <1>1. proc \in [Proc -> ProcState]
    BY DEF TypeOK
  <1>2. CommandsOK
    BY DEF TypeOK
  <1>3. proc' \in [Proc -> ProcState]
    BY <1>1
  <1>4. ASSUME NEW q \in Proc
        PROVE  proc'[q] = IF q = p THEN s ELSE proc[q]
    BY <1>1
  <1>5. QED BY <1>2, <1>3, <1>4 DEF CommandsOK

(* What a refresh writes into the queue file and the reports is well typed. *)
LEMMA RefreshTyped ==
  ASSUME TypeOK, RefreshQueue
  PROVE  /\ queue' \in [Candidate -> Facts \cup {NoItem}]
         /\ report' \in [Candidate -> {"missing", "not_run", "ok", "failed"}]
  <1>1. RebuiltReport \in [Candidate -> {"not_run", "ok", "failed"}]
    BY DEF RebuiltReport, TypeOK
  <1>2. \A c \in Candidate : FactsNow(c) \in Facts
    <2> SUFFICES ASSUME NEW c \in Candidate PROVE FactsNow(c) \in Facts
      OBVIOUS
    <2>1. RebuiltReport[c] \in ReplayStatus
      BY <1>1 DEF ReplayStatus
    <2>2. Retained(DigestOf(c)) \in BOOLEAN
      BY Zenon DEF Retained
    <2>3. (tree[DigestOf(c)] > 0) \in BOOLEAN
      BY DEF TypeOK
    <2>4. hindered \in BOOLEAN
      BY DEF TypeOK
    <2>5. (IF torn = "replay" \/ text.damaged THEN "unknown" ELSE RebuiltReport[c]) \in ReplayStatus
      BY <2>1 DEF ReplayStatus
    <2>6. TestNamed(DigestOf(c)) \in BOOLEAN
      BY Zenon DEF TestNamed
    <2>7. QED
      BY <2>2, <2>3, <2>4, <2>5, <2>6, Zenon DEF FactsNow, Facts
  <1>3. Refreshed \in [Candidate -> Facts \cup {NoItem}]
    BY <1>2 DEF Refreshed, TypeOK
  <1>4. QED
    BY <1>1, <1>3 DEF RefreshQueue, TypeOK

(* Whatever is appended leaves the lines of the log well typed. *)
LEMMA WrittenTyped ==
  ASSUME TypeOK, NEW kind \in {"promotion", "cycle"}
  PROVE  Written(kind) \in Text /\ [Written(kind) EXCEPT !.tail = "newline"] \in Text
         /\ [text EXCEPT !.tail = "newline"] \in Text
  <1>1. text \in Text /\ Len(evolog) \in Nat
    BY DEF TypeOK
  <1> DEFINE next == Len(evolog) + 1
             lost == text.lost \cup {i \in {next - 1} : text.tail = "promotion"}
                               \cup {i \in {next} : text.tail # "newline" /\ kind = "promotion"}
             damaged == text.damaged \/ text.tail # "newline"
  <1>2. lost \in SUBSET Nat
    BY <1>1 DEF Text
  <1>3. damaged \in BOOLEAN
    BY <1>1 DEF Text
  <1>4. Written(kind) = [tail |-> kind, lost |-> lost, damaged |-> damaged]
    BY Zenon DEF Written
  <1> HIDE DEF lost, damaged
  <1>5. QED BY <1>1, <1>2, <1>3, <1>4 DEF Text

(* A governance record is well typed, whatever the item looked like. *)
LEMMA UpsertTyped ==
  ASSUME TypeOK, NEW c \in Candidate, NEW decision \in Decision, NEW f,
         Upsert(c, decision, f),
         decision = "approve" => PromotionState(c, f) \in {"ready", "blocked"}
  PROVE  decisions' \subseteq Record
  <1>1. CASE \E r \in RecordsOf(c) : r.decision = decision
    BY <1>1 DEF Upsert, TypeOK
  <1>2. CASE ~ \E r \in RecordsOf(c) : r.decision = decision
    <2> DEFINE r == [run |-> c, decision |-> decision, at |-> clock,
                     state |-> IF decision = "approve" THEN PromotionState(c, f) ELSE "not read"]
    <2>1. r \in Record
      BY DEF Record, TypeOK
    <2>2. decisions' = decisions \cup {r}
      BY <1>2 DEF Upsert
    <2>3. QED
      BY <2>1, <2>2 DEF TypeOK
  <1>3. QED BY <1>1, <1>2

(* An approvable item is ready or blocked, so an approval remembers one of the two. *)
LEMMA ApprovableState ==
  ASSUME NEW c \in Candidate, NEW f \in Facts, Approvable(c, f)
  PROVE  PromotionState(c, f) \in {"ready", "blocked"}
  BY DEF Approvable, PromotionState, Lifecycle

LEMMA InitTypeOK == Init => TypeOK
  <1> SUFFICES ASSUME Init PROVE TypeOK
    OBVIOUS
  <1>1. proc \in [Proc -> ProcState] /\ \A p \in Proc : proc[p].step = "idle"
    BY IdleTyped DEF Init, Idle
  <1>2. evolog \in Seq(Entry) /\ tree \in [Digest -> Nat]
    BY DEF Init
  <1>5. text \in Text
    BY DEF Init, Text
  <1>3. report \in [Candidate -> {"missing", "not_run", "ok", "failed"}] /\ hindered \in BOOLEAN
    BY GovernanceAssumption DEF Init
  <1>4. QED
    BY <1>1, <1>2, <1>3, <1>5 DEF Init, TypeOK, CommandsOK

LEMMA StepTypeOK == TypeOK /\ [Next]_vars => TypeOK'
  <1> SUFFICES ASSUME TypeOK, [Next]_vars PROVE TypeOK'
    OBVIOUS
  <1> USE IdleTyped
  <1>1. ASSUME NEW p \in Proc, NEW c \in Candidate,
               NEW decision \in {"approve", "defer", "reject"}, BeginDecision(p, c, decision)
        PROVE  TypeOK'
    <2>1. queue' \in [Candidate -> Facts \cup {NoItem}] /\ queue'[c] \in Facts
      BY <1>1, RefreshTyped DEF BeginDecision
    <2>2. [Idle EXCEPT !.step = "decide", !.cmd = decision, !.run = c, !.facts = queue'[c]]
            \in ProcState
      BY <2>1 DEF Idle, ProcState, Step, Command
    <2>3. QED
      BY <1>1, <2>1, <2>2, RefreshTyped DEF BeginDecision, Become, TypeOK, CommandsOK, Idle
  <1>2. ASSUME NEW p \in Proc, NEW c \in Candidate, BeginPromoteApproved(p, c)
        PROVE  TypeOK'
    BY <1>2 DEF BeginPromoteApproved, Become, TypeOK, CommandsOK, Idle, ProcState, Step, Command
  <1>3. ASSUME NEW p \in Proc, NEW c \in Candidate, BeginPromote(p, c)
        PROVE  TypeOK'
    BY <1>3 DEF BeginPromote, Become, TypeOK, CommandsOK, Idle, ProcState, Step, Command
  <1>4. ASSUME NEW p \in Proc, NEW c \in Candidate, BeginReplay(p, c)
        PROVE  TypeOK'
    <2>1. replayFile' \in [Candidate -> {"not_run", "ok", "failed"}]
      BY <1>4 DEF BeginReplay, TypeOK
    <2>2. [Idle EXCEPT !.step = "report", !.run = c] \in ProcState
      BY DEF Idle, ProcState, Step, Command
    <2>3. QED
      BY <1>4, <2>1, <2>2 DEF BeginReplay, Become, TypeOK, CommandsOK, Idle
  <1>5. ASSUME NEW p \in Proc, Decide(p)
        PROVE  TypeOK'
    <2> DEFINE c == proc[p].run
               f == proc[p].facts
               d == proc[p].cmd
    <2>1. c \in Candidate /\ f \in Facts /\ d \in {"approve", "defer", "reject"}
      BY <1>5, BusyTyped DEF Decide, At, ProcState
    <2>2. decisions' \subseteq Record /\ ordered' \in [Candidate -> {"none", "approve", "defer", "reject"}]
      <3>1. CASE d = "approve" /\ ~ Approvable(c, f)
        BY <1>5, <3>1 DEF Decide, TypeOK
      <3>2. CASE ~ (d = "approve" /\ ~ Approvable(c, f))
        <4>1. Upsert(c, d, f) /\ ordered' = [ordered EXCEPT ![c] = d]
          BY <1>5, <3>2 DEF Decide
        <4>2. d = "approve" => PromotionState(c, f) \in {"ready", "blocked"}
          BY <2>1, <3>2, ApprovableState
        <4>3. decisions' \subseteq Record
          BY <2>1, <4>1, <4>2, UpsertTyped DEF Decision
        <4>4. QED
          BY <2>1, <4>1, <4>3 DEF TypeOK
      <3>3. QED BY <3>1, <3>2
    <2>3. QED
      BY <1>5, <2>2 DEF Decide, Finish, Become, TypeOK, CommandsOK, Idle
  <1>6. ASSUME NEW p \in Proc, TrustGate(p)
        PROVE  TypeOK'
    <2>1. proc[p] \in ProcState /\ proc[p].run \in Candidate
      BY <1>6, BusyTyped DEF TrustGate, At
    <2> DEFINE s == [proc[p] EXCEPT !.step = "apply", !.gatedAt = clock]
    <2>2. s \in ProcState /\ s.run = proc[p].run /\ s.step = "apply"
      BY <2>1 DEF ProcState, Step, TypeOK
    <2>3. proc' = [proc EXCEPT ![p] = s] \/ proc' = [proc EXCEPT ![p] = Idle]
      BY <1>6 DEF TrustGate, Finish, Become, TypeOK
    <2>4. Idle.step = "idle"
      BY DEF Idle
    <2>5. proc' \in [Proc -> ProcState] /\ CommandsOK'
      <3> HIDE DEF s
      <3>1. CASE proc' = [proc EXCEPT ![p] = s]
        BY <2>1, <2>2, <3>1, MoveTyped
      <3>2. CASE proc' = [proc EXCEPT ![p] = Idle]
        BY <2>4, <3>2, MoveTyped
      <3>3. QED BY <2>3, <3>1, <3>2
    <2>6. QED
      BY <1>6, <2>5, RefreshTyped DEF TrustGate, TypeOK
  <1>7. ASSUME NEW p \in Proc, Apply(p)
        PROVE  TypeOK'
    <2> DEFINE d == DigestOf(proc[p].run)
    <2>1. d \in Digest
      BY <1>7, BusyTyped, ProfileAssumption DEF Apply, At, DigestOf
    <2>2. tree' \in [Digest -> Nat]
      BY <1>7, <2>1 DEF Apply, TypeOK
    <2>3. proc[p] \in ProcState /\ proc[p].run \in Candidate
      BY <1>7, BusyTyped DEF Apply, At
    <2> DEFINE s == [proc[p] EXCEPT !.step = "validate", !.backup = tree]
    <2>4. s \in ProcState /\ s.run = proc[p].run /\ s.step = "validate"
      BY <2>3 DEF ProcState, Step, TypeOK
    <2>5. proc' = [proc EXCEPT ![p] = s] \/ proc' = [proc EXCEPT ![p] = Idle]
      BY <1>7 DEF Apply, Finish, Become, TypeOK
    <2>6. Idle.step = "idle"
      BY DEF Idle
    <2>7. proc' \in [Proc -> ProcState] /\ CommandsOK'
      <3> HIDE DEF s
      <3>1. CASE proc' = [proc EXCEPT ![p] = s]
        BY <2>3, <2>4, <3>1, MoveTyped
      <3>2. CASE proc' = [proc EXCEPT ![p] = Idle]
        BY <2>6, <3>2, MoveTyped
      <3>3. QED BY <2>5, <3>1, <3>2
    <2>8. QED
      BY <1>7, <2>2, <2>7 DEF Apply, TypeOK
  <1>8. ASSUME NEW p \in Proc, ValidateOk(p)
        PROVE  TypeOK'
    <2>1. Idle.backup \in [Digest -> Nat]
      BY DEF Idle
    <2>2. QED
      BY <1>8, <2>1 DEF ValidateOk, At, TypeOK, CommandsOK, ProcState, Step
  <1>9. ASSUME NEW p \in Proc, ValidateFails(p)
        PROVE  TypeOK'
    <2>1. RestoredTree(p) \in [Digest -> Nat]
      BY DEF RestoredTree, TypeOK, ProcState
    <2>2. QED
      BY <1>9, <2>1 DEF ValidateFails, Finish, Become, TypeOK, CommandsOK, Idle
  <1>10. ASSUME NEW p \in Proc, LogPromotion(p)
         PROVE  TypeOK'
    <2> DEFINE c == proc[p].run
               e == NewEntry(p)
    <2>0. proc[p] \in ProcState /\ proc[p].run \in Candidate
      BY <1>10, BusyTyped DEF LogPromotion, At
    <2>1. c \in Candidate /\ DigestOf(c) \in Digest /\ proc[p].gatedAt \in Nat
      BY <1>10, BusyTyped, ProfileAssumption DEF LogPromotion, At, ProcState, DigestOf
    <2>2. (proc[p].cmd = "promote_approved") \in BOOLEAN
      OBVIOUS
    <2>3. e \in Entry
      BY <2>1, <2>2, Zenon DEF Entry, NewEntry
    <2>4. evolog' \in Seq(Entry)
      BY <1>10, <2>3 DEF LogPromotion, TypeOK
    <2> DEFINE s == [proc[p] EXCEPT !.step = "newline", !.gatedAt = 0]
    <2>5. s \in ProcState /\ s.run = proc[p].run /\ s.step = "newline"
      BY <2>0 DEF ProcState, Step, TypeOK
    <2>6. proc' = [proc EXCEPT ![p] = s]
      BY <1>10 DEF LogPromotion, TypeOK
    <2>7. text' \in Text
      BY <1>10, WrittenTyped DEF LogPromotion
    <2>8. proc' \in [Proc -> ProcState] /\ CommandsOK'
      <3> HIDE DEF s
      <3>1. QED BY <2>0, <2>5, <2>6, MoveTyped
    <2>9. QED
      BY <1>10, <2>4, <2>7, <2>8 DEF LogPromotion, TypeOK
  <1>17. ASSUME NEW p \in Proc, EndLine(p)
         PROVE  TypeOK'
    <2>0. proc[p] \in ProcState /\ proc[p].run \in Candidate
      BY <1>17, BusyTyped DEF EndLine, At
    <2> DEFINE s == [proc[p] EXCEPT !.step = "record"]
    <2>5. s \in ProcState /\ s.run = proc[p].run /\ s.step = "record"
      BY <2>0 DEF ProcState, Step
    <2>6. proc' = [proc EXCEPT ![p] = s] \/ proc' = [proc EXCEPT ![p] = Idle]
      BY <1>17 DEF EndLine, Finish, Become, TypeOK
    <2>7. Idle.step = "idle"
      BY DEF Idle
    <2>8. proc' \in [Proc -> ProcState] /\ CommandsOK'
      <3> HIDE DEF s
      <3>1. CASE proc' = [proc EXCEPT ![p] = s]
        BY <2>0, <2>5, <3>1, MoveTyped
      <3>2. CASE proc' = [proc EXCEPT ![p] = Idle]
        BY <2>7, <3>2, MoveTyped
      <3>3. QED BY <2>6, <3>1, <3>2
    <2>9. text' \in Text
      BY <1>17, WrittenTyped DEF EndLine
    <2>10. QED
      BY <1>17, <2>8, <2>9 DEF EndLine, TypeOK
  <1>11. ASSUME NEW p \in Proc, RecordPromotion(p)
         PROVE  TypeOK'
    <2>1. proc[p].run \in Candidate
      BY <1>11, BusyTyped DEF RecordPromotion, At
    <2>2. decisions' \subseteq Record
      BY <1>11, <2>1, UpsertTyped DEF RecordPromotion, TypeOK, Decision
    <2>3. QED
      BY <1>11, <2>2, RefreshTyped DEF RecordPromotion, Finish, Become, TypeOK, CommandsOK, Idle
  <1>12. ASSUME NEW p \in Proc, RefreshReport(p)
         PROVE  TypeOK'
    <2>1. proc[p].run \in Candidate
      BY <1>12, BusyTyped DEF RefreshReport, At
    <2>2. report' \in [Candidate -> {"missing", "not_run", "ok", "failed"}]
      BY <1>12, <2>1 DEF RefreshReport, TypeOK
    <2>3. QED
      BY <1>12, <2>2 DEF RefreshReport, Finish, Become, TypeOK, CommandsOK, Idle
  <1>13. ASSUME NEW p \in Proc, Crash(p)
         PROVE  TypeOK'
    BY <1>13 DEF Crash, Finish, Become, TypeOK, CommandsOK, Idle
  <1>14. ASSUME Environment
         PROVE  TypeOK'
    <2>1. CASE Tick
      BY <2>1 DEF Tick, TypeOK, CommandsOK
    <2>2. CASE AutonomyChanges
      <3>1. hindered' \in BOOLEAN
        BY <2>2, Zenon DEF AutonomyChanges
      <3>2. QED BY <2>2, <3>1 DEF AutonomyChanges, TypeOK, CommandsOK
    <2>3. CASE Tear
      BY <2>3, GovernanceAssumption DEF Tear, TypeOK, CommandsOK
    <2>4. CASE Mend
      BY <2>4 DEF Mend, TypeOK, CommandsOK
    <2>6. CASE CycleLogs
      <3>1. text' \in Text
        BY <2>6, WrittenTyped DEF CycleLogs
      <3>2. crashes' \in Nat
        BY <2>6 DEF CycleLogs, TypeOK
      <3>3. QED BY <2>6, <3>1, <3>2 DEF CycleLogs, TypeOK, CommandsOK
    <2>5. QED BY <1>14, <2>1, <2>2, <2>3, <2>4, <2>6 DEF Environment
  <1>15. CASE UNCHANGED vars
    BY <1>15 DEF vars, TypeOK, CommandsOK
  <1>16. QED
    BY <1>1, <1>2, <1>3, <1>4, <1>5, <1>6, <1>7, <1>8, <1>9, <1>10, <1>11, <1>12, <1>13,
       <1>14, <1>15, <1>17 DEF Next, Begin, Proceed

(* Every state of the system is well typed. *)
THEOREM TypeCorrect == Spec => []TypeOK
  BY InitTypeOK, StepTypeOK, PTL DEF Spec

-----------------------------------------------------------------------------
(* Governed promotion needs a standing approval *)

(* Records dated now change nothing about what was approved by an earlier time. *)
LEMMA ApprovedKept ==
  ASSUME NEW old \in SUBSET Record, NEW new \in SUBSET Record, NEW now \in Nat,
         old \subseteq new, \A r \in new : r \in old \/ r.at = now,
         NEW c \in Candidate, NEW t \in Nat, t <= now, ApprovedIn(old, c, t)
  PROVE  ApprovedIn(new, c, t)
  <1>1. PICK a \in old :
          /\ a.run = c /\ a.decision = "approve" /\ a.at <= t
          /\ \A r \in old : r.run = c /\ r.decision # "approve" /\ r.at < t => r.at < a.at
    BY DEF ApprovedIn
  <1>2. ASSUME NEW r \in new, r.run = c, r.decision # "approve", r.at < t
        PROVE  r.at < a.at
    <2>1. r \in old
      BY <1>2
    <2>2. QED BY <1>1, <1>2, <2>1
  <1>3. QED BY <1>1, <1>2 DEF ApprovedIn

(* The record latest_record_for_run returns beats every other decision's date. *)
LEMMA StandingIsApproved ==
  ASSUME TypeOK, \A r \in decisions : r.at <= clock,
         NEW c \in Candidate, NEW a \in StandingApproval(c)
  PROVE  ApprovedIn(decisions, c, clock)
  <1>1. a \in decisions /\ a.run = c /\ a.decision = "approve" /\ Latest(a)
    BY DEF StandingApproval, RecordsOf
  <1>2. ASSUME NEW r \in decisions, r.run = c, r.decision # "approve"
        PROVE  r.at < a.at
    <2>1. r \in Record /\ a \in Record
      BY <1>1 DEF TypeOK
    <2>2. r \in RecordsOf(a.run)
      BY <1>1, <1>2 DEF RecordsOf
    <2>3. NotNewer(r, a)
      BY <1>1, <2>2, Zenon DEF Latest
    <2>4. r.decision \in {"defer", "promoted", "reject"} /\ r.at \in Nat /\ a.at \in Nat
      BY <1>2, <2>1 DEF Record, Decision
    <2>5. Spelling[a.decision] = 1
      BY <1>1 DEF Spelling
    <2>6. Spelling[r.decision] \in {2, 3, 4}
      BY <2>4 DEF Spelling
    <2>7. QED
      BY <2>3, <2>4, <2>5, <2>6 DEF NotNewer
  <1>3. a.at <= clock
    BY <1>1
  <1>4. QED BY <1>1, <1>2, <1>3 DEF ApprovedIn

(* Decisions are only added, and dated with the clock. *)
LEMMA DecisionsGrow ==
  ASSUME TypeOK, [Next]_vars
  PROVE  decisions \subseteq decisions' /\ \A r \in decisions' : r \in decisions \/ r.at = clock
  <1>1. ASSUME NEW c, NEW decision, NEW f, Upsert(c, decision, f)
        PROVE  decisions \subseteq decisions' /\ \A r \in decisions' : r \in decisions \/ r.at = clock
    <2>1. CASE UNCHANGED decisions
      BY <2>1
    <2>2. CASE ~ UNCHANGED decisions
      <3> DEFINE s == IF decision = "approve" THEN PromotionState(c, f) ELSE "not read"
                 r == [run |-> c, decision |-> decision, at |-> clock, state |-> s]
      <3>1. decisions' = decisions \cup {r}
        BY <1>1, <2>2 DEF Upsert
      <3>2. r.at = clock
        OBVIOUS
      <3> HIDE DEF r
      <3>3. QED BY <3>1, <3>2
    <2>3. QED BY <2>1, <2>2
  <1>2. ASSUME NEW p \in Proc, Decide(p)
        PROVE  decisions \subseteq decisions' /\ \A r \in decisions' : r \in decisions \/ r.at = clock
    BY <1>1, <1>2 DEF Decide
  <1>3. ASSUME NEW p \in Proc, RecordPromotion(p)
        PROVE  decisions \subseteq decisions' /\ \A r \in decisions' : r \in decisions \/ r.at = clock
    BY <1>1, <1>3 DEF RecordPromotion
  <1>4. CASE UNCHANGED decisions
    BY <1>4
  <1>5. QED
    BY <1>2, <1>3, <1>4 DEF Next, Begin, Proceed, Environment, vars, BeginDecision,
       BeginPromoteApproved, BeginPromote, BeginReplay, TrustGate, Apply, ValidateOk,
       ValidateFails, LogPromotion, EndLine, RefreshReport, Crash, Tick, AutonomyChanges, Tear, Mend, CycleLogs

(* A command is past the gate because it was, or because the gate has just opened. *)
LEMMA PromotesStep ==
  ASSUME TypeOK, [Next]_vars, NEW q \in Proc, Promotes(q)'
  PROVE  /\ proc'[q].run = proc[q].run
         /\ \/ Promotes(q) /\ proc'[q].gatedAt = proc[q].gatedAt
            \/ /\ TrustGate(q) /\ proc'[q].gatedAt = clock
               /\ StandingApproval(proc[q].run) # {}
  <1> DEFINE Goal == /\ proc'[q].run = proc[q].run
                     /\ \/ Promotes(q) /\ proc'[q].gatedAt = proc[q].gatedAt
                        \/ /\ TrustGate(q) /\ proc'[q].gatedAt = clock
                           /\ StandingApproval(proc[q].run) # {}
  <1>1. proc \in [Proc -> ProcState] /\ proc[q] \in ProcState
    BY DEF TypeOK
  <1>2. Idle.step = "idle" /\ proc'[q].step \in {"apply", "validate", "log"}
        /\ proc'[q].cmd = "promote_approved"
    BY DEF Idle, Promotes
  <1>3. CASE proc'[q] = proc[q]
    BY <1>3 DEF Promotes
  <1>4. ASSUME NEW p \in Proc, NEW s, Become(p, s), s.step \notin {"apply", "validate", "log"}
        PROVE  Goal
    <2>1. CASE p = q
      BY <1>1, <1>2, <1>4, <2>1 DEF Become
    <2>2. CASE p # q
      BY <1>1, <1>3, <1>4, <2>2 DEF Become
    <2>3. QED BY <2>1, <2>2
  <1>5. ASSUME NEW p \in Proc, Finish(p)
        PROVE  Goal
    BY <1>2, <1>4, <1>5 DEF Finish
  <1>6. ASSUME NEW p \in Proc, NEW c \in Candidate,
               \/ \E decision \in {"approve", "defer", "reject"} : BeginDecision(p, c, decision)
               \/ BeginPromoteApproved(p, c) \/ BeginReplay(p, c)
        PROVE  Goal
    <2>1. ASSUME NEW decision, BeginDecision(p, c, decision)
          PROVE  Goal
      <3>1. [Idle EXCEPT !.step = "decide", !.cmd = decision, !.run = c,
                         !.facts = queue'[c]].step = "decide"
        BY DEF Idle
      <3>2. QED BY <1>4, <2>1, <3>1 DEF BeginDecision
    <2>2. CASE BeginPromoteApproved(p, c)
      <3>1. [Idle EXCEPT !.step = "gate", !.cmd = "promote_approved", !.run = c].step = "gate"
        BY DEF Idle
      <3>2. QED BY <1>4, <2>2, <3>1 DEF BeginPromoteApproved
    <2>3. CASE BeginReplay(p, c)
      <3>1. [Idle EXCEPT !.step = "report", !.run = c].step = "report"
        BY DEF Idle
      <3>2. QED BY <1>4, <2>3, <3>1 DEF BeginReplay
    <2>4. QED BY <1>6, <2>1, <2>2, <2>3
  <1>7. ASSUME NEW p \in Proc, NEW c \in Candidate, BeginPromote(p, c)
        PROVE  Goal
    <2>1. CASE p = q
      <3>1. proc'[q].cmd = "promote"
        BY <1>1, <1>7, <2>1 DEF BeginPromote, Become, Idle
      <3>2. QED BY <1>2, <3>1
    <2>2. CASE p # q
      BY <1>1, <1>3, <1>7, <2>2 DEF BeginPromote, Become
    <2>3. QED BY <2>1, <2>2
  <1>8. ASSUME NEW p \in Proc, TrustGate(p)
        PROVE  Goal
    <2>1. CASE queue'[proc[p].run] # NoItem /\ GateAllows(proc[p].run, queue'[proc[p].run])
      <3>1. proc' = [proc EXCEPT ![p].step = "apply", ![p].gatedAt = clock]
        BY <1>8, <2>1 DEF TrustGate
      <3>2. StandingApproval(proc[p].run) # {}
        BY <2>1 DEF GateAllows
      <3>3. CASE p = q
        BY <1>1, <1>8, <3>1, <3>2, <3>3 DEF ProcState
      <3>4. CASE p # q
        BY <1>1, <1>3, <3>1, <3>4
      <3>5. QED BY <3>3, <3>4
    <2>2. CASE ~ (queue'[proc[p].run] # NoItem /\ GateAllows(proc[p].run, queue'[proc[p].run]))
      BY <1>5, <1>8, <2>2 DEF TrustGate
    <2>3. QED BY <2>1, <2>2
  <1>9. ASSUME NEW p \in Proc, Apply(p)
        PROVE  Goal
    <2>1. CASE proc' = [proc EXCEPT ![p].step = "validate", ![p].backup = tree]
      <3>1. CASE p = q
        BY <1>1, <1>2, <1>9, <2>1, <3>1 DEF Apply, At, ProcState, Promotes
      <3>2. CASE p # q
        BY <1>1, <1>3, <2>1, <3>2
      <3>3. QED BY <3>1, <3>2
    <2>2. CASE Finish(p)
      BY <1>5, <2>2
    <2>3. QED BY <1>9, <2>1, <2>2 DEF Apply
  <1>10. ASSUME NEW p \in Proc, ValidateOk(p)
         PROVE  Goal
    <2>1. CASE p = q
      BY <1>1, <1>2, <1>10, <2>1 DEF ValidateOk, At, ProcState, Promotes
    <2>2. CASE p # q
      BY <1>1, <1>3, <1>10, <2>2 DEF ValidateOk
    <2>3. QED BY <2>1, <2>2
  <1>11. ASSUME NEW p \in Proc, LogPromotion(p) \/ EndLine(p)
         PROVE  Goal
    <2>1. CASE p = q
      BY <1>1, <1>2, <1>11, <2>1 DEF LogPromotion, EndLine, Finish, Become, ProcState
    <2>2. CASE p # q
      BY <1>1, <1>3, <1>11, <2>2 DEF LogPromotion, EndLine, Finish, Become
    <2>3. QED BY <2>1, <2>2
  <1>12. ASSUME NEW p \in Proc,
                Decide(p) \/ ValidateFails(p) \/ RecordPromotion(p) \/ RefreshReport(p) \/ Crash(p)
         PROVE  Goal
    BY <1>5, <1>12 DEF Decide, ValidateFails, EndLine, RecordPromotion, RefreshReport, Crash
  <1>13. CASE Environment \/ UNCHANGED vars
    BY <1>3, <1>13 DEF Environment, Tick, AutonomyChanges, Tear, Mend, CycleLogs, vars
  <1>14. QED
    BY <1>6, <1>7, <1>8, <1>9, <1>10, <1>11, <1>12, <1>13 DEF Next, Begin, Proceed

(* The log is only appended to, by a command that is past the gate if it is governed. *)
LEMMA EvologStep ==
  ASSUME TypeOK, [Next]_vars
  PROVE  \/ UNCHANGED evolog
         \/ \E p \in Proc : proc[p].step = "log" /\ evolog' = Append(evolog, NewEntry(p))
  <1> DEFINE Goal == \/ UNCHANGED evolog
                     \/ \E p \in Proc : proc[p].step = "log" /\ evolog' = Append(evolog, NewEntry(p))
  <1>1. ASSUME NEW p \in Proc, LogPromotion(p)
        PROVE  Goal
    BY <1>1 DEF LogPromotion, At
  <1>2. ASSUME NEW p \in Proc,
               \/ Decide(p) \/ TrustGate(p) \/ Apply(p) \/ ValidateOk(p) \/ ValidateFails(p)
               \/ EndLine(p) \/ RecordPromotion(p) \/ RefreshReport(p) \/ Crash(p)
        PROVE  Goal
    BY <1>2 DEF EndLine, Decide, TrustGate, Apply, ValidateOk, ValidateFails, EndLine, RecordPromotion,
       RefreshReport, Crash
  <1>3. ASSUME NEW p \in Proc, Begin(p)
        PROVE  Goal
    BY <1>3 DEF Begin, BeginDecision, BeginPromoteApproved, BeginPromote, BeginReplay
  <1>4. CASE Environment \/ UNCHANGED vars
    BY <1>4 DEF Environment, Tick, AutonomyChanges, Tear, Mend, CycleLogs, vars
  <1>5. Goal
    BY <1>1, <1>2, <1>3, <1>4 DEF Next, Proceed
  <1>6. QED BY <1>5

LEMMA ClockStep ==
  ASSUME TypeOK, [Next]_vars
  PROVE  clock <= clock'
  <1>1. clock \in Nat
    BY DEF TypeOK
  <1>2. clock' = clock \/ clock' = clock + 1
    BY DEF Next, Begin, Proceed, Environment, vars, BeginDecision, BeginPromoteApproved,
       BeginPromote, BeginReplay, Decide, TrustGate, Apply, ValidateOk, ValidateFails,
       LogPromotion, EndLine,
       RecordPromotion, RefreshReport, Crash, Tick, AutonomyChanges, Tear, Mend, CycleLogs
  <1>3. QED BY <1>1, <1>2

LEMMA InitApproval == Init => ApprovalInv
  <1> SUFFICES ASSUME Init PROVE ApprovalInv
    OBVIOUS
  <1>1. Governed = {}
    BY DEF Init, Governed
  <1>2. \A p \in Proc : ~ Promotes(p)
    BY DEF Init, Idle, Promotes
  <1>3. decisions = {}
    BY DEF Init
  <1>4. QED
    BY <1>1, <1>2, <1>3 DEF ApprovalInv, PromotedUnderStandingApproval

LEMMA StepApproval ==
  ASSUME TypeOK, TypeOK', ApprovalInv, [Next]_vars
  PROVE  ApprovalInv'
  <1>1. clock \in Nat /\ clock' \in Nat /\ clock <= clock'
    BY ClockStep DEF TypeOK
  <1>2. /\ decisions \in SUBSET Record /\ decisions' \in SUBSET Record
        /\ decisions \subseteq decisions'
        /\ \A r \in decisions' : r \in decisions \/ r.at = clock
    BY DecisionsGrow DEF TypeOK
  <1>3. \A r \in decisions' : r.at <= clock'
    <2>1. \A r \in decisions : r.at <= clock /\ r.at \in Nat
      BY <1>2 DEF ApprovalInv, Record
    <2>2. QED BY <1>1, <1>2, <2>1
  <1>4. ASSUME NEW c \in Candidate, NEW t \in Nat, t <= clock, ApprovedIn(decisions, c, t)
        PROVE  ApprovedIn(decisions', c, t)
    BY <1>1, <1>2, <1>4, ApprovedKept
  <1>5. ASSUME NEW p \in Proc, Promotes(p)
        PROVE  /\ proc[p].run \in Candidate /\ proc[p].gatedAt \in Nat /\ proc[p].gatedAt <= clock
               /\ ApprovedIn(decisions, proc[p].run, proc[p].gatedAt)
    BY <1>5, BusyTyped DEF Promotes, ApprovalInv, ProcState
  <1>6. ASSUME NEW q \in Proc, Promotes(q)'
        PROVE  proc'[q].gatedAt <= clock' /\ ApprovedIn(decisions', proc'[q].run, proc'[q].gatedAt)
    <2>1. CASE Promotes(q) /\ proc'[q].run = proc[q].run /\ proc'[q].gatedAt = proc[q].gatedAt
      BY <1>1, <1>4, <1>5, <2>1
    <2>2. CASE /\ TrustGate(q) /\ proc'[q].run = proc[q].run /\ proc'[q].gatedAt = clock
               /\ StandingApproval(proc[q].run) # {}
      <3>1. proc[q].run \in Candidate
        BY <2>2, BusyTyped DEF TrustGate, At
      <3>2. ApprovedIn(decisions, proc[q].run, clock)
        BY <2>2, <3>1, StandingIsApproved DEF ApprovalInv
      <3>3. QED BY <1>1, <1>4, <2>2, <3>1, <3>2
    <2>3. QED BY <1>6, <2>1, <2>2, PromotesStep
  <1>7. ASSUME NEW i \in Governed'
        PROVE  /\ evolog'[i].gatedAt <= clock'
               /\ ApprovedIn(decisions', evolog'[i].run, evolog'[i].gatedAt)
    <2>1. ASSUME i \in Governed, evolog'[i] = evolog[i]
          PROVE  /\ evolog'[i].gatedAt <= clock'
                 /\ ApprovedIn(decisions', evolog'[i].run, evolog'[i].gatedAt)
      <3>1. evolog[i] \in Entry
        BY <2>1 DEF TypeOK, Governed
      <3>2. evolog[i].run \in Candidate /\ evolog[i].gatedAt \in Nat
        BY <3>1 DEF Entry
      <3>3. evolog[i].gatedAt <= clock /\ ApprovedIn(decisions, evolog[i].run, evolog[i].gatedAt)
        BY <2>1 DEF ApprovalInv, PromotedUnderStandingApproval
      <3>4. QED BY <1>1, <1>4, <2>1, <3>2, <3>3
    <2>2. CASE UNCHANGED evolog
      BY <1>7, <2>1, <2>2 DEF Governed
    <2>3. ASSUME NEW p \in Proc, proc[p].step = "log", evolog' = Append(evolog, NewEntry(p))
          PROVE  /\ evolog'[i].gatedAt <= clock'
                 /\ ApprovedIn(decisions', evolog'[i].run, evolog'[i].gatedAt)
      <3> DEFINE e == NewEntry(p)
      <3>1. e.run = proc[p].run /\ e.gatedAt = proc[p].gatedAt
            /\ (e.governed <=> proc[p].cmd = "promote_approved")
        BY Zenon DEF NewEntry
      <3>2. evolog' = Append(evolog, e)
        BY <2>3
      <3> HIDE DEF e
      <3>3. i \in DOMAIN evolog' /\ evolog'[i].governed
        BY <1>7 DEF Governed
      <3>4. evolog \in Seq(Entry)
        BY DEF TypeOK
      <3>5. DOMAIN evolog' = 1 .. (Len(evolog) + 1) /\ DOMAIN evolog = 1 .. Len(evolog)
            /\ Len(evolog) \in Nat
        BY <3>2, <3>4
      <3>6. CASE i = Len(evolog) + 1
        <4>1. evolog'[i] = e
          BY <3>2, <3>4, <3>6
        <4>2. Promotes(p)
          BY <2>3, <3>1, <3>3, <4>1 DEF Promotes
        <4>3. QED
          BY <1>1, <1>4, <1>5, <3>1, <4>1, <4>2
      <3>7. CASE i # Len(evolog) + 1
        <4>1. i \in DOMAIN evolog
          BY <3>3, <3>5, <3>7
        <4>2. evolog'[i] = evolog[i]
          BY <3>2, <3>4, <3>5, <4>1
        <4>3. i \in Governed
          BY <3>3, <4>1, <4>2 DEF Governed
        <4>4. QED BY <2>1, <4>2, <4>3
      <3>8. QED BY <3>6, <3>7
    <2>4. QED BY <2>2, <2>3, EvologStep
  <1>8. QED
    BY <1>3, <1>6, <1>7 DEF ApprovalInv, PromotedUnderStandingApproval

(* The approval invariant holds in every state, whatever the number of operators,
   candidates, crashes and half-written files. *)
THEOREM ApprovalInvariant == Spec => []ApprovalInv
  <1>1. TypeOK /\ ApprovalInv /\ TypeOK' /\ [Next]_vars => ApprovalInv'
    BY StepApproval
  <1>2. QED BY <1>1, InitApproval, TypeCorrect, PTL DEF Spec

(* Governed promotion happens only under a standing approval. *)
THEOREM GovernedPromotionIsApproved == Spec => []PromotedUnderStandingApproval
  <1>1. ApprovalInv => PromotedUnderStandingApproval
    BY DEF ApprovalInv
  <1>2. QED BY <1>1, ApprovalInvariant, PTL
-----------------------------------------------------------------------------
(* Every behaviour of Governance is one of PromotionLedger. *)


(* The three mapped variables depend on decisions, evolog and proc alone. *)
LEMMA StandingSame == UNCHANGED decisions => UNCHANGED standing
  BY DEF standing, Standing, RecordsOf, Latest, NotNewer

LEMMA LedgerSame == UNCHANGED evolog => UNCHANGED ledger
  BY DEF ledger, Governed

LEMMA ClearedSame == UNCHANGED proc => UNCHANGED cleared
  BY DEF cleared, Promotes

(* How the set of cleared candidates follows a step of one process. *)
LEMMA ClearedStep ==
  ASSUME TypeOK, NEW p \in Proc, \A q \in Proc : q # p => proc'[q] = proc[q]
  PROVE  /\ ~ Promotes(p) /\ ~ Promotes(p)' => cleared' = cleared
         /\ Promotes(p) /\ Promotes(p)' /\ proc'[p].run = proc[p].run => cleared' = cleared
         /\ Promotes(p) /\ ~ Promotes(p)' => cleared' \in {cleared, cleared \ {proc[p].run}}
         /\ ~ Promotes(p) /\ Promotes(p)' /\ proc'[p].run \in Candidate
              => cleared' = cleared \cup {proc'[p].run}
  <1> DEFINE Others == {c \in Candidate : \E q \in Proc : q # p /\ proc[q].run = c /\ Promotes(q)}
  <1>1. Others' = Others
    BY DEF Promotes
  <1>2. cleared = Others \cup {c \in Candidate : proc[p].run = c /\ Promotes(p)}
    BY DEF cleared
  <1>3. cleared' = Others' \cup {c \in Candidate : proc'[p].run = c /\ Promotes(p)'}
    BY DEF cleared
  <1> HIDE DEF Others
  <1>4. QED BY <1>1, <1>2, <1>3

(* A new record changes what stands for its candidate and for no other. *)
LEMMA UpsertStanding ==
  ASSUME TypeOK, NEW c \in Candidate, NEW decision, NEW f, Upsert(c, decision, f)
  PROVE  \E s \in SUBSET Decision : standing' = [standing EXCEPT ![c] = s]
  <1>1. \A d \in Candidate : d # c => {r \in decisions' : r.run = d} = {r \in decisions : r.run = d}
    <2>1. CASE UNCHANGED decisions
      BY <2>1
    <2>2. CASE ~ UNCHANGED decisions
      <3> DEFINE s == IF decision = "approve" THEN PromotionState(c, f) ELSE "not read"
                 r == [run |-> c, decision |-> decision, at |-> clock, state |-> s]
      <3>1. decisions' = decisions \cup {r}
        BY <2>2 DEF Upsert
      <3>2. r.run = c
        OBVIOUS
      <3> HIDE DEF r
      <3>3. QED BY <3>1, <3>2
    <2>3. QED BY <2>1, <2>2
  <1>2. ASSUME NEW d \in Candidate, d # c
        PROVE  Standing(d)' = Standing(d)
    <2> DEFINE R == {r \in decisions : r.run = d}
    <2>1. RecordsOf(d) = R /\ RecordsOf(d)' = R
      BY <1>1, <1>2 DEF RecordsOf
    <2>2. \A r \in R : RecordsOf(r.run) = R /\ RecordsOf(r.run)' = R
      <3>1. {r \in decisions' : r.run = d} = R
        BY <2>1 DEF RecordsOf
      <3>2. QED BY <3>1 DEF RecordsOf
    <2> HIDE DEF R
    <2>3. \A r \in R : Latest(r) <=> \A q \in R : NotNewer(q, r)
      BY <2>2 DEF Latest
    <2>4. \A r \in R : Latest(r)' <=> \A q \in R : NotNewer(q, r)
      BY <2>2 DEF Latest
    <2>5. Standing(d) = {x \in Decision : \E r \in R : r.decision = x /\ \A q \in R : NotNewer(q, r)}
      BY <2>1, <2>3 DEF Standing
    <2>6. Standing(d)' = {x \in Decision : \E r \in R : r.decision = x /\ \A q \in R : NotNewer(q, r)}
      BY <2>1, <2>4 DEF Standing
    <2>7. QED BY <2>5, <2>6
  <1>3. Standing(c)' \in SUBSET Decision
    BY DEF Standing
  <1>4. standing' = [standing EXCEPT ![c] = Standing(c)']
    BY <1>2 DEF standing
  <1>5. QED BY <1>3, <1>4

-----------------------------------------------------------------------------
LEMMA InitLedger == Init => Ledger!Init
  <1> SUFFICES ASSUME Init PROVE Ledger!Init
    OBVIOUS
  <1>1. \A c \in Candidate : Standing(c) = {}
    BY DEF Init, Standing, RecordsOf
  <1>2. cleared = {}
    BY DEF Init, Idle, cleared, Promotes
  <1>3. ledger = {}
    BY DEF Init, ledger, Governed
  <1>4. QED BY <1>1, <1>2, <1>3 DEF Ledger!Init, standing

LEMMA StepLedger ==
  ASSUME TypeOK, [Next]_vars
  PROVE  [Ledger!Next]_<<standing, cleared, ledger>>
  <1> DEFINE Past(s) == s.cmd = "promote_approved" /\ s.step \in {"apply", "validate", "log"}
             Same == UNCHANGED <<standing, cleared, ledger>>
             Goal == Ledger!Next \/ Same
  <1>1. proc \in [Proc -> ProcState] /\ \A q \in Proc : proc[q] \in ProcState
    BY DEF TypeOK
  <1>2. Idle.step = "idle"
    BY DEF Idle
  \* A command that ends, or moves on without being cleared before or after.
  <1>3. ASSUME NEW p \in Proc, Finish(p), UNCHANGED evolog, UNCHANGED decisions,
               Promotes(p) => proc[p].run \in Candidate
        PROVE  Goal
    <2>1. /\ \A q \in Proc : q # p => proc'[q] = proc[q]
          /\ proc'[p] = Idle
      BY <1>1, <1>3 DEF Finish, Become
    <2>2. ~ Promotes(p)'
      BY <1>2, <2>1 DEF Promotes
    <2>3. CASE ~ Promotes(p)
      BY <1>3, <2>1, <2>2, <2>3, ClearedStep, StandingSame, LedgerSame
    <2>4. CASE Promotes(p)
      <3>1. cleared' \in {cleared, cleared \ {proc[p].run}}
        BY <2>1, <2>2, <2>4, ClearedStep
      <3>2. CASE cleared' = cleared
        BY <1>3, <3>2, StandingSame, LedgerSame
      <3>3. CASE cleared' = cleared \ {proc[p].run}
        <4>1. Ledger!Lapse(proc[p].run)
          BY <1>3, <3>3, StandingSame, LedgerSame DEF Ledger!Lapse
        <4>2. QED BY <1>3, <2>4, <4>1 DEF Ledger!Next
      <3>4. QED BY <3>1, <3>2, <3>3
    <2>5. QED BY <2>3, <2>4
  <1>4. ASSUME NEW p \in Proc, \A q \in Proc : q # p => proc'[q] = proc[q],
               UNCHANGED evolog, UNCHANGED decisions,
               \/ ~ Promotes(p) /\ ~ Past(proc'[p])
               \/ Promotes(p) /\ Past(proc'[p]) /\ proc'[p].run = proc[p].run
        PROVE  Goal
    <2>1. Promotes(p)' <=> Past(proc'[p])
      BY DEF Promotes
    <2>2. QED BY <1>4, <2>1, ClearedStep, StandingSame, LedgerSame
  <1>5. ASSUME NEW p \in Proc, Begin(p)
        PROVE  Goal
    <2>1. UNCHANGED evolog /\ UNCHANGED decisions
      BY <1>5 DEF Begin, BeginDecision, BeginPromoteApproved, BeginPromote, BeginReplay
    <2>2. ~ Promotes(p)
      BY <1>5 DEF Begin, BeginDecision, BeginPromoteApproved, BeginPromote, BeginReplay, At, Promotes
    <2>3. \A q \in Proc : q # p => proc'[q] = proc[q]
      BY <1>1, <1>5 DEF Begin, BeginDecision, BeginPromoteApproved, BeginPromote, BeginReplay, Become
    <2>4. ~ Past(proc'[p])
      <3> DEFINE Starts == \E s : Become(p, s) /\ (s.step \in {"decide", "gate", "report"} \/ s.cmd = "promote")
      <3>1. ASSUME NEW c, NEW decision, BeginDecision(p, c, decision)
            PROVE  Starts
        <4> DEFINE s == [Idle EXCEPT !.step = "decide", !.cmd = decision, !.run = c,
                                     !.facts = queue'[c]]
        <4>1. s.step = "decide" /\ Become(p, s)
          BY <3>1 DEF BeginDecision, Idle
        <4> HIDE DEF s
        <4>2. QED BY <4>1
      <3>2. ASSUME NEW c, BeginPromoteApproved(p, c)
            PROVE  Starts
        <4> DEFINE s == [Idle EXCEPT !.step = "gate", !.cmd = "promote_approved", !.run = c]
        <4>1. s.step = "gate" /\ Become(p, s)
          BY <3>2 DEF BeginPromoteApproved, Idle
        <4> HIDE DEF s
        <4>2. QED BY <4>1
      <3>3. ASSUME NEW c, BeginPromote(p, c)
            PROVE  Starts
        <4> DEFINE s == [Idle EXCEPT !.step = "apply", !.cmd = "promote", !.run = c]
        <4>1. s.cmd = "promote" /\ Become(p, s)
          BY <3>3 DEF BeginPromote, Idle
        <4> HIDE DEF s
        <4>2. QED BY <4>1
      <3>4. ASSUME NEW c, BeginReplay(p, c)
            PROVE  Starts
        <4> DEFINE s == [Idle EXCEPT !.step = "report", !.run = c]
        <4>1. s.step = "report" /\ Become(p, s)
          BY <3>4 DEF BeginReplay, Idle
        <4> HIDE DEF s
        <4>2. QED BY <4>1
      <3>5. Starts
        BY <1>5, <3>1, <3>2, <3>3, <3>4 DEF Begin
      <3>6. PICK s : Become(p, s) /\ (s.step \in {"decide", "gate", "report"} \/ s.cmd = "promote")
        BY <3>5
      <3>7. QED BY <1>1, <3>6 DEF Become
    <2>5. QED BY <1>4, <2>1, <2>2, <2>3, <2>4
  <1>6. ASSUME NEW p \in Proc, Decide(p)
        PROVE  Goal
    <2>1. proc[p].run \in Candidate
      BY <1>6, BusyTyped DEF Decide, At
    <2>2. ~ Promotes(p)
      BY <1>6 DEF Decide, At, Promotes
    <2>3. UNCHANGED evolog /\ Finish(p)
      BY <1>6 DEF Decide
    <2>4. UNCHANGED cleared
      BY <1>1, <1>2, <2>2, <2>3, ClearedStep DEF Finish, Become, Promotes
    <2>5. CASE UNCHANGED decisions
      BY <2>3, <2>4, <2>5, StandingSame, LedgerSame
    <2>6. CASE ~ UNCHANGED decisions
      <3>1. Upsert(proc[p].run, proc[p].cmd, proc[p].facts)
        BY <1>6, <2>6 DEF Decide
      <3>2. Ledger!Decide(proc[p].run)
        BY <2>1, <2>3, <3>1, UpsertStanding, LedgerSame DEF Ledger!Decide
      <3>3. QED BY <2>1, <2>4, <3>2 DEF Ledger!Next
    <2>7. QED BY <2>5, <2>6
  <1>7. ASSUME NEW p \in Proc, RecordPromotion(p)
        PROVE  Goal
    <2>1. proc[p].run \in Candidate
      BY <1>7, BusyTyped DEF RecordPromotion, At
    <2>2. ~ Promotes(p)
      BY <1>7 DEF RecordPromotion, At, Promotes
    <2>3. UNCHANGED evolog /\ Finish(p)
      BY <1>7 DEF RecordPromotion
    <2>4. UNCHANGED cleared
      BY <1>1, <1>2, <2>2, <2>3, ClearedStep DEF Finish, Become, Promotes
    <2>5. CASE UNCHANGED decisions
      BY <2>3, <2>4, <2>5, StandingSame, LedgerSame
    <2>6. CASE ~ UNCHANGED decisions
      <3>1. Upsert(proc[p].run, "promoted", queue'[proc[p].run])
        BY <1>7, <2>6 DEF RecordPromotion
      <3>2. Ledger!Decide(proc[p].run)
        BY <2>1, <2>3, <3>1, UpsertStanding, LedgerSame DEF Ledger!Decide
      <3>3. QED BY <2>1, <2>4, <3>2 DEF Ledger!Next
    <2>7. QED BY <2>5, <2>6
  <1>8. ASSUME NEW p \in Proc, TrustGate(p)
        PROVE  Goal
    <2>1. proc[p].run \in Candidate /\ ~ Promotes(p) /\ UNCHANGED <<evolog, decisions>>
      BY <1>8, BusyTyped DEF TrustGate, At, Promotes
    <2>2. CASE Finish(p)
      BY <1>3, <2>1, <2>2
    <2>3. CASE ~ Finish(p)
      <3>1. /\ GateAllows(proc[p].run, queue'[proc[p].run])
            /\ proc' = [proc EXCEPT ![p].step = "apply", ![p].gatedAt = clock]
        BY <1>8, <2>3 DEF TrustGate
      <3>2. /\ \A q \in Proc : q # p => proc'[q] = proc[q]
            /\ proc'[p].run = proc[p].run
        BY <1>1, <3>1 DEF ProcState
      <3>3. "approve" \in standing[proc[p].run]
        BY <2>1, <3>1 DEF GateAllows, StandingApproval, standing, Standing, Decision
      <3>4. cleared' \in {cleared, cleared \cup {proc[p].run}}
        BY <2>1, <3>2, ClearedStep
      <3>5. CASE cleared' = cleared
        BY <2>1, <3>5, StandingSame, LedgerSame
      <3>6. CASE cleared' = cleared \cup {proc[p].run}
        <4>1. Ledger!Clear(proc[p].run)
          BY <2>1, <3>3, <3>6, StandingSame, LedgerSame DEF Ledger!Clear
        <4>2. QED BY <2>1, <4>1 DEF Ledger!Next
      <3>7. QED BY <3>4, <3>5, <3>6
    <2>4. QED BY <2>2, <2>3
  <1>9. ASSUME NEW p \in Proc, Apply(p)
        PROVE  Goal
    <2>1. proc[p].run \in Candidate /\ UNCHANGED <<evolog, decisions>>
      BY <1>9, BusyTyped DEF Apply, At
    <2>2. CASE Finish(p)
      BY <1>3, <2>1, <2>2
    <2>3. CASE proc' = [proc EXCEPT ![p].step = "validate", ![p].backup = tree]
      <3>1. /\ \A q \in Proc : q # p => proc'[q] = proc[q]
            /\ proc'[p].run = proc[p].run
            /\ proc'[p].cmd = proc[p].cmd
            /\ proc'[p].step = "validate" /\ proc[p].step = "apply"
        BY <1>1, <1>9, <2>3 DEF ProcState, Apply, At
      <3>2. (Promotes(p) /\ Past(proc'[p])) \/ (~ Promotes(p) /\ ~ Past(proc'[p]))
        BY <3>1 DEF Promotes
      <3>3. QED BY <1>4, <2>1, <3>1, <3>2
    <2>4. QED BY <1>9, <2>2, <2>3 DEF Apply
  <1>10. ASSUME NEW p \in Proc, ValidateOk(p)
         PROVE  Goal
    <2>1. /\ \A q \in Proc : q # p => proc'[q] = proc[q]
          /\ proc'[p].run = proc[p].run
          /\ proc'[p].cmd = proc[p].cmd
          /\ proc'[p].step = "log" /\ proc[p].step = "validate"
      BY <1>1, <1>10 DEF ProcState, ValidateOk, At
    <2>2. (Promotes(p) /\ Past(proc'[p])) \/ (~ Promotes(p) /\ ~ Past(proc'[p]))
      BY <2>1 DEF Promotes
    <2>3. QED BY <1>4, <1>10, <2>1, <2>2 DEF ValidateOk
  <1>11. ASSUME NEW p \in Proc, ValidateFails(p) \/ Crash(p) \/ RefreshReport(p)
         PROVE  Goal
    <2>1. Finish(p) /\ UNCHANGED evolog /\ UNCHANGED decisions
      BY <1>11 DEF ValidateFails, Crash, RefreshReport
    <2>2. Promotes(p) => proc[p].run \in Candidate
      BY BusyTyped DEF Promotes
    <2>3. QED BY <1>3, <2>1, <2>2
  <1>12. ASSUME NEW p \in Proc, LogPromotion(p)
         PROVE  Goal
    <2> DEFINE e == NewEntry(p)
    <2>1. /\ proc[p].run \in Candidate /\ UNCHANGED decisions
          /\ evolog' = Append(evolog, e) /\ evolog \in Seq(Entry)
      BY <1>12, BusyTyped DEF LogPromotion, At, TypeOK
    <2>2. e.run = proc[p].run /\ (e.governed <=> proc[p].cmd = "promote_approved")
      BY Zenon DEF NewEntry
    <2>3. Promotes(p) <=> proc[p].cmd = "promote_approved"
      BY <1>12 DEF LogPromotion, At, Promotes
    <2>4. /\ \A q \in Proc : q # p => proc'[q] = proc[q]
          /\ ~ Promotes(p)'
      BY <1>1, <1>12 DEF LogPromotion, Promotes, ProcState
    <2> HIDE DEF e
    <2>5. CASE ~ Promotes(p)
      <3>1. UNCHANGED ledger
        BY <2>1, <2>2, <2>3, <2>5 DEF ledger, Governed
      <3>2. QED BY <2>1, <2>4, <2>5, <3>1, ClearedStep, StandingSame
    <2>6. CASE Promotes(p)
      <3>1. ledger' = ledger \cup {proc[p].run}
        BY <2>1, <2>2, <2>3, <2>6 DEF ledger, Governed
      <3>2. proc[p].run \in cleared
        BY <2>1, <2>6 DEF cleared
      <3>3. cleared' \in {cleared, cleared \ {proc[p].run}}
        BY <2>4, <2>6, ClearedStep
      <3>4. Ledger!Promote(proc[p].run)
        BY <2>1, <3>1, <3>2, <3>3, StandingSame DEF Ledger!Promote
      <3>5. QED BY <2>1, <3>4 DEF Ledger!Next
    <2>7. QED BY <2>5, <2>6
  <1>16. ASSUME NEW p \in Proc, EndLine(p)
         PROVE  Goal
    <2>1. /\ \A q \in Proc : q # p => proc'[q] = proc[q]
          /\ proc[p].step = "newline" /\ proc'[p].step \in {"record", "idle"}
      BY <1>1, <1>2, <1>16 DEF EndLine, At, Finish, Become, ProcState
    <2>2. ~ Promotes(p) /\ ~ Past(proc'[p])
      BY <2>1 DEF Promotes
    <2>3. QED BY <1>4, <1>16, <2>1, <2>2 DEF EndLine
  <1>13. CASE Environment \/ UNCHANGED vars
    <2>1. UNCHANGED <<decisions, evolog, proc>>
      BY <1>13 DEF Environment, Tick, AutonomyChanges, Tear, Mend, CycleLogs, vars
    <2>2. QED BY <2>1, StandingSame, LedgerSame, ClearedSame
  <1>14. Goal
    BY <1>5, <1>6, <1>7, <1>8, <1>9, <1>10, <1>11, <1>12, <1>13, <1>16 DEF Next, Proceed
  <1>15. QED BY <1>14

(* Governance implements the ledger for any operators, candidates and faults. *)
THEOREM GovernanceRefinesLedger == Spec => LedgerSpec
  <1>1. TypeOK /\ [Next]_vars => [Ledger!Next]_<<standing, cleared, ledger>>
    BY StepLedger
  <1>2. QED BY <1>1, InitLedger, TypeCorrect, PTL DEF Spec, LedgerSpec, Ledger!Spec

-----------------------------------------------------------------------------
(* Labels *)

(* Whatever is known of a candidate, the lifecycle label and the state say the same of what is
   ready, and what is ready is approvable. *)
LEMMA LabelsOfFacts ==
  ASSUME NEW c \in Candidate, NEW f \in Facts
  PROVE  /\ Lifecycle(c, f) = "ready" <=> CandidateState(c, f) = "Ready"
         /\ CandidateState(c, f) = "Ready" => Approvable(c, f)
  <1>1. ClassOf(c) \in Class
    BY ProfileAssumption DEF ClassOf
  <1>2. f.replay \in ReplayStatus
    BY DEF Facts
  <1>3. CASE Lifecycle(c, f) = "ready"
    <2>1. ClassOf(c) = "useful" /\ Has(c, "useful_change") /\ f.replay = "ok" /\ Blockers(c, f) = {}
      BY <1>1, <1>3 DEF Lifecycle, Class, PromotionAllowed
    <2>2. CandidateState(c, f) = "Ready"
      BY <2>1 DEF CandidateState
    <2>3. GateReason(c) \notin {"risk", "cosmetic"} /\ ~ Has(c, "low_score")
      BY <2>1 DEF Blockers, When
    <2>4. ~ Has(c, "high_risk")
      BY <2>1, <2>3 DEF GateReason
    <2>5. Approvable(c, f)
      BY <1>3, <2>1, <2>4 DEF Approvable
    <2>6. QED BY <1>3, <2>2, <2>5
  <1>4. CASE CandidateState(c, f) = "Ready"
    <2>1. ClassOf(c) = "useful" /\ Has(c, "useful_change") /\ f.replay = "ok" /\ Blockers(c, f) = {}
      BY <1>1, <1>4 DEF CandidateState, Class
    <2>2. Lifecycle(c, f) = "ready"
      BY <2>1 DEF Lifecycle, PromotionAllowed
    <2>3. QED BY <1>3, <2>2
  <1>5. QED BY <1>3, <1>4

(* The two labels of every item of the queue file agree on what is ready, in every state. *)
THEOREM LabelsAlwaysAgree == Spec => []LabelsAgree
  <1>1. TypeOK => LabelsAgree
    BY LabelsOfFacts DEF TypeOK, LabelsAgree
  <1>2. QED BY <1>1, TypeCorrect, PTL

-----------------------------------------------------------------------------
(* One operator: what governance promotes is new *)

(* The digest was put in and logged, whether its line can be read or not. *)
Logged(d) == \E i \in DOMAIN evolog : evolog[i].digest = d

(* The inductive form of GovernedPromotionIsNew: no summary is unreadable, only candidates with a
   useful change are approved, an entry is lost only on a line that fails the review, and a command
   past the gate promotes a digest that was never logged. *)
NewInv ==
  /\ torn # "summary"
  /\ \A r \in decisions : r.decision = "approve" => Has(r.run, "useful_change")
  /\ text.lost # {} => text.damaged
  /\ \A p \in Proc : Promotes(p) => ~ Logged(DigestOf(proc[p].run))
  /\ GovernedPromotionIsNew

LEMMA InitNew == Init => NewInv
  BY DEF Init, NewInv, Idle, Promotes, GovernedPromotionIsNew, Governed

(* What shares a line with something else makes that line unreadable. *)
LEMMA LostStep ==
  ASSUME TypeOK, text.lost # {} => text.damaged, [Next]_vars
  PROVE  text'.lost # {} => text'.damaged
  <1>1. text \in Text
    BY DEF TypeOK
  <1>2. ASSUME NEW kind
        PROVE  /\ Written(kind).lost # {} => Written(kind).damaged
               /\ [Written(kind) EXCEPT !.tail = "newline"].lost = Written(kind).lost
               /\ [Written(kind) EXCEPT !.tail = "newline"].damaged = Written(kind).damaged
    <2>1. PICK l : l = text.lost \cup {i \in {Len(evolog) + 1 - 1} : text.tail = "promotion"}
             \cup {i \in {Len(evolog) + 1} : text.tail # "newline" /\ kind = "promotion"}
      OBVIOUS
    <2>2. PICK d : d = (text.damaged \/ text.tail # "newline")
      OBVIOUS
    <2>3. l # {} => d
      <3>1. CASE text.tail = "newline"
        <4>1. l = text.lost
          BY <2>1, <3>1
        <4>2. QED BY <2>2, <4>1
      <3>2. CASE text.tail # "newline"
        BY <2>2, <3>2
      <3>3. QED BY <3>1, <3>2
    <2>4. /\ Written(kind).lost = l
          /\ [Written(kind) EXCEPT !.tail = "newline"].lost = l
      BY <2>1 DEF Written
    <2>5. /\ Written(kind).damaged = (text.damaged \/ text.tail # "newline")
          /\ [Written(kind) EXCEPT !.tail = "newline"].damaged
               = (text.damaged \/ text.tail # "newline")
      BY DEF Written
    <2>6. QED BY <2>2, <2>3, <2>4, <2>5
  <1>3. ASSUME NEW p \in Proc, LogPromotion(p)
        PROVE  text'.lost # {} => text'.damaged
    BY <1>2, <1>3 DEF LogPromotion
  <1>4. ASSUME NEW p \in Proc, EndLine(p)
        PROVE  text'.lost # {} => text'.damaged
    BY <1>1, <1>4 DEF EndLine, Text
  <1>5. ASSUME CycleLogs
        PROVE  text'.lost # {} => text'.damaged
    BY <1>2, <1>5 DEF CycleLogs
  <1>6. CASE UNCHANGED text
    BY <1>6
  <1>7. QED
    BY <1>3, <1>4, <1>5, <1>6 DEF Next, Begin, Proceed, Environment, vars, BeginDecision,
       BeginPromoteApproved, BeginPromote, BeginReplay, Decide, TrustGate, Apply, ValidateOk,
       ValidateFails, RecordPromotion, RefreshReport, Crash, Tick, AutonomyChanges, Tear, Mend

(* No summary is torn where none is among the faults. *)
LEMMA TornStep ==
  ASSUME "summary" \notin Faults, torn # "summary", [Next]_vars
  PROVE  torn' # "summary"
  BY DEF Next, Begin, Proceed, Environment, vars, BeginDecision, BeginPromoteApproved, BeginPromote,
     BeginReplay, Decide, TrustGate, Apply, ValidateOk, ValidateFails, LogPromotion, EndLine,
     RecordPromotion, RefreshReport, Crash, Tick, AutonomyChanges, Tear, Mend, CycleLogs

(* Every approval that is added is of an approvable item. *)
LEMMA ApprovalStep ==
  ASSUME TypeOK, [Next]_vars, NEW r \in decisions', r \notin decisions, r.decision = "approve"
  PROVE  Has(r.run, "useful_change")
  <1>1. ASSUME NEW c, NEW decision, NEW f, Upsert(c, decision, f)
        PROVE  r.run = c /\ decision = "approve"
    <2> DEFINE s == IF decision = "approve" THEN PromotionState(c, f) ELSE "not read"
               new == [run |-> c, decision |-> decision, at |-> clock, state |-> s]
    <2>1. new.run = c /\ new.decision = decision
      OBVIOUS
    <2>2. decisions' = decisions \/ decisions' = decisions \cup {new}
      BY <1>1 DEF Upsert
    <2> HIDE DEF new
    <2>3. QED BY <2>1, <2>2
  <1>2. ASSUME NEW p \in Proc, Decide(p)
        PROVE  Has(r.run, "useful_change")
    BY <1>1, <1>2 DEF Decide, Approvable
  <1>3. ASSUME NEW p \in Proc, RecordPromotion(p)
        PROVE  FALSE
    BY <1>1, <1>3 DEF RecordPromotion
  <1>4. CASE UNCHANGED decisions
    BY <1>4
  <1>5. QED
    BY <1>2, <1>3, <1>4 DEF Next, Begin, Proceed, Environment, vars, BeginDecision,
       BeginPromoteApproved, BeginPromote, BeginReplay, TrustGate, Apply, ValidateOk,
       ValidateFails, LogPromotion, EndLine, RefreshReport, Crash, Tick, AutonomyChanges, Tear, Mend, CycleLogs

(* The gate opens only for a digest that was never logged: while a line of the log cannot be
   read no review is made, and no candidate has a replay to show. *)
LEMMA GateSeesLog ==
  ASSUME TypeOK, NewInv, NEW p \in Proc, TrustGate(p), Promotes(p)'
  PROVE  ~ Logged(DigestOf(proc[p].run))
  <1> DEFINE c == proc[p].run
             f == queue'[c]
  <1>1. c \in Candidate
    BY BusyTyped DEF TrustGate, At
  <1>2. GateAllows(c, f)
    <2>1. CASE Finish(p)
      <3>1. proc'[p] = Idle
        BY <2>1 DEF TypeOK, Finish, Become
      <3>2. QED BY <3>1 DEF Promotes, Idle
    <2>2. QED BY <2>1 DEF TrustGate
  <1>3. f = FactsNow(c)
    BY <1>1 DEF TrustGate, RefreshQueue, Refreshed, NewInv
  <1>4. f.promoted = Retained(DigestOf(c))
    <2>1. FactsNow(c).promoted = Retained(DigestOf(c))
      BY Zenon DEF FactsNow
    <2>2. QED BY <1>3, <2>1, Zenon
  <1>9. text.damaged => f.replay = "unknown"
    <2>1. FactsNow(c).replay = IF torn = "replay" \/ text.damaged THEN "unknown" ELSE RebuiltReport[c]
      BY Zenon DEF FactsNow
    <2>2. QED BY <1>3, <2>1
  <1> HIDE DEF f
  <1>5. f.replay = "ok" /\ ClassOf(c) = "useful" /\ Lifecycle(c, f) # "already_promoted"
    BY <1>2 DEF GateAllows
  <1>6. Has(c, "useful_change")
    <2>1. PICK r \in StandingApproval(c) : TRUE
      BY <1>2 DEF GateAllows
    <2>2. r \in decisions /\ r.run = c /\ r.decision = "approve"
      BY <2>1 DEF StandingApproval, RecordsOf
    <2>3. QED BY <2>2 DEF NewInv
  <1>7. ~ f.promoted
    BY <1>5, <1>6 DEF Lifecycle, Blockers, When
  <1>10. text.lost = {}
    BY <1>5, <1>9 DEF NewInv
  <1>11. Readable = DOMAIN evolog
    BY <1>10 DEF Readable
  <1>8. QED BY <1>4, <1>7, <1>11 DEF Retained, Logged

LEMMA StepNew ==
  ASSUME TypeOK, NEW o, Proc = {o}, "summary" \notin Faults, NewInv, [Next]_vars
  PROVE  NewInv'
  <1>1. torn' # "summary"
    BY TornStep DEF NewInv
  <1>2. \A r \in decisions' : r.decision = "approve" => Has(r.run, "useful_change")
    BY ApprovalStep DEF NewInv
  <1>3. ASSUME NEW p \in Proc, Promotes(p)'
        PROVE  ~ Logged(DigestOf(proc[p].run))'
    <2>1. proc'[p].run = proc[p].run /\ (Promotes(p) \/ TrustGate(p))
      BY <1>3, PromotesStep
    <2>2. ~ Logged(DigestOf(proc[p].run))
      BY <1>3, <2>1, GateSeesLog DEF NewInv
    <2>3. UNCHANGED evolog
      <3>1. ASSUME NEW q \in Proc, LogPromotion(q)
            PROVE  FALSE
        <4>1. q = p
          OBVIOUS
        <4>2. proc'[p].step = "newline"
          BY <3>1, <4>1 DEF LogPromotion, TypeOK, ProcState
        <4>3. QED BY <1>3, <4>2 DEF Promotes
      <3>2. QED
        BY <3>1 DEF Next, Begin, Proceed, Environment, vars, BeginDecision, BeginPromoteApproved,
           BeginPromote, BeginReplay, Decide, TrustGate, Apply, ValidateOk, ValidateFails,
           EndLine, RecordPromotion, RefreshReport, Crash, Tick, AutonomyChanges, Tear, Mend, CycleLogs
    <2>4. QED BY <2>1, <2>2, <2>3 DEF Logged
  <1>4. GovernedPromotionIsNew'
    <2>1. CASE UNCHANGED evolog
      BY <2>1 DEF NewInv, GovernedPromotionIsNew, Governed
    <2>2. ASSUME NEW p \in Proc, proc[p].step = "log", evolog' = Append(evolog, NewEntry(p))
          PROVE  GovernedPromotionIsNew'
      <3>1. PICK e : e = NewEntry(p)
        OBVIOUS
      <3>2. e.digest = DigestOf(proc[p].run) /\ (e.governed <=> proc[p].cmd = "promote_approved")
        BY <3>1, Zenon DEF NewEntry
      <3>3. evolog \in Seq(Entry) /\ evolog' = Append(evolog, e)
        BY <2>2, <3>1 DEF TypeOK
      <3>4. /\ DOMAIN evolog' = DOMAIN evolog \cup {Len(evolog) + 1}
            /\ \A i \in DOMAIN evolog : evolog'[i] = evolog[i]
            /\ evolog'[Len(evolog) + 1] = e
            /\ \A i \in DOMAIN evolog' : ~ (Len(evolog) + 1 < i) /\ i \in Nat
            /\ DOMAIN evolog = 1 .. Len(evolog) /\ Len(evolog) \in Nat
        BY <3>3
      <3> SUFFICES ASSUME NEW j \in DOMAIN evolog', evolog'[j].governed,
                          NEW i \in DOMAIN evolog', i < j
                   PROVE  evolog'[i].digest # evolog'[j].digest
        BY DEF GovernedPromotionIsNew, Governed
      <3>5. i \in DOMAIN evolog
        BY <3>4
      <3>6. CASE j = Len(evolog) + 1
        <4>1. Promotes(p)
          BY <2>2, <3>2, <3>4, <3>6 DEF Promotes
        <4>2. \A k \in DOMAIN evolog : evolog[k].digest # e.digest
          BY <3>2, <4>1 DEF NewInv, Logged
        <4>3. QED BY <3>4, <3>5, <3>6, <4>2
      <3>7. CASE j # Len(evolog) + 1
        BY <3>4, <3>5, <3>7 DEF NewInv, GovernedPromotionIsNew, Governed
      <3>8. QED BY <3>6, <3>7
    <2>3. QED BY <2>1, <2>2, EvologStep
  <1>6. text'.lost # {} => text'.damaged
    BY LostStep DEF NewInv
  <1>5. QED BY <1>1, <1>2, <1>3, <1>4, <1>6 DEF NewInv

(* One operator and readable summaries: a governed promotion is never of a digest that was logged
   before, whatever died half way, even between an entry and its newline, was promoted past the
   gate or approved meanwhile. *)
THEOREM GovernedPromotionAlwaysNew ==
  ASSUME NEW o, Proc = {o}, "summary" \notin Faults
  PROVE  Spec => []GovernedPromotionIsNew
  <1>1. TypeOK /\ NewInv /\ [Next]_vars => NewInv'
    BY StepNew
  <1>2. NewInv => GovernedPromotionIsNew
    BY DEF NewInv
  <1>3. QED BY <1>1, <1>2, InitNew, TypeCorrect, PTL DEF Spec

-----------------------------------------------------------------------------
(* One operator: the tree and the log *)

(* Every entry of a digest, on a line that can be read or not. *)
AllEntries(d) == {i \in DOMAIN evolog : evolog[i].digest = d}

(* A copy of the digest is in the tree that is not in the log yet. *)
Pending(p, d) == proc[p].step \in {"validate", "log"} /\ DigestOf(proc[p].run) = d

(* A death has left the last line of the log without its newline. *)
LeftOpen(p) == text.tail # "newline" /\ proc[p].step # "newline"

Unit(condition) == IF condition THEN 1 ELSE 0

(* How the deaths of one operator's commands are spent: a copy nobody logged, or a line left open,
   which in the end costs two entries.  Until a validation ends, the backup is the tree without the
   copy that was added. *)
TreeInv(o) ==
  /\ IsFiniteSet(text.lost)
  /\ \A d \in Digest :
       LET logged == Cardinality(AllEntries(d)) + Unit(Pending(o, d))
       IN /\ logged <= tree[d]
          /\ 2 * tree[d] + Cardinality(text.lost) + 2 * Unit(LeftOpen(o)) <= 2 * logged + 2 * crashes
  /\ proc[o].step = "validate" =>
       \A d \in Digest : tree[d] = proc[o].backup[d] + Unit(d = DigestOf(proc[o].run))

LEMMA UnitType == \A c \in BOOLEAN : Unit(c) \in {0, 1}
  BY DEF Unit

LEMMA PromotingCount ==
  ASSUME NEW o, Proc = {o}, NEW d
  PROVE  Cardinality(Promoting(d)) = Unit(Pending(o, d))
  <1>1. Promoting(d) = IF Pending(o, d) THEN {o} ELSE {}
    BY DEF Promoting, Pending
  <1>2. QED BY <1>1, FS_EmptySet, FS_Singleton DEF Unit

LEMMA EntriesFinite ==
  ASSUME TypeOK, NEW d
  PROVE  IsFiniteSet(AllEntries(d)) /\ Cardinality(AllEntries(d)) \in Nat
  <1>1. DOMAIN evolog = 1 .. Len(evolog) /\ Len(evolog) \in Nat
    BY DEF TypeOK
  <1>2. IsFiniteSet(DOMAIN evolog)
    BY <1>1, FS_Interval
  <1>3. IsFiniteSet(AllEntries(d))
    BY <1>2, FS_Subset DEF AllEntries
  <1>4. QED BY <1>3, FS_CardinalityType

LEMMA EntriesAppend ==
  ASSUME TypeOK, NEW d, NEW p, evolog' = Append(evolog, NewEntry(p))
  PROVE  Cardinality(AllEntries(d)') =
           Cardinality(AllEntries(d)) + Unit(DigestOf(proc[p].run) = d)
  <1>1. PICK e : e = NewEntry(p)
    OBVIOUS
  <1>2. e.digest = DigestOf(proc[p].run)
    BY <1>1, Zenon DEF NewEntry
  <1>3. PICK n : n = Len(evolog) + 1
    OBVIOUS
  <1>4. /\ DOMAIN evolog' = DOMAIN evolog \cup {n} /\ n \notin DOMAIN evolog
        /\ evolog'[n] = e /\ \A i \in DOMAIN evolog : evolog'[i] = evolog[i]
    BY <1>1, <1>3 DEF TypeOK
  <1>5. AllEntries(d)' = IF e.digest = d THEN AllEntries(d) \cup {n} ELSE AllEntries(d)
    BY <1>4 DEF AllEntries
  <1>6. n \notin AllEntries(d)
    BY <1>4 DEF AllEntries
  <1>7. IsFiniteSet(AllEntries(d))
    BY EntriesFinite
  <1>8. Cardinality(AllEntries(d) \cup {n}) = Cardinality(AllEntries(d)) + 1
    BY <1>6, <1>7, FS_AddElement
  <1>9. Cardinality(AllEntries(d)) \in Nat
    BY EntriesFinite
  <1>10. QED BY <1>2, <1>5, <1>8, <1>9 DEF Unit

(* Taking at most one element into a finite set adds at most one to its size. *)
LEMMA AtMostOneMore ==
  ASSUME NEW S, IsFiniteSet(S), NEW x, NEW c \in BOOLEAN, NEW T, T = S \cup {i \in {x} : c}
  PROVE  IsFiniteSet(T) /\ Cardinality(S) \in Nat /\ Cardinality(T) \in Nat
         /\ Cardinality(T) <= Cardinality(S) + Unit(c)
  <1>1. Cardinality(S) \in Nat
    BY FS_CardinalityType
  <1>2. CASE c /\ x \notin S
    <2>1. T = S \cup {x}
      BY <1>2
    <2>2. QED BY <1>1, <1>2, <2>1, FS_AddElement DEF Unit
  <1>3. CASE ~ (c /\ x \notin S)
    <2>1. T = S
      BY <1>3
    <2>2. IsFiniteSet(T) /\ Cardinality(T) = Cardinality(S)
      BY <2>1, Zenon
    <2>3. Unit(c) \in Nat
      BY DEF Unit
    <2>4. QED BY <1>1, <2>2, <2>3
  <1>4. QED BY <1>2, <1>3

(* What is appended costs at most two entries, and none after a newline. *)
LEMMA WrittenCost ==
  ASSUME TypeOK, IsFiniteSet(text.lost), NEW kind \in {"promotion", "cycle"}
  PROVE  /\ IsFiniteSet(Written(kind).lost)
         /\ Cardinality(text.lost) \in Nat /\ Cardinality(Written(kind).lost) \in Nat
         /\ Cardinality(Written(kind).lost) <=
              Cardinality(text.lost) + 2 * Unit(text.tail # "newline")
         /\ Written(kind).tail = kind
         /\ [Written(kind) EXCEPT !.tail = "newline"].tail = "newline"
         /\ [Written(kind) EXCEPT !.tail = "newline"].lost = Written(kind).lost
  <1> DEFINE a == text.tail = "promotion"
             b == text.tail # "newline" /\ kind = "promotion"
  <1>1. PICK A : A = text.lost \cup {i \in {Len(evolog) + 1 - 1} : a}
    OBVIOUS
  <1>2. PICK B : B = A \cup {i \in {Len(evolog) + 1} : b}
    OBVIOUS
  <1>3. /\ Written(kind).lost = B
        /\ Written(kind).tail = kind
        /\ [Written(kind) EXCEPT !.tail = "newline"].tail = "newline"
        /\ [Written(kind) EXCEPT !.tail = "newline"].lost = Written(kind).lost
    BY <1>1, <1>2 DEF Written
  <1>4. /\ IsFiniteSet(A) /\ Cardinality(text.lost) \in Nat /\ Cardinality(A) \in Nat
        /\ Cardinality(A) <= Cardinality(text.lost) + Unit(a)
    BY <1>1, AtMostOneMore
  <1>5. /\ IsFiniteSet(B) /\ Cardinality(B) \in Nat /\ Cardinality(B) <= Cardinality(A) + Unit(b)
    BY <1>2, <1>4, AtMostOneMore
  <1>6. Unit(a) + Unit(b) <= 2 * Unit(text.tail # "newline")
    BY DEF Unit
  <1>7. Unit(a) \in {0, 1} /\ Unit(b) \in {0, 1} /\ Unit(text.tail # "newline") \in {0, 1}
    BY DEF Unit
  <1>8. QED BY <1>3, <1>4, <1>5, <1>6, <1>7

LEMMA InitTree == ASSUME NEW o \in Proc, Init, TypeOK PROVE TreeInv(o)
  <1>1. text.lost = {} /\ text.tail = "newline" /\ crashes = 0 /\ proc[o].step = "idle"
    BY DEF Init, Idle
  <1>2. IsFiniteSet(text.lost) /\ Cardinality(text.lost) = 0 /\ ~ LeftOpen(o)
    BY <1>1, FS_EmptySet DEF LeftOpen
  <1>3. ASSUME NEW d \in Digest
        PROVE  Cardinality(AllEntries(d)) = 0 /\ ~ Pending(o, d) /\ tree[d] = 0
    <2>1. AllEntries(d) = {}
      BY DEF Init, AllEntries
    <2>2. QED BY <1>1, <2>1, FS_EmptySet DEF Pending, Init
  <1>4. QED BY <1>1, <1>2, <1>3 DEF TreeInv, Unit

(* What TreeInv says of one digest, with everything typed. *)
LEMMA TreeOfDigest ==
  ASSUME TypeOK, NEW o \in Proc, TreeInv(o), NEW d \in Digest
  PROVE  /\ Cardinality(AllEntries(d)) \in Nat /\ tree[d] \in Nat /\ crashes \in Nat
         /\ Cardinality(text.lost) \in Nat
         /\ Cardinality(AllEntries(d)) + Unit(Pending(o, d)) <= tree[d]
         /\ 2 * tree[d] + Cardinality(text.lost) + 2 * Unit(LeftOpen(o)) <=
              2 * (Cardinality(AllEntries(d)) + Unit(Pending(o, d))) + 2 * crashes
         /\ Unit(Pending(o, d)) \in {0, 1} /\ Unit(LeftOpen(o)) \in {0, 1}
  <1>1. Unit(Pending(o, d)) \in {0, 1} /\ Unit(LeftOpen(o)) \in {0, 1}
    BY DEF Unit
  <1>2. Cardinality(text.lost) \in Nat
    BY FS_CardinalityType DEF TreeInv
  <1>3. tree[d] \in Nat /\ crashes \in Nat
    BY DEF TypeOK
  <1>4. QED BY <1>1, <1>2, <1>3, EntriesFinite DEF TreeInv

(* Steps that leave the tree and the log alone: what was pending still is, unless a death is
   counted, and so is a line whose newline is still to come. *)
LEMMA TreeUntouched ==
  ASSUME TypeOK, TypeOK', NEW o \in Proc, TreeInv(o), UNCHANGED <<tree, evolog, text>>,
         \/ /\ crashes' = crashes
            /\ proc[o].step \in {"validate", "log"} => proc'[o].step = "log" /\ proc'[o].run = proc[o].run
            /\ proc[o].step # "newline"
         \/ crashes' = crashes + 1
         \/ UNCHANGED <<proc, crashes>>,
         UNCHANGED proc \/ proc'[o].step # "validate",
         proc'[o].step = "log" => proc[o].step \in {"validate", "log"} /\ proc'[o].run = proc[o].run
  PROVE  TreeInv(o)'
  <1>1. ASSUME NEW d \in Digest
        PROVE  LET logged == Cardinality(AllEntries(d)') + Unit(Pending(o, d)')
               IN /\ logged <= tree'[d]
                  /\ 2 * tree'[d] + Cardinality(text'.lost) + 2 * Unit(LeftOpen(o)')
                       <= 2 * logged + 2 * crashes'
    <2>1. AllEntries(d)' = AllEntries(d)
      BY DEF AllEntries
    <2>2. CASE UNCHANGED <<proc, crashes>>
      BY <2>1, <2>2, TreeOfDigest DEF Pending, LeftOpen
    <2>3. CASE /\ crashes' = crashes /\ ~ UNCHANGED proc
               /\ proc[o].step \in {"validate", "log"} =>
                    proc'[o].step = "log" /\ proc'[o].run = proc[o].run
               /\ proc[o].step # "newline"
      <3>1. Pending(o, d)' <=> Pending(o, d)
        BY <2>3 DEF Pending
      <3>2. Unit(LeftOpen(o)') <= Unit(LeftOpen(o)) /\ Unit(LeftOpen(o)') \in {0, 1}
        BY <2>3 DEF LeftOpen, Unit
      <3>3. Unit(Pending(o, d)') = Unit(Pending(o, d))
        BY <3>1 DEF Unit
      <3>4. QED BY <2>1, <2>3, <3>2, <3>3, TreeOfDigest
    <2>4. CASE crashes' = crashes + 1 /\ ~ UNCHANGED proc
      <3>1. Unit(Pending(o, d)') <= Unit(Pending(o, d)) /\ Unit(Pending(o, d)') \in {0, 1}
        BY <2>4 DEF Pending, Unit
      <3>2. CASE proc[o].step = "newline"
        <4>1. ~ Pending(o, d) /\ ~ LeftOpen(o)
          BY <3>2 DEF Pending, LeftOpen
        <4>2. Unit(LeftOpen(o)') \in {0, 1} /\ Unit(LeftOpen(o)) = 0 /\ Unit(Pending(o, d)) = 0
          BY <4>1 DEF Unit
        <4>3. QED BY <2>1, <2>4, <3>1, <4>2, TreeOfDigest
      <3>3. CASE proc[o].step # "newline"
        <4>1. Unit(LeftOpen(o)') <= Unit(LeftOpen(o)) /\ Unit(LeftOpen(o)') \in {0, 1}
          BY <3>3 DEF LeftOpen, Unit
        <4>2. QED BY <2>1, <2>4, <3>1, <4>1, TreeOfDigest
      <3>4. QED BY <3>2, <3>3
    <2>5. CASE crashes' = crashes + 1 /\ UNCHANGED proc
      <3>1. (Pending(o, d)' <=> Pending(o, d)) /\ (LeftOpen(o)' <=> LeftOpen(o))
        BY <2>5 DEF Pending, LeftOpen
      <3>2. Unit(Pending(o, d)') = Unit(Pending(o, d)) /\ Unit(LeftOpen(o)') = Unit(LeftOpen(o))
        BY <3>1 DEF Unit
      <3>3. QED BY <2>1, <2>5, <3>2, TreeOfDigest
    <2>6. QED BY <2>2, <2>3, <2>4, <2>5
  <1>2. ASSUME proc'[o].step = "validate", NEW d \in Digest
        PROVE  tree'[d] = proc'[o].backup[d] + Unit(d = DigestOf(proc'[o].run))
    BY <1>2 DEF TreeInv
  <1>3. IsFiniteSet(text'.lost)
    BY DEF TreeInv
  <1>4. QED BY <1>1, <1>2, <1>3 DEF TreeInv

LEMMA StepTree ==
  ASSUME TypeOK, TypeOK', NEW o, Proc = {o}, TreeInv(o), [Next]_vars
  PROVE  TreeInv(o)'
  <1>1. /\ proc \in [Proc -> ProcState] /\ proc[o] \in ProcState /\ o \in Proc
        /\ tree \in [Digest -> Nat] /\ crashes \in Nat /\ Idle.step = "idle" /\ text \in Text
    BY DEF TypeOK, Idle
  <1>2. IsFiniteSet(text.lost) /\ Cardinality(text.lost) \in Nat
    BY FS_CardinalityType DEF TreeInv
  <1>3. ASSUME NEW s, Become(o, s), s.step \notin {"validate", "log"},
               UNCHANGED <<tree, evolog, text, crashes>>,
               proc[o].step \notin {"validate", "log", "newline"}
        PROVE  TreeInv(o)'
    <2>1. proc'[o] = s
      BY <1>1, <1>3 DEF Become
    <2>2. QED BY <1>3, <2>1, TreeUntouched
  <1>4. ASSUME NEW p \in Proc, Begin(p)
        PROVE  TreeInv(o)'
    <2>1. p = o /\ proc[o].step = "idle" /\ UNCHANGED <<tree, evolog, text, crashes>>
      BY <1>4 DEF Begin, BeginDecision, BeginPromoteApproved, BeginPromote, BeginReplay, At
    <2>2. \E s : Become(o, s) /\ s.step \notin {"validate", "log"}
      <3>1. PICK c \in Candidate :
              \/ \E decision \in {"approve", "defer", "reject"} : BeginDecision(o, c, decision)
              \/ BeginPromoteApproved(o, c) \/ BeginPromote(o, c) \/ BeginReplay(o, c)
        BY <1>4, <2>1 DEF Begin
      <3>2. /\ [Idle EXCEPT !.step = "gate", !.cmd = "promote_approved", !.run = c].step = "gate"
            /\ [Idle EXCEPT !.step = "apply", !.cmd = "promote", !.run = c].step = "apply"
            /\ [Idle EXCEPT !.step = "report", !.run = c].step = "report"
            /\ \A decision, f : [Idle EXCEPT !.step = "decide", !.cmd = decision, !.run = c,
                                            !.facts = f].step = "decide"
        BY DEF Idle
      <3>3. QED BY <3>1, <3>2 DEF BeginDecision, BeginPromoteApproved, BeginPromote, BeginReplay
    <2>3. QED BY <1>3, <2>1, <2>2
  <1>5. ASSUME NEW p \in Proc, Decide(p) \/ RecordPromotion(p) \/ RefreshReport(p)
        PROVE  TreeInv(o)'
    <2>1. p = o /\ proc[o].step \in {"decide", "record", "report"} /\ Become(o, Idle)
          /\ UNCHANGED <<tree, evolog, text, crashes>>
      BY <1>5 DEF Decide, RecordPromotion, RefreshReport, At, Finish
    <2>2. QED BY <1>1, <1>3, <2>1
  <1>6. ASSUME NEW p \in Proc, TrustGate(p)
        PROVE  TreeInv(o)'
    <2>1. p = o /\ proc[o].step = "gate" /\ UNCHANGED <<tree, evolog, text, crashes>>
      BY <1>6 DEF TrustGate, At
    <2>2. proc'[o].step \in {"apply", "idle"}
      BY <1>1, <1>6, <2>1 DEF TrustGate, Finish, Become, ProcState
    <2>3. QED BY <2>1, <2>2, TreeUntouched
  <1>7. ASSUME NEW p \in Proc, Apply(p)
        PROVE  TreeInv(o)'
    <2> DEFINE D == DigestOf(proc[o].run)
    <2>1. p = o /\ proc[o].step = "apply" /\ UNCHANGED <<evolog, text, crashes>>
      BY <1>7 DEF Apply, At
    <2>2. CASE Become(o, Idle) /\ UNCHANGED tree
      BY <1>1, <1>3, <2>1, <2>2
    <2>3. CASE /\ tree' = [tree EXCEPT ![D] = @ + 1]
               /\ proc' = [proc EXCEPT ![o].step = "validate", ![o].backup = tree]
      <3>1. /\ proc'[o].step = "validate" /\ proc'[o].run = proc[o].run
            /\ proc'[o].backup = tree
        BY <1>1, <2>3 DEF ProcState
      <3>2. \A d \in Digest : tree'[d] = tree[d] + Unit(d = D)
        BY <1>1, <2>3 DEF Unit
      <3>3. ASSUME NEW d \in Digest
            PROVE  LET logged == Cardinality(AllEntries(d)') + Unit(Pending(o, d)')
                   IN /\ logged <= tree'[d]
                      /\ 2 * tree'[d] + Cardinality(text'.lost) + 2 * Unit(LeftOpen(o)')
                           <= 2 * logged + 2 * crashes'
        <4>1. AllEntries(d)' = AllEntries(d)
          BY <2>1 DEF AllEntries
        <4>2. Unit(Pending(o, d)) = 0
          BY <2>1 DEF Pending, Unit
        <4>3. Unit(Pending(o, d)') = Unit(d = D) /\ Unit(d = D) \in {0, 1}
          BY <3>1 DEF Pending, Unit
        <4>4. LeftOpen(o)' <=> LeftOpen(o)
          BY <2>1, <3>1 DEF LeftOpen
        <4>5. Unit(LeftOpen(o)') = Unit(LeftOpen(o))
          BY <4>4 DEF Unit
        <4>6. QED BY <2>1, <3>2, <4>1, <4>2, <4>3, <4>5, TreeOfDigest
      <3>4. QED BY <1>2, <2>1, <3>1, <3>2, <3>3 DEF TreeInv
    <2>4. QED BY <1>7, <2>1, <2>2, <2>3 DEF Apply, Finish
  <1>8. ASSUME NEW p \in Proc, ValidateOk(p)
        PROVE  TreeInv(o)'
    <2>1. /\ p = o /\ proc[o].step = "validate" /\ UNCHANGED <<tree, evolog, text, crashes>>
          /\ proc'[o].step = "log" /\ proc'[o].run = proc[o].run
      BY <1>1, <1>8 DEF ValidateOk, At, ProcState
    <2>2. QED BY <2>1, TreeUntouched
  <1>9. ASSUME NEW p \in Proc, ValidateFails(p)
        PROVE  TreeInv(o)'
    <2> DEFINE D == DigestOf(proc[o].run)
    <2>1. /\ p = o /\ proc[o].step = "validate" /\ UNCHANGED <<evolog, text, crashes>>
          /\ tree' = RestoredTree(o) /\ proc'[o].step = "idle"
      BY <1>1, <1>9 DEF ValidateFails, At, Finish, Become
    <2>2. ASSUME NEW d \in Digest
          PROVE  tree'[d] = tree[d] - Unit(d = D) /\ Unit(d = D) \in {0, 1}
      <3>1. tree[d] = proc[o].backup[d] + Unit(d = D)
        BY <1>1, <2>1 DEF TreeInv
      <3>2. proc[o].backup[d] \in Nat
        BY <1>1 DEF ProcState
      <3>3. tree'[d] = IF FileOf[d] = FileOf[D] THEN proc[o].backup[d] ELSE tree[d]
        BY <2>1 DEF RestoredTree
      <3>4. FileOf[d] # FileOf[D] => Unit(d = D) = 0
        BY DEF Unit
      <3>5. Unit(d = D) \in {0, 1}
        BY DEF Unit
      <3>6. QED BY <3>1, <3>2, <3>3, <3>4, <3>5
    <2>3. ASSUME NEW d \in Digest
          PROVE  LET logged == Cardinality(AllEntries(d)') + Unit(Pending(o, d)')
                 IN /\ logged <= tree'[d]
                    /\ 2 * tree'[d] + Cardinality(text'.lost) + 2 * Unit(LeftOpen(o)')
                         <= 2 * logged + 2 * crashes'
      <3>1. AllEntries(d)' = AllEntries(d)
        BY <2>1 DEF AllEntries
      <3>2. Unit(Pending(o, d)) = Unit(d = D) /\ Unit(Pending(o, d)') = 0
        BY <2>1 DEF Pending, Unit
      <3>3. Unit(LeftOpen(o)') = Unit(LeftOpen(o))
        BY <2>1 DEF LeftOpen, Unit
      <3>4. QED BY <2>1, <2>2, <3>1, <3>2, <3>3, TreeOfDigest
    <2>4. QED BY <1>2, <2>1, <2>3 DEF TreeInv
  <1>10. ASSUME NEW p \in Proc, LogPromotion(p)
         PROVE  TreeInv(o)'
    <2>1. /\ p = o /\ proc[o].step = "log" /\ UNCHANGED <<tree, crashes>>
          /\ evolog' = Append(evolog, NewEntry(o)) /\ proc'[o].step = "newline"
          /\ text' = Written("promotion")
      BY <1>1, <1>10 DEF LogPromotion, At, ProcState
    <2>2. /\ IsFiniteSet(text'.lost) /\ Cardinality(text'.lost) \in Nat
          /\ Cardinality(text'.lost) <= Cardinality(text.lost) + 2 * Unit(text.tail # "newline")
      BY <1>2, <2>1, WrittenCost
    <2>3. Unit(text.tail # "newline") = Unit(LeftOpen(o)) /\ Unit(LeftOpen(o)') = 0
      BY <2>1 DEF LeftOpen, Unit
    <2>4. ASSUME NEW d \in Digest
          PROVE  LET logged == Cardinality(AllEntries(d)') + Unit(Pending(o, d)')
                 IN /\ logged <= tree'[d]
                    /\ 2 * tree'[d] + Cardinality(text'.lost) + 2 * Unit(LeftOpen(o)')
                         <= 2 * logged + 2 * crashes'
      <3>1. Cardinality(AllEntries(d)') =
              Cardinality(AllEntries(d)) + Unit(DigestOf(proc[o].run) = d)
        BY <2>1, EntriesAppend
      <3>2. Unit(Pending(o, d)) = Unit(DigestOf(proc[o].run) = d) /\ Unit(Pending(o, d)') = 0
        BY <2>1 DEF Pending, Unit
      <3>3. tree'[d] = tree[d] /\ crashes' = crashes
        BY <2>1
      <3>4. Cardinality(AllEntries(d)') + Unit(Pending(o, d)') =
              Cardinality(AllEntries(d)) + Unit(Pending(o, d))
        BY <3>1, <3>2, TreeOfDigest
      <3>5. Cardinality(AllEntries(d)') + Unit(Pending(o, d)') <= tree'[d]
        BY <3>3, <3>4, TreeOfDigest
      <3>6. 2 * tree'[d] + Cardinality(text'.lost) + 2 * Unit(LeftOpen(o)')
              <= 2 * (Cardinality(AllEntries(d)') + Unit(Pending(o, d)')) + 2 * crashes'
        BY <2>2, <2>3, <3>3, <3>4, TreeOfDigest
      <3>7. QED BY <3>5, <3>6
    <2>5. QED BY <2>1, <2>2, <2>4 DEF TreeInv
  <1>11. ASSUME NEW p \in Proc, EndLine(p)
         PROVE  TreeInv(o)'
    <2>1. /\ p = o /\ proc[o].step = "newline" /\ UNCHANGED <<tree, evolog, crashes>>
          /\ proc'[o].step \in {"record", "idle"}
          /\ text'.tail = "newline" /\ text'.lost = text.lost
      BY <1>1, <1>11 DEF EndLine, At, Finish, Become, ProcState, Text
    <2>2. ASSUME NEW d \in Digest
          PROVE  /\ AllEntries(d)' = AllEntries(d)
                 /\ Unit(Pending(o, d)') = Unit(Pending(o, d)) /\ Unit(LeftOpen(o)') = 0
      BY <2>1 DEF AllEntries, Pending, LeftOpen, Unit
    <2>3. ASSUME NEW d \in Digest
          PROVE  LET logged == Cardinality(AllEntries(d)') + Unit(Pending(o, d)')
                 IN /\ logged <= tree'[d]
                    /\ 2 * tree'[d] + Cardinality(text'.lost) + 2 * Unit(LeftOpen(o)')
                         <= 2 * logged + 2 * crashes'
      BY <2>1, <2>2, TreeOfDigest
    <2>4. QED BY <1>2, <2>1, <2>3 DEF TreeInv
  <1>12. ASSUME NEW p \in Proc, Crash(p)
         PROVE  TreeInv(o)'
    <2>1. /\ p = o /\ UNCHANGED <<tree, evolog, text>> /\ crashes' = crashes + 1
          /\ proc'[o].step = "idle"
      BY <1>1, <1>12 DEF Crash, Finish, Become
    <2>2. QED BY <2>1, TreeUntouched
  <1>13. CASE CycleLogs
    <2>1. UNCHANGED <<tree, evolog, proc>> /\ proc[o].step = "idle"
      BY <1>1, <1>13 DEF CycleLogs, At
    <2>2. /\ IsFiniteSet(text'.lost) /\ Cardinality(text'.lost) \in Nat
          /\ Cardinality(text'.lost) <= Cardinality(text.lost) + 2 * Unit(text.tail # "newline")
          /\ \/ text'.tail = "newline" /\ crashes' = crashes
             \/ text'.tail = "cycle" /\ crashes' = crashes + 1
      BY <1>2, <1>13, WrittenCost DEF CycleLogs
    <2>3. Unit(text.tail # "newline") = Unit(LeftOpen(o))
      BY <2>1 DEF LeftOpen, Unit
    <2>4. Unit(LeftOpen(o)') <= crashes' - crashes
      BY <1>1, <2>1, <2>2 DEF LeftOpen, Unit
    <2>5. ASSUME NEW d \in Digest
          PROVE  LET logged == Cardinality(AllEntries(d)') + Unit(Pending(o, d)')
                 IN /\ logged <= tree'[d]
                    /\ 2 * tree'[d] + Cardinality(text'.lost) + 2 * Unit(LeftOpen(o)')
                         <= 2 * logged + 2 * crashes'
      <3>1. AllEntries(d)' = AllEntries(d) /\ Unit(Pending(o, d)') = Unit(Pending(o, d))
        BY <2>1 DEF AllEntries, Pending
      <3>2. Unit(LeftOpen(o)') \in {0, 1} /\ crashes' \in Nat
        BY <1>1, <2>2 DEF Unit
      <3>3. QED BY <2>1, <2>2, <2>3, <2>4, <3>1, <3>2, TreeOfDigest
    <2>6. QED BY <2>1, <2>2, <2>5 DEF TreeInv
  <1>14. CASE Environment \/ UNCHANGED vars
    <2>1. CASE ~ CycleLogs
      <3>1. UNCHANGED <<tree, evolog, text, crashes, proc>>
        BY <1>14, <2>1 DEF Environment, Tick, AutonomyChanges, Tear, Mend, vars
      <3>2. proc'[o].step = "log" => proc[o].step \in {"validate", "log"} /\ proc'[o].run = proc[o].run
        BY <3>1
      <3>3. QED BY <1>1, <3>1, <3>2, TreeUntouched
    <2>2. QED BY <1>13, <2>1
  <1>15. QED
    BY <1>4, <1>5, <1>6, <1>7, <1>8, <1>9, <1>10, <1>11, <1>12, <1>14 DEF Next, Proceed

(* The entries that can be read are all but the lost ones. *)
LEMMA ReadableCount ==
  ASSUME TypeOK, IsFiniteSet(text.lost), NEW d
  PROVE  /\ Cardinality(Entries(d)) \in Nat
         /\ Cardinality(Entries(d)) <= Cardinality(AllEntries(d))
         /\ Cardinality(AllEntries(d)) <= Cardinality(Entries(d)) + Cardinality(text.lost)
  <1>1. IsFiniteSet(AllEntries(d)) /\ Cardinality(AllEntries(d)) \in Nat
    BY EntriesFinite
  <1>2. Entries(d) \subseteq AllEntries(d) /\ AllEntries(d) \subseteq Entries(d) \cup text.lost
    BY DEF Entries, AllEntries, Readable
  <1>3. /\ IsFiniteSet(Entries(d)) /\ Cardinality(Entries(d)) \in Nat
        /\ Cardinality(Entries(d)) <= Cardinality(AllEntries(d))
    BY <1>1, <1>2, FS_Subset, FS_CardinalityType
  <1>4. IsFiniteSet(Entries(d) \cup text.lost)
        /\ Cardinality(AllEntries(d)) <= Cardinality(Entries(d) \cup text.lost)
    BY <1>2, <1>3, FS_Union, FS_Subset
  <1>5. Cardinality(Entries(d) \cup text.lost) =
          Cardinality(Entries(d)) + Cardinality(text.lost) - Cardinality(Entries(d) \cap text.lost)
    BY <1>3, FS_Union
  <1>6. Cardinality(Entries(d) \cap text.lost) \in Nat /\ Cardinality(text.lost) \in Nat
    <2>1. IsFiniteSet(Entries(d) \cap text.lost)
      BY <1>3, FS_Intersection
    <2>2. QED BY <2>1, FS_CardinalityType
  <1>7. QED BY <1>1, <1>3, <1>4, <1>5, <1>6

(* One operator: a target holds each payload once per promotion the log can be read to have, once
   for the promotion under way, and at most twice more per death. *)
THEOREM TreeAlwaysMatchesLog ==
  ASSUME NEW o, Proc = {o}
  PROVE  Spec => []TreeMatchesLog
  <1>1. TypeOK /\ TypeOK' /\ TreeInv(o) /\ [Next]_vars => TreeInv(o)'
    BY StepTree
  <1>2. TypeOK /\ TreeInv(o) => TreeMatchesLog
    <2> SUFFICES ASSUME TypeOK, TreeInv(o), NEW d \in Digest
                 PROVE  LET accounted == Cardinality(Entries(d)) + Cardinality(Promoting(d))
                        IN accounted <= tree[d] /\ tree[d] <= accounted + 2 * crashes
      BY DEF TreeMatchesLog
    <2>1. Cardinality(Promoting(d)) = Unit(Pending(o, d))
      BY PromotingCount
    <2>2. IsFiniteSet(text.lost)
      BY DEF TreeInv
    <2>3. QED BY <2>1, <2>2, TreeOfDigest, ReadableCount
  <1>3. Init /\ TypeOK => TreeInv(o)
    BY InitTree
  <1>4. QED BY <1>1, <1>2, <1>3, TypeCorrect, PTL DEF Spec
=============================================================================
