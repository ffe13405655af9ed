--------------------------- MODULE UnattendedProofs ---------------------------
(***************************************************************************)
(* Theorems about Unattended, for all tasks, plans, policies and numbers   *)
(* of rounds, with an operator and deaths beside the command: every file   *)
(* keeps its type, no cycle of a bounded run begins beside a sandbox left  *)
(* behind, the counters of the reports agree, and every draft keeps its    *)
(* limits.  As long as no operator works beside the command, every report  *)
(* is about its campaign's own entries of the log, and a supervised run    *)
(* ended the way its status says.                                          *)
(***************************************************************************)
EXTENDS Unattended, FiniteSetTheorems, TLAPS

IsSeq(s) == s \in Seq(Elements(s))

ReportFields == {"count", "plans", "tried", "used", "leaks", "candidates", "reason"}
CommandFields == {"step", "level", "id", "path", "task", "rounds", "turns", "cycles", "before",
                  "ended", "found", "review", "report", "own", "todo", "bounded", "supervised"}
Shaped ==
  \/ cmd = Idle
  \/ /\ DOMAIN cmd = CommandFields /\ cmd.step \in Step
     /\ DOMAIN cmd.report = ReportFields

ReportShaped(r) ==
  /\ DOMAIN r = ReportFields
  /\ r.count \in [Count -> Nat]
  /\ IsSeq(r.candidates)

-----------------------------------------------------------------------------
(* Sequences *)

(* A sequence over any set is one over its elements; appending keeps one. *)
LEMMA SequenceOfElements == ASSUME NEW S, NEW s \in Seq(S) PROVE IsSeq(s)
<1>1. Len(s) \in Nat /\ DOMAIN s = 1..Len(s) /\ s = [i \in 1..Len(s) |-> s[i]]
  OBVIOUS
<1>2. s \in [1..Len(s) -> Elements(s)]
  BY <1>1 DEF Elements
<1> QED BY <1>1, <1>2 DEF IsSeq

LEMMA Appended ==
  ASSUME NEW s, IsSeq(s), NEW e
  PROVE  /\ IsSeq(Append(s, e))
         /\ Len(s) \in Nat /\ DOMAIN s = 1..Len(s)
         /\ Len(Append(s, e)) = Len(s) + 1 /\ DOMAIN Append(s, e) = 1..(Len(s) + 1)
         /\ \A i \in 1..Len(s) : Append(s, e)[i] = s[i]
         /\ Append(s, e)[Len(s) + 1] = e
<1> DEFINE S == Elements(s) \cup {e}
<1>1. s \in Seq(Elements(s))
  BY DEF IsSeq
<1>2. s \in Seq(S)
  BY <1>1
<1>3. Append(s, e) \in Seq(S)
  BY <1>2
<1>4. IsSeq(Append(s, e))
  BY <1>3, SequenceOfElements
<1> QED BY <1>2, <1>3, <1>4

-----------------------------------------------------------------------------
(* What a cycle does to the command *)

Kept(fields) == \A f \in fields : cmd'[f] = cmd[f]

(* A cycle ends at the step that records it, with one cycle less to do. *)
LEMMA TrialEnds ==
  ASSUME NEW d, NEW next, DOMAIN next = CommandFields, Trial(d, next)
  PROVE  /\ DOMAIN cmd' = CommandFields
         /\ \A f \in CommandFields \ {"ended", "own"} : cmd'[f] = next[f]
         /\ leaked' = leaked \/ leaked' = leaked + 1
<1>1. CASE /\ KnownBad(d)
           /\ Become([next EXCEPT !.ended = "error", !.own = @ \cup {NewRun}])
           /\ UNCHANGED leaked
  BY <1>1 DEF Become, CommandFields
<1>2. ASSUME NEW status \in {"failed", "passed", "candidate"}, NEW removed \in BOOLEAN,
             leaked' = IF removed THEN leaked ELSE leaked + 1,
             Become([next EXCEPT !.ended = IF removed /\ status # "failed" THEN "ok" ELSE "error",
                                 !.own = @ \cup {NewRun}])
      PROVE  /\ DOMAIN cmd' = CommandFields
             /\ \A f \in CommandFields \ {"ended", "own"} : cmd'[f] = next[f]
             /\ leaked' = leaked \/ leaked' = leaked + 1
  BY <1>2 DEF Become, CommandFields
<1>3. CASE /\ leaked' \in {leaked, leaked + 1}
           /\ Become([next EXCEPT !.ended = "error"])
  BY <1>3 DEF Become, CommandFields
<1> QED BY <1>1, <1>2, <1>3 DEF Trial

LEMMA CycleEnds ==
  ASSUME Cycle, Shaped
  PROVE  /\ DOMAIN cmd' = CommandFields
         /\ cmd'.step = "record" /\ cmd'.cycles = cmd.cycles - 1
         /\ Kept({"level", "id", "path", "task", "bounded"})
         /\ \A f \in ReportFields \ {"plans", "tried", "used"} : cmd'.report[f] = cmd.report[f]
         /\ DOMAIN cmd'.report = DOMAIN cmd.report
         /\ leaked' = leaked \/ leaked' = leaked + 1
<1> DEFINE next == [cmd EXCEPT !.step = "record", !.cycles = @ - 1, !.before = LastRun]
           Told(r) == /\ \A f \in ReportFields \ {"plans", "tried", "used"} : r[f] = cmd.report[f]
                      /\ DOMAIN r = DOMAIN cmd.report
<1>1. /\ DOMAIN cmd = CommandFields /\ cmd.step = "cycle"
      /\ DOMAIN cmd.report = ReportFields
  <2>1. cmd.step = "cycle"
    BY DEF Cycle, At
  <2> QED BY <2>1 DEF Shaped, Idle
<1>2. ASSUME NEW d, NEW found
      PROVE  Told(WithDiagnosis(cmd.report, d)) /\ Told(WithFallback(WithDiagnosis(cmd.report, d), found))
  BY <1>1 DEF WithDiagnosis, WithFallback, ReportFields
<1>3. ASSUME NEW d, NEW r, Told(r), NEW t, t = [next EXCEPT !.report = r],
             \/ Trial(d, t)
             \/ Become([t EXCEPT !.ended = "error"]) /\ UNCHANGED leaked
      PROVE  /\ DOMAIN cmd' = CommandFields
             /\ cmd'.step = "record" /\ cmd'.cycles = cmd.cycles - 1
             /\ Kept({"level", "id", "path", "task", "bounded"})
             /\ Told(cmd'.report)
             /\ leaked' = leaked \/ leaked' = leaked + 1
  <2>1. /\ DOMAIN t = CommandFields /\ t.step = "record" /\ t.cycles = cmd.cycles - 1
        /\ t.report = r
        /\ \A f \in {"level", "id", "path", "task", "bounded"} : t[f] = cmd[f]
    BY <1>1, <1>3 DEF CommandFields
  <2>2. /\ DOMAIN cmd' = CommandFields
        /\ \A f \in CommandFields \ {"ended", "own"} : cmd'[f] = t[f]
        /\ leaked' = leaked \/ leaked' = leaked + 1
    <3>1. CASE Trial(d, t)
      BY <3>1, <2>1, TrialEnds
    <3>2. CASE Become([t EXCEPT !.ended = "error"]) /\ UNCHANGED leaked
      BY <3>2, <2>1 DEF Become, CommandFields
    <3> QED BY <1>3, <3>1, <3>2
  <2>3. cmd'.step = t.step /\ cmd'.cycles = t.cycles /\ cmd'.report = t.report
        /\ \A f \in {"level", "id", "path", "task", "bounded"} : cmd'[f] = t[f]
    BY <2>2 DEF CommandFields
  <2> QED BY <1>3, <2>1, <2>2, <2>3 DEF Kept
<1> HIDE DEF Told
<1>4. PICK plans \in PlanSets :
        LET d == Diagnosis(plans, cmd.task, Overused)
            counted == WithDiagnosis(cmd.report, d)
        IN IF d.accepted > 0
           THEN \E p \in {q \in plans : Admits(cmd.task, q)} :
                  Trial(<<p.target, p.kind>>, [next EXCEPT !.report = counted])
           ELSE \E kinds \in IF policy # NoPolicy THEN {policy}
                             ELSE {PolicyKinds(strategy, {}) : strategy \in Strategy} :
                  LET fits  == {h \in HypothesesNow(kinds, policy # NoPolicy) : Fits(cmd.task, h)}
                      tried == [next EXCEPT !.report = WithFallback(counted, fits # {})]
                  IN IF fits # {} THEN \E h \in fits : Trial(<<h.target, h.kind>>, tried)
                     ELSE Become([tried EXCEPT !.ended = "error"]) /\ UNCHANGED leaked
  BY DEF Cycle
<1> DEFINE d == Diagnosis(plans, cmd.task, Overused)
           counted == WithDiagnosis(cmd.report, d)
<1>5. CASE d.accepted > 0
  <2>1. PICK p : Trial(<<p.target, p.kind>>, [next EXCEPT !.report = counted])
    BY <1>4, <1>5
  <2> QED BY <2>1, <1>2, <1>3 DEF Told
<1>6. CASE ~ (d.accepted > 0)
  <2>1. PICK kinds :
          LET fits  == {h \in HypothesesNow(kinds, policy # NoPolicy) : Fits(cmd.task, h)}
              tried == [next EXCEPT !.report = WithFallback(counted, fits # {})]
          IN IF fits # {} THEN \E h \in fits : Trial(<<h.target, h.kind>>, tried)
             ELSE Become([tried EXCEPT !.ended = "error"]) /\ UNCHANGED leaked
    BY <1>4, <1>6
  <2> DEFINE fits == {h \in HypothesesNow(kinds, policy # NoPolicy) : Fits(cmd.task, h)}
             tried == [next EXCEPT !.report = WithFallback(counted, fits # {})]
  <2>2. \/ \E h : Trial(<<h.target, h.kind>>, tried)
        \/ Become([tried EXCEPT !.ended = "error"]) /\ UNCHANGED leaked
    BY <2>1
  <2>3. Told(WithFallback(counted, fits # {}))
    BY <1>2
  <2> DEFINE r == WithFallback(counted, fits # {})
  <2>4. tried = [next EXCEPT !.report = r] /\ Told(r)
    BY <2>3
  <2> HIDE DEF r, tried, next
  <2>5. \/ \E h : Trial(<<h.target, h.kind>>, tried)
        \/ Become([tried EXCEPT !.ended = "error"]) /\ UNCHANGED leaked
    BY <2>2
  <2>6. \E e : Trial(e, tried) \/ (Become([tried EXCEPT !.ended = "error"]) /\ UNCHANGED leaked)
    BY <2>5
  <2>7. PICK e : Trial(e, tried) \/ (Become([tried EXCEPT !.ended = "error"]) /\ UNCHANGED leaked)
    BY <2>6
  <2> QED BY <2>4, <2>7, <1>3 DEF Told
<1> QED BY <1>5, <1>6

-----------------------------------------------------------------------------
(* No cycle beside a sandbox left behind *)

LEMMA Reshaped ==
  ASSUME NEW r, DOMAIN r = ReportFields
  PROVE  /\ \A cs : DOMAIN Raise(r, cs) = ReportFields
         /\ \A n : DOMAIN [r EXCEPT !.leaks = n] = ReportFields
         /\ \A s : DOMAIN [r EXCEPT !.candidates = s] = ReportFields
         /\ \A n : DOMAIN Closed(r, n) = ReportFields
  BY DEF Raise, Closed, ReportFields

(* The command is idle, or it has its fields and its report has. *)
LEMMA ShapeKept == ASSUME Shaped, [Next]_vars PROVE Shaped'
<1> USE DEF Step, CommandFields
<1>0. ASSUME ~ At("idle") PROVE DOMAIN cmd = CommandFields /\ DOMAIN cmd.report = ReportFields
  BY <1>0 DEF Shaped, At, Idle
<1>1. CASE UNCHANGED cmd
  BY <1>1 DEF Shaped
<1>2. CASE cmd' = Idle
  BY <1>2 DEF Shaped
<1>3. ASSUME NEW step \in Step, Go(step), ~ At("idle") PROVE Shaped'
  BY <1>0, <1>3 DEF Shaped, Go, Become
<1>4. ASSUME NEW level \in Level, NEW t \in TaskId, NEW path \in Path, NEW n \in 1..MaxAsked,
             Begin(level, t, path, n)
      PROVE  Shaped'
  BY <1>4 DEF Begin, Become, Shaped, EmptyReport, ReportFields
<1>5. CASE Round
  BY <1>5, <1>0, <1>2 DEF Round, Become, Stop, Shaped, At
<1>6. CASE Open
  BY <1>6, <1>0, <1>2 DEF Open, Become, Stop, Shaped, At, EmptyReport, ReportFields
<1>7. CASE Cycle
  <2>1. ~ At("idle")
    BY <1>7 DEF Cycle, At
  <2> QED BY <1>7, <1>0, <2>1, CycleEnds DEF Shaped
<1>8. CASE Record
  <2>1. ~ At("idle")
    BY <1>8 DEF Record, At
  <2> DEFINE seen == EntryCounts(Last.status)
             report == [cmd.report EXCEPT !.leaks = @ + Sandboxes]
  <2>2. DOMAIN report = ReportFields
    BY <1>0, <2>1, Reshaped
  <2>3. \/ cmd' = [cmd EXCEPT !.step = "cycle", !.report = Raise(cmd.report, ErrorCountsNow)]
        \/ cmd' = [cmd EXCEPT !.step = "cycle",
                              !.report = Raise(cmd.report, seen \cup Rejection("duplicate"))]
        \/ cmd' = [cmd EXCEPT !.step = "cycle",
                              !.report = Raise(report, seen \cup Rejection("notUseful"))]
        \/ cmd' = [cmd EXCEPT !.step = "cycle",
                              !.report = Raise(report, seen \cup Rejection("belowScore"))]
        \/ cmd' = [cmd EXCEPT !.step = "replay", !.found = Last.run,
                              !.review = ReviewOf(Last.run), !.report = Raise(report, seen)]
    BY <1>8 DEF Record, Become
  <2> HIDE DEF report, seen
  <2>4. ASSUME NEW r, DOMAIN r = ReportFields, NEW cs,
               cmd' = [cmd EXCEPT !.step = "cycle", !.report = Raise(r, cs)]
        PROVE  Shaped'
    <3>1. DOMAIN Raise(r, cs) = ReportFields
      BY <2>4, Reshaped
    <3> QED BY <1>0, <2>1, <2>4, <3>1 DEF Shaped
  <2>5. CASE cmd' = [cmd EXCEPT !.step = "replay", !.found = Last.run,
                                !.review = ReviewOf(Last.run), !.report = Raise(report, seen)]
    <3>1. DOMAIN Raise(report, seen) = ReportFields
      BY <2>2, Reshaped
    <3> QED BY <1>0, <2>1, <2>5, <3>1 DEF Shaped
  <2> QED BY <1>0, <2>1, <2>2, <2>3, <2>4, <2>5
<1>9. CASE ReplayAndCount
  <2>1. ~ At("idle")
    BY <1>9 DEF ReplayAndCount, At
  <2> DEFINE kept == IF cmd.review.promoted THEN cmd.report
                     ELSE [cmd.report EXCEPT !.candidates = Append(@, cmd.found)]
  <2>2. DOMAIN kept = ReportFields
    BY <1>0, <2>1, Reshaped
  <2>3. \E cs, ds : \/ cmd' = [cmd EXCEPT !.step = "cycle", !.report = Raise(kept, cs)]
                    \/ cmd' = [cmd EXCEPT !.step = "cycle", !.report = Raise(Raise(kept, cs), ds)]
    BY <1>9 DEF ReplayAndCount, Become
  <2> HIDE DEF kept
  <2>4. PICK r : DOMAIN r = ReportFields /\ cmd' = [cmd EXCEPT !.step = "cycle", !.report = r]
    BY <2>2, <2>3, Reshaped
  <2> QED BY <1>0, <2>1, <2>4 DEF Shaped
<1>10. CASE Close
  <2>1. ~ At("idle")
    BY <1>10 DEF Close, At
  <2>2. cmd' = Idle \/ cmd' = [cmd EXCEPT !.step = "adjust", !.report = Closed(cmd.report, Sandboxes)]
    BY <1>10 DEF Close, Become, Stop
  <2>3. DOMAIN Closed(cmd.report, Sandboxes) = ReportFields
    BY <1>0, <2>1, Reshaped
  <2>4. CASE cmd' = [cmd EXCEPT !.step = "adjust", !.report = Closed(cmd.report, Sandboxes)]
    BY <1>0, <2>1, <2>3, <2>4 DEF Shaped
  <2> QED BY <1>2, <2>2, <2>4
<1>11. CASE Adjust
  BY <1>11, <1>0 DEF Adjust, Become, Shaped, At
<1>12. CASE Again
  BY <1>12, <1>3 DEF Again, At
<1>13. CASE ReviewAgain
  BY <1>13, <1>0 DEF ReviewAgain, Become, Shaped, At
<1>14. CASE Reconcile
  BY <1>14, <1>0 DEF Reconcile, Become, Shaped, At
<1>15. CASE Finish
  BY <1>15, <1>2, <1>3 DEF Finish, Become, Stop, At
<1>16. CASE Collect
  BY <1>16, <1>0 DEF Collect, Become, Shaped, At
<1>17. CASE End
  BY <1>17, <1>2 DEF End, Become, Stop
<1>18. CASE Crash
  BY <1>18, <1>2 DEF Crash, Become, Stop
<1>19. CASE Others \/ UNCHANGED vars
  BY <1>19, <1>1 DEF Others, OthersBegin, OthersEnd, OthersDuplicate, OthersPromote, vars
<1> QED
  BY <1>4, <1>5, <1>6, <1>7, <1>8, <1>9, <1>10, <1>11, <1>12, <1>13, <1>14, <1>15, <1>16, <1>17,
     <1>18, <1>19 DEF Next

LEMMA OthersEndKeeps ==
  ASSUME theirs \in [live : Nat, stray : Nat], OthersEnd
  PROVE  /\ theirs' \in [live : Nat, stray : Nat]
         /\ theirs.live > 0
         /\ UNCHANGED <<cmd, leaked>>
<1>1. PICK left \in {0, 1} :
        theirs' = [live |-> theirs.live - 1, stray |-> theirs.stray + left]
  BY DEF OthersEnd
<1>2. theirs.live > 0 /\ UNCHANGED <<cmd, leaked>>
  BY DEF OthersEnd
<1>3. theirs.live - 1 \in Nat /\ theirs.stray + left \in Nat
  BY <1>2
<1> QED BY <1>1, <1>2, <1>3

(* A bounded or supervised run's campaign has one cycle; it is still ahead only while no
   sandbox is left. *)
LeakInv ==
  /\ Shaped
  /\ leaked \in Nat /\ theirs \in [live : Nat, stray : Nat]
  /\ (~ At("idle") /\ cmd.level # "campaign") =>
       /\ At("cycle") => cmd.cycles = 0 \/ (cmd.cycles = 1 /\ leaked = 0)
       /\ At("record") \/ At("replay") => cmd.cycles = 0

LEMMA LeakInvInit == Init => LeakInv
  BY DEF Init, LeakInv, Shaped, At, Idle

LEMMA LeakInvKept == ASSUME LeakInv, [Next]_vars PROVE LeakInv'
<1>0. Shaped /\ Shaped' /\ leaked \in Nat /\ theirs \in [live : Nat, stray : Nat]
  BY ShapeKept DEF LeakInv
<1> DEFINE Ahead ==
      (~ At("idle") /\ cmd.level # "campaign") =>
        /\ At("cycle") => cmd.cycles = 0 \/ (cmd.cycles = 1 /\ leaked = 0)
        /\ At("record") \/ At("replay") => cmd.cycles = 0
<1> SUFFICES leaked' \in Nat /\ theirs' \in [live : Nat, stray : Nat] /\ Ahead'
  BY <1>0 DEF LeakInv
<1>1. ~ At("idle") => DOMAIN cmd = CommandFields
  BY <1>0 DEF Shaped, At, Idle
<1>2. Ahead
  BY DEF LeakInv
<1>3. ASSUME UNCHANGED <<cmd, leaked>> PROVE Ahead'
  BY <1>2, <1>3 DEF At
<1>4. ASSUME cmd'.step \notin {"cycle", "record", "replay"} PROVE Ahead'
  BY <1>4 DEF At
<1>5. CASE \E level \in Level, t \in TaskId, path \in Path, n \in 1..MaxAsked : Begin(level, t, path, n)
  <2>1. cmd'.step \in {"round", "open"} /\ UNCHANGED <<leaked, theirs>>
    BY <1>5 DEF Begin, Become
  <2> QED BY <1>0, <1>4, <2>1
<1>6. CASE Round
  <2>1. UNCHANGED <<leaked, theirs>> /\ cmd.step = "round"
    BY <1>6 DEF Round, At
  <2>2. \/ cmd' = Idle
        \/ \E task, turns, b : cmd' = [cmd EXCEPT !.step = "open", !.task = task, !.turns = turns,
                                                  !.bounded = b]
    BY <1>6 DEF Round, Become, Stop
  <2>3. CASE cmd' = Idle
    BY <1>0, <1>4, <2>1, <2>3 DEF Idle
  <2>4. CASE \E task, turns, b : cmd' = [cmd EXCEPT !.step = "open", !.task = task, !.turns = turns,
                                                   !.bounded = b]
    <3>1. cmd'.step = "open"
      BY <1>1, <2>1, <2>4 DEF CommandFields, At
    <3> QED BY <1>0, <1>4, <2>1, <3>1
  <2> QED BY <2>2, <2>3, <2>4
<1>7. CASE Open
  <2>1. leaked' = leaked + theirs.stray /\ leaked' \in Nat /\ theirs' \in [live : Nat, stray : Nat]
    BY <1>0, <1>7 DEF Open
  <2>2. CASE cmd' = Idle
    BY <2>1, <2>2, <1>0, <1>4 DEF Idle
  <2>3. CASE cmd' # Idle
    <3> DEFINE task == IF cmd.level = "campaign" THEN cmd.task ELSE OneCycle(cmd.task)
    <3>1. Autonomous /\ cmd' = [cmd EXCEPT !.step = "cycle", !.cycles = task.cycles,
                                           !.report = EmptyReport, !.own = {}]
      BY <1>7, <2>3 DEF Open, Become, Stop
    <3>2. leaked' = 0
      BY <3>1, <1>0, <2>1 DEF Autonomous, Sandboxes
    <3>3. cmd'.step = "cycle" /\ cmd'.level = cmd.level /\ cmd'.cycles = task.cycles
      BY <1>7, <1>1, <3>1 DEF Open, CommandFields, At
    <3> QED BY <1>0, <2>1, <3>2, <3>3 DEF At, OneCycle
  <2> QED BY <2>2, <2>3
<1>8. CASE Cycle
  <2>1. cmd'.step = "record" /\ cmd'.cycles = cmd.cycles - 1 /\ cmd'.level = cmd.level
    BY <1>0, <1>8, CycleEnds DEF Kept
  <2>2. leaked' \in Nat /\ UNCHANGED theirs
    <3>1. leaked' = leaked \/ leaked' = leaked + 1
      BY <1>0, <1>8, CycleEnds
    <3>2. UNCHANGED theirs
      BY <1>8 DEF Cycle
    <3> QED BY <1>0, <3>1, <3>2
  <2>3. cmd.step = "cycle" /\ cmd.cycles > 0
    BY <1>8 DEF Cycle, At
  <2> QED BY <1>0, <1>2, <2>1, <2>2, <2>3 DEF At
<1>9. CASE Record
  <2>1. UNCHANGED <<leaked, theirs>> /\ cmd.step = "record"
    BY <1>9 DEF Record, At
  <2>2. cmd'.step \in {"cycle", "replay"} /\ cmd'.level = cmd.level /\ cmd'.cycles = cmd.cycles
    BY <1>1, <1>9, <2>1 DEF Record, Become, CommandFields, At
  <2> QED BY <1>0, <1>2, <2>1, <2>2 DEF At
<1>10. CASE ReplayAndCount
  <2>1. leaked' \in {leaked, leaked + 1} /\ UNCHANGED theirs /\ cmd.step = "replay"
    BY <1>10 DEF ReplayAndCount, Replay, At
  <2>2. cmd'.step = "cycle" /\ cmd'.level = cmd.level /\ cmd'.cycles = cmd.cycles
    BY <1>1, <1>10, <2>1 DEF ReplayAndCount, Become, CommandFields, At
  <2> QED BY <1>0, <1>2, <2>1, <2>2 DEF At
<1>11. CASE Close
  <2>1. UNCHANGED <<leaked, theirs>> /\ cmd.step = "cycle"
    BY <1>11 DEF Close, At
  <2>2. cmd' = Idle \/ cmd' = [cmd EXCEPT !.step = "adjust", !.report = Closed(cmd.report, Sandboxes)]
    BY <1>11 DEF Close, Become, Stop
  <2>3. CASE cmd' = Idle
    BY <1>0, <1>4, <2>1, <2>3 DEF Idle
  <2>4. CASE cmd' = [cmd EXCEPT !.step = "adjust", !.report = Closed(cmd.report, Sandboxes)]
    <3>1. cmd'.step = "adjust"
      BY <1>1, <2>1, <2>4 DEF CommandFields, At
    <3> QED BY <1>0, <1>4, <2>1, <3>1
  <2> QED BY <2>2, <2>3, <2>4
<1>12. CASE Adjust
  <2>1. cmd'.step = "again" /\ UNCHANGED <<leaked, theirs>>
    BY <1>1, <1>12 DEF Adjust, Become, CommandFields, At
  <2> QED BY <1>0, <1>4, <2>1
<1>13. CASE Again
  <2>1. leaked' \in {leaked, leaked + 1} /\ UNCHANGED theirs
    BY <1>13 DEF Again, Replay
  <2>2. cmd'.step = "review"
    BY <1>1, <1>13 DEF Again, Go, Become, CommandFields, At
  <2> QED BY <1>0, <1>4, <2>1, <2>2
<1>14. CASE ReviewAgain
  <2>1. cmd'.step = "again" /\ UNCHANGED <<leaked, theirs>>
    BY <1>1, <1>14 DEF ReviewAgain, Become, CommandFields, At
  <2> QED BY <1>0, <1>4, <2>1
<1>15. CASE Reconcile
  <2>1. cmd'.step \in {"finish", "open"} /\ UNCHANGED <<leaked, theirs>>
    BY <1>1, <1>15 DEF Reconcile, Become, CommandFields, At
  <2> QED BY <1>0, <1>4, <2>1
<1>16. CASE Finish
  <2>1. cmd'.step \in {"idle", "collect"} /\ UNCHANGED <<leaked, theirs>>
    BY <1>1, <1>16 DEF Finish, Become, Go, Stop, Idle, CommandFields, At
  <2> QED BY <1>0, <1>4, <2>1
<1>17. CASE Collect
  <2>1. cmd'.step \in {"end", "round"} /\ UNCHANGED <<leaked, theirs>>
    BY <1>1, <1>17 DEF Collect, Become, CommandFields, At
  <2> QED BY <1>0, <1>4, <2>1
<1>18. CASE End
  BY <1>0, <1>4, <1>18 DEF End, Become, Stop, Idle
<1>19. CASE Crash
  <2>1. leaked' \in {leaked, leaked + 1} /\ UNCHANGED theirs /\ cmd' = Idle
    BY <1>19 DEF Crash, Become, Stop
  <2> QED BY <1>0, <1>4, <2>1 DEF Idle
<1>20. CASE Others \/ UNCHANGED vars
  <2>1. UNCHANGED <<cmd, leaked>> /\ theirs' \in [live : Nat, stray : Nat]
    <3>1. CASE OthersBegin
      BY <1>0, <3>1 DEF OthersBegin
    <3>2. CASE OthersEnd
      <4>1. theirs' \in [live : Nat, stray : Nat] /\ UNCHANGED <<cmd, leaked>>
        BY <1>0, <3>2, OthersEndKeeps
      <4> QED BY <4>1
    <3>3. CASE OthersDuplicate \/ OthersPromote \/ UNCHANGED vars
      BY <1>0, <3>3 DEF OthersDuplicate, OthersPromote, vars
    <3> QED BY <1>20, <3>1, <3>2, <3>3 DEF Others
  <2> QED BY <1>0, <1>3, <2>1
<1> QED
  BY <1>5, <1>6, <1>7, <1>8, <1>9, <1>10, <1>11, <1>12, <1>13, <1>14, <1>15, <1>16, <1>17, <1>18,
     <1>19, <1>20 DEF Next

(* In a bounded or supervised run no cycle begins beside a sandbox that a task, a replay, an
   operator or a death left before its campaign asked the gate, or that the run left since. *)
THEOREM NothingBesideALeak == Spec => NothingAfterLeak
<1>1. ASSUME LeakInv, Cycle, cmd.level # "campaign" PROVE leaked = 0
  <2>1. cmd.step = "cycle" /\ cmd.cycles > 0
    BY <1>1 DEF Cycle, At
  <2> QED BY <1>1, <2>1 DEF LeakInv, At
<1>2. LeakInv /\ [Next]_vars => [Cycle /\ cmd.level # "campaign" => leaked = 0]_vars
  BY <1>1
<1>3. LeakInv /\ [Next]_vars => LeakInv'
  BY LeakInvKept
<1> QED BY <1>2, <1>3, LeakInvInit, PTL DEF Spec, NothingAfterLeak

-----------------------------------------------------------------------------
(* The counters of the reports *)

Balanced(c, n) ==
  /\ c["total"] = c["passed"] + c["failed"]
  /\ c["rejected"] = c["duplicate"] + c["failedValidator"] + c["notUseful"] + c["belowScore"]
                      + c["failedReplay"] + c["alreadyPromoted"]
  /\ c["useful"] = n
  /\ c["replayAttempted"] \in {0, c["replayPassed"] + c["replayFailed"]}
  /\ c["replayFailed"] = c["failedReplay"]
Agrees(r) == Balanced(r.count, Len(r.candidates))

(* A report being written counts every replay as it is made. *)
Even(c, n) ==
  /\ Balanced(c, n)
  /\ c["replayAttempted"] = c["replayPassed"] + c["replayFailed"]
Sums(r) == ReportShaped(r) /\ Even(r.count, Len(r.candidates))

CountsInv ==
  /\ Shaped
  /\ IsSeq(campaigns)
  /\ \A i \in DOMAIN campaigns : ReportShaped(campaigns[i]) /\ Agrees(campaigns[i])
  /\ ~ At("idle") => Sums(cmd.report)

LEMMA RaisedCounts ==
  ASSUME NEW r, ReportShaped(r), NEW cs
  PROVE  /\ ReportShaped(Raise(r, cs))
         /\ Raise(r, cs).candidates = r.candidates
         /\ \A c \in Count : Raise(r, cs).count[c] = IF c \in cs THEN r.count[c] + 1 ELSE r.count[c]
<1>1. /\ DOMAIN Raise(r, cs) = ReportFields
      /\ Raise(r, cs).candidates = r.candidates
      /\ Raise(r, cs).count = [c \in Count |-> IF c \in cs THEN r.count[c] + 1 ELSE r.count[c]]
  BY DEF ReportShaped, ReportFields, Raise
<1>2. Raise(r, cs).count \in [Count -> Nat]
  BY <1>1 DEF ReportShaped
<1> QED BY <1>1, <1>2 DEF ReportShaped

LEMMA EmptySums == Sums(EmptyReport)
<1>1. IsSeq(<<>>)
  <2>1. <<>> \in Seq(Nat)
    OBVIOUS
  <2> QED BY <2>1, SequenceOfElements
<1>2. EmptyReport.count = [c \in Count |-> 0] /\ EmptyReport.candidates = <<>>
      /\ DOMAIN EmptyReport = ReportFields
  BY DEF EmptyReport, ReportFields
<1>3. ReportShaped(EmptyReport)
  BY <1>1, <1>2 DEF ReportShaped
<1>4. \A c \in Count : EmptyReport.count[c] = 0
  BY <1>2
<1>5. Len(EmptyReport.candidates) = 0
  BY <1>2
<1> QED BY <1>3, <1>4, <1>5 DEF Sums, Even, Balanced, Count

(* Balanced counters plus balanced increments are balanced. *)
LEMMA EvenSum ==
  ASSUME NEW f \in [Count -> Nat], NEW u \in [Count -> Nat], NEW g, NEW n \in Nat, NEW d \in Nat,
         \A c \in Count : g[c] = f[c] + u[c],
         Even(f, n), Even(u, d)
  PROVE  Even(g, n + d)
<1>1. g["total"] = g["passed"] + g["failed"]
  <2>1. /\ f["passed"] \in Nat /\ f["failed"] \in Nat /\ u["passed"] \in Nat /\ u["failed"] \in Nat
        /\ g["total"] = f["total"] + u["total"] /\ g["passed"] = f["passed"] + u["passed"]
        /\ g["failed"] = f["failed"] + u["failed"]
    BY DEF Count
  <2>2. f["total"] = f["passed"] + f["failed"] /\ u["total"] = u["passed"] + u["failed"]
    BY DEF Even, Balanced
  <2> QED BY <2>1, <2>2
<1>2. g["rejected"] = g["duplicate"] + g["failedValidator"] + g["notUseful"] + g["belowScore"]
                      + g["failedReplay"] + g["alreadyPromoted"]
  <2>1. /\ f["duplicate"] \in Nat /\ f["failedValidator"] \in Nat /\ f["notUseful"] \in Nat
        /\ f["belowScore"] \in Nat /\ f["failedReplay"] \in Nat /\ f["alreadyPromoted"] \in Nat
        /\ u["duplicate"] \in Nat /\ u["failedValidator"] \in Nat /\ u["notUseful"] \in Nat
        /\ u["belowScore"] \in Nat /\ u["failedReplay"] \in Nat /\ u["alreadyPromoted"] \in Nat
    BY DEF Count
  <2>2. /\ g["rejected"] = f["rejected"] + u["rejected"]
        /\ g["duplicate"] = f["duplicate"] + u["duplicate"]
        /\ g["failedValidator"] = f["failedValidator"] + u["failedValidator"]
        /\ g["notUseful"] = f["notUseful"] + u["notUseful"]
        /\ g["belowScore"] = f["belowScore"] + u["belowScore"]
        /\ g["failedReplay"] = f["failedReplay"] + u["failedReplay"]
        /\ g["alreadyPromoted"] = f["alreadyPromoted"] + u["alreadyPromoted"]
    BY DEF Count
  <2>3. f["rejected"] = f["duplicate"] + f["failedValidator"] + f["notUseful"] + f["belowScore"]
                        + f["failedReplay"] + f["alreadyPromoted"]
    BY DEF Even, Balanced
  <2>4. u["rejected"] = u["duplicate"] + u["failedValidator"] + u["notUseful"] + u["belowScore"]
                        + u["failedReplay"] + u["alreadyPromoted"]
    BY DEF Even, Balanced
  <2> QED BY <2>1, <2>2, <2>3, <2>4
<1>3. g["useful"] = n + d
  <2>1. f["useful"] = n /\ u["useful"] = d
    BY DEF Even, Balanced
  <2> QED BY <2>1 DEF Count
<1>4. g["replayAttempted"] = g["replayPassed"] + g["replayFailed"] /\ g["replayFailed"] = g["failedReplay"]
  <2>1. /\ f["replayPassed"] \in Nat /\ f["replayFailed"] \in Nat
        /\ u["replayPassed"] \in Nat /\ u["replayFailed"] \in Nat
        /\ g["replayAttempted"] = f["replayAttempted"] + u["replayAttempted"]
        /\ g["replayPassed"] = f["replayPassed"] + u["replayPassed"]
        /\ g["replayFailed"] = f["replayFailed"] + u["replayFailed"]
        /\ g["failedReplay"] = f["failedReplay"] + u["failedReplay"]
    BY DEF Count
  <2>2. /\ f["replayAttempted"] = f["replayPassed"] + f["replayFailed"]
        /\ u["replayAttempted"] = u["replayPassed"] + u["replayFailed"]
        /\ f["replayFailed"] = f["failedReplay"] /\ u["replayFailed"] = u["failedReplay"]
    BY DEF Even, Balanced
  <2> QED BY <2>1, <2>2
<1> QED BY <1>1, <1>2, <1>3, <1>4 DEF Even, Balanced

Ones(cs) == [c \in Count |-> IF c \in cs THEN 1 ELSE 0]

LEMMA RaisedByOnes ==
  ASSUME NEW r, ReportShaped(r), NEW cs
  PROVE  /\ Ones(cs) \in [Count -> Nat]
         /\ \A c \in Count : Raise(r, cs).count[c] = r.count[c] + Ones(cs)[c]
<1>1. \A c \in Count : r.count[c] \in Nat
  BY DEF ReportShaped
<1> QED BY <1>1, RaisedCounts DEF Ones

(* What a cycle without a new candidate raises is balanced. *)
LEMMA CycleIsEven ==
  ASSUME NEW status, NEW cause \in {"duplicate", "notUseful", "belowScore"}
  PROVE  /\ Even(Ones(ErrorCounts), 0) /\ Even(Ones(DuplicateCounts), 0)
         /\ Even(Ones(EntryCounts(status)), 0)
         /\ Even(Ones(EntryCounts(status) \cup Rejection(cause)), 0)
<1>1. Even(Ones(ErrorCounts), 0)
  BY DEF Even, Balanced, Ones, Count, ErrorCounts
<1>2. Even(Ones(DuplicateCounts), 0)
  BY DEF Even, Balanced, Ones, Count, DuplicateCounts
<1>3. Even(Ones(EntryCounts(status)), 0)
  BY DEF Even, Balanced, Ones, Count, EntryCounts
<1>4. Even(Ones(EntryCounts(status) \cup Rejection(cause)), 0)
  BY DEF Even, Balanced, Ones, Count, EntryCounts, Rejection
<1> QED BY <1>1, <1>2, <1>3, <1>4

LEMMA CandidateIsEven ==
  ASSUME NEW ok, NEW allowed
  PROVE  /\ Even(Ones(ReplayCounts(ok)), 0)
         /\ Even(Ones(Rejection("alreadyPromoted")), 0)
         /\ Even(Ones(UsefulCounts(allowed)), 1)
<1>1. Even(Ones(ReplayCounts(ok)), 0)
  BY DEF Even, Balanced, Ones, Count, ReplayCounts, Rejection
<1>2. Even(Ones(Rejection("alreadyPromoted")), 0)
  BY DEF Even, Balanced, Ones, Count, Rejection
<1>3. Even(Ones(UsefulCounts(allowed)), 1)
  BY DEF Even, Balanced, Ones, Count, UsefulCounts
<1> QED BY <1>1, <1>2, <1>3

LEMMA RaisedEven ==
  ASSUME NEW r, ReportShaped(r), NEW n \in Nat, Even(r.count, n),
         NEW cs, NEW d \in Nat, Even(Ones(cs), d)
  PROVE  /\ ReportShaped(Raise(r, cs)) /\ Raise(r, cs).candidates = r.candidates
         /\ Even(Raise(r, cs).count, n + d)
<1> DEFINE q == Raise(r, cs)
<1>1. /\ ReportShaped(q) /\ q.candidates = r.candidates
      /\ Ones(cs) \in [Count -> Nat]
      /\ \A c \in Count : q.count[c] = r.count[c] + Ones(cs)[c]
  BY RaisedCounts, RaisedByOnes
<1>2. r.count \in [Count -> Nat]
  BY DEF ReportShaped
<1>3. Even(q.count, n + d)
  BY <1>1, <1>2, EvenSum
<1> QED BY <1>1, <1>3

LEMMA RaisedSums ==
  ASSUME NEW r, Sums(r), NEW cs, Even(Ones(cs), 0)
  PROVE  Sums(Raise(r, cs))
<1>1. Len(r.candidates) \in Nat
  BY Appended DEF Sums, ReportShaped
<1>2. /\ ReportShaped(Raise(r, cs)) /\ Raise(r, cs).candidates = r.candidates
      /\ Even(Raise(r, cs).count, Len(r.candidates) + 0)
  BY <1>1, RaisedEven DEF Sums
<1> QED BY <1>1, <1>2 DEF Sums

(* Leaks and the reason do not count; a candidate counts once it is found useful. *)
LEMMA RestSums ==
  ASSUME NEW r, Sums(r)
  PROVE  /\ \A n : Sums([r EXCEPT !.leaks = n])
         /\ \A n : Sums(Closed(r, n))
         /\ \A e : LET q == [r EXCEPT !.candidates = Append(@, e)]
                   IN ReportShaped(q) /\ q.count = r.count /\ Len(q.candidates) = Len(r.candidates) + 1
<1>1. DOMAIN r = ReportFields
  BY DEF Sums, ReportShaped
<1>2. ASSUME NEW q, DOMAIN q = ReportFields, q.count = r.count, q.candidates = r.candidates
      PROVE  Sums(q)
  BY <1>2 DEF Sums, ReportShaped
<1>3. ASSUME NEW n PROVE Sums([r EXCEPT !.leaks = n])
  BY <1>1, <1>2 DEF ReportFields
<1>4. ASSUME NEW n PROVE Sums(Closed(r, n))
  <2>1. DOMAIN Closed(r, n) = ReportFields
    BY <1>1, Reshaped
  <2>2. Closed(r, n).count = r.count /\ Closed(r, n).candidates = r.candidates
    BY <1>1 DEF Closed, ReportFields
  <2> QED BY <1>2, <2>1, <2>2
<1>5. ASSUME NEW e
      PROVE  LET q == [r EXCEPT !.candidates = Append(@, e)]
             IN ReportShaped(q) /\ q.count = r.count /\ Len(q.candidates) = Len(r.candidates) + 1
  <2> DEFINE q == [r EXCEPT !.candidates = Append(@, e)]
  <2>1. DOMAIN q = ReportFields /\ q.count = r.count /\ q.candidates = Append(r.candidates, e)
    BY <1>1 DEF ReportFields
  <2>2. IsSeq(Append(r.candidates, e)) /\ Len(Append(r.candidates, e)) = Len(r.candidates) + 1
    BY Appended DEF Sums, ReportShaped
  <2> HIDE DEF q
  <2>3. ReportShaped(q) /\ q.count = r.count /\ Len(q.candidates) = Len(r.candidates) + 1
    BY <2>1, <2>2 DEF Sums, ReportShaped
  <2> QED BY <2>3 DEF q
<1> QED BY <1>3, <1>4, <1>5

LEMMA AmongBounded ==
  ASSUME NEW r, ReportShaped(r), NEW S
  PROVE  Cardinality({i \in DOMAIN r.candidates : r.candidates[i] \in S}) \in 0..Len(r.candidates)
<1> DEFINE I == {i \in DOMAIN r.candidates : r.candidates[i] \in S}
<1>1. Len(r.candidates) \in Nat /\ DOMAIN r.candidates = 1..Len(r.candidates)
  BY Appended DEF ReportShaped
<1>2. /\ IsFiniteSet(1..Len(r.candidates))
      /\ Cardinality(1..Len(r.candidates)) = Len(r.candidates)
  BY <1>1, FS_Interval
<1>3. I \subseteq 1..Len(r.candidates)
  BY <1>1
<1>4. Cardinality(I) \in Nat /\ Cardinality(I) <= Len(r.candidates)
  BY <1>2, <1>3, FS_Subset, FS_CardinalityType
<1> QED BY <1>1, <1>4

LEMMA ReconciledAgrees ==
  ASSUME NEW r, ReportShaped(r), Agrees(r), NEW replay, NEW ok, NEW allowed, NEW promoted
  PROVE  LET q == Reconciled(r, replay, ok, allowed, promoted)
         IN ReportShaped(q) /\ Agrees(q) /\ q.reason = r.reason
<1> DEFINE q == Reconciled(r, replay, ok, allowed, promoted)
           n == Len(r.candidates)
           passed == Among(r, LAMBDA run : run \in ok)
           gone == Among(r, LAMBDA run : run \in promoted)
           ready == Among(r, LAMBDA run : run \in allowed)
           c == r.count
           rejected == Less(Less(c["rejected"], c["failedReplay"]), c["alreadyPromoted"]) + (n - passed) + gone
           counts == [c EXCEPT !["replayAttempted"] = IF replay THEN n ELSE 0,
                               !["replayPassed"] = passed,
                               !["replayFailed"] = n - passed,
                               !["failedReplay"] = n - passed,
                               !["ready"] = ready,
                               !["alreadyPromoted"] = gone,
                               !["rejected"] = rejected]
<1> SUFFICES ReportShaped(q) /\ Agrees(q) /\ q.reason = r.reason
  OBVIOUS
<1>1. n \in Nat /\ passed \in 0..n /\ gone \in 0..n /\ ready \in 0..n
  <2>1. n \in Nat
    BY Appended DEF ReportShaped
  <2>2. passed \in 0..n
    BY AmongBounded DEF Among
  <2>3. gone \in 0..n
    BY AmongBounded DEF Among
  <2>4. ready \in 0..n
    BY AmongBounded DEF Among
  <2> QED BY <2>1, <2>2, <2>3, <2>4
<1>2. CASE r.candidates = <<>>
  BY <1>2 DEF Reconciled
<1>3. CASE r.candidates # <<>>
  <2>1. DOMAIN r = ReportFields /\ c \in [Count -> Nat]
    BY DEF ReportShaped
  <2>2. /\ DOMAIN q = ReportFields /\ q.count = counts /\ q.candidates = r.candidates
        /\ q.reason = r.reason
    BY <1>3, <2>1 DEF Reconciled, ReportFields
  <2> HIDE DEF q
  <2>3. /\ c["duplicate"] \in Nat /\ c["failedValidator"] \in Nat /\ c["notUseful"] \in Nat
        /\ c["belowScore"] \in Nat /\ c["failedReplay"] \in Nat /\ c["alreadyPromoted"] \in Nat
        /\ c["rejected"] = c["duplicate"] + c["failedValidator"] + c["notUseful"] + c["belowScore"]
                           + c["failedReplay"] + c["alreadyPromoted"]
    BY <2>1 DEF Count, Agrees, Balanced
  <2>4. Less(Less(c["rejected"], c["failedReplay"]), c["alreadyPromoted"])
          = c["duplicate"] + c["failedValidator"] + c["notUseful"] + c["belowScore"]
    BY <2>3 DEF Less
  <2> HIDE DEF n, passed, gone, ready
  <2>5. rejected = c["duplicate"] + c["failedValidator"] + c["notUseful"] + c["belowScore"]
                   + (n - passed) + gone
    BY <2>4
  <2>6. n - passed \in Nat /\ gone \in Nat /\ passed \in Nat /\ ready \in Nat /\ rejected \in Nat
    BY <1>1, <2>3, <2>5
  <2> HIDE DEF rejected
  <2>7. counts \in [Count -> Nat]
    BY <1>1, <2>1, <2>6
  <2>8. /\ counts["duplicate"] = c["duplicate"] /\ counts["failedValidator"] = c["failedValidator"]
        /\ counts["notUseful"] = c["notUseful"] /\ counts["belowScore"] = c["belowScore"]
        /\ counts["failedReplay"] = n - passed /\ counts["alreadyPromoted"] = gone
        /\ counts["rejected"] = rejected
        /\ counts["total"] = c["total"] /\ counts["passed"] = c["passed"] /\ counts["failed"] = c["failed"]
        /\ counts["useful"] = c["useful"]
        /\ counts["replayPassed"] = passed /\ counts["replayFailed"] = n - passed
        /\ counts["replayAttempted"] = IF replay THEN n ELSE 0
    BY <2>1 DEF Count
  <2> HIDE DEF counts, c
  <2>9. Balanced(counts, n)
    <3>1. counts["total"] = counts["passed"] + counts["failed"] /\ counts["useful"] = n
      BY <2>8 DEF Agrees, Balanced, c, n
    <3>2. counts["rejected"] = counts["duplicate"] + counts["failedValidator"] + counts["notUseful"]
            + counts["belowScore"] + counts["failedReplay"] + counts["alreadyPromoted"]
      BY <2>5, <2>8
    <3>3. counts["replayAttempted"] \in {0, counts["replayPassed"] + counts["replayFailed"]}
      BY <1>1, <2>8
    <3> QED BY <2>8, <3>1, <3>2, <3>3 DEF Balanced
  <2> QED BY <2>2, <2>7, <2>9 DEF ReportShaped, Agrees, n
<1> QED BY <1>2, <1>3

LEMMA CountsInvInit == Init => CountsInv
<1> SUFFICES ASSUME Init PROVE CountsInv
  OBVIOUS
<1>1. Shaped /\ At("idle") /\ campaigns = <<>>
  BY DEF Init, Shaped, At, Idle
<1>2. campaigns \in Seq(Nat) /\ DOMAIN campaigns = {}
  BY <1>1
<1>3. IsSeq(campaigns)
  BY <1>2, SequenceOfElements
<1> QED BY <1>1, <1>2, <1>3 DEF CountsInv

LEMMA CountsInvKept == ASSUME CountsInv, [Next]_vars PROVE CountsInv'
<1>0. Shaped /\ Shaped'
  BY ShapeKept DEF CountsInv
<1>1. ASSUME UNCHANGED campaigns, cmd' = Idle \/ Sums(cmd'.report) PROVE CountsInv'
  BY <1>0, <1>1 DEF CountsInv, At, Idle
<1>2. ~ At("idle") => DOMAIN cmd = CommandFields /\ Sums(cmd.report)
  BY <1>0 DEF CountsInv, Shaped, At, Idle
<1>3. ASSUME UNCHANGED campaigns, ~ At("idle"), cmd' = Idle \/ cmd'.report = cmd.report PROVE CountsInv'
  BY <1>1, <1>2, <1>3
<1>4. CASE \E level \in Level, t \in TaskId, path \in Path, n \in 1..MaxAsked : Begin(level, t, path, n)
  <2>1. UNCHANGED campaigns /\ cmd'.report = EmptyReport
    BY <1>4 DEF Begin, Become
  <2> QED BY <1>1, <2>1, EmptySums
<1>5. CASE Round
  <2>1. UNCHANGED campaigns /\ ~ At("idle")
    BY <1>5 DEF Round, At
  <2>2. cmd' = Idle \/ cmd'.report = cmd.report
    BY <1>2, <1>5, <2>1 DEF Round, Become, Stop, CommandFields
  <2> QED BY <1>3, <2>1, <2>2
<1>6. CASE Open
  <2>1. UNCHANGED campaigns /\ ~ At("idle")
    BY <1>6 DEF Open, At
  <2>2. cmd' = Idle \/ cmd'.report = EmptyReport
    BY <1>2, <1>6, <2>1 DEF Open, Become, Stop, CommandFields
  <2> QED BY <1>1, <2>1, <2>2, EmptySums
<1>7. CASE Cycle
  <2>1. UNCHANGED campaigns
    BY <1>7 DEF Cycle
  <2>2. ~ At("idle")
    BY <1>7 DEF Cycle, At
  <2>3. /\ DOMAIN cmd'.report = DOMAIN cmd.report
        /\ cmd'.report.count = cmd.report.count /\ cmd'.report.candidates = cmd.report.candidates
    BY <1>0, <1>7, CycleEnds DEF ReportFields
  <2>4. Sums(cmd'.report)
    BY <1>2, <2>2, <2>3 DEF Sums, ReportShaped
  <2> QED BY <1>1, <2>1, <2>4
<1>8. CASE Record
  <2>1. UNCHANGED campaigns /\ ~ At("idle")
    BY <1>8 DEF Record, At
  <2> DEFINE seen == EntryCounts(Last.status)
             report == [cmd.report EXCEPT !.leaks = @ + Sandboxes]
  <2>2. Sums(cmd.report) /\ Sums(report)
    BY <1>2, <2>1, RestSums
  <2>3. \/ cmd'.report = Raise(cmd.report, ErrorCounts)
        \/ cmd'.report = Raise(cmd.report, DuplicateCounts)
        \/ cmd'.report = Raise(cmd.report, seen \cup Rejection("duplicate"))
        \/ cmd'.report = Raise(report, seen \cup Rejection("notUseful"))
        \/ cmd'.report = Raise(report, seen \cup Rejection("belowScore"))
        \/ cmd'.report = Raise(report, seen)
    BY <1>2, <1>8, <2>1 DEF Record, Become, CommandFields, ErrorCountsNow
  <2> HIDE DEF report
  <2>4. Sums(cmd'.report)
    BY <2>2, <2>3, CycleIsEven, RaisedSums
  <2> QED BY <1>1, <2>1, <2>4
<1>9. CASE ReplayAndCount
  <2>1. UNCHANGED campaigns /\ ~ At("idle")
    BY <1>9 DEF ReplayAndCount, At
  <2> DEFINE found == IF cmd.review.promoted THEN Rejection("alreadyPromoted")
                      ELSE UsefulCounts(cmd.review.allowed)
             kept == IF cmd.review.promoted THEN cmd.report
                     ELSE [cmd.report EXCEPT !.candidates = Append(@, cmd.found)]
             n == Len(cmd.report.candidates)
             d == IF cmd.review.promoted THEN 0 ELSE 1
  <2>2. Sums(cmd.report)
    BY <1>2, <2>1
  <2>3. n \in Nat /\ d \in Nat
    BY <2>2, Appended DEF Sums, ReportShaped
  <2>4. ReportShaped(kept) /\ Even(kept.count, n) /\ Len(kept.candidates) = n + d
    <3>1. CASE cmd.review.promoted
      BY <2>2, <2>3, <3>1 DEF Sums
    <3>2. CASE ~ cmd.review.promoted
      BY <2>2, <2>3, <3>2, RestSums DEF Sums
    <3> QED BY <3>1, <3>2
  <2>5. Even(Ones(found), d)
    BY CandidateIsEven
  <2>6. \/ cmd'.report = Raise(kept, found)
        \/ \E ok : cmd'.report = Raise(Raise(kept, ReplayCounts(ok)), found)
    <3>1. CASE cmd.task.replay
      <4>1. PICK result \in {"ok", "failed", "error"} :
              cmd' = [cmd EXCEPT !.step = "cycle",
                                 !.report = Raise(Raise(kept, ReplayCounts(result # "error" /\ cmd.review.ok)),
                                                  found)]
        BY <1>9, <3>1 DEF ReplayAndCount, Become
      <4> DEFINE ok == result # "error" /\ cmd.review.ok
      <4> HIDE DEF kept, found
      <4>2. cmd'.report = Raise(Raise(kept, ReplayCounts(ok)), found)
        BY <1>2, <2>1, <4>1 DEF CommandFields
      <4> QED BY <4>2
    <3>2. CASE ~ cmd.task.replay
      <4>1. cmd' = [cmd EXCEPT !.step = "cycle", !.report = Raise(kept, found)]
        BY <1>9, <3>2 DEF ReplayAndCount, Become
      <4> HIDE DEF kept, found
      <4> QED BY <1>2, <2>1, <4>1 DEF CommandFields
    <3> QED BY <3>1, <3>2
  <2> HIDE DEF kept, found, n, d
  <2>7. ASSUME NEW q, ReportShaped(q), Even(q.count, n), q.candidates = kept.candidates,
               cmd'.report = Raise(q, found)
        PROVE  Sums(cmd'.report)
    <3>1. /\ ReportShaped(Raise(q, found)) /\ Raise(q, found).candidates = q.candidates
          /\ Even(Raise(q, found).count, n + d)
      BY <2>3, <2>5, <2>7, RaisedEven
    <3> QED BY <2>4, <2>7, <3>1 DEF Sums
  <2>8. ASSUME \E ok : cmd'.report = Raise(Raise(kept, ReplayCounts(ok)), found)
        PROVE  Sums(cmd'.report)
    <3>1. PICK ok : cmd'.report = Raise(Raise(kept, ReplayCounts(ok)), found)
      BY <2>8
    <3> DEFINE q == Raise(kept, ReplayCounts(ok))
    <3>2. Even(Ones(ReplayCounts(ok)), 0)
      BY CandidateIsEven
    <3>3. ReportShaped(q) /\ q.candidates = kept.candidates /\ Even(q.count, n + 0)
      BY <2>3, <2>4, <3>2, RaisedEven
    <3>4. n + 0 = n
      BY <2>3
    <3> QED BY <2>7, <3>1, <3>3, <3>4
  <2>9. Sums(cmd'.report)
    BY <2>4, <2>6, <2>7, <2>8
  <2> QED BY <1>1, <2>1, <2>9
<1>10. CASE Close
  <2> DEFINE report == Closed(cmd.report, Sandboxes)
  <2>1. campaigns' = Append(campaigns, report) /\ ~ At("idle")
    BY <1>10 DEF Close, At
  <2>2. Sums(report)
    BY <1>2, <2>1, RestSums
  <2>3. cmd' = Idle \/ cmd'.report = report
    BY <1>2, <1>10, <2>1 DEF Close, Become, Stop, CommandFields
  <2>4. ReportShaped(report) /\ Agrees(report)
    BY <2>2 DEF Sums, Even, Agrees
  <2> HIDE DEF report
  <2>5. /\ IsSeq(campaigns') /\ Len(campaigns) \in Nat
        /\ DOMAIN campaigns = 1..Len(campaigns) /\ DOMAIN campaigns' = 1..(Len(campaigns) + 1)
        /\ \A i \in 1..Len(campaigns) : campaigns'[i] = campaigns[i]
        /\ campaigns'[Len(campaigns) + 1] = report
    BY <2>1, Appended DEF CountsInv
  <2>6. ASSUME NEW i \in DOMAIN campaigns' PROVE ReportShaped(campaigns'[i]) /\ Agrees(campaigns'[i])
    <3>1. i \in 1..Len(campaigns) \/ i = Len(campaigns) + 1
      BY <2>5
    <3>2. CASE i \in 1..Len(campaigns)
      BY <2>5, <3>2 DEF CountsInv
    <3>3. CASE i = Len(campaigns) + 1
      BY <2>4, <2>5, <3>3
    <3> QED BY <3>1, <3>2, <3>3
  <2>7. ~ At("idle")' => Sums(cmd'.report)
    BY <2>2, <2>3 DEF At, Idle
  <2> QED BY <1>0, <2>5, <2>6, <2>7 DEF CountsInv
<1>11. CASE Adjust
  <2>1. UNCHANGED campaigns /\ ~ At("idle")
    BY <1>11 DEF Adjust, At
  <2>2. cmd'.report = cmd.report
    BY <1>2, <1>11, <2>1 DEF Adjust, Become, CommandFields
  <2> QED BY <1>3, <2>1, <2>2
<1>12. CASE Again
  <2>1. UNCHANGED campaigns /\ ~ At("idle")
    BY <1>12 DEF Again, At
  <2>2. cmd'.report = cmd.report
    BY <1>2, <1>12, <2>1 DEF Again, Go, Become, CommandFields
  <2> QED BY <1>3, <2>1, <2>2
<1>13. CASE ReviewAgain
  <2>1. UNCHANGED campaigns /\ ~ At("idle")
    BY <1>13 DEF ReviewAgain, At
  <2>2. cmd'.report = cmd.report
    BY <1>2, <1>13, <2>1 DEF ReviewAgain, Become, CommandFields
  <2> QED BY <1>3, <2>1, <2>2
<1>14. CASE Reconcile
  <2>1. campaigns' = [campaigns EXCEPT ![Cid] = Refreshed(@)] /\ ~ At("idle")
    BY <1>14 DEF Reconcile, At
  <2>2. cmd'.report = cmd.report
    BY <1>2, <1>14, <2>1 DEF Reconcile, Become, CommandFields
  <2>3. IsSeq(campaigns) /\ Len(campaigns) \in Nat /\ DOMAIN campaigns = 1..Len(campaigns)
        /\ \A i \in DOMAIN campaigns : ReportShaped(campaigns[i]) /\ Agrees(campaigns[i])
    BY Appended DEF CountsInv
  <2>4. DOMAIN campaigns' = DOMAIN campaigns
    BY <2>1
  <2>5. ASSUME NEW i \in DOMAIN campaigns PROVE ReportShaped(campaigns'[i]) /\ Agrees(campaigns'[i])
    <3>1. CASE i # Cid
      BY <2>1, <2>3, <3>1
    <3>2. CASE i = Cid
      <4>1. campaigns'[i] = Refreshed(campaigns[i])
        BY <2>1, <3>2
      <4>2. ReportShaped(Refreshed(campaigns[i])) /\ Agrees(Refreshed(campaigns[i]))
        BY <2>3, ReconciledAgrees DEF Refreshed
      <4> QED BY <4>1, <4>2
    <3> QED BY <3>1, <3>2
  <2>6. IsSeq(campaigns')
    <3>1. campaigns' = [i \in 1..Len(campaigns) |-> campaigns'[i]]
      BY <2>1, <2>3
    <3>2. campaigns' \in Seq(Elements(campaigns'))
      BY <2>3, <2>4, <3>1 DEF Elements
    <3> QED BY <3>2, SequenceOfElements
  <2>7. ~ At("idle")' => Sums(cmd'.report)
    BY <1>2, <2>1, <2>2
  <2> QED BY <1>0, <2>4, <2>5, <2>6, <2>7 DEF CountsInv
<1>15. CASE Finish
  <2>1. UNCHANGED campaigns /\ ~ At("idle")
    BY <1>15 DEF Finish, At
  <2>2. cmd' = Idle \/ cmd'.report = cmd.report
    BY <1>2, <1>15, <2>1 DEF Finish, Go, Become, Stop, CommandFields
  <2> QED BY <1>3, <2>1, <2>2
<1>16. CASE Collect
  <2>1. UNCHANGED campaigns /\ ~ At("idle")
    BY <1>16 DEF Collect, At
  <2>2. cmd'.report = cmd.report
    BY <1>2, <1>16, <2>1 DEF Collect, Become, CommandFields
  <2> QED BY <1>3, <2>1, <2>2
<1>17. CASE End
  BY <1>1, <1>17 DEF End, Become, Stop
<1>18. CASE Crash
  BY <1>1, <1>18 DEF Crash, Become, Stop
<1>19. CASE Others \/ UNCHANGED vars
  <2>1. UNCHANGED <<cmd, campaigns>>
    BY <1>19 DEF Others, OthersBegin, OthersEnd, OthersDuplicate, OthersPromote, vars
  <2> QED BY <1>0, <2>1 DEF CountsInv, At
<1> QED
  BY <1>4, <1>5, <1>6, <1>7, <1>8, <1>9, <1>10, <1>11, <1>12, <1>13, <1>14, <1>15, <1>16, <1>17,
     <1>18, <1>19 DEF Next

(* In every report, being written or recounted, the cycles are the passed and the failed ones
   and every rejection has one cause. *)
THEOREM CountsAlwaysAgree == Spec => []CountsAgree
<1>1. CountsInv => CountsAgree
  <2> SUFFICES ASSUME CountsInv,
                      NEW r \in Elements(campaigns) \cup (IF At("idle") THEN {} ELSE {cmd.report})
               PROVE  Agrees(r)
    BY DEF CountsAgree, Agrees, Balanced
  <2>1. CASE r \in Elements(campaigns)
    BY <2>1 DEF CountsInv, Elements
  <2>2. CASE ~ At("idle") /\ r = cmd.report
    BY <2>2 DEF CountsInv, Sums, Even, Agrees
  <2> QED BY <2>1, <2>2
<1>2. CountsInv /\ [Next]_vars => CountsInv'
  BY CountsInvKept
<1> QED BY <1>1, <1>2, CountsInvInit, PTL DEF Spec

-----------------------------------------------------------------------------
(* Drafts *)

Good(t) == t \in Task /\ Valid(t)

LEMMA OneCycleGood ==
  ASSUME NEW t, Good(t)
  PROVE  Good(OneCycle(t)) /\ OneCycle(t).cycles = 1
<1>1. OneCycle(t) \in Task /\ OneCycle(t).cycles = 1
  BY DEF Good, Task, OneCycle
<1>2. /\ OneCycle(t).maxRisk = t.maxRisk /\ OneCycle(t).autoPromote = t.autoPromote
      /\ OneCycle(t).forbidden = t.forbidden /\ OneCycle(t).denied = t.denied
      /\ OneCycle(t).targets = t.targets
  BY DEF Good, Task, OneCycle
<1> QED BY <1>1, <1>2 DEF Good, Valid

(* Whatever the reason, the draft made of a valid contract keeps the limits of a draft. *)
LEMMA DraftIsValid ==
  ASSUME NEW t, Good(t), NEW reason
  PROVE  Adjusted(t, reason) \in Task /\ ValidDraft(Adjusted(t, reason), t)
<1> DEFINE a == Adjusted(t, reason)
<1>0. t \in Task
  BY DEF Good
<1>1. /\ a.targets = DraftTargets(t, reason) /\ a.kinds = DraftKinds(t, reason)
      /\ a.forbidden = t.forbidden /\ a.objectives = t.objectives /\ a.denied = RequiredDenied
      /\ a.maxRisk = Least(t.maxRisk, 25) /\ a.minScore = DraftScore(t, reason)
      /\ a.cycles = Least(t.cycles + 1, Least(t.cycles + 2, 5))
      /\ a.replay = TRUE /\ a.benchmark = t.benchmark /\ a.autoPromote = FALSE
  BY <1>0 DEF Adjusted, Task
<1>2. DOMAIN a = DOMAIN t
  BY <1>0 DEF Adjusted, Task
<1>3. DraftTargets(t, reason) \subseteq SafeTargetsWithRuntime
  BY DEF DraftTargets, BroadTargets, SaneTargets, SafeTargetsWithRuntime, SafeTargets
<1>4. DraftKinds(t, reason) \subseteq SafeKinds
  BY DEF DraftKinds, SaneKinds, OtherKinds, SafeKinds
<1>5. t.minScore \in Nat /\ t.maxRisk \in Nat /\ t.cycles \in Nat /\ t.benchmark \in BOOLEAN
  BY <1>0 DEF Task
<1>6. DraftScore(t, reason) \in Nat /\ DraftScore(t, reason) >= 50
  BY <1>5 DEF DraftScore, Most, Less
<1>7. Least(t.maxRisk, 25) \in Nat /\ Least(t.maxRisk, 25) <= 25
  BY <1>5 DEF Least
<1>8. /\ a.cycles \in Nat /\ a.cycles > 0 /\ a.cycles <= 100
      /\ a.cycles <= Least(t.cycles + 2, 5)
  BY <1>1, <1>5 DEF Least
<1>9. SafeTargetsWithRuntime \subseteq Pattern /\ SafeKinds \subseteq Kind
      /\ SafeTargetsWithRuntime \cap BadPattern = {}
  BY RulesAssumption
<1>10. /\ t.forbidden \subseteq Pattern /\ t.objectives \subseteq Objective
       /\ HardForbidden \subseteq t.forbidden /\ t.forbidden \cap BadPattern = {}
  BY <1>0 DEF Good, Task, Valid
<1> HIDE DEF a
<1>11. a \in Task
  <2>1. /\ DraftTargets(t, reason) \in SUBSET Pattern /\ DraftKinds(t, reason) \in SUBSET Kind
        /\ RequiredDenied \in SUBSET RequiredDenied
    BY <1>3, <1>4, <1>9
  <2>2. Least(t.cycles + 1, Least(t.cycles + 2, 5)) \in Nat
    BY <1>5 DEF Least
  <2> QED BY <1>0, <1>6, <1>7, <2>1, <2>2 DEF Task, a, Adjusted
<1>12. Valid(a)
  <2>1. a.maxRisk <= 35
    BY <1>1, <1>7
  <2>2. (a.targets \cup a.forbidden) \cap BadPattern = {}
    BY <1>1, <1>3, <1>9, <1>10
  <2> QED BY <1>1, <1>8, <1>10, <2>1, <2>2 DEF Valid
<1>13. ValidDraft(a, t)
  BY <1>1, <1>3, <1>4, <1>6, <1>7, <1>8, <1>12 DEF ValidDraft
<1> QED BY <1>11, <1>13 DEF a

BoundedFields == {"task", "campaigns", "candidates", "ready", "zeroYield", "drafts", "leaks"}
DraftedIn(b, cs) == {i \in DOMAIN b.zeroYield : cs[b.zeroYield[i]].reason \in DraftReason}

(* A bounded run counts the drafts of its campaigns without yield. *)
BoundedOk(b, cs) ==
  /\ DOMAIN b = BoundedFields
  /\ IsSeq(b.zeroYield)
  /\ \A i \in DOMAIN b.zeroYield : b.zeroYield[i] \in DOMAIN cs
  /\ b.drafts = Cardinality(DraftedIn(b, cs))

LEMMA BoundedStays ==
  ASSUME NEW b, NEW cs, NEW later, BoundedOk(b, cs), DOMAIN cs \subseteq DOMAIN later,
         \A i \in DOMAIN cs : later[i].reason = cs[i].reason
  PROVE  BoundedOk(b, later)
<1>1. DraftedIn(b, later) = DraftedIn(b, cs)
  BY DEF BoundedOk, DraftedIn
<1> QED BY <1>1 DEF BoundedOk

LEMMA EmptyBoundedOk == \A t, cs : BoundedOk(EmptyBounded(t), cs)
<1> SUFFICES ASSUME NEW t, NEW cs PROVE BoundedOk(EmptyBounded(t), cs)
  OBVIOUS
<1> DEFINE b == EmptyBounded(t)
<1>1. DOMAIN b = BoundedFields /\ b.zeroYield = <<>> /\ b.drafts = 0
  BY DEF EmptyBounded, BoundedFields
<1>2. <<>> \in Seq(Nat) /\ DOMAIN <<>> = {}
  OBVIOUS
<1>3. IsSeq(b.zeroYield) /\ DOMAIN b.zeroYield = {}
  BY <1>1, <1>2, SequenceOfElements
<1> HIDE DEF b
<1>4. DraftedIn(b, cs) = {}
  BY <1>3 DEF DraftedIn
<1>5. Cardinality(DraftedIn(b, cs)) = 0
  BY <1>4, FS_EmptySet
<1>6. BoundedOk(b, cs)
  BY <1>1, <1>3, <1>5 DEF BoundedOk
<1> QED BY <1>6 DEF b

(* One campaign without yield more. *)
LEMMA BoundedGrows ==
  ASSUME NEW b, NEW cs, BoundedOk(b, cs), NEW c \in DOMAIN cs, NEW next,
         DOMAIN next = BoundedFields, next.zeroYield = Append(b.zeroYield, c),
         next.drafts = IF cs[c].reason \in DraftReason THEN b.drafts + 1 ELSE b.drafts
  PROVE  BoundedOk(next, cs)
<1> DEFINE n == Len(b.zeroYield)
<1>1. /\ IsSeq(next.zeroYield) /\ n \in Nat /\ DOMAIN b.zeroYield = 1..n
      /\ DOMAIN next.zeroYield = 1..(n + 1) /\ next.zeroYield[n + 1] = c
      /\ \A i \in 1..n : next.zeroYield[i] = b.zeroYield[i]
  BY Appended DEF BoundedOk
<1> HIDE DEF n
<1>2. \A i \in 1..(n + 1) : i \in 1..n \/ i = n + 1
  BY <1>1
<1>3. \A i \in DOMAIN next.zeroYield : next.zeroYield[i] \in DOMAIN cs
  BY <1>1, <1>2 DEF BoundedOk
<1>4. IsFiniteSet(DraftedIn(b, cs)) /\ n + 1 \notin DraftedIn(b, cs)
  <2>1. IsFiniteSet(1..n) /\ DraftedIn(b, cs) \subseteq 1..n
    BY <1>1, FS_Interval DEF DraftedIn
  <2>2. n + 1 \notin 1..n
    BY <1>1
  <2> QED BY <2>1, <2>2, FS_Subset
<1>5. DraftedIn(next, cs) = IF cs[c].reason \in DraftReason THEN DraftedIn(b, cs) \cup {n + 1}
                            ELSE DraftedIn(b, cs)
  <2>1. 1..n \subseteq 1..(n + 1) /\ n + 1 \in 1..(n + 1)
    BY <1>1
  <2>2. \A i \in 1..n : next.zeroYield[i] = b.zeroYield[i]
    BY <1>1
  <2>3. DraftedIn(b, cs) = {i \in 1..n : cs[b.zeroYield[i]].reason \in DraftReason}
    BY <1>1 DEF DraftedIn
  <2>4. DraftedIn(next, cs) = {i \in 1..(n + 1) : cs[next.zeroYield[i]].reason \in DraftReason}
    BY <1>1 DEF DraftedIn
  <2>5. cs[next.zeroYield[n + 1]].reason = cs[c].reason
    BY <1>1
  <2> QED BY <1>2, <2>1, <2>2, <2>3, <2>4, <2>5
<1>6. next.drafts = Cardinality(DraftedIn(next, cs))
  <2>1. b.drafts = Cardinality(DraftedIn(b, cs))
    BY DEF BoundedOk
  <2>2. Cardinality(DraftedIn(b, cs) \cup {n + 1}) = Cardinality(DraftedIn(b, cs)) + 1
    BY <1>4, FS_AddElement
  <2> QED BY <1>5, <2>1, <2>2
<1> QED BY <1>1, <1>3, <1>6 DEF BoundedOk

CommandOk ==
  /\ cmd.id \in TaskId /\ Good(cmd.task)
  /\ BoundedOk(cmd.bounded, campaigns)
  /\ (cmd.level # "campaign" /\ cmd.step \in {"cycle", "record", "replay", "adjust"}) =>
       stored[cmd.id] = OneCycle(cmd.task)
  /\ cmd.step = "adjust" => /\ cmd.level # "campaign"
                            /\ Cid \in DOMAIN campaigns /\ campaigns[Cid] = cmd.report

DraftInv ==
  /\ CountsInv
  /\ stored \in [TaskId -> Task \cup {NoTask}]
  /\ adjusted \in [TaskId -> Task \cup {NoTask}]
  /\ \A t \in TaskId : adjusted[t] # NoTask => ValidDraft(adjusted[t], OneCycle(Contract[t]))
  /\ IsSeq(boundedRuns)
  /\ \A i \in DOMAIN boundedRuns : BoundedOk(boundedRuns[i], campaigns)
  /\ ~ At("idle") => CommandOk

LEMMA DraftInvInit == Init => DraftInv
<1> SUFFICES ASSUME Init PROVE DraftInv
  OBVIOUS
<1>1. CountsInv
  BY CountsInvInit
<1>2. At("idle") /\ boundedRuns = <<>>
  BY DEF Init, At, Idle
<1>3. boundedRuns \in Seq(Nat) /\ DOMAIN boundedRuns = {}
  BY <1>2
<1>4. IsSeq(boundedRuns)
  BY <1>3, SequenceOfElements
<1>5. /\ stored = [t \in TaskId |-> NoTask] /\ adjusted = [t \in TaskId |-> NoTask]
  BY DEF Init
<1> QED BY <1>1, <1>2, <1>3, <1>4, <1>5 DEF DraftInv

LEMMA DraftInvKept == ASSUME DraftInv, [Next]_vars PROVE DraftInv'
<1>0. /\ CountsInv /\ CountsInv' /\ Shaped /\ Shaped'
      /\ stored \in [TaskId -> Task \cup {NoTask}] /\ adjusted \in [TaskId -> Task \cup {NoTask}]
  BY CountsInvKept DEF DraftInv, CountsInv
<1> DEFINE Files == <<stored, adjusted, campaigns, boundedRuns>>
<1>1. ~ At("idle") => DOMAIN cmd = CommandFields /\ CommandOk
  BY <1>0 DEF DraftInv, Shaped, At, Idle
<1>2. \A path : \A t \in TaskId : Loadable(t, path) => Good(FileAt(t, path))
  BY <1>0, UnattendedAssumption DEF Loadable, FileAt, Good
<1>3. ASSUME UNCHANGED Files, cmd' = Idle \/ CommandOk' PROVE DraftInv'
  <2>1. ~ At("idle")' => CommandOk'
    BY <1>3 DEF At, Idle
  <2> QED BY <1>0, <1>3, <2>1 DEF DraftInv
<1>4. ASSUME UNCHANGED Files, ~ At("idle"),
             cmd'.id = cmd.id, cmd'.task = cmd.task, cmd'.level = cmd.level,
             BoundedOk(cmd'.bounded, campaigns),
             cmd'.step # "adjust",
             cmd'.step \in {"cycle", "record", "replay"} => cmd.step \in {"cycle", "record", "replay"}
      PROVE  DraftInv'
  <2>1. CommandOk'
    BY <1>1, <1>4 DEF CommandOk
  <2> QED BY <1>3, <1>4, <2>1
<1>5. CASE \E level \in Level, t \in TaskId, path \in Path, n \in 1..MaxAsked : Begin(level, t, path, n)
  <2>1. PICK level \in Level, t \in TaskId, path \in Path, n \in 1..MaxAsked : Begin(level, t, path, n)
    BY <1>5
  <2>2. /\ cmd'.id = t /\ cmd'.task = FileAt(t, path) /\ cmd'.bounded = EmptyBounded(t)
        /\ cmd'.step \in {"round", "open"}
    BY <2>1 DEF Begin, Become
  <2>3. UNCHANGED Files /\ Loadable(t, path)
    BY <2>1 DEF Begin
  <2>4. BoundedOk(cmd'.bounded, campaigns')
    BY <2>2, EmptyBoundedOk
  <2> QED BY <1>2, <1>3, <2>2, <2>3, <2>4 DEF CommandOk
<1>6. CASE Round
  <2>1. UNCHANGED Files /\ ~ At("idle")
    BY <1>6 DEF Round, At
  <2>2. CASE cmd' = Idle
    BY <1>3, <2>1, <2>2
  <2>3. CASE cmd' # Idle
    <3>1. Loadable(cmd.id, cmd.path)
      BY <1>6, <2>3 DEF Round, Become, Stop
    <3>2. /\ cmd'.id = cmd.id /\ cmd'.task = FileAt(cmd.id, cmd.path) /\ cmd'.bounded = EmptyBounded(cmd.id)
          /\ cmd'.step = "open"
      BY <1>1, <1>6, <2>1, <2>3 DEF Round, Become, Stop, CommandFields
    <3>3. BoundedOk(cmd'.bounded, campaigns')
      BY <3>2, EmptyBoundedOk
    <3>4. cmd.id \in TaskId
      BY <1>1, <2>1 DEF CommandOk
    <3> QED BY <1>2, <1>3, <2>1, <3>1, <3>2, <3>3, <3>4 DEF CommandOk
  <2> QED BY <2>2, <2>3
<1>7. CASE Open
  <2> DEFINE task == IF cmd.level = "campaign" THEN cmd.task ELSE OneCycle(cmd.task)
  <2>1. /\ UNCHANGED <<adjusted, campaigns, boundedRuns>> /\ ~ At("idle")
        /\ stored' = [stored EXCEPT ![cmd.id] = task]
    BY <1>7 DEF Open, At
  <2>2. Good(task) /\ cmd.id \in TaskId
    BY <1>1, <2>1, OneCycleGood DEF CommandOk
  <2>3. stored' \in [TaskId -> Task \cup {NoTask}] /\ stored'[cmd.id] = task
    BY <1>0, <2>1, <2>2 DEF Good
  <2>4. CASE cmd' = Idle
    <3>1. At("idle")'
      BY <2>4 DEF At, Idle
    <3> QED BY <1>0, <2>1, <2>3, <3>1 DEF DraftInv
  <2>5. CASE cmd' # Idle
    <3>1. /\ cmd'.id = cmd.id /\ cmd'.task = cmd.task /\ cmd'.bounded = cmd.bounded
          /\ cmd'.level = cmd.level /\ cmd'.step = "cycle"
      BY <1>1, <1>7, <2>1, <2>5 DEF Open, Become, Stop, CommandFields
    <3>2. CommandOk'
      BY <1>1, <2>1, <2>3, <3>1 DEF CommandOk
    <3> QED BY <1>0, <2>1, <2>3, <3>2 DEF DraftInv
  <2> QED BY <2>4, <2>5
<1>8. CASE Cycle
  <2>1. UNCHANGED Files
    BY <1>8 DEF Cycle
  <2>2. cmd.step = "cycle"
    BY <1>8 DEF Cycle, At
  <2>3. /\ cmd'.id = cmd.id /\ cmd'.task = cmd.task /\ cmd'.bounded = cmd.bounded
        /\ cmd'.level = cmd.level /\ cmd'.step = "record"
    BY <1>0, <1>8, CycleEnds DEF Kept
  <2>4. ~ At("idle")
    BY <2>2 DEF At
  <2> QED BY <1>1, <1>4, <2>1, <2>2, <2>3, <2>4 DEF CommandOk
<1>9. CASE Record
  <2>1. UNCHANGED Files /\ cmd.step = "record" /\ ~ At("idle")
    BY <1>9 DEF Record, At
  <2>2. /\ cmd'.id = cmd.id /\ cmd'.task = cmd.task /\ cmd'.bounded = cmd.bounded
        /\ cmd'.level = cmd.level /\ cmd'.step \in {"cycle", "replay"}
    BY <1>1, <1>9, <2>1 DEF Record, Become, CommandFields
  <2> QED BY <1>1, <1>4, <2>1, <2>2 DEF CommandOk
<1>10. CASE ReplayAndCount
  <2>1. UNCHANGED Files /\ cmd.step = "replay" /\ ~ At("idle")
    BY <1>10 DEF ReplayAndCount, At
  <2>2. /\ cmd'.id = cmd.id /\ cmd'.task = cmd.task /\ cmd'.bounded = cmd.bounded
        /\ cmd'.level = cmd.level /\ cmd'.step = "cycle"
    BY <1>1, <1>10, <2>1 DEF ReplayAndCount, Become, CommandFields
  <2> QED BY <1>1, <1>4, <2>1, <2>2 DEF CommandOk
<1>11. CASE Close
  <2> DEFINE report == Closed(cmd.report, Sandboxes)
  <2>1. /\ UNCHANGED <<stored, adjusted, boundedRuns>> /\ cmd.step = "cycle" /\ ~ At("idle")
        /\ campaigns' = Append(campaigns, report)
    BY <1>11 DEF Close, At
  <2>2. /\ Len(campaigns) \in Nat /\ Len(campaigns') = Len(campaigns) + 1
        /\ DOMAIN campaigns = 1..Len(campaigns) /\ DOMAIN campaigns' = 1..(Len(campaigns) + 1)
        /\ \A i \in 1..Len(campaigns) : campaigns'[i] = campaigns[i]
        /\ campaigns'[Len(campaigns) + 1] = report
    BY <1>0, <2>1, Appended DEF CountsInv
  <2>3. /\ DOMAIN campaigns \subseteq DOMAIN campaigns'
        /\ \A i \in DOMAIN campaigns : campaigns'[i].reason = campaigns[i].reason
        /\ Cid' \in DOMAIN campaigns' /\ campaigns'[Cid'] = report
    BY <2>2 DEF Cid
  <2>4. \A b : BoundedOk(b, campaigns) => BoundedOk(b, campaigns')
    BY <2>3, BoundedStays
  <2>5. \A i \in DOMAIN boundedRuns' : BoundedOk(boundedRuns'[i], campaigns')
    BY <2>1, <2>4 DEF DraftInv
  <2>6. ~ At("idle")' => CommandOk'
    <3>1. CASE cmd' = Idle
      BY <3>1 DEF At, Idle
    <3>2. CASE cmd' # Idle
      <4>1. /\ cmd'.id = cmd.id /\ cmd'.task = cmd.task /\ cmd'.bounded = cmd.bounded
            /\ cmd'.level = cmd.level /\ cmd'.step = "adjust" /\ cmd'.report = report
            /\ cmd.level # "campaign"
        BY <1>1, <1>11, <2>1, <3>2 DEF Close, Become, Stop, CommandFields
      <4> QED BY <1>1, <2>1, <2>3, <2>4, <4>1 DEF CommandOk
    <3> QED BY <3>1, <3>2
  <2> QED BY <1>0, <2>1, <2>5, <2>6 DEF DraftInv
<1>12. CASE Adjust
  <2> DEFINE original == stored[cmd.id]
             draft == Adjusted(original, cmd.report.reason)
             useful == cmd.report.count["useful"]
             drafted == useful = 0 /\ cmd.report.reason \in DraftReason
             b == cmd.bounded
  <2>1. /\ UNCHANGED <<stored, campaigns, boundedRuns>> /\ cmd.step = "adjust" /\ ~ At("idle")
    BY <1>12 DEF Adjust, At
  <2>2. /\ cmd.id \in TaskId /\ Good(cmd.task) /\ original = OneCycle(cmd.task)
        /\ Cid \in DOMAIN campaigns /\ campaigns[Cid] = cmd.report
        /\ cmd.level # "campaign" /\ BoundedOk(b, campaigns)
    BY <1>1, <2>1 DEF CommandOk
  <2>3. Good(original) /\ original.cycles = 1
    BY <2>2, OneCycleGood
  <2>4. draft \in Task /\ ValidDraft(draft, original)
    BY <2>3, DraftIsValid
  <2>5. ValidDraft(draft, OneCycle(Contract[cmd.id]))
    <3>1. OneCycle(Contract[cmd.id]).cycles = 1
      BY <2>2, UnattendedAssumption DEF OneCycle, Task
    <3> QED BY <2>3, <2>4, <3>1 DEF ValidDraft
  <2> HIDE DEF draft
  <2>6. adjusted' = IF drafted THEN [adjusted EXCEPT ![cmd.id] = draft] ELSE adjusted
    BY <1>12, <2>4 DEF Adjust, draft
  <2>7. adjusted' \in [TaskId -> Task \cup {NoTask}]
    BY <1>0, <2>2, <2>4, <2>6
  <2>8. ASSUME NEW t \in TaskId, adjusted'[t] # NoTask
        PROVE  ValidDraft(adjusted'[t], OneCycle(Contract[t]))
    <3>1. CASE drafted /\ t = cmd.id
      <4>1. adjusted'[t] = draft
        BY <1>0, <2>6, <3>1
      <4> QED BY <2>5, <3>1, <4>1
    <3>2. CASE ~ (drafted /\ t = cmd.id)
      <4>1. adjusted'[t] = adjusted[t]
        BY <1>0, <2>6, <3>2
      <4> QED BY <2>8, <4>1 DEF DraftInv
    <3> QED BY <3>1, <3>2
  <2>9. /\ cmd'.id = cmd.id /\ cmd'.task = cmd.task /\ cmd'.level = cmd.level
        /\ cmd'.step = "again"
    BY <1>1, <1>12, <2>1 DEF Adjust, Become, CommandFields
  <2>10. PICK ids, leaks :
           cmd'.bounded = [b EXCEPT !.campaigns = ids, !.leaks = leaks,
                                    !.zeroYield = IF useful = 0 THEN Append(@, Cid) ELSE @,
                                    !.drafts = IF drafted THEN @ + 1 ELSE @]
    <3>1. cmd' = [cmd EXCEPT
                   !.step = "again", !.todo = cmd.report.candidates,
                   !.bounded.campaigns = Append(@, Cid),
                   !.bounded.leaks = @ + cmd.report.leaks,
                   !.bounded.zeroYield = IF useful = 0 THEN Append(@, Cid) ELSE @,
                   !.bounded.drafts = IF drafted THEN @ + 1 ELSE @]
      BY <1>12, <2>4 DEF Adjust, Become, draft
    <3> QED BY <1>1, <2>1, <3>1 DEF CommandFields
  <2>11. /\ DOMAIN cmd'.bounded = BoundedFields
         /\ cmd'.bounded.zeroYield = IF useful = 0 THEN Append(b.zeroYield, Cid) ELSE b.zeroYield
         /\ cmd'.bounded.drafts = IF drafted THEN b.drafts + 1 ELSE b.drafts
    BY <2>2, <2>10 DEF BoundedOk, BoundedFields
  <2>12. BoundedOk(cmd'.bounded, campaigns)
    <3>1. CASE useful = 0
      BY <2>2, <2>11, <3>1, BoundedGrows
    <3>2. CASE useful # 0
      BY <2>2, <2>11, <3>2 DEF BoundedOk, DraftedIn
    <3> QED BY <3>1, <3>2
  <2>13. CommandOk'
    BY <2>1, <2>2, <2>9, <2>12 DEF CommandOk
  <2> QED BY <1>0, <2>1, <2>7, <2>8, <2>13 DEF DraftInv
<1>13. CASE Again
  <2>1. UNCHANGED Files /\ ~ At("idle")
    BY <1>13 DEF Again, At
  <2>2. /\ cmd'.id = cmd.id /\ cmd'.task = cmd.task /\ cmd'.bounded = cmd.bounded
        /\ cmd'.level = cmd.level /\ cmd'.step = "review"
    BY <1>1, <1>13, <2>1 DEF Again, Go, Become, CommandFields
  <2> QED BY <1>1, <1>4, <2>1, <2>2 DEF CommandOk
<1>14. CASE ReviewAgain
  <2>1. UNCHANGED Files /\ ~ At("idle")
    BY <1>14 DEF ReviewAgain, At
  <2>2. BoundedOk(cmd.bounded, campaigns)
    BY <1>1, <2>1 DEF CommandOk
  <2>3. /\ cmd'.id = cmd.id /\ cmd'.task = cmd.task
        /\ cmd'.level = cmd.level /\ cmd'.step = "again"
    BY <1>1, <1>14, <2>1 DEF ReviewAgain, Become, CommandFields
  <2>4. PICK candidatesNow, readyNow :
          cmd'.bounded = [cmd.bounded EXCEPT !.candidates = candidatesNow, !.ready = readyNow]
    BY <1>1, <1>14, <2>1 DEF ReviewAgain, Become, CommandFields
  <2>5. /\ DOMAIN cmd'.bounded = BoundedFields
        /\ cmd'.bounded.zeroYield = cmd.bounded.zeroYield /\ cmd'.bounded.drafts = cmd.bounded.drafts
    BY <2>2, <2>4 DEF BoundedOk, BoundedFields
  <2>6. BoundedOk(cmd'.bounded, campaigns)
    BY <2>2, <2>5 DEF BoundedOk, DraftedIn
  <2> QED BY <1>4, <2>1, <2>3, <2>6
<1>15. CASE Reconcile
  <2>1. /\ UNCHANGED <<stored, adjusted, boundedRuns>> /\ ~ At("idle")
        /\ campaigns' = [campaigns EXCEPT ![Cid] = Refreshed(@)]
    BY <1>15 DEF Reconcile, At
  <2>2. DOMAIN campaigns' = DOMAIN campaigns
    BY <2>1
  <2>3. ASSUME NEW i \in DOMAIN campaigns PROVE campaigns'[i].reason = campaigns[i].reason
    <3>1. CASE i # Cid
      BY <2>1, <3>1
    <3>2. CASE i = Cid
      <4>1. campaigns'[i] = Refreshed(campaigns[i])
        BY <2>1, <3>2
      <4>2. ReportShaped(campaigns[i]) /\ Agrees(campaigns[i])
        BY <1>0 DEF CountsInv
      <4>3. Refreshed(campaigns[i]).reason = campaigns[i].reason
        BY <4>2, ReconciledAgrees DEF Refreshed
      <4> QED BY <4>1, <4>3
    <3> QED BY <3>1, <3>2
  <2>4. \A b : BoundedOk(b, campaigns) => BoundedOk(b, campaigns')
    BY <2>2, <2>3, BoundedStays
  <2>5. /\ cmd'.id = cmd.id /\ cmd'.task = cmd.task /\ cmd'.bounded = cmd.bounded
        /\ cmd'.level = cmd.level /\ cmd'.step \in {"finish", "open"}
    BY <1>1, <1>15, <2>1 DEF Reconcile, Become, CommandFields
  <2>6. CommandOk'
    BY <1>1, <2>1, <2>4, <2>5 DEF CommandOk
  <2>7. \A i \in DOMAIN boundedRuns' : BoundedOk(boundedRuns'[i], campaigns')
    BY <2>1, <2>4 DEF DraftInv
  <2> QED BY <1>0, <2>1, <2>6, <2>7 DEF DraftInv
<1>16. CASE Finish
  <2>1. /\ UNCHANGED <<stored, adjusted, campaigns>> /\ ~ At("idle")
        /\ boundedRuns' = Append(boundedRuns, cmd.bounded)
    BY <1>16 DEF Finish, At
  <2>2. BoundedOk(cmd.bounded, campaigns)
    BY <1>1, <2>1 DEF CommandOk
  <2>3. /\ IsSeq(boundedRuns') /\ Len(boundedRuns) \in Nat
        /\ DOMAIN boundedRuns = 1..Len(boundedRuns)
        /\ DOMAIN boundedRuns' = 1..(Len(boundedRuns) + 1)
        /\ \A i \in 1..Len(boundedRuns) : boundedRuns'[i] = boundedRuns[i]
        /\ boundedRuns'[Len(boundedRuns) + 1] = cmd.bounded
    BY <2>1, Appended DEF DraftInv
  <2>4. \A i \in DOMAIN boundedRuns' : BoundedOk(boundedRuns'[i], campaigns')
    <3>1. \A i \in 1..(Len(boundedRuns) + 1) : i \in 1..Len(boundedRuns) \/ i = Len(boundedRuns) + 1
      BY <2>3
    <3> QED BY <2>1, <2>2, <2>3, <3>1 DEF DraftInv
  <2>5. CASE cmd' = Idle
    <3>1. At("idle")'
      BY <2>5 DEF At, Idle
    <3> QED BY <1>0, <2>1, <2>3, <2>4, <3>1 DEF DraftInv
  <2>6. CASE cmd' # Idle
    <3>1. /\ cmd'.id = cmd.id /\ cmd'.task = cmd.task /\ cmd'.bounded = cmd.bounded
          /\ cmd'.level = cmd.level /\ cmd'.step = "collect"
      BY <1>1, <1>16, <2>1, <2>6 DEF Finish, Go, Become, Stop, CommandFields
    <3>2. CommandOk'
      BY <1>1, <2>1, <3>1 DEF CommandOk
    <3> QED BY <1>0, <2>1, <2>3, <2>4, <3>2 DEF DraftInv
  <2> QED BY <2>5, <2>6
<1>17. CASE Collect
  <2>1. UNCHANGED Files /\ ~ At("idle")
    BY <1>17 DEF Collect, At
  <2>2. /\ cmd'.id = cmd.id /\ cmd'.task = cmd.task /\ cmd'.bounded = cmd.bounded
        /\ cmd'.level = cmd.level /\ cmd'.step \in {"end", "round"}
    BY <1>1, <1>17, <2>1 DEF Collect, Become, CommandFields
  <2> QED BY <1>1, <1>4, <2>1, <2>2 DEF CommandOk
<1>18. CASE End \/ Crash
  <2>1. UNCHANGED Files /\ cmd' = Idle
    BY <1>18 DEF End, Crash, Become, Stop
  <2> QED BY <1>3, <2>1
<1>19. CASE Others \/ UNCHANGED vars
  <2>1. UNCHANGED Files /\ UNCHANGED cmd
    BY <1>19 DEF Others, OthersBegin, OthersEnd, OthersDuplicate, OthersPromote, vars
  <2>2. (~ At("idle"))' => CommandOk'
    BY <1>1, <2>1 DEF At, CommandOk, Cid
  <2> QED BY <1>0, <2>1, <2>2 DEF DraftInv
<1> QED
  BY <1>5, <1>6, <1>7, <1>8, <1>9, <1>10, <1>11, <1>12, <1>13, <1>14, <1>15, <1>16, <1>17,
     <1>18, <1>19 DEF Next

(* Every campaign of a bounded run that found nothing for a reason with a template gave a
   draft, and every draft on file keeps the limits: the refusal of validate_adjusted_task is
   never met. *)
THEOREM DraftsAlwaysKept == Spec => []DraftsAreKept
<1>1. DraftInv => DraftsAreKept
  <2> SUFFICES ASSUME DraftInv PROVE DraftsAreKept
    OBVIOUS
  <2>1. ASSUME NEW b \in Elements(boundedRuns)
        PROVE  b.drafts = Cardinality({i \in DOMAIN b.zeroYield :
                                         campaigns[b.zeroYield[i]].reason \in DraftReason})
    BY DEF DraftInv, BoundedOk, DraftedIn, Elements
  <2>2. \A t \in TaskId : adjusted[t] # NoTask => ValidDraft(adjusted[t], OneCycle(Contract[t]))
    BY DEF DraftInv
  <2> QED BY <2>1, <2>2 DEF DraftsAreKept
<1>2. DraftInv /\ [Next]_vars => DraftInv'
  BY DraftInvKept
<1> QED BY <1>1, <1>2, DraftInvInit, PTL DEF Spec

-----------------------------------------------------------------------------
(* Types *)

(* What a step changes of a report keeps one. *)
LEMMA ReportStays ==
  ASSUME NEW r \in Report
  PROVE  /\ \A cs : Raise(r, cs) \in Report
         /\ \A n \in Nat : [r EXCEPT !.leaks = n] \in Report
         /\ \A run \in Nat : [r EXCEPT !.candidates = Append(@, run)] \in Report
         /\ \A found \in BOOLEAN : WithFallback(r, found) \in Report
         /\ \A n \in Nat : Closed(r, n) \in Report
<1>1. \A cs : Raise(r, cs) \in Report
  <2>1. \A cs : [c \in Count |-> IF c \in cs THEN r.count[c] + 1 ELSE r.count[c]] \in [Count -> Nat]
    BY DEF Report
  <2> QED BY <2>1 DEF Report, Raise
<1>2. \A n \in Nat : [r EXCEPT !.leaks = n] \in Report
  BY DEF Report
<1>3. \A run \in Nat : [r EXCEPT !.candidates = Append(@, run)] \in Report
  <2>1. \A run \in Nat : Append(r.candidates, run) \in Seq(Nat)
    BY DEF Report
  <2> QED BY <2>1 DEF Report
<1>4. \A found \in BOOLEAN : WithFallback(r, found) \in Report
  <2>1. \A found \in BOOLEAN : (r.used \/ found) \in BOOLEAN
    OBVIOUS
  <2> QED BY <2>1 DEF Report, WithFallback
<1>5. \A n \in Nat : Closed(r, n) \in Report
  <2>1. \A q : ZeroReason(q) \in Reason
    BY DEF ZeroReason, Reason
  <2>2. \A n \in Nat : [r EXCEPT !.leaks = @ + n] \in Report
    BY DEF Report
  <2>3. \A q \in Report : \A reason \in Reason : [q EXCEPT !.reason = reason] \in Report
    BY DEF Report
  <2> QED BY <2>1, <2>2, <2>3 DEF Closed
<1> QED BY <1>1, <1>2, <1>3, <1>4, <1>5

(* The plans counted are finitely many. *)
LEMMA DiagnosisStays ==
  ASSUME NEW r \in Report, NEW plans \in PlanSets, NEW task, NEW overused
  PROVE  WithDiagnosis(r, Diagnosis(plans, task, overused)) \in Report
<1> DEFINE d == Diagnosis(plans, task, overused)
<1>1. IsFiniteSet(plans)
  BY UnattendedAssumption
<1>2. \A S \in SUBSET plans : Cardinality(S) \in Nat
  BY <1>1, FS_Subset, FS_CardinalityType
<1>3. \A c \in Plans : d[c] \in Nat
  <2> DEFINE admitted == {p \in plans : Admits(task, p)}
             repeated == {p \in admitted : overused /\ p.target = GeneratedTests}
  <2>1. /\ Cardinality(plans) \in Nat /\ Cardinality(admitted \ repeated) \in Nat
        /\ Cardinality(plans \ admitted) \in Nat /\ Cardinality(repeated) \in Nat
        /\ Cardinality({p \in plans : ~ AdmitsTarget(task, p.target)}) \in Nat
        /\ Cardinality({p \in plans : ~ AdmitsKind(task, p.kind)}) \in Nat
    <3>1. plans \subseteq plans /\ admitted \ repeated \subseteq plans /\ plans \ admitted \subseteq plans
          /\ repeated \subseteq plans
      OBVIOUS
    <3>2. {p \in plans : ~ AdmitsTarget(task, p.target)} \subseteq plans
          /\ {p \in plans : ~ AdmitsKind(task, p.kind)} \subseteq plans
      OBVIOUS
    <3> HIDE DEF admitted, repeated
    <3> QED BY <1>2, <3>1, <3>2
  <2> QED BY <2>1 DEF Diagnosis, Plans
<1>4. \A e : (\A c \in Plans : e[c] \in Nat) => WithDiagnosis(r, e) \in Report
  <2> SUFFICES ASSUME NEW e, \A c \in Plans : e[c] \in Nat PROVE WithDiagnosis(r, e) \in Report
    OBVIOUS
  <2>1. [c \in Plans |-> r.plans[c] + e[c]] \in [Plans -> Nat]
    BY DEF Report
  <2> QED BY <2>1 DEF Report, WithDiagnosis
<1> QED BY <1>3, <1>4

LEMMA ReconciledStays ==
  ASSUME NEW r \in Report, Agrees(r), ReportShaped(r), NEW replay, NEW ok, NEW allowed, NEW promoted
  PROVE  Reconciled(r, replay, ok, allowed, promoted) \in Report
<1> DEFINE q == Reconciled(r, replay, ok, allowed, promoted)
<1>1. q.count \in [Count -> Nat]
  BY ReconciledAgrees DEF ReportShaped
<1>2. r \in [count : {r.count}, plans : [Plans -> Nat], tried : BOOLEAN, used : BOOLEAN, leaks : Nat,
             candidates : Seq(Nat), reason : Reason \cup {"none"}]
  BY DEF Report
<1>3. q = [r EXCEPT !.count = q.count]
  BY <1>2 DEF Reconciled
<1> HIDE DEF q
<1>4. q \in Report
  BY <1>1, <1>3 DEF Report
<1> QED BY <1>4 DEF q

-----------------------------------------------------------------------------
LEMMA EmptyReportType == EmptyReport \in Report
  BY DEF EmptyReport, Report

LEMMA EmptyTypes ==
  /\ \A t \in TaskId : EmptyBounded(t) \in Bounded
  /\ EmptySupervised \in Supervised
  /\ NoReview \in Review
BY DEF EmptyBounded, Bounded, EmptySupervised, Supervised, Status, NoReview, Review

(* What a policy and the plans or hypotheses name. *)
LEMMA PolicyType ==
  ASSUME NEW strategy \in Strategy, NEW kinds PROVE PolicyKinds(strategy, kinds) \subseteq SafeKinds
<1>1. StrategyKinds[strategy] \subseteq SafeKinds
  BY UnattendedAssumption DEF StrategyKinds, SafeKinds
<1> QED BY <1>1 DEF PolicyKinds

LEMMA HypothesisType ==
  ASSUME NEW kinds, NEW onFile, NEW h \in HypothesesNow(kinds, onFile)
  PROVE  <<h.target, h.kind>> \in Digest
<1>1. ASSUME NEW file, NEW worked, NEW o \in Options(file, worked)
      PROVE  o.kind \in SafeKinds /\ o.target \in {GeneratedTests, MetricsFile}
  BY <1>1 DEF Options, Suggested, SafeKinds
<1>2. h.kind \in SafeKinds /\ h.target \in {GeneratedTests, MetricsFile}
  <2> DEFINE Of(file) ==
        LET options == Options(file, UnitTestsWorked)
            allowed == {o \in options : o.kind \in kinds}
        IN {[target |-> o.target, kind |-> o.kind,
             risk |-> Risk(file, o.target, [f \in Target |-> FailuresOn(f)][file])] :
              o \in IF allowed = {} /\ ~ onFile THEN options ELSE allowed}
  <2>1. HypothesesNow(kinds, onFile) = UNION {Of(file) : file \in CandidateFiles(InGraph)}
    BY DEF HypothesesNow, Hypotheses
  <2>2. ASSUME NEW file, NEW g \in Of(file) PROVE g.kind \in SafeKinds /\ g.target \in {GeneratedTests, MetricsFile}
    <3>1. \E o \in Options(file, UnitTestsWorked) : g.kind = o.kind /\ g.target = o.target
      <4> DEFINE options == Options(file, UnitTestsWorked)
                 allowed == {o \in options : o.kind \in kinds}
                 tried   == IF allowed = {} /\ ~ onFile THEN options ELSE allowed
                 risk(o) == Risk(file, o.target, [f \in Target |-> FailuresOn(f)][file])
      <4>1. tried \subseteq options
        OBVIOUS
      <4>2. Of(file) = {[target |-> o.target, kind |-> o.kind, risk |-> risk(o)] : o \in tried}
        OBVIOUS
      <4> HIDE DEF options, risk, tried, Of
      <4>3. PICK o \in tried : g = [target |-> o.target, kind |-> o.kind, risk |-> risk(o)]
        BY <2>2, <4>2
      <4> QED BY <4>1, <4>3 DEF options
    <3> QED BY <1>1, <3>1
  <2> HIDE DEF Of
  <2>3. \E file : h \in Of(file)
    BY <2>1
  <2> QED BY <2>2, <2>3
<1>3. h.target \in Target /\ h.kind \in Kind
  BY <1>2, RecombinationAssumption, RulesAssumption
<1> QED BY <1>3 DEF Digest

-----------------------------------------------------------------------------
(* A command with new values in some fields. *)
LEMMA CommandWith ==
  ASSUME NEW c \in Command
  PROVE  /\ \A s \in Step : [c EXCEPT !.step = s] \in Command
         /\ \A s \in Step, r \in Report : [c EXCEPT !.step = s, !.report = r] \in Command
         /\ \A r \in Report : [c EXCEPT !.report = r] \in Command
         /\ \A e \in {"ok", "error"} : [c EXCEPT !.ended = e] \in Command
         /\ \A e \in {"ok", "error"}, o \in SUBSET Nat : [c EXCEPT !.ended = e, !.own = o] \in Command
         /\ \A s \in Step, n, m \in Nat : [c EXCEPT !.step = s, !.cycles = n, !.before = m] \in Command
         /\ \A s \in Step, t \in Task, n \in Nat, b \in Bounded :
              [c EXCEPT !.step = s, !.task = t, !.turns = n, !.bounded = b] \in Command
         /\ \A s \in Step, n \in Nat, r \in Report, o \in SUBSET Nat :
              [c EXCEPT !.step = s, !.cycles = n, !.report = r, !.own = o] \in Command
         /\ \A s \in Step, f \in Nat, v \in Review, r \in Report :
              [c EXCEPT !.step = s, !.found = f, !.review = v, !.report = r] \in Command
         /\ \A s \in Step, q \in Seq(Nat), b \in Bounded :
              [c EXCEPT !.step = s, !.todo = q, !.bounded = b] \in Command
         /\ \A s \in Step, n \in Nat : [c EXCEPT !.turns = n, !.step = s] \in Command
         /\ \A s \in Step, n \in Nat, p \in Path, v \in Supervised :
              [c EXCEPT !.rounds = n, !.step = s, !.path = p, !.supervised = v] \in Command
<1>1. \A s \in Step : [c EXCEPT !.step = s] \in Command
  BY DEF Command
<1>2. \A s \in Step, r \in Report : [c EXCEPT !.step = s, !.report = r] \in Command
  BY DEF Command
<1>3. \A r \in Report : [c EXCEPT !.report = r] \in Command
  BY DEF Command
<1>4. \A e \in {"ok", "error"} : [c EXCEPT !.ended = e] \in Command
  BY DEF Command
<1>5. \A e \in {"ok", "error"}, o \in SUBSET Nat : [c EXCEPT !.ended = e, !.own = o] \in Command
  BY DEF Command
<1>6. \A s \in Step, n, m \in Nat : [c EXCEPT !.step = s, !.cycles = n, !.before = m] \in Command
  BY DEF Command
<1>7. \A s \in Step, t \in Task, n \in Nat, b \in Bounded :
        [c EXCEPT !.step = s, !.task = t, !.turns = n, !.bounded = b] \in Command
  BY DEF Command
<1>8. \A s \in Step, n \in Nat, r \in Report, o \in SUBSET Nat :
        [c EXCEPT !.step = s, !.cycles = n, !.report = r, !.own = o] \in Command
  BY DEF Command
<1>9. \A s \in Step, f \in Nat, v \in Review, r \in Report :
        [c EXCEPT !.step = s, !.found = f, !.review = v, !.report = r] \in Command
  BY DEF Command
<1>10. \A s \in Step, q \in Seq(Nat), b \in Bounded :
         [c EXCEPT !.step = s, !.todo = q, !.bounded = b] \in Command
  BY DEF Command
<1>11. \A s \in Step, n \in Nat : [c EXCEPT !.turns = n, !.step = s] \in Command
  BY DEF Command
<1>12. \A s \in Step, n \in Nat, p \in Path, v \in Supervised :
         [c EXCEPT !.rounds = n, !.step = s, !.path = p, !.supervised = v] \in Command
  BY DEF Command
<1> QED BY <1>1, <1>2, <1>3, <1>4, <1>5, <1>6, <1>7, <1>8, <1>9, <1>10, <1>11, <1>12

-----------------------------------------------------------------------------
(* Types are inductive with what a command has left to do: the rounds of a supervised run
   and the campaigns of a bounded one are counted down to one, and a cycle that ended well
   has written an entry. *)
Going ==
  ~ At("idle") =>
    /\ cmd.step # "end" => cmd.rounds > 0
    /\ cmd.step \notin {"round", "finish", "collect", "end"} => cmd.turns > 0
    /\ cmd.step = "record" /\ cmd.ended = "ok" => log # <<>>

TypeInv == DraftInv /\ TypeOK /\ Going

LEMMA Working == ASSUME TypeOK, ~ At("idle") PROVE cmd \in Command
  BY DEF TypeOK, At, Idle

LEMMA LogTypes ==
  ASSUME TypeOK
  PROVE  /\ NewRun \in Nat /\ LastRun \in Nat /\ Len(log) \in Nat
         /\ log # <<>> => Last \in Entry
<1>1. log \in Seq(Entry)
  BY DEF TypeOK
<1>2. Len(log) \in Nat /\ (log # <<>> => log[Len(log)] \in Entry)
  BY <1>1
<1> QED BY <1>2 DEF NewRun, LastRun, Last, Entry

LEMMA EntryAdded ==
  ASSUME NEW S, NEW q \in Seq(S), NEW e \in S
  PROVE  Append(q, e) \in Seq(S) /\ Append(q, e) # <<>>
<1>1. Append(q, e) \in Seq(S) /\ Len(Append(q, e)) = Len(q) + 1 /\ Len(q) \in Nat
  OBVIOUS
<1>2. Len(<<>>) = 0
  OBVIOUS
<1> QED BY <1>1, <1>2

LEMMA TrialTypes ==
  ASSUME TypeOK, NEW d \in Digest, NEW next \in Command, next.step = "record", Trial(d, next)
  PROVE  /\ cmd' \in Command /\ log' \in Seq(Entry) /\ candidates' \subseteq Candidate
         /\ leaked' \in Nat /\ (cmd'.ended = "ok" => log' # <<>>)
         /\ cmd'.rounds = next.rounds /\ cmd'.turns = next.turns /\ cmd'.step = "record"
<1>1. /\ log \in Seq(Entry) /\ candidates \subseteq Candidate /\ leaked \in Nat
      /\ NewRun \in Nat /\ next.own \cup {NewRun} \in SUBSET Nat
  BY LogTypes DEF TypeOK, Command
<1>2. ASSUME NEW e \in {"ok", "error"}, NEW o \in SUBSET Nat,
             cmd' = [next EXCEPT !.ended = e, !.own = o]
      PROVE  /\ cmd' \in Command /\ cmd'.ended = e
             /\ cmd'.rounds = next.rounds /\ cmd'.turns = next.turns /\ cmd'.step = "record"
  <2>1. cmd' \in Command
    BY <1>2, CommandWith
  <2> QED BY <1>2, <2>1 DEF Command
<1>3. CASE /\ KnownBad(d) /\ Log(d, TRUE, "failed")
           /\ Become([next EXCEPT !.ended = "error", !.own = @ \cup {NewRun}])
           /\ UNCHANGED <<candidates, leaked>>
  <2>1. [run |-> NewRun, digest |-> d, duplicate |-> TRUE, status |-> "failed"] \in Entry
    BY <1>1 DEF Entry
  <2>2. log' \in Seq(Entry)
    BY <1>1, <1>3, <2>1, EntryAdded DEF Log
  <2>3. cmd' = [next EXCEPT !.ended = "error", !.own = next.own \cup {NewRun}]
    BY <1>3 DEF Become
  <2> QED BY <1>1, <1>2, <1>3, <2>2, <2>3
<1>4. ASSUME NEW status \in {"failed", "passed", "candidate"}, NEW sound \in BOOLEAN, NEW removed \in BOOLEAN,
             Log(d, FALSE, status),
             candidates' = IF status = "candidate"
                           THEN candidates \cup {[run |-> NewRun, digest |-> d, sound |-> sound]}
                           ELSE candidates,
             leaked' = IF removed THEN leaked ELSE leaked + 1,
             Become([next EXCEPT !.ended = IF removed /\ status # "failed" THEN "ok" ELSE "error",
                                 !.own = @ \cup {NewRun}])
      PROVE  /\ cmd' \in Command /\ log' \in Seq(Entry) /\ candidates' \subseteq Candidate
             /\ leaked' \in Nat /\ (cmd'.ended = "ok" => log' # <<>>)
             /\ cmd'.rounds = next.rounds /\ cmd'.turns = next.turns /\ cmd'.step = "record"
  <2>1. [run |-> NewRun, digest |-> d, duplicate |-> FALSE, status |-> status] \in Entry
    BY <1>1 DEF Entry
  <2>2. log' \in Seq(Entry) /\ log' # <<>>
    BY <1>1, <1>4, <2>1, EntryAdded DEF Log
  <2>3. [run |-> NewRun, digest |-> d, sound |-> sound] \in Candidate
    BY <1>1 DEF Candidate
  <2>4. cmd' = [next EXCEPT !.ended = IF removed /\ status # "failed" THEN "ok" ELSE "error",
                            !.own = next.own \cup {NewRun}]
    BY <1>4 DEF Become
  <2>5. candidates' \subseteq Candidate /\ leaked' \in Nat
    BY <1>1, <1>4, <2>3
  <2> QED BY <1>1, <1>2, <2>2, <2>4, <2>5
<1>5. CASE /\ leaked' \in {leaked, leaked + 1} /\ Become([next EXCEPT !.ended = "error"])
           /\ UNCHANGED <<log, candidates>>
  <2>1. cmd' = [next EXCEPT !.ended = "error"]
    BY <1>5 DEF Become
  <2>2. cmd' \in Command
    BY <2>1, CommandWith
  <2>3. cmd'.ended = "error" /\ cmd'.rounds = next.rounds /\ cmd'.turns = next.turns /\ cmd'.step = "record"
    BY <2>1 DEF Command
  <2>4. leaked' \in Nat
    BY <1>1, <1>5
  <2> QED BY <1>1, <1>5, <2>2, <2>3, <2>4
<1> DEFINE Done == /\ cmd' \in Command /\ log' \in Seq(Entry) /\ candidates' \subseteq Candidate
                   /\ leaked' \in Nat /\ (cmd'.ended = "ok" => log' # <<>>)
                   /\ cmd'.rounds = next.rounds /\ cmd'.turns = next.turns /\ cmd'.step = "record"
<1>6. ASSUME \E status \in {"failed", "passed", "candidate"}, sound, removed \in BOOLEAN :
               /\ status # "candidate" => sound
               /\ Log(d, FALSE, status)
               /\ candidates' = IF status = "candidate"
                                THEN candidates \cup {[run |-> NewRun, digest |-> d, sound |-> sound]}
                                ELSE candidates
               /\ leaked' = IF removed THEN leaked ELSE leaked + 1
               /\ Become([next EXCEPT !.ended = IF removed /\ status # "failed" THEN "ok" ELSE "error",
                                      !.own = @ \cup {NewRun}])
      PROVE  Done
  BY <1>4, <1>6
<1>7. CASE ~ KnownBad(d)
  BY <1>5, <1>6, <1>7 DEF Trial
<1> QED BY <1>3, <1>7 DEF Trial

(* A cycle tries one mutation, or finds none to try. *)
CycleNext(r) == [[cmd EXCEPT !.step = "record", !.cycles = @ - 1, !.before = LastRun] EXCEPT !.report = r]
Tries(t) ==
  \/ \E d \in Digest : Trial(d, t)
  \/ Become([t EXCEPT !.ended = "error"]) /\ UNCHANGED <<log, candidates, leaked>>

LEMMA CycleTries ==
  ASSUME TypeInv, Cycle
  PROVE  /\ \E r \in Report : /\ r.count = cmd.report.count /\ r.candidates = cmd.report.candidates
                              /\ r.leaks = cmd.report.leaks
                              /\ CycleNext(r) \in Command /\ Tries(CycleNext(r))
         /\ policy' \in (SUBSET SafeKinds) \cup {NoPolicy}
<1>1. cmd \in Command /\ cmd.step = "cycle" /\ TypeOK /\ ~ At("idle")
  BY Working DEF Cycle, At, TypeInv
<1>2. cmd.cycles - 1 \in Nat /\ LastRun \in Nat /\ cmd.report \in Report
  <2>1. cmd.cycles > 0
    BY DEF Cycle
  <2>2. cmd.cycles \in Nat /\ cmd.report \in Report
    BY <1>1 DEF Command
  <2>3. LastRun \in Nat
    BY <1>1, LogTypes
  <2> QED BY <2>1, <2>2, <2>3
<1> DEFINE next == [cmd EXCEPT !.step = "record", !.cycles = @ - 1, !.before = LastRun]
<1>3. next \in Command
  BY <1>1, <1>2, CommandWith DEF Step
<1>4. ASSUME NEW r \in Report PROVE CycleNext(r) \in Command
  <2>1. [next EXCEPT !.report = r] \in Command
    BY <1>3, CommandWith
  <2> QED BY <2>1 DEF CycleNext
<1>5. \A r : CycleNext(r) = [next EXCEPT !.report = r]
  BY DEF CycleNext
<1> HIDE DEF next
<1> DEFINE Told(r) == /\ r.count = cmd.report.count /\ r.candidates = cmd.report.candidates
                      /\ r.leaks = cmd.report.leaks
           Tried == \E r \in Report : Told(r) /\ CycleNext(r) \in Command /\ Tries(CycleNext(r))
<1>6. ASSUME NEW r \in Report, Told(r), Tries([next EXCEPT !.report = r]) PROVE Tried
  <2>1. Tries(CycleNext(r))
    BY <1>5, <1>6
  <2> QED BY <1>4, <1>6, <2>1
<1> HIDE DEF Tried
<1>7. PICK plans \in PlanSets :
        LET d == Diagnosis(plans, cmd.task, Overused)
            counted == WithDiagnosis(cmd.report, d)
        IN IF d.accepted > 0
           THEN /\ \E p \in {q \in plans : Admits(cmd.task, q)} :
                     Trial(<<p.target, p.kind>>, [next EXCEPT !.report = counted])
                /\ UNCHANGED policy
           ELSE \E kinds \in IF policy # NoPolicy THEN {policy}
                             ELSE {PolicyKinds(strategy, {}) : strategy \in Strategy} :
                LET fits  == {h \in HypothesesNow(kinds, policy # NoPolicy) : Fits(cmd.task, h)}
                    tried == [next EXCEPT !.report = WithFallback(counted, fits # {})]
                IN /\ policy' = kinds
                   /\ IF fits # {} THEN \E h \in fits : Trial(<<h.target, h.kind>>, tried)
                      ELSE /\ Become([tried EXCEPT !.ended = "error"])
                           /\ UNCHANGED <<log, candidates, leaked>>
  BY DEF Cycle, next
<1> DEFINE d == Diagnosis(plans, cmd.task, Overused)
           counted == WithDiagnosis(cmd.report, d)
<1>8. counted \in Report /\ Told(counted) /\ \A found : Told(WithFallback(counted, found))
  <2>1. counted \in Report
    BY <1>2, DiagnosisStays
  <2>2. Told(counted)
    BY <1>2 DEF WithDiagnosis, Report
  <2> HIDE DEF counted
  <2> QED BY <2>1, <2>2 DEF WithFallback, Report
<1>9. policy \in (SUBSET SafeKinds) \cup {NoPolicy}
  BY <1>1 DEF TypeOK
<1> HIDE DEF counted
<1>10. ASSUME d.accepted > 0 PROVE Tried /\ policy' \in (SUBSET SafeKinds) \cup {NoPolicy}
  <2>1. PICK p \in plans : Trial(<<p.target, p.kind>>, [next EXCEPT !.report = counted])
    BY <1>7, <1>10 DEF counted
  <2>2. <<p.target, p.kind>> \in Digest
    BY UnattendedAssumption DEF Plan, Digest
  <2>3. policy' = policy
    BY <1>7, <1>10
  <2>4. Tries([next EXCEPT !.report = counted])
    BY <2>1, <2>2 DEF Tries
  <2> QED BY <1>6, <1>8, <1>9, <2>3, <2>4
<1>11. ASSUME ~ (d.accepted > 0) PROVE Tried /\ policy' \in (SUBSET SafeKinds) \cup {NoPolicy}
  <2>1. PICK kinds \in IF policy # NoPolicy THEN {policy}
                       ELSE {PolicyKinds(strategy, {}) : strategy \in Strategy} :
          LET fits  == {h \in HypothesesNow(kinds, policy # NoPolicy) : Fits(cmd.task, h)}
              tried == [next EXCEPT !.report = WithFallback(counted, fits # {})]
          IN /\ policy' = kinds
             /\ IF fits # {} THEN \E h \in fits : Trial(<<h.target, h.kind>>, tried)
                ELSE /\ Become([tried EXCEPT !.ended = "error"])
                     /\ UNCHANGED <<log, candidates, leaked>>
    BY <1>7, <1>11 DEF counted
  <2>2. kinds \in SUBSET SafeKinds
    <3>1. CASE policy # NoPolicy
      BY <1>9, <3>1
    <3>2. CASE policy = NoPolicy
      <4>1. PICK strategy \in Strategy : kinds = PolicyKinds(strategy, {})
        BY <3>2
      <4> QED BY <4>1, PolicyType
    <3> QED BY <3>1, <3>2
  <2> DEFINE fits == {h \in HypothesesNow(kinds, policy # NoPolicy) : Fits(cmd.task, h)}
             report == WithFallback(counted, fits # {})
  <2>3. report \in Report
    BY <1>8, ReportStays
  <2>4. \A h \in fits : <<h.target, h.kind>> \in Digest
    BY HypothesisType
  <2>5. \/ \E h \in fits : Trial(<<h.target, h.kind>>, [next EXCEPT !.report = report])
        \/ /\ Become([[next EXCEPT !.report = report] EXCEPT !.ended = "error"])
           /\ UNCHANGED <<log, candidates, leaked>>
    BY <2>1
  <2>6. policy' = kinds
    BY <2>1
  <2>7. Told(report)
    BY <1>8
  <2> HIDE DEF fits, report, Told
  <2>8. Tries([next EXCEPT !.report = report])
    BY <2>4, <2>5 DEF Tries
  <2> QED BY <1>6, <2>2, <2>3, <2>6, <2>7, <2>8
<1> QED BY <1>10, <1>11 DEF Tried

LEMMA CycleTypes == ASSUME TypeInv, Cycle PROVE TypeOK' /\ Going'
<1>1. cmd \in Command /\ cmd.step = "cycle" /\ TypeOK /\ cmd.rounds > 0 /\ cmd.turns > 0
  <2>1. TypeOK /\ cmd.step = "cycle" /\ ~ At("idle")
    BY DEF Cycle, TypeInv, At
  <2> QED BY <2>1, Working DEF TypeInv, Going
<1>2. PICK r \in Report : CycleNext(r) \in Command /\ Tries(CycleNext(r))
  BY CycleTries
<1> DEFINE t == CycleNext(r)
<1>3. t.step = "record" /\ t.rounds = cmd.rounds /\ t.turns = cmd.turns
  BY <1>1 DEF CycleNext, Command
<1>4. t \in Command /\ Tries(t)
  BY <1>2
<1> HIDE DEF t
<1>5. /\ cmd' \in Command /\ log' \in Seq(Entry) /\ candidates' \subseteq Candidate
      /\ leaked' \in Nat /\ (cmd'.ended = "ok" => log' # <<>>)
      /\ cmd'.rounds = cmd.rounds /\ cmd'.turns = cmd.turns /\ cmd'.step = "record"
  <2>1. CASE \E d \in Digest : Trial(d, t)
    BY <1>1, <1>3, <1>4, <2>1, TrialTypes
  <2>2. CASE Become([t EXCEPT !.ended = "error"]) /\ UNCHANGED <<log, candidates, leaked>>
    <3>1. cmd' = [t EXCEPT !.ended = "error"]
      BY <2>2 DEF Become
    <3>2. cmd' \in Command
      BY <1>4, <3>1, CommandWith
    <3>3. cmd'.ended = "error" /\ cmd'.rounds = t.rounds /\ cmd'.turns = t.turns /\ cmd'.step = t.step
      BY <1>4, <3>1 DEF Command
    <3> QED BY <1>1, <1>3, <2>2, <3>2, <3>3 DEF TypeOK
  <2> QED BY <1>4, <2>1, <2>2 DEF Tries
<1>6. policy' \in (SUBSET SafeKinds) \cup {NoPolicy}
  BY CycleTries
<1>7. count' \in [{"commands", "cycles", "others", "deaths"} -> Nat]
  <2>1. Counted("cycles")
    BY DEF Cycle
  <2> QED BY <1>1, <2>1 DEF Counted, TypeOK
<1>8. UNCHANGED <<stored, adjusted, campaigns, boundedRuns, supervised, replays, theirs, made>>
  BY DEF Cycle
<1>9. TypeOK'
  BY <1>1, <1>5, <1>6, <1>7, <1>8 DEF TypeOK
<1> QED BY <1>1, <1>5, <1>9 DEF Going, At

-----------------------------------------------------------------------------
Counts == [{"commands", "cycles", "others", "deaths"} -> Nat]

LEMMA OneMoreCounted ==
  ASSUME TypeOK, NEW c \in {"commands", "cycles", "others", "deaths"}, Counted(c)
  PROVE  count' \in Counts
BY DEF Counted, TypeOK, Counts

(* All a step may change but the command, kept as it was. *)
Rest == <<stored, adjusted, campaigns, boundedRuns, supervised, log, candidates, replays, policy,
          leaked, theirs, made, count>>

LEMMA OnlyCommand ==
  ASSUME TypeOK, UNCHANGED Rest, cmd' \in Command \cup {Idle}
  PROVE  TypeOK'
BY DEF TypeOK, Rest

LEMMA FileIsTask ==
  ASSUME TypeOK, NEW t \in TaskId, NEW path \in Path, Loadable(t, path)
  PROVE  Good(FileAt(t, path))
<1>1. /\ Contract[t] \in Task /\ stored[t] \in Task \cup {NoTask} /\ adjusted[t] \in Task \cup {NoTask}
  BY UnattendedAssumption DEF TypeOK
<1>2. FileAt(t, path) # NoTask /\ Valid(FileAt(t, path))
  BY DEF Loadable
<1>3. FileAt(t, path) \in {Contract[t], stored[t], adjusted[t]}
  BY DEF FileAt, Path
<1> QED BY <1>1, <1>2, <1>3 DEF Good

LEMMA SomeCycles == MaxCampaignCycles \in Nat /\ MaxCampaignCycles > 0
  BY DEF MaxCampaignCycles

LEMMA LeastPositive ==
  ASSUME NEW a \in Nat, NEW b \in Nat, a > 0, b > 0 PROVE Least(a, b) \in Nat /\ Least(a, b) > 0
  BY DEF Least

LEMMA BeginTypes ==
  ASSUME TypeInv, NEW level \in Level, NEW t \in TaskId, NEW path \in Path, NEW n \in 1..MaxAsked,
         Begin(level, t, path, n)
  PROVE  TypeOK' /\ Going'
<1>1. TypeOK
  BY DEF TypeInv
<1>2. n \in Nat /\ n > 0 /\ Least(n, MaxCampaignCycles) \in Nat /\ Least(n, MaxCampaignCycles) > 0
  <2>1. n \in Nat /\ n > 0
    BY UnattendedAssumption
  <2> QED BY <2>1, SomeCycles, LeastPositive
<1>3. FileAt(t, path) \in Task
  BY <1>1, FileIsTask DEF Begin, Good
<1>4. EmptyReport \in Report /\ NoReview \in Review /\ EmptyBounded(t) \in Bounded /\ EmptySupervised \in Supervised
  BY EmptyReportType, EmptyTypes
<1>5. <<>> \in Seq(Nat) /\ {} \in SUBSET Nat
  OBVIOUS
<1> DEFINE c == [step |-> IF level = "supervised" THEN "round" ELSE "open",
             level |-> level, id |-> t, path |-> path, task |-> FileAt(t, path),
             rounds |-> n, turns |-> Least(n, MaxCampaignCycles), cycles |-> 0, before |-> 0, ended |-> "ok", found |-> 0,
             review |-> NoReview, report |-> EmptyReport, own |-> {}, todo |-> <<>>,
             bounded |-> EmptyBounded(t), supervised |-> EmptySupervised]
<1>6. cmd' = c
  BY DEF Begin, Become
<1>7. c \in Command
  BY <1>2, <1>3, <1>4, <1>5 DEF Command, Step
<1>8. c.rounds > 0 /\ c.turns > 0 /\ c.step # "record"
  BY <1>2
<1>9. count' \in Counts
  BY <1>1, OneMoreCounted DEF Begin
<1>10. UNCHANGED <<stored, adjusted, campaigns, boundedRuns, supervised, log, candidates, replays,
                   policy, leaked, theirs, made>>
  BY DEF Begin
<1> HIDE DEF c
<1>11. TypeOK'
  BY <1>1, <1>6, <1>7, <1>9, <1>10 DEF TypeOK, Counts
<1>12. Going'
  BY <1>6, <1>8 DEF Going, At
<1> QED BY <1>11, <1>12

LEMMA RoundTypes == ASSUME TypeInv, Round PROVE TypeOK' /\ Going'
<1>1. TypeOK /\ cmd \in Command /\ cmd.step = "round" /\ cmd.rounds > 0
  <2>1. TypeOK /\ cmd.step = "round" /\ ~ At("idle")
    BY DEF Round, TypeInv, At
  <2> QED BY <2>1, Working DEF TypeInv, Going
<1>2. UNCHANGED Rest
  BY DEF Round, Rest
<1>3. CASE cmd' = Idle
  BY <1>1, <1>2, <1>3, OnlyCommand DEF Going, At, Idle
<1>4. CASE Loadable(cmd.id, cmd.path)
  <2> DEFINE task == FileAt(cmd.id, cmd.path)
             turns == Least(Least(task.cycles, 10), MaxCampaignCycles)
  <2>1. cmd.id \in TaskId /\ cmd.path \in Path
    BY <1>1 DEF Command
  <2>2. Good(task)
    BY <1>1, <1>4, <2>1, FileIsTask
  <2>3. task \in Task /\ task.cycles \in Nat /\ task.cycles > 0
    BY <2>2 DEF Good, Task, Valid
  <2>4. turns \in Nat /\ turns > 0
    <3>1. Least(task.cycles, 10) \in Nat /\ Least(task.cycles, 10) > 0
      BY <2>3, LeastPositive
    <3> QED BY <3>1, SomeCycles, LeastPositive
  <2>5. EmptyBounded(cmd.id) \in Bounded
    BY <2>1, EmptyTypes
  <2>6. cmd' = Idle \/ cmd' = [cmd EXCEPT !.step = "open", !.task = task, !.turns = turns,
                                          !.bounded = EmptyBounded(cmd.id)]
    BY DEF Round, Become, Stop
  <2> HIDE DEF task, turns
  <2>7. CASE cmd' = [cmd EXCEPT !.step = "open", !.task = task, !.turns = turns,
                                !.bounded = EmptyBounded(cmd.id)]
    <3>1. cmd' \in Command
      BY <1>1, <2>3, <2>4, <2>5, <2>7, CommandWith DEF Step
    <3>2. cmd'.step = "open" /\ cmd'.rounds = cmd.rounds /\ cmd'.turns = turns
      BY <1>1, <2>7 DEF Command
    <3> QED BY <1>1, <1>2, <2>4, <3>1, <3>2, OnlyCommand DEF Going, At
  <2> QED BY <1>3, <2>6, <2>7
<1>5. CASE ~ Loadable(cmd.id, cmd.path)
  <2>1. cmd' = Idle
    BY <1>5 DEF Round, Become, Stop
  <2> QED BY <1>3, <2>1
<1> QED BY <1>4, <1>5

LEMMA OpenTypes == ASSUME TypeInv, Open PROVE TypeOK' /\ Going'
<1>1. TypeOK /\ cmd \in Command /\ cmd.step = "open" /\ cmd.rounds > 0 /\ cmd.turns > 0 /\ CommandOk
  <2>1. TypeOK /\ cmd.step = "open" /\ ~ At("idle")
    BY DEF Open, TypeInv, At
  <2> QED BY <2>1, Working DEF TypeInv, Going, DraftInv
<1> DEFINE task == IF cmd.level = "campaign" THEN cmd.task ELSE OneCycle(cmd.task)
<1>2. task \in Task /\ task.cycles \in Nat
  <2>1. Good(task)
    BY <1>1, OneCycleGood DEF CommandOk
  <2> QED BY <2>1 DEF Good, Task
<1>3. stored' = [stored EXCEPT ![cmd.id] = task]
  BY DEF Open
<1>4. stored' \in [TaskId -> Task \cup {NoTask}]
  BY <1>1, <1>2, <1>3 DEF TypeOK
<1>5. policy' \in (SUBSET SafeKinds) \cup {NoPolicy}
  <2>1. CASE cmd.level = "campaign"
    BY <1>1, <2>1 DEF Open, TypeOK
  <2>2. CASE cmd.level # "campaign"
    <3>1. PICK strategy \in Strategy : policy' = PolicyKinds(strategy, OneCycle(cmd.task).kinds)
      BY <2>2 DEF Open
    <3> QED BY <3>1, PolicyType
  <2> QED BY <2>1, <2>2
<1>6. cmd' = Idle \/ cmd' = [cmd EXCEPT !.step = "cycle", !.cycles = task.cycles,
                                        !.report = EmptyReport, !.own = {}]
  BY DEF Open, Become, Stop
<1> HIDE DEF task
<1>7. cmd' \in Command \cup {Idle} /\ Going'
  <2>1. CASE cmd' = Idle
    BY <2>1 DEF Going, At, Idle
  <2>2. CASE cmd' = [cmd EXCEPT !.step = "cycle", !.cycles = task.cycles,
                                !.report = EmptyReport, !.own = {}]
    <3>1. {} \in SUBSET Nat /\ "cycle" \in Step
      BY DEF Step
    <3>2. cmd' \in Command
      BY <1>1, <1>2, <2>2, <3>1, EmptyReportType, CommandWith
    <3>3. cmd'.step = "cycle" /\ cmd'.rounds = cmd.rounds /\ cmd'.turns = cmd.turns
      BY <1>1, <2>2 DEF Command
    <3> QED BY <1>1, <3>2, <3>3 DEF Going, At
  <2> QED BY <1>6, <2>1, <2>2
<1>8. UNCHANGED <<adjusted, campaigns, boundedRuns, supervised, log, candidates, replays, made,
                  count>>
  BY DEF Open
<1>9. leaked' \in Nat /\ theirs' \in [live : Nat, stray : Nat]
  <2>1. leaked \in Nat /\ theirs \in [live : Nat, stray : Nat]
    BY <1>1 DEF TypeOK
  <2>2. leaked' = leaked + theirs.stray /\ theirs' = [theirs EXCEPT !.stray = 0]
    BY DEF Open
  <2> QED BY <2>1, <2>2
<1> QED BY <1>1, <1>4, <1>5, <1>7, <1>8, <1>9 DEF TypeOK

LEMMA ReviewIsOne == ASSUME TypeOK, NEW run PROVE ReviewOf(run) \in Review
<1>1. \A r \in DOMAIN replays : replays[r] \in BOOLEAN
  BY DEF TypeOK
<1>2. ReplayOk(run) \in BOOLEAN
  BY <1>1 DEF ReplayOk
<1>3. Gone(run) \in BOOLEAN /\ Allowed(run) \in BOOLEAN
  BY DEF Gone, Allowed
<1> QED BY <1>2, <1>3 DEF ReviewOf, Review

LEMMA RecordTypes == ASSUME TypeInv, Record PROVE TypeOK' /\ Going'
<1>1. TypeOK /\ cmd \in Command /\ cmd.step = "record" /\ cmd.rounds > 0 /\ cmd.turns > 0
      /\ (cmd.ended = "ok" => log # <<>>)
  <2>1. TypeOK /\ cmd.step = "record" /\ ~ At("idle")
    BY DEF Record, TypeInv, At
  <2> QED BY <2>1, Working DEF TypeInv, Going
<1>2. UNCHANGED Rest
  BY DEF Record, Rest
<1>3. cmd.report \in Report /\ cmd.report.leaks \in Nat
  BY <1>1 DEF Command, Report
<1> DEFINE seen == EntryCounts(Last.status)
           report == [cmd.report EXCEPT !.leaks = @ + Sandboxes]
<1>4. report \in Report
  <2>1. cmd.report.leaks + Sandboxes \in Nat
    BY <1>1, <1>3 DEF TypeOK, Sandboxes
  <2> QED BY <1>3, <2>1, ReportStays
<1>5. \/ \E r \in Report : cmd' = [cmd EXCEPT !.step = "cycle", !.report = r]
      \/ /\ cmd.ended = "ok"
         /\ \E r \in Report : cmd' = [cmd EXCEPT !.step = "replay", !.found = Last.run,
                                                 !.review = ReviewOf(Last.run), !.report = r]
  <2>1. \A cs : Raise(cmd.report, cs) \in Report /\ Raise(report, cs) \in Report
    BY <1>3, <1>4, ReportStays
  <2>2. \/ cmd' = [cmd EXCEPT !.step = "cycle", !.report = Raise(cmd.report, ErrorCountsNow)]
        \/ cmd' = [cmd EXCEPT !.step = "cycle",
                              !.report = Raise(cmd.report, seen \cup Rejection("duplicate"))]
        \/ cmd' = [cmd EXCEPT !.step = "cycle",
                              !.report = Raise(report, seen \cup Rejection("notUseful"))]
        \/ cmd' = [cmd EXCEPT !.step = "cycle",
                              !.report = Raise(report, seen \cup Rejection("belowScore"))]
        \/ cmd.ended = "ok" /\ cmd' = [cmd EXCEPT !.step = "replay", !.found = Last.run,
                              !.review = ReviewOf(Last.run), !.report = Raise(report, seen)]
    BY DEF Record, Become
  <2> HIDE DEF report, seen
  <2> QED BY <2>1, <2>2
<1>6. ASSUME NEW r \in Report, cmd' = [cmd EXCEPT !.step = "cycle", !.report = r]
      PROVE  cmd' \in Command /\ Going'
  <2>1. cmd' \in Command
    BY <1>1, <1>6, CommandWith DEF Step
  <2>2. cmd'.step = "cycle" /\ cmd'.rounds = cmd.rounds /\ cmd'.turns = cmd.turns
    BY <1>1, <1>6 DEF Command
  <2> QED BY <1>1, <2>1, <2>2 DEF Going, At
<1>7. ASSUME NEW r \in Report, cmd.ended = "ok",
             cmd' = [cmd EXCEPT !.step = "replay", !.found = Last.run,
                                !.review = ReviewOf(Last.run), !.report = r]
      PROVE  cmd' \in Command /\ Going'
  <2>1. Last.run \in Nat
    BY <1>1, <1>7, LogTypes DEF Entry
  <2>2. ReviewOf(Last.run) \in Review
    BY <1>1, ReviewIsOne
  <2>3. cmd' \in Command
    BY <1>1, <1>7, <2>1, <2>2, CommandWith DEF Step
  <2>4. cmd'.step = "replay" /\ cmd'.rounds = cmd.rounds /\ cmd'.turns = cmd.turns
    BY <1>1, <1>7 DEF Command
  <2> QED BY <1>1, <2>3, <2>4 DEF Going, At
<1> QED BY <1>1, <1>2, <1>5, <1>6, <1>7, OnlyCommand

LEMMA ReplayTypes ==
  ASSUME TypeOK, NEW run \in Nat, NEW result, Replay(run, result)
  PROVE  /\ DOMAIN replays' \subseteq Nat /\ \A r \in DOMAIN replays' : replays'[r] \in BOOLEAN
         /\ leaked' \in Nat
<1>1. DOMAIN replays \subseteq Nat /\ (\A r \in DOMAIN replays : replays[r] \in BOOLEAN) /\ leaked \in Nat
  BY DEF TypeOK
<1>2. CASE /\ replays' = [r \in DOMAIN replays \cup {run} |-> IF r = run THEN result = "ok" ELSE replays[r]]
           /\ UNCHANGED leaked
  <2>1. (result = "ok") \in BOOLEAN
    OBVIOUS
  <2> QED BY <1>1, <1>2, <2>1
<1>3. CASE leaked' \in {leaked, leaked + 1} /\ UNCHANGED replays
  BY <1>1, <1>3
<1> QED BY <1>2, <1>3 DEF Replay, Recorded

LEMMA ReplayAndCountTypes == ASSUME TypeInv, ReplayAndCount PROVE TypeOK' /\ Going'
<1>1. TypeOK /\ cmd \in Command /\ cmd.step = "replay" /\ cmd.rounds > 0 /\ cmd.turns > 0
  <2>1. TypeOK /\ cmd.step = "replay" /\ ~ At("idle")
    BY DEF ReplayAndCount, TypeInv, At
  <2> QED BY <2>1, Working DEF TypeInv, Going
<1>2. cmd.report \in Report /\ cmd.found \in Nat
  BY <1>1 DEF Command
<1> DEFINE kept == IF cmd.review.promoted THEN cmd.report
                   ELSE [cmd.report EXCEPT !.candidates = Append(@, cmd.found)]
           found == IF cmd.review.promoted THEN Rejection("alreadyPromoted")
                    ELSE UsefulCounts(cmd.review.allowed)
<1>3. kept \in Report
  BY <1>2, ReportStays
<1>4. /\ \E r \in Report : cmd' = [cmd EXCEPT !.step = "cycle", !.report = r]
      /\ \/ \E result : Replay(cmd.found, result)
         \/ UNCHANGED <<replays, leaked>>
  <2>1. \A cs, ds : Raise(kept, cs) \in Report /\ Raise(Raise(kept, cs), ds) \in Report
    BY <1>3, ReportStays
  <2>2. CASE cmd.task.replay
    <3>1. PICK result : /\ Replay(cmd.found, result)
                        /\ cmd' = [cmd EXCEPT !.step = "cycle",
                             !.report = Raise(Raise(kept, ReplayCounts(result # "error" /\ cmd.review.ok)), found)]
      BY <2>2 DEF ReplayAndCount, Become
    <3> HIDE DEF kept, found
    <3> QED BY <2>1, <3>1
  <2>3. CASE ~ cmd.task.replay
    <3>1. cmd' = [cmd EXCEPT !.step = "cycle", !.report = Raise(kept, found)]
          /\ UNCHANGED <<replays, leaked>>
      BY <2>3 DEF ReplayAndCount, Become
    <3> HIDE DEF kept, found
    <3> QED BY <2>1, <3>1
  <2> QED BY <2>2, <2>3
<1>5. PICK r \in Report : cmd' = [cmd EXCEPT !.step = "cycle", !.report = r]
  BY <1>4
<1>6. cmd' \in Command
  BY <1>1, <1>5, CommandWith DEF Step
<1>7. cmd'.step = "cycle" /\ cmd'.rounds = cmd.rounds /\ cmd'.turns = cmd.turns
  BY <1>1, <1>5 DEF Command
<1>8. /\ DOMAIN replays' \subseteq Nat /\ \A q \in DOMAIN replays' : replays'[q] \in BOOLEAN
      /\ leaked' \in Nat
  <2>1. CASE UNCHANGED <<replays, leaked>>
    BY <1>1, <2>1 DEF TypeOK
  <2>2. CASE \E result : Replay(cmd.found, result)
    BY <1>1, <1>2, <2>2, ReplayTypes
  <2> QED BY <1>4, <2>1, <2>2
<1>9. UNCHANGED <<stored, adjusted, campaigns, boundedRuns, supervised, log, candidates, policy,
                  theirs, made, count>>
  BY DEF ReplayAndCount
<1>10. TypeOK'
  BY <1>1, <1>6, <1>8, <1>9 DEF TypeOK
<1> QED BY <1>1, <1>7, <1>10 DEF Going, At

LEMMA CloseTypes == ASSUME TypeInv, Close PROVE TypeOK' /\ Going'
<1>1. TypeOK /\ cmd \in Command /\ cmd.step = "cycle" /\ cmd.rounds > 0 /\ cmd.turns > 0
  <2>1. TypeOK /\ cmd.step = "cycle" /\ ~ At("idle")
    BY DEF Close, TypeInv, At
  <2> QED BY <2>1, Working DEF TypeInv, Going
<1> DEFINE report == Closed(cmd.report, Sandboxes)
<1>2. report \in Report
  <2>1. cmd.report \in Report
    BY <1>1 DEF Command
  <2>2. Sandboxes \in Nat
    BY <1>1 DEF TypeOK, Sandboxes
  <2> QED BY <2>1, <2>2, ReportStays
<1>3. /\ campaigns' = Append(campaigns, report) /\ made' = Append(made, cmd.own)
      /\ cmd' = Idle \/ cmd' = [cmd EXCEPT !.step = "adjust", !.report = report]
  BY DEF Close, Become, Stop
<1> HIDE DEF report
<1>4. campaigns' \in Seq(Report)
  BY <1>1, <1>2, <1>3, EntryAdded DEF TypeOK
<1>5. made' \in Seq(SUBSET Nat)
  <2>1. cmd.own \in SUBSET Nat /\ made \in Seq(SUBSET Nat)
    BY <1>1 DEF Command, TypeOK
  <2> QED BY <1>3, <2>1, EntryAdded
<1>6. cmd' \in Command \cup {Idle} /\ Going'
  <2>1. CASE cmd' = Idle
    BY <2>1 DEF Going, At, Idle
  <2>2. CASE cmd' = [cmd EXCEPT !.step = "adjust", !.report = report]
    <3>1. cmd' \in Command
      BY <1>1, <1>2, <2>2, CommandWith DEF Step
    <3>2. cmd'.step = "adjust" /\ cmd'.rounds = cmd.rounds /\ cmd'.turns = cmd.turns
      BY <1>1, <2>2 DEF Command
    <3> QED BY <1>1, <3>1, <3>2 DEF Going, At
  <2> QED BY <1>3, <2>1, <2>2
<1>7. UNCHANGED <<stored, adjusted, boundedRuns, supervised, log, candidates, replays, policy,
                  leaked, theirs, count>>
  BY DEF Close
<1> QED BY <1>1, <1>4, <1>5, <1>6, <1>7 DEF TypeOK

LEMMA AdjustTypes == ASSUME TypeInv, Adjust PROVE TypeOK' /\ Going'
<1>1. /\ TypeOK /\ cmd \in Command /\ cmd.step = "adjust" /\ cmd.rounds > 0 /\ cmd.turns > 0
      /\ CommandOk
  <2>1. TypeOK /\ cmd.step = "adjust" /\ ~ At("idle")
    BY DEF Adjust, TypeInv, At
  <2> QED BY <2>1, Working DEF TypeInv, Going, DraftInv
<1> DEFINE draft == Adjusted(stored[cmd.id], cmd.report.reason)
           drafted == /\ cmd.report.count["useful"] = 0
                      /\ cmd.report.reason \in DraftReason
                      /\ ValidDraft(draft, stored[cmd.id])
           b == [cmd.bounded EXCEPT
                   !.campaigns = Append(@, Cid),
                   !.leaks = @ + cmd.report.leaks,
                   !.zeroYield = IF cmd.report.count["useful"] = 0 THEN Append(@, Cid) ELSE @,
                   !.drafts = IF drafted THEN @ + 1 ELSE @]
<1>2. draft \in Task
  <2>1. Good(stored[cmd.id])
    BY <1>1, OneCycleGood DEF CommandOk
  <2> QED BY <2>1, DraftIsValid
<1>3. cmd.id \in TaskId /\ cmd.bounded \in Bounded /\ cmd.report \in Report
  BY <1>1 DEF Command
<1>4. adjusted' \in [TaskId -> Task \cup {NoTask}]
  <2>1. adjusted' = IF drafted THEN [adjusted EXCEPT ![cmd.id] = draft] ELSE adjusted
    BY DEF Adjust
  <2>2. adjusted \in [TaskId -> Task \cup {NoTask}]
    BY <1>1 DEF TypeOK
  <2> HIDE DEF draft, drafted
  <2> QED BY <1>2, <1>3, <2>1, <2>2
<1>5. cmd' = [cmd EXCEPT !.step = "again", !.todo = cmd.report.candidates, !.bounded = b]
  <2>1. cmd' = [cmd EXCEPT
             !.step = "again", !.todo = cmd.report.candidates,
             !.bounded.campaigns = Append(@, Cid),
             !.bounded.leaks = @ + cmd.report.leaks,
             !.bounded.zeroYield = IF cmd.report.count["useful"] = 0 THEN Append(@, Cid) ELSE @,
             !.bounded.drafts = IF drafted THEN @ + 1 ELSE @]
    BY DEF Adjust, Become
  <2> HIDE DEF drafted
  <2> QED BY <1>1, <2>1 DEF Command
<1>6. b \in Bounded
  <2>1. Cid \in Nat /\ cmd.report.leaks \in Nat
    BY <1>1, <1>3 DEF TypeOK, Cid, Report
  <2>2. /\ cmd.bounded.campaigns \in Seq(Nat) /\ cmd.bounded.zeroYield \in Seq(Nat)
        /\ cmd.bounded.drafts \in Nat /\ cmd.bounded.leaks \in Nat
    BY <1>3 DEF Bounded
  <2>3. Append(cmd.bounded.campaigns, Cid) \in Seq(Nat) /\ Append(cmd.bounded.zeroYield, Cid) \in Seq(Nat)
    BY <2>1, <2>2
  <2> DEFINE zero == IF cmd.report.count["useful"] = 0 THEN Append(cmd.bounded.zeroYield, Cid)
                     ELSE cmd.bounded.zeroYield
             drafts == IF drafted THEN cmd.bounded.drafts + 1 ELSE cmd.bounded.drafts
             leaks == cmd.bounded.leaks + cmd.report.leaks
             own == Append(cmd.bounded.campaigns, Cid)
  <2>4. zero \in Seq(Nat) /\ drafts \in Nat /\ leaks \in Nat /\ own \in Seq(Nat)
    BY <2>1, <2>2, <2>3
  <2>5. b = [cmd.bounded EXCEPT !.campaigns = own, !.leaks = leaks, !.zeroYield = zero, !.drafts = drafts]
    BY <1>3 DEF Bounded
  <2> HIDE DEF zero, drafts, leaks, own, b
  <2> QED BY <1>3, <2>4, <2>5 DEF Bounded
<1>7. cmd.report.candidates \in Seq(Nat)
  BY <1>3 DEF Report
<1> HIDE DEF b
<1>8. cmd' \in Command
  BY <1>1, <1>5, <1>6, <1>7, CommandWith DEF Step
<1>9. cmd'.step = "again" /\ cmd'.rounds = cmd.rounds /\ cmd'.turns = cmd.turns
  BY <1>1, <1>5 DEF Command
<1>10. UNCHANGED <<stored, campaigns, boundedRuns, supervised, log, candidates, replays, policy,
                   leaked, theirs, made, count>>
  BY DEF Adjust
<1>11. TypeOK'
  BY <1>1, <1>4, <1>8, <1>10 DEF TypeOK
<1> QED BY <1>1, <1>9, <1>11 DEF Going, At

LEMMA AgainTypes == ASSUME TypeInv, Again PROVE TypeOK' /\ Going'
<1>1. TypeOK /\ cmd \in Command /\ cmd.step = "again" /\ cmd.rounds > 0 /\ cmd.turns > 0
  <2>1. TypeOK /\ cmd.step = "again" /\ ~ At("idle")
    BY DEF Again, TypeInv, At
  <2> QED BY <2>1, Working DEF TypeInv, Going
<1>2. cmd' = [cmd EXCEPT !.step = "review"]
  BY DEF Again, Go, Become
<1>3. cmd' \in Command
  BY <1>1, <1>2, CommandWith DEF Step
<1>4. cmd'.step = "review" /\ cmd'.rounds = cmd.rounds /\ cmd'.turns = cmd.turns
  BY <1>1, <1>2 DEF Command
<1>5. cmd.todo[1] \in Nat
  <2>1. cmd.todo \in Seq(Nat) /\ cmd.todo # <<>>
    BY <1>1 DEF Command, Again
  <2> QED BY <2>1
<1>6. /\ DOMAIN replays' \subseteq Nat /\ \A q \in DOMAIN replays' : replays'[q] \in BOOLEAN
      /\ leaked' \in Nat
  <2>1. CASE UNCHANGED <<replays, leaked>>
    BY <1>1, <2>1 DEF TypeOK
  <2>2. CASE \E result : Replay(cmd.todo[1], result)
    BY <1>1, <1>5, <2>2, ReplayTypes
  <2> QED BY <2>1, <2>2 DEF Again
<1>7. UNCHANGED <<stored, adjusted, campaigns, boundedRuns, supervised, log, candidates, policy,
                  theirs, made, count>>
  BY DEF Again
<1>8. TypeOK'
  BY <1>1, <1>3, <1>6, <1>7 DEF TypeOK
<1> QED BY <1>1, <1>4, <1>8 DEF Going, At

LEMMA ReviewAgainTypes == ASSUME TypeInv, ReviewAgain PROVE TypeOK' /\ Going'
<1>1. TypeOK /\ cmd \in Command /\ cmd.step = "review" /\ cmd.rounds > 0 /\ cmd.turns > 0
  <2>1. TypeOK /\ cmd.step = "review" /\ ~ At("idle")
    BY DEF ReviewAgain, TypeInv, At
  <2> QED BY <2>1, Working DEF TypeInv, Going
<1> DEFINE run == cmd.todo[1]
           b == [cmd.bounded EXCEPT !.candidates = Append(@, run),
                                    !.ready = IF Allowed(run) THEN Append(@, run) ELSE @]
<1>2. cmd' = [cmd EXCEPT !.step = "again", !.todo = Tail(@), !.bounded = b]
  <2>1. cmd' = [cmd EXCEPT !.step = "again", !.todo = Tail(@),
                           !.bounded.candidates = Append(@, run),
                           !.bounded.ready = IF Allowed(run) THEN Append(@, run) ELSE @]
    BY DEF ReviewAgain, Become
  <2> QED BY <1>1, <2>1 DEF Command
<1>3. cmd.todo \in Seq(Nat) /\ cmd.todo # <<>> /\ cmd.bounded \in Bounded
  BY <1>1 DEF Command, ReviewAgain
<1>4. run \in Nat /\ Tail(cmd.todo) \in Seq(Nat)
  BY <1>3
<1>5. b \in Bounded
  <2>1. cmd.bounded.candidates \in Seq(Nat) /\ cmd.bounded.ready \in Seq(Nat)
    BY <1>3 DEF Bounded
  <2> HIDE DEF run
  <2>2. Append(cmd.bounded.candidates, run) \in Seq(Nat) /\ Append(cmd.bounded.ready, run) \in Seq(Nat)
    BY <1>4, <2>1
  <2> QED BY <1>3, <2>1, <2>2 DEF Bounded
<1> HIDE DEF b
<1>6. cmd' \in Command
  BY <1>1, <1>2, <1>4, <1>5, CommandWith DEF Step
<1>7. cmd'.step = "again" /\ cmd'.rounds = cmd.rounds /\ cmd'.turns = cmd.turns
  BY <1>1, <1>2 DEF Command
<1>8. UNCHANGED Rest
  BY DEF ReviewAgain, Rest
<1> QED BY <1>1, <1>6, <1>7, <1>8, OnlyCommand DEF Going, At

LEMMA ReconcileTypes == ASSUME TypeInv, Reconcile PROVE TypeOK' /\ Going'
<1>1. TypeOK /\ cmd \in Command /\ cmd.step = "again" /\ cmd.rounds > 0 /\ cmd.turns > 0
      /\ CountsInv
  <2>1. TypeOK /\ cmd.step = "again" /\ ~ At("idle")
    BY DEF Reconcile, TypeInv, At
  <2> QED BY <2>1, Working DEF TypeInv, Going, DraftInv
<1>2. campaigns' = [campaigns EXCEPT ![Cid] = Refreshed(@)]
  BY DEF Reconcile
<1>3. campaigns' \in Seq(Report)
  <2>1. campaigns \in Seq(Report)
    BY <1>1 DEF TypeOK
  <2>2. ASSUME NEW i \in DOMAIN campaigns PROVE Refreshed(campaigns[i]) \in Report
    <3>1. campaigns[i] \in Report /\ Agrees(campaigns[i]) /\ ReportShaped(campaigns[i])
      BY <1>1, <2>1 DEF CountsInv
    <3> QED BY <3>1, ReconciledStays DEF Refreshed
  <2>3. Len(campaigns) \in Nat /\ campaigns \in [1..Len(campaigns) -> Report] /\ DOMAIN campaigns = 1..Len(campaigns)
    BY <2>1
  <2> DEFINE new == [campaigns EXCEPT ![Cid] = Refreshed(@)]
  <2>4. new \in [1..Len(campaigns) -> Report]
    <3>1. DOMAIN new = 1..Len(campaigns) /\ new = [i \in 1..Len(campaigns) |-> new[i]]
      BY <2>3
    <3>2. ASSUME NEW i \in 1..Len(campaigns) PROVE new[i] \in Report
      <4>1. new[i] = IF i = Cid THEN Refreshed(campaigns[i]) ELSE campaigns[i]
        BY <2>3
      <4> QED BY <2>2, <2>3, <4>1
    <3> HIDE DEF new
    <3> QED BY <3>1, <3>2
  <2> HIDE DEF new
  <2> QED BY <1>2, <2>3, <2>4 DEF new
<1>4. cmd.turns - 1 \in Nat
  BY <1>1 DEF Command
<1>5. cmd' = [cmd EXCEPT !.turns = cmd.turns - 1,
                         !.step = IF StopsNow \/ LastTurn THEN "finish" ELSE "open"]
  BY DEF Reconcile, Become
<1>6. cmd' \in Command
  BY <1>1, <1>4, <1>5, CommandWith DEF Step
<1>7. /\ cmd'.rounds = cmd.rounds /\ cmd'.turns = cmd.turns - 1
      /\ cmd'.step = IF StopsNow \/ LastTurn THEN "finish" ELSE "open"
  BY <1>1, <1>5 DEF Command
<1>8. Going'
  <2>1. cmd'.step = "open" => cmd.turns # 1
    BY <1>7 DEF LastTurn
  <2>2. cmd.turns \in Nat
    BY <1>1 DEF Command
  <2>3. cmd'.step = "open" => cmd'.turns > 0
    BY <1>1, <1>7, <2>1, <2>2
  <2>4. cmd'.step \in {"finish", "open"}
    BY <1>7
  <2> QED BY <1>1, <1>7, <2>3, <2>4 DEF Going, At
<1>9. UNCHANGED <<stored, adjusted, boundedRuns, supervised, log, candidates, replays, policy,
                  leaked, theirs, made, count>>
  BY DEF Reconcile
<1>10. TypeOK'
  BY <1>1, <1>3, <1>6, <1>9 DEF TypeOK
<1> QED BY <1>8, <1>10

LEMMA FinishTypes == ASSUME TypeInv, Finish PROVE TypeOK' /\ Going'
<1>1. TypeOK /\ cmd \in Command /\ cmd.step = "finish" /\ cmd.rounds > 0
  <2>1. TypeOK /\ cmd.step = "finish" /\ ~ At("idle")
    BY DEF Finish, TypeInv, At
  <2> QED BY <2>1, Working DEF TypeInv, Going
<1>2. boundedRuns' \in Seq(Bounded)
  <2>1. cmd.bounded \in Bounded /\ boundedRuns \in Seq(Bounded)
    BY <1>1 DEF TypeOK, Command
  <2> QED BY <2>1, EntryAdded DEF Finish
<1>3. cmd' = Idle \/ cmd' = [cmd EXCEPT !.step = "collect"]
  BY DEF Finish, Stop, Go, Become
<1>4. cmd' \in Command \cup {Idle} /\ Going'
  <2>1. CASE cmd' = Idle
    BY <2>1 DEF Going, At, Idle
  <2>2. CASE cmd' = [cmd EXCEPT !.step = "collect"]
    <3>1. cmd' \in Command
      BY <1>1, <2>2, CommandWith DEF Step
    <3>2. cmd'.step = "collect" /\ cmd'.rounds = cmd.rounds
      BY <1>1, <2>2 DEF Command
    <3> QED BY <1>1, <3>1, <3>2 DEF Going, At
  <2> QED BY <1>3, <2>1, <2>2
<1>5. UNCHANGED <<stored, adjusted, campaigns, supervised, log, candidates, replays, policy,
                  leaked, theirs, made, count>>
  BY DEF Finish
<1> QED BY <1>1, <1>2, <1>4, <1>5 DEF TypeOK

LEMMA CollectedType ==
  ASSUME cmd \in Command
  PROVE  Collected \in Supervised
<1> DEFINE s == cmd.supervised
           b == cmd.bounded
           ready == {r \in Elements(b.candidates) : Allowed(r)}
<1>1. s \in Supervised /\ b \in Bounded
  BY DEF Command
<1>2. s.bounded \in Seq(Bounded) /\ s.ready \in SUBSET Nat /\ s.rejected \in SUBSET Nat
      /\ s.failures \in Nat /\ s.zeroYields \in Nat
  BY <1>1 DEF Supervised
<1>3. Append(s.bounded, b) \in Seq(Bounded)
  BY <1>1, <1>2, EntryAdded
<1>4. Elements(b.candidates) \subseteq Nat
  <2>1. b.candidates \in Seq(Nat)
    BY <1>1 DEF Bounded
  <2> QED BY <2>1 DEF Elements
<1>5. s.ready \cup ready \in SUBSET Nat /\ s.rejected \cup (Elements(b.candidates) \ ready) \in SUBSET Nat
  BY <1>2, <1>4
<1> DEFINE readies == s.ready \cup ready
           rejects == s.rejected \cup (Elements(b.candidates) \ ready)
           failures == IF ReplayFailed(b) THEN s.failures + 1 ELSE s.failures
           zeros == IF ZeroYield(b) THEN s.zeroYields + 1 ELSE s.zeroYields
           all == Append(s.bounded, b)
<1>6. Collected = IF b.leaks > 0 THEN [s EXCEPT !.bounded = all]
                  ELSE [s EXCEPT !.bounded = all, !.ready = readies, !.rejected = rejects,
                                 !.failures = failures, !.zeroYields = zeros]
  BY <1>1 DEF Collected, Supervised
<1>7. failures \in Nat /\ zeros \in Nat /\ readies \in SUBSET Nat /\ rejects \in SUBSET Nat
      /\ all \in Seq(Bounded)
  BY <1>2, <1>3, <1>5
<1> HIDE DEF failures, zeros, readies, rejects, all, s
<1> QED BY <1>1, <1>6, <1>7 DEF Supervised

LEMMA CollectTypes == ASSUME TypeInv, Collect PROVE TypeOK' /\ Going'
<1>1. TypeOK /\ cmd \in Command /\ cmd.step = "collect" /\ cmd.rounds > 0
  <2>1. TypeOK /\ cmd.step = "collect" /\ ~ At("idle")
    BY DEF Collect, TypeInv, At
  <2> QED BY <2>1, Working DEF TypeInv, Going
<1> DEFINE s == Collected
           status == StatusAfter(s, cmd.bounded)
           last == cmd.rounds = 1
           draft == cmd.bounded.leaks = 0 /\ ZeroYield(cmd.bounded)
           step == IF status # "running" \/ last THEN "end" ELSE "round"
           path == IF draft THEN "adjusted" ELSE cmd.path
           sup == [s EXCEPT !.status = IF status = "running" /\ last THEN "max_rounds_reached" ELSE status]
<1>2. cmd' = [cmd EXCEPT !.rounds = cmd.rounds - 1, !.step = step, !.path = path, !.supervised = sup]
  BY DEF Collect, Become
<1>3. cmd.rounds \in Nat /\ cmd.rounds - 1 \in Nat
  BY <1>1 DEF Command
<1>4. path \in Path
  BY <1>1 DEF Command, Path
<1>5. status \in Status
  BY DEF StatusAfter, Status
<1>6. sup \in Supervised
  <2>1. s \in Supervised
    BY <1>1, CollectedType
  <2>2. (IF status = "running" /\ last THEN "max_rounds_reached" ELSE status) \in Status
    BY <1>5 DEF Status
  <2> HIDE DEF s, status, last
  <2> QED BY <2>1, <2>2 DEF Supervised
<1>7. step \in Step /\ (step # "end" => cmd.rounds - 1 > 0) /\ step \in {"end", "round"}
  <2>1. step # "end" => cmd.rounds # 1
    OBVIOUS
  <2> HIDE DEF status
  <2> QED BY <1>1, <1>3, <2>1 DEF Step
<1> HIDE DEF step, path, sup
<1>8. cmd' \in Command
  BY <1>1, <1>2, <1>3, <1>4, <1>6, <1>7, CommandWith
<1>9. cmd'.step = step /\ cmd'.rounds = cmd.rounds - 1
  BY <1>1, <1>2 DEF Command
<1>10. UNCHANGED Rest
  BY DEF Collect, Rest
<1> QED BY <1>1, <1>7, <1>8, <1>9, <1>10, OnlyCommand DEF Going, At

LEMMA EndTypes == ASSUME TypeInv, End PROVE TypeOK' /\ Going'
<1>1. TypeOK /\ cmd \in Command /\ cmd' = Idle
  <2>1. TypeOK /\ cmd.step = "end" /\ ~ At("idle") /\ cmd' = Idle
    BY DEF End, TypeInv, At, Stop, Become
  <2> QED BY <2>1, Working
<1>2. supervised' \in Seq(Supervised)
  <2>1. cmd.supervised \in Supervised /\ supervised \in Seq(Supervised)
    BY <1>1 DEF TypeOK, Command
  <2> QED BY <2>1, EntryAdded DEF End
<1>3. UNCHANGED <<stored, adjusted, campaigns, boundedRuns, log, candidates, replays, policy,
                  leaked, theirs, made, count>>
  BY DEF End
<1>4. TypeOK'
  BY <1>1, <1>2, <1>3 DEF TypeOK
<1> QED BY <1>1, <1>4 DEF Going, At, Idle

LEMMA CrashTypes == ASSUME TypeInv, Crash PROVE TypeOK' /\ Going'
<1>1. TypeOK /\ cmd' = Idle
  BY DEF Crash, TypeInv, Stop, Become
<1>2. leaked' \in Nat
  BY <1>1 DEF Crash, TypeOK
<1>3. count' \in Counts
  BY <1>1, OneMoreCounted DEF Crash
<1>4. UNCHANGED <<stored, adjusted, campaigns, boundedRuns, supervised, log, candidates, replays,
                  policy, theirs, made>>
  BY DEF Crash
<1>5. TypeOK'
  BY <1>1, <1>2, <1>3, <1>4 DEF TypeOK, Counts
<1> QED BY <1>1, <1>5 DEF Going, At, Idle

LEMMA LogOf ==
  ASSUME TypeOK, NEW d \in Digest, NEW duplicate \in BOOLEAN,
         NEW status \in {"failed", "passed", "candidate", "promoted"}, Log(d, duplicate, status)
  PROVE  log' \in Seq(Entry) /\ log' # <<>>
<1>1. NewRun \in Nat /\ log \in Seq(Entry)
  BY LogTypes DEF TypeOK
<1>2. [run |-> NewRun, digest |-> d, duplicate |-> duplicate, status |-> status] \in Entry
  BY <1>1 DEF Entry
<1> QED BY <1>1, <1>2, EntryAdded DEF Log

LEMMA OthersTypes == ASSUME TypeInv, Others PROVE TypeOK' /\ Going'
<1>1. TypeOK /\ Going
  BY DEF TypeInv
<1>2. cmd' = cmd
  BY DEF Others, OthersBegin, OthersEnd, OthersDuplicate, OthersPromote
<1>3. CASE OthersBegin
  <2>1. theirs' \in [live : Nat, stray : Nat]
    BY <1>1, <1>3 DEF OthersBegin, TypeOK
  <2>2. count' \in Counts
    BY <1>1, <1>3, OneMoreCounted DEF OthersBegin
  <2>3. UNCHANGED <<cmd, stored, adjusted, campaigns, boundedRuns, supervised, log, candidates,
                    replays, policy, leaked, made>>
    BY <1>3 DEF OthersBegin
  <2>4. TypeOK'
    BY <1>1, <2>1, <2>2, <2>3 DEF TypeOK, Counts
  <2> QED BY <1>1, <2>3, <2>4 DEF Going, At
<1>4. CASE OthersEnd
  <2>1. theirs' \in [live : Nat, stray : Nat]
    BY <1>1, <1>4, OthersEndKeeps DEF TypeOK
  <2>2. UNCHANGED <<cmd, stored, adjusted, campaigns, boundedRuns, supervised, policy, leaked, made,
                    count>>
    BY <1>4 DEF OthersEnd
  <2>3. SUFFICES /\ log' \in Seq(Entry) /\ (log # <<>> => log' # <<>>)
                 /\ candidates' \subseteq Candidate
                 /\ DOMAIN replays' \subseteq Nat /\ \A r \in DOMAIN replays' : replays'[r] \in BOOLEAN
    <3>1. TypeOK'
      BY <1>1, <2>1, <2>2, <2>3 DEF TypeOK
    <3> QED BY <1>1, <2>2, <2>3, <3>1 DEF Going, At
  <2>4. /\ log \in Seq(Entry) /\ candidates \subseteq Candidate
        /\ DOMAIN replays \subseteq Nat /\ \A r \in DOMAIN replays : replays[r] \in BOOLEAN
    BY <1>1 DEF TypeOK
  <2>5. CASE \E p \in UNION PlanSets, status \in {"failed", "passed", "candidate"}, sound \in BOOLEAN :
               /\ status # "candidate" => sound
               /\ Log(<<p.target, p.kind>>, FALSE, status)
               /\ candidates' = IF status = "candidate"
                                THEN candidates \cup {[run |-> NewRun, digest |-> <<p.target, p.kind>>,
                                                       sound |-> sound]}
                                ELSE candidates
               /\ UNCHANGED replays
    <3>1. PICK p \in UNION PlanSets, status \in {"failed", "passed", "candidate"}, sound \in BOOLEAN :
            /\ Log(<<p.target, p.kind>>, FALSE, status)
            /\ candidates' = IF status = "candidate"
                             THEN candidates \cup {[run |-> NewRun, digest |-> <<p.target, p.kind>>,
                                                    sound |-> sound]}
                             ELSE candidates
            /\ UNCHANGED replays
      BY <2>5
    <3>2. <<p.target, p.kind>> \in Digest
      BY UnattendedAssumption DEF Plan, Digest
    <3>3. log' \in Seq(Entry) /\ log' # <<>>
      BY <1>1, <3>1, <3>2, LogOf
    <3>4. NewRun \in Nat
      BY <1>1, LogTypes DEF TypeOK
    <3>5. [run |-> NewRun, digest |-> <<p.target, p.kind>>, sound |-> sound] \in Candidate
      BY <3>2, <3>4 DEF Candidate
    <3> QED BY <2>4, <3>1, <3>3, <3>5
  <2>6. CASE (\E c \in candidates, ok \in BOOLEAN : Recorded(c.run, ok)) /\ UNCHANGED <<log, candidates>>
    <3>1. PICK c \in candidates, ok \in BOOLEAN : Recorded(c.run, ok)
      BY <2>6
    <3>2. c.run \in Nat
      BY <2>4 DEF Candidate
    <3> QED BY <2>4, <2>6, <3>1, <3>2 DEF Recorded
  <2>7. CASE UNCHANGED <<log, candidates, replays>>
    BY <2>4, <2>7
  <2> QED BY <1>4, <2>5, <2>6, <2>7 DEF OthersEnd
<1>5. CASE OthersPromote
  <2>1. PICK c \in candidates : Log(c.digest, FALSE, "promoted")
    BY <1>5 DEF OthersPromote
  <2>2. c.digest \in Digest
    BY <1>1 DEF TypeOK, Candidate
  <2>3. log' \in Seq(Entry) /\ log' # <<>>
    BY <1>1, <2>1, <2>2, LogOf
  <2>4. count' \in Counts
    BY <1>1, <1>5, OneMoreCounted DEF OthersPromote
  <2>5. UNCHANGED <<cmd, stored, adjusted, campaigns, boundedRuns, supervised, candidates, replays,
                    policy, leaked, theirs, made>>
    BY <1>5 DEF OthersPromote
  <2>6. TypeOK'
    BY <1>1, <2>3, <2>4, <2>5 DEF TypeOK, Counts
  <2> QED BY <1>1, <2>3, <2>5, <2>6 DEF Going, At
<1>6. CASE OthersDuplicate
  <2>1. PICK p \in UNION PlanSets : Log(<<p.target, p.kind>>, TRUE, "failed")
    BY <1>6 DEF OthersDuplicate
  <2>2. <<p.target, p.kind>> \in Digest
    BY UnattendedAssumption DEF Plan, Digest
  <2>3. log' \in Seq(Entry) /\ log' # <<>>
    BY <1>1, <2>1, <2>2, LogOf
  <2>4. count' \in Counts
    BY <1>1, <1>6, OneMoreCounted DEF OthersDuplicate
  <2>5. UNCHANGED <<cmd, stored, adjusted, campaigns, boundedRuns, supervised, candidates, replays,
                    policy, leaked, theirs, made>>
    BY <1>6 DEF OthersDuplicate
  <2>6. TypeOK'
    BY <1>1, <2>3, <2>4, <2>5 DEF TypeOK, Counts
  <2> QED BY <1>1, <2>3, <2>5, <2>6 DEF Going, At
<1> QED BY <1>3, <1>4, <1>5, <1>6 DEF Others

LEMMA TypeInvInit == Init => TypeInv
<1> SUFFICES ASSUME Init PROVE TypeInv
  OBVIOUS
<1>1. DraftInv
  BY DraftInvInit
<1>2. /\ cmd = Idle /\ stored = [t \in TaskId |-> NoTask] /\ adjusted = [t \in TaskId |-> NoTask]
      /\ campaigns = <<>> /\ boundedRuns = <<>> /\ supervised = <<>>
      /\ log = <<>> /\ candidates = {} /\ replays = <<>>
      /\ policy = NoPolicy /\ leaked = 0 /\ theirs = [live |-> 0, stray |-> 0] /\ made = <<>>
      /\ count = [c \in {"commands", "cycles", "others", "deaths"} |-> 0]
  BY DEF Init
<1>3. /\ <<>> \in Seq(Report) /\ <<>> \in Seq(Bounded) /\ <<>> \in Seq(Supervised)
      /\ <<>> \in Seq(Entry) /\ <<>> \in Seq(SUBSET Nat) /\ DOMAIN <<>> = {}
  OBVIOUS
<1>4. DOMAIN replays \subseteq Nat /\ \A r \in DOMAIN replays : replays[r] \in BOOLEAN
  BY <1>2, <1>3
<1>5. TypeOK
  BY <1>2, <1>3, <1>4 DEF TypeOK
<1> QED BY <1>1, <1>2, <1>5 DEF TypeInv, Going, At, Idle

LEMMA TypeInvKept == ASSUME TypeInv, [Next]_vars PROVE TypeInv'
<1>1. DraftInv'
  BY DraftInvKept DEF TypeInv
<1>2. CASE UNCHANGED vars
  BY <1>1, <1>2 DEF TypeInv, TypeOK, Going, At, vars
<1>3. CASE Next
  <2>1. TypeOK' /\ Going'
    BY <1>3, BeginTypes, RoundTypes, OpenTypes, CycleTypes, RecordTypes, ReplayAndCountTypes,
       CloseTypes, AdjustTypes, AgainTypes, ReviewAgainTypes, ReconcileTypes, FinishTypes,
       CollectTypes, EndTypes, CrashTypes, OthersTypes DEF Next
  <2> QED BY <1>1, <2>1 DEF TypeInv
<1> QED BY <1>2, <1>3

(* Theorem: commands, reports, files and log keep their types. *)
THEOREM TypeCorrect == Spec => []TypeOK
<1>1. TypeInv => TypeOK
  BY DEF TypeInv
<1>2. TypeInv /\ [Next]_vars => TypeInv'
  BY TypeInvKept
<1> QED BY <1>1, <1>2, TypeInvInit, PTL DEF Spec

-----------------------------------------------------------------------------
(* Reports and the log *)

Dups(lg, own)    == {i \in own : lg[i].duplicate}
Offered(lg, own) == {i \in own : lg[i].status = "candidate"}

(* A report and the runs its cycles logged; lost says whether a candidate may be missing. *)
Matched(r, lg, own, lost) ==
  /\ own \subseteq DOMAIN lg
  /\ r.count["duplicate"] = Cardinality(Dups(lg, own))
  /\ Elements(r.candidates) \subseteq Offered(lg, own)
  /\ Offered(lg, own) \subseteq Elements(r.candidates) \/ lost
  /\ r.candidates = <<>> => r.count["failedReplay"] = 0

Lost(r) == r.leaks > 0 \/ r.count["belowScore"] > 0

(* The run its cycle logged that the report has still to count. *)
Uncounted ==
  IF (cmd.step = "record" /\ cmd.before < Len(log)) \/ cmd.step = "replay" THEN {Len(log)} ELSE {}

Campaigning == cmd.step \in {"cycle", "record", "replay"}

LostNow == leaked > 0 \/ cmd.report.count["belowScore"] > 0

AtWork ==
  /\ cmd.own \subseteq DOMAIN log
  /\ Matched(cmd.report, log, cmd.own \ Uncounted, LostNow)
  /\ cmd.step = "record" =>
       /\ cmd.before \in {Len(log), Len(log) - 1}
       /\ cmd.ended = "ok" => cmd.before < Len(log) /\ ~ Last.duplicate
       /\ cmd.before < Len(log) =>
            /\ Len(log) \in cmd.own
            /\ cmd.ended = "error" /\ Last.status = "candidate" => leaked > 0
  /\ cmd.step = "replay" =>
       /\ cmd.found = Len(log) /\ Len(log) \in cmd.own
       /\ Last.status = "candidate" /\ ~ Last.duplicate
       /\ ~ cmd.review.promoted

Numbered ==
  /\ theirs.live = 0 /\ theirs.stray = 0
  /\ \A i \in DOMAIN log : log[i].run = i /\ log[i].status # "promoted"
Told ==
  /\ Len(made) = Len(campaigns)
  /\ \A c \in DOMAIN campaigns : Matched(campaigns[c], log, made[c], Lost(campaigns[c]))

(* Without other commands the log is the trials', every report on file is about its
   campaign's own, and the one under way counts them one by one. *)
LogInv == Alone => Numbered /\ Told /\ (Campaigning => AtWork)

-----------------------------------------------------------------------------
LEMMA ElementsAdded ==
  ASSUME NEW S, NEW s \in Seq(S), NEW e \in S
  PROVE  Elements(Append(s, e)) = Elements(s) \cup {e}
<1>1. /\ Len(s) \in Nat /\ DOMAIN s = 1..Len(s) /\ DOMAIN Append(s, e) = 1..(Len(s) + 1)
      /\ \A i \in 1..Len(s) : Append(s, e)[i] = s[i]
      /\ Append(s, e)[Len(s) + 1] = e
  OBVIOUS
<1>2. \A i \in 1..(Len(s) + 1) : i \in 1..Len(s) \/ i = Len(s) + 1
  BY <1>1
<1>3. 1..Len(s) \subseteq 1..(Len(s) + 1) /\ Len(s) + 1 \in 1..(Len(s) + 1)
  BY <1>1
<1> QED BY <1>1, <1>2, <1>3 DEF Elements

(* More entries change nothing for runs logged before. *)
LEMMA MatchedLater ==
  ASSUME NEW lg \in Seq(Entry), NEW e \in Entry, NEW r, NEW own, NEW lost, Matched(r, lg, own, lost)
  PROVE  Matched(r, Append(lg, e), own, lost)
<1>1. /\ DOMAIN lg \subseteq DOMAIN Append(lg, e)
      /\ \A i \in DOMAIN lg : Append(lg, e)[i] = lg[i]
  OBVIOUS
<1>2. own \subseteq DOMAIN lg
  BY DEF Matched
<1>3. Dups(Append(lg, e), own) = Dups(lg, own) /\ Offered(Append(lg, e), own) = Offered(lg, own)
  BY <1>1, <1>2 DEF Dups, Offered
<1> QED BY <1>1, <1>2, <1>3 DEF Matched

(* One more run is counted: a duplicate as one, a candidate as one unless it is lost. *)
LEMMA MatchedMore ==
  ASSUME NEW lg \in Seq(Entry), NEW n \in DOMAIN lg, NEW own, own \subseteq DOMAIN lg, n \in own,
         NEW r, NEW lost, Matched(r, lg, own \ {n}, lost),
         NEW q, NEW after, lost => after,
         q.count["duplicate"] = IF lg[n].duplicate THEN r.count["duplicate"] + 1 ELSE r.count["duplicate"],
         Elements(r.candidates) \subseteq Elements(q.candidates),
         Elements(q.candidates) \subseteq Elements(r.candidates) \cup Offered(lg, {n}),
         Offered(lg, {n}) \subseteq Elements(q.candidates) \/ after,
         q.candidates = <<>> => q.count["failedReplay"] = 0
  PROVE  Matched(q, lg, own, after)
<1> DEFINE rest == own \ {n}
<1>1. /\ own = rest \cup {n} /\ n \notin rest
      /\ r.count["duplicate"] = Cardinality(Dups(lg, rest))
      /\ Elements(r.candidates) \subseteq Offered(lg, rest)
      /\ Offered(lg, rest) \subseteq Elements(r.candidates) \/ lost
  BY DEF Matched
<1>2. IsFiniteSet(Dups(lg, rest)) /\ n \notin Dups(lg, rest)
  <2>1. DOMAIN lg = 1..Len(lg) /\ Len(lg) \in Nat
    OBVIOUS
  <2>2. IsFiniteSet(DOMAIN lg)
    BY <2>1, FS_Interval
  <2> QED BY <2>2, <1>1, FS_Subset DEF Dups
<1>3. Dups(lg, own) = IF lg[n].duplicate THEN Dups(lg, rest) \cup {n} ELSE Dups(lg, rest)
  BY <1>1 DEF Dups
<1>4. Cardinality(Dups(lg, rest) \cup {n}) = Cardinality(Dups(lg, rest)) + 1
  BY <1>2, FS_AddElement
<1>5. q.count["duplicate"] = Cardinality(Dups(lg, own))
  BY <1>1, <1>3, <1>4
<1>6. Offered(lg, own) = Offered(lg, rest) \cup Offered(lg, {n})
  BY <1>1 DEF Offered
<1> HIDE DEF rest
<1> QED BY <1>1, <1>5, <1>6 DEF Matched

LEMMA MatchedEmpty == \A lost : Matched(EmptyReport, log, {}, lost)
<1>1. EmptyReport.count["duplicate"] = 0 /\ EmptyReport.candidates = <<>>
      /\ EmptyReport.count["failedReplay"] = 0
  BY DEF EmptyReport, Count
<1>2. Dups(log, {}) = {} /\ Offered(log, {}) = {} /\ Cardinality({}) = 0
  BY FS_EmptySet DEF Dups, Offered
<1>3. Elements(<<>>) = {}
  BY DEF Elements
<1> QED BY <1>1, <1>2, <1>3 DEF Matched

(* What no counter of a report's own runs depends on. *)
LEMMA MatchedAlike ==
  ASSUME NEW r, NEW lg, NEW own, NEW lost, Matched(r, lg, own, lost), NEW q, NEW after,
         q.count["duplicate"] = r.count["duplicate"], q.candidates = r.candidates,
         q.candidates = <<>> => q.count["failedReplay"] = r.count["failedReplay"], lost => after
  PROVE  Matched(q, lg, own, after)
BY DEF Matched

LEMMA RaisedTells ==
  ASSUME NEW r \in Report, NEW cs
  PROVE  /\ Raise(r, cs).candidates = r.candidates /\ Raise(r, cs).leaks = r.leaks
         /\ \A c \in Count : Raise(r, cs).count[c] = IF c \in cs THEN r.count[c] + 1 ELSE r.count[c]
         /\ \A c \in Count : Raise(r, cs).count[c] >= r.count[c] /\ r.count[c] \in Nat
<1>1. /\ Raise(r, cs).candidates = r.candidates /\ Raise(r, cs).leaks = r.leaks
      /\ Raise(r, cs).count = [c \in Count |-> IF c \in cs THEN r.count[c] + 1 ELSE r.count[c]]
  BY DEF Raise, Report
<1>2. r.count \in [Count -> Nat]
  BY DEF Report
<1> QED BY <1>1, <1>2

-----------------------------------------------------------------------------
(* What a trial writes: nothing and an error, or one entry, which is no duplicate's when it
   ended well, and whose candidate is on file and counted unless a sandbox is left. *)
Wrote(own) ==
  \/ log' = log /\ cmd'.own = own /\ cmd'.ended = "error"
  \/ \E e \in Entry :
       /\ log' = Append(log, e) /\ e.run = NewRun /\ e.status # "promoted"
       /\ cmd'.own = own \cup {NewRun}
       /\ cmd'.ended = "ok" => ~ e.duplicate
       /\ cmd'.ended = "error" /\ e.status = "candidate" => leaked' > leaked
       /\ e.status = "candidate" => \E c \in candidates' : c.run = NewRun

LEMMA TrialWrites ==
  ASSUME TypeOK, NEW d \in Digest, NEW next \in Command, Trial(d, next)
  PROVE  Wrote(next.own) /\ leaked' >= leaked /\ candidates \subseteq candidates'
<1>1. /\ NewRun \in Nat /\ leaked \in Nat
      /\ DOMAIN next = CommandFields
  BY LogTypes DEF TypeOK, Command, CommandFields
<1>2. CASE /\ Log(d, TRUE, "failed")
           /\ Become([next EXCEPT !.ended = "error", !.own = @ \cup {NewRun}])
           /\ UNCHANGED <<candidates, leaked>>
  <2> DEFINE e == [run |-> NewRun, digest |-> d, duplicate |-> TRUE, status |-> "failed"]
  <2>1. e \in Entry /\ e.run = NewRun /\ e.status = "failed"
    BY <1>1 DEF Entry
  <2>2. log' = Append(log, e)
    BY <1>2 DEF Log
  <2>3. cmd'.own = next.own \cup {NewRun} /\ cmd'.ended = "error"
    BY <1>1, <1>2 DEF Become, CommandFields
  <2> HIDE DEF e
  <2>4. Wrote(next.own)
    BY <2>1, <2>2, <2>3 DEF Wrote
  <2> QED BY <1>1, <1>2, <2>4
<1>3. ASSUME NEW status \in {"failed", "passed", "candidate"}, NEW sound \in BOOLEAN, NEW removed \in BOOLEAN,
             Log(d, FALSE, status),
             candidates' = IF status = "candidate"
                           THEN candidates \cup {[run |-> NewRun, digest |-> d, sound |-> sound]}
                           ELSE candidates,
             leaked' = IF removed THEN leaked ELSE leaked + 1,
             Become([next EXCEPT !.ended = IF removed /\ status # "failed" THEN "ok" ELSE "error",
                                 !.own = @ \cup {NewRun}])
      PROVE  Wrote(next.own) /\ leaked' >= leaked /\ candidates \subseteq candidates'
  <2> DEFINE e == [run |-> NewRun, digest |-> d, duplicate |-> FALSE, status |-> status]
  <2>1. e \in Entry /\ e.run = NewRun /\ e.status = status /\ ~ e.duplicate
    BY <1>1 DEF Entry
  <2>2. log' = Append(log, e)
    BY <1>3 DEF Log
  <2>3. /\ cmd'.own = next.own \cup {NewRun}
        /\ cmd'.ended = IF removed /\ status # "failed" THEN "ok" ELSE "error"
    BY <1>1, <1>3 DEF Become, CommandFields
  <2>4. candidates \subseteq candidates' /\ leaked' >= leaked
    BY <1>1, <1>3
  <2>5. ASSUME status = "candidate" PROVE \E c \in candidates' : c.run = NewRun
    <3> DEFINE c == [run |-> NewRun, digest |-> d, sound |-> sound]
    <3>1. c \in candidates' /\ c.run = NewRun
      BY <1>3, <2>5
    <3> QED BY <3>1
  <2>6. cmd'.ended = "error" /\ status = "candidate" => leaked' > leaked
    BY <1>1, <1>3, <2>3
  <2> HIDE DEF e
  <2>7. Wrote(next.own)
    BY <2>1, <2>2, <2>3, <2>5, <2>6 DEF Wrote
  <2> QED BY <2>4, <2>7
<1>4. CASE /\ leaked' \in {leaked, leaked + 1} /\ Become([next EXCEPT !.ended = "error"])
           /\ UNCHANGED <<log, candidates>>
  <2>1. cmd'.own = next.own /\ cmd'.ended = "error"
    BY <1>1, <1>4 DEF Become, CommandFields
  <2>2. Wrote(next.own)
    BY <1>4, <2>1 DEF Wrote
  <2> QED BY <1>1, <1>4, <2>2
<1>5. CASE ~ KnownBad(d)
  <2>1. ASSUME \E status \in {"failed", "passed", "candidate"}, sound, removed \in BOOLEAN :
                 /\ status # "candidate" => sound
                 /\ Log(d, FALSE, status)
                 /\ candidates' = IF status = "candidate"
                                  THEN candidates \cup {[run |-> NewRun, digest |-> d, sound |-> sound]}
                                  ELSE candidates
                 /\ leaked' = IF removed THEN leaked ELSE leaked + 1
                 /\ Become([next EXCEPT !.ended = IF removed /\ status # "failed" THEN "ok" ELSE "error",
                                        !.own = @ \cup {NewRun}])
        PROVE  Wrote(next.own) /\ leaked' >= leaked /\ candidates \subseteq candidates'
    BY <1>3, <2>1
  <2> QED BY <1>4, <1>5, <2>1 DEF Trial
<1> QED BY <1>2, <1>5 DEF Trial

LEMMA CycleWrites ==
  ASSUME TypeInv, Cycle
  PROVE  /\ Wrote(cmd.own) /\ leaked' >= leaked /\ candidates \subseteq candidates'
         /\ cmd'.step = "record" /\ cmd'.before = LastRun
         /\ cmd'.report.count = cmd.report.count /\ cmd'.report.candidates = cmd.report.candidates
         /\ cmd'.report.leaks = cmd.report.leaks
         /\ cmd'.bounded = cmd.bounded /\ cmd'.supervised = cmd.supervised
<1>1. cmd \in Command /\ TypeOK /\ leaked \in Nat
  <2>1. TypeOK /\ ~ At("idle")
    BY DEF Cycle, TypeInv, At
  <2> QED BY <2>1, Working DEF TypeOK
<1>2. PICK r \in Report : /\ r.count = cmd.report.count /\ r.candidates = cmd.report.candidates
                          /\ r.leaks = cmd.report.leaks
                          /\ CycleNext(r) \in Command /\ Tries(CycleNext(r))
  BY CycleTries
<1> DEFINE t == CycleNext(r)
<1>3. /\ t.step = "record" /\ t.before = LastRun /\ t.report = r /\ t.own = cmd.own
      /\ t.bounded = cmd.bounded /\ t.supervised = cmd.supervised
      /\ DOMAIN t = CommandFields
  BY <1>1 DEF CycleNext, Command, CommandFields
<1>4. t \in Command /\ Tries(t)
  BY <1>2
<1> HIDE DEF t
<1>5. CASE \E d \in Digest : Trial(d, t)
  <2>1. PICK d \in Digest : Trial(d, t)
    BY <1>5
  <2>2. \A f \in CommandFields \ {"ended", "own"} : cmd'[f] = t[f]
    BY <1>3, <2>1, TrialEnds
  <2>3. /\ cmd'.step = t.step /\ cmd'.before = t.before /\ cmd'.report = t.report
        /\ cmd'.bounded = t.bounded /\ cmd'.supervised = t.supervised
    BY <2>2 DEF CommandFields
  <2>4. Wrote(t.own) /\ leaked' >= leaked /\ candidates \subseteq candidates'
    BY <1>1, <1>4, <2>1, TrialWrites
  <2> QED BY <1>2, <1>3, <2>3, <2>4
<1>6. CASE Become([t EXCEPT !.ended = "error"]) /\ UNCHANGED <<log, candidates, leaked>>
  <2>1. /\ cmd'.step = t.step /\ cmd'.before = t.before /\ cmd'.report = t.report
        /\ cmd'.bounded = t.bounded /\ cmd'.supervised = t.supervised
        /\ cmd'.own = t.own /\ cmd'.ended = "error"
    BY <1>3, <1>6 DEF Become, CommandFields
  <2>2. Wrote(t.own)
    BY <1>3, <1>6, <2>1 DEF Wrote
  <2> QED BY <1>1, <1>2, <1>3, <1>6, <2>1, <2>2
<1> QED BY <1>4, <1>5, <1>6 DEF Tries

-----------------------------------------------------------------------------
LEMMA AloneBefore == ASSUME TypeOK, [Next]_vars, Alone' 
  PROVE  Alone /\ ~ OthersBegin /\ ~ OthersDuplicate /\ ~ OthersPromote
<1>1. count \in Counts
  BY DEF TypeOK, Counts
<1>2. ASSUME NEW c \in {"commands", "cycles", "others", "deaths"}, Counted(c)
      PROVE  count'["others"] = IF c = "others" THEN count["others"] + 1 ELSE count["others"]
  BY <1>1, <1>2 DEF Counted, Counts
<1>3. count["others"] \in Nat /\ count'["others"] = 0
  BY <1>1 DEF Counts, Alone
<1>4. ~ OthersBegin /\ ~ OthersDuplicate /\ ~ OthersPromote
  <2>1. OthersBegin \/ OthersDuplicate \/ OthersPromote => Counted("others")
    BY DEF OthersBegin, OthersDuplicate, OthersPromote
  <2>2. ~ Counted("others")
    BY <1>2, <1>3
  <2> QED BY <2>1, <2>2
<1>5. \/ UNCHANGED count
      \/ \E c \in {"commands", "cycles", "deaths"} : Counted(c)
      \/ OthersBegin \/ OthersDuplicate \/ OthersPromote
  <2>1. CASE \E level \in Level, t \in TaskId, path \in Path, n \in 1..MaxAsked : Begin(level, t, path, n)
    BY <2>1 DEF Begin
  <2>2. CASE Round \/ Open \/ Record \/ ReplayAndCount \/ Close
    BY <2>2 DEF Round, Open, Record, ReplayAndCount, Close
  <2>3. CASE Adjust \/ Again \/ ReviewAgain \/ Reconcile \/ Finish \/ Collect \/ End
    BY <2>3 DEF Adjust, Again, ReviewAgain, Reconcile, Finish, Collect, End
  <2>4. CASE Cycle
    BY <2>4 DEF Cycle
  <2>5. CASE Crash
    BY <2>5 DEF Crash
  <2>6. CASE Others
    BY <2>6 DEF Others, OthersEnd
  <2>7. CASE UNCHANGED vars
    BY <2>7 DEF vars
  <2> QED BY <2>1, <2>2, <2>3, <2>4, <2>5, <2>6, <2>7 DEF Next
<1>6. count["others"] = 0
  BY <1>2, <1>3, <1>4, <1>5
<1> QED BY <1>4, <1>6 DEF Alone

LEMMA SameLog ==
  ASSUME LogInv, Alone' => Alone, UNCHANGED <<log, made, campaigns>>, ~ Campaigning',
         Alone => UNCHANGED theirs
  PROVE  LogInv'
BY DEF LogInv, Numbered, Told

(* Entries of the log and its newest, without other commands. *)
LEMMA LogFacts ==
  ASSUME TypeOK, Numbered
  PROVE  /\ log \in Seq(Entry) /\ Len(log) \in Nat /\ DOMAIN log = 1..Len(log)
         /\ LastRun = Len(log) /\ NewRun = Len(log) + 1
         /\ log # <<>> => Len(log) \in DOMAIN log /\ Last.run = Len(log) /\ Last \in Entry
<1>1. log \in Seq(Entry) /\ Len(log) \in Nat /\ DOMAIN log = 1..Len(log) /\ (log # <<>> => Len(log) > 0)
  BY DEF TypeOK
<1>2. log # <<>> => Len(log) \in DOMAIN log /\ log[Len(log)] \in Entry
  BY <1>1
<1>3. log = <<>> => Len(log) = 0
  OBVIOUS
<1>4. LastRun = Len(log)
  BY <1>1, <1>2, <1>3 DEF LastRun, Numbered
<1>5. NewRun = Len(log) + 1
  BY <1>1 DEF NewRun
<1> QED BY <1>1, <1>2, <1>4, <1>5 DEF Last, Numbered

LEMMA OpenTold == ASSUME TypeInv, LogInv, Alone' => Alone, Open PROVE LogInv'
<1>1. cmd \in Command /\ TypeOK
  <2>1. TypeOK /\ ~ At("idle")
    BY DEF Open, TypeInv, At
  <2> QED BY <2>1, Working
<1>2. UNCHANGED <<log, made, campaigns>> /\ (Alone => UNCHANGED theirs)
  <2>1. theirs' = [theirs EXCEPT !.stray = 0] /\ UNCHANGED <<log, made, campaigns>>
    BY DEF Open
  <2>2. Alone => theirs.stray = 0
    BY DEF LogInv, Numbered
  <2> QED BY <1>1, <2>1, <2>2 DEF TypeOK
<1>3. CASE cmd' = Idle
  BY <1>2, <1>3, SameLog DEF Campaigning, Idle
<1>4. CASE \E n : cmd' = [cmd EXCEPT !.step = "cycle", !.cycles = n, !.report = EmptyReport, !.own = {}]
  <2>1. cmd'.step = "cycle" /\ cmd'.report = EmptyReport /\ cmd'.own = {}
    BY <1>1, <1>4 DEF Command
  <2>2. \A lost : Matched(EmptyReport, log, {}, lost)
    BY MatchedEmpty
  <2>3. Matched(cmd'.report, log', cmd'.own \ Uncounted', LostNow')
    BY <1>2, <2>1, <2>2 DEF Uncounted
  <2>4. AtWork'
    BY <2>1, <2>3 DEF AtWork
  <2> QED BY <1>2, <2>4 DEF LogInv, Numbered, Told
<1> QED BY <1>3, <1>4 DEF Open, Become, Stop

LEMMA CycleTold == ASSUME TypeInv, LogInv, Alone' => Alone, Cycle PROVE LogInv'
<1> SUFFICES ASSUME Alone PROVE Numbered' /\ Told' /\ AtWork'
  BY DEF LogInv
<1>1. TypeOK /\ cmd \in Command /\ cmd.step = "cycle" /\ leaked \in Nat
  <2>1. TypeOK /\ ~ At("idle") /\ cmd.step = "cycle"
    BY DEF Cycle, TypeInv, At
  <2> QED BY <2>1, Working DEF TypeOK
<1>2. Numbered /\ Told /\ AtWork
  BY <1>1 DEF LogInv, Campaigning
<1>3. /\ Wrote(cmd.own) /\ leaked' >= leaked /\ cmd'.step = "record" /\ cmd'.before = LastRun
      /\ cmd'.report.count = cmd.report.count /\ cmd'.report.candidates = cmd.report.candidates
  BY CycleWrites
<1>4. UNCHANGED <<theirs, made, campaigns>>
  BY DEF Cycle
<1>5. /\ log \in Seq(Entry) /\ Len(log) \in Nat /\ DOMAIN log = 1..Len(log)
      /\ LastRun = Len(log) /\ NewRun = Len(log) + 1
  BY <1>1, <1>2, LogFacts
<1>6. Matched(cmd.report, log, cmd.own, LostNow) /\ cmd.own \subseteq DOMAIN log
  BY <1>1, <1>2 DEF AtWork, Uncounted
<1>7. leaked' \in Nat /\ (LostNow => LostNow')
  <2>1. leaked' \in Nat
    BY CycleTypes DEF TypeOK
  <2>2. leaked > 0 => leaked' > 0
    BY <1>1, <1>3, <2>1
  <2>3. cmd'.report.count["belowScore"] = cmd.report.count["belowScore"]
    BY <1>3
  <2> QED BY <2>1, <2>2, <2>3 DEF LostNow
<1>8. CASE log' = log /\ cmd'.own = cmd.own /\ cmd'.ended = "error"
  <2>1. Numbered' /\ Told'
    BY <1>2, <1>4, <1>8 DEF Numbered, Told
  <2>2. Uncounted' = {}
    BY <1>3, <1>5, <1>8 DEF Uncounted
  <2>3. Matched(cmd'.report, log', cmd'.own, LostNow')
    BY <1>3, <1>6, <1>7, <1>8, MatchedAlike
  <2>4. cmd'.own \ Uncounted' = cmd'.own
    BY <2>2
  <2>5. Matched(cmd'.report, log', cmd'.own \ Uncounted', LostNow')
    BY <2>3, <2>4
  <2>6. AtWork'
    BY <1>3, <1>5, <1>6, <1>8, <2>5 DEF AtWork
  <2> QED BY <2>1, <2>6
<1>9. ASSUME NEW e \in Entry, log' = Append(log, e), e.run = NewRun, e.status # "promoted",
             cmd'.own = cmd.own \cup {NewRun},
             cmd'.ended = "ok" => ~ e.duplicate,
             cmd'.ended = "error" /\ e.status = "candidate" => leaked' > leaked
      PROVE  Numbered' /\ Told' /\ AtWork'
  <2>1. /\ Len(log') = Len(log) + 1 /\ DOMAIN log' = 1..(Len(log) + 1)
        /\ \A i \in DOMAIN log : log'[i] = log[i]
        /\ log'[Len(log) + 1] = e
    BY <1>5, <1>9
  <2>2. \A i \in DOMAIN log' : i \in DOMAIN log \/ i = Len(log) + 1
    BY <1>5, <2>1
  <2>3. Numbered'
    BY <1>2, <1>4, <1>5, <1>9, <2>1, <2>2 DEF Numbered
  <2>4. Told'
    <3>1. ASSUME NEW c \in DOMAIN campaigns
          PROVE  Matched(campaigns[c], log', made[c], Lost(campaigns[c]))
      BY <1>2, <1>5, <1>9, MatchedLater DEF Told
    <3> QED BY <1>2, <1>4, <3>1 DEF Told
  <2>5. Uncounted' = {NewRun} /\ NewRun \notin cmd.own
    BY <1>3, <1>5, <1>6, <2>1 DEF Uncounted
  <2>6. cmd'.own \ Uncounted' = cmd.own
    BY <1>9, <2>5
  <2>7. Matched(cmd.report, log', cmd.own, LostNow)
    BY <1>5, <1>6, <1>9, MatchedLater
  <2>8. Matched(cmd'.report, log', cmd.own, LostNow')
    BY <1>3, <1>7, <2>7, MatchedAlike
  <2>9. Matched(cmd'.report, log', cmd'.own \ Uncounted', LostNow')
    BY <2>6, <2>8
  <2>10. Last' = e
    BY <2>1 DEF Last
  <2>11. cmd'.own \subseteq DOMAIN log' /\ Len(log') \in cmd'.own /\ cmd'.before = Len(log') - 1
         /\ cmd'.before < Len(log')
    BY <1>3, <1>5, <1>6, <1>9, <2>1
  <2>12. cmd'.ended = "error" /\ e.status = "candidate" => leaked' > 0
    BY <1>1, <1>7, <1>9
  <2>13. AtWork'
    BY <1>3, <1>9, <2>9, <2>10, <2>11, <2>12 DEF AtWork
  <2> QED BY <2>3, <2>4, <2>13
<1> QED BY <1>3, <1>8, <1>9 DEF Wrote

(* The newest entry is counted: a duplicate after an error, a candidate when it is found. *)
LEMMA RecordTold == ASSUME TypeInv, LogInv, Alone' => Alone, Record PROVE LogInv'
<1> SUFFICES ASSUME Alone PROVE Numbered' /\ Told' /\ (Campaigning => AtWork)'
  BY DEF LogInv
<1>1. TypeOK /\ cmd \in Command /\ cmd.step = "record" /\ leaked \in Nat /\ cmd.report \in Report
      /\ (cmd.ended = "ok" => log # <<>>)
  <2>1. TypeOK /\ ~ At("idle") /\ cmd.step = "record"
    BY DEF Record, TypeInv, At
  <2> QED BY <2>1, Working DEF TypeOK, Command, TypeInv, Going
<1>2. Numbered /\ Told /\ AtWork
  BY <1>1 DEF LogInv, Campaigning
<1>3. UNCHANGED <<log, theirs, made, campaigns, leaked, candidates, replays>>
  BY DEF Record
<1>4. Numbered' /\ Told'
  BY <1>2, <1>3 DEF Numbered, Told
<1>5. /\ log \in Seq(Entry) /\ Len(log) \in Nat /\ DOMAIN log = 1..Len(log)
      /\ LastRun = Len(log)
      /\ log # <<>> => Len(log) \in DOMAIN log /\ Last.run = Len(log) /\ Last \in Entry
  BY <1>1, <1>2, LogFacts
<1> DEFINE n == Len(log)
           new == cmd.before < Len(log)
           old == IF new THEN cmd.own \ {n} ELSE cmd.own
<1>6. /\ Matched(cmd.report, log, old, LostNow) /\ cmd.own \subseteq DOMAIN log
      /\ cmd.before \in {n, n - 1}
      /\ cmd.ended = "ok" => new /\ ~ Last.duplicate
      /\ new => n \in cmd.own /\ (cmd.ended = "error" /\ Last.status = "candidate" => leaked > 0)
  BY <1>1, <1>2 DEF AtWork, Uncounted
<1>7. LastRun # cmd.before <=> new
  BY <1>5, <1>6
<1>8. new => n \in DOMAIN log /\ Last = log[n] /\ Last \in Entry
  BY <1>5, <1>6 DEF Last
<1> DEFINE seen == EntryCounts(Last.status)
           leaky == [cmd.report EXCEPT !.leaks = @ + Sandboxes]
<1>9. leaky \in Report /\ leaky.count = cmd.report.count /\ leaky.candidates = cmd.report.candidates
  <2>1. cmd.report.leaks + Sandboxes \in Nat
    BY <1>1 DEF TypeOK, Sandboxes, Report
  <2>2. leaky \in Report
    BY <1>1, <2>1, ReportStays
  <2> QED BY <1>1, <2>2 DEF Report
<1> HIDE DEF leaky, new
<1>10. CASE cmd.ended = "error" /\ cmd' = [cmd EXCEPT !.step = "cycle", !.report = Raise(cmd.report, ErrorCountsNow)]
  <2> DEFINE q == Raise(cmd.report, ErrorCountsNow)
  <2>1. cmd'.step = "cycle" /\ cmd'.report = q /\ cmd'.own = cmd.own
    BY <1>1, <1>10 DEF Command
  <2>2. /\ q.candidates = cmd.report.candidates
        /\ q.count["belowScore"] = cmd.report.count["belowScore"]
        /\ q.count["failedReplay"] = cmd.report.count["failedReplay"]
        /\ q.count["duplicate"] = IF "duplicate" \in ErrorCountsNow THEN cmd.report.count["duplicate"] + 1
                                  ELSE cmd.report.count["duplicate"]
    <3>1. "belowScore" \notin ErrorCountsNow /\ "failedReplay" \notin ErrorCountsNow
      BY DEF ErrorCountsNow, DuplicateCounts, ErrorCounts
    <3>2. "belowScore" \in Count /\ "failedReplay" \in Count /\ "duplicate" \in Count
      BY DEF Count
    <3> QED BY <1>1, <3>1, <3>2, RaisedTells
  <2>3. "duplicate" \in ErrorCountsNow <=> new /\ Last.duplicate
    BY <1>7 DEF ErrorCountsNow, DuplicateCounts, ErrorCounts
  <2> HIDE DEF q
  <2>4. CASE ~ new
    <3>1. Matched(q, log, cmd.own, LostNow)
      BY <1>6, <2>2, <2>3, <2>4, MatchedAlike
    <3>2. LostNow => LostNow'
      BY <1>3, <2>1, <2>2 DEF LostNow
    <3>3. Matched(cmd'.report, log', cmd'.own \ Uncounted', LostNow')
      BY <1>3, <2>1, <3>1, <3>2, MatchedAlike DEF Uncounted
    <3> QED BY <1>3, <1>4, <1>6, <2>1, <3>3 DEF AtWork
  <2>5. CASE new
    <3>1. /\ q.count["duplicate"] = IF log[n].duplicate THEN cmd.report.count["duplicate"] + 1
                                    ELSE cmd.report.count["duplicate"]
          /\ Elements(cmd.report.candidates) = Elements(q.candidates)
          /\ q.candidates = <<>> => q.count["failedReplay"] = 0
      BY <1>6, <1>8, <2>2, <2>3, <2>5 DEF Matched
    <3>2. Offered(log, {n}) \subseteq Elements(q.candidates) \/ LostNow
      <4>1. log[n].status = "candidate" => LostNow
        BY <1>6, <1>8, <1>10, <2>5 DEF LostNow
      <4> HIDE DEF n
      <4> QED BY <4>1 DEF Offered
    <3>3. Matched(cmd.report, log, cmd.own \ {n}, LostNow) /\ n \in DOMAIN log /\ n \in cmd.own
      BY <1>6, <1>8, <2>5
    <3> HIDE DEF n
    <3>4. LostNow => LostNow'
      BY <1>3, <2>1, <2>2 DEF LostNow
    <3>5. Matched(q, log, cmd.own, LostNow')
      <4>1. Offered(log, {n}) \subseteq Elements(q.candidates) \/ LostNow'
        BY <3>2, <3>4
      <4>2. /\ Elements(cmd.report.candidates) = Elements(q.candidates)
            /\ q.candidates = <<>> => q.count["failedReplay"] = 0
        BY <3>1
      <4>3. log \in Seq(Entry) /\ cmd.own \subseteq DOMAIN log
        BY <1>5, <1>6
      <4>4. CASE log[n].duplicate
        <5>1. q.count["duplicate"] = cmd.report.count["duplicate"] + 1
          BY <3>1, <4>4
        <5> QED BY <3>3, <3>4, <4>1, <4>2, <4>3, <4>4, <5>1, MatchedMore
      <4>5. CASE ~ log[n].duplicate
        <5>1. q.count["duplicate"] = cmd.report.count["duplicate"]
          BY <3>1, <4>5
        <5> QED BY <3>3, <3>4, <4>1, <4>2, <4>3, <4>5, <5>1, MatchedMore
      <4> QED BY <4>4, <4>5
    <3>6. Matched(cmd'.report, log', cmd'.own \ Uncounted', LostNow')
      BY <1>3, <2>1, <3>5 DEF Uncounted
    <3> QED BY <1>3, <1>4, <1>6, <2>1, <3>6 DEF AtWork
  <2> QED BY <2>4, <2>5
(* A cycle that ended well and found no candidate, or one below the score. *)
<1>11. ASSUME cmd.ended = "ok", NEW r \in Report, r.count = cmd.report.count, r.candidates = cmd.report.candidates,
              NEW cs, "duplicate" \notin cs, "failedReplay" \notin cs,
              Last.status = "candidate" => "belowScore" \in cs,
              cmd' = [cmd EXCEPT !.step = "cycle", !.report = Raise(r, cs)]
       PROVE  Numbered' /\ Told' /\ (Campaigning => AtWork)'
  <2> DEFINE q == Raise(r, cs)
  <2>1. cmd'.step = "cycle" /\ cmd'.report = q /\ cmd'.own = cmd.own
    BY <1>1, <1>11 DEF Command
  <2>2. /\ q.candidates = cmd.report.candidates
        /\ q.count["belowScore"] >= cmd.report.count["belowScore"] /\ cmd.report.count["belowScore"] \in Nat
        /\ "belowScore" \in cs => q.count["belowScore"] = cmd.report.count["belowScore"] + 1
        /\ q.count["failedReplay"] = cmd.report.count["failedReplay"]
        /\ q.count["duplicate"] = cmd.report.count["duplicate"]
    BY <1>11, RaisedTells DEF Count
  <2> HIDE DEF q
  <2>3. q.count["belowScore"] \in Nat
    BY <1>11, RaisedTells, <2>2 DEF Count, q
  <2>4. /\ ~ log[n].duplicate /\ n \in DOMAIN log /\ n \in cmd.own
        /\ Matched(cmd.report, log, cmd.own \ {n}, LostNow)
    BY <1>6, <1>8, <1>11
  <2>5. (LostNow => LostNow') /\ (log[n].status = "candidate" => LostNow')
    BY <1>3, <1>6, <1>8, <1>11, <2>1, <2>2, <2>3 DEF LostNow
  <2>6. q.candidates = <<>> => q.count["failedReplay"] = 0
    BY <2>2, <2>4 DEF Matched
  <2>7. Offered(log, {n}) \subseteq Elements(q.candidates) \/ LostNow'
    BY <2>5 DEF Offered
  <2>8. Elements(cmd.report.candidates) = Elements(q.candidates)
    BY <2>2
  <2> HIDE DEF n
  <2>9. Matched(q, log, cmd.own, LostNow')
    BY <1>5, <1>6, <2>2, <2>4, <2>5, <2>6, <2>7, <2>8, MatchedMore
  <2>10. Matched(cmd'.report, log', cmd'.own \ Uncounted', LostNow')
    BY <1>3, <2>1, <2>9 DEF Uncounted
  <2> QED BY <1>3, <1>4, <1>6, <2>1, <2>10 DEF AtWork
<1>12. CASE /\ cmd.ended = "ok" /\ Last.status = "candidate"
            /\ cmd' = [cmd EXCEPT !.step = "replay", !.found = Last.run,
                                  !.review = ReviewOf(Last.run), !.report = Raise(leaky, seen)]
  <2> DEFINE q == Raise(leaky, seen)
  <2>1. /\ cmd'.step = "replay" /\ cmd'.report = q /\ cmd'.own = cmd.own /\ cmd'.found = Last.run
        /\ cmd'.review = ReviewOf(Last.run)
    BY <1>1, <1>12 DEF Command
  <2>2. "duplicate" \notin seen /\ "failedReplay" \notin seen /\ "belowScore" \notin seen
    BY DEF EntryCounts
  <2>3. /\ q.candidates = cmd.report.candidates
        /\ q.count["belowScore"] = cmd.report.count["belowScore"]
        /\ q.count["failedReplay"] = cmd.report.count["failedReplay"]
        /\ q.count["duplicate"] = cmd.report.count["duplicate"]
    BY <1>9, <2>2, RaisedTells DEF Count
  <2> HIDE DEF q
  <2>4. ~ Gone(Last.run)
    <3>1. Promoted = {}
      BY <1>2 DEF Promoted, Numbered
    <3> QED BY <3>1 DEF Gone
  <2>5. ~ cmd'.review.promoted
    BY <2>1, <2>4 DEF ReviewOf
  <2>6. LostNow' <=> LostNow
    BY <1>3, <2>1, <2>3 DEF LostNow
  <2>7. /\ n \in cmd.own /\ ~ Last.duplicate /\ Last.run = n
        /\ Matched(cmd.report, log, cmd.own \ {n}, LostNow)
    BY <1>1, <1>5, <1>6, <1>12
  <2>8. Matched(q, log, cmd.own \ {n}, LostNow')
    BY <2>3, <2>6, <2>7, MatchedAlike
  <2>9. Uncounted' = {n}
    BY <1>3, <2>1 DEF Uncounted
  <2>10. Matched(cmd'.report, log', cmd'.own \ Uncounted', LostNow')
    BY <1>3, <2>1, <2>8, <2>9
  <2>11. Last' = Last
    BY <1>3 DEF Last
  <2> QED BY <1>3, <1>4, <1>6, <1>12, <2>1, <2>5, <2>7, <2>10, <2>11 DEF AtWork
<1>13. \/ cmd.ended = "error" /\ cmd' = [cmd EXCEPT !.step = "cycle", !.report = Raise(cmd.report, ErrorCountsNow)]
       \/ cmd.ended = "ok" /\ Last.duplicate
       \/ /\ cmd.ended = "ok" /\ Last.status # "candidate"
          /\ cmd' = [cmd EXCEPT !.step = "cycle", !.report = Raise(leaky, seen \cup Rejection("notUseful"))]
       \/ /\ cmd.ended = "ok" /\ Last.status = "candidate"
          /\ cmd' = [cmd EXCEPT !.step = "cycle", !.report = Raise(leaky, seen \cup Rejection("belowScore"))]
       \/ /\ cmd.ended = "ok" /\ Last.status = "candidate"
          /\ cmd' = [cmd EXCEPT !.step = "replay", !.found = Last.run,
                                !.review = ReviewOf(Last.run), !.report = Raise(leaky, seen)]
  BY DEF Record, Become, leaky
<1>14. /\ "duplicate" \notin seen \cup Rejection("notUseful") /\ "failedReplay" \notin seen \cup Rejection("notUseful")
       /\ "duplicate" \notin seen \cup Rejection("belowScore") /\ "failedReplay" \notin seen \cup Rejection("belowScore")
       /\ "belowScore" \in seen \cup Rejection("belowScore")
  BY DEF EntryCounts, Rejection
<1> HIDE DEF seen
<1> QED BY <1>6, <1>9, <1>10, <1>11, <1>12, <1>13, <1>14

(* The candidate found is the newest entry's, and joins the report. *)
LEMMA FoundTold == ASSUME TypeInv, LogInv, Alone' => Alone, ReplayAndCount PROVE LogInv'
<1> SUFFICES ASSUME Alone PROVE Numbered' /\ Told' /\ AtWork'
  BY DEF LogInv
<1>1. /\ TypeOK /\ cmd \in Command /\ cmd.step = "replay" /\ leaked \in Nat /\ cmd.report \in Report
      /\ cmd.found \in Nat
  <2>1. TypeOK /\ ~ At("idle") /\ cmd.step = "replay"
    BY DEF ReplayAndCount, TypeInv, At
  <2> QED BY <2>1, Working DEF TypeOK, Command
<1>2. Numbered /\ Told /\ AtWork
  BY <1>1 DEF LogInv, Campaigning
<1>3. UNCHANGED <<log, theirs, made, campaigns>>
  BY DEF ReplayAndCount
<1>4. Numbered' /\ Told'
  BY <1>2, <1>3 DEF Numbered, Told
<1>5. log \in Seq(Entry) /\ Len(log) \in Nat /\ DOMAIN log = 1..Len(log)
  BY <1>1, <1>2, LogFacts
<1> DEFINE n == Len(log)
<1>6. /\ Matched(cmd.report, log, cmd.own \ {n}, LostNow) /\ cmd.own \subseteq DOMAIN log
      /\ cmd.found = n /\ n \in cmd.own /\ log[n].status = "candidate" /\ ~ log[n].duplicate
      /\ ~ cmd.review.promoted
  BY <1>1, <1>2 DEF AtWork, Uncounted, Last
<1> DEFINE kept == [cmd.report EXCEPT !.candidates = Append(@, cmd.found)]
           found == UsefulCounts(cmd.review.allowed)
<1>7. /\ kept \in Report /\ kept.count = cmd.report.count
      /\ kept.candidates = Append(cmd.report.candidates, n)
  <2>1. kept \in Report
    BY <1>1, ReportStays
  <2> QED BY <1>1, <1>6, <2>1 DEF Report
<1> HIDE DEF kept
<1>8. /\ \/ \E ok : cmd' = [cmd EXCEPT !.step = "cycle", !.report = Raise(Raise(kept, ReplayCounts(ok)), found)]
         \/ cmd' = [cmd EXCEPT !.step = "cycle", !.report = Raise(kept, found)]
      /\ leaked' = leaked \/ leaked' = leaked + 1
  <2>1. CASE cmd.task.replay
    <3>1. PICK result \in {"ok", "failed", "error"} :
            /\ Replay(cmd.found, result)
            /\ cmd' = [cmd EXCEPT !.step = "cycle",
                 !.report = Raise(Raise(kept, ReplayCounts(result # "error" /\ cmd.review.ok)), found)]
      BY <1>6, <2>1 DEF ReplayAndCount, Become, kept
    <3>2. leaked' = leaked \/ leaked' = leaked + 1
      BY <3>1 DEF Replay
    <3> HIDE DEF found
    <3> QED BY <3>1, <3>2
  <2>2. CASE ~ cmd.task.replay
    BY <1>6, <2>2 DEF ReplayAndCount, Become, kept
  <2> QED BY <2>1, <2>2
<1>9. /\ \A ok : "duplicate" \notin ReplayCounts(ok) /\ "belowScore" \notin ReplayCounts(ok)
      /\ "duplicate" \notin found /\ "belowScore" \notin found
  BY DEF ReplayCounts, Rejection, UsefulCounts
<1> HIDE DEF found
<1>10. PICK q : /\ cmd' = [cmd EXCEPT !.step = "cycle", !.report = q]
                /\ q.candidates = Append(cmd.report.candidates, n)
                /\ q.count["duplicate"] = cmd.report.count["duplicate"]
                /\ q.count["belowScore"] = cmd.report.count["belowScore"]
  <2>0. "duplicate" \in Count /\ "belowScore" \in Count
    BY DEF Count
  <2>1. CASE \E ok : cmd' = [cmd EXCEPT !.step = "cycle", !.report = Raise(Raise(kept, ReplayCounts(ok)), found)]
    <3>1. PICK ok : cmd' = [cmd EXCEPT !.step = "cycle", !.report = Raise(Raise(kept, ReplayCounts(ok)), found)]
      BY <2>1
    <3> DEFINE m == Raise(kept, ReplayCounts(ok))
    <3>2. /\ m \in Report /\ m.candidates = kept.candidates
          /\ m.count["duplicate"] = kept.count["duplicate"] /\ m.count["belowScore"] = kept.count["belowScore"]
      BY <1>7, <1>9, <2>0, ReportStays, RaisedTells
    <3> HIDE DEF m
    <3>3. /\ Raise(m, found).candidates = m.candidates
          /\ Raise(m, found).count["duplicate"] = m.count["duplicate"]
          /\ Raise(m, found).count["belowScore"] = m.count["belowScore"]
      BY <1>9, <2>0, <3>2, RaisedTells
    <3> QED BY <1>7, <3>1, <3>2, <3>3 DEF m
  <2>2. CASE cmd' = [cmd EXCEPT !.step = "cycle", !.report = Raise(kept, found)]
    <3>1. /\ Raise(kept, found).candidates = kept.candidates
          /\ Raise(kept, found).count["duplicate"] = kept.count["duplicate"]
          /\ Raise(kept, found).count["belowScore"] = kept.count["belowScore"]
      BY <1>7, <1>9, <2>0, RaisedTells
    <3> QED BY <1>7, <2>2, <3>1
  <2> QED BY <1>8, <2>1, <2>2
<1>11. cmd'.step = "cycle" /\ cmd'.report = q /\ cmd'.own = cmd.own
  BY <1>1, <1>10 DEF Command
<1>12. Elements(q.candidates) = Elements(cmd.report.candidates) \cup {n} /\ q.candidates # <<>>
  <2>1. cmd.report.candidates \in Seq(Nat)
    BY <1>1 DEF Report
  <2>2. n \in Nat
    BY <1>5
  <2> HIDE DEF n
  <2>3. Elements(Append(cmd.report.candidates, n)) = Elements(cmd.report.candidates) \cup {n}
    BY <2>1, <2>2, ElementsAdded
  <2>4. Append(cmd.report.candidates, n) # <<>>
    BY <2>1, <2>2, EntryAdded
  <2> QED BY <1>10, <2>3, <2>4
<1>13. LostNow => LostNow'
  <2>1. leaked > 0 => leaked' > 0
    <3>1. leaked \in Nat
      BY <1>1
    <3>2. leaked' = leaked \/ leaked' = leaked + 1
      BY <1>8
    <3> QED BY <3>1, <3>2
  <2>2. cmd'.report.count["belowScore"] = cmd.report.count["belowScore"]
    BY <1>10, <1>11
  <2> QED BY <2>1, <2>2 DEF LostNow
<1>14. Offered(log, {n}) = {n}
  <2> HIDE DEF n
  <2> QED BY <1>6 DEF Offered
<1>15. n \in DOMAIN log
  BY <1>6
<1> HIDE DEF n
<1>16. Matched(q, log, cmd.own, LostNow')
  <2>1. Elements(cmd.report.candidates) \subseteq Elements(q.candidates)
    BY <1>12
  <2>2. Elements(q.candidates) \subseteq Elements(cmd.report.candidates) \cup Offered(log, {n})
    BY <1>12, <1>14
  <2>3. Offered(log, {n}) \subseteq Elements(q.candidates) \/ LostNow'
    BY <1>12, <1>14
  <2>4. q.candidates = <<>> => q.count["failedReplay"] = 0
    BY <1>12
  <2>5. /\ Matched(cmd.report, log, cmd.own \ {n}, LostNow) /\ cmd.own \subseteq DOMAIN log
        /\ n \in cmd.own /\ ~ log[n].duplicate /\ log \in Seq(Entry)
    BY <1>5, <1>6
  <2>6. q.count["duplicate"] = cmd.report.count["duplicate"]
    BY <1>10
  <2> QED BY <1>13, <1>15, <2>1, <2>2, <2>3, <2>4, <2>5, <2>6, MatchedMore
<1>17. Matched(cmd'.report, log', cmd'.own \ Uncounted', LostNow')
  BY <1>3, <1>11, <1>16 DEF Uncounted
<1> QED BY <1>3, <1>4, <1>6, <1>11, <1>17 DEF AtWork

LEMMA ClosedTells ==
  ASSUME NEW r \in Report, NEW s \in Nat
  PROVE  /\ Closed(r, s).count = r.count /\ Closed(r, s).candidates = r.candidates
         /\ Closed(r, s).leaks = r.leaks + s
  BY DEF Closed, Report

LEMMA CloseTold == ASSUME TypeInv, LogInv, Alone' => Alone, Close PROVE LogInv'
<1> SUFFICES ASSUME Alone PROVE Numbered' /\ Told' /\ ~ Campaigning'
  BY DEF LogInv
<1>1. /\ TypeOK /\ cmd \in Command /\ cmd.step = "cycle" /\ leaked \in Nat /\ cmd.report \in Report
      /\ cmd.report.leaks \in Nat
  <2>1. TypeOK /\ ~ At("idle") /\ cmd.step = "cycle"
    BY DEF Close, TypeInv, At
  <2> QED BY <2>1, Working DEF TypeOK, Command, Report
<1>2. Numbered /\ Told /\ AtWork
  BY <1>1 DEF LogInv, Campaigning
<1> DEFINE report == Closed(cmd.report, Sandboxes)
<1>3. /\ campaigns' = Append(campaigns, report) /\ made' = Append(made, cmd.own)
      /\ UNCHANGED <<log, theirs>>
      /\ cmd' = Idle \/ cmd' = [cmd EXCEPT !.step = "adjust", !.report = report]
  BY DEF Close, Become, Stop
<1>4. /\ report.count = cmd.report.count /\ report.candidates = cmd.report.candidates
      /\ report.leaks = cmd.report.leaks + Sandboxes /\ report \in Report
      /\ Sandboxes \in Nat /\ Sandboxes >= leaked
  <2>1. Sandboxes \in Nat /\ Sandboxes >= leaked
    BY <1>1 DEF Sandboxes, TypeOK
  <2> QED BY <1>1, <2>1, ClosedTells, ReportStays
<1> HIDE DEF report
<1>5. Matched(cmd.report, log, cmd.own, LostNow)
  BY <1>1, <1>2 DEF AtWork, Uncounted
<1>6. LostNow => Lost(report)
  BY <1>1, <1>4 DEF LostNow, Lost
<1>7. Matched(report, log, cmd.own, Lost(report))
  BY <1>4, <1>5, <1>6, MatchedAlike
<1>8. Numbered'
  BY <1>2, <1>3 DEF Numbered
<1>9. Told'
  <2>1. /\ campaigns \in Seq(Report) /\ made \in Seq(SUBSET Nat) /\ cmd.own \in SUBSET Nat
        /\ Len(made) = Len(campaigns)
    BY <1>1, <1>2 DEF TypeOK, Told, Command
  <2> DEFINE m == Len(campaigns)
  <2>2. /\ m \in Nat /\ Len(campaigns') = m + 1 /\ DOMAIN campaigns' = 1..(m + 1) /\ DOMAIN campaigns = 1..m
        /\ campaigns'[m + 1] = report /\ \A c \in 1..m : campaigns'[c] = campaigns[c]
    BY <1>3, <1>4, <2>1
  <2>3. /\ Len(made') = m + 1 /\ made'[m + 1] = cmd.own /\ \A c \in 1..m : made'[c] = made[c]
    BY <1>3, <2>1
  <2> HIDE DEF m
  <2>4. ASSUME NEW c \in 1..(m + 1)
        PROVE  Matched(campaigns'[c], log, made'[c], Lost(campaigns'[c]))
    <3>1. CASE c \in 1..m
      BY <1>2, <2>2, <2>3, <3>1 DEF Told
    <3>2. CASE c = m + 1
      BY <1>7, <2>2, <2>3, <3>2
    <3> QED BY <2>2, <3>1, <3>2
  <2> QED BY <1>3, <2>2, <2>3, <2>4 DEF Told
<1>10. ~ Campaigning'
  <2>1. CASE cmd' = Idle
    BY <2>1 DEF Campaigning, Idle
  <2>2. CASE cmd' = [cmd EXCEPT !.step = "adjust", !.report = report]
    <3>1. cmd'.step = "adjust"
      BY <1>1, <2>2 DEF Command
    <3> QED BY <3>1 DEF Campaigning
  <2> QED BY <1>3, <2>1, <2>2
<1> QED BY <1>8, <1>9, <1>10

(* A recount leaves alone all but the counts of replays and promotions. *)
LEMMA ReconciledTells ==
  ASSUME NEW r \in Report, NEW replay, NEW ok, NEW allowed, NEW promoted,
         NEW q, q = Reconciled(r, replay, ok, allowed, promoted)
  PROVE  /\ q.candidates = r.candidates /\ q.leaks = r.leaks
         /\ q.count["duplicate"] = r.count["duplicate"] /\ q.count["belowScore"] = r.count["belowScore"]
         /\ q.count["useful"] = r.count["useful"]
         /\ r.candidates = <<>> => q = r
<1> DEFINE passed == Among(r, LAMBDA run : run \in ok)
           gone == Among(r, LAMBDA run : run \in promoted)
           ready == Among(r, LAMBDA run : run \in allowed)
           c == r.count
           counts == [c EXCEPT !["replayAttempted"] = IF replay THEN Len(r.candidates) ELSE 0,
                               !["replayPassed"] = passed,
                               !["replayFailed"] = Len(r.candidates) - passed,
                               !["failedReplay"] = Len(r.candidates) - passed,
                               !["ready"] = ready,
                               !["alreadyPromoted"] = gone,
                               !["rejected"] = Less(Less(c["rejected"], c["failedReplay"]), c["alreadyPromoted"])
                                               + (Len(r.candidates) - passed) + gone]
<1>1. r.count \in [Count -> Nat]
  BY DEF Report
<1>2. CASE r.candidates = <<>>
  <2>1. q = r
    BY <1>2 DEF Reconciled
  <2> QED BY <1>2, <2>1
<1>3. CASE r.candidates # <<>>
  <2>1. q.count = counts /\ q.candidates = r.candidates /\ q.leaks = r.leaks
    BY <1>3 DEF Reconciled, Report
  <2> HIDE DEF passed, gone, ready
  <2>2. /\ counts["duplicate"] = c["duplicate"] /\ counts["belowScore"] = c["belowScore"]
        /\ counts["useful"] = c["useful"] /\ counts["failedReplay"] = Len(r.candidates) - passed
    BY <1>1 DEF Count
  <2> HIDE DEF counts
  <2>3. /\ q.candidates = r.candidates /\ q.leaks = r.leaks
        /\ q.count["duplicate"] = r.count["duplicate"] /\ q.count["belowScore"] = r.count["belowScore"]
        /\ q.count["useful"] = r.count["useful"]
        /\ q.count["failedReplay"] = Len(r.candidates) - passed
    BY <2>1, <2>2
  <2> QED BY <1>3, <2>3
<1> QED BY <1>2, <1>3

LEMMA ReconcileChanges ==
  ASSUME TypeOK, Reconcile
  PROVE  /\ campaigns \in Seq(Report) /\ Len(campaigns') = Len(campaigns) /\ DOMAIN campaigns' = DOMAIN campaigns
         /\ \A c \in DOMAIN campaigns : campaigns'[c] = IF c = Cid THEN Refreshed(campaigns[c]) ELSE campaigns[c]
<1>1. campaigns \in Seq(Report) /\ campaigns' = [campaigns EXCEPT ![Cid] = Refreshed(@)]
  BY DEF TypeOK, Reconcile
<1>2. /\ DOMAIN campaigns' = DOMAIN campaigns
      /\ \A c \in DOMAIN campaigns : campaigns'[c] = IF c = Cid THEN Refreshed(campaigns[c]) ELSE campaigns[c]
  BY <1>1
<1>3. \E n \in Nat : DOMAIN campaigns = 1..n /\ Len(campaigns) = n
  BY <1>1
<1>4. Len(campaigns') = Len(campaigns)
  <2>1. PICK n \in Nat : DOMAIN campaigns = 1..n /\ Len(campaigns) = n
    BY <1>3
  <2>2. campaigns' \in Seq({campaigns'[c] : c \in DOMAIN campaigns})
    <3>1. campaigns' \in [1..n -> {campaigns'[c] : c \in DOMAIN campaigns}]
      <4>1. campaigns' = [c \in 1..n |-> IF c = Cid THEN Refreshed(campaigns[c]) ELSE campaigns[c]]
        BY <1>1, <2>1
      <4> QED BY <1>2, <2>1, <4>1
    <3> QED BY <2>1, <3>1
  <2> QED BY <1>2, <2>1, <2>2
<1> QED BY <1>1, <1>2, <1>4

LEMMA ReconcileTold == ASSUME TypeInv, LogInv, Alone' => Alone, Reconcile PROVE LogInv'
<1> SUFFICES ASSUME Alone PROVE Numbered' /\ Told' /\ ~ Campaigning'
  BY DEF LogInv
<1>1. TypeOK /\ cmd \in Command
  <2>1. TypeOK /\ ~ At("idle")
    BY DEF Reconcile, TypeInv, At
  <2> QED BY <2>1, Working
<1>2. Numbered /\ Told
  BY DEF LogInv
<1>3. UNCHANGED <<log, theirs, made>>
  BY DEF Reconcile
<1>4. Numbered'
  BY <1>2, <1>3 DEF Numbered
<1>5. ASSUME NEW c \in DOMAIN campaigns
      PROVE  Matched(Refreshed(campaigns[c]), log, made[c], Lost(Refreshed(campaigns[c])))
  <2> DEFINE r == campaigns[c]
             q == Refreshed(r)
  <2>1. r \in Report
    BY <1>1 DEF TypeOK
  <2>2. /\ q.candidates = r.candidates /\ q.leaks = r.leaks
        /\ q.count["duplicate"] = r.count["duplicate"] /\ q.count["belowScore"] = r.count["belowScore"]
        /\ r.candidates = <<>> => q = r
    <3> HIDE DEF r
    <3>1. ASSUME NEW p, p = q
          PROVE  /\ p.candidates = r.candidates /\ p.leaks = r.leaks
                 /\ p.count["duplicate"] = r.count["duplicate"] /\ p.count["belowScore"] = r.count["belowScore"]
                 /\ r.candidates = <<>> => p = r
      <4>1. PICK replay, ok, allowed, promoted : p = Reconciled(r, replay, ok, allowed, promoted)
        BY <3>1 DEF Refreshed
      <4> HIDE DEF q
      <4>2. /\ p.candidates = r.candidates /\ p.leaks = r.leaks
            /\ p.count["duplicate"] = r.count["duplicate"] /\ p.count["belowScore"] = r.count["belowScore"]
        BY <2>1, <4>1, ReconciledTells
      <4>3. r.candidates = <<>> => p = r
        BY <2>1, <4>1, ReconciledTells
      <4> QED BY <4>2, <4>3
    <3> QED BY <3>1
  <2>3. Matched(r, log, made[c], Lost(r))
    BY <1>2 DEF Told
  <2> HIDE DEF q, r
  <2>4. Lost(r) => Lost(q)
    BY <2>2 DEF Lost
  <2>5. Matched(q, log, made[c], Lost(q))
    BY <2>2, <2>3, <2>4, MatchedAlike
  <2> QED BY <2>5 DEF q, r
<1>6. Told'
  BY <1>1, <1>2, <1>3, <1>5, ReconcileChanges DEF Told
<1>7. cmd'.step = IF StopsNow \/ LastTurn THEN "finish" ELSE "open"
  BY <1>1 DEF Reconcile, Become, Command
<1> QED BY <1>4, <1>6, <1>7 DEF Campaigning

LEMMA LogInvInit == Init => LogInv
<1> SUFFICES ASSUME Init PROVE LogInv
  OBVIOUS
<1>1. cmd = Idle /\ log = <<>> /\ campaigns = <<>> /\ made = <<>> /\ theirs = [live |-> 0, stray |-> 0]
  BY DEF Init
<1>2. DOMAIN <<>> = {} /\ Len(<<>>) = 0
  OBVIOUS
<1>3. Numbered /\ Told /\ ~ Campaigning
  BY <1>1, <1>2 DEF Numbered, Told, Campaigning, Idle
<1> QED BY <1>3 DEF LogInv

(* Steps that leave the log and the reports, and are no campaign's. *)
LEMMA OtherSteps ==
  ASSUME TypeInv,
         \/ \E level \in Level, t \in TaskId, path \in Path, n \in 1..MaxAsked : Begin(level, t, path, n)
         \/ Round \/ Adjust \/ Again \/ ReviewAgain \/ Finish \/ Collect \/ End \/ Crash
  PROVE  UNCHANGED <<log, theirs, made, campaigns>> /\ ~ Campaigning'
<1>1. CASE \E level \in Level, t \in TaskId, path \in Path, n \in 1..MaxAsked : Begin(level, t, path, n)
  BY <1>1 DEF Begin, Become, Campaigning
<1>2. ASSUME ~ At("idle") PROVE cmd \in Command
  BY <1>2, Working DEF TypeInv
<1>3. cmd' = Idle => ~ Campaigning'
  BY DEF Campaigning, Idle
<1>4. CASE Round
  <2>1. cmd \in Command
    BY <1>2, <1>4 DEF Round, At
  <2>2. cmd' = Idle \/ \E t, n, b : cmd' = [cmd EXCEPT !.step = "open", !.task = t, !.turns = n, !.bounded = b]
    BY <1>4 DEF Round, Become, Stop
  <2>3. cmd' = Idle \/ cmd'.step = "open"
    BY <2>1, <2>2 DEF Command
  <2> QED BY <1>3, <1>4, <2>3 DEF Round, Campaigning
<1>5. CASE Adjust
  <2>1. cmd \in Command
    BY <1>2, <1>5 DEF Adjust, At
  <2>2. cmd'.step = "again"
    BY <1>5, <2>1 DEF Adjust, Become, Command
  <2> QED BY <1>5, <2>2 DEF Adjust, Campaigning
<1>6. CASE Again \/ Finish
  <2>1. cmd \in Command
    BY <1>2, <1>6 DEF Again, Finish, At
  <2>2. cmd' = Idle \/ cmd'.step \in {"review", "collect"}
    BY <1>6, <2>1 DEF Again, Finish, Go, Become, Stop, Command
  <2> QED BY <1>3, <1>6, <2>2 DEF Again, Finish, Campaigning
<1>7. CASE ReviewAgain
  <2>1. cmd \in Command
    BY <1>2, <1>7 DEF ReviewAgain, At
  <2>2. cmd'.step = "again"
    BY <1>7, <2>1 DEF ReviewAgain, Become, Command
  <2> QED BY <1>7, <2>2 DEF ReviewAgain, Campaigning
<1>8. CASE Collect
  <2>1. cmd \in Command
    BY <1>2, <1>8 DEF Collect, At
  <2>2. cmd'.step \in {"end", "round"}
    BY <1>8, <2>1 DEF Collect, Become, Command
  <2> QED BY <1>8, <2>2 DEF Collect, Campaigning
<1>9. CASE End \/ Crash
  BY <1>3, <1>9 DEF End, Crash, Stop, Become
<1> QED BY <1>1, <1>4, <1>5, <1>6, <1>7, <1>8, <1>9

LEMMA LogInvKept == ASSUME TypeInv, LogInv, [Next]_vars PROVE LogInv'
<1>1. Alone' => Alone /\ ~ OthersBegin /\ ~ OthersDuplicate /\ ~ OthersPromote
  BY AloneBefore DEF TypeInv
<1>2. CASE \/ \E level \in Level, t \in TaskId, path \in Path, n \in 1..MaxAsked : Begin(level, t, path, n)
           \/ Round \/ Adjust \/ Again \/ ReviewAgain \/ Finish \/ Collect \/ End \/ Crash
  BY <1>1, <1>2, OtherSteps, SameLog
<1>3. CASE Others
  <2>1. OthersEnd => theirs.live > 0
    BY DEF OthersEnd
  <2>2. Alone => theirs.live = 0
    BY DEF LogInv, Numbered
  <2>3. ~ Alone'
    BY <1>1, <1>3, <2>1, <2>2 DEF Others
  <2> QED BY <2>3 DEF LogInv
<1>4. CASE UNCHANGED vars
  BY <1>4 DEF LogInv, Numbered, Told, AtWork, Uncounted, LostNow, Campaigning, Alone, Last, vars
<1>5. CASE Open \/ Cycle \/ Record \/ ReplayAndCount \/ Close \/ Reconcile
  BY <1>1, <1>5, OpenTold, CycleTold, RecordTold, FoundTold, CloseTold, ReconcileTold
<1> QED BY <1>2, <1>3, <1>4, <1>5 DEF Next

(* Theorem: without other commands every report is about its campaign's own entries of the
   log: the duplicates it counts were logged by its cycles, its candidates too, and one it
   leaves out was below the score asked for or left a sandbox behind. *)
THEOREM ReportsAlwaysMatchLog == Spec => []ReportsMatchLog
<1>1. ASSUME TypeInv, LogInv PROVE ReportsMatchLog
  <2> SUFFICES ASSUME Alone, NEW c \in DOMAIN campaigns
               PROVE  LET r == campaigns[c]
                          offered == {log[i].run : i \in OwnRuns(c, LAMBDA e : e.status = "candidate")}
                          omitted == offered \ Elements(r.candidates)
                      IN /\ r.count["duplicate"] = Cardinality(OwnRuns(c, LAMBDA e : e.duplicate))
                         /\ Elements(r.candidates) \subseteq offered
                         /\ omitted # {} => r.leaks + r.count["belowScore"] + r.count["alreadyPromoted"] > 0
    BY DEF ReportsMatchLog
  <2>1. Numbered /\ Matched(campaigns[c], log, made[c], Lost(campaigns[c]))
    BY <1>1 DEF LogInv, Told
  <2>2. \A i \in DOMAIN log : log[i].run = i
    BY <2>1 DEF Numbered
  <2>3. made[c] \subseteq DOMAIN log
    BY <2>1 DEF Matched
  <2>4. OwnRuns(c, LAMBDA e : e.duplicate) = Dups(log, made[c])
    BY <2>2, <2>3 DEF OwnRuns, Dups
  <2>5. {log[i].run : i \in OwnRuns(c, LAMBDA e : e.status = "candidate")} = Offered(log, made[c])
    BY <2>2, <2>3 DEF OwnRuns, Offered
  <2>6. Lost(campaigns[c]) =>
          campaigns[c].leaks + campaigns[c].count["belowScore"] + campaigns[c].count["alreadyPromoted"] > 0
    <3>1. campaigns[c] \in Report
      BY <1>1 DEF TypeInv, TypeOK
    <3>2. /\ campaigns[c].leaks \in Nat /\ campaigns[c].count["belowScore"] \in Nat
          /\ campaigns[c].count["alreadyPromoted"] \in Nat
      BY <3>1 DEF Report, Count
    <3> QED BY <3>2 DEF Lost
  <2> QED BY <2>1, <2>4, <2>5, <2>6 DEF Matched
<1>2. TypeInv /\ LogInv /\ [Next]_vars => (TypeInv /\ LogInv)'
  BY TypeInvKept, LogInvKept
<1>3. Init => TypeInv /\ LogInv
  BY TypeInvInit, LogInvInit
<1> QED BY <1>1, <1>2, <1>3, PTL DEF Spec

-----------------------------------------------------------------------------
(* What a supervised run counts stays true of the rounds it counted *)

ReplayedOk(rp, run) == run \in DOMAIN rp /\ rp[run]

(* Runs the campaign under way may replay once more; the others are done with. *)
OpenRuns ==
  IF cmd.step \in {"cycle", "record", "replay", "adjust", "again", "review"} THEN cmd.own ELSE {}
Done == DOMAIN log \ OpenRuns

FailedRounds(s, rp) ==
  {i \in DOMAIN s.bounded : \E r \in Elements(s.bounded[i].candidates) : ~ ReplayedOk(rp, r)}
EmptyRounds(s, cs) ==
  {i \in DOMAIN s.bounded : \A c \in Elements(s.bounded[i].campaigns) : cs[c].count["useful"] = 0}

(* A supervised run, the replays and reports on file, and the runs done with. *)
Earned(s, rp, cs, runs) ==
  /\ s.ready \subseteq runs /\ \A r \in s.ready : ReplayedOk(rp, r)
  /\ \A i \in DOMAIN s.bounded : /\ Elements(s.bounded[i].candidates) \subseteq runs
                                 /\ Elements(s.bounded[i].campaigns) \subseteq DOMAIN cs
  /\ s.failures <= Cardinality(FailedRounds(s, rp))
  /\ s.zeroYields <= Cardinality(EmptyRounds(s, cs))

Ended(s, leaks) ==
  /\ s.status = "promotion_ready_candidate_found" <=> (s.ready # {} /\ s.status # "safety_stop")
  /\ s.status = "replay_failed_exhausted" => s.failures >= 2
  /\ s.status = "zero_yield_exhausted" => s.zeroYields >= 2
  /\ s.status = "safety_stop" => leaks > 0

(* A failed replay that a reconciled report counts is one of its candidates'. *)
FailureFound(r, rp) ==
  r.count["failedReplay"] > 0 => \E run \in Elements(r.candidates) : ~ ReplayedOk(rp, run)

(* A bounded run and its reports, of which some are not reconciled yet. *)
Gathered(b, cs, rp, left) ==
  /\ Elements(b.campaigns) \subseteq DOMAIN cs
  /\ \A c \in Elements(b.campaigns) \ left :
       FailureFound(cs[c], rp) /\ Elements(cs[c].candidates) \subseteq Elements(b.candidates)

Reviewing    == cmd.step \in {"again", "review"}
Closing      == Reviewing \/ At("adjust")
Unreconciled == IF Reviewing THEN {Cid} ELSE {}

OnFile == \A i \in DOMAIN log : log[i].status = "candidate" => \E c \in candidates : c.run = i

Past == \A s \in Elements(supervised) : Earned(s, replays, campaigns, Done) /\ Ended(s, leaked)

(* No campaign but the one at its end may see its runs replayed. *)
Apart == \A c \in DOMAIN campaigns : (c = Cid /\ Closing) \/ made[c] \cap OpenRuns = {}

RunKnown ==
  /\ Earned(cmd.supervised, replays, campaigns, Done)
  /\ IF At("end") THEN Ended(cmd.supervised, leaked) ELSE cmd.supervised.ready = {}

RoundKnown ==
  /\ cmd.bounded.leaks > 0 => leaked > 0
  /\ Elements(cmd.bounded.candidates) \subseteq DOMAIN log
  /\ Gathered(cmd.bounded, campaigns, replays, Unreconciled)

CampaignKnown ==
  /\ cmd.report.leaks > 0 => leaked > 0
  /\ Closing => Cid \in DOMAIN campaigns /\ made[Cid] = cmd.own
  /\ At("adjust") => campaigns[Cid] = cmd.report
  /\ Reviewing => /\ Elements(cmd.todo) \subseteq cmd.own
                  /\ Elements(campaigns[Cid].candidates)
                       \subseteq Elements(cmd.bounded.candidates) \cup Elements(cmd.todo)

EarnedInv ==
  Alone => OnFile /\ Past /\ Apart /\ (~ At("idle") => RunKnown /\ RoundKnown /\ CampaignKnown)

-----------------------------------------------------------------------------
(* What is counted once holds as long as the replays it rests on. *)
LEMMA EarnedStays ==
  ASSUME NEW s, NEW rp, NEW cs, NEW runs, Earned(s, rp, cs, runs),
         NEW rq, NEW ct, NEW more, runs \subseteq more,
         \A r \in runs : ReplayedOk(rp, r) <=> ReplayedOk(rq, r),
         DOMAIN cs \subseteq DOMAIN ct,
         \A c \in DOMAIN cs : ct[c].count["useful"] = cs[c].count["useful"]
  PROVE  Earned(s, rq, ct, more)
<1>1. FailedRounds(s, rq) = FailedRounds(s, rp)
  <2>1. ASSUME NEW i \in DOMAIN s.bounded
        PROVE  (\E r \in Elements(s.bounded[i].candidates) : ~ ReplayedOk(rp, r))
                 <=> (\E r \in Elements(s.bounded[i].candidates) : ~ ReplayedOk(rq, r))
    BY DEF Earned
  <2> QED BY <2>1 DEF FailedRounds
<1>2. EmptyRounds(s, ct) = EmptyRounds(s, cs)
  <2>1. ASSUME NEW i \in DOMAIN s.bounded
        PROVE  (\A c \in Elements(s.bounded[i].campaigns) : cs[c].count["useful"] = 0)
                 <=> (\A c \in Elements(s.bounded[i].campaigns) : ct[c].count["useful"] = 0)
    BY DEF Earned
  <2> QED BY <2>1 DEF EmptyRounds
<1> QED BY <1>1, <1>2 DEF Earned

LEMMA GatheredStays ==
  ASSUME NEW b, NEW cs, NEW rp, NEW left, Gathered(b, cs, rp, left),
         NEW rq, NEW ct, DOMAIN cs \subseteq DOMAIN ct,
         \A c \in Elements(b.campaigns) \ left :
           /\ ct[c] = cs[c]
           /\ \A r \in Elements(cs[c].candidates) : ReplayedOk(rp, r) <=> ReplayedOk(rq, r)
  PROVE  Gathered(b, ct, rq, left)
<1>1. ASSUME NEW c \in Elements(b.campaigns) \ left
      PROVE  FailureFound(ct[c], rq) /\ Elements(ct[c].candidates) \subseteq Elements(b.candidates)
  BY DEF Gathered, FailureFound
<1> QED BY <1>1 DEF Gathered

(* No step changes what is settled. *)
Settling ==
  /\ Done \subseteq Done'
  /\ \A r \in Done : ReplayedOk(replays, r) <=> ReplayedOk(replays, r)'
  /\ DOMAIN campaigns \subseteq DOMAIN campaigns'
  /\ \A c \in DOMAIN campaigns : campaigns'[c].count["useful"] = campaigns[c].count["useful"]
  /\ leaked' >= leaked

LEMMA PastStays ==
  ASSUME TypeOK, TypeOK', Past, Settling, UNCHANGED supervised PROVE Past'
<1>1. leaked \in Nat /\ leaked' \in Nat /\ leaked' >= leaked
  BY DEF TypeOK, Settling
<1>2. ASSUME NEW s \in Elements(supervised)
      PROVE  Earned(s, replays', campaigns', Done') /\ Ended(s, leaked')
  <2>1. Earned(s, replays, campaigns, Done) /\ Ended(s, leaked)
    BY DEF Past
  <2>2. Earned(s, replays', campaigns', Done')
    BY <2>1, EarnedStays DEF Settling
  <2>3. Ended(s, leaked')
    BY <1>1, <2>1 DEF Ended
  <2> QED BY <2>2, <2>3
<1> QED BY <1>2 DEF Past, Elements

LEMMA RunStays ==
  ASSUME TypeOK, TypeOK', RunKnown, Settling, ~ At("end"), ~ At("end")',
         cmd'.supervised = cmd.supervised
  PROVE  RunKnown'
<1>1. Earned(cmd.supervised, replays', campaigns', Done')
  BY EarnedStays DEF RunKnown, Settling
<1> QED BY <1>1 DEF RunKnown

(* The candidates of a closed report are done with. *)
LEMMA ClosedDone ==
  ASSUME LogInv, Alone, Apart, NEW c \in DOMAIN campaigns, ~ (c = Cid /\ Closing)
  PROVE  Elements(campaigns[c].candidates) \subseteq Done
<1>1. Matched(campaigns[c], log, made[c], Lost(campaigns[c])) /\ made[c] \cap OpenRuns = {}
  BY DEF LogInv, Told, Apart
<1>2. Elements(campaigns[c].candidates) \subseteq made[c] /\ made[c] \subseteq DOMAIN log
  BY <1>1 DEF Matched, Offered
<1> QED BY <1>1, <1>2 DEF Done

LEMMA EmptyEarned ==
  /\ \A rp, cs, runs : Earned(EmptySupervised, rp, cs, runs)
  /\ \A t, cs, rp, left : Gathered(EmptyBounded(t), cs, rp, left)
<1>1. Elements(<<>>) = {} /\ DOMAIN <<>> = {}
  BY DEF Elements
<1>2. Cardinality({}) = 0
  BY FS_EmptySet
<1>3. /\ EmptySupervised.bounded = <<>> /\ EmptySupervised.ready = {}
      /\ EmptySupervised.failures = 0 /\ EmptySupervised.zeroYields = 0
  BY DEF EmptySupervised
<1>4. \A rp, cs : FailedRounds(EmptySupervised, rp) = {} /\ EmptyRounds(EmptySupervised, cs) = {}
  BY <1>1, <1>3 DEF FailedRounds, EmptyRounds
<1>5. \A rp, cs, runs : Earned(EmptySupervised, rp, cs, runs)
  <2> SUFFICES ASSUME NEW rp, NEW cs, NEW runs PROVE Earned(EmptySupervised, rp, cs, runs)
    OBVIOUS
  <2>1. /\ FailedRounds(EmptySupervised, rp) = {} /\ EmptyRounds(EmptySupervised, cs) = {}
    BY <1>4
  <2>2. DOMAIN EmptySupervised.bounded = {}
    BY <1>1, <1>3
  <2> QED BY <1>2, <1>3, <2>1, <2>2 DEF Earned
<1>6. \A t, cs, rp, left : Gathered(EmptyBounded(t), cs, rp, left)
  BY <1>1 DEF Gathered, EmptyBounded
<1> QED BY <1>5, <1>6

(* A step that leaves the log, the replays and the reports settles nothing anew. *)
LEMMA QuietSettles ==
  ASSUME TypeOK, UNCHANGED <<log, candidates, replays, campaigns, made>>, leaked' >= leaked,
         OpenRuns' \subseteq OpenRuns
  PROVE  Settling /\ (OnFile => OnFile')
<1>1. Done \subseteq Done'
  BY DEF Done
<1>2. OnFile => OnFile'
  BY DEF OnFile
<1> QED BY <1>1, <1>2 DEF Settling, ReplayedOk

LEMMA QuietStep ==
  ASSUME TypeOK, TypeOK', EarnedInv, Alone' => Alone, supervised' = supervised,
         UNCHANGED <<log, candidates, replays, campaigns, made>>, leaked' >= leaked,
         OpenRuns' \subseteq OpenRuns, OpenRuns' = {} \/ (Closing => Closing'),
         Alone /\ ~ At("idle")' => (RunKnown /\ RoundKnown /\ CampaignKnown)'
  PROVE  EarnedInv'
<1> SUFFICES ASSUME Alone, Alone' PROVE EarnedInv'
  BY DEF EarnedInv
<1>1. OnFile /\ Past /\ Apart
  BY DEF EarnedInv
<1>2. Settling /\ OnFile'
  BY <1>1, QuietSettles
<1>3. Past'
  BY <1>1, <1>2, PastStays
<1>4. Apart'
  <2>1. CASE OpenRuns' = {}
    BY <2>1 DEF Apart
  <2>2. CASE Closing => Closing'
    <3>1. Cid' = Cid
      BY DEF Cid
    <3>2. ASSUME NEW c \in DOMAIN campaigns
          PROVE  (c = Cid /\ Closing') \/ made[c] \cap OpenRuns' = {}
      BY <1>1, <2>2 DEF Apart
    <3> QED BY <3>1, <3>2 DEF Apart
  <2> QED BY <2>1, <2>2
<1> QED BY <1>2, <1>3, <1>4 DEF EarnedInv

LEMMA IdleEarns ==
  ASSUME TypeOK, TypeOK', EarnedInv, Alone' => Alone, supervised' = supervised,
         UNCHANGED <<log, candidates, replays, campaigns, made>>, leaked' >= leaked, cmd' = Idle
  PROVE  EarnedInv'
<1>1. OpenRuns' = {} /\ At("idle")'
  BY DEF OpenRuns, Idle, At
<1> QED BY <1>1, QuietStep

(* A round that goes on keeps what is known of it. *)
LEMMA RoundStays ==
  ASSUME TypeOK, TypeOK', RoundKnown, cmd'.bounded = cmd.bounded, leaked' >= leaked,
         DOMAIN log \subseteq DOMAIN log', UNCHANGED <<replays, campaigns>>,
         Unreconciled = {}, Unreconciled' = {}
  PROVE  RoundKnown'
<1>1. leaked \in Nat /\ leaked' \in Nat
  BY DEF TypeOK
<1>2. Gathered(cmd.bounded, campaigns, replays, {})
  BY DEF RoundKnown
<1>3. cmd'.bounded.leaks > 0 => leaked' > 0
  BY <1>1 DEF RoundKnown
<1>4. Elements(cmd'.bounded.candidates) \subseteq DOMAIN log'
  BY DEF RoundKnown
<1> QED BY <1>2, <1>3, <1>4 DEF RoundKnown

LEMMA BeginEarns ==
  ASSUME TypeInv, TypeOK', LogInv, EarnedInv, Alone' => Alone,
         NEW level \in Level, NEW t \in TaskId, NEW path \in Path, NEW n \in 1..MaxAsked,
         Begin(level, t, path, n)
  PROVE  EarnedInv'
<1>1. /\ cmd'.step \in {"round", "open"} /\ cmd'.report = EmptyReport
      /\ cmd'.bounded = EmptyBounded(t) /\ cmd'.supervised = EmptySupervised
  BY DEF Begin, Become
<1>2. /\ UNCHANGED <<log, candidates, replays, campaigns, made, leaked>> /\ supervised' = supervised
      /\ leaked \in Nat /\ TypeOK
  BY DEF Begin, TypeInv, TypeOK
<1>3. OpenRuns' = {} /\ ~ At("end")' /\ ~ Closing' /\ ~ Reviewing' /\ ~ At("adjust")'
  BY <1>1 DEF OpenRuns, At, Closing, Reviewing
<1>4. RunKnown'
  <2>1. cmd'.supervised.ready = {}
    BY <1>1 DEF EmptySupervised
  <2>2. Earned(EmptySupervised, replays', campaigns', Done')
    BY EmptyEarned
  <2> QED BY <1>1, <1>3, <2>1, <2>2 DEF RunKnown
<1>5. RoundKnown'
  <2>1. cmd'.bounded.leaks = 0 /\ Elements(cmd'.bounded.candidates) = {}
    BY <1>1 DEF EmptyBounded, Elements
  <2>2. Gathered(EmptyBounded(t), campaigns', replays', Unreconciled')
    BY EmptyEarned
  <2> QED BY <1>1, <2>1, <2>2 DEF RoundKnown
<1>6. CampaignKnown'
  <2>1. cmd'.report.leaks = 0
    BY <1>1 DEF EmptyReport
  <2> QED BY <1>3, <2>1 DEF CampaignKnown
<1> QED BY <1>2, <1>3, <1>4, <1>5, <1>6, QuietStep

(* Steps that find a run under way leave it a command. *)
LEMMA AtWorkNow == ASSUME TypeInv, ~ At("idle") PROVE cmd \in Command /\ TypeOK
  BY Working DEF TypeInv

LEMMA RoundEarns ==
  ASSUME TypeInv, TypeOK', LogInv, EarnedInv, Alone' => Alone, Round PROVE EarnedInv'
<1>1. cmd \in Command /\ TypeOK /\ At("round") /\ ~ At("idle")
  <2>1. At("round") /\ ~ At("idle")
    BY DEF Round, At
  <2> QED BY <2>1, AtWorkNow
<1>2. /\ UNCHANGED <<log, candidates, replays, campaigns, made, leaked>> /\ supervised' = supervised
      /\ leaked' >= leaked
  BY <1>1 DEF Round, TypeOK
<1>3. CASE cmd' = Idle
  BY <1>1, <1>2, <1>3, IdleEarns
<1>4. ASSUME NEW task, NEW n,
             cmd' = [cmd EXCEPT !.step = "open", !.task = task, !.turns = n, !.bounded = EmptyBounded(cmd.id)]
      PROVE  EarnedInv'
  <2>1. /\ cmd'.step = "open" /\ cmd'.report = cmd.report /\ cmd'.supervised = cmd.supervised
        /\ cmd'.bounded = EmptyBounded(cmd.id)
    BY <1>1, <1>4 DEF Command
  <2>2. OpenRuns' = {} /\ ~ At("end")' /\ ~ Closing' /\ ~ Reviewing' /\ ~ At("adjust")' /\ ~ At("end")
    BY <1>1, <2>1 DEF OpenRuns, At, Closing, Reviewing
  <2>3. Settling
    BY <1>1, <1>2, <2>2, QuietSettles
  <2>4. ASSUME Alone PROVE (RunKnown /\ RoundKnown /\ CampaignKnown)'
    <3>1. RunKnown /\ CampaignKnown
      BY <1>1, <2>4 DEF EarnedInv
    <3>2. RunKnown'
      BY <1>1, <2>1, <2>2, <2>3, <3>1, RunStays
    <3>3. RoundKnown'
      <4>1. cmd'.bounded.leaks = 0 /\ Elements(cmd'.bounded.candidates) = {}
        BY <2>1 DEF EmptyBounded, Elements
      <4>2. Gathered(EmptyBounded(cmd.id), campaigns', replays', Unreconciled')
        BY EmptyEarned
      <4> QED BY <2>1, <4>1, <4>2 DEF RoundKnown
    <3>4. CampaignKnown'
      BY <1>2, <2>1, <2>2, <3>1 DEF CampaignKnown
    <3> QED BY <3>2, <3>3, <3>4
  <2> QED BY <1>1, <1>2, <2>2, <2>4, QuietStep
<1> QED BY <1>3, <1>4 DEF Round, Become, Stop

LEMMA OpenEarns ==
  ASSUME TypeInv, TypeOK', LogInv, EarnedInv, Alone' => Alone, Open PROVE EarnedInv'
<1>1. cmd \in Command /\ TypeOK /\ At("open") /\ ~ At("idle")
  <2>1. At("open") /\ ~ At("idle")
    BY DEF Open, At
  <2> QED BY <2>1, AtWorkNow
<1>2. /\ UNCHANGED <<log, candidates, replays, campaigns, made>> /\ supervised' = supervised
      /\ leaked' >= leaked
  BY <1>1 DEF Open, TypeOK
<1>3. CASE cmd' = Idle
  BY <1>1, <1>2, <1>3, IdleEarns
<1>4. ASSUME NEW n, cmd' = [cmd EXCEPT !.step = "cycle", !.cycles = n, !.report = EmptyReport, !.own = {}]
      PROVE  EarnedInv'
  <2>1. /\ cmd'.step = "cycle" /\ cmd'.report = EmptyReport /\ cmd'.own = {}
        /\ cmd'.supervised = cmd.supervised /\ cmd'.bounded = cmd.bounded
    BY <1>1, <1>4 DEF Command
  <2>2. /\ OpenRuns' = {} /\ ~ At("end")' /\ ~ Closing' /\ ~ Reviewing' /\ ~ At("adjust")'
        /\ ~ At("end") /\ ~ Reviewing
    BY <1>1, <2>1 DEF OpenRuns, At, Closing, Reviewing
  <2>3. Settling
    BY <1>1, <1>2, <2>2, QuietSettles
  <2>4. ASSUME Alone PROVE (RunKnown /\ RoundKnown /\ CampaignKnown)'
    <3>1. RunKnown /\ RoundKnown
      BY <1>1, <2>4 DEF EarnedInv
    <3>2. RunKnown'
      BY <1>1, <2>1, <2>2, <2>3, <3>1, RunStays
    <3>3. RoundKnown'
      <4>1. Unreconciled = {} /\ Unreconciled' = {} /\ DOMAIN log \subseteq DOMAIN log'
        BY <1>2, <2>2 DEF Unreconciled
      <4> QED BY <1>1, <1>2, <2>1, <3>1, <4>1, RoundStays
    <3>4. CampaignKnown'
      <4>1. cmd'.report.leaks = 0
        BY <2>1 DEF EmptyReport
      <4> QED BY <2>2, <4>1 DEF CampaignKnown
    <3> QED BY <3>2, <3>3, <3>4
  <2> QED BY <1>1, <1>2, <2>2, <2>4, QuietStep
<1> QED BY <1>3, <1>4 DEF Open, Become, Stop

LEMMA FinishEarns ==
  ASSUME TypeInv, TypeOK', LogInv, EarnedInv, Alone' => Alone, Finish PROVE EarnedInv'
<1>1. cmd \in Command /\ TypeOK /\ At("finish") /\ ~ At("idle")
  <2>1. At("finish") /\ ~ At("idle")
    BY DEF Finish, At
  <2> QED BY <2>1, AtWorkNow
<1>2. /\ UNCHANGED <<log, candidates, replays, campaigns, made, leaked>> /\ supervised' = supervised
      /\ leaked' >= leaked
  BY <1>1 DEF Finish, TypeOK
<1>3. CASE cmd' = Idle
  BY <1>1, <1>2, <1>3, IdleEarns
<1>4. CASE cmd' = [cmd EXCEPT !.step = "collect"]
  <2>1. /\ cmd'.step = "collect" /\ cmd'.report = cmd.report
        /\ cmd'.supervised = cmd.supervised /\ cmd'.bounded = cmd.bounded
    BY <1>1, <1>4 DEF Command
  <2>2. /\ OpenRuns' = {} /\ ~ At("end")' /\ ~ Closing' /\ ~ Reviewing' /\ ~ At("adjust")'
        /\ ~ At("end") /\ ~ Reviewing
    BY <1>1, <2>1 DEF OpenRuns, At, Closing, Reviewing
  <2>3. Settling
    BY <1>1, <1>2, <2>2, QuietSettles
  <2>4. ASSUME Alone PROVE (RunKnown /\ RoundKnown /\ CampaignKnown)'
    <3>1. RunKnown /\ RoundKnown /\ CampaignKnown
      BY <1>1, <2>4 DEF EarnedInv
    <3>2. RunKnown'
      BY <1>1, <2>1, <2>2, <2>3, <3>1, RunStays
    <3>3. RoundKnown'
      <4>1. Unreconciled = {} /\ Unreconciled' = {} /\ DOMAIN log \subseteq DOMAIN log'
        BY <1>2, <2>2 DEF Unreconciled
      <4> QED BY <1>1, <1>2, <2>1, <3>1, <4>1, RoundStays
    <3>4. CampaignKnown'
      BY <1>2, <2>1, <2>2, <3>1 DEF CampaignKnown
    <3> QED BY <3>2, <3>3, <3>4
  <2> QED BY <1>1, <1>2, <2>2, <2>4, QuietStep
<1> QED BY <1>3, <1>4 DEF Finish, Become, Stop, Go

LEMMA CrashEarns ==
  ASSUME TypeInv, TypeOK', LogInv, EarnedInv, Alone' => Alone, Crash PROVE EarnedInv'
<1>1. TypeOK /\ leaked \in Nat /\ cmd' = Idle /\ supervised' = supervised
  BY DEF TypeInv, TypeOK, Crash, Stop, Become
<1>2. UNCHANGED <<log, candidates, replays, campaigns, made>>
  BY DEF Crash
<1>3. leaked' \in {leaked, leaked + 1}
  BY DEF Crash
<1>4. leaked' >= leaked
  BY <1>1, <1>3
<1> QED BY <1>1, <1>2, <1>4, IdleEarns

LEMMA RecordEarns ==
  ASSUME TypeInv, TypeOK', LogInv, EarnedInv, Alone' => Alone, Record PROVE EarnedInv'
<1>1. cmd \in Command /\ TypeOK /\ At("record") /\ ~ At("idle") /\ cmd.report \in Report
  <2>1. At("record") /\ ~ At("idle")
    BY DEF Record, At
  <2> QED BY <2>1, AtWorkNow DEF Command
<1>2. /\ UNCHANGED <<log, candidates, replays, campaigns, made, leaked>> /\ supervised' = supervised
      /\ leaked' >= leaked
  BY <1>1 DEF Record, TypeOK
<1> DEFINE leaky == [cmd.report EXCEPT !.leaks = @ + Sandboxes]
<1>3. PICK more, cs :
        /\ more = cmd.report \/ more = leaky
        /\ \/ cmd' = [cmd EXCEPT !.step = "cycle", !.report = Raise(more, cs)]
           \/ \E n, v : cmd' = [cmd EXCEPT !.step = "replay", !.found = n, !.review = v,
                                           !.report = Raise(more, cs)]
  <2> DEFINE seen == EntryCounts(Last.status)
  <2> HIDE DEF seen, leaky
  <2>1. CASE cmd.ended = "error"
    <3>1. cmd' = [cmd EXCEPT !.step = "cycle", !.report = Raise(cmd.report, ErrorCountsNow)]
      BY <2>1 DEF Record, Become
    <3> QED BY <3>1
  <2>2. CASE cmd.ended = "ok"
    <3>1. \/ cmd' = [cmd EXCEPT !.step = "cycle", !.report = Raise(cmd.report, seen \cup Rejection("duplicate"))]
          \/ cmd' = [cmd EXCEPT !.step = "cycle", !.report = Raise(leaky, seen \cup Rejection("notUseful"))]
          \/ cmd' = [cmd EXCEPT !.step = "cycle", !.report = Raise(leaky, seen \cup Rejection("belowScore"))]
          \/ cmd' = [cmd EXCEPT !.step = "replay", !.found = Last.run, !.review = ReviewOf(Last.run),
                                !.report = Raise(leaky, seen)]
      BY <2>2 DEF Record, Become, seen, leaky
    <3> QED BY <3>1
  <2> QED BY <2>1, <2>2 DEF Record
<1>4. /\ cmd'.step \in {"cycle", "replay"} /\ cmd'.own = cmd.own /\ cmd'.report = Raise(more, cs)
      /\ cmd'.supervised = cmd.supervised /\ cmd'.bounded = cmd.bounded
  BY <1>1, <1>3 DEF Command
<1>5. ASSUME Alone PROVE cmd'.report.leaks \in {cmd.report.leaks, cmd.report.leaks + leaked}
  <2>1. Sandboxes = leaked /\ Sandboxes \in Nat
    BY <1>1, <1>5 DEF LogInv, Numbered, Sandboxes, TypeOK
  <2>2. more \in Report /\ more.leaks \in {cmd.report.leaks, cmd.report.leaks + leaked}
    <3>1. CASE more = cmd.report
      BY <1>1, <3>1
    <3>2. CASE more = leaky
      <4>1. cmd.report.leaks + Sandboxes \in Nat
        BY <1>1, <2>1 DEF Report
      <4>2. more \in Report
        BY <1>1, <3>2, <4>1, ReportStays
      <4>3. more.leaks = cmd.report.leaks + Sandboxes
        BY <1>1, <3>2 DEF Report
      <4> QED BY <2>1, <4>2, <4>3
    <3> QED BY <1>3, <3>1, <3>2
  <2>3. Raise(more, cs).leaks = more.leaks
    BY <2>2, RaisedTells
  <2> QED BY <1>4, <2>2, <2>3
<1>6. /\ OpenRuns' = OpenRuns /\ ~ At("end")' /\ ~ Closing' /\ ~ Reviewing' /\ ~ At("adjust")'
      /\ ~ At("end") /\ ~ Reviewing /\ ~ Closing
  BY <1>1, <1>4 DEF OpenRuns, At, Closing, Reviewing
<1>7. Settling
  BY <1>1, <1>2, <1>6, QuietSettles
<1>8. ASSUME Alone PROVE (RunKnown /\ RoundKnown /\ CampaignKnown)'
  <2>1. RunKnown /\ RoundKnown /\ CampaignKnown
    BY <1>1, <1>8 DEF EarnedInv
  <2>2. RunKnown'
    BY <1>1, <1>4, <1>6, <1>7, <2>1, RunStays
  <2>3. RoundKnown'
    <3>1. Unreconciled = {} /\ Unreconciled' = {} /\ DOMAIN log \subseteq DOMAIN log'
      BY <1>2, <1>6 DEF Unreconciled
    <3> QED BY <1>1, <1>2, <1>4, <2>1, <3>1, RoundStays
  <2>4. CampaignKnown'
    <3>1. cmd.report.leaks \in Nat /\ leaked \in Nat
      BY <1>1 DEF Report, TypeOK
    <3>2. cmd'.report.leaks > 0 => leaked' > 0
      BY <1>2, <1>5, <1>8, <2>1, <3>1 DEF CampaignKnown
    <3> QED BY <1>6, <3>2 DEF CampaignKnown
  <2> QED BY <2>2, <2>3, <2>4
<1> QED BY <1>1, <1>2, <1>6, <1>8, QuietStep

LEMMA HeadAndTail ==
  ASSUME NEW S, NEW s \in Seq(S), s # <<>>
  PROVE  s[1] \in Elements(s) /\ Elements(s) = {s[1]} \cup Elements(Tail(s))
<1>1. /\ Len(s) \in Nat /\ Len(s) > 0 /\ DOMAIN s = 1..Len(s) /\ DOMAIN Tail(s) = 1..(Len(s) - 1)
      /\ \A i \in 1..(Len(s) - 1) : Tail(s)[i] = s[i + 1]
  OBVIOUS
<1>2. ASSUME NEW i \in DOMAIN s PROVE i = 1 \/ (i - 1 \in DOMAIN Tail(s) /\ Tail(s)[i - 1] = s[i])
  BY <1>1
<1>3. ASSUME NEW i \in DOMAIN Tail(s) PROVE i + 1 \in DOMAIN s /\ Tail(s)[i] = s[i + 1]
  BY <1>1
<1>4. 1 \in DOMAIN s
  BY <1>1
<1>5. Elements(s) \subseteq {s[1]} \cup Elements(Tail(s))
  BY <1>2 DEF Elements
<1>6. Elements(Tail(s)) \subseteq Elements(s)
  BY <1>3 DEF Elements
<1> QED BY <1>4, <1>5, <1>6 DEF Elements

LEMMA ReviewEarns ==
  ASSUME TypeInv, TypeOK', LogInv, EarnedInv, Alone' => Alone, ReviewAgain PROVE EarnedInv'
<1>1. cmd \in Command /\ TypeOK /\ At("review") /\ ~ At("idle") /\ cmd.todo \in Seq(Nat) /\ cmd.bounded \in Bounded
  <2>1. At("review") /\ ~ At("idle")
    BY DEF ReviewAgain, At
  <2> QED BY <2>1, AtWorkNow DEF Command
<1>2. /\ UNCHANGED <<log, candidates, replays, campaigns, made, leaked>> /\ supervised' = supervised
      /\ leaked' >= leaked /\ cmd.todo # <<>>
  BY <1>1 DEF ReviewAgain, TypeOK
<1> DEFINE run == cmd.todo[1]
<1>3. PICK ready : cmd' = [cmd EXCEPT !.step = "again", !.todo = Tail(@),
                                      !.bounded.candidates = Append(@, run), !.bounded.ready = ready]
  BY DEF ReviewAgain, Become
<1>4. /\ cmd'.step = "again" /\ cmd'.own = cmd.own /\ cmd'.report = cmd.report
      /\ cmd'.supervised = cmd.supervised /\ cmd'.todo = Tail(cmd.todo)
      /\ cmd'.bounded = [cmd.bounded EXCEPT !.candidates = Append(@, run), !.ready = ready]
  BY <1>1, <1>3 DEF Command
<1>5. /\ cmd'.bounded.candidates = Append(cmd.bounded.candidates, run)
      /\ cmd'.bounded.campaigns = cmd.bounded.campaigns /\ cmd'.bounded.leaks = cmd.bounded.leaks
      /\ cmd.bounded.candidates \in Seq(Nat)
  BY <1>1, <1>4 DEF Bounded
<1>6. run \in Elements(cmd.todo) /\ Elements(cmd.todo) = {run} \cup Elements(Tail(cmd.todo)) /\ run \in Nat
  BY <1>1, <1>2, HeadAndTail
<1>7. Elements(cmd'.bounded.candidates) = Elements(cmd.bounded.candidates) \cup {run}
  BY <1>5, <1>6, ElementsAdded
<1> HIDE DEF run
<1>8. /\ OpenRuns' = OpenRuns /\ ~ At("end")' /\ Closing' /\ Reviewing' /\ ~ At("adjust")'
      /\ ~ At("end") /\ Reviewing /\ Closing /\ Cid' = Cid
  BY <1>1, <1>2, <1>4 DEF OpenRuns, At, Closing, Reviewing, Cid
<1>9. Settling
  BY <1>1, <1>2, <1>8, QuietSettles
<1>10. ASSUME Alone PROVE (RunKnown /\ RoundKnown /\ CampaignKnown)'
  <2>1. RunKnown /\ RoundKnown /\ CampaignKnown
    BY <1>1, <1>10 DEF EarnedInv
  <2>2. RunKnown'
    BY <1>1, <1>4, <1>8, <1>9, <2>1, RunStays
  <2>3. run \in DOMAIN log
    <3>1. run \in made[Cid] /\ Cid \in DOMAIN campaigns
      BY <1>6, <1>8, <2>1 DEF CampaignKnown
    <3>2. Matched(campaigns[Cid], log, made[Cid], Lost(campaigns[Cid]))
      BY <1>10, <3>1 DEF LogInv, Told
    <3> QED BY <3>1, <3>2 DEF Matched
  <2>4. Gathered(cmd'.bounded, campaigns, replays, {Cid})
    <3>1. Gathered(cmd.bounded, campaigns, replays, {Cid})
      BY <1>8, <2>1 DEF RoundKnown, Unreconciled
    <3> QED BY <1>5, <1>7, <3>1 DEF Gathered
  <2>5. RoundKnown'
    <3>1. cmd'.bounded.leaks > 0 => leaked' > 0
      BY <1>2, <1>5, <2>1 DEF RoundKnown
    <3>2. Elements(cmd'.bounded.candidates) \subseteq DOMAIN log'
      BY <1>2, <1>7, <2>1, <2>3 DEF RoundKnown
    <3>3. Gathered(cmd'.bounded, campaigns', replays', Unreconciled')
      BY <1>2, <1>8, <2>4 DEF Unreconciled
    <3> QED BY <3>1, <3>2, <3>3 DEF RoundKnown
  <2>6. CampaignKnown'
    <3>1. /\ Cid \in DOMAIN campaigns /\ made[Cid] = cmd.own /\ (cmd.report.leaks > 0 => leaked > 0)
          /\ Elements(cmd.todo) \subseteq cmd.own
          /\ Elements(campaigns[Cid].candidates)
               \subseteq Elements(cmd.bounded.candidates) \cup Elements(cmd.todo)
      BY <1>8, <2>1 DEF CampaignKnown
    <3>2. /\ Elements(cmd'.todo) \subseteq cmd'.own
          /\ Elements(campaigns[Cid].candidates)
               \subseteq Elements(cmd'.bounded.candidates) \cup Elements(cmd'.todo)
      BY <1>4, <1>6, <1>7, <3>1
    <3> QED BY <1>2, <1>4, <1>8, <3>1, <3>2 DEF CampaignKnown
  <2> QED BY <2>2, <2>5, <2>6
<1> QED BY <1>1, <1>2, <1>8, <1>10, QuietStep

LEMMA AdjustEarns ==
  ASSUME TypeInv, TypeOK', LogInv, EarnedInv, Alone' => Alone, Adjust PROVE EarnedInv'
<1>1. /\ cmd \in Command /\ TypeOK /\ At("adjust") /\ ~ At("idle")
      /\ cmd.report \in Report /\ cmd.bounded \in Bounded
  <2>1. At("adjust") /\ ~ At("idle")
    BY DEF Adjust, At
  <2> QED BY <2>1, AtWorkNow DEF Command
<1>2. /\ UNCHANGED <<log, candidates, replays, campaigns, made, leaked>> /\ supervised' = supervised
      /\ leaked' >= leaked
  BY <1>1 DEF Adjust, TypeOK
<1>3. PICK zero, drafts :
        cmd' = [cmd EXCEPT !.step = "again", !.todo = cmd.report.candidates,
                           !.bounded.campaigns = Append(@, Cid),
                           !.bounded.leaks = @ + cmd.report.leaks,
                           !.bounded.zeroYield = zero, !.bounded.drafts = drafts]
  BY DEF Adjust, Become
<1>4. /\ cmd'.step = "again" /\ cmd'.own = cmd.own /\ cmd'.report = cmd.report
      /\ cmd'.supervised = cmd.supervised /\ cmd'.todo = cmd.report.candidates
      /\ cmd'.bounded = [cmd.bounded EXCEPT !.campaigns = Append(@, Cid), !.leaks = @ + cmd.report.leaks,
                                            !.zeroYield = zero, !.drafts = drafts]
  BY <1>1, <1>3 DEF Command
<1>5. /\ cmd'.bounded.candidates = cmd.bounded.candidates
      /\ cmd'.bounded.campaigns = Append(cmd.bounded.campaigns, Cid)
      /\ cmd'.bounded.leaks = cmd.bounded.leaks + cmd.report.leaks
      /\ cmd.bounded.campaigns \in Seq(Nat) /\ cmd.bounded.leaks \in Nat /\ cmd.report.leaks \in Nat
  BY <1>1, <1>4 DEF Bounded, Report
<1>6. Cid \in Nat
  BY <1>1 DEF Cid, TypeOK
<1>7. Elements(cmd'.bounded.campaigns) = Elements(cmd.bounded.campaigns) \cup {Cid}
  BY <1>5, <1>6, ElementsAdded
<1>8. /\ OpenRuns' = OpenRuns /\ ~ At("end")' /\ Closing' /\ Reviewing' /\ ~ At("adjust")'
      /\ ~ At("end") /\ ~ Reviewing /\ Closing /\ Cid' = Cid
  BY <1>1, <1>2, <1>4 DEF OpenRuns, At, Closing, Reviewing, Cid
<1>9. Settling
  BY <1>1, <1>2, <1>8, QuietSettles
<1>10. ASSUME Alone PROVE (RunKnown /\ RoundKnown /\ CampaignKnown)'
  <2>1. RunKnown /\ RoundKnown /\ CampaignKnown
    BY <1>1, <1>10 DEF EarnedInv
  <2>2. RunKnown'
    BY <1>1, <1>4, <1>8, <1>9, <2>1, RunStays
  <2>3. /\ Cid \in DOMAIN campaigns /\ made[Cid] = cmd.own /\ (cmd.report.leaks > 0 => leaked > 0)
        /\ campaigns[Cid] = cmd.report
    BY <1>1, <1>8, <2>1 DEF CampaignKnown
  <2>4. Gathered(cmd'.bounded, campaigns, replays, {Cid})
    <3>1. Gathered(cmd.bounded, campaigns, replays, {})
      BY <1>8, <2>1 DEF RoundKnown, Unreconciled
    <3>2. Elements(cmd'.bounded.campaigns) \ {Cid} \subseteq Elements(cmd.bounded.campaigns)
      BY <1>7
    <3> QED BY <1>5, <1>7, <2>3, <3>1, <3>2 DEF Gathered
  <2>5. RoundKnown'
    <3>1. cmd'.bounded.leaks > 0 => leaked' > 0
      BY <1>2, <1>5, <2>1, <2>3 DEF RoundKnown
    <3>2. Elements(cmd'.bounded.candidates) \subseteq DOMAIN log'
      BY <1>2, <1>5, <2>1 DEF RoundKnown
    <3>3. Gathered(cmd'.bounded, campaigns', replays', Unreconciled')
      BY <1>2, <1>8, <2>4 DEF Unreconciled
    <3> QED BY <3>1, <3>2, <3>3 DEF RoundKnown
  <2>6. CampaignKnown'
    <3>1. Matched(campaigns[Cid], log, made[Cid], Lost(campaigns[Cid]))
      BY <1>10, <2>3 DEF LogInv, Told
    <3>2. Elements(cmd'.todo) \subseteq cmd'.own /\ Elements(campaigns[Cid].candidates) = Elements(cmd'.todo)
      BY <1>4, <2>3, <3>1 DEF Matched, Offered
    <3> QED BY <1>2, <1>4, <1>8, <2>3, <3>2 DEF CampaignKnown
  <2> QED BY <2>2, <2>5, <2>6
<1> QED BY <1>1, <1>2, <1>8, <1>10, QuietStep

(* One more round is counted for what it found. *)
LEMMA EarnedMore ==
  ASSUME NEW s \in Supervised, NEW b \in Bounded, NEW rp, NEW cs, NEW runs,
         Earned(s, rp, cs, runs), Elements(b.candidates) \subseteq runs,
         Elements(b.campaigns) \subseteq DOMAIN cs,
         NEW q, q.bounded = Append(s.bounded, b),
         q.ready \subseteq runs, \A r \in q.ready : ReplayedOk(rp, r),
         NEW failed, q.failures = IF failed THEN s.failures + 1 ELSE s.failures,
         failed => \E r \in Elements(b.candidates) : ~ ReplayedOk(rp, r),
         NEW empty, q.zeroYields = IF empty THEN s.zeroYields + 1 ELSE s.zeroYields,
         empty => \A c \in Elements(b.campaigns) : cs[c].count["useful"] = 0
  PROVE  Earned(q, rp, cs, runs)
<1> DEFINE n == Len(s.bounded)
<1>1. s.bounded \in Seq(Bounded) /\ s.failures \in Nat /\ s.zeroYields \in Nat
  BY DEF Supervised
<1>2. /\ n \in Nat /\ DOMAIN s.bounded = 1..n /\ DOMAIN q.bounded = 1..(n + 1)
      /\ q.bounded[n + 1] = b /\ \A i \in 1..n : q.bounded[i] = s.bounded[i]
  BY <1>1
<1> HIDE DEF n
<1>3. \A i \in 1..(n + 1) : i \in 1..n \/ i = n + 1
  BY <1>2
<1>4. 1..n \subseteq 1..(n + 1) /\ n + 1 \notin 1..n /\ n + 1 \in 1..(n + 1)
  BY <1>2
<1>5. /\ FailedRounds(s, rp) \subseteq FailedRounds(q, rp) /\ FailedRounds(s, rp) \subseteq 1..n
      /\ EmptyRounds(s, cs) \subseteq EmptyRounds(q, cs) /\ EmptyRounds(s, cs) \subseteq 1..n
      /\ FailedRounds(q, rp) \subseteq 1..(n + 1) /\ EmptyRounds(q, cs) \subseteq 1..(n + 1)
  BY <1>2, <1>4 DEF FailedRounds, EmptyRounds
<1>6. IsFiniteSet(1..(n + 1))
  BY <1>2, FS_Interval
<1>7. ASSUME NEW S, NEW T, S \subseteq T, S \subseteq 1..n, T \subseteq 1..(n + 1)
      PROVE  /\ Cardinality(S) \in Nat /\ Cardinality(T) \in Nat /\ Cardinality(S) <= Cardinality(T)
             /\ n + 1 \in T => Cardinality(S) + 1 <= Cardinality(T)
  <2>1. IsFiniteSet(T) /\ IsFiniteSet(S)
    BY <1>6, <1>7, FS_Subset
  <2>2. Cardinality(S) \in Nat /\ Cardinality(T) \in Nat /\ Cardinality(S) <= Cardinality(T)
    BY <1>7, <2>1, FS_Subset, FS_CardinalityType
  <2>3. ASSUME n + 1 \in T PROVE Cardinality(S) + 1 <= Cardinality(T)
    <3>1. Cardinality(S \cup {n + 1}) = Cardinality(S) + 1
      BY <1>4, <1>7, <2>1, FS_AddElement
    <3>2. S \cup {n + 1} \subseteq T
      BY <1>7, <2>3
    <3>3. Cardinality(S \cup {n + 1}) <= Cardinality(T)
      BY <2>1, <3>2, FS_Subset
    <3> QED BY <3>1, <3>3
  <2> QED BY <2>2, <2>3
<1>8. q.failures <= Cardinality(FailedRounds(q, rp))
  <2>1. failed => n + 1 \in FailedRounds(q, rp)
    BY <1>2, <1>4 DEF FailedRounds
  <2>2. s.failures <= Cardinality(FailedRounds(s, rp))
    BY DEF Earned
  <2>3. /\ Cardinality(FailedRounds(s, rp)) \in Nat /\ Cardinality(FailedRounds(q, rp)) \in Nat
        /\ Cardinality(FailedRounds(s, rp)) <= Cardinality(FailedRounds(q, rp))
        /\ n + 1 \in FailedRounds(q, rp) =>
             Cardinality(FailedRounds(s, rp)) + 1 <= Cardinality(FailedRounds(q, rp))
    BY <1>5, <1>7
  <2> QED BY <1>1, <2>1, <2>2, <2>3
<1>9. q.zeroYields <= Cardinality(EmptyRounds(q, cs))
  <2>1. empty => n + 1 \in EmptyRounds(q, cs)
    BY <1>2, <1>4 DEF EmptyRounds
  <2>2. s.zeroYields <= Cardinality(EmptyRounds(s, cs))
    BY DEF Earned
  <2>3. /\ Cardinality(EmptyRounds(s, cs)) \in Nat /\ Cardinality(EmptyRounds(q, cs)) \in Nat
        /\ Cardinality(EmptyRounds(s, cs)) <= Cardinality(EmptyRounds(q, cs))
        /\ n + 1 \in EmptyRounds(q, cs) =>
             Cardinality(EmptyRounds(s, cs)) + 1 <= Cardinality(EmptyRounds(q, cs))
    BY <1>5, <1>7
  <2> QED BY <1>1, <2>1, <2>2, <2>3
<1>10. ASSUME NEW i \in DOMAIN q.bounded
       PROVE  /\ Elements(q.bounded[i].candidates) \subseteq runs
              /\ Elements(q.bounded[i].campaigns) \subseteq DOMAIN cs
  <2>1. CASE i \in 1..n
    BY <1>2, <2>1 DEF Earned
  <2>2. CASE i = n + 1
    BY <1>2, <2>2
  <2> QED BY <1>2, <1>3, <2>1, <2>2
<1> QED BY <1>8, <1>9, <1>10 DEF Earned

(* Without a useful trial a report lists no candidate. *)
LEMMA UselessReport ==
  ASSUME TypeInv, NEW c \in DOMAIN campaigns, Elements(campaigns[c].candidates) = {}
  PROVE  campaigns[c].count["useful"] = 0
<1>1. ReportShaped(campaigns[c]) /\ Agrees(campaigns[c])
  BY DEF TypeInv, DraftInv, CountsInv
<1>2. campaigns[c].count["useful"] = Len(campaigns[c].candidates)
  BY <1>1 DEF Agrees, Balanced
<1>3. campaigns[c].candidates \in Seq(Elements(campaigns[c].candidates))
  BY <1>1 DEF ReportShaped, IsSeq
<1>4. Len(campaigns[c].candidates) = 0
  <2>1. /\ Len(campaigns[c].candidates) \in Nat
        /\ DOMAIN campaigns[c].candidates = 1..Len(campaigns[c].candidates)
    BY <1>3
  <2>2. DOMAIN campaigns[c].candidates = {}
    BY DEF Elements
  <2> QED BY <2>1, <2>2
<1> QED BY <1>2, <1>4

(* What the supervisor makes of a round. *)
LEMMA CollectedEarns ==
  ASSUME TypeInv, cmd \in Command, At("collect"), RunKnown, RoundKnown
  PROVE  /\ Earned(Collected, replays, campaigns, Done)
         /\ cmd.bounded.leaks > 0 => Collected.ready = {}
<1> DEFINE s == cmd.supervised
           b == cmd.bounded
           ready == {r \in Elements(b.candidates) : Allowed(r)}
<1>1. s \in Supervised /\ b \in Bounded
  BY DEF Command
<1>2. Done = DOMAIN log
  BY DEF Done, OpenRuns, At
<1>3. Earned(s, replays, campaigns, Done) /\ s.ready = {}
  BY DEF RunKnown, At
<1>4. /\ Elements(b.candidates) \subseteq Done /\ Elements(b.campaigns) \subseteq DOMAIN campaigns
      /\ Gathered(b, campaigns, replays, {})
  BY <1>2 DEF RoundKnown, Unreconciled, Reviewing, At, Gathered
<1>5. ReplayFailed(b) => \E r \in Elements(b.candidates) : ~ ReplayedOk(replays, r)
  BY <1>4 DEF ReplayFailed, Gathered, FailureFound
<1>6. ZeroYield(b) => \A c \in Elements(b.campaigns) : campaigns[c].count["useful"] = 0
  <2>1. ZeroYield(b) => Elements(b.candidates) = {}
    BY DEF ZeroYield, Elements
  <2>2. ASSUME ZeroYield(b), NEW c \in Elements(b.campaigns) PROVE Elements(campaigns[c].candidates) = {}
    BY <1>4, <2>1, <2>2 DEF Gathered
  <2> QED BY <1>4, <2>2, UselessReport
<1>7. \A r \in ready : ReplayedOk(replays, r)
  BY DEF Allowed, ReplayOk, ReplayedOk
<1>8. ready \subseteq Done
  BY <1>4
<1> DEFINE q == Collected
           all == Append(s.bounded, b)
           rejects == s.rejected \cup (Elements(b.candidates) \ ready)
           failures == IF ReplayFailed(b) THEN s.failures + 1 ELSE s.failures
           zeros == IF ZeroYield(b) THEN s.zeroYields + 1 ELSE s.zeroYields
<1>9. q = IF b.leaks > 0 THEN [s EXCEPT !.bounded = all]
          ELSE [s EXCEPT !.bounded = all, !.ready = s.ready \cup ready, !.rejected = rejects,
                         !.failures = failures, !.zeroYields = zeros]
  BY <1>1 DEF Collected, Supervised
<1> HIDE DEF q, ready, rejects, all, s, b
<1>10. CASE b.leaks > 0
  <2>1. q.bounded = all /\ q.ready = s.ready /\ q.failures = s.failures /\ q.zeroYields = s.zeroYields
    BY <1>1, <1>9, <1>10 DEF Supervised
  <2>2. q.failures = (IF FALSE THEN s.failures + 1 ELSE s.failures)
        /\ q.zeroYields = (IF FALSE THEN s.zeroYields + 1 ELSE s.zeroYields)
    BY <2>1
  <2>3. q.ready \subseteq Done /\ \A r \in q.ready : ReplayedOk(replays, r)
    BY <1>3, <2>1
  <2>4. Earned(q, replays, campaigns, Done)
    BY <1>1, <1>3, <1>4, <2>1, <2>2, <2>3, EarnedMore DEF all
  <2> QED BY <1>3, <2>1, <2>4 DEF q, b
<1>11. CASE ~ b.leaks > 0
  <2>1. /\ q.bounded = all /\ q.ready = ready
        /\ q.failures = failures /\ q.zeroYields = zeros
    BY <1>1, <1>3, <1>9, <1>11 DEF Supervised
  <2>2. Earned(q, replays, campaigns, Done)
    BY <1>1, <1>3, <1>4, <1>5, <1>6, <1>7, <1>8, <2>1, EarnedMore DEF all
  <2> QED BY <1>11, <2>2 DEF q, b
<1> QED BY <1>10, <1>11

(* The status says what the counts say. *)
LEMMA StatusEarns ==
  ASSUME NEW s \in Supervised, NEW b \in Bounded, b.leaks > 0 => s.ready = {},
         b.leaks > 0 => leaked > 0, NEW last \in BOOLEAN,
         NEW status, status = StatusAfter(s, b),
         NEW q, q = [s EXCEPT !.status = IF status = "running" /\ last THEN "max_rounds_reached" ELSE status]
  PROVE  /\ Ended(q, leaked)
         /\ status = "running" => q.ready = {}
         /\ \A rp, cs, runs : Earned(s, rp, cs, runs) => Earned(q, rp, cs, runs)
<1>1. /\ q.bounded = s.bounded /\ q.ready = s.ready /\ q.failures = s.failures
      /\ q.zeroYields = s.zeroYields
      /\ q.status = IF status = "running" /\ last THEN "max_rounds_reached" ELSE status
  BY DEF Supervised
<1>2. s.failures \in Nat /\ s.zeroYields \in Nat
  BY DEF Supervised
<1>3. \A rp, cs, runs : Earned(s, rp, cs, runs) => Earned(q, rp, cs, runs)
  <2>1. \A rp, cs : FailedRounds(q, rp) = FailedRounds(s, rp) /\ EmptyRounds(q, cs) = EmptyRounds(s, cs)
    BY <1>1 DEF FailedRounds, EmptyRounds
  <2> SUFFICES ASSUME NEW rp, NEW cs, NEW runs, Earned(s, rp, cs, runs) PROVE Earned(q, rp, cs, runs)
    OBVIOUS
  <2> QED BY <1>1, <2>1 DEF Earned
<1>4. /\ status = "safety_stop" <=> b.leaks > 0
      /\ status = "promotion_ready_candidate_found" <=> (s.ready # {} /\ ~ b.leaks > 0)
      /\ status = "replay_failed_exhausted" => s.failures >= 2
      /\ status = "zero_yield_exhausted" => s.zeroYields >= 2
      /\ status = "running" => s.ready = {}
  BY DEF StatusAfter
<1>5. /\ q.status = "safety_stop" <=> status = "safety_stop"
      /\ q.status = "promotion_ready_candidate_found" <=> status = "promotion_ready_candidate_found"
      /\ q.status = "replay_failed_exhausted" <=> status = "replay_failed_exhausted"
      /\ q.status = "zero_yield_exhausted" <=> status = "zero_yield_exhausted"
  BY <1>1
<1>6. Ended(q, leaked)
  BY <1>1, <1>4, <1>5 DEF Ended
<1> QED BY <1>1, <1>3, <1>4, <1>6

LEMMA CollectEarns ==
  ASSUME TypeInv, TypeOK', LogInv, EarnedInv, Alone' => Alone, Collect PROVE EarnedInv'
<1>1. cmd \in Command /\ TypeOK /\ At("collect") /\ ~ At("idle") /\ cmd.bounded \in Bounded
  <2>1. At("collect") /\ ~ At("idle")
    BY DEF Collect, At
  <2> QED BY <2>1, AtWorkNow DEF Command
<1>2. /\ UNCHANGED <<log, candidates, replays, campaigns, made, leaked>> /\ supervised' = supervised
      /\ leaked' >= leaked
  BY <1>1 DEF Collect, TypeOK
<1> DEFINE s == Collected
           status == StatusAfter(s, cmd.bounded)
           last == cmd.rounds = 1
           q == [s EXCEPT !.status = IF status = "running" /\ last THEN "max_rounds_reached" ELSE status]
<1>3. PICK rounds, path :
        cmd' = [cmd EXCEPT !.rounds = rounds, !.step = IF status # "running" \/ last THEN "end" ELSE "round",
                           !.path = path, !.supervised = q]
  BY DEF Collect, Become
<1>4. /\ cmd'.step = IF status # "running" \/ last THEN "end" ELSE "round"
      /\ cmd'.supervised = q /\ cmd'.bounded = cmd.bounded /\ cmd'.report = cmd.report
  BY <1>1, <1>3 DEF Command
<1>5. s \in Supervised /\ last \in BOOLEAN
  BY <1>1, CollectedType
<1>6. ASSUME Alone
      PROVE  /\ Earned(q, replays, campaigns, Done) /\ Ended(q, leaked)
             /\ (status = "running" => q.ready = {})
  <2>1. RunKnown /\ RoundKnown
    BY <1>1, <1>6 DEF EarnedInv
  <2>2. /\ Earned(s, replays, campaigns, Done) /\ (cmd.bounded.leaks > 0 => s.ready = {})
        /\ (cmd.bounded.leaks > 0 => leaked > 0)
    BY <1>1, <2>1, CollectedEarns DEF RoundKnown
  <2>3. status = StatusAfter(s, cmd.bounded)
        /\ q = [s EXCEPT !.status = IF status = "running" /\ last THEN "max_rounds_reached" ELSE status]
    OBVIOUS
  <2> HIDE DEF s, status, last, q
  <2> QED BY <1>1, <1>5, <2>2, <2>3, StatusEarns
<1> HIDE DEF s, status, last, q
<1>7. /\ OpenRuns' = {} /\ OpenRuns = {} /\ ~ Closing' /\ ~ Reviewing' /\ ~ At("adjust")'
      /\ ~ Reviewing
      /\ At("end")' => cmd'.supervised = q
      /\ ~ At("end")' => status = "running"
  BY <1>1, <1>4 DEF OpenRuns, At, Closing, Reviewing
<1>8. ASSUME Alone PROVE (RunKnown /\ RoundKnown /\ CampaignKnown)'
  <2>1. RoundKnown /\ CampaignKnown
    BY <1>1, <1>8 DEF EarnedInv
  <2>2. RunKnown'
    <3>1. Done' = Done /\ replays' = replays /\ campaigns' = campaigns /\ leaked' = leaked
      BY <1>2, <1>7 DEF Done
    <3>2. Earned(cmd'.supervised, replays', campaigns', Done')
      BY <1>4, <1>6, <1>8, <3>1
    <3>3. IF At("end")' THEN Ended(cmd'.supervised, leaked') ELSE cmd'.supervised.ready = {}
      BY <1>4, <1>6, <1>7, <1>8, <3>1
    <3> QED BY <3>2, <3>3 DEF RunKnown
  <2>3. RoundKnown'
    <3>1. Unreconciled = {} /\ Unreconciled' = {} /\ DOMAIN log \subseteq DOMAIN log'
      BY <1>2, <1>7 DEF Unreconciled
    <3> QED BY <1>1, <1>2, <1>4, <2>1, <3>1, RoundStays
  <2>4. CampaignKnown'
    BY <1>2, <1>4, <1>7, <2>1 DEF CampaignKnown
  <2> QED BY <2>2, <2>3, <2>4
<1> QED BY <1>1, <1>2, <1>7, <1>8, QuietStep

LEMMA EndEarns ==
  ASSUME TypeInv, TypeOK', LogInv, EarnedInv, Alone' => Alone, End PROVE EarnedInv'
<1> SUFFICES ASSUME Alone PROVE OnFile' /\ Past' /\ Apart' /\ At("idle")'
  BY DEF EarnedInv
<1>1. /\ cmd \in Command /\ TypeOK /\ At("end") /\ ~ At("idle") /\ supervised \in Seq(Supervised)
      /\ cmd.supervised \in Supervised
  <2>1. At("end") /\ ~ At("idle")
    BY DEF End, At
  <2> QED BY <2>1, AtWorkNow DEF Command, TypeOK
<1>2. /\ UNCHANGED <<log, candidates, replays, campaigns, made, leaked>>
      /\ supervised' = Append(supervised, cmd.supervised) /\ cmd' = Idle
  BY DEF End, Stop, Become
<1>3. OpenRuns' = {} /\ OpenRuns = {} /\ At("idle")'
  BY <1>1, <1>2 DEF OpenRuns, At, Idle
<1>4. OnFile /\ Past /\ Apart /\ RunKnown
  BY <1>1 DEF EarnedInv
<1>5. OnFile'
  BY <1>2, <1>4 DEF OnFile
<1>6. Apart'
  BY <1>3 DEF Apart
<1>7. Past'
  <2>1. Done' = Done
    BY <1>2, <1>3 DEF Done
  <2>2. Elements(supervised') = Elements(supervised) \cup {cmd.supervised}
    BY <1>1, <1>2, ElementsAdded
  <2>3. ASSUME NEW s \in Elements(supervised')
        PROVE  Earned(s, replays, campaigns, Done) /\ Ended(s, leaked)
    BY <1>1, <1>4, <2>2 DEF Past, RunKnown
  <2> QED BY <1>2, <2>1, <2>3 DEF Past
<1> QED BY <1>3, <1>5, <1>6, <1>7

(* Reports on file do not change by what the campaign under way replays. *)
LEMMA BusyRound ==
  ASSUME TypeOK, TypeOK', LogInv, Alone, Apart, RoundKnown, Settling, cmd'.bounded = cmd.bounded,
         campaigns' = campaigns, DOMAIN log \subseteq DOMAIN log', ~ At("adjust"),
         Unreconciled' = Unreconciled
  PROVE  RoundKnown'
<1>1. leaked \in Nat /\ leaked' \in Nat /\ leaked' >= leaked
  BY DEF TypeOK, Settling
<1>2. ASSUME NEW c \in Elements(cmd.bounded.campaigns) \ Unreconciled
      PROVE  \A r \in Elements(campaigns[c].candidates) : ReplayedOk(replays, r) <=> ReplayedOk(replays', r)
  <2>1. c \in DOMAIN campaigns /\ ~ (c = Cid /\ Closing)
    BY <1>2 DEF RoundKnown, Gathered, Unreconciled, Closing
  <2>2. Elements(campaigns[c].candidates) \subseteq Done
    BY <2>1, ClosedDone
  <2> QED BY <2>2 DEF Settling
<1>3. Gathered(cmd.bounded, campaigns', replays', Unreconciled)
  <2>1. Gathered(cmd.bounded, campaigns, replays, Unreconciled)
    BY DEF RoundKnown
  <2> QED BY <1>2, <2>1, GatheredStays
<1> QED BY <1>1, <1>3 DEF RoundKnown

LEMMA CycleEarns ==
  ASSUME TypeInv, TypeOK', LogInv, EarnedInv, Alone' => Alone, Cycle PROVE EarnedInv'
<1> SUFFICES ASSUME Alone PROVE (OnFile /\ Past /\ Apart /\ RunKnown /\ RoundKnown /\ CampaignKnown)'
  BY DEF EarnedInv
<1>1. cmd \in Command /\ TypeOK /\ At("cycle") /\ ~ At("idle") /\ leaked \in Nat /\ leaked' \in Nat
  <2>1. At("cycle") /\ ~ At("idle")
    BY DEF Cycle, At
  <2> QED BY <2>1, AtWorkNow DEF TypeOK
<1>2. UNCHANGED <<replays, campaigns, made>> /\ supervised' = supervised
  BY DEF Cycle
<1>3. /\ Wrote(cmd.own) /\ leaked' >= leaked /\ candidates \subseteq candidates'
      /\ cmd'.step = "record" /\ cmd'.report.leaks = cmd.report.leaks
      /\ cmd'.bounded = cmd.bounded /\ cmd'.supervised = cmd.supervised
  BY CycleWrites
<1>4. /\ ~ At("end")' /\ ~ Closing' /\ ~ Reviewing' /\ ~ At("adjust")' /\ ~ At("adjust")
      /\ ~ At("end") /\ ~ Reviewing /\ ~ Closing /\ OpenRuns = cmd.own /\ OpenRuns' = cmd'.own
  BY <1>1, <1>3 DEF OpenRuns, At, Closing, Reviewing
<1>5. OnFile /\ Past /\ Apart /\ RunKnown /\ RoundKnown /\ CampaignKnown
  BY <1>1 DEF EarnedInv
<1>6. /\ DOMAIN log \subseteq DOMAIN log' /\ OpenRuns' \cap DOMAIN log \subseteq OpenRuns
      /\ OpenRuns' \subseteq OpenRuns \cup {NewRun} /\ NewRun \notin DOMAIN log
      /\ OnFile'
  <2>1. log \in Seq(Entry)
    BY <1>1 DEF TypeOK
  <2>2. NewRun = Len(log) + 1 /\ Len(log) \in Nat /\ DOMAIN log = 1..Len(log)
    BY <2>1 DEF NewRun
  <2>3. CASE log' = log /\ cmd'.own = cmd.own
    BY <1>3, <1>4, <1>5, <2>2, <2>3 DEF OnFile
  <2>4. ASSUME NEW e \in Entry, log' = Append(log, e), cmd'.own = cmd.own \cup {NewRun},
               e.status = "candidate" => \E c \in candidates' : c.run = NewRun
        PROVE  /\ DOMAIN log \subseteq DOMAIN log' /\ OpenRuns' \cap DOMAIN log \subseteq OpenRuns
               /\ OpenRuns' \subseteq OpenRuns \cup {NewRun} /\ NewRun \notin DOMAIN log
               /\ OnFile'
    <3>1. /\ DOMAIN log' = 1..(Len(log) + 1) /\ log'[Len(log) + 1] = e
          /\ \A i \in 1..Len(log) : log'[i] = log[i]
      BY <2>1, <2>4
    <3>2. \A i \in 1..(Len(log) + 1) : i \in 1..Len(log) \/ i = Len(log) + 1
      BY <2>2
    <3>3. 1..Len(log) \subseteq 1..(Len(log) + 1) /\ Len(log) + 1 \notin 1..Len(log)
      BY <2>2
    <3>4. ASSUME NEW i \in DOMAIN log', log'[i].status = "candidate"
          PROVE  \E c \in candidates' : c.run = i
      <4>1. CASE i \in 1..Len(log)
        BY <1>3, <1>5, <2>2, <3>1, <3>4, <4>1 DEF OnFile
      <4>2. CASE i = Len(log) + 1
        BY <2>2, <2>4, <3>1, <3>4, <4>2
      <4> QED BY <3>1, <3>2, <4>1, <4>2
    <3>5. OnFile'
      BY <3>4 DEF OnFile
    <3> QED BY <1>4, <2>2, <2>4, <3>1, <3>3, <3>5
  <2> QED BY <1>3, <2>3, <2>4 DEF Wrote
<1>7. Settling
  BY <1>2, <1>3, <1>6 DEF Settling, Done, ReplayedOk
<1>8. Past'
  BY <1>1, <1>2, <1>5, <1>7, PastStays
<1>9. Apart'
  <2>1. ASSUME NEW c \in DOMAIN campaigns PROVE made[c] \cap OpenRuns' = {}
    <3>1. made[c] \cap OpenRuns = {}
      BY <1>4, <1>5 DEF Apart
    <3>2. Matched(campaigns[c], log, made[c], Lost(campaigns[c]))
      BY DEF LogInv, Told
    <3>3. made[c] \subseteq DOMAIN log
      BY <3>2 DEF Matched
    <3> QED BY <1>6, <3>1, <3>3
  <2> QED BY <1>2, <2>1 DEF Apart
<1>10. RunKnown'
  BY <1>1, <1>3, <1>4, <1>5, <1>7, RunStays
<1>11. RoundKnown'
  <2>1. Unreconciled' = Unreconciled
    BY <1>4 DEF Unreconciled
  <2> QED BY <1>1, <1>2, <1>3, <1>4, <1>5, <1>6, <1>7, <2>1, BusyRound
<1>12. CampaignKnown'
  BY <1>1, <1>3, <1>4, <1>5 DEF CampaignKnown
<1> QED BY <1>6, <1>8, <1>9, <1>10, <1>11, <1>12

(* A replay of a run still open settles nothing anew. *)
LEMMA ReplaySettles ==
  ASSUME TypeOK, UNCHANGED <<log, campaigns>>, OpenRuns' = OpenRuns,
         UNCHANGED <<replays, leaked>> \/ \E run \in OpenRuns : \E result : Replay(run, result)
  PROVE  Settling
<1>1. leaked \in Nat /\ Done' = Done
  BY DEF TypeOK, Done
<1>2. CASE UNCHANGED <<replays, leaked>>
  BY <1>1, <1>2 DEF Settling, ReplayedOk
<1>3. ASSUME NEW run \in OpenRuns, NEW result, Replay(run, result) PROVE Settling
  <2>1. leaked' >= leaked
    <3>1. leaked' = leaked \/ leaked' \in {leaked, leaked + 1}
      BY <1>3 DEF Replay
    <3> QED BY <1>1, <3>1
  <2>2. ASSUME NEW r \in Done PROVE ReplayedOk(replays, r) <=> ReplayedOk(replays', r)
    <3>1. r # run
      BY <1>3, <2>2 DEF Done
    <3>2. CASE replays' = replays
      BY <3>2
    <3>3. CASE replays' = [t \in DOMAIN replays \cup {run} |-> IF t = run THEN result = "ok" ELSE replays[t]]
      <4>1. r \in DOMAIN replays' <=> r \in DOMAIN replays
        BY <3>1, <3>3
      <4>2. r \in DOMAIN replays => replays'[r] = replays[r]
        BY <3>1, <3>3
      <4> QED BY <4>1, <4>2 DEF ReplayedOk
    <3> QED BY <1>3, <3>2, <3>3 DEF Replay, Recorded
  <2> QED BY <1>1, <2>1, <2>2 DEF Settling
<1> QED BY <1>2, <1>3

LEMMA AgainEarns ==
  ASSUME TypeInv, TypeOK', LogInv, EarnedInv, Alone' => Alone, Again PROVE EarnedInv'
<1> SUFFICES ASSUME Alone PROVE (OnFile /\ Past /\ Apart /\ RunKnown /\ RoundKnown /\ CampaignKnown)'
  BY DEF EarnedInv
<1>1. /\ cmd \in Command /\ TypeOK /\ At("again") /\ ~ At("idle") /\ leaked \in Nat /\ leaked' \in Nat
      /\ cmd.todo \in Seq(Nat)
  <2>1. At("again") /\ ~ At("idle")
    BY DEF Again, At
  <2> QED BY <2>1, AtWorkNow DEF TypeOK, Command
<1>2. UNCHANGED <<log, candidates, campaigns, made>> /\ supervised' = supervised /\ cmd.todo # <<>>
  BY DEF Again
<1>3. cmd' = [cmd EXCEPT !.step = "review"]
  BY DEF Again, Go, Become
<1>4. /\ cmd'.step = "review" /\ cmd'.report = cmd.report /\ cmd'.own = cmd.own /\ cmd'.todo = cmd.todo
      /\ cmd'.bounded = cmd.bounded /\ cmd'.supervised = cmd.supervised
  BY <1>1, <1>3 DEF Command
<1>5. /\ ~ At("end")' /\ Closing' /\ Reviewing' /\ ~ At("adjust")' /\ ~ At("adjust")
      /\ ~ At("end") /\ Reviewing /\ Closing /\ OpenRuns = cmd.own /\ OpenRuns' = OpenRuns /\ Cid' = Cid
  BY <1>1, <1>2, <1>4 DEF OpenRuns, At, Closing, Reviewing, Cid
<1>6. OnFile /\ Past /\ Apart /\ RunKnown /\ RoundKnown /\ CampaignKnown
  BY <1>1 DEF EarnedInv
<1>7. cmd.todo[1] \in OpenRuns
  <2>1. cmd.todo[1] \in Elements(cmd.todo)
    BY <1>1, <1>2, HeadAndTail
  <2> QED BY <1>5, <1>6, <2>1 DEF CampaignKnown
<1>8. Settling
  <2>1. UNCHANGED <<replays, leaked>> \/ \E result : Replay(cmd.todo[1], result)
    BY DEF Again
  <2> QED BY <1>1, <1>2, <1>5, <1>7, <2>1, ReplaySettles
<1>9. OnFile' /\ Apart'
  BY <1>2, <1>5, <1>6 DEF OnFile, Apart
<1>10. Past'
  BY <1>1, <1>2, <1>6, <1>8, PastStays
<1>11. RunKnown'
  BY <1>1, <1>4, <1>5, <1>6, <1>8, RunStays
<1>12. RoundKnown'
  <2>1. Unreconciled' = Unreconciled /\ DOMAIN log \subseteq DOMAIN log'
    BY <1>2, <1>5 DEF Unreconciled
  <2> QED BY <1>1, <1>2, <1>4, <1>5, <1>6, <1>8, <2>1, BusyRound
<1>13. CampaignKnown'
  <2>1. leaked' >= leaked
    BY <1>8 DEF Settling
  <2>2. /\ Cid \in DOMAIN campaigns /\ made[Cid] = cmd.own /\ (cmd.report.leaks > 0 => leaked > 0)
        /\ Elements(cmd.todo) \subseteq cmd.own
        /\ Elements(campaigns[Cid].candidates)
             \subseteq Elements(cmd.bounded.candidates) \cup Elements(cmd.todo)
    BY <1>5, <1>6 DEF CampaignKnown
  <2>3. cmd'.report.leaks > 0 => leaked' > 0
    BY <1>1, <1>4, <2>1, <2>2
  <2> QED BY <1>2, <1>4, <1>5, <2>2, <2>3 DEF CampaignKnown
<1> QED BY <1>9, <1>10, <1>11, <1>12, <1>13

LEMMA FoundEarns ==
  ASSUME TypeInv, TypeOK', LogInv, EarnedInv, Alone' => Alone, ReplayAndCount PROVE EarnedInv'
<1> SUFFICES ASSUME Alone PROVE (OnFile /\ Past /\ Apart /\ RunKnown /\ RoundKnown /\ CampaignKnown)'
  BY DEF EarnedInv
<1>1. /\ cmd \in Command /\ TypeOK /\ At("replay") /\ ~ At("idle") /\ leaked \in Nat /\ leaked' \in Nat
      /\ cmd.report \in Report /\ cmd.found \in Nat
  <2>1. At("replay") /\ ~ At("idle")
    BY DEF ReplayAndCount, At
  <2> QED BY <2>1, AtWorkNow DEF TypeOK, Command
<1>2. UNCHANGED <<log, candidates, campaigns, made>> /\ supervised' = supervised
  BY DEF ReplayAndCount
<1> DEFINE kept == IF cmd.review.promoted THEN cmd.report
                   ELSE [cmd.report EXCEPT !.candidates = Append(@, cmd.found)]
<1>3. \E r : /\ cmd' = [cmd EXCEPT !.step = "cycle", !.report = r]
             /\ \E cs, ds : r = Raise(kept, cs) \/ r = Raise(Raise(kept, cs), ds)
  <2> DEFINE found == IF cmd.review.promoted THEN Rejection("alreadyPromoted")
                      ELSE UsefulCounts(cmd.review.allowed)
  <2>1. CASE cmd.task.replay
    <3>1. PICK result : cmd' = [cmd EXCEPT !.step = "cycle",
                                  !.report = Raise(Raise(kept, ReplayCounts(result # "error" /\ cmd.review.ok)), found)]
      BY <2>1 DEF ReplayAndCount, Become
    <3> HIDE DEF kept, found
    <3> QED BY <3>1
  <2>2. CASE ~ cmd.task.replay
    <3>1. cmd' = [cmd EXCEPT !.step = "cycle", !.report = Raise(kept, found)]
      BY <2>2 DEF ReplayAndCount, Become
    <3> HIDE DEF kept, found
    <3> QED BY <3>1
  <2> QED BY <2>1, <2>2
<1>4. kept \in Report /\ kept.leaks = cmd.report.leaks
  <2>1. [cmd.report EXCEPT !.candidates = Append(@, cmd.found)] \in Report
    BY <1>1, ReportStays
  <2>2. [cmd.report EXCEPT !.candidates = Append(@, cmd.found)].leaks = cmd.report.leaks
    BY <1>1 DEF Report
  <2> QED BY <1>1, <2>1, <2>2
<1> HIDE DEF kept
<1>5. /\ cmd'.step = "cycle" /\ cmd'.report.leaks = cmd.report.leaks /\ cmd'.own = cmd.own
      /\ cmd'.bounded = cmd.bounded /\ cmd'.supervised = cmd.supervised
  <2>1. PICK r : /\ cmd' = [cmd EXCEPT !.step = "cycle", !.report = r]
                 /\ \E cs, ds : r = Raise(kept, cs) \/ r = Raise(Raise(kept, cs), ds)
    BY <1>3
  <2>2. \A cs : Raise(kept, cs) \in Report /\ Raise(kept, cs).leaks = kept.leaks
    BY <1>4, RaisedTells, ReportStays
  <2>3. \A cs, ds : Raise(Raise(kept, cs), ds).leaks = kept.leaks
    BY <2>2, RaisedTells
  <2>4. r.leaks = cmd.report.leaks
    BY <1>4, <2>1, <2>2, <2>3
  <2> QED BY <1>1, <2>1, <2>4 DEF Command
<1>6. /\ ~ At("end")' /\ ~ Closing' /\ ~ Reviewing' /\ ~ At("adjust")' /\ ~ At("adjust")
      /\ ~ At("end") /\ ~ Reviewing /\ ~ Closing /\ OpenRuns = cmd.own /\ OpenRuns' = OpenRuns
  BY <1>1, <1>5 DEF OpenRuns, At, Closing, Reviewing
<1>7. OnFile /\ Past /\ Apart /\ RunKnown /\ RoundKnown /\ CampaignKnown
  BY <1>1 DEF EarnedInv
<1>8. cmd.found \in OpenRuns
  BY <1>1, <1>6 DEF LogInv, Campaigning, AtWork, At
<1>9. Settling
  <2>1. UNCHANGED <<replays, leaked>> \/ \E result : Replay(cmd.found, result)
    BY DEF ReplayAndCount
  <2> QED BY <1>1, <1>2, <1>6, <1>8, <2>1, ReplaySettles
<1>10. OnFile' /\ Apart'
  BY <1>2, <1>6, <1>7 DEF OnFile, Apart
<1>11. Past'
  BY <1>1, <1>2, <1>7, <1>9, PastStays
<1>12. RunKnown'
  BY <1>1, <1>5, <1>6, <1>7, <1>9, RunStays
<1>13. RoundKnown'
  <2>1. Unreconciled' = Unreconciled /\ DOMAIN log \subseteq DOMAIN log'
    BY <1>2, <1>6 DEF Unreconciled
  <2> QED BY <1>1, <1>2, <1>5, <1>6, <1>7, <1>9, <2>1, BusyRound
<1>14. CampaignKnown'
  <2>1. leaked' >= leaked
    BY <1>9 DEF Settling
  <2> QED BY <1>1, <1>5, <1>6, <1>7, <2>1 DEF CampaignKnown
<1> QED BY <1>10, <1>11, <1>12, <1>13, <1>14

LEMMA CloseEarns ==
  ASSUME TypeInv, TypeOK', LogInv, EarnedInv, Alone' => Alone, Close PROVE EarnedInv'
<1> SUFFICES ASSUME Alone
             PROVE  /\ (OnFile /\ Past /\ Apart)'
                    /\ At("idle")' \/ (RunKnown /\ RoundKnown /\ CampaignKnown)'
  BY DEF EarnedInv
<1>1. /\ cmd \in Command /\ TypeOK /\ At("cycle") /\ ~ At("idle") /\ leaked \in Nat
      /\ cmd.report \in Report /\ cmd.report.leaks \in Nat
      /\ campaigns \in Seq(Report) /\ made \in Seq(SUBSET Nat)
  <2>1. At("cycle") /\ ~ At("idle")
    BY DEF Close, At
  <2> QED BY <2>1, AtWorkNow DEF TypeOK, Command, Report
<1> DEFINE report == Closed(cmd.report, Sandboxes)
           m == Len(campaigns)
<1>2. /\ campaigns' = Append(campaigns, report) /\ made' = Append(made, cmd.own)
      /\ UNCHANGED <<log, candidates, replays, leaked>> /\ supervised' = supervised
      /\ cmd' = Idle \/ cmd' = [cmd EXCEPT !.step = "adjust", !.report = report]
  BY DEF Close, Become, Stop
<1>3. /\ report.leaks = cmd.report.leaks + leaked /\ report \in Report
  <2>1. theirs.live = 0 /\ theirs.stray = 0
    BY DEF LogInv, Numbered
  <2>2. Sandboxes \in Nat /\ Sandboxes = leaked
    BY <1>1, <2>1 DEF Sandboxes
  <2> QED BY <1>1, <2>2, ClosedTells, ReportStays
<1> HIDE DEF report
<1>4. m = Len(made)
  BY DEF LogInv, Told
<1>5. /\ m \in Nat /\ DOMAIN campaigns' = 1..(m + 1) /\ DOMAIN campaigns = 1..m /\ Len(campaigns') = m + 1
      /\ campaigns'[m + 1] = report /\ \A c \in 1..m : campaigns'[c] = campaigns[c]
  BY <1>1, <1>2, <1>3
<1>6. made'[m + 1] = cmd.own /\ \A c \in 1..m : made'[c] = made[c]
  BY <1>1, <1>2, <1>4
<1> HIDE DEF m
<1>7. Cid' = m + 1 /\ 1..m \subseteq 1..(m + 1) /\ m + 1 \in 1..(m + 1)
      /\ \A c \in 1..(m + 1) : c \in 1..m \/ c = m + 1
  BY <1>5 DEF Cid
<1>8. OnFile /\ Past /\ Apart /\ RunKnown /\ RoundKnown /\ CampaignKnown
  BY <1>1 DEF EarnedInv
<1>9. ~ At("end") /\ ~ Reviewing /\ ~ Closing /\ OpenRuns = cmd.own
  BY <1>1 DEF OpenRuns, At, Closing, Reviewing
<1>10. CASE cmd' = Idle
  <2>1. OpenRuns' = {} /\ At("idle")'
    BY <1>10 DEF OpenRuns, Idle, At
  <2>2. Settling
    BY <1>1, <1>2, <1>5, <1>7, <2>1 DEF Settling, Done, ReplayedOk
  <2>3. OnFile' /\ Apart'
    BY <1>2, <1>8, <2>1 DEF OnFile, Apart
  <2>4. Past'
    BY <1>1, <1>2, <1>8, <2>2, PastStays
  <2> QED BY <2>1, <2>3, <2>4
<1>11. CASE cmd' = [cmd EXCEPT !.step = "adjust", !.report = report]
  <2>1. /\ cmd'.step = "adjust" /\ cmd'.report = report /\ cmd'.own = cmd.own
        /\ cmd'.bounded = cmd.bounded /\ cmd'.supervised = cmd.supervised
    BY <1>1, <1>11 DEF Command
  <2>2. /\ OpenRuns' = OpenRuns /\ ~ At("end")' /\ Closing' /\ ~ Reviewing' /\ At("adjust")'
    BY <1>9, <2>1 DEF OpenRuns, At, Closing, Reviewing
  <2>3. Settling
    BY <1>1, <1>2, <1>5, <1>7, <2>2 DEF Settling, Done, ReplayedOk
  <2>4. OnFile'
    BY <1>2, <1>8 DEF OnFile
  <2>5. Past'
    BY <1>1, <1>2, <1>8, <2>3, PastStays
  <2>6. Apart'
    <3>1. ASSUME NEW c \in 1..(m + 1) PROVE c = m + 1 \/ made'[c] \cap OpenRuns' = {}
      BY <1>5, <1>6, <1>7, <1>8, <1>9, <2>2 DEF Apart
    <3> QED BY <1>5, <1>7, <2>2, <3>1 DEF Apart
  <2>7. RunKnown'
    BY <1>1, <1>8, <1>9, <2>1, <2>2, <2>3, RunStays
  <2>8. RoundKnown'
    <3>1. Gathered(cmd.bounded, campaigns, replays, {})
      BY <1>8, <1>9 DEF RoundKnown, Unreconciled
    <3>2. Elements(cmd.bounded.campaigns) \subseteq 1..m
      BY <1>5, <3>1 DEF Gathered
    <3>3. Gathered(cmd.bounded, campaigns', replays, {})
      BY <1>5, <1>7, <3>1, <3>2, GatheredStays
    <3> QED BY <1>2, <1>8, <2>1, <2>2, <3>3 DEF RoundKnown, Unreconciled
  <2>9. CampaignKnown'
    <3>1. cmd'.report.leaks > 0 => leaked' > 0
      BY <1>1, <1>2, <1>3, <1>8, <2>1 DEF CampaignKnown
    <3> QED BY <1>5, <1>6, <1>7, <2>1, <2>2, <3>1 DEF CampaignKnown
  <2> QED BY <2>4, <2>5, <2>6, <2>7, <2>8, <2>9
<1> QED BY <1>2, <1>10, <1>11

(* With every candidate's replay ok a recount finds no failure. *)
LEMMA ReconciledFails ==
  ASSUME NEW r \in Report, NEW replay, NEW ok, NEW allowed, NEW promoted,
         NEW q, q = Reconciled(r, replay, ok, allowed, promoted),
         r.candidates # <<>>, Elements(r.candidates) \subseteq ok
  PROVE  ~ q.count["failedReplay"] > 0
<1> DEFINE passed == Among(r, LAMBDA run : run \in ok)
           gone == Among(r, LAMBDA run : run \in promoted)
           ready == Among(r, LAMBDA run : run \in allowed)
           c == r.count
           n == Len(r.candidates)
           counts == [c EXCEPT !["replayAttempted"] = IF replay THEN n ELSE 0,
                               !["replayPassed"] = passed,
                               !["replayFailed"] = n - passed,
                               !["failedReplay"] = n - passed,
                               !["ready"] = ready,
                               !["alreadyPromoted"] = gone,
                               !["rejected"] = Less(Less(c["rejected"], c["failedReplay"]), c["alreadyPromoted"])
                                               + (n - passed) + gone]
<1>1. r.count \in [Count -> Nat] /\ r.candidates \in Seq(Nat)
  BY DEF Report
<1>2. q.count = counts
  BY DEF Reconciled, Report
<1>3. passed = n
  <2>1. n \in Nat /\ DOMAIN r.candidates = 1..n
    BY <1>1
  <2>2. {i \in DOMAIN r.candidates : r.candidates[i] \in ok} = 1..n
    BY <2>1 DEF Elements
  <2>3. Cardinality(1..n) = n
    BY <2>1, FS_Interval
  <2> QED BY <2>2, <2>3 DEF Among
<1>4. n - passed = 0
  BY <1>1, <1>3
<1> HIDE DEF passed, gone, ready, n
<1>5. counts["failedReplay"] = n - passed
  BY <1>1 DEF Count
<1> QED BY <1>2, <1>4, <1>5

LEMMA ReconcileEarns ==
  ASSUME TypeInv, TypeOK', LogInv, EarnedInv, Alone' => Alone, Reconcile PROVE EarnedInv'
<1> SUFFICES ASSUME Alone PROVE (OnFile /\ Past /\ Apart /\ RunKnown /\ RoundKnown /\ CampaignKnown)'
  BY DEF EarnedInv
<1>1. /\ cmd \in Command /\ TypeOK /\ At("again") /\ ~ At("idle") /\ leaked \in Nat
  <2>1. At("again") /\ ~ At("idle")
    BY DEF Reconcile, At
  <2> QED BY <2>1, AtWorkNow DEF TypeOK, Command
<1>2. /\ UNCHANGED <<log, candidates, replays, made, leaked>> /\ supervised' = supervised
      /\ cmd.todo = <<>>
  BY DEF Reconcile
<1>3. cmd' = [cmd EXCEPT !.turns = @ - 1, !.step = IF StopsNow \/ LastTurn THEN "finish" ELSE "open"]
  BY DEF Reconcile, Become
<1>4. /\ cmd'.step \in {"finish", "open"} /\ cmd'.report = cmd.report
      /\ cmd'.bounded = cmd.bounded /\ cmd'.supervised = cmd.supervised
  BY <1>1, <1>3 DEF Command
<1>5. /\ ~ At("end")' /\ ~ Closing' /\ ~ Reviewing' /\ ~ At("adjust")'
      /\ ~ At("end") /\ Reviewing /\ Closing /\ OpenRuns' = {}
  BY <1>1, <1>4 DEF OpenRuns, At, Closing, Reviewing
<1>6. OnFile /\ Past /\ Apart /\ RunKnown /\ RoundKnown /\ CampaignKnown
  BY <1>1 DEF EarnedInv
<1>7. /\ campaigns \in Seq(Report) /\ DOMAIN campaigns' = DOMAIN campaigns
      /\ \A c \in DOMAIN campaigns : campaigns'[c] = IF c = Cid THEN Refreshed(campaigns[c]) ELSE campaigns[c]
  BY <1>1, ReconcileChanges
<1> DEFINE r == campaigns[Cid]
           q == Refreshed(r)
           ok == {run \in {d.run : d \in candidates} : ReplayOk(run)}
<1>8. Cid \in DOMAIN campaigns /\ r \in Report /\ Elements(r.candidates) \subseteq Elements(cmd.bounded.candidates)
  <2>1. /\ Cid \in DOMAIN campaigns
        /\ Elements(r.candidates) \subseteq Elements(cmd.bounded.candidates) \cup Elements(cmd.todo)
    BY <1>5, <1>6 DEF CampaignKnown
  <2>2. Elements(cmd.todo) = {}
    BY <1>2 DEF Elements
  <2> QED BY <1>7, <2>1, <2>2
<1>9. \E replay, allowed, promoted : q = Reconciled(r, replay, ok, allowed, promoted)
  BY DEF Refreshed
<1>10. \A run \in Elements(r.candidates) : run \in ok <=> ReplayedOk(replays, run)
  <2>1. Matched(r, log, made[Cid], Lost(r))
    BY <1>8 DEF LogInv, Told
  <2>2. ASSUME NEW run \in Elements(r.candidates) PROVE run \in {d.run : d \in candidates}
    <3>1. run \in DOMAIN log /\ log[run].status = "candidate"
      BY <2>1, <2>2 DEF Matched, Offered
    <3> QED BY <1>6, <3>1 DEF OnFile
  <2> QED BY <2>2 DEF ReplayOk, ReplayedOk
<1>11. r.candidates = <<>> => ~ r.count["failedReplay"] > 0
  <2>1. Matched(r, log, made[Cid], Lost(r))
    BY <1>8 DEF LogInv, Told
  <2> QED BY <2>1 DEF Matched
<1> HIDE DEF q, r, ok
<1>12. /\ q.candidates = r.candidates /\ q.count["useful"] = r.count["useful"]
       /\ FailureFound(q, replays)
  <2>1. PICK replay, allowed, promoted : q = Reconciled(r, replay, ok, allowed, promoted)
    BY <1>9
  <2>2. /\ q.candidates = r.candidates /\ q.count["useful"] = r.count["useful"]
        /\ r.candidates = <<>> => q = r
    BY <1>8, <2>1, ReconciledTells
  <2>3. FailureFound(q, replays)
    <3>1. CASE r.candidates = <<>>
      BY <1>11, <2>2, <3>1 DEF FailureFound
    <3>2. CASE r.candidates # <<>>
      <4>1. CASE Elements(r.candidates) \subseteq ok
        BY <1>8, <2>1, <3>2, <4>1, ReconciledFails DEF FailureFound
      <4>2. CASE ~ Elements(r.candidates) \subseteq ok
        BY <1>10, <2>2, <4>2 DEF FailureFound
      <4> QED BY <4>1, <4>2
    <3> QED BY <3>1, <3>2
  <2> QED BY <2>2, <2>3
<1>13. /\ campaigns'[Cid] = q
       /\ \A c \in DOMAIN campaigns : c # Cid => campaigns'[c] = campaigns[c]
  BY <1>7, <1>8 DEF q, r
<1>14. Settling
  <2>1. ASSUME NEW c \in DOMAIN campaigns
        PROVE  campaigns'[c].count["useful"] = campaigns[c].count["useful"]
    <3>1. CASE c = Cid
      BY <1>12, <1>13, <3>1 DEF r
    <3>2. CASE c # Cid
      BY <1>13, <3>2
    <3> QED BY <3>1, <3>2
  <2>2. Done \subseteq Done'
    BY <1>2, <1>5 DEF Done
  <2>3. \A run \in Done : ReplayedOk(replays, run) <=> ReplayedOk(replays', run)
    BY <1>2
  <2> QED BY <1>1, <1>2, <1>7, <2>1, <2>2, <2>3 DEF Settling
<1>15. OnFile' /\ Apart'
  BY <1>2, <1>5, <1>6 DEF OnFile, Apart
<1>16. Past'
  BY <1>1, <1>2, <1>6, <1>14, PastStays
<1>17. RunKnown'
  BY <1>1, <1>4, <1>5, <1>6, <1>14, RunStays
<1>18. RoundKnown'
  <2>1. Gathered(cmd.bounded, campaigns, replays, {Cid})
    BY <1>5, <1>6 DEF RoundKnown, Unreconciled
  <2>2. ASSUME NEW c \in Elements(cmd.bounded.campaigns)
        PROVE  /\ FailureFound(campaigns'[c], replays)
               /\ Elements(campaigns'[c].candidates) \subseteq Elements(cmd.bounded.candidates)
    <3>1. CASE c = Cid
      BY <1>8, <1>12, <1>13, <3>1
    <3>2. CASE c # Cid
      BY <1>13, <2>1, <3>2 DEF Gathered
    <3> QED BY <3>1, <3>2
  <2>3. Gathered(cmd.bounded, campaigns', replays, {})
    BY <1>7, <2>1, <2>2 DEF Gathered
  <2> QED BY <1>2, <1>4, <1>5, <1>6, <2>3 DEF RoundKnown, Unreconciled
<1>19. CampaignKnown'
  BY <1>2, <1>4, <1>5, <1>6 DEF CampaignKnown
<1> QED BY <1>15, <1>16, <1>17, <1>18, <1>19

LEMMA EarnedInvInit == Init => EarnedInv
<1> SUFFICES ASSUME Init PROVE OnFile /\ Past /\ Apart /\ At("idle")
  BY DEF EarnedInv
<1>1. cmd = Idle /\ log = <<>> /\ campaigns = <<>> /\ supervised = <<>>
  BY DEF Init
<1>2. DOMAIN <<>> = {} /\ Elements(<<>>) = {}
  BY DEF Elements
<1> QED BY <1>1, <1>2 DEF OnFile, Past, Apart, At, Idle

LEMMA EarnedInvKept == ASSUME TypeInv, LogInv, EarnedInv, [Next]_vars PROVE EarnedInv'
<1>1. Alone' => Alone /\ ~ OthersBegin /\ ~ OthersDuplicate /\ ~ OthersPromote
  BY AloneBefore DEF TypeInv
<1>2. TypeOK' /\ TypeOK
  BY TypeInvKept DEF TypeInv
<1>3. CASE \E level \in Level, t \in TaskId, path \in Path, n \in 1..MaxAsked : Begin(level, t, path, n)
  BY <1>1, <1>2, <1>3, BeginEarns
<1>4. CASE Round \/ Open \/ Cycle \/ Record \/ ReplayAndCount \/ Close
  BY <1>1, <1>2, <1>4, RoundEarns, OpenEarns, CycleEarns, RecordEarns, FoundEarns, CloseEarns
<1>5. CASE Adjust \/ Again \/ ReviewAgain \/ Reconcile \/ Finish \/ Collect \/ End \/ Crash
  BY <1>1, <1>2, <1>5, AdjustEarns, AgainEarns, ReviewEarns, ReconcileEarns, FinishEarns, CollectEarns,
     EndEarns, CrashEarns
<1>6. CASE Others
  <2>1. OthersEnd => theirs.live > 0
    BY DEF OthersEnd
  <2>2. Alone => theirs.live = 0
    BY DEF LogInv, Numbered
  <2>3. ~ Alone'
    BY <1>1, <1>6, <2>1, <2>2 DEF Others
  <2> QED BY <2>3 DEF EarnedInv
<1>7. CASE UNCHANGED vars
  <2>1. CASE At("idle")
    <3>1. At("idle")'
      BY <1>7, <2>1 DEF vars, At
    <3>2. OnFile /\ Past /\ Apart => (OnFile /\ Past /\ Apart)'
      BY <1>7 DEF vars, OnFile, Past, Apart, Done, OpenRuns, Cid, Closing, Reviewing, At
    <3> QED BY <1>1, <3>1, <3>2 DEF EarnedInv
  <2>2. CASE ~ At("idle")
    <3>1. OnFile /\ Past /\ Apart => (OnFile /\ Past /\ Apart)'
      BY <1>7 DEF vars, OnFile, Past, Apart, Done, OpenRuns, Cid, Closing, Reviewing, At
    <3>2. RunKnown => RunKnown'
      BY <1>7 DEF vars, RunKnown, Done, OpenRuns, At
    <3>3. RoundKnown => RoundKnown'
      BY <1>7 DEF vars, RoundKnown, Unreconciled, Reviewing, Cid
    <3>4. CampaignKnown => CampaignKnown'
      BY <1>7 DEF vars, CampaignKnown, Closing, Reviewing, At, Cid
    <3>5. Alone => OnFile /\ Past /\ Apart /\ RunKnown /\ RoundKnown /\ CampaignKnown
      BY <2>2 DEF EarnedInv
    <3> QED BY <1>1, <3>1, <3>2, <3>3, <3>4, <3>5 DEF EarnedInv
  <2> QED BY <2>1, <2>2
<1> QED BY <1>3, <1>4, <1>5, <1>6, <1>7 DEF Next

(* Theorem: without other commands a supervised run ended the way it says: ready candidates
   have a passed replay on file, replays failed in two rounds if it gave up for that, two
   rounds found nothing if it gave up for that, a sandbox is left after a safety stop. *)
THEOREM StatusAlwaysEarned == Spec => []StatusIsEarned
<1>1. ASSUME TypeInv, EarnedInv PROVE StatusIsEarned
  <2> SUFFICES ASSUME Alone, NEW s \in Elements(supervised)
               PROVE  /\ s.status = "promotion_ready_candidate_found" <=> s.ready # {} /\ s.status # "safety_stop"
                      /\ \A r \in s.ready : ReplayOk(r)
                      /\ s.status = "replay_failed_exhausted" =>
                           Rounds(s, LAMBDA b : \E r \in Elements(b.candidates) : ~ ReplayOk(r)) >= 2
                      /\ s.status = "zero_yield_exhausted" =>
                           Rounds(s, LAMBDA b : \A c \in Elements(b.campaigns) :
                                                  campaigns[c].count["useful"] = 0) >= 2
                      /\ s.status = "safety_stop" => leaked > 0
    BY DEF StatusIsEarned
  <2>1. Earned(s, replays, campaigns, Done) /\ Ended(s, leaked) /\ s \in Supervised
    BY <1>1 DEF EarnedInv, Past, TypeInv, TypeOK, Elements
  <2>2. Rounds(s, LAMBDA b : \E r \in Elements(b.candidates) : ~ ReplayOk(r))
          = Cardinality(FailedRounds(s, replays))
    BY DEF Rounds, FailedRounds, ReplayOk, ReplayedOk
  <2>3. Rounds(s, LAMBDA b : \A c \in Elements(b.campaigns) : campaigns[c].count["useful"] = 0)
          = Cardinality(EmptyRounds(s, campaigns))
    BY DEF Rounds, EmptyRounds
  <2>4. s.bounded \in Seq(Bounded) /\ s.failures \in Nat /\ s.zeroYields \in Nat
    BY <2>1 DEF Supervised
  <2>5. Cardinality(FailedRounds(s, replays)) \in Nat /\ Cardinality(EmptyRounds(s, campaigns)) \in Nat
    <3>1. Len(s.bounded) \in Nat /\ DOMAIN s.bounded = 1..Len(s.bounded)
      BY <2>4
    <3>2. IsFiniteSet(DOMAIN s.bounded)
      BY <3>1, FS_Interval
    <3>3. FailedRounds(s, replays) \subseteq DOMAIN s.bounded /\ EmptyRounds(s, campaigns) \subseteq DOMAIN s.bounded
      BY DEF FailedRounds, EmptyRounds
    <3> QED BY <3>2, <3>3, FS_Subset, FS_CardinalityType
  <2>6. /\ s.status = "replay_failed_exhausted" => Cardinality(FailedRounds(s, replays)) >= 2
        /\ s.status = "zero_yield_exhausted" => Cardinality(EmptyRounds(s, campaigns)) >= 2
    BY <2>1, <2>4, <2>5 DEF Earned, Ended
  <2>7. \A r \in s.ready : ReplayOk(r)
    BY <2>1 DEF Earned, ReplayOk, ReplayedOk
  <2> QED BY <2>1, <2>2, <2>3, <2>6, <2>7 DEF Ended
<1>2. TypeInv /\ LogInv /\ EarnedInv /\ [Next]_vars => (TypeInv /\ LogInv /\ EarnedInv)'
  BY TypeInvKept, LogInvKept, EarnedInvKept
<1>3. Init => TypeInv /\ LogInv /\ EarnedInv
  BY TypeInvInit, LogInvInit, EarnedInvInit
<1> QED BY <1>1, <1>2, <1>3, PTL DEF Spec
=============================================================================
