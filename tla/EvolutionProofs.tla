-------------------------- MODULE EvolutionProofs ---------------------------
(***************************************************************************)
(* Theorems about EvolutionCycle, for any commands, mutations and bounds:  *)
(* types and sandboxes, the offers, the stages of a run, duplicates, and   *)
(* the agreement of updated books with computed ones.                      *)
(***************************************************************************)
EXTENDS EvolutionStages, FiniteSetTheorems, TLAPS

-----------------------------------------------------------------------------
(* Types *)

StoreValue(s) ==
  CASE s = "dedup" -> [Digest -> [seen : Nat, useful : BOOLEAN]]
    [] s = "regressions" -> [Pattern -> Nat]
    [] s = "successes" -> [Pattern -> Nat]
    [] s = "graph" -> SUBSET (Digest \X Result)
    [] s = "metrics" -> [Counter -> Nat]
    [] s = "portfolio" -> [Kinds -> [Share -> Nat]]

LEMMA StoreTyped ==
  ASSUME NEW m \in Memory, NEW s \in Store
  PROVE  m[s] \in StoreValue(s)
<1>1. CASE s = "dedup"       BY <1>1 DEF Memory, StoreValue
<1>2. CASE s = "regressions" BY <1>2 DEF Memory, StoreValue
<1>3. CASE s = "successes"   BY <1>3 DEF Memory, StoreValue
<1>4. CASE s = "graph"       BY <1>4 DEF Memory, StoreValue
<1>5. CASE s = "metrics"     BY <1>5 DEF Memory, StoreValue
<1>6. CASE s = "portfolio"   BY <1>6 DEF Memory, StoreValue
<1> QED BY <1>1, <1>2, <1>3, <1>4, <1>5, <1>6 DEF Store

LEMMA StorePut ==
  ASSUME NEW m \in Memory, NEW s \in Store, NEW v \in StoreValue(s)
  PROVE  [m EXCEPT ![s] = v] \in Memory
<1>1. CASE s = "dedup"       BY <1>1 DEF Memory, StoreValue
<1>2. CASE s = "regressions" BY <1>2 DEF Memory, StoreValue
<1>3. CASE s = "successes"   BY <1>3 DEF Memory, StoreValue
<1>4. CASE s = "graph"       BY <1>4 DEF Memory, StoreValue
<1>5. CASE s = "metrics"     BY <1>5 DEF Memory, StoreValue
<1>6. CASE s = "portfolio"   BY <1>6 DEF Memory, StoreValue
<1> QED BY <1>1, <1>2, <1>3, <1>4, <1>5, <1>6 DEF Store

LEMMA NoMemoryTyped == NoMemory \in Memory
  BY DEF NoMemory, Memory

LEMMA KindTyped == \A d \in Digest : KindOf[d] \in Kinds
  BY DEF Kinds

LEMMA StatusTyped == \A e \in Entry : Status(e) \in Result
  BY DEF Status, Result

LEMMA UsefulTyped == \A e \in Entry : EntryUseful(e) \in BOOLEAN
  BY DEF EntryUseful, Useful

LEMMA RaisedTyped ==
  ASSUME NEW S, NEW t \in [S -> Nat], NEW C
  PROVE  Raised(t, C) \in [S -> Nat]
  BY DEF Raised

(* The finite files of a bounded history: their counts are numbers. *)
FilesFinite == IsFiniteSet(summaries) /\ IsFiniteSet(replays)

Busy(p) == proc[p] \in ProcState

(* Only a command at a store has one loaded. *)
StoreStep == {"dedup", "patterns", "graph", "metrics", "portfolio"}
LoadedOK(v) == v # Idle /\ v.loaded => v.step \in StoreStep

TypeInv == TypeOK /\ FilesFinite /\ \A p \in Proc : LoadedOK(proc[p])

LEMMA BusyOrIdle ==
  ASSUME TypeOK, NEW p \in Proc
  PROVE  /\ At(p, "idle") => proc[p] = Idle
         /\ ~ At(p, "idle") => Busy(p) /\ proc[p] # Idle
<1>1. proc[p] \in ProcState \cup {Idle} BY DEF TypeOK
<1>2. proc[p] \in ProcState => ~ At(p, "idle") BY DEF ProcState, Step, At
<1>3. Idle.step = "idle" BY DEF Idle
<1> QED BY <1>1, <1>2, <1>3 DEF At, Busy

ProcOK(f) ==
  /\ f \in [Proc -> ProcState \cup {Idle}]
  /\ \A q \in Proc : CommandOK(f[q]) /\ LoadedOK(f[q])

LEMMA BecomeTyped ==
  ASSUME TypeInv, NEW p \in Proc, NEW v \in ProcState \cup {Idle}, CommandOK(v), LoadedOK(v),
         Become(p, v)
  PROVE  ProcOK(proc')
<1>1. proc \in [Proc -> ProcState \cup {Idle}] BY DEF TypeInv, TypeOK
<1>2. \A q \in Proc : CommandOK(proc[q]) /\ LoadedOK(proc[q]) BY DEF TypeInv, TypeOK
<1> QED BY <1>1, <1>2 DEF Become, ProcOK

LEMMA IdleOK == CommandOK(Idle) /\ LoadedOK(Idle)
  BY DEF CommandOK, LoadedOK

LEMMA FinishTyped ==
  ASSUME TypeInv, NEW p \in Proc, Finish(p)
  PROVE  ProcOK(proc')
  BY BecomeTyped, IdleOK DEF Finish

(* A command goes on to a step of its own. *)
LEMMA NextStepTyped ==
  ASSUME TypeOK, NEW p \in Proc, ~ At(p, "idle"),
         proc[p].step \notin {"copy", "trial", "destroy"}
  PROVE  NextStep(p) # "idle" => NextStep(p) \in StepsOf[proc[p].cmd]
<1> DEFINE s == proc[p].step
           c == proc[p].cmd
<1>1. s \in StepsOf[c] /\ c \in Command /\ s \in Step
  BY BusyOrIdle DEF TypeOK, CommandOK, Busy, ProcState
<1>2. CASE c = "cycle"
  <2>1. s \in {"dedup", "patterns", "append", "newline", "mutation", "summary", "graph",
                "metrics", "portfolio"}
    BY <1>1, <1>2 DEF StepsOf, Step
  <2> QED BY <2>1, <1>2 DEF NextStep, At, StepsOf, Step
<1>3. CASE c = "rejected"
  <2>1. s \in {"patterns", "append", "newline", "dedup", "metrics", "portfolio"}
    BY <1>1, <1>3 DEF StepsOf
  <2> QED BY <2>1, <1>3 DEF NextStep, At, StepsOf
<1>4. CASE c = "promotion"
  <2>1. s \in {"append", "newline", "metrics", "portfolio"} BY <1>1, <1>4 DEF StepsOf
  <2> QED BY <2>1, <1>4 DEF NextStep, At, StepsOf
<1>5. CASE c = "replay"
  <2>1. s \in {"metrics", "replay", "portfolio"} BY <1>1, <1>5 DEF StepsOf
  <2> QED BY <2>1, <1>5 DEF NextStep, At, StepsOf
<1>6. CASE c \in {"refresh_metrics", "refresh_portfolio"}
  <2>1. s \in {"metrics", "portfolio"} BY <1>1, <1>6 DEF StepsOf
  <2>2. CASE c = "refresh_metrics" BY <2>2, <1>1 DEF NextStep, At, StepsOf
  <2>3. CASE c = "refresh_portfolio" BY <2>3, <1>1 DEF NextStep, At, StepsOf
  <2> QED BY <2>2, <2>3, <1>6
<1> QED BY <1>1, <1>2, <1>3, <1>4, <1>5, <1>6 DEF Command

(* What a command becomes when it goes on. *)
LEMMA ProceedTyped ==
  ASSUME TypeInv, NEW p \in Proc, ~ At(p, "idle"),
         proc[p].step \notin {"copy", "trial", "destroy"}, Proceed(p)
  PROVE  ProcOK(proc')
<1> USE DEF TypeInv
<1>1. CASE NextStep(p) = "idle" BY <1>1, FinishTyped DEF Proceed
<1>2. CASE NextStep(p) # "idle"
  <2> DEFINE v == [proc[p] EXCEPT !.step = NextStep(p), !.loaded = FALSE, !.copy = NoMemory]
  <2>1. Busy(p) /\ CommandOK(proc[p]) /\ proc[p] # Idle BY BusyOrIdle DEF TypeOK
  <2>2. NextStep(p) \in StepsOf[proc[p].cmd] BY <1>2, NextStepTyped
  <2>3. StepsOf[proc[p].cmd] \subseteq Step
    BY <2>1 DEF StepsOf, Step, Busy, ProcState, Command
  <2>4. v \in ProcState BY <2>1, <2>2, <2>3, NoMemoryTyped DEF Busy, ProcState
  <2>5. CommandOK(v) BY <2>1, <2>2 DEF CommandOK, Busy, ProcState
  <2>6. Become(p, v) BY <1>2 DEF Proceed
  <2>7. LoadedOK(v) BY <2>1 DEF LoadedOK, Busy, ProcState
  <2> QED BY <2>4, <2>5, <2>6, <2>7, BecomeTyped
<1> QED BY <1>1, <1>2

LEMMA MetricsTyped ==
  ASSUME TypeOK, FilesFinite
  PROVE  MetricsFromFiles \in [Counter -> Nat]
<1> DEFINE ok == {r \in replays : ReplayOk(r)}
           runs(c) == Cardinality({i \in DOMAIN log : c \in RunCounters(log[i])})
<1>1. IsFiniteSet(ok) /\ IsFiniteSet(replays \ ok) BY FS_Subset DEF FilesFinite
<1>2. IsFiniteSet(DOMAIN log)
  <2>1. DOMAIN log = 1..Len(log) /\ Len(log) \in Nat BY DEF TypeOK
  <2> QED BY <2>1, FS_Interval
<1>3. \A c : runs(c) \in Nat
  <2> TAKE c
  <2>1. IsFiniteSet({i \in DOMAIN log : c \in RunCounters(log[i])}) BY <1>2, FS_Subset
  <2> QED BY <2>1, FS_CardinalityType
<1>4. /\ Cardinality(ok) \in Nat /\ Cardinality(replays \ ok) \in Nat
      /\ Cardinality(summaries) \in Nat
  BY <1>1, FS_CardinalityType DEF FilesFinite
<1> HIDE DEF ok, runs
<1>5. \A c \in Counter : runs(c) + Cardinality(replays \ ok) \in Nat BY <1>3, <1>4
<1>6. MetricsFromFiles =
        [c \in Counter |->
          CASE c = "candidates" -> Cardinality(summaries)
            [] c = "replay_passed" -> Cardinality(ok)
            [] c \in {"replay_failed", "replay_failed_runs"} -> Cardinality(replays \ ok)
            [] c = "failed" -> runs(c) + Cardinality(replays \ ok)
            [] OTHER -> runs(c)]
  BY DEF MetricsFromFiles, ok, runs
<1> QED BY <1>3, <1>4, <1>5, <1>6

LEMMA PortfolioTyped ==
  ASSUME TypeOK, FilesFinite
  PROVE  PortfolioFromFiles \in [Kinds -> [Share -> Nat]]
<1> DEFINE R(k, c) == {r \in replays : \E s \in summaries :
                        /\ r.run = s.run /\ s.run \in mutations /\ KindOf[s.digest] = k
                        /\ c \in ReplayShare(s.digest, ReplayOk(r))}
           L(k, c) == {i \in Lines : KindOf[log[i].digest] = k /\ c \in KindShare(log[i])}
<1>1. IsFiniteSet(DOMAIN log)
  <2>1. DOMAIN log = 1..Len(log) /\ Len(log) \in Nat BY DEF TypeOK
  <2> QED BY <2>1, FS_Interval
<1>2. ASSUME NEW k, NEW c
      PROVE  Cardinality(R(k, c)) \in Nat /\ Cardinality(L(k, c)) \in Nat
  <2>1. R(k, c) \subseteq replays OBVIOUS
  <2>2. L(k, c) \subseteq DOMAIN log BY DEF Lines
  <2>3. IsFiniteSet(R(k, c)) BY <2>1, FS_Subset DEF FilesFinite
  <2>4. IsFiniteSet(L(k, c)) BY <2>2, <1>1, FS_Subset
  <2> HIDE DEF R, L
  <2> QED BY <2>3, <2>4, FS_CardinalityType
<1>3. PortfolioFromFiles =
        [k \in Kinds |-> [c \in Share |-> IF c = "replay_passed" THEN Cardinality(R(k, c))
                                          ELSE Cardinality(L(k, c))]]
  BY DEF PortfolioFromFiles
<1> HIDE DEF R, L
<1> QED BY <1>2, <1>3

LEMMA StoreOfTyped ==
  ASSUME TypeOK, NEW p \in Proc, StoreOf(p) \in Store
  PROVE  /\ ~ At(p, "idle") /\ Busy(p)
         /\ proc[p].step \in {"dedup", "patterns", "graph", "metrics", "portfolio"}
<1>1. ~ At(p, "idle")
  BY DEF StoreOf, At, Store
<1>2. Busy(p) BY <1>1, BusyOrIdle
<1> QED BY <1>1, <1>2 DEF StoreOf, Store, At, Busy, ProcState, Step

(* What a loaded store becomes has the type of the store. *)
LEMMA UpdatedTyped ==
  ASSUME TypeOK, NEW p \in Proc, StoreOf(p) \in Store
  PROVE  Updated(p) \in StoreValue(StoreOf(p))
<1> DEFINE e == Held(p)
           s == StoreOf(p)
           old == proc[p].copy[s]
           ok == ReplayOk(TheReplay(p))
<1>1. e \in Entry /\ proc[p].copy \in Memory BY StoreOfTyped DEF Busy, ProcState, Held
<1>2. old \in StoreValue(s) BY <1>1, StoreTyped
<1>3. e.digest \in Digest /\ e.pattern \in Pattern BY <1>1 DEF Entry
<1>4. CASE Refreshing(p) BY <1>2, <1>4 DEF Updated
<1>5. CASE ~ Refreshing(p) /\ s = "dedup"
  <2>1. old \in [Digest -> [seen : Nat, useful : BOOLEAN]] BY <1>2, <1>5 DEF StoreValue
  <2>2. EntryUseful(e) \in BOOLEAN BY <1>1, UsefulTyped
  <2>3. Updated(p) = [old EXCEPT ![e.digest] = [seen |-> @.seen + 1, useful |-> EntryUseful(e)]]
    BY <1>5 DEF Updated
  <2> HIDE DEF old, e, s
  <2>4. [seen |-> old[e.digest].seen + 1, useful |-> EntryUseful(e)]
          \in [seen : Nat, useful : BOOLEAN]
    BY <2>1, <2>2, <1>3
  <2>5. Updated(p) \in [Digest -> [seen : Nat, useful : BOOLEAN]] BY <2>1, <2>3, <2>4, <1>3
  <2> QED BY <2>5, <1>5 DEF StoreValue, s
<1>6. CASE ~ Refreshing(p) /\ s \in {"regressions", "successes"}
  <2>1. old \in [Pattern -> Nat] BY <1>2, <1>6 DEF StoreValue
  <2>2. Updated(p) = [old EXCEPT ![e.pattern] = @ + 1] BY <1>6 DEF Updated
  <2> HIDE DEF old, e, s
  <2>3. Updated(p) \in [Pattern -> Nat] BY <2>1, <2>2, <1>3
  <2> QED BY <2>3, <1>6 DEF StoreValue, s
<1>7. CASE ~ Refreshing(p) /\ s = "graph"
  <2>1. old \in SUBSET (Digest \X Result) BY <1>2, <1>7 DEF StoreValue
  <2>2. Updated(p) = old \cup {<<e.digest, Status(e)>>} BY <1>7 DEF Updated
  <2>3. Status(e) \in Result BY <1>1, StatusTyped
  <2> HIDE DEF old, e, s
  <2>4. Updated(p) \in SUBSET (Digest \X Result) BY <2>1, <2>2, <2>3, <1>3
  <2> QED BY <2>4, <1>7 DEF StoreValue, s
<1>8. CASE ~ Refreshing(p) /\ s = "metrics"
  <2>1. old \in [Counter -> Nat] BY <1>2, <1>8 DEF StoreValue
  <2>2. \E C : Updated(p) = Raised(old, C)
    <3>1. CASE proc[p].cmd = "replay"
      <4>1. Updated(p) = Raised(old, ReplayCounters(ok)) BY <1>8, <3>1 DEF Updated
      <4> QED BY <4>1
    <3>2. CASE proc[p].cmd # "replay"
      <4>1. Updated(p) = Raised(old, RunCounters(e)) BY <1>8, <3>2 DEF Updated
      <4> QED BY <4>1
    <3> QED BY <3>1, <3>2
  <2> HIDE DEF old, e, s
  <2>3. Updated(p) \in [Counter -> Nat] BY <2>1, <2>2, RaisedTyped
  <2> QED BY <2>3, <1>8 DEF StoreValue, s
<1>9. CASE ~ Refreshing(p) /\ s = "portfolio"
  <2> DEFINE k == KindOf[e.digest]
  <2>1. old \in [Kinds -> [Share -> Nat]] BY <1>2, <1>9 DEF StoreValue
  <2>2. \E C : Updated(p) = [old EXCEPT ![k] = Raised(old[k], C)]
    <3>1. CASE proc[p].cmd = "replay"
      <4>1. Updated(p) = [old EXCEPT ![k] = Raised(@, ReplayShare(e.digest, ok))]
        BY <1>9, <3>1 DEF Updated
      <4> QED BY <4>1
    <3>2. CASE proc[p].cmd # "replay"
      <4>1. Updated(p) = [old EXCEPT ![k] = Raised(@, KindShare(e))] BY <1>9, <3>2 DEF Updated
      <4> QED BY <4>1
    <3> QED BY <3>1, <3>2
  <2>3. k \in Kinds BY <1>3, KindTyped
  <2> HIDE DEF old, e, s, k
  <2>4. \A C : Raised(old[k], C) \in [Share -> Nat]
    BY <2>1, <2>3, RaisedTyped
  <2>5. Updated(p) \in [Kinds -> [Share -> Nat]] BY <2>1, <2>2, <2>3, <2>4
  <2> QED BY <2>5, <1>9 DEF StoreValue, s
<1> QED BY <1>4, <1>5, <1>6, <1>7, <1>8, <1>9 DEF Store

-----------------------------------------------------------------------------
(* Every step keeps the types *)

LEMMA InitTyped == Init => TypeInv
<1> SUFFICES ASSUME Init PROVE TypeInv OBVIOUS
<1>1. memory \in Memory BY NoMemoryTyped DEF Init
<1>2. FilesFinite BY FS_EmptySet DEF Init, FilesFinite
<1>3. \A p \in Proc : proc[p] = Idle BY DEF Init
<1>4. \A p \in Proc : CommandOK(proc[p]) /\ LoadedOK(proc[p]) BY <1>3, IdleOK
<1> QED BY <1>1, <1>2, <1>4 DEF Init, TypeInv, TypeOK

(* A step that changes only commands keeps the types if the commands do. *)
LEMMA ProcStep ==
  ASSUME TypeInv, ProcOK(proc'),
         UNCHANGED <<serial, memory, torn, log, ended, glued, mutations, summaries, replays,
                     sandboxes, abandoned, alone, deaths>>
  PROVE  TypeInv'
<1>1. FilesFinite' BY DEF TypeInv, FilesFinite
<1> QED BY <1>1 DEF TypeInv, TypeOK, ProcOK

LEMMA NewEntryTyped ==
  ASSUME TypeInv, NEW d \in Digest, NEW t \in Pattern
  PROVE  NewEntry(d, t) \in Entry
  BY DEF TypeInv, TypeOK, NewEntry, Entry, Gates

LEMMA NothingTyped == NoPattern \in Pattern /\ NoDigest \in Digest
  BY CycleAssumption DEF NoPattern, NoDigest

LEMMA BeginTyped ==
  ASSUME TypeInv, NEW p \in Proc, NEW cmd \in Command, NEW step \in StepsOf[cmd],
         NEW e \in Entry, e.retained = (cmd = "promotion"), e.duplicate = (cmd = "rejected"),
         Begin(p, cmd, step, e)
  PROVE  TypeInv'
<1> DEFINE v == Started(cmd, step, e)
<1>1. step \in Step BY DEF StepsOf, Step, Command
<1>2. v \in ProcState /\ CommandOK(v) /\ LoadedOK(v)
  BY <1>1, NoMemoryTyped DEF Started, ProcState, CommandOK, LoadedOK, TypeInv, TypeOK
<1>3. ProcOK(proc') BY <1>2, BecomeTyped DEF Begin
<1>4. FilesFinite' BY DEF TypeInv, FilesFinite, Begin
<1> QED BY <1>3, <1>4 DEF TypeInv, TypeOK, ProcOK, Begin

LEMMA CyclesTyped ==
  ASSUME TypeInv, NEW p \in Proc, NEW d \in Digest, NEW t \in Pattern,
         BeginCycle(p, d, t) \/ BeginRejected(p, d, t)
  PROVE  TypeInv'
<1>1. CASE BeginCycle(p, d, t)
  <2>1. NewEntry(d, t) \in Entry BY NewEntryTyped
  <2> QED BY <1>1, <2>1, BeginTyped DEF BeginCycle, Command, StepsOf, Step, NewEntry
<1>2. CASE BeginRejected(p, d, t)
  <2> DEFINE e == [NewEntry(d, t) EXCEPT !.duplicate = TRUE]
  <2>1. e \in Entry /\ e.retained = FALSE /\ e.duplicate = TRUE
    BY NewEntryTyped DEF Entry, NewEntry
  <2>2. Begin(p, "rejected", "patterns", e) BY <1>2 DEF BeginRejected
  <2> HIDE DEF e
  <2> QED BY <2>1, <2>2, BeginTyped DEF Command, StepsOf
<1> QED BY <1>1, <1>2

LEMMA CandidatesTyped ==
  ASSUME TypeInv, NEW p \in Proc, NEW s \in summaries, BeginReplay(p, s) \/ BeginPromotion(p, s)
  PROVE  TypeInv'
<1> DEFINE n == NewEntry(s.digest, NoPattern)
<1>1. s \in Summary BY DEF TypeInv, TypeOK
<1>2. n \in Entry /\ n.retained = FALSE /\ n.duplicate = FALSE
  BY <1>1, NewEntryTyped, NothingTyped DEF Summary, NewEntry
<1>3. CASE BeginReplay(p, s)
  <2> DEFINE e == [n EXCEPT !.run = s.run, !.gates = s.gates]
  <2>1. e \in Entry /\ e.retained = FALSE /\ e.duplicate = FALSE BY <1>1, <1>2 DEF Entry, Summary
  <2>2. Begin(p, "replay", "copy", e) BY <1>3 DEF BeginReplay
  <2> HIDE DEF e
  <2> QED BY <2>1, <2>2, BeginTyped DEF Command, StepsOf
<1>4. CASE BeginPromotion(p, s)
  <2> DEFINE e == [n EXCEPT !.gates = 2, !.retained = TRUE, !.destroyed = FALSE]
  <2>0. 2 \in Gates BY DEF Gates
  <2>1. e \in Entry /\ e.retained = TRUE /\ e.duplicate = FALSE BY <1>2, <2>0 DEF Entry
  <2>2. Begin(p, "promotion", "append", e) BY <1>4 DEF BeginPromotion
  <2> HIDE DEF e
  <2> QED BY <2>1, <2>2, BeginTyped DEF Command, StepsOf
<1> QED BY <1>3, <1>4

LEMMA RefreshTyped ==
  ASSUME TypeInv, NEW p \in Proc, BeginRefresh(p)
  PROVE  TypeInv'
<1> DEFINE e == NewEntry(NoDigest, NoPattern)
<1>1. e \in Entry /\ e.retained = FALSE /\ e.duplicate = FALSE BY NothingTyped, NewEntryTyped DEF NewEntry
<1>2. \/ Begin(p, "refresh_metrics", "metrics", e)
      \/ Begin(p, "refresh_portfolio", "portfolio", e)
  BY DEF BeginRefresh
<1> HIDE DEF e
<1> QED BY <1>1, <1>2, BeginTyped DEF Command, StepsOf

LEMMA CopyTyped == ASSUME TypeInv, NEW p \in Proc, Copy(p) PROVE TypeInv'
<1>1. Busy(p) /\ CommandOK(proc[p]) /\ LoadedOK(proc[p]) /\ proc[p] # Idle
  BY BusyOrIdle DEF TypeInv, TypeOK, Copy, At, Idle
<1>2. ProcOK(proc')
  <2>1. CASE Finish(p) BY <2>1, FinishTyped
  <2>2. CASE Go(p, "trial")
    <3> DEFINE v == [proc[p] EXCEPT !.step = "trial"]
    <3>1. v \in ProcState BY <1>1 DEF Busy, ProcState, Step
    <3>2. proc[p].cmd \in {"cycle", "replay"}
      BY <1>1 DEF CommandOK, Copy, At, StepsOf, Busy, ProcState, Command
    <3>3. CommandOK(v)
      BY <1>1, <3>2 DEF CommandOK, StepsOf, Step, Busy, ProcState
    <3>4. LoadedOK(v) BY <1>1 DEF LoadedOK, Copy, At, Busy, ProcState, StoreStep
    <3> QED BY <3>1, <3>3, <3>4, <2>2, BecomeTyped DEF Go
  <2> QED BY <2>1, <2>2 DEF Copy
<1>3. sandboxes' \subseteq Nat /\ abandoned' \subseteq Nat
  BY <1>1 DEF TypeInv, TypeOK, Copy, Busy, ProcState
<1>4. FilesFinite' BY DEF TypeInv, FilesFinite, Copy
<1> QED BY <1>2, <1>3, <1>4 DEF TypeInv, TypeOK, ProcOK, Copy

LEMMA TrialTyped == ASSUME TypeInv, NEW p \in Proc, Trial(p) PROVE TypeInv'
<1>1. Busy(p) /\ CommandOK(proc[p]) /\ LoadedOK(proc[p]) /\ proc[p] # Idle
  BY BusyOrIdle DEF TypeInv, TypeOK, Trial, At, Idle
<1>2. proc[p].cmd \in {"cycle", "replay"}
  <2>1. "trial" \in StepsOf[proc[p].cmd] BY <1>1 DEF CommandOK, Trial, At
  <2> QED BY <1>1, <2>1 DEF StepsOf, Busy, ProcState, Command
<1>3. ProcOK(proc')
  <2>1. ASSUME NEW v \in ProcState, Become(p, v), v.step = "destroy", v.cmd = proc[p].cmd,
               v.loaded = proc[p].loaded, v.entry.retained = proc[p].entry.retained,
               v.entry.duplicate = proc[p].entry.duplicate
        PROVE  ProcOK(proc')
    <3>1. CommandOK(v)
      BY <1>1, <1>2, <2>1 DEF CommandOK, StepsOf, Step, Busy, ProcState
    <3>2. LoadedOK(v)
      BY <1>1, <2>1 DEF LoadedOK, Trial, At, Busy, ProcState, StoreStep
    <3> QED BY <3>1, <3>2, <2>1, BecomeTyped
  <2>2. CASE Go(p, "destroy")
    <3> DEFINE v == [proc[p] EXCEPT !.step = "destroy"]
    <3>1. v \in ProcState /\ v.step = "destroy" BY <1>1 DEF Busy, ProcState, Step
    <3>2. /\ v.cmd = proc[p].cmd /\ v.loaded = proc[p].loaded /\ v.entry = proc[p].entry
      BY <1>1 DEF Busy, ProcState
    <3>3. Become(p, v) BY <2>2 DEF Go
    <3> HIDE DEF v
    <3> QED BY <3>1, <3>2, <3>3, <2>1
  <2>3. ASSUME NEW g \in Gates, NEW t \in BOOLEAN, NEW m \in BOOLEAN,
               Become(p, [proc[p] EXCEPT !.step = "destroy", !.tried = t, !.matches = m,
                                         !.entry.gates = g])
        PROVE  ProcOK(proc')
    <3> DEFINE e == [proc[p].entry EXCEPT !.gates = g]
               v == [proc[p] EXCEPT !.step = "destroy", !.tried = t, !.matches = m, !.entry = e]
    <3>1. e \in Entry /\ e.retained = proc[p].entry.retained
                      /\ e.duplicate = proc[p].entry.duplicate
      BY <1>1 DEF Busy, ProcState, Entry
    <3>2. Become(p, v) BY <1>1, <2>3 DEF Busy, ProcState
    <3> HIDE DEF e
    <3>3. v \in ProcState /\ v.step = "destroy" /\ v.entry = e
      BY <1>1, <3>1 DEF Busy, ProcState, Step
    <3>4. v.cmd = proc[p].cmd /\ v.loaded = proc[p].loaded BY <1>1 DEF Busy, ProcState
    <3> HIDE DEF v
    <3> QED BY <3>1, <3>2, <3>3, <3>4, <2>1
  <2>4. CASE \E g \in Gates :
          Become(p, [proc[p] EXCEPT
            !.step = "destroy",
            !.tried = proc[p].cmd = "replay" => g > 0,
            !.matches = g = Held(p).gates
                        /\ Score(KindOf[Held(p).digest], g) = EntryScore(Held(p)),
            !.entry.gates = g])
    <3>1. PICK g \in Gates :
            Become(p, [proc[p] EXCEPT
              !.step = "destroy",
              !.tried = proc[p].cmd = "replay" => g > 0,
              !.matches = g = Held(p).gates
                          /\ Score(KindOf[Held(p).digest], g) = EntryScore(Held(p)),
              !.entry.gates = g])
      BY <2>4
    <3> DEFINE t == proc[p].cmd = "replay" => g > 0
               m == g = Held(p).gates /\ Score(KindOf[Held(p).digest], g) = EntryScore(Held(p))
    <3>2. t \in BOOLEAN /\ m \in BOOLEAN OBVIOUS
    <3>3. Become(p, [proc[p] EXCEPT !.step = "destroy", !.tried = t, !.matches = m,
                                    !.entry.gates = g])
      BY <3>1
    <3> HIDE DEF t, m
    <3> QED BY <3>2, <3>3, <2>3
  <2> QED BY <2>2, <2>4 DEF Trial
<1> QED BY <1>3, ProcStep DEF Trial

LEMMA DestroyTyped == ASSUME TypeInv, NEW p \in Proc, Destroy(p) PROVE TypeInv'
<1>1. Busy(p) /\ CommandOK(proc[p]) /\ LoadedOK(proc[p]) /\ proc[p] # Idle
  BY BusyOrIdle DEF TypeInv, TypeOK, Destroy, At, Idle
<1>2. proc[p].cmd \in {"cycle", "replay"}
  BY <1>1 DEF CommandOK, Destroy, At, StepsOf, Busy, ProcState, Command
<1>3. ProcOK(proc')
  <2>1. CASE Finish(p) BY <2>1, FinishTyped
  <2>2. ASSUME NEW r \in BOOLEAN,
               Become(p, [proc[p] EXCEPT
                 !.step = IF proc[p].cmd = "replay" THEN "metrics" ELSE "dedup",
                 !.entry.destroyed = r])
        PROVE  ProcOK(proc')
    <3> DEFINE s == IF proc[p].cmd = "replay" THEN "metrics" ELSE "dedup"
               e == [proc[p].entry EXCEPT !.destroyed = r]
               v == [proc[p] EXCEPT !.step = s, !.entry = e]
    <3>1. e \in Entry /\ e.retained = proc[p].entry.retained
                      /\ e.duplicate = proc[p].entry.duplicate
      BY <1>1 DEF Busy, ProcState, Entry
    <3>2. Become(p, v) BY <1>1, <2>2 DEF Busy, ProcState
    <3>3. s \in Step /\ s \in StoreStep BY DEF Step, StoreStep
    <3>4. s \in StepsOf[proc[p].cmd] BY <1>2 DEF StepsOf, Step
    <3> HIDE DEF e, s
    <3>5. v \in ProcState BY <1>1, <3>1, <3>3 DEF Busy, ProcState
    <3>6. CommandOK(v) BY <1>1, <3>1, <3>4 DEF CommandOK, Busy, ProcState
    <3>7. LoadedOK(v) BY <1>1, <3>3 DEF LoadedOK, Busy, ProcState
    <3> QED BY <3>2, <3>5, <3>6, <3>7, BecomeTyped
  <2> QED BY <2>1, <2>2 DEF Destroy
<1>4. sandboxes' \subseteq Nat /\ abandoned' \subseteq Nat
  BY <1>1 DEF TypeInv, TypeOK, Destroy, Busy, ProcState
<1>5. FilesFinite' BY DEF TypeInv, FilesFinite, Destroy
<1> QED BY <1>3, <1>4, <1>5 DEF TypeInv, TypeOK, ProcOK, Destroy

(* At a store, the store has a name and a place in the step order. *)
LEMMA StoreStepTyped ==
  ASSUME TypeInv, NEW p \in Proc, ~ At(p, "idle"), proc[p].loaded
  PROVE  /\ StoreOf(p) \in Store
         /\ proc[p].step \in StoreStep
<1>1. Busy(p) /\ LoadedOK(proc[p]) /\ proc[p] # Idle BY BusyOrIdle DEF TypeInv
<1>2. proc[p].step \in StoreStep BY <1>1 DEF LoadedOK, Busy, ProcState
<1> QED BY <1>2 DEF StoreOf, At, Store, StoreStep

LEMMA LoadedTyped ==
  ASSUME TypeInv, NEW p \in Proc, Busy(p), proc[p].step \in StoreStep,
         NEW s \in Store, NEW x \in StoreValue(s), Loaded(p, s, x)
  PROVE  ProcOK(proc')
<1> DEFINE v == [proc[p] EXCEPT !.loaded = TRUE, !.copy = [NoMemory EXCEPT ![s] = x]]
<1>1. CommandOK(proc[p]) /\ proc[p] # Idle
  BY BusyOrIdle DEF TypeInv, TypeOK, At, Idle, Busy, ProcState, Step
<1>2. [NoMemory EXCEPT ![s] = x] \in Memory BY NoMemoryTyped, StorePut
<1>3. v \in ProcState BY <1>2 DEF Busy, ProcState
<1>4. CommandOK(v) BY <1>1 DEF CommandOK, Busy, ProcState
<1>5. LoadedOK(v) BY DEF LoadedOK, Busy, ProcState
<1> QED BY <1>3, <1>4, <1>5, BecomeTyped DEF Loaded

LEMMA LoadTyped == ASSUME TypeInv, NEW p \in Proc, Load(p) PROVE TypeInv'
<1>1. StoreOf(p) \in Store BY DEF Load
<1>2. Busy(p) /\ proc[p].step \in StoreStep BY <1>1, StoreOfTyped DEF TypeInv, StoreStep
<1>3. memory[StoreOf(p)] \in StoreValue(StoreOf(p)) BY <1>1, StoreTyped DEF TypeInv, TypeOK
<1>4. CASE Finish(p) BY <1>4, FinishTyped, ProcStep DEF Load
<1>5. CASE Loaded(p, StoreOf(p), memory[StoreOf(p)])
  BY <1>1, <1>2, <1>3, <1>5, LoadedTyped, ProcStep DEF Load
<1> QED BY <1>4, <1>5 DEF Load

LEMMA RecountTyped == ASSUME TypeInv, NEW p \in Proc, Recount(p) PROVE TypeInv'
<1>1. Busy(p) /\ CommandOK(proc[p]) /\ proc[p] # Idle BY BusyOrIdle DEF TypeInv, TypeOK, Recount
<1>2. proc[p].step \in {"metrics", "portfolio"}
  BY <1>1 DEF CommandOK, Recount, Refreshing, StepsOf
<1>3. /\ MetricsFromFiles \in StoreValue("metrics")
      /\ PortfolioFromFiles \in StoreValue("portfolio")
  BY MetricsTyped, PortfolioTyped DEF StoreValue, TypeInv
<1>4. "metrics" \in Store /\ "portfolio" \in Store /\ proc[p].step \in StoreStep
  BY <1>2 DEF Store, StoreStep
<1>5. CASE Finish(p) BY <1>5, FinishTyped, ProcStep DEF Recount
<1>6. CASE Loaded(p, "metrics", MetricsFromFiles)
  BY <1>1, <1>3, <1>4, <1>6, LoadedTyped, ProcStep DEF Recount
<1>7. CASE Loaded(p, "portfolio", PortfolioFromFiles)
  BY <1>1, <1>3, <1>4, <1>7, LoadedTyped, ProcStep DEF Recount
<1> QED BY <1>5, <1>6, <1>7 DEF Recount

LEMMA SaveTyped == ASSUME TypeInv, NEW p \in Proc, Save(p) PROVE TypeInv'
<1>1. StoreOf(p) \in Store /\ proc[p].step \in StoreStep BY StoreStepTyped DEF Save
<1>2. Updated(p) \in StoreValue(StoreOf(p)) BY <1>1, UpdatedTyped DEF TypeInv
<1>3. memory' \in Memory BY <1>1, <1>2, StorePut DEF TypeInv, TypeOK, Save
<1>4. ProcOK(proc') BY <1>1, ProceedTyped DEF Save, StoreStep
<1>5. FilesFinite' BY DEF TypeInv, FilesFinite, Save
<1>6. torn' \subseteq TornFile BY DEF Save, TypeInv, TypeOK
<1> QED BY <1>3, <1>4, <1>5, <1>6 DEF TypeInv, TypeOK, ProcOK, Save

LEMMA HeldTyped ==
  ASSUME TypeInv, NEW p \in Proc, ~ At(p, "idle")
  PROVE  Held(p) \in Entry /\ TheSummary(p) \in Summary /\ TheReplay(p) \in Replay
<1>1. Busy(p) BY BusyOrIdle DEF TypeInv
<1>2. Held(p) \in Entry BY <1>1 DEF Busy, ProcState, Held
<1> QED BY <1>1, <1>2 DEF TheSummary, TheReplay, Summary, Replay, Entry, Busy, ProcState

LEMMA AppendTyped == ASSUME TypeInv, NEW p \in Proc, AppendLog(p) PROVE TypeInv'
<1>1. ~ At(p, "idle") BY DEF AppendLog, At
<1>2. ProcOK(proc') BY <1>1, ProceedTyped DEF AppendLog, At
<1>3. log' \in Seq(Entry) BY <1>1, HeldTyped DEF TypeInv, TypeOK, AppendLog
<1>4. glued' \subseteq Nat
  <2>1. Len(log) \in Nat BY DEF TypeInv, TypeOK
  <2> QED BY <2>1 DEF AppendLog, TypeInv, TypeOK
<1>5. FilesFinite' BY DEF TypeInv, FilesFinite, AppendLog
<1> QED BY <1>2, <1>3, <1>4, <1>5 DEF TypeInv, TypeOK, ProcOK, AppendLog

LEMMA NewlineTyped == ASSUME TypeInv, NEW p \in Proc, Newline(p) PROVE TypeInv'
<1>1. ~ At(p, "idle") BY DEF Newline, At
<1>2. ProcOK(proc') BY <1>1, ProceedTyped DEF Newline, At
<1>3. FilesFinite' BY DEF TypeInv, FilesFinite, Newline
<1> QED BY <1>2, <1>3 DEF TypeInv, TypeOK, ProcOK, Newline

LEMMA StoreMutationTyped == ASSUME TypeInv, NEW p \in Proc, StoreMutation(p) PROVE TypeInv'
<1>1. ~ At(p, "idle") BY DEF StoreMutation, At
<1>2. ProcOK(proc') BY <1>1, ProceedTyped DEF StoreMutation, At
<1>3. mutations' \subseteq Nat
  BY <1>1, HeldTyped DEF TypeInv, TypeOK, StoreMutation, Entry
<1>4. FilesFinite' BY DEF TypeInv, FilesFinite, StoreMutation
<1> QED BY <1>2, <1>3, <1>4 DEF TypeInv, TypeOK, ProcOK, StoreMutation

LEMMA StoreSummaryTyped == ASSUME TypeInv, NEW p \in Proc, StoreSummary(p) PROVE TypeInv'
<1>1. ~ At(p, "idle") BY DEF StoreSummary, At
<1>2. ProcOK(proc') BY <1>1, ProceedTyped DEF StoreSummary, At
<1>3. summaries' \subseteq Summary BY <1>1, HeldTyped DEF TypeInv, TypeOK, StoreSummary
<1>4. FilesFinite' BY FS_AddElement DEF TypeInv, FilesFinite, StoreSummary
<1> QED BY <1>2, <1>3, <1>4 DEF TypeInv, TypeOK, ProcOK, StoreSummary

LEMMA WithReplayTyped ==
  ASSUME TypeInv, NEW p \in Proc, ~ At(p, "idle")
  PROVE  WithReplay(p) \subseteq Replay /\ IsFiniteSet(WithReplay(p))
<1>1. TheReplay(p) \in Replay BY HeldTyped
<1>2. IsFiniteSet({r \in replays : r.run # Held(p).run})
  BY FS_Subset DEF TypeInv, FilesFinite
<1> QED BY <1>1, <1>2, FS_AddElement DEF WithReplay, TypeInv, TypeOK

LEMMA StoreReplayTyped == ASSUME TypeInv, NEW p \in Proc, StoreReplay(p) PROVE TypeInv'
<1>1. ~ At(p, "idle") BY DEF StoreReplay, At
<1>2. ProcOK(proc') BY <1>1, ProceedTyped DEF StoreReplay, At
<1>3. replays' \subseteq Replay /\ FilesFinite'
  BY <1>1, WithReplayTyped DEF TypeInv, FilesFinite, StoreReplay
<1>4. torn' \subseteq TornFile BY DEF StoreReplay, TypeInv, TypeOK
<1> QED BY <1>2, <1>3, <1>4 DEF TypeInv, TypeOK, ProcOK, StoreReplay

LEMMA CrashTyped == ASSUME TypeInv, NEW p \in Proc, Crash(p) PROVE TypeInv'
<1>1. ~ At(p, "idle") /\ Busy(p) BY BusyOrIdle DEF Crash, TypeInv
<1>2. ProcOK(proc') BY FinishTyped DEF Crash
<1>3. abandoned' \subseteq Nat /\ deaths' \in Nat
  <2>1. proc[p].serial \in Nat BY <1>1 DEF Busy, ProcState
  <2>2. abandoned \subseteq Nat /\ deaths \in Nat BY DEF TypeInv, TypeOK
  <2>3. abandoned' = abandoned \cup {proc[p].serial} /\ deaths' = deaths + 1 BY DEF Crash
  <2>4. deaths' \in Nat BY <2>2, <2>3
  <2>5. abandoned' \subseteq Nat BY <2>1, <2>2, <2>3
  <2> QED BY <2>4, <2>5
<1>4. Held(p).run \in Nat BY <1>1, HeldTyped DEF Entry
<1>5. torn' \subseteq TornFile
  <2>1. proc[p].loaded => <<StoreOf(p), 0>> \in TornFile BY <1>1, StoreStepTyped DEF TornFile
  <2>2. <<"summary", Held(p).run>> \in TornFile BY <1>4 DEF TornFile
  <2>3. <<"replay", Held(p).run>> \in TornFile BY <1>4 DEF TornFile
  <2>4. torn \subseteq TornFile BY DEF TypeInv, TypeOK
  <2> QED BY <2>1, <2>2, <2>3, <2>4 DEF Crash
<1>6. summaries' \subseteq Summary /\ replays' \subseteq Replay
  BY <1>1, HeldTyped, WithReplayTyped DEF Crash, TypeInv, TypeOK
<1>7. FilesFinite'
  BY <1>1, WithReplayTyped, FS_AddElement DEF Crash, TypeInv, FilesFinite
<1> QED BY <1>2, <1>3, <1>5, <1>6, <1>7 DEF TypeInv, TypeOK, ProcOK, Crash

LEMMA TypeStep == TypeInv /\ [Next]_vars => TypeInv'
<1> SUFFICES ASSUME TypeInv, [Next]_vars PROVE TypeInv' OBVIOUS
<1>1. CASE UNCHANGED vars
  <2>1. ProcOK(proc') BY <1>1 DEF vars, TypeInv, TypeOK, ProcOK
  <2> QED BY <1>1, <2>1, ProcStep DEF vars
<1>2. CASE Next
  <2>1. PICK p \in Proc :
          \/ \E d \in Digest, t \in Pattern : BeginCycle(p, d, t) \/ BeginRejected(p, d, t)
          \/ \E s \in summaries : BeginReplay(p, s) \/ BeginPromotion(p, s)
          \/ BeginRefresh(p)
          \/ Copy(p) \/ Trial(p) \/ Destroy(p)
          \/ Load(p) \/ Recount(p) \/ Save(p)
          \/ AppendLog(p) \/ Newline(p)
          \/ StoreMutation(p) \/ StoreSummary(p) \/ StoreReplay(p)
          \/ Crash(p)
    BY <1>2 DEF Next
  <2>2. CASE \E d \in Digest, t \in Pattern : BeginCycle(p, d, t) \/ BeginRejected(p, d, t)
    BY <2>2, CyclesTyped
  <2>3. CASE \E s \in summaries : BeginReplay(p, s) \/ BeginPromotion(p, s)
    BY <2>3, CandidatesTyped
  <2>4. CASE BeginRefresh(p) BY <2>4, RefreshTyped
  <2>5. CASE Copy(p) \/ Trial(p) \/ Destroy(p) BY <2>5, CopyTyped, TrialTyped, DestroyTyped
  <2>6. CASE Load(p) \/ Recount(p) \/ Save(p) BY <2>6, LoadTyped, RecountTyped, SaveTyped
  <2>7. CASE AppendLog(p) \/ Newline(p) BY <2>7, AppendTyped, NewlineTyped
  <2>8. CASE StoreMutation(p) \/ StoreSummary(p) \/ StoreReplay(p)
    BY <2>8, StoreMutationTyped, StoreSummaryTyped, StoreReplayTyped
  <2>9. CASE Crash(p) BY <2>9, CrashTyped
  <2> QED BY <2>1, <2>2, <2>3, <2>4, <2>5, <2>6, <2>7, <2>8, <2>9
<1> QED BY <1>1, <1>2

(* Every reachable state has the types of TypeOK (evolution_loop.rs and the files it
   writes), whatever commands begin, overlap or die. *)
THEOREM TypeCorrect == Spec => []TypeOK
<1>1. TypeInv => TypeOK BY DEF TypeInv
<1>2. Spec => []TypeInv BY InitTyped, TypeStep, PTL DEF Spec
<1> QED BY <1>1, <1>2, PTL

-----------------------------------------------------------------------------
(* Sandboxes *)

(* What a step of one command leaves of the others. *)
LEMMA OthersStay ==
  ASSUME TypeInv, NEW p \in Proc, NEW v, Become(p, v)
  PROVE  proc'[p] = v /\ \A q \in Proc \ {p} : proc'[q] = proc[q]
  BY DEF Become, TypeInv, TypeOK

AtWork(q, n) == proc[q].step \in {"trial", "destroy"} /\ proc[q].serial = n

(* A step of a command outside its sandbox takes no sandbox's command away. *)
LEMMA WorkStays ==
  ASSUME TypeInv, NEW p \in Proc, NEW v, Become(p, v), SandboxesAccounted,
         proc[p].step \notin {"trial", "destroy"},
         UNCHANGED <<sandboxes, abandoned>>
  PROVE  SandboxesAccounted'
<1>1. ASSUME NEW n \in sandboxes \ abandoned
      PROVE  \E q \in Proc : AtWork(q, n)'
  <2>1. PICK q \in Proc : AtWork(q, n) BY DEF SandboxesAccounted, AtWork
  <2>2. q # p BY <2>1 DEF AtWork
  <2> QED BY <2>1, <2>2, OthersStay DEF AtWork
<1> QED BY <1>1 DEF SandboxesAccounted, AtWork

LEMMA ProceedBecomes ==
  ASSUME NEW p, Proceed(p)
  PROVE  \E v : Become(p, v)
  BY DEF Proceed, Finish

LEMMA WorkStep == TypeInv /\ SandboxesAccounted /\ [Next]_vars => SandboxesAccounted'
<1> SUFFICES ASSUME TypeInv, SandboxesAccounted, [Next]_vars PROVE SandboxesAccounted'
  OBVIOUS
<1>1. CASE UNCHANGED vars BY <1>1 DEF vars, SandboxesAccounted
<1>2. ASSUME NEW p \in Proc, NEW cmd, NEW step, NEW e, Begin(p, cmd, step, e)
      PROVE  SandboxesAccounted'
  BY <1>2, WorkStays DEF Begin, At
<1>3. ASSUME NEW p \in Proc, Copy(p) PROVE SandboxesAccounted'
  <2>1. Busy(p) BY <1>3, BusyOrIdle DEF TypeInv, Copy, At
  <2>2. CASE Finish(p) /\ abandoned' = abandoned \cup {proc[p].serial}
    <3>1. ASSUME NEW n \in sandboxes' \ abandoned' PROVE \E q \in Proc : AtWork(q, n)'
      <4>1. n \in sandboxes \ abandoned BY <1>3, <2>2, <3>1 DEF Copy
      <4>2. PICK q \in Proc : AtWork(q, n) BY <4>1 DEF SandboxesAccounted, AtWork
      <4>3. q # p BY <4>2, <1>3 DEF AtWork, Copy, At
      <4> QED BY <4>2, <4>3, <2>2, OthersStay DEF AtWork, Finish
    <3> QED BY <3>1 DEF SandboxesAccounted, AtWork
  <2>3. CASE /\ Go(p, "trial") /\ UNCHANGED abandoned
             /\ sandboxes' = sandboxes \cup {proc[p].serial}
    <3>1. proc'[p].step = "trial" /\ proc'[p].serial = proc[p].serial
      BY <2>1, <2>3, OthersStay DEF Go, Busy, ProcState
    <3>2. ASSUME NEW n \in sandboxes' \ abandoned' PROVE \E q \in Proc : AtWork(q, n)'
      <4>1. CASE n = proc[p].serial BY <3>1, <4>1 DEF AtWork
      <4>2. CASE n # proc[p].serial
        <5>1. PICK q \in Proc : AtWork(q, n) BY <2>3, <3>2, <4>2 DEF SandboxesAccounted, AtWork
        <5>2. q # p BY <5>1, <1>3 DEF AtWork, Copy, At
        <5> QED BY <5>1, <5>2, <2>3, OthersStay DEF AtWork, Go
      <4> QED BY <4>1, <4>2
    <3> QED BY <3>2 DEF SandboxesAccounted, AtWork
  <2> QED BY <1>3, <2>2, <2>3 DEF Copy
<1>4. ASSUME NEW p \in Proc, Trial(p) PROVE SandboxesAccounted'
  <2>1. Busy(p) BY <1>4, BusyOrIdle DEF TypeInv, Trial, At
  <2>2. proc'[p].step = "destroy" /\ proc'[p].serial = proc[p].serial
        /\ \A q \in Proc \ {p} : proc'[q] = proc[q]
    <3>1. CASE Go(p, "destroy") BY <3>1, <2>1, OthersStay DEF Go, Busy, ProcState
    <3>2. ASSUME NEW g, NEW t, NEW m,
                 Become(p, [proc[p] EXCEPT !.step = "destroy", !.tried = t, !.matches = m,
                                           !.entry.gates = g])
          PROVE  /\ proc'[p].step = "destroy" /\ proc'[p].serial = proc[p].serial
                 /\ \A q \in Proc \ {p} : proc'[q] = proc[q]
      <4> DEFINE v == [proc[p] EXCEPT !.step = "destroy", !.tried = t, !.matches = m,
                                      !.entry.gates = g]
      <4>1. v.step = "destroy" /\ v.serial = proc[p].serial BY <2>1 DEF Busy, ProcState
      <4>2. Become(p, v) BY <3>2
      <4> HIDE DEF v
      <4> QED BY <4>1, <4>2, OthersStay
    <3> QED BY <1>4, <3>1, <3>2 DEF Trial
  <2>3. ASSUME NEW n, NEW q \in Proc, AtWork(q, n) PROVE AtWork(q, n)'
    BY <2>2, <2>3 DEF AtWork
  <2> QED BY <1>4, <2>3 DEF SandboxesAccounted, AtWork, Trial
<1>5. ASSUME NEW p \in Proc, Destroy(p) PROVE SandboxesAccounted'
  <2>1. \A q \in Proc \ {p} : proc'[q] = proc[q]
    BY <1>5, OthersStay DEF Destroy, Finish
  <2>2. ASSUME NEW n \in sandboxes' \ abandoned' PROVE \E q \in Proc : AtWork(q, n)'
    <3>1. n \in sandboxes \ abandoned /\ n # proc[p].serial BY <1>5, <2>2 DEF Destroy
    <3>2. PICK q \in Proc : AtWork(q, n) BY <3>1 DEF SandboxesAccounted, AtWork
    <3>3. q # p BY <3>1, <3>2 DEF AtWork
    <3> QED BY <2>1, <3>2, <3>3 DEF AtWork
  <2> QED BY <2>2 DEF SandboxesAccounted, AtWork
<1>6. ASSUME NEW p \in Proc, Crash(p) PROVE SandboxesAccounted'
  <2>1. ASSUME NEW n \in sandboxes' \ abandoned' PROVE \E q \in Proc : AtWork(q, n)'
    <3>1. n \in sandboxes \ abandoned /\ n # proc[p].serial BY <1>6, <2>1 DEF Crash
    <3>2. PICK q \in Proc : AtWork(q, n) BY <3>1 DEF SandboxesAccounted, AtWork
    <3>3. q # p BY <3>1, <3>2 DEF AtWork
    <3> QED BY <1>6, <3>2, <3>3, OthersStay DEF AtWork, Crash, Finish
  <2> QED BY <2>1 DEF SandboxesAccounted, AtWork
<1>7. ASSUME NEW p \in Proc, Load(p) \/ Recount(p) PROVE SandboxesAccounted'
  <2>1. proc[p].step \notin {"trial", "destroy"}
    <3>1. CASE Load(p) BY <3>1, StoreOfTyped DEF Load, TypeInv
    <3>2. CASE Recount(p)
      <4>1. CommandOK(proc[p]) /\ proc[p] # Idle
        BY <3>2, BusyOrIdle DEF TypeInv, TypeOK, Recount
      <4>2. proc[p].step \in {"metrics", "portfolio"}
        BY <4>1, <3>2 DEF CommandOK, Recount, Refreshing, StepsOf
      <4> QED BY <4>2
    <3> QED BY <1>7, <3>1, <3>2
  <2>2. \E v : Become(p, v) BY <1>7 DEF Load, Recount, Finish, Loaded
  <2> QED BY <1>7, <2>1, <2>2, WorkStays DEF Load, Recount
<1>8. ASSUME NEW p \in Proc, Save(p) PROVE SandboxesAccounted'
  <2>1. proc[p].step \notin {"trial", "destroy"} BY <1>8, StoreStepTyped DEF Save, StoreStep
  <2>2. \E v : Become(p, v) BY <1>8, ProceedBecomes DEF Save
  <2> QED BY <1>8, <2>1, <2>2, WorkStays DEF Save
<1>9. ASSUME NEW p \in Proc,
             \/ AppendLog(p) \/ Newline(p) \/ StoreMutation(p) \/ StoreSummary(p) \/ StoreReplay(p)
      PROVE  SandboxesAccounted'
  <2>1. /\ proc[p].step \notin {"trial", "destroy"} /\ Proceed(p)
        /\ UNCHANGED <<sandboxes, abandoned>>
    BY <1>9 DEF AppendLog, Newline, StoreMutation, StoreSummary, StoreReplay, At
  <2>2. \E v : Become(p, v) BY <2>1, ProceedBecomes
  <2> QED BY <2>1, <2>2, WorkStays
<1>10. CASE Next
  BY <1>10, <1>2, <1>3, <1>4, <1>5, <1>6, <1>7, <1>8, <1>9
     DEF Next, BeginCycle, BeginRejected, BeginReplay, BeginPromotion, BeginRefresh
<1> QED BY <1>1, <1>10

(* No outcome of a trial leaks a sandbox (run_evolution_cycle_with_mutation,
   replay_candidate): what is below sandboxes/ is in use, or a command died in it or could not
   copy or remove it. *)
THEOREM NoTrialLeaks == Spec => []SandboxesAccounted
<1>1. Init => SandboxesAccounted BY DEF Init, SandboxesAccounted
<1>2. Spec => []TypeInv BY InitTyped, TypeStep, PTL DEF Spec
<1> QED BY <1>1, <1>2, WorkStep, PTL DEF Spec
-----------------------------------------------------------------------------

-----------------------------------------------------------------------------
(* What commands hold between their steps *)

Storing == {"newline", "mutation", "summary"}

(* A command that stores a candidate has its entry in the log; at the summary it has the
   mutation too; what is replayed is on offer. *)
HeldOK(v) ==
  /\ v.step \in Storing => \E i \in DOMAIN log : log[i] = v.entry
  /\ v.step \in {"mutation", "summary"} => Stored(v.entry)
  /\ v.step = "summary" => v.entry.run \in mutations
  /\ v # Idle /\ v.cmd = "replay" => OfferedRun(v.entry.run)

OfferInv == OffersAreBacked /\ \A p \in Proc : HeldOK(proc[p])

Grown == /\ mutations \subseteq mutations' /\ summaries \subseteq summaries'
         /\ \A i \in DOMAIN log : i \in DOMAIN log' /\ log'[i] = log[i]

LEMMA HeldStays ==
  ASSUME Grown, NEW v, HeldOK(v)
  PROVE  /\ v.step \in Storing => \E i \in DOMAIN log' : log'[i] = v.entry
         /\ v.step \in {"mutation", "summary"} => Stored(v.entry)
         /\ v.step = "summary" => v.entry.run \in mutations'
         /\ v # Idle /\ v.cmd = "replay" => OfferedRun(v.entry.run)'
<1>1. v.step \in Storing => \E i \in DOMAIN log' : log'[i] = v.entry BY DEF HeldOK, Grown
<1>2. v.step = "summary" => v.entry.run \in mutations' BY DEF HeldOK, Grown
<1>3. v # Idle /\ v.cmd = "replay" => OfferedRun(v.entry.run)' BY DEF HeldOK, Grown, OfferedRun
<1> QED BY <1>1, <1>2, <1>3 DEF HeldOK

(* The files grow, the new offers are backed and the command holds what it should. *)
LEMMA OneStep ==
  ASSUME TypeInv, OfferInv, NEW p \in Proc, NEW v, Become(p, v), Grown,
         \A s \in summaries' \ summaries :
            /\ s.run \in mutations'
            /\ \E i \in DOMAIN log' : /\ log'[i].run = s.run /\ log'[i].digest = s.digest
                                      /\ Status(log'[i]) = "candidate",
         v.step \in Storing => \E i \in DOMAIN log' : log'[i] = v.entry,
         v.step \in {"mutation", "summary"} => Stored(v.entry),
         v.step = "summary" => v.entry.run \in mutations',
         v # Idle /\ v.cmd = "replay" => OfferedRun(v.entry.run)'
  PROVE  OfferInv'
<1>1. ASSUME NEW q \in Proc PROVE HeldOK(proc[q])'
  <2>1. CASE q = p
    <3>1. proc'[q] = v BY <2>1, OthersStay
    <3> QED BY <3>1 DEF HeldOK
  <2>2. CASE q # p
    <3>1. proc'[q] = proc[q] BY <2>2, OthersStay
    <3>2. HeldOK(proc[q]) BY DEF OfferInv
    <3> QED BY <3>1, <3>2, HeldStays DEF HeldOK
  <2> QED BY <2>1, <2>2
<1>2. ASSUME NEW s \in summaries'
      PROVE  /\ s.run \in mutations'
             /\ \E i \in DOMAIN log' : /\ log'[i].run = s.run /\ log'[i].digest = s.digest
                                       /\ Status(log'[i]) = "candidate"
  <2>1. CASE s \in summaries
    <3>1. s.run \in mutations BY <2>1 DEF OfferInv, OffersAreBacked
    <3>2. PICK i \in DOMAIN log : /\ log[i].run = s.run /\ log[i].digest = s.digest
                                  /\ Status(log[i]) = "candidate"
      BY <2>1 DEF OfferInv, OffersAreBacked
    <3>3. i \in DOMAIN log' /\ log'[i] = log[i] BY DEF Grown
    <3>4. /\ log'[i].run = s.run /\ log'[i].digest = s.digest
          /\ Status(log'[i]) = "candidate"
      BY <3>2, <3>3
    <3> QED BY <3>1, <3>3, <3>4 DEF Grown
  <2> QED BY <2>1
<1>3. OffersAreBacked' BY <1>2 DEF OffersAreBacked
<1> QED BY <1>1, <1>3 DEF OfferInv

(* A step to a place outside Storing that offers nothing new. *)
LEMMA QuietStep ==
  ASSUME TypeInv, OfferInv, NEW p \in Proc, NEW v, Become(p, v), Grown, summaries' = summaries,
         v.step \notin Storing,
         v # Idle /\ v.cmd = "replay" => OfferedRun(v.entry.run)
  PROVE  OfferInv'
<1>1. v # Idle /\ v.cmd = "replay" => OfferedRun(v.entry.run)' BY DEF OfferedRun
<1> QED BY <1>1, OneStep DEF Storing

LEMMA IdleQuiet == Idle.step \notin Storing
  BY DEF Idle, Storing

(* A command that goes on keeps what it is about. *)
LEMMA ProceedKeeps ==
  ASSUME TypeInv, NEW p \in Proc, ~ At(p, "idle"), Proceed(p)
  PROVE  \E v : /\ Become(p, v)
                /\ \/ v = Idle
                   \/ /\ v.step = NextStep(p) /\ v.cmd = proc[p].cmd
                      /\ v.entry = proc[p].entry /\ v.loaded = FALSE /\ v # Idle
<1>1. Busy(p) BY BusyOrIdle DEF TypeInv
<1>2. CASE NextStep(p) = "idle" BY <1>2 DEF Proceed, Finish
<1>3. CASE NextStep(p) # "idle"
  <2> DEFINE v == [proc[p] EXCEPT !.step = NextStep(p), !.loaded = FALSE, !.copy = NoMemory]
  <2>1. /\ v.step = NextStep(p) /\ v.cmd = proc[p].cmd /\ v.entry = proc[p].entry
        /\ v.loaded = FALSE
    BY <1>1 DEF Busy, ProcState
  <2>2. v.step # "idle" BY <1>3, <2>1
  <2>3. v # Idle BY <2>2 DEF Idle
  <2>4. Become(p, v) BY <1>3 DEF Proceed
  <2> HIDE DEF v
  <2> QED BY <2>1, <2>3, <2>4
<1> QED BY <1>2, <1>3

LEMMA NothingGrew == ASSUME UNCHANGED <<log, mutations, summaries>> PROVE Grown
  BY DEF Grown

(* Where a command goes from a step that is not about candidates. *)
LEMMA QuietNext ==
  ASSUME NEW p, proc[p].step \notin {"append", "newline", "mutation"}
  PROVE  NextStep(p) \notin Storing
  BY DEF NextStep, At, Storing

LEMMA QuietProceed ==
  ASSUME TypeInv, OfferInv, NEW p \in Proc, ~ At(p, "idle"), Proceed(p),
         proc[p].step \notin {"append", "newline", "mutation"},
         UNCHANGED <<log, mutations, summaries>>
  PROVE  OfferInv'
<1>1. PICK v : /\ Become(p, v)
               /\ \/ v = Idle
                  \/ /\ v.step = NextStep(p) /\ v.cmd = proc[p].cmd
                     /\ v.entry = proc[p].entry /\ v # Idle
  BY ProceedKeeps
<1>2. v.step \notin Storing BY <1>1, QuietNext, IdleQuiet
<1>3. HeldOK(proc[p]) /\ proc[p] # Idle BY BusyOrIdle DEF OfferInv, TypeInv
<1>4. v # Idle /\ v.cmd = "replay" => OfferedRun(v.entry.run) BY <1>1, <1>3 DEF HeldOK
<1> QED BY <1>1, <1>2, <1>4, QuietStep, NothingGrew

-----------------------------------------------------------------------------
(* One lemma per kind of step *)

LEMMA BeginOffers ==
  ASSUME TypeInv, OfferInv, NEW p \in Proc, NEW cmd, NEW step, NEW e,
         Begin(p, cmd, step, e), step \notin Storing,
         cmd = "replay" => OfferedRun(e.run)
  PROVE  OfferInv'
<1> DEFINE v == Started(cmd, step, e)
<1>1. v.step = step /\ v.cmd = cmd /\ v.entry = e BY DEF Started
<1>2. Become(p, v) /\ UNCHANGED <<log, mutations, summaries>> BY DEF Begin
<1> HIDE DEF v
<1> QED BY <1>1, <1>2, QuietStep, NothingGrew

LEMMA BeginsOffer ==
  ASSUME TypeInv, OfferInv, NEW p \in Proc,
         \/ \E d \in Digest, t \in Pattern : BeginCycle(p, d, t) \/ BeginRejected(p, d, t)
         \/ \E s \in summaries : BeginReplay(p, s) \/ BeginPromotion(p, s)
         \/ BeginRefresh(p)
  PROVE  OfferInv'
<1>1. ASSUME NEW d \in Digest, NEW t \in Pattern, BeginCycle(p, d, t) PROVE OfferInv'
  BY <1>1, BeginOffers DEF BeginCycle, Storing
<1>2. ASSUME NEW d \in Digest, NEW t \in Pattern, BeginRejected(p, d, t) PROVE OfferInv'
  BY <1>2, BeginOffers DEF BeginRejected, Storing
<1>3. ASSUME NEW s \in summaries, BeginReplay(p, s) PROVE OfferInv'
  <2> DEFINE e == [NewEntry(s.digest, NoPattern) EXCEPT !.run = s.run, !.gates = s.gates]
  <2>1. e.run = s.run BY DEF NewEntry
  <2>2. OfferedRun(e.run) BY <2>1 DEF OfferedRun
  <2>3. Begin(p, "replay", "copy", e) BY <1>3 DEF BeginReplay
  <2> HIDE DEF e
  <2> QED BY <2>2, <2>3, BeginOffers DEF Storing
<1>4. ASSUME NEW s \in summaries, BeginPromotion(p, s) PROVE OfferInv'
  <2>1. \E e : Begin(p, "promotion", "append", e) BY <1>4 DEF BeginPromotion
  <2> QED BY <2>1, BeginOffers DEF Storing
<1>5. CASE BeginRefresh(p) BY <1>5, BeginOffers DEF BeginRefresh, Storing
<1> QED BY <1>1, <1>2, <1>3, <1>4, <1>5

(* A command becomes another that is about the same, or ends. *)
LEMMA SameCommand ==
  ASSUME TypeInv, OfferInv, NEW p \in Proc, ~ At(p, "idle"), NEW v, Become(p, v),
         v.cmd = proc[p].cmd, v.entry.run = proc[p].entry.run, v.step \notin Storing,
         UNCHANGED <<log, mutations, summaries>>
  PROVE  OfferInv'
<1>1. HeldOK(proc[p]) /\ proc[p] # Idle BY BusyOrIdle DEF OfferInv, TypeInv
<1>2. v.cmd = "replay" => OfferedRun(v.entry.run) BY <1>1 DEF HeldOK
<1> QED BY <1>2, QuietStep, NothingGrew

LEMMA EndOffers ==
  ASSUME TypeInv, OfferInv, NEW p \in Proc, Finish(p), UNCHANGED <<log, mutations, summaries>>
  PROVE  OfferInv'
  BY QuietStep, IdleQuiet, NothingGrew DEF Finish

LEMMA TrialOffers ==
  ASSUME TypeInv, OfferInv, NEW p \in Proc, Copy(p) \/ Trial(p) \/ Destroy(p)
  PROVE  OfferInv'
<1>1. ~ At(p, "idle") /\ Busy(p) /\ UNCHANGED <<log, mutations, summaries>>
  <2>1. ~ At(p, "idle") BY DEF Copy, Trial, Destroy, At
  <2> QED BY <2>1, BusyOrIdle DEF TypeInv, Copy, Trial, Destroy
<1>2. CASE Finish(p) BY <1>1, <1>2, EndOffers
<1>3. ASSUME NEW step \in {"trial", "destroy"}, Go(p, step) PROVE OfferInv'
  <2> DEFINE v == [proc[p] EXCEPT !.step = step]
  <2>1. v.cmd = proc[p].cmd /\ v.entry = proc[p].entry /\ v.step = step
    BY <1>1 DEF Busy, ProcState
  <2>2. Become(p, v) BY <1>3 DEF Go
  <2> HIDE DEF v
  <2> QED BY <1>1, <2>1, <2>2, SameCommand DEF Storing
<1>4. ASSUME NEW t, NEW m, NEW g,
             Become(p, [proc[p] EXCEPT !.step = "destroy", !.tried = t, !.matches = m,
                                       !.entry.gates = g])
      PROVE  OfferInv'
  <2> DEFINE v == [proc[p] EXCEPT !.step = "destroy", !.tried = t, !.matches = m,
                                  !.entry.gates = g]
  <2>1. v.cmd = proc[p].cmd /\ v.entry.run = proc[p].entry.run /\ v.step = "destroy"
    BY <1>1 DEF Busy, ProcState, Entry
  <2>2. Become(p, v) BY <1>4
  <2> HIDE DEF v
  <2> QED BY <1>1, <2>1, <2>2, SameCommand DEF Storing
<1>5. ASSUME NEW b, NEW step \in {"metrics", "dedup"},
             Become(p, [proc[p] EXCEPT !.step = step, !.entry.destroyed = b])
      PROVE  OfferInv'
  <2> DEFINE v == [proc[p] EXCEPT !.step = step, !.entry.destroyed = b]
  <2>1. v.cmd = proc[p].cmd /\ v.entry.run = proc[p].entry.run /\ v.step = step
    BY <1>1 DEF Busy, ProcState, Entry
  <2>2. Become(p, v) BY <1>5
  <2> HIDE DEF v
  <2> QED BY <1>1, <2>1, <2>2, SameCommand DEF Storing
<1>6. CASE Copy(p) BY <1>2, <1>3, <1>6 DEF Copy
<1>7. CASE Trial(p)
  <2>1. CASE Go(p, "destroy") BY <1>3, <2>1
  <2>2. CASE ~ Go(p, "destroy") BY <1>4, <1>7, <2>2 DEF Trial
  <2> QED BY <2>1, <2>2
<1>8. CASE Destroy(p) BY <1>2, <1>5, <1>8 DEF Destroy
<1> QED BY <1>6, <1>7, <1>8

LEMMA StoreOffers ==
  ASSUME TypeInv, OfferInv, NEW p \in Proc, Load(p) \/ Recount(p) \/ Save(p)
  PROVE  OfferInv'
<1>1. UNCHANGED <<log, mutations, summaries>> BY DEF Load, Recount, Save
<1>2. /\ ~ At(p, "idle") /\ Busy(p) /\ proc[p].step \in StoreStep
  <2>1. CASE Load(p)
    <3>1. StoreOf(p) \in Store BY <2>1 DEF Load
    <3>2. Busy(p) /\ proc[p].step \in StoreStep BY <3>1, StoreOfTyped DEF TypeInv, StoreStep
    <3> QED BY <3>2 DEF At, StoreStep
  <2>2. CASE Recount(p)
    <3>1. /\ ~ At(p, "idle") /\ Busy(p) /\ CommandOK(proc[p]) /\ proc[p] # Idle
      BY <2>2, BusyOrIdle DEF TypeInv, TypeOK, Recount
    <3>2. proc[p].step \in {"metrics", "portfolio"}
      BY <2>2, <3>1 DEF CommandOK, Recount, Refreshing, StepsOf
    <3> QED BY <3>1, <3>2 DEF StoreStep
  <2>3. CASE Save(p) BY <2>3, StoreStepTyped, BusyOrIdle DEF TypeInv, Save
  <2> QED BY <2>1, <2>2, <2>3
<1>3. CASE Finish(p) BY <1>1, <1>3, EndOffers
<1>4. ASSUME NEW s, NEW x, Loaded(p, s, x) PROVE OfferInv'
  <2> DEFINE v == [proc[p] EXCEPT !.loaded = TRUE, !.copy = [NoMemory EXCEPT ![s] = x]]
  <2>1. v.cmd = proc[p].cmd /\ v.entry = proc[p].entry /\ v.step = proc[p].step
    BY <1>2 DEF Busy, ProcState
  <2>2. Become(p, v) BY <1>4 DEF Loaded
  <2> HIDE DEF v
  <2> QED BY <1>1, <1>2, <2>1, <2>2, SameCommand DEF Storing, StoreStep
<1>5. CASE Load(p) BY <1>3, <1>4, <1>5 DEF Load
<1>6. CASE Recount(p) BY <1>3, <1>4, <1>6 DEF Recount
<1>7. CASE Save(p) BY <1>1, <1>2, <1>7, QuietProceed DEF Save, StoreStep
<1> QED BY <1>5, <1>6, <1>7

LEMMA AppendOffers == ASSUME TypeInv, OfferInv, NEW p \in Proc, AppendLog(p) PROVE OfferInv'
<1>1. ~ At(p, "idle") /\ NextStep(p) = "newline" BY DEF AppendLog, At, NextStep
<1>2. PICK v : /\ Become(p, v)
               /\ \/ v = Idle
                  \/ /\ v.step = "newline" /\ v.cmd = proc[p].cmd
                     /\ v.entry = Held(p) /\ v # Idle
  BY <1>1, ProceedKeeps DEF AppendLog, Held
<1>3. log' = Append(log, Held(p)) /\ log \in Seq(Entry) /\ Held(p) \in Entry
  BY <1>1, HeldTyped DEF AppendLog, TypeInv, TypeOK
<1>4. Len(log) + 1 \in DOMAIN log' /\ log'[Len(log) + 1] = Held(p) BY <1>3
<1>5. \A i \in DOMAIN log : i \in DOMAIN log' /\ log'[i] = log[i] BY <1>3
<1>6. Grown /\ summaries' = summaries BY <1>5 DEF Grown, AppendLog
<1>7. HeldOK(proc[p]) /\ proc[p] # Idle BY <1>1, BusyOrIdle DEF OfferInv, TypeInv
<1>8. v # Idle /\ v.cmd = "replay" => OfferedRun(v.entry.run)'
  BY <1>2, <1>6, <1>7 DEF HeldOK, OfferedRun, Held
<1>9. v.step \in Storing => \E i \in DOMAIN log' : log'[i] = v.entry
  BY <1>2, <1>4, IdleQuiet
<1>10. v.step \notin {"mutation", "summary"} BY <1>2, IdleQuiet DEF Storing
<1> QED BY <1>2, <1>6, <1>8, <1>9, <1>10, OneStep

LEMMA NewlineOffers == ASSUME TypeInv, OfferInv, NEW p \in Proc, Newline(p) PROVE OfferInv'
<1>1. ~ At(p, "idle") /\ proc[p].step = "newline" BY DEF Newline, At
<1>2. NextStep(p) \in {"newline", "mutation", "summary"} => NextStep(p) = "mutation" /\ Stored(Held(p))
  BY <1>1 DEF NextStep, At
<1>3. PICK v : /\ Become(p, v)
               /\ \/ v = Idle
                  \/ /\ v.step = NextStep(p) /\ v.cmd = proc[p].cmd
                     /\ v.entry = Held(p) /\ v # Idle
  BY <1>1, ProceedKeeps DEF Newline, Held
<1>4. UNCHANGED <<log, mutations, summaries>> BY DEF Newline
<1>5. HeldOK(proc[p]) /\ proc[p] # Idle BY <1>1, BusyOrIdle DEF OfferInv, TypeInv
<1>6. v # Idle /\ v.cmd = "replay" => OfferedRun(v.entry.run)'
  BY <1>3, <1>4, <1>5 DEF HeldOK, OfferedRun, Held
<1>7. v.step \in Storing => \E i \in DOMAIN log' : log'[i] = v.entry
  <2>1. \E i \in DOMAIN log : log[i] = Held(p) BY <1>1, <1>5 DEF HeldOK, Storing, Held
  <2> QED BY <1>3, <1>4, <2>1, IdleQuiet
<1>8. v.step \in Storing => v.step = "mutation" /\ Stored(v.entry)
  BY <1>2, <1>3, IdleQuiet DEF Storing
<1> QED BY <1>3, <1>4, <1>6, <1>7, <1>8, OneStep, NothingGrew DEF Storing

LEMMA MutationOffers ==
  ASSUME TypeInv, OfferInv, NEW p \in Proc, StoreMutation(p) PROVE OfferInv'
<1>1. ~ At(p, "idle") /\ proc[p].step = "mutation" /\ NextStep(p) = "summary"
  BY DEF StoreMutation, At, NextStep
<1>2. PICK v : /\ Become(p, v)
               /\ \/ v = Idle
                  \/ /\ v.step = "summary" /\ v.cmd = proc[p].cmd
                     /\ v.entry = Held(p) /\ v # Idle
  BY <1>1, ProceedKeeps DEF StoreMutation, Held
<1>3. /\ UNCHANGED <<log, summaries>>
      /\ mutations' = mutations \cup {Held(p).run}
  BY DEF StoreMutation
<1>4. Grown BY <1>3 DEF Grown
<1>5. HeldOK(proc[p]) /\ proc[p] # Idle BY <1>1, BusyOrIdle DEF OfferInv, TypeInv
<1>6. v # Idle /\ v.cmd = "replay" => OfferedRun(v.entry.run)'
  BY <1>2, <1>3, <1>5 DEF HeldOK, OfferedRun, Held
<1>7. v.step \in Storing => \E i \in DOMAIN log' : log'[i] = v.entry
  <2>1. \E i \in DOMAIN log : log[i] = Held(p) BY <1>1, <1>5 DEF HeldOK, Storing, Held
  <2> QED BY <1>2, <1>3, <2>1, IdleQuiet
<1>8. v.step \in Storing => Stored(v.entry) /\ v.entry.run \in mutations'
  BY <1>1, <1>2, <1>3, <1>5, IdleQuiet DEF HeldOK, Held
<1> QED BY <1>2, <1>3, <1>4, <1>6, <1>7, <1>8, OneStep DEF Storing

(* What may be stored, and is no promotion, was logged as a candidate. *)
LEMMA StoredIsCandidate ==
  ASSUME NEW e \in Entry, Stored(e), e.retained = FALSE
  PROVE  Status(e) = "candidate"
<1>1. Status(e) # "failed" /\ EntryScore(e) >= 5 /\ EntryUseful(e) BY DEF Stored
<1>2. Accepted(e.gates) BY <1>1 DEF Status
<1> QED BY <1>1, <1>2 DEF Status

(* At its summary, a command's candidate is loadable and in the log. *)
LEMMA SummaryBacked ==
  ASSUME TypeInv, OfferInv, NEW p \in Proc, At(p, "summary")
  PROVE  /\ TheSummary(p).run \in mutations
         /\ \E i \in DOMAIN log : /\ log[i].run = TheSummary(p).run
                                  /\ log[i].digest = TheSummary(p).digest
                                  /\ Status(log[i]) = "candidate"
<1>1. ~ At(p, "idle") /\ proc[p].step = "summary" BY DEF At
<1>2. Busy(p) /\ proc[p] # Idle /\ CommandOK(proc[p]) /\ HeldOK(proc[p])
  BY <1>1, BusyOrIdle DEF OfferInv, TypeInv, TypeOK
<1>3. PICK i \in DOMAIN log : log[i] = Held(p) BY <1>1, <1>2 DEF HeldOK, Storing, Held
<1>4. Held(p) \in Entry BY <1>1, HeldTyped
<1>5. proc[p].cmd = "cycle"
  BY <1>1, <1>2 DEF CommandOK, StepsOf, Busy, ProcState, Command
<1>6. Held(p).retained = FALSE BY <1>2, <1>5 DEF CommandOK, Held
<1>7. Stored(Held(p)) BY <1>1, <1>2 DEF HeldOK, Held
<1>8. Status(Held(p)) = "candidate" BY <1>4, <1>6, <1>7, StoredIsCandidate
<1>9. TheSummary(p).run = Held(p).run /\ TheSummary(p).digest = Held(p).digest
  BY DEF TheSummary
<1>10. Held(p).run \in mutations BY <1>1, <1>2 DEF HeldOK, Held
<1> QED BY <1>3, <1>8, <1>9, <1>10

LEMMA SummaryOffers ==
  ASSUME TypeInv, OfferInv, NEW p \in Proc, At(p, "summary"), NEW v, Become(p, v),
         v = Idle \/ (v.cmd = proc[p].cmd /\ v.entry = Held(p) /\ v.step \notin Storing),
         summaries' = summaries \cup {TheSummary(p)}, UNCHANGED <<log, mutations>>
  PROVE  OfferInv'
<1>1. Grown BY DEF Grown
<1>2. ~ At(p, "idle") BY DEF At
<1>3. HeldOK(proc[p]) /\ proc[p] # Idle BY <1>2, BusyOrIdle DEF OfferInv, TypeInv
<1>4. v # Idle /\ v.cmd = "replay" => OfferedRun(v.entry.run)'
  BY <1>3 DEF HeldOK, OfferedRun, Held
<1>5. v.step \notin Storing BY IdleQuiet
<1>6. \A s \in summaries' \ summaries :
        /\ s.run \in mutations'
        /\ \E i \in DOMAIN log' : /\ log'[i].run = s.run /\ log'[i].digest = s.digest
                                  /\ Status(log'[i]) = "candidate"
  BY SummaryBacked
<1> QED BY <1>1, <1>4, <1>5, <1>6, OneStep DEF Storing

LEMMA StoreSummaryOffers ==
  ASSUME TypeInv, OfferInv, NEW p \in Proc, StoreSummary(p) PROVE OfferInv'
<1>1. ~ At(p, "idle") /\ NextStep(p) = "graph" BY DEF StoreSummary, At, NextStep
<1>2. PICK v : /\ Become(p, v)
               /\ \/ v = Idle
                  \/ /\ v.step = "graph" /\ v.cmd = proc[p].cmd
                     /\ v.entry = Held(p) /\ v # Idle
  BY <1>1, ProceedKeeps DEF StoreSummary, Held
<1> QED BY <1>2, SummaryOffers DEF StoreSummary, Storing

LEMMA ReplayOffers == ASSUME TypeInv, OfferInv, NEW p \in Proc, StoreReplay(p) PROVE OfferInv'
  BY QuietProceed DEF StoreReplay, At

LEMMA CrashOffers == ASSUME TypeInv, OfferInv, NEW p \in Proc, Crash(p) PROVE OfferInv'
<1>1. Become(p, Idle) /\ UNCHANGED <<log, mutations>> BY DEF Crash, Finish
<1>2. CASE summaries' = summaries BY <1>1, <1>2, EndOffers DEF Finish
<1>3. CASE At(p, "summary") /\ summaries' = summaries \cup {TheSummary(p)}
  BY <1>1, <1>3, SummaryOffers
<1> QED BY <1>2, <1>3 DEF Crash

LEMMA OfferStep == TypeInv /\ OfferInv /\ [Next]_vars => OfferInv'
<1> SUFFICES ASSUME TypeInv, OfferInv, [Next]_vars PROVE OfferInv'
  OBVIOUS
<1>1. CASE UNCHANGED vars
  BY <1>1 DEF vars, OfferInv, OffersAreBacked, HeldOK, OfferedRun
<1>2. CASE Next
  <2> PICK p \in Proc :
        \/ \E d \in Digest, t \in Pattern : BeginCycle(p, d, t) \/ BeginRejected(p, d, t)
        \/ \E s \in summaries : BeginReplay(p, s) \/ BeginPromotion(p, s)
        \/ BeginRefresh(p)
        \/ Copy(p) \/ Trial(p) \/ Destroy(p)
        \/ Load(p) \/ Recount(p) \/ Save(p)
        \/ AppendLog(p) \/ Newline(p)
        \/ StoreMutation(p) \/ StoreSummary(p) \/ StoreReplay(p)
        \/ Crash(p)
    BY <1>2 DEF Next
  <2> QED BY BeginsOffer, TrialOffers, StoreOffers, AppendOffers, NewlineOffers, MutationOffers,
             StoreSummaryOffers, ReplayOffers, CrashOffers
<1> QED BY <1>1, <1>2

LEMMA OfferInit == Init => OfferInv
<1> SUFFICES ASSUME Init PROVE OfferInv OBVIOUS
<1>1. OffersAreBacked BY DEF Init, OffersAreBacked
<1>2. ASSUME NEW p \in Proc PROVE HeldOK(proc[p])
  BY IdleQuiet DEF Init, HeldOK, Storing
<1> QED BY <1>1, <1>2 DEF OfferInv

LEMMA OfferAlways == Spec => [](TypeInv /\ OfferInv)
<1>1. Init => TypeInv /\ OfferInv BY InitTyped, OfferInit
<1>2. TypeInv /\ OfferInv /\ [Next]_vars => (TypeInv /\ OfferInv)' BY TypeStep, OfferStep
<1> QED BY <1>1, <1>2, PTL DEF Spec

(* Every candidate on offer can be loaded and is a Candidate in the log (store_candidate after
   append_jsonl), whatever commands overlap and whenever they die. *)
THEOREM OffersBacked == Spec => []OffersAreBacked
<1>1. OfferInv => OffersAreBacked BY DEF OfferInv
<1> QED BY <1>1, OfferAlways, PTL

-----------------------------------------------------------------------------
(* The refinement of CandidateStages *)

TheStages == [n \in 1..MaxCommands |-> StageOf(n)]

LEMMA StagesSame ==
  ASSUME UNCHANGED <<log, summaries, replays>>
  PROVE  TheStages' = TheStages
  BY DEF TheStages, StageOf, LoggedRun, OfferedRun, ReplayedRun

(* A step that changes the stage of one run at most, and by one. *)
LEMMA OneStage ==
  ASSUME NEW k, NEW a, NEW b, StageOf(k) = a, StageOf(k)' = b,
         TheStages' = [n \in 1..MaxCommands |-> IF n = k THEN b ELSE StageOf(n)],
         \/ a = b
         \/ a = "none" /\ b = "logged"
         \/ a = "logged" /\ b = "offered"
         \/ a = "offered" /\ b = "replayed"
  PROVE  [Stages!StagesNext]_TheStages
<1>1. CASE a = b \/ k \notin 1..MaxCommands BY <1>1 DEF TheStages
<1>2. CASE a # b /\ k \in 1..MaxCommands
  <2>1. TheStages[k] = a /\ TheStages' = [TheStages EXCEPT ![k] = b] BY <1>2 DEF TheStages
  <2>2. CASE a = "none" /\ b = "logged"
    BY <1>2, <2>1, <2>2 DEF Stages!StagesNext, Stages!LogCandidate, Stages!Advance, TheStages
  <2>3. CASE a = "logged" /\ b = "offered"
    BY <1>2, <2>1, <2>3 DEF Stages!StagesNext, Stages!Offer, Stages!Advance, TheStages
  <2>4. CASE a = "offered" /\ b = "replayed"
    BY <1>2, <2>1, <2>4 DEF Stages!StagesNext, Stages!ReplayOnce, Stages!Advance, TheStages
  <2> QED BY <1>2, <2>2, <2>3, <2>4
<1> QED BY <1>1, <1>2

LEMMA AppendStages ==
  ASSUME TypeInv, NEW p \in Proc, AppendLog(p)
  PROVE  [Stages!StagesNext]_TheStages
<1> PICK e : e = Held(p) OBVIOUS
<1>1. log' = Append(log, e) /\ log \in Seq(Entry) /\ e \in Entry /\ UNCHANGED <<summaries, replays>>
  BY HeldTyped DEF AppendLog, TypeInv, TypeOK, At
<1>2. /\ DOMAIN log' = DOMAIN log \cup {Len(log) + 1} /\ log'[Len(log) + 1] = e
      /\ \A i \in DOMAIN log : log'[i] = log[i]
  BY <1>1
<1>3. ASSUME NEW n PROVE LoggedRun(n)' <=> LoggedRun(n) \/ (n = e.run /\ Status(e) = "candidate")
  BY <1>2 DEF LoggedRun
<1>4. ASSUME NEW n PROVE (OfferedRun(n)' <=> OfferedRun(n)) /\ (ReplayedRun(n)' <=> ReplayedRun(n))
  BY <1>1 DEF OfferedRun, ReplayedRun
<1>5. ASSUME NEW n, n # e.run PROVE StageOf(n)' = StageOf(n) BY <1>3, <1>4, <1>5 DEF StageOf
<1>6. TheStages' = [n \in 1..MaxCommands |-> IF n = e.run THEN StageOf(e.run)' ELSE StageOf(n)]
  BY <1>5 DEF TheStages
<1>7. StageOf(e.run)' = StageOf(e.run) \/ (StageOf(e.run) = "none" /\ StageOf(e.run)' = "logged")
  BY <1>3, <1>4 DEF StageOf
<1> QED BY <1>6, <1>7, OneStage

LEMMA SummaryStages ==
  ASSUME TypeInv, OfferInv, NEW p \in Proc, At(p, "summary"),
         summaries' = summaries \cup {TheSummary(p)}, UNCHANGED <<log, replays>>
  PROVE  [Stages!StagesNext]_TheStages
<1> PICK k : k = TheSummary(p).run OBVIOUS
<1>1. LoggedRun(k) BY SummaryBacked DEF LoggedRun
<1>2. ASSUME NEW n PROVE OfferedRun(n)' <=> OfferedRun(n) \/ n = k BY DEF OfferedRun
<1>3. ASSUME NEW n PROVE (LoggedRun(n)' <=> LoggedRun(n)) /\ (ReplayedRun(n)' <=> ReplayedRun(n))
  BY DEF LoggedRun, ReplayedRun
<1>4. ASSUME NEW n, n # k PROVE StageOf(n)' = StageOf(n) BY <1>2, <1>3, <1>4 DEF StageOf
<1>5. TheStages' = [n \in 1..MaxCommands |-> IF n = k THEN StageOf(k)' ELSE StageOf(n)]
  BY <1>4 DEF TheStages
<1>6. StageOf(k)' = StageOf(k) \/ (StageOf(k) = "logged" /\ StageOf(k)' = "offered")
  BY <1>1, <1>2, <1>3 DEF StageOf
<1> QED BY <1>5, <1>6, OneStage

LEMMA ReplayStages ==
  ASSUME TypeInv, OfferInv, NEW p \in Proc, At(p, "replay"),
         replays' = WithReplay(p), UNCHANGED <<log, summaries>>
  PROVE  [Stages!StagesNext]_TheStages
<1> PICK k : k = Held(p).run OBVIOUS
<1>1. OfferedRun(k)
  <2>1. ~ At(p, "idle") /\ proc[p].step = "replay" BY DEF At
  <2>2. Busy(p) /\ proc[p] # Idle /\ CommandOK(proc[p]) /\ HeldOK(proc[p])
    BY <2>1, BusyOrIdle DEF OfferInv, TypeInv, TypeOK
  <2>3. proc[p].cmd = "replay"
    BY <2>1, <2>2 DEF CommandOK, StepsOf, Busy, ProcState, Command
  <2> QED BY <2>2, <2>3 DEF HeldOK, Held
<1>2. ASSUME NEW n PROVE ReplayedRun(n)' <=> ReplayedRun(n) \/ n = k
  <2> PICK t : t = TheReplay(p) OBVIOUS
  <2>1. t.run = k BY DEF TheReplay
  <2>2. replays' = {r \in replays : r.run # k} \cup {t} BY DEF WithReplay
  <2> QED BY <2>1, <2>2 DEF ReplayedRun
<1>3. ASSUME NEW n PROVE (LoggedRun(n)' <=> LoggedRun(n)) /\ (OfferedRun(n)' <=> OfferedRun(n))
  BY DEF LoggedRun, OfferedRun
<1>4. ASSUME NEW n, n # k PROVE StageOf(n)' = StageOf(n) BY <1>2, <1>3, <1>4 DEF StageOf
<1>5. TheStages' = [n \in 1..MaxCommands |-> IF n = k THEN StageOf(k)' ELSE StageOf(n)]
  BY <1>4 DEF TheStages
<1>6. StageOf(k)' = StageOf(k) \/ (StageOf(k) = "offered" /\ StageOf(k)' = "replayed")
  BY <1>1, <1>2, <1>3 DEF StageOf
<1> QED BY <1>5, <1>6, OneStage

LEMMA StageStep == TypeInv /\ OfferInv /\ [Next]_vars => [Stages!StagesNext]_TheStages
<1> SUFFICES ASSUME TypeInv, OfferInv, [Next]_vars PROVE [Stages!StagesNext]_TheStages
  OBVIOUS
<1>1. CASE UNCHANGED <<log, summaries, replays>> BY <1>1, StagesSame
<1>2. CASE Next
  <2> PICK p \in Proc :
        \/ \E d \in Digest, t \in Pattern : BeginCycle(p, d, t) \/ BeginRejected(p, d, t)
        \/ \E s \in summaries : BeginReplay(p, s) \/ BeginPromotion(p, s)
        \/ BeginRefresh(p)
        \/ Copy(p) \/ Trial(p) \/ Destroy(p)
        \/ Load(p) \/ Recount(p) \/ Save(p)
        \/ AppendLog(p) \/ Newline(p)
        \/ StoreMutation(p) \/ StoreSummary(p) \/ StoreReplay(p)
        \/ Crash(p)
    BY <1>2 DEF Next
  <2>1. CASE AppendLog(p) BY <2>1, AppendStages
  <2>2. CASE StoreSummary(p) BY <2>2, SummaryStages DEF StoreSummary
  <2>3. CASE StoreReplay(p) BY <2>3, ReplayStages DEF StoreReplay
  <2>4. CASE Crash(p) BY <1>1, <2>4, SummaryStages, ReplayStages DEF Crash
  <2>5. CASE Copy(p) \/ Trial(p) \/ Destroy(p)
    BY <1>1, <2>5 DEF Copy, Trial, Destroy
  <2>6. CASE Load(p) \/ Recount(p) \/ Save(p) BY <1>1, <2>6 DEF Load, Recount, Save
  <2>7. CASE Newline(p) \/ StoreMutation(p) BY <1>1, <2>7 DEF Newline, StoreMutation
  <2>8. CASE \/ \E d \in Digest, t \in Pattern : BeginCycle(p, d, t) \/ BeginRejected(p, d, t)
             \/ \E s \in summaries : BeginReplay(p, s) \/ BeginPromotion(p, s)
             \/ BeginRefresh(p)
    BY <1>1, <2>8
       DEF BeginCycle, BeginRejected, BeginReplay, BeginPromotion, BeginRefresh, Begin
  <2> QED BY <2>1, <2>2, <2>3, <2>4, <2>5, <2>6, <2>7, <2>8
<1> QED BY <1>1, <1>2 DEF vars

LEMMA StageInit == Init => Stages!StagesInit
  BY DEF Init, Stages!StagesInit, StageOf, LoggedRun, OfferedRun, ReplayedRun

(* EvolutionCycle implements CandidateStages: no run is offered before it is logged, none is
   replayed before it is offered, and none falls back, for any commands, overlaps and deaths. *)
THEOREM CycleRefinesStages == Spec => StagesSpec
<1>1. TypeInv /\ OfferInv /\ [Next]_vars
        => [Stages!StagesNext]_[n \in 1..MaxCommands |-> StageOf(n)]
  BY StageStep DEF TheStages
<1> QED BY <1>1, StageInit, OfferAlways, PTL DEF Spec, StagesSpec, Stages!StagesSpec

-----------------------------------------------------------------------------
(* Bad mutations stay rejected *)

Bad(e) == e.retained = FALSE /\ EntryUseful(e) = FALSE

Trying == {"copy", "trial", "destroy", "dedup", "patterns", "append"}

(* What a command knows about its mutation while it runs alone: until its append a cycle's
   mutation has no bad entry, from its deduplication on its own bad result is known, and a
   rejected one is known to be bad throughout. *)
KnowsOK(v) ==
  /\ v.cmd = "cycle" /\ v.step \in Trying
       => \A i \in DOMAIN log : log[i].digest = v.entry.digest => ~ Bad(log[i])
  /\ v.cmd = "cycle" /\ v.step \in {"patterns", "append"} /\ EntryUseful(v.entry) = FALSE
       => KnownBad(v.entry.digest)
  /\ v.cmd = "rejected" => KnownBad(v.entry.digest) /\ EntryUseful(v.entry) = FALSE
  /\ v.loaded /\ v.step = "dedup" => v.copy.dedup = memory.dedup

AtMostOne == \A p, q \in Proc : p = q \/ proc[p] = Idle \/ proc[q] = Idle

BadIsKnown == \A i \in DOMAIN log : Bad(log[i]) => KnownBad(log[i].digest)

Repeats == \A i, j \in DOMAIN log :
             i < j /\ log[i].digest = log[j].digest /\ log[j].retained = FALSE /\ Bad(log[i])
               => log[j].duplicate = TRUE

RejectInv == alone => /\ AtMostOne /\ BadIsKnown /\ Repeats
                      /\ \A p \in Proc : proc[p] # Idle => KnowsOK(proc[p])

LEMMA RejectInit == Init => RejectInv
  BY DEF Init, RejectInv, AtMostOne, BadIsKnown, Repeats

LEMMA RejectShows == TypeInv /\ RejectInv => BadStaysRejected
<1> SUFFICES ASSUME TypeInv, RejectInv, alone, NEW i \in DOMAIN log, NEW j \in DOMAIN log,
                    i < j, log[i].digest = log[j].digest,
                    ~ log[i].retained, ~ log[j].retained, ~ EntryUseful(log[i])
             PROVE  log[j].duplicate
  BY DEF BadStaysRejected
<1>1. log[i] \in Entry /\ log[j] \in Entry BY DEF TypeInv, TypeOK
<1>2. log[i].retained = FALSE /\ log[j].retained = FALSE BY <1>1 DEF Entry
<1>3. EntryUseful(log[i]) = FALSE BY <1>1, UsefulTyped
<1> QED BY <1>2, <1>3 DEF RejectInv, Repeats, Bad

(* A running command alone: the others are idle, before and after its step. *)
LEMMA OthersIdle ==
  ASSUME TypeInv, RejectInv, alone, NEW p \in Proc, ~ At(p, "idle"), NEW v, Become(p, v)
  PROVE  /\ proc[p] # Idle /\ KnowsOK(proc[p])
         /\ proc'[p] = v /\ \A q \in Proc \ {p} : proc'[q] = Idle
<1>1. proc[p] # Idle BY BusyOrIdle DEF TypeInv
<1>2. \A q \in Proc \ {p} : proc[q] = Idle BY <1>1 DEF RejectInv, AtMostOne
<1> QED BY <1>1, <1>2, OthersStay DEF RejectInv

(* A command that leaves the log and the deduplication alone. *)
LEMMA KnowingStep ==
  ASSUME TypeInv, RejectInv, alone, NEW p \in Proc, ~ At(p, "idle"), NEW v, Become(p, v),
         log' = log, memory.dedup' = memory.dedup, v # Idle => KnowsOK(v)
  PROVE  RejectInv'
<1>1. proc'[p] = v /\ \A q \in Proc \ {p} : proc'[q] = Idle BY OthersIdle
<1>2. AtMostOne' BY <1>1 DEF AtMostOne
<1>3. BadIsKnown' BY DEF RejectInv, BadIsKnown, KnownBad
<1>4. Repeats' BY DEF RejectInv, Repeats
<1>5. ASSUME NEW q \in Proc, proc'[q] # Idle PROVE KnowsOK(proc[q])'
  <2>1. q = p /\ proc'[q] = v BY <1>1, <1>5
  <2> QED BY <1>5, <2>1 DEF KnowsOK, KnownBad
<1> QED BY <1>2, <1>3, <1>4, <1>5 DEF RejectInv

LEMMA KnowingEnd ==
  ASSUME TypeInv, RejectInv, alone, NEW p \in Proc, ~ At(p, "idle"), Finish(p),
         log' = log, memory.dedup' = memory.dedup
  PROVE  RejectInv'
  BY KnowingStep DEF Finish

(* A command that goes on about the same mutation, to no step that needs new knowledge. *)
LEMMA KnowingMove ==
  ASSUME TypeInv, RejectInv, alone, NEW p \in Proc, ~ At(p, "idle"), NEW v, Become(p, v),
         log' = log, memory.dedup' = memory.dedup,
         v.cmd = proc[p].cmd, v.entry.digest = proc[p].entry.digest,
         v.cmd = "rejected" => EntryUseful(v.entry) = EntryUseful(proc[p].entry),
         v.cmd = "cycle" /\ v.step \in Trying => proc[p].step \in Trying,
         v.cmd = "cycle" /\ v.step \in {"patterns", "append"}
           => /\ proc[p].step \in {"patterns", "append"}
              /\ EntryUseful(v.entry) = EntryUseful(proc[p].entry),
         v.loaded /\ v.step = "dedup" => v.copy.dedup = memory.dedup
  PROVE  RejectInv'
<1>1. KnowsOK(proc[p]) BY OthersIdle
<1>2. KnowsOK(v) BY <1>1 DEF KnowsOK
<1> QED BY <1>2, KnowingStep

LEMMA KnowingBegin ==
  ASSUME TypeInv, RejectInv, alone', NEW p \in Proc, NEW cmd, NEW step, NEW e,
         Begin(p, cmd, step, e),
         cmd = "cycle" => step = "copy" /\ KnownBad(e.digest) = FALSE,
         cmd = "rejected" => KnownBad(e.digest) /\ EntryUseful(e) = FALSE
  PROVE  RejectInv'
<1> PICK v : v = Started(cmd, step, e) OBVIOUS
<1>1. v.cmd = cmd /\ v.step = step /\ v.entry = e /\ v.loaded = FALSE BY DEF Started
<1>2. Become(p, v) /\ UNCHANGED <<log, memory>> /\ alone BY DEF Begin
<1>3. \A q \in Proc : proc[q] = Idle BY BusyOrIdle DEF Begin, TypeInv
<1>4. proc'[p] = v /\ \A q \in Proc \ {p} : proc'[q] = Idle BY <1>2, <1>3, OthersStay
<1>5. KnowsOK(v)
  <2>1. cmd = "cycle" => \A i \in DOMAIN log : log[i].digest = e.digest => ~ Bad(log[i])
    BY <1>2 DEF RejectInv, BadIsKnown
  <2> QED BY <1>1, <2>1 DEF KnowsOK
<1>6. AtMostOne' BY <1>4 DEF AtMostOne
<1>7. BadIsKnown' BY <1>2 DEF RejectInv, BadIsKnown, KnownBad
<1>8. Repeats' BY <1>2 DEF RejectInv, Repeats
<1>9. ASSUME NEW q \in Proc, proc'[q] # Idle PROVE KnowsOK(proc[q])'
  <2>1. proc'[q] = v BY <1>4, <1>9
  <2> QED BY <1>2, <1>5, <2>1 DEF KnowsOK, KnownBad
<1> QED BY <1>6, <1>7, <1>8, <1>9 DEF RejectInv

LEMMA NewEntryUseless ==
  ASSUME NEW d, NEW t PROVE NewEntry(d, t).digest = d /\ EntryUseful(NewEntry(d, t)) = FALSE
  BY DEF NewEntry, EntryUseful, Useful

LEMMA BeginsKnow ==
  ASSUME TypeInv, RejectInv, alone', NEW p \in Proc,
         \/ \E d \in Digest, t \in Pattern : BeginCycle(p, d, t) \/ BeginRejected(p, d, t)
         \/ \E s \in summaries : BeginReplay(p, s) \/ BeginPromotion(p, s)
         \/ BeginRefresh(p)
  PROVE  RejectInv'
<1>1. ASSUME NEW d \in Digest, NEW t \in Pattern, BeginCycle(p, d, t) PROVE RejectInv'
  <2>1. ~ KnownBad(d) /\ Begin(p, "cycle", "copy", NewEntry(d, t)) BY <1>1 DEF BeginCycle
  <2>2. KnownBad(NewEntry(d, t).digest) = FALSE BY <2>1, NewEntryUseless DEF KnownBad
  <2> QED BY <2>1, <2>2, KnowingBegin
<1>2. ASSUME NEW d \in Digest, NEW t \in Pattern, BeginRejected(p, d, t) PROVE RejectInv'
  <2> PICK e : e = [NewEntry(d, t) EXCEPT !.duplicate = TRUE] OBVIOUS
  <2>1. KnownBad(d) /\ Begin(p, "rejected", "patterns", e) BY <1>2 DEF BeginRejected
  <2>2. e.digest = d /\ EntryUseful(e) = FALSE BY DEF NewEntry, EntryUseful, Useful
  <2> QED BY <2>1, <2>2, KnowingBegin
<1>3. ASSUME NEW s \in summaries, BeginReplay(p, s) PROVE RejectInv'
  <2>1. \E e : Begin(p, "replay", "copy", e) BY <1>3 DEF BeginReplay
  <2> QED BY <2>1, KnowingBegin
<1>4. ASSUME NEW s \in summaries, BeginPromotion(p, s) PROVE RejectInv'
  <2>1. \E e : Begin(p, "promotion", "append", e) BY <1>4 DEF BeginPromotion
  <2> QED BY <2>1, KnowingBegin
<1>5. CASE BeginRefresh(p) BY <1>5, KnowingBegin DEF BeginRefresh
<1> QED BY <1>1, <1>2, <1>3, <1>4, <1>5

LEMMA TrialKnows ==
  ASSUME TypeInv, RejectInv, alone, NEW p \in Proc, Copy(p) \/ Trial(p) \/ Destroy(p)
  PROVE  RejectInv'
<1>1. /\ ~ At(p, "idle") /\ Busy(p) /\ CommandOK(proc[p]) /\ LoadedOK(proc[p]) /\ proc[p] # Idle
      /\ log' = log /\ memory.dedup' = memory.dedup
  <2>1. ~ At(p, "idle") BY DEF Copy, Trial, Destroy, At
  <2> QED BY <2>1, BusyOrIdle DEF TypeInv, TypeOK, Copy, Trial, Destroy
<1>2. proc[p].step \in {"copy", "trial", "destroy"} BY DEF Copy, Trial, Destroy, At
<1>3. proc[p].cmd # "rejected" /\ proc[p].loaded = FALSE
  BY <1>1, <1>2 DEF CommandOK, LoadedOK, StepsOf, StoreStep, Busy, ProcState, Command
<1>4. CASE Finish(p) BY <1>1, <1>4, KnowingEnd
<1>5. ASSUME NEW v, Become(p, v), v.cmd = proc[p].cmd, v.entry.digest = proc[p].entry.digest,
             v.step \in {"trial", "destroy", "dedup", "metrics"}, v.loaded = proc[p].loaded
      PROVE  RejectInv'
  BY <1>1, <1>2, <1>3, <1>5, KnowingMove DEF Trying
<1>6. ASSUME NEW step \in {"trial", "destroy"}, Go(p, step) PROVE RejectInv'
  <2> PICK v : v = [proc[p] EXCEPT !.step = step] OBVIOUS
  <2>1. v.cmd = proc[p].cmd /\ v.entry = proc[p].entry /\ v.step = step
        /\ v.loaded = proc[p].loaded
    BY <1>1 DEF Busy, ProcState
  <2>2. Become(p, v) BY <1>6 DEF Go
  <2> QED BY <1>5, <2>1, <2>2
<1>7. ASSUME NEW t, NEW m, NEW g,
             Become(p, [proc[p] EXCEPT !.step = "destroy", !.tried = t, !.matches = m,
                                       !.entry.gates = g])
      PROVE  RejectInv'
  <2> PICK v : v = [proc[p] EXCEPT !.step = "destroy", !.tried = t, !.matches = m,
                                   !.entry.gates = g]
    OBVIOUS
  <2>1. v.cmd = proc[p].cmd /\ v.entry.digest = proc[p].entry.digest /\ v.step = "destroy"
        /\ v.loaded = proc[p].loaded
    BY <1>1 DEF Busy, ProcState, Entry
  <2> QED BY <1>5, <1>7, <2>1
<1>8. ASSUME NEW b, NEW step \in {"metrics", "dedup"},
             Become(p, [proc[p] EXCEPT !.step = step, !.entry.destroyed = b])
      PROVE  RejectInv'
  <2> PICK v : v = [proc[p] EXCEPT !.step = step, !.entry.destroyed = b] OBVIOUS
  <2>1. v.cmd = proc[p].cmd /\ v.entry.digest = proc[p].entry.digest /\ v.step = step
        /\ v.loaded = proc[p].loaded
    BY <1>1 DEF Busy, ProcState, Entry
  <2> QED BY <1>5, <1>8, <2>1
<1>9. CASE Copy(p) BY <1>4, <1>6, <1>9 DEF Copy
<1>10. CASE Trial(p)
  <2>1. CASE Go(p, "destroy") BY <1>6, <2>1
  <2>2. CASE ~ Go(p, "destroy") BY <1>7, <1>10, <2>2 DEF Trial
  <2> QED BY <2>1, <2>2
<1>11. CASE Destroy(p) BY <1>4, <1>8, <1>11 DEF Destroy
<1> QED BY <1>9, <1>10, <1>11

LEMMA ProceedKnows ==
  ASSUME TypeInv, RejectInv, alone, NEW p \in Proc, ~ At(p, "idle"), Proceed(p),
         proc[p].step # "dedup", log' = log, memory.dedup' = memory.dedup
  PROVE  RejectInv'
<1>1. PICK v : /\ Become(p, v)
               /\ \/ v = Idle
                  \/ /\ v.step = NextStep(p) /\ v.cmd = proc[p].cmd
                     /\ v.entry = proc[p].entry /\ v.loaded = FALSE /\ v # Idle
  BY ProceedKeeps
<1>2. CASE v = Idle BY <1>1, <1>2, KnowingEnd DEF Finish
<1>3. CASE v # Idle
  <2>1. proc[p].cmd = "cycle" /\ NextStep(p) \in Trying
          => proc[p].step = "patterns" /\ NextStep(p) = "append"
    BY DEF NextStep, At, Trying
  <2> QED BY <1>1, <1>3, <2>1, KnowingMove DEF Trying
<1> QED BY <1>2, <1>3

LEMMA LoadKnows ==
  ASSUME TypeInv, RejectInv, alone, NEW p \in Proc, Load(p) \/ Recount(p)
  PROVE  RejectInv'
<1>1. log' = log /\ memory.dedup' = memory.dedup BY DEF Load, Recount
<1>2. /\ ~ At(p, "idle") /\ Busy(p)
      /\ At(p, "dedup") => Load(p)
  <2>1. CASE Load(p)
    <3>1. StoreOf(p) \in Store BY <2>1 DEF Load
    <3>2. Busy(p) /\ proc[p].step \in StoreStep BY <3>1, StoreOfTyped DEF TypeInv, StoreStep
    <3> QED BY <2>1, <3>2 DEF At, StoreStep
  <2>2. CASE Recount(p)
    <3>1. /\ ~ At(p, "idle") /\ Busy(p) /\ CommandOK(proc[p]) /\ proc[p] # Idle
      BY <2>2, BusyOrIdle DEF TypeInv, TypeOK, Recount
    <3>2. proc[p].step \in {"metrics", "portfolio"}
      BY <2>2, <3>1 DEF CommandOK, Recount, Refreshing, StepsOf
    <3> QED BY <3>1, <3>2 DEF At
  <2> QED BY <2>1, <2>2
<1>3. CASE Finish(p) BY <1>1, <1>2, <1>3, KnowingEnd
<1>4. ASSUME NEW s, NEW x, Loaded(p, s, x), At(p, "dedup") => s = "dedup" /\ x = memory.dedup
      PROVE  RejectInv'
  <2> PICK v : v = [proc[p] EXCEPT !.loaded = TRUE, !.copy = [NoMemory EXCEPT ![s] = x]]
    OBVIOUS
  <2>1. /\ v.cmd = proc[p].cmd /\ v.entry = proc[p].entry /\ v.step = proc[p].step
        /\ v.copy = [NoMemory EXCEPT ![s] = x]
    BY <1>2 DEF Busy, ProcState
  <2>2. At(p, "dedup") => v.copy.dedup = memory.dedup
    BY <1>4, <2>1, NoMemoryTyped DEF Memory
  <2>3. Become(p, v) BY <1>4 DEF Loaded
  <2> QED BY <1>1, <1>2, <2>1, <2>2, <2>3, KnowingMove DEF At
<1>5. CASE Load(p)
  <2>1. At(p, "dedup") => StoreOf(p) = "dedup" BY DEF StoreOf, At
  <2> QED BY <1>3, <1>4, <1>5, <2>1 DEF Load
<1>6. CASE Recount(p)
  <2>1. ~ At(p, "dedup") \/ Load(p) BY <1>2
  <2> QED BY <1>3, <1>4, <1>5, <1>6, <2>1 DEF Recount
<1> QED BY <1>5, <1>6

LEMMA NewlineKnows ==
  ASSUME TypeInv, RejectInv, alone, NEW p \in Proc,
         Newline(p) \/ StoreMutation(p) \/ StoreSummary(p) \/ StoreReplay(p)
  PROVE  RejectInv'
<1>1. /\ ~ At(p, "idle") /\ proc[p].step # "dedup" /\ Proceed(p)
      /\ log' = log /\ memory.dedup' = memory.dedup
  BY DEF Newline, StoreMutation, StoreSummary, StoreReplay, At
<1> QED BY <1>1, ProceedKnows

LEMMA CrashKnows == ASSUME TypeInv, RejectInv, alone, NEW p \in Proc, Crash(p) PROVE RejectInv'
  BY KnowingEnd DEF Crash

(* The write of the deduplication memory: only the digest of the command changes. *)
LEMMA DedupSaved ==
  ASSUME TypeInv, RejectInv, alone, NEW p \in Proc, Save(p), At(p, "dedup")
  PROVE  LET d == Held(p).digest
         IN /\ memory'.dedup[d].seen > 0
            /\ memory'.dedup[d].useful = EntryUseful(Held(p))
            /\ \A c \in Digest \ {d} : memory'.dedup[c] = memory.dedup[c]
<1>1. ~ At(p, "idle") /\ proc[p].step = "dedup" /\ proc[p].loaded BY DEF Save, At
<1>2. Busy(p) /\ CommandOK(proc[p]) /\ proc[p] # Idle /\ KnowsOK(proc[p])
  BY <1>1, BusyOrIdle DEF TypeInv, TypeOK, RejectInv
<1>3. StoreOf(p) = "dedup" /\ ~ Refreshing(p)
  BY <1>1, <1>2 DEF StoreOf, At, Refreshing, CommandOK, StepsOf
<1>4. proc[p].copy.dedup = memory.dedup BY <1>1, <1>2 DEF KnowsOK
<1> PICK d : d = Held(p).digest OBVIOUS
<1>5. Updated(p) = [memory.dedup EXCEPT ![d] = [seen |-> @.seen + 1, useful |-> EntryUseful(Held(p))]]
  BY <1>3, <1>4 DEF Updated
<1>6. d \in Digest BY <1>1, HeldTyped DEF Entry
<1>7. memory \in Memory BY DEF TypeInv, TypeOK
<1>8. memory.dedup \in [Digest -> [seen : Nat, useful : BOOLEAN]] BY <1>7 DEF Memory
<1>9. memory'.dedup = [memory.dedup EXCEPT ![d] = [seen |-> @.seen + 1, useful |-> EntryUseful(Held(p))]]
  BY <1>3, <1>5, <1>7 DEF Save, Memory
<1>10. memory.dedup[d].seen + 1 > 0 BY <1>6, <1>8
<1>11. memory'.dedup[d] = [seen |-> memory.dedup[d].seen + 1, useful |-> EntryUseful(Held(p))]
  BY <1>6, <1>8, <1>9
<1>12. \A c \in Digest \ {d} : memory'.dedup[c] = memory.dedup[c] BY <1>6, <1>8, <1>9
<1> QED BY <1>10, <1>11, <1>12

LEMMA DedupKnows ==
  ASSUME TypeInv, RejectInv, alone, NEW p \in Proc, Save(p), At(p, "dedup")
  PROVE  RejectInv'
<1> PICK e : e = Held(p) OBVIOUS
<1>1. ~ At(p, "idle") /\ proc[p].step = "dedup" /\ Proceed(p) /\ log' = log
  BY DEF Save, At
<1>2. Busy(p) /\ CommandOK(proc[p]) /\ proc[p] # Idle /\ KnowsOK(proc[p])
  BY <1>1, BusyOrIdle DEF TypeInv, TypeOK, RejectInv
<1>3. proc[p].cmd = "cycle" \/ (proc[p].cmd = "rejected" /\ EntryUseful(e) = FALSE)
  BY <1>1, <1>2 DEF CommandOK, StepsOf, Busy, ProcState, Command, KnowsOK, Held
<1>4. e \in Entry /\ e.digest \in Digest BY <1>1, HeldTyped DEF Entry
<1>5. EntryUseful(e) = FALSE => KnownBad(e.digest)' BY DedupSaved DEF KnownBad
<1>6. ASSUME NEW c \in Digest \ {e.digest} PROVE KnownBad(c)' = KnownBad(c)
  BY DedupSaved DEF KnownBad
<1>7. PICK v : /\ Become(p, v)
               /\ \/ v = Idle
                  \/ /\ v.step = NextStep(p) /\ v.cmd = proc[p].cmd
                     /\ v.entry = proc[p].entry /\ v.loaded = FALSE /\ v # Idle
  BY <1>1, ProceedKeeps
<1>8. proc'[p] = v /\ \A q \in Proc \ {p} : proc'[q] = Idle BY <1>1, <1>7, OthersIdle
<1>9. ASSUME NEW i \in DOMAIN log, Bad(log[i]) PROVE KnownBad(log[i].digest)'
  <2>1. log[i].digest \in Digest
    <3>1. log[i] \in Entry BY DEF TypeInv, TypeOK
    <3> QED BY <3>1 DEF Entry
  <2>2. CASE log[i].digest # e.digest
    <3>1. KnownBad(log[i].digest) BY <1>9 DEF RejectInv, BadIsKnown
    <3> PICK c : c = log[i].digest OBVIOUS
    <3>2. KnownBad(c)' BY <1>6, <2>1, <2>2, <3>1
    <3> QED BY <1>1, <3>2 DEF KnownBad
  <2>3. CASE log[i].digest = e.digest
    <3>1. EntryUseful(e) = FALSE BY <1>1, <1>2, <1>3, <1>9, <2>3 DEF KnowsOK, Trying, Held
    <3>2. KnownBad(e.digest)' BY <1>5, <3>1
    <3> QED BY <1>1, <2>3, <3>2 DEF KnownBad
  <2> QED BY <2>2, <2>3
<1>10. BadIsKnown' BY <1>1, <1>9 DEF BadIsKnown, KnownBad
<1>11. AtMostOne' BY <1>8 DEF AtMostOne
<1>12. Repeats' BY <1>1 DEF RejectInv, Repeats
<1>13. ASSUME NEW q \in Proc, proc'[q] # Idle PROVE KnowsOK(proc[q])'
  <2>1. q = p /\ proc'[q] = v /\ v # Idle BY <1>8, <1>13
  <2>2. v.cmd = proc[p].cmd /\ v.entry = e /\ v.loaded = FALSE BY <1>7, <2>1 DEF Held
  <2>3. v.cmd = "cycle" => \A i \in DOMAIN log' : log'[i].digest = v.entry.digest => ~ Bad(log'[i])
    BY <1>1, <1>2, <2>2 DEF KnowsOK, Trying, Held
  <2>4. EntryUseful(v.entry) = FALSE => KnownBad(v.entry.digest)'
    BY <1>5, <2>2 DEF KnownBad
  <2>5. v.cmd = "rejected" => KnownBad(v.entry.digest)' /\ EntryUseful(v.entry) = FALSE
    BY <1>3, <2>2, <2>4
  <2> QED BY <2>1, <2>2, <2>3, <2>4, <2>5 DEF KnowsOK, KnownBad
<1> QED BY <1>10, <1>11, <1>12, <1>13 DEF RejectInv

LEMMA SaveKnows == ASSUME TypeInv, RejectInv, alone, NEW p \in Proc, Save(p) PROVE RejectInv'
<1>1. CASE At(p, "dedup") BY <1>1, DedupKnows
<1>2. CASE ~ At(p, "dedup")
  <2>1. ~ At(p, "idle") /\ proc[p].step # "dedup" /\ Proceed(p) /\ log' = log
    BY <1>2 DEF Save, At
  <2>2. StoreOf(p) # "dedup" BY <2>1 DEF StoreOf, At
  <2>3. memory \in Memory BY DEF TypeInv, TypeOK
  <2>4. memory'.dedup = memory.dedup BY <2>2, <2>3 DEF Save, Memory
  <2> QED BY <2>1, <2>4, ProceedKnows
<1> QED BY <1>1, <1>2

LEMMA AppendKnows ==
  ASSUME TypeInv, RejectInv, alone, NEW p \in Proc, AppendLog(p) PROVE RejectInv'
<1> PICK e : e = Held(p) OBVIOUS
<1> PICK n : n = Len(log) + 1 OBVIOUS
<1>1. ~ At(p, "idle") /\ proc[p].step = "append" /\ NextStep(p) = "newline" /\ Proceed(p)
      /\ memory' = memory
  BY DEF AppendLog, At, NextStep
<1>2. Busy(p) /\ CommandOK(proc[p]) /\ proc[p] # Idle /\ KnowsOK(proc[p])
  BY <1>1, BusyOrIdle DEF TypeInv, TypeOK, RejectInv
<1>3. log' = Append(log, e) /\ log \in Seq(Entry) /\ e \in Entry
  BY <1>1, HeldTyped DEF AppendLog, TypeInv, TypeOK
<1>4. /\ DOMAIN log' = DOMAIN log \cup {n} /\ log'[n] = e
      /\ \A i \in DOMAIN log : log'[i] = log[i] /\ i < n
  BY <1>3
<1>5. Bad(e) => KnownBad(e.digest)
  <2>1. proc[p].cmd \in {"cycle", "rejected", "promotion"}
    BY <1>1, <1>2 DEF CommandOK, StepsOf, Busy, ProcState, Command
  <2> QED BY <1>1, <1>2, <2>1 DEF CommandOK, KnowsOK, Bad, Held
<1>6. BadIsKnown' BY <1>1, <1>4, <1>5 DEF BadIsKnown, KnownBad, RejectInv
<1>7. Repeats'
  <2>1. ASSUME NEW i \in DOMAIN log', NEW j \in DOMAIN log', i < j,
               log'[i].digest = log'[j].digest, log'[j].retained = FALSE, Bad(log'[i])
        PROVE  log'[j].duplicate = TRUE
    <3>1. CASE j \in DOMAIN log
      <4>1. i \in DOMAIN log BY <1>3, <1>4, <2>1, <3>1
      <4> QED BY <1>4, <2>1, <3>1, <4>1 DEF RejectInv, Repeats
    <3>2. CASE j = n
      <4>1. i \in DOMAIN log /\ log'[i] = log[i] BY <1>3, <1>4, <2>1, <3>2
      <4>2. proc[p].cmd # "cycle"
        BY <1>1, <1>2, <1>4, <2>1, <3>2, <4>1 DEF KnowsOK, Trying, Held
      <4>3. proc[p].cmd # "promotion" BY <1>2, <1>4, <2>1, <3>2 DEF CommandOK, Held
      <4>4. proc[p].cmd = "rejected"
        BY <1>1, <1>2, <4>2, <4>3 DEF CommandOK, StepsOf, Busy, ProcState, Command
      <4> QED BY <1>2, <1>4, <3>2, <4>4 DEF CommandOK, Held
    <3> QED BY <1>4, <3>1, <3>2
  <2> QED BY <2>1 DEF Repeats
<1>8. PICK v : /\ Become(p, v)
               /\ \/ v = Idle
                  \/ /\ v.step = "newline" /\ v.cmd = proc[p].cmd
                     /\ v.entry = proc[p].entry /\ v.loaded = FALSE /\ v # Idle
  BY <1>1, ProceedKeeps
<1>9. proc'[p] = v /\ \A q \in Proc \ {p} : proc'[q] = Idle BY <1>1, <1>8, OthersIdle
<1>10. AtMostOne' BY <1>9 DEF AtMostOne
<1>11. ASSUME NEW q \in Proc, proc'[q] # Idle PROVE KnowsOK(proc[q])'
  <2>1. q = p /\ proc'[q] = v /\ v # Idle BY <1>9, <1>11
  <2>2. v.step = "newline" /\ v.cmd = proc[p].cmd /\ v.entry = proc[p].entry /\ v.loaded = FALSE
    BY <1>8, <2>1
  <2> QED BY <1>1, <1>2, <2>1, <2>2 DEF KnowsOK, KnownBad, Trying
<1> QED BY <1>6, <1>7, <1>10, <1>11 DEF RejectInv

LEMMA RejectStep == TypeInv /\ RejectInv /\ [Next]_vars => RejectInv'
<1> SUFFICES ASSUME TypeInv, RejectInv, [Next]_vars, alone' PROVE RejectInv'
  BY DEF RejectInv
<1>1. CASE UNCHANGED vars
  BY <1>1 DEF vars, RejectInv, AtMostOne, BadIsKnown, Repeats, KnowsOK, KnownBad
<1>2. CASE Next
  <2> PICK p \in Proc :
        \/ \E d \in Digest, t \in Pattern : BeginCycle(p, d, t) \/ BeginRejected(p, d, t)
        \/ \E s \in summaries : BeginReplay(p, s) \/ BeginPromotion(p, s)
        \/ BeginRefresh(p)
        \/ Copy(p) \/ Trial(p) \/ Destroy(p)
        \/ Load(p) \/ Recount(p) \/ Save(p)
        \/ AppendLog(p) \/ Newline(p)
        \/ StoreMutation(p) \/ StoreSummary(p) \/ StoreReplay(p)
        \/ Crash(p)
    BY <1>2 DEF Next
  <2>1. CASE \/ \E d \in Digest, t \in Pattern : BeginCycle(p, d, t) \/ BeginRejected(p, d, t)
             \/ \E s \in summaries : BeginReplay(p, s) \/ BeginPromotion(p, s)
             \/ BeginRefresh(p)
    BY <2>1, BeginsKnow
  <2>2. CASE Copy(p) \/ Trial(p) \/ Destroy(p)
    BY <2>2, TrialKnows DEF Copy, Trial, Destroy
  <2>3. CASE Load(p) \/ Recount(p) BY <2>3, LoadKnows DEF Load, Recount
  <2>4. CASE Save(p) BY <2>4, SaveKnows DEF Save
  <2>5. CASE AppendLog(p) BY <2>5, AppendKnows DEF AppendLog
  <2>6. CASE Newline(p) \/ StoreMutation(p) \/ StoreSummary(p) \/ StoreReplay(p)
    BY <2>6, NewlineKnows DEF Newline, StoreMutation, StoreSummary, StoreReplay
  <2>7. CASE Crash(p) BY <2>7, CrashKnows DEF Crash
  <2> QED BY <2>1, <2>2, <2>3, <2>4, <2>5, <2>6, <2>7
<1> QED BY <1>1, <1>2

(* As long as commands do not overlap, a mutation whose result was no use is never tried again
   (should_reject_duplicate_bad, record_dedup_entry), also when commands died on the way. *)
THEOREM BadNeverRetried == Spec => []BadStaysRejected
<1>1. Init => TypeInv /\ RejectInv BY InitTyped, RejectInit
<1>2. TypeInv /\ RejectInv /\ [Next]_vars => (TypeInv /\ RejectInv)' BY TypeStep, RejectStep
<1> QED BY <1>1, <1>2, RejectShows, PTL DEF Spec

-----------------------------------------------------------------------------
(* Updated metrics and portfolio agree with computed ones *)

Runs(l, n, c) == {i \in 1..n : c \in RunCounters(l[i])}
Shares(l, n, k, c) == {i \in 1..n : KindOf[l[i].digest] = k /\ c \in KindShare(l[i])}

Replayed == {"replay_passed", "replay_failed", "replay_failed_runs", "failed"}

(* Metrics that count the first n entries of a log, some candidates and at least some replays. *)
MetricsAgree(m, l, n, offers, tried) ==
  /\ \A c \in Counter \ (Replayed \cup {"candidates"}) : m[c] = Cardinality(Runs(l, n, c))
  /\ m["candidates"] = offers
  /\ m["failed"] = Cardinality(Runs(l, n, "failed")) + m["replay_failed"]
  /\ m["replay_failed_runs"] = m["replay_failed"]
  /\ m["replay_passed"] + m["replay_failed"] >= tried

PortfolioAgrees(f, l, n) ==
  \A k \in Kinds : \A c \in Share \ {"replay_passed"} : f[k][c] = Cardinality(Shares(l, n, k, c))

(* What a running command has written to the log, offered or counted, and not yet to the
   other files. *)
Writer == {"cycle", "rejected", "promotion"}
OwesMetrics(v) ==
  /\ v.cmd \in Writer
  /\ \/ v.step \in {"newline", "mutation", "summary", "graph", "metrics"}
     \/ v.cmd = "rejected" /\ v.step = "dedup"
OwesPortfolio(v) == OwesMetrics(v) \/ (v.cmd \in Writer /\ v.step = "portfolio")
OwesOffer(v) ==
  v.cmd = "cycle" /\ v.step \in {"graph", "metrics"} /\ Status(v.entry) = "candidate"

MetricsDone(v, l) == IF OwesMetrics(v) THEN Len(l) - 1 ELSE Len(l)
PortfolioDone(v, l) == IF OwesPortfolio(v) THEN Len(l) - 1 ELSE Len(l)
OffersDone(v, S) == IF OwesOffer(v) THEN Cardinality(S) - 1 ELSE Cardinality(S)
ReplaysDone(v, R) == IF v.step = "replay" THEN Cardinality(R) + 1 ELSE Cardinality(R)

MetricsOf(v, m, l, S, R) ==
  MetricsAgree(m, l, MetricsDone(v, l), OffersDone(v, S), ReplaysDone(v, R))
PortfolioOf(v, f, l) == PortfolioAgrees(f, l, PortfolioDone(v, l))

Unoffered == Step \ {"graph", "metrics", "replay", "portfolio"}

Working(v, n, mem, l, S, R, whole) ==
  /\ MetricsOf(v, mem.metrics, l, S, R)
  /\ PortfolioOf(v, mem.portfolio, l)
  /\ v.loaded /\ v.step = "metrics" => MetricsOf(v, v.copy.metrics, l, S, R)
  /\ v.loaded /\ v.step = "portfolio" => PortfolioOf(v, v.copy.portfolio, l)
  /\ OwesPortfolio(v) => Len(l) > 0 /\ l[Len(l)] = v.entry
  /\ whole = (v.step # "newline")
  /\ v.entry.run <= n
  /\ v.cmd = "cycle" /\ v.step \in Unoffered => \A s \in S : s.run # v.entry.run

Settled(mem, l, S, R, whole) ==
  /\ MetricsAgree(mem.metrics, l, Len(l), Cardinality(S), Cardinality(R))
  /\ PortfolioAgrees(mem.portfolio, l, Len(l))
  /\ whole = TRUE

Undisturbed == alone /\ deaths = 0

MatchInv ==
  Undisturbed =>
    /\ torn = {} /\ glued = {}
    /\ \A s \in summaries : s.run <= serial
    /\ \A p \in Proc : proc[p] # Idle =>
         Working(proc[p], serial, memory, log, summaries, replays, ended)
    /\ (\A p \in Proc : proc[p] = Idle) => Settled(memory, log, summaries, replays, ended)
LEMMA StatusApart ==
  ASSUME NEW e \in Entry
  PROVE  /\ "candidates" \in RunCounters(e) <=> Status(e) = "candidate"
         /\ RunCounters(e) \cap {"replay_passed", "replay_failed", "replay_failed_runs"} = {}
         /\ RunCounters(e) \subseteq Counter
<1>1. Outcome(e) \in {"duplicate", "already_promoted", "passed", "cosmetic", "cargo_gate"}
  BY DEF Outcome
<1>2. /\ OutcomeCounters[Outcome(e)] \subseteq
           {"safety_rejected", "duplicate_rejected", "already_promoted", "passed",
            "cosmetic_rejected", "failed", "cargo_gate_failed"}
  BY <1>1 DEF OutcomeCounters
<1>3. RunCounters(e) \subseteq
        {"total", "candidates", "promoted"} \cup OutcomeCounters[Outcome(e)]
  BY DEF RunCounters
<1>4. "candidates" \in RunCounters(e) <=> Status(e) = "candidate"
  BY <1>2 DEF RunCounters
<1> HIDE DEF Outcome
<1>5. \A c \in RunCounters(e) :
        c \in {"total", "candidates", "promoted", "safety_rejected", "duplicate_rejected",
               "already_promoted", "passed", "cosmetic_rejected", "failed", "cargo_gate_failed"}
  BY <1>2, <1>3
<1>6. RunCounters(e) \subseteq Counter BY <1>5 DEF Counter
<1> QED BY <1>4, <1>5, <1>6

(* One more entry is counted where it should be. *)
LEMMA CountNext ==
  ASSUME NEW n \in Nat, NEW S, NEW T, S \subseteq 1..n,
         T = S \/ T = S \cup {n + 1}
  PROVE  /\ Cardinality(S) \in Nat /\ IsFiniteSet(S)
         /\ n + 1 \in T => Cardinality(T) = Cardinality(S) + 1
         /\ n + 1 \notin T => Cardinality(T) = Cardinality(S)
<1>1. IsFiniteSet(1..n) BY FS_Interval
<1>2. IsFiniteSet(S) BY <1>1, FS_Subset
<1>3. Cardinality(S) \in Nat BY <1>2, FS_CardinalityType
<1>4. n + 1 \notin S OBVIOUS
<1>5. Cardinality(S \cup {n + 1}) = Cardinality(S) + 1 BY <1>2, <1>4, FS_AddElement
<1> QED BY <1>2, <1>3, <1>4, <1>5

LEMMA RunsNext ==
  ASSUME NEW l, NEW n \in Nat, NEW c
  PROVE  /\ Cardinality(Runs(l, n, c)) \in Nat
         /\ c \in RunCounters(l[n + 1])
              => Cardinality(Runs(l, n + 1, c)) = Cardinality(Runs(l, n, c)) + 1
         /\ c \notin RunCounters(l[n + 1])
              => Cardinality(Runs(l, n + 1, c)) = Cardinality(Runs(l, n, c))
<1> PICK S : S = Runs(l, n, c) OBVIOUS
<1> PICK T : T = Runs(l, n + 1, c) OBVIOUS
<1>1. S \subseteq 1..n BY DEF Runs
<1>2. 1..(n + 1) = (1..n) \cup {n + 1} OBVIOUS
<1>3. n + 1 \in T <=> c \in RunCounters(l[n + 1]) BY DEF Runs
<1>4. T = IF c \in RunCounters(l[n + 1]) THEN S \cup {n + 1} ELSE S BY <1>2 DEF Runs
<1> QED BY <1>1, <1>3, <1>4, CountNext

LEMMA SharesNext ==
  ASSUME NEW l, NEW n \in Nat, NEW k, NEW c
  PROVE  /\ Cardinality(Shares(l, n, k, c)) \in Nat
         /\ KindOf[l[n + 1].digest] = k /\ c \in KindShare(l[n + 1])
              => Cardinality(Shares(l, n + 1, k, c)) = Cardinality(Shares(l, n, k, c)) + 1
         /\ ~ (KindOf[l[n + 1].digest] = k /\ c \in KindShare(l[n + 1]))
              => Cardinality(Shares(l, n + 1, k, c)) = Cardinality(Shares(l, n, k, c))
<1> PICK S : S = Shares(l, n, k, c) OBVIOUS
<1> PICK T : T = Shares(l, n + 1, k, c) OBVIOUS
<1>1. S \subseteq 1..n BY DEF Shares
<1>2. 1..(n + 1) = (1..n) \cup {n + 1} OBVIOUS
<1>3. n + 1 \in T <=> KindOf[l[n + 1].digest] = k /\ c \in KindShare(l[n + 1]) BY DEF Shares
<1>4. T = IF KindOf[l[n + 1].digest] = k /\ c \in KindShare(l[n + 1]) THEN S \cup {n + 1} ELSE S
  BY <1>2 DEF Shares
<1> QED BY <1>1, <1>3, <1>4, CountNext

(* Metrics that count an entry more. *)
LEMMA RunCounted ==
  ASSUME NEW l, NEW n \in Nat, NEW m \in [Counter -> Nat], NEW offers \in Int, NEW tried \in Nat,
         l[n + 1] \in Entry, MetricsAgree(m, l, n, offers, tried)
  PROVE  MetricsAgree(Raised(m, RunCounters(l[n + 1])), l, n + 1,
                      IF Status(l[n + 1]) = "candidate" THEN offers + 1 ELSE offers, tried)
<1> PICK C : C = RunCounters(l[n + 1]) OBVIOUS
<1> PICK r : r = Raised(m, C) OBVIOUS
<1>1. \A c \in Counter : r[c] = IF c \in C THEN m[c] + 1 ELSE m[c] BY DEF Raised
<1>2. /\ "candidates" \in C <=> Status(l[n + 1]) = "candidate"
      /\ "replay_passed" \notin C /\ "replay_failed" \notin C /\ "replay_failed_runs" \notin C
  BY StatusApart
<1>3. \A c \in Counter \ (Replayed \cup {"candidates"}) :
        r[c] = Cardinality(Runs(l, n + 1, c))
  BY <1>1, RunsNext DEF MetricsAgree
<1>4. "failed" \in Counter /\ "candidates" \in Counter /\ "replay_failed" \in Counter
      /\ "replay_passed" \in Counter /\ "replay_failed_runs" \in Counter
  BY DEF Counter
<1>5. r["candidates"] = IF Status(l[n + 1]) = "candidate" THEN offers + 1 ELSE offers
  BY <1>1, <1>2, <1>4 DEF MetricsAgree
<1>6. /\ r["replay_failed"] = m["replay_failed"] /\ r["replay_passed"] = m["replay_passed"]
      /\ r["replay_failed_runs"] = m["replay_failed_runs"]
  BY <1>1, <1>2, <1>4
<1>7. r["failed"] = Cardinality(Runs(l, n + 1, "failed")) + r["replay_failed"]
  <2>1. m["failed"] = Cardinality(Runs(l, n, "failed")) + m["replay_failed"]
    BY DEF MetricsAgree
  <2>2. m["replay_failed"] \in Nat BY <1>4
  <2>3. Cardinality(Runs(l, n, "failed")) \in Nat BY RunsNext
  <2>4. CASE "failed" \in C
    <3>1. Cardinality(Runs(l, n + 1, "failed")) = Cardinality(Runs(l, n, "failed")) + 1
      BY <2>4, RunsNext
    <3> QED BY <1>1, <1>4, <1>6, <2>1, <2>2, <2>3, <2>4, <3>1
  <2>5. CASE "failed" \notin C
    <3>1. Cardinality(Runs(l, n + 1, "failed")) = Cardinality(Runs(l, n, "failed"))
      BY <2>5, RunsNext
    <3> QED BY <1>1, <1>4, <1>6, <2>1, <2>5, <3>1
  <2> QED BY <2>4, <2>5
<1> QED BY <1>3, <1>5, <1>6, <1>7 DEF MetricsAgree

(* Metrics that count a replay more. *)
LEMMA ReplayCounted ==
  ASSUME NEW l, NEW n \in Nat, NEW m \in [Counter -> Nat], NEW offers, NEW tried \in Nat,
         NEW ok \in BOOLEAN, MetricsAgree(m, l, n, offers, tried)
  PROVE  MetricsAgree(Raised(m, ReplayCounters(ok)), l, n, offers, tried + 1)
<1> PICK C : C = ReplayCounters(ok) OBVIOUS
<1> PICK r : r = Raised(m, C) OBVIOUS
<1>1. \A c \in Counter : r[c] = IF c \in C THEN m[c] + 1 ELSE m[c] BY DEF Raised
<1>2. C = IF ok THEN {"replay_passed"} ELSE {"replay_failed", "replay_failed_runs", "failed"}
  BY DEF ReplayCounters
<1>3. \A c \in Counter \ (Replayed \cup {"candidates"}) : r[c] = m[c]
  BY <1>1, <1>2 DEF Replayed
<1>4. "failed" \in Counter /\ "candidates" \in Counter /\ "replay_failed" \in Counter
      /\ "replay_passed" \in Counter /\ "replay_failed_runs" \in Counter
  BY DEF Counter
<1>5. r["candidates"] = m["candidates"] BY <1>1, <1>2, <1>4
<1>6. Cardinality(Runs(l, n, "failed")) \in Nat BY RunsNext
<1>7. /\ m["failed"] \in Nat /\ m["replay_failed"] \in Nat /\ m["replay_passed"] \in Nat
      /\ m["replay_failed_runs"] \in Nat
  BY <1>4
<1>8. CASE ok
  <2>1. /\ r["failed"] = m["failed"] /\ r["replay_failed"] = m["replay_failed"]
        /\ r["replay_passed"] = m["replay_passed"] + 1
        /\ r["replay_failed_runs"] = m["replay_failed_runs"]
    BY <1>1, <1>2, <1>4, <1>8
  <2> QED BY <1>3, <1>5, <1>7, <2>1 DEF MetricsAgree
<1>9. CASE ~ ok
  <2>1. /\ r["failed"] = m["failed"] + 1 /\ r["replay_failed"] = m["replay_failed"] + 1
        /\ r["replay_passed"] = m["replay_passed"]
        /\ r["replay_failed_runs"] = m["replay_failed_runs"] + 1
    BY <1>1, <1>2, <1>4, <1>9
  <2>2. r["failed"] = Cardinality(Runs(l, n, "failed")) + r["replay_failed"]
    BY <1>6, <1>7, <2>1 DEF MetricsAgree
  <2>3. r["replay_passed"] + r["replay_failed"] >= tried + 1
    BY <1>7, <2>1 DEF MetricsAgree
  <2> QED BY <1>3, <1>5, <2>1, <2>2, <2>3 DEF MetricsAgree
<1> QED BY <1>8, <1>9

LEMMA SharesCounted ==
  ASSUME NEW l, NEW n \in Nat, NEW f \in [Kinds -> [Share -> Nat]],
         l[n + 1] \in Entry, PortfolioAgrees(f, l, n)
  PROVE  PortfolioAgrees([f EXCEPT ![KindOf[l[n + 1].digest]] = Raised(@, KindShare(l[n + 1]))],
                         l, n + 1)
<1> PICK e : e = l[n + 1] OBVIOUS
<1> PICK j : j = KindOf[e.digest] OBVIOUS
<1> PICK g : g = [f EXCEPT ![j] = Raised(@, KindShare(e))] OBVIOUS
<1>1. ASSUME NEW k \in Kinds, NEW c \in Share \ {"replay_passed"}
      PROVE  g[k][c] = Cardinality(Shares(l, n + 1, k, c))
  <2>1. f[k] \in [Share -> Nat] OBVIOUS
  <2>2. f[k][c] = Cardinality(Shares(l, n, k, c)) BY DEF PortfolioAgrees
  <2>3. CASE k = j
    <3>1. g[k] = Raised(f[k], KindShare(e)) BY <2>3
    <3>2. g[k][c] = IF c \in KindShare(e) THEN f[k][c] + 1 ELSE f[k][c]
      BY <2>1, <3>1 DEF Raised
    <3> QED BY <2>2, <2>3, <3>2, SharesNext
  <2>4. CASE k # j
    <3>1. g[k] = f[k] BY <2>4
    <3> QED BY <2>2, <2>4, <3>1, SharesNext
  <2> QED BY <2>3, <2>4
<1> QED BY <1>1 DEF PortfolioAgrees

LEMMA ReplaySharesCounted ==
  ASSUME NEW l, NEW n, NEW f \in [Kinds -> [Share -> Nat]], NEW j, NEW d, NEW ok,
         PortfolioAgrees(f, l, n)
  PROVE  PortfolioAgrees([f EXCEPT ![j] = Raised(@, ReplayShare(d, ok))], l, n)
<1> PICK C : C = ReplayShare(d, ok) OBVIOUS
<1> PICK g : g = [f EXCEPT ![j] = Raised(@, C)] OBVIOUS
<1>1. C \subseteq {"replay_passed"} BY DEF ReplayShare
<1>2. ASSUME NEW k \in Kinds, NEW c \in Share \ {"replay_passed"} PROVE g[k][c] = f[k][c]
  <2>1. f[k] \in [Share -> Nat] /\ c \notin C BY <1>1
  <2>2. Raised(f[k], C)[c] = f[k][c] BY <2>1 DEF Raised
  <2> QED BY <2>2
<1> QED BY <1>2 DEF PortfolioAgrees

(* An entry that is written is not counted yet. *)
LEMMA WrittenUncounted ==
  ASSUME NEW l \in Seq(Entry), NEW e \in Entry
  PROVE  /\ \A m, offers, tried : MetricsAgree(m, l, Len(l), offers, tried)
              => MetricsAgree(m, Append(l, e), Len(l), offers, tried)
         /\ \A f : PortfolioAgrees(f, l, Len(l)) => PortfolioAgrees(f, Append(l, e), Len(l))
<1> PICK k : k = Append(l, e) OBVIOUS
<1> PICK n \in Nat : n = Len(l) OBVIOUS
<1>1. \A i \in 1..n : k[i] = l[i] OBVIOUS
<1>2. \A c : Runs(k, n, c) = Runs(l, n, c) BY <1>1 DEF Runs
<1>3. \A j, c : Shares(k, n, j, c) = Shares(l, n, j, c) BY <1>1 DEF Shares
<1>4. ASSUME NEW m, NEW offers, NEW tried, MetricsAgree(m, l, n, offers, tried)
      PROVE  MetricsAgree(m, k, n, offers, tried)
  BY <1>2, <1>4 DEF MetricsAgree
<1>5. ASSUME NEW f, PortfolioAgrees(f, l, n) PROVE PortfolioAgrees(f, k, n)
  BY <1>3, <1>5 DEF PortfolioAgrees
<1> QED BY <1>4, <1>5

(* What a refresh computes agrees with the files. *)
LEMMA FreshMetrics ==
  ASSUME TypeInv
  PROVE  MetricsAgree(MetricsFromFiles, log, Len(log), Cardinality(summaries),
                      Cardinality(replays))
<1> PICK ok : ok = {r \in replays : ReplayOk(r)} OBVIOUS
<1>1. DOMAIN log = 1..Len(log) BY DEF TypeInv, TypeOK
<1>2. \A c : {i \in DOMAIN log : c \in RunCounters(log[i])} = Runs(log, Len(log), c)
  BY <1>1 DEF Runs
<1>3. MetricsFromFiles =
        [c \in Counter |->
          CASE c = "candidates" -> Cardinality(summaries)
            [] c = "replay_passed" -> Cardinality(ok)
            [] c \in {"replay_failed", "replay_failed_runs"} -> Cardinality(replays \ ok)
            [] c = "failed" -> Cardinality(Runs(log, Len(log), c)) + Cardinality(replays \ ok)
            [] OTHER -> Cardinality(Runs(log, Len(log), c))]
  BY <1>2 DEF MetricsFromFiles
<1>4. IsFiniteSet(replays) /\ ok \subseteq replays BY DEF TypeInv, FilesFinite
<1>5. Cardinality(replays \ ok) = Cardinality(replays) - Cardinality(ok)
  <2>1. replays \cap ok = ok BY <1>4
  <2> QED BY <1>4, <2>1, FS_Difference
<1>6. Cardinality(replays) \in Nat /\ Cardinality(ok) \in Nat
  BY <1>4, FS_Subset, FS_CardinalityType
<1> PICK fresh : fresh = MetricsFromFiles OBVIOUS
<1>7. \A c \in Counter \ (Replayed \cup {"candidates"}) :
        fresh[c] = Cardinality(Runs(log, Len(log), c))
  BY <1>3 DEF Replayed
<1>8. /\ fresh["candidates"] = Cardinality(summaries)
      /\ fresh["replay_passed"] = Cardinality(ok)
      /\ fresh["replay_failed"] = Cardinality(replays \ ok)
      /\ fresh["replay_failed_runs"] = Cardinality(replays \ ok)
      /\ fresh["failed"] = Cardinality(Runs(log, Len(log), "failed")) + Cardinality(replays \ ok)
  BY <1>3 DEF Counter
<1>9. fresh["replay_passed"] + fresh["replay_failed"] >= Cardinality(replays)
  BY <1>5, <1>6, <1>8
<1> QED BY <1>7, <1>8, <1>9 DEF MetricsAgree

LEMMA FreshPortfolio ==
  ASSUME TypeInv, glued = {}
  PROVE  PortfolioAgrees(PortfolioFromFiles, log, Len(log))
<1>1. Lines = 1..Len(log) BY DEF Lines, TypeInv, TypeOK
<1>2. \A k, c : {i \in Lines : KindOf[log[i].digest] = k /\ c \in KindShare(log[i])}
                  = Shares(log, Len(log), k, c)
  BY <1>1 DEF Shares
<1>3. ASSUME NEW k \in Kinds, NEW c \in Share \ {"replay_passed"}
      PROVE  PortfolioFromFiles[k][c] = Cardinality(Shares(log, Len(log), k, c))
  <2>1. PortfolioFromFiles[k][c]
          = Cardinality({i \in Lines : KindOf[log[i].digest] = k /\ c \in KindShare(log[i])})
    BY DEF PortfolioFromFiles
  <2> QED BY <1>2, <2>1
<1> QED BY <1>3 DEF PortfolioAgrees

(* At rest the books agree: the property. *)
LEMMA MatchShows == TypeInv /\ MatchInv => UpdatesMatchRefresh
<1> SUFFICES ASSUME TypeInv, MatchInv, alone, deaths = 0, AtRest PROVE UpdatesMatchRefresh
  BY DEF UpdatesMatchRefresh
<1>1. glued = {} /\ Settled(memory, log, summaries, replays, ended)
  <2>1. \A p \in Proc : proc[p] = Idle BY BusyOrIdle DEF AtRest, TypeInv
  <2> QED BY <2>1 DEF MatchInv, Undisturbed
<1> PICK m : m = memory.metrics OBVIOUS
<1> PICK fresh : fresh = MetricsFromFiles OBVIOUS
<1>2. /\ MetricsAgree(m, log, Len(log), Cardinality(summaries), Cardinality(replays))
      /\ MetricsAgree(fresh, log, Len(log), Cardinality(summaries), Cardinality(replays))
      /\ PortfolioAgrees(memory.portfolio, log, Len(log))
      /\ PortfolioAgrees(PortfolioFromFiles, log, Len(log))
  BY <1>1, FreshMetrics, FreshPortfolio DEF Settled
<1>3. memory \in Memory BY DEF TypeInv, TypeOK
<1>4. m \in [Counter -> Nat] /\ fresh \in [Counter -> Nat]
  BY <1>3, MetricsTyped DEF Memory, TypeInv
<1>5. \A c \in Counter \ Replayed : m[c] = fresh[c] BY <1>2 DEF MetricsAgree
<1>6. Except(m, Replayed) = Except(fresh, Replayed)
  BY <1>4, <1>5 DEF Except
<1>7. m["failed"] - m["replay_failed"] = fresh["failed"] - fresh["replay_failed"]
  <2>1. Cardinality(Runs(log, Len(log), "failed")) \in Nat
    <3>1. Len(log) \in Nat BY DEF TypeInv, TypeOK
    <3> QED BY <3>1, RunsNext
  <2>2. m["replay_failed"] \in Nat /\ fresh["replay_failed"] \in Nat BY <1>4 DEF Counter
  <2> QED BY <1>2, <2>1, <2>2 DEF MetricsAgree
<1>8. /\ m["replay_failed_runs"] = m["replay_failed"]
      /\ m["replay_passed"] + m["replay_failed"] >= Cardinality(replays)
  BY <1>2 DEF MetricsAgree
<1>9. ASSUME NEW k \in Kinds
      PROVE  Except(memory.portfolio[k], {"replay_passed"})
               = Except(PortfolioFromFiles[k], {"replay_passed"})
  <2>1. memory.portfolio \in [Kinds -> [Share -> Nat]] BY <1>3 DEF Memory
  <2>2. PortfolioFromFiles \in [Kinds -> [Share -> Nat]] BY PortfolioTyped DEF TypeInv
  <2>3. memory.portfolio[k] \in [Share -> Nat] /\ PortfolioFromFiles[k] \in [Share -> Nat]
    BY <2>1, <2>2
  <2>4. \A c \in Share \ {"replay_passed"} : memory.portfolio[k][c] = PortfolioFromFiles[k][c]
    BY <1>2 DEF PortfolioAgrees
  <2> QED BY <2>3, <2>4 DEF Except
<1> QED BY <1>6, <1>7, <1>8, <1>9 DEF UpdatesMatchRefresh, Replayed

-----------------------------------------------------------------------------
(* The books from step to step *)

SameBooks(v, w) ==
  /\ OwesMetrics(v) <=> OwesMetrics(w)
  /\ OwesPortfolio(v) <=> OwesPortfolio(w)
  /\ OwesOffer(v) <=> OwesOffer(w)
  /\ v.step = "replay" <=> w.step = "replay"

(* A command that goes on owing the same. *)
LEMMA BooksStay ==
  ASSUME NEW v, NEW w, NEW n, NEW mem, NEW l, NEW S, NEW R, NEW whole,
         Working(w, n, mem, l, S, R, whole), SameBooks(v, w), v.entry.run = w.entry.run,
         OwesPortfolio(v) => v.entry = w.entry,
         v.cmd = "cycle" /\ v.step \in Unoffered => w.cmd = "cycle" /\ w.step \in Unoffered,
         v.loaded = FALSE,
         NEW mem2, mem2.metrics = mem.metrics, mem2.portfolio = mem.portfolio
  PROVE  Working(v, n, mem2, l, S, R, v.step # "newline")
<1>1. /\ MetricsDone(v, l) = MetricsDone(w, l) /\ PortfolioDone(v, l) = PortfolioDone(w, l)
      /\ OffersDone(v, S) = OffersDone(w, S) /\ ReplaysDone(v, R) = ReplaysDone(w, R)
  BY DEF SameBooks, MetricsDone, PortfolioDone, OffersDone, ReplaysDone
<1>2. MetricsOf(v, mem2.metrics, l, S, R) /\ PortfolioOf(v, mem2.portfolio, l)
  BY <1>1 DEF Working, MetricsOf, PortfolioOf
<1>3. OwesPortfolio(v) => Len(l) > 0 /\ l[Len(l)] = v.entry BY DEF Working, SameBooks
<1>4. v.entry.run <= n BY DEF Working
<1>5. v.cmd = "cycle" /\ v.step \in Unoffered => \A s \in S : s.run # v.entry.run
  BY DEF Working
<1> QED BY <1>2, <1>3, <1>4, <1>5 DEF Working

(* A step of the only command leads where the books agree. *)
LEMMA MatchTo ==
  ASSUME TypeInv, RejectInv, Undisturbed, NEW p \in Proc, ~ At(p, "idle"), NEW v, Become(p, v),
         torn' = {}, glued' = {}, \A s \in summaries' : s.run <= serial',
         v # Idle => Working(v, serial', memory', log', summaries', replays', ended'),
         v = Idle => Settled(memory', log', summaries', replays', ended')
  PROVE  MatchInv'
<1>1. proc'[p] = v /\ \A q \in Proc \ {p} : proc'[q] = Idle BY OthersIdle DEF Undisturbed
<1>2. ASSUME NEW q \in Proc, proc'[q] # Idle
      PROVE  Working(proc'[q], serial', memory', log', summaries', replays', ended')
  <2>1. q = p BY <1>1, <1>2
  <2> QED BY <1>1, <1>2, <2>1
<1>3. (\A q \in Proc : proc'[q] = Idle) => Settled(memory', log', summaries', replays', ended')
  BY <1>1
<1> QED BY <1>2, <1>3 DEF MatchInv

(* What holds of the only command. *)
LEMMA AtBooks ==
  ASSUME TypeInv, MatchInv, Undisturbed, NEW p \in Proc, ~ At(p, "idle")
  PROVE  /\ Working(proc[p], serial, memory, log, summaries, replays, ended)
         /\ torn = {} /\ glued = {} /\ \A s \in summaries : s.run <= serial
         /\ proc[p] \in ProcState /\ CommandOK(proc[p]) /\ LoadedOK(proc[p]) /\ proc[p] # Idle
         /\ proc[p].cmd \in Command /\ proc[p].step \in StepsOf[proc[p].cmd]
         /\ proc[p].entry \in Entry /\ proc[p].loaded \in BOOLEAN
<1>1. proc[p] \in ProcState /\ proc[p] # Idle BY BusyOrIdle DEF TypeInv, Busy
<1>2. CommandOK(proc[p]) /\ LoadedOK(proc[p]) BY DEF TypeInv, TypeOK
<1>3. /\ proc[p].cmd \in Command /\ proc[p].entry \in Entry /\ proc[p].loaded \in BOOLEAN
  BY <1>1 DEF ProcState
<1>4. proc[p].step \in StepsOf[proc[p].cmd] BY <1>1, <1>2 DEF CommandOK
<1> QED BY <1>1, <1>2, <1>3, <1>4 DEF MatchInv

LEMMA ProceedGoes ==
  ASSUME TypeInv, NEW p \in Proc, ~ At(p, "idle"), Proceed(p)
  PROVE  /\ NextStep(p) = "idle" => Become(p, Idle)
         /\ NextStep(p) # "idle" =>
              \E v : /\ Become(p, v) /\ v # Idle /\ v.step = NextStep(p)
                     /\ v.cmd = proc[p].cmd /\ v.entry = proc[p].entry /\ v.loaded = FALSE
<1>1. Busy(p) BY BusyOrIdle DEF TypeInv
<1>2. CASE NextStep(p) = "idle" BY <1>2 DEF Proceed, Finish
<1>3. CASE NextStep(p) # "idle"
  <2> PICK v : v = [proc[p] EXCEPT !.step = NextStep(p), !.loaded = FALSE, !.copy = NoMemory]
    OBVIOUS
  <2>1. /\ v.step = NextStep(p) /\ v.cmd = proc[p].cmd /\ v.entry = proc[p].entry
        /\ v.loaded = FALSE
    BY <1>1 DEF Busy, ProcState
  <2>2. v # Idle BY <1>3, <2>1 DEF Idle
  <2>3. Become(p, v) BY <1>3 DEF Proceed
  <2> QED BY <1>3, <2>1, <2>2, <2>3
<1> QED BY <1>2, <1>3

(* Steps that count and offer nothing. *)
LEMMA BooksAlong ==
  ASSUME NEW w, NEW v, v.cmd = w.cmd, v.entry = w.entry, w.entry \in Entry,
         w.cmd \in Command, w.step \in StepsOf[w.cmd],
         \/ w.step = "dedup" /\ v.step = IF w.cmd = "cycle" THEN "patterns" ELSE "metrics"
         \/ w.step = "patterns" /\ v.step = "append"
         \/ w.step = "graph" /\ v.step = "metrics"
         \/ w.step = "mutation" /\ v.step = "summary"
         \/ w.step = "newline" /\ v.step = IF w.cmd = "rejected" THEN "dedup"
                                           ELSE IF w.cmd = "promotion" THEN "metrics"
                                           ELSE IF Stored(w.entry) THEN "mutation" ELSE "graph"
  PROVE  /\ SameBooks(v, w) /\ v.step # "newline"
         /\ v.cmd = "cycle" /\ v.step \in Unoffered => w.step \in Unoffered
<1>1. CASE w.step = "dedup"
  <2>1. w.cmd \in {"cycle", "rejected"} BY <1>1 DEF StepsOf, Command
  <2>2. v.step = IF w.cmd = "cycle" THEN "patterns" ELSE "metrics" BY <1>1
  <2> QED BY <1>1, <2>1, <2>2
        DEF SameBooks, OwesMetrics, OwesPortfolio, OwesOffer, Writer, Unoffered, Step
<1>2. CASE w.step \in {"patterns", "mutation"}
  <2>1. w.cmd \in {"cycle", "rejected"} BY <1>2 DEF StepsOf, Command
  <2>2. w.step = "mutation" => w.cmd = "cycle" BY <1>2, <2>1 DEF StepsOf
  <2>3. v.step = IF w.step = "patterns" THEN "append" ELSE "summary" BY <1>2
  <2> QED BY <1>2, <2>1, <2>2, <2>3
        DEF SameBooks, OwesMetrics, OwesPortfolio, OwesOffer, Writer, Unoffered, Step
<1>3. CASE w.step = "graph"
  <2>1. w.cmd = "cycle" BY <1>3 DEF StepsOf, Command
  <2>2. v.step = "metrics" BY <1>3
  <2> QED BY <1>3, <2>1, <2>2
        DEF SameBooks, OwesMetrics, OwesPortfolio, OwesOffer, Writer, Unoffered, Step
<1>4. CASE w.step = "newline"
  <2>1. w.cmd \in {"cycle", "rejected", "promotion"} BY <1>4 DEF StepsOf, Command
  <2>2. v.step = IF w.cmd = "rejected" THEN "dedup"
                 ELSE IF w.cmd = "promotion" THEN "metrics"
                 ELSE IF Stored(w.entry) THEN "mutation" ELSE "graph"
    BY <1>4
  <2>3. ~ Stored(w.entry) => Status(w.entry) # "candidate"
    BY DEF Stored, Status
  <2> QED BY <1>4, <2>1, <2>2, <2>3
        DEF SameBooks, OwesMetrics, OwesPortfolio, OwesOffer, Writer, Unoffered, Step
<1> QED BY <1>1, <1>2, <1>3, <1>4

LEMMA AlongMatches ==
  ASSUME TypeInv, RejectInv, MatchInv, Undisturbed, NEW p \in Proc, ~ At(p, "idle"), Proceed(p),
         proc[p].step \in {"dedup", "patterns", "graph", "mutation", "newline"},
         UNCHANGED <<serial, log, summaries, replays, glued>>, torn' = {}, ended' = TRUE,
         memory'.metrics = memory.metrics, memory'.portfolio = memory.portfolio
  PROVE  MatchInv'
<1> PICK w : w = proc[p] OBVIOUS
<1>1. /\ Working(w, serial, memory, log, summaries, replays, ended)
      /\ glued = {} /\ \A s \in summaries : s.run <= serial
      /\ w.cmd \in Command /\ w.step \in StepsOf[w.cmd] /\ w.entry \in Entry
  BY AtBooks
<1>2. CASE w.step = "newline" => w.cmd \in {"cycle", "rejected", "promotion"}
  <2>1. \/ w.step = "dedup" /\ NextStep(p) = IF w.cmd = "cycle" THEN "patterns" ELSE "metrics"
        \/ w.step = "patterns" /\ NextStep(p) = "append"
        \/ w.step = "graph" /\ NextStep(p) = "metrics"
        \/ w.step = "mutation" /\ NextStep(p) = "summary"
        \/ w.step = "newline" /\ NextStep(p) = IF w.cmd = "rejected" THEN "dedup"
                                               ELSE IF w.cmd = "promotion" THEN "metrics"
                                               ELSE IF Stored(w.entry) THEN "mutation" ELSE "graph"
    BY DEF NextStep, At, Held
  <2>2. NextStep(p) # "idle" BY <2>1
  <2>3. PICK v : /\ Become(p, v) /\ v # Idle /\ v.step = NextStep(p)
                 /\ v.cmd = w.cmd /\ v.entry = w.entry /\ v.loaded = FALSE
    BY <2>2, ProceedGoes
  <2>4. /\ SameBooks(v, w) /\ v.step # "newline"
        /\ v.cmd = "cycle" /\ v.step \in Unoffered => w.step \in Unoffered
    BY <1>1, <2>1, <2>3, BooksAlong
  <2>5. Working(v, serial, memory', log, summaries, replays, v.step # "newline")
    BY <1>1, <2>3, <2>4, BooksStay
  <2>6. Working(v, serial', memory', log', summaries', replays', ended')
    BY <2>4, <2>5
  <2> QED BY <1>1, <2>3, <2>6, MatchTo
<1>3. w.step = "newline" => w.cmd \in {"cycle", "rejected", "promotion"}
  BY <1>1 DEF StepsOf, Command
<1> QED BY <1>2, <1>3

LEMMA BeginMatches ==
  ASSUME TypeInv, MatchInv, Undisturbed', NEW p \in Proc, NEW cmd, NEW step, NEW e,
         Begin(p, cmd, step, e), e.run <= serial + 1, cmd = "cycle" => e.run = serial + 1,
         cmd \in Writer => step \in {"copy", "patterns", "append"},
         step # "newline", step # "replay"
  PROVE  MatchInv'
<1> PICK v : v = Started(cmd, step, e) OBVIOUS
<1>1. v.cmd = cmd /\ v.step = step /\ v.entry = e /\ v.loaded = FALSE BY DEF Started
<1>2. /\ Become(p, v) /\ UNCHANGED <<torn, glued, memory, log, summaries, replays, ended>>
      /\ serial' = serial + 1 /\ Undisturbed
  BY DEF Begin, Undisturbed
<1>3. \A q \in Proc : proc[q] = Idle BY BusyOrIdle DEF Begin, TypeInv, Undisturbed
<1>4. proc'[p] = v /\ \A q \in Proc \ {p} : proc'[q] = Idle BY <1>2, <1>3, OthersStay
<1>5. /\ torn = {} /\ glued = {} /\ \A s \in summaries : s.run <= serial
      /\ Settled(memory, log, summaries, replays, ended)
  BY <1>2, <1>3 DEF MatchInv
<1>6. serial \in Nat /\ \A s \in summaries : s.run \in Nat BY DEF TypeInv, TypeOK, Summary
<1>7. \A s \in summaries : s.run <= serial + 1 /\ s.run # serial + 1 BY <1>5, <1>6
<1>8. ~ OwesMetrics(v) /\ ~ OwesPortfolio(v) /\ ~ OwesOffer(v) /\ v.step # "replay"
  BY <1>1 DEF OwesMetrics, OwesPortfolio, OwesOffer, Writer
<1>9. /\ MetricsOf(v, memory.metrics, log, summaries, replays)
      /\ PortfolioOf(v, memory.portfolio, log) /\ ended = TRUE
  BY <1>5, <1>8
     DEF Settled, MetricsOf, PortfolioOf, MetricsDone, PortfolioDone, OffersDone, ReplaysDone
<1>10. Working(v, serial + 1, memory, log, summaries, replays, ended)
  <2>1. v.cmd = "cycle" => \A s \in summaries : s.run # v.entry.run BY <1>1, <1>7
  <2> QED BY <1>1, <1>8, <1>9, <2>1 DEF Working
<1>11. \A s \in summaries' : s.run <= serial' BY <1>2, <1>7
<1>12. ASSUME NEW q \in Proc, proc'[q] # Idle
       PROVE  Working(proc'[q], serial', memory', log', summaries', replays', ended')
  <2>1. proc'[q] = v BY <1>4, <1>12
  <2> QED BY <1>2, <1>10, <2>1
<1>13. (\A q \in Proc : proc'[q] = Idle) => Settled(memory', log', summaries', replays', ended')
  BY <1>2, <1>5
<1> QED BY <1>2, <1>5, <1>11, <1>12, <1>13 DEF MatchInv

LEMMA BeginsMatch ==
  ASSUME TypeInv, MatchInv, Undisturbed', NEW p \in Proc,
         \/ \E d \in Digest, t \in Pattern : BeginCycle(p, d, t) \/ BeginRejected(p, d, t)
         \/ \E s \in summaries : BeginReplay(p, s) \/ BeginPromotion(p, s)
         \/ BeginRefresh(p)
  PROVE  MatchInv'
<1>1. serial \in Nat BY DEF TypeInv, TypeOK
<1>2. \A d, t : NewEntry(d, t).run = serial + 1 BY DEF NewEntry
<1>3. ASSUME NEW d \in Digest, NEW t \in Pattern, BeginCycle(p, d, t) PROVE MatchInv'
  <2>1. Begin(p, "cycle", "copy", NewEntry(d, t)) BY <1>3 DEF BeginCycle
  <2> PICK e : e = NewEntry(d, t) OBVIOUS
  <2>2. e.run = serial + 1 BY <1>2
  <2>3. e.run <= serial + 1 BY <1>1, <2>2
  <2> QED BY <2>1, <2>2, <2>3, BeginMatches
<1>4. ASSUME NEW d \in Digest, NEW t \in Pattern, BeginRejected(p, d, t) PROVE MatchInv'
  <2> PICK e : e = [NewEntry(d, t) EXCEPT !.duplicate = TRUE] OBVIOUS
  <2>1. Begin(p, "rejected", "patterns", e) BY <1>4 DEF BeginRejected
  <2>2. e.run = serial + 1 BY DEF NewEntry
  <2>3. e.run <= serial + 1 BY <1>1, <2>2
  <2> QED BY <2>1, <2>3, BeginMatches
<1>5. ASSUME NEW s \in summaries, BeginReplay(p, s) PROVE MatchInv'
  <2> PICK e : e = [NewEntry(s.digest, NoPattern) EXCEPT !.run = s.run, !.gates = s.gates]
    OBVIOUS
  <2>1. Begin(p, "replay", "copy", e) BY <1>5 DEF BeginReplay
  <2>2. e.run = s.run BY DEF NewEntry
  <2>3. s.run <= serial /\ s.run \in Nat
    <3>1. \A q \in Proc : proc[q] = Idle
      BY <2>1, BusyOrIdle DEF Begin, TypeInv, Undisturbed
    <3>2. Undisturbed BY <2>1 DEF Begin, Undisturbed
    <3> QED BY <3>1, <3>2 DEF MatchInv, TypeInv, TypeOK, Summary
  <2>4. e.run <= serial + 1 BY <1>1, <2>2, <2>3
  <2> QED BY <2>1, <2>4, BeginMatches DEF Writer
<1>6. ASSUME NEW s \in summaries, BeginPromotion(p, s) PROVE MatchInv'
  <2> PICK e : e = [NewEntry(s.digest, NoPattern) EXCEPT !.gates = 2, !.retained = TRUE,
                                                         !.destroyed = FALSE]
    OBVIOUS
  <2>1. Begin(p, "promotion", "append", e) BY <1>6 DEF BeginPromotion
  <2>2. e.run = serial + 1 BY DEF NewEntry
  <2>3. e.run <= serial + 1 BY <1>1, <2>2
  <2> QED BY <2>1, <2>3, BeginMatches
<1>7. CASE BeginRefresh(p)
  <2> PICK e : e = NewEntry(NoDigest, NoPattern) OBVIOUS
  <2>1. e.run <= serial + 1 BY <1>1, <1>2
  <2>2. CASE Begin(p, "refresh_metrics", "metrics", e)
    BY <2>1, <2>2, BeginMatches DEF Writer
  <2>3. CASE Begin(p, "refresh_portfolio", "portfolio", e)
    BY <2>1, <2>3, BeginMatches DEF Writer
  <2> QED BY <1>7, <2>2, <2>3 DEF BeginRefresh
<1> QED BY <1>3, <1>4, <1>5, <1>6, <1>7

(* A command that ends, or goes on, before it has written anything. *)
LEMMA EarlyMatches ==
  ASSUME TypeInv, RejectInv, MatchInv, Undisturbed, NEW p \in Proc,
         proc[p].step \in {"copy", "trial", "destroy"}, NEW v, Become(p, v),
         UNCHANGED <<serial, memory, torn, log, ended, glued, summaries, replays>>,
         v # Idle => /\ v.cmd = proc[p].cmd /\ v.entry.run = proc[p].entry.run
                     /\ v.loaded = FALSE
                     /\ v.step \in {"trial", "destroy"}
                        \/ v.step = IF v.cmd = "replay" THEN "metrics" ELSE "dedup"
  PROVE  MatchInv'
<1> PICK w : w = proc[p] OBVIOUS
<1>1. ~ At(p, "idle") BY DEF At
<1>2. /\ Working(w, serial, memory, log, summaries, replays, ended)
      /\ torn = {} /\ glued = {} /\ \A s \in summaries : s.run <= serial
      /\ w.cmd \in Command /\ w.step \in StepsOf[w.cmd]
  BY <1>1, AtBooks
<1>3. w.cmd \in {"cycle", "replay"} BY <1>2 DEF StepsOf, Command
<1>4. ~ OwesMetrics(w) /\ ~ OwesPortfolio(w) /\ ~ OwesOffer(w) /\ w.step # "replay"
      /\ w.step \in Unoffered /\ w.step # "newline"
  BY <1>3 DEF OwesMetrics, OwesPortfolio, OwesOffer, Writer, Unoffered, Step
<1>5. ended = TRUE BY <1>2, <1>4 DEF Working
<1>6. CASE v = Idle
  <2>1. Settled(memory, log, summaries, replays, ended)
    BY <1>2, <1>4, <1>5
       DEF Working, Settled, MetricsOf, PortfolioOf, MetricsDone, PortfolioDone, OffersDone,
           ReplaysDone
  <2> QED BY <1>1, <1>2, <1>6, <2>1, MatchTo
<1>7. CASE v # Idle
  <2>1. ~ OwesMetrics(v) /\ ~ OwesPortfolio(v) /\ ~ OwesOffer(v) /\ v.step # "replay"
        /\ v.step # "newline"
    BY <1>3, <1>7 DEF OwesMetrics, OwesPortfolio, OwesOffer, Writer
  <2>2. SameBooks(v, w) BY <1>4, <2>1 DEF SameBooks
  <2>3. Working(v, serial, memory, log, summaries, replays, v.step # "newline")
    BY <1>2, <1>3, <1>4, <1>7, <2>1, <2>2, BooksStay
  <2>4. Working(v, serial', memory', log', summaries', replays', ended')
    BY <1>5, <2>1, <2>3
  <2> QED BY <1>1, <1>2, <1>7, <2>4, MatchTo
<1> QED BY <1>6, <1>7

LEMMA TrialMatches ==
  ASSUME TypeInv, RejectInv, MatchInv, Undisturbed, NEW p \in Proc,
         Copy(p) \/ Trial(p) \/ Destroy(p)
  PROVE  MatchInv'
<1> PICK w : w = proc[p] OBVIOUS
<1>1. proc[p].step \in {"copy", "trial", "destroy"} BY DEF Copy, Trial, Destroy, At
<1>2. ~ At(p, "idle") BY <1>1 DEF At
<1>3. w \in ProcState /\ w.loaded = FALSE
  BY <1>1, <1>2, AtBooks DEF LoadedOK, StoreStep, ProcState
<1>4. UNCHANGED <<serial, memory, torn, log, ended, glued, summaries, replays>>
  BY DEF Copy, Trial, Destroy
<1>5. CASE Finish(p) BY <1>1, <1>4, <1>5, EarlyMatches DEF Finish
<1>6. ASSUME NEW step \in {"trial", "destroy"}, Go(p, step) PROVE MatchInv'
  <2> PICK v : v = [w EXCEPT !.step = step] OBVIOUS
  <2>1. v.cmd = w.cmd /\ v.entry = w.entry /\ v.step = step /\ v.loaded = FALSE
    BY <1>3 DEF ProcState
  <2> QED BY <1>1, <1>4, <1>6, <2>1, EarlyMatches DEF Go
<1>7. ASSUME NEW t, NEW m, NEW g,
             Become(p, [proc[p] EXCEPT !.step = "destroy", !.tried = t, !.matches = m,
                                       !.entry.gates = g])
      PROVE  MatchInv'
  <2> PICK v : v = [w EXCEPT !.step = "destroy", !.tried = t, !.matches = m, !.entry.gates = g]
    OBVIOUS
  <2>1. v.cmd = w.cmd /\ v.entry.run = w.entry.run /\ v.step = "destroy" /\ v.loaded = FALSE
    BY <1>3 DEF ProcState, Entry
  <2> QED BY <1>1, <1>4, <1>7, <2>1, EarlyMatches
<1>8. ASSUME NEW b, NEW step, step = IF w.cmd = "replay" THEN "metrics" ELSE "dedup",
             Become(p, [proc[p] EXCEPT !.step = step, !.entry.destroyed = b])
      PROVE  MatchInv'
  <2> PICK v : v = [w EXCEPT !.step = step, !.entry.destroyed = b] OBVIOUS
  <2>1. v.cmd = w.cmd /\ v.entry.run = w.entry.run /\ v.step = step /\ v.loaded = FALSE
    BY <1>3 DEF ProcState, Entry
  <2> QED BY <1>1, <1>4, <1>8, <2>1, EarlyMatches
<1>9. CASE Copy(p) BY <1>5, <1>6, <1>9 DEF Copy
<1>10. CASE Trial(p)
  <2>1. CASE Go(p, "destroy") BY <1>6, <2>1
  <2>2. CASE ~ Go(p, "destroy") BY <1>7, <1>10, <2>2 DEF Trial
  <2> QED BY <2>1, <2>2
<1>11. CASE Destroy(p) BY <1>5, <1>8, <1>11 DEF Destroy
<1> QED BY <1>9, <1>10, <1>11

LEMMA LoadMatches ==
  ASSUME TypeInv, RejectInv, MatchInv, Undisturbed, NEW p \in Proc, Load(p) \/ Recount(p)
  PROVE  MatchInv'
<1> PICK w : w = proc[p] OBVIOUS
<1>1. ~ At(p, "idle")
  <2>1. CASE Load(p) BY <2>1, StoreOfTyped DEF Load, TypeInv
  <2>2. CASE Recount(p) BY <2>2 DEF Recount
  <2> QED BY <2>1, <2>2
<1>2. /\ Working(w, serial, memory, log, summaries, replays, ended)
      /\ torn = {} /\ glued = {} /\ \A s \in summaries : s.run <= serial
      /\ w \in ProcState /\ w.cmd \in Command /\ w.step \in StepsOf[w.cmd]
  BY <1>1, AtBooks
<1>3. w.loaded = FALSE BY <1>2 DEF Load, Recount, ProcState
<1>4. UNCHANGED <<serial, memory, torn, log, ended, glued, summaries, replays>>
  BY DEF Load, Recount
<1>5. ASSUME NEW s, NEW x, Loaded(p, s, x),
             w.step = "metrics" => s = "metrics" /\ MetricsOf(w, x, log, summaries, replays),
             w.step = "portfolio" => s = "portfolio" /\ PortfolioOf(w, x, log)
      PROVE  MatchInv'
  <2> PICK v : v = [w EXCEPT !.loaded = TRUE, !.copy = [NoMemory EXCEPT ![s] = x]] OBVIOUS
  <2>1. /\ v.cmd = w.cmd /\ v.entry = w.entry /\ v.step = w.step
        /\ v.copy = [NoMemory EXCEPT ![s] = x]
    BY <1>2 DEF ProcState
  <2>2. w.step = "metrics" => v.copy.metrics = x BY <1>5, <2>1 DEF NoMemory
  <2>3. w.step = "portfolio" => v.copy.portfolio = x BY <1>5, <2>1 DEF NoMemory
  <2>4. (OwesMetrics(v) <=> OwesMetrics(w)) /\ (OwesPortfolio(v) <=> OwesPortfolio(w))
        /\ (OwesOffer(v) <=> OwesOffer(w))
    BY <2>1 DEF OwesMetrics, OwesPortfolio, OwesOffer
  <2>5. /\ \A m : MetricsOf(v, m, log, summaries, replays)
                    <=> MetricsOf(w, m, log, summaries, replays)
        /\ \A f : PortfolioOf(v, f, log) <=> PortfolioOf(w, f, log)
    BY <2>1, <2>4
       DEF MetricsOf, PortfolioOf, MetricsDone, PortfolioDone, OffersDone, ReplaysDone
  <2>6. Working(v, serial, memory, log, summaries, replays, ended)
    <3>1. /\ MetricsOf(v, memory.metrics, log, summaries, replays)
          /\ PortfolioOf(v, memory.portfolio, log)
      BY <1>2, <2>5 DEF Working
    <3>2. v.loaded /\ v.step = "metrics" => MetricsOf(v, v.copy.metrics, log, summaries, replays)
      BY <1>5, <2>1, <2>2, <2>5
    <3>3. v.loaded /\ v.step = "portfolio" => PortfolioOf(v, v.copy.portfolio, log)
      BY <1>5, <2>1, <2>3, <2>5
    <3> QED BY <1>2, <2>1, <2>4, <3>1, <3>2, <3>3 DEF Working
  <2>7. Become(p, v) BY <1>5 DEF Loaded
  <2>8. v # Idle
    <3>1. w.step # "idle" BY <1>1 DEF At
    <3> QED BY <2>1, <3>1 DEF Idle
  <2> QED BY <1>1, <1>2, <1>4, <2>6, <2>7, <2>8, MatchTo
<1>6. CASE Load(p)
  <2>1. ~ MidWrite(StoreOf(p))
    <3>1. \A q \in Proc \ {p} : proc[q] = Idle
      BY <1>1, BusyOrIdle DEF RejectInv, AtMostOne, Undisturbed, TypeInv
    <3>2. Idle.step = "idle" BY DEF Idle
    <3> QED BY <1>3, <3>1, <3>2 DEF MidWrite, At
  <2>2. Loaded(p, StoreOf(p), memory[StoreOf(p)]) BY <1>2, <1>6, <2>1 DEF Load
  <2>3. w.step = "metrics" => StoreOf(p) = "metrics" BY DEF StoreOf, At
  <2>4. w.step = "portfolio" => StoreOf(p) = "portfolio" BY DEF StoreOf, At
  <2> PICK x : x = memory[StoreOf(p)] OBVIOUS
  <2>5. w.step = "metrics" => MetricsOf(w, x, log, summaries, replays)
    BY <1>2, <2>3 DEF Working
  <2>6. w.step = "portfolio" => PortfolioOf(w, x, log) BY <1>2, <2>4 DEF Working
  <2> QED BY <1>5, <2>2, <2>3, <2>4, <2>5, <2>6
<1>7. CASE Recount(p)
  <2>1. w.cmd \in {"refresh_metrics", "refresh_portfolio"}
    BY <1>7 DEF Recount, Refreshing
  <2>2. w.step = IF w.cmd = "refresh_metrics" THEN "metrics" ELSE "portfolio"
    BY <1>2, <2>1 DEF StepsOf
  <2>3. ~ OwesMetrics(w) /\ ~ OwesPortfolio(w) /\ ~ OwesOffer(w) /\ w.step # "replay"
    BY <2>1, <2>2 DEF OwesMetrics, OwesPortfolio, OwesOffer, Writer
  <2>4. MetricsOf(w, MetricsFromFiles, log, summaries, replays)
    BY <2>3, FreshMetrics DEF MetricsOf, MetricsDone, OffersDone, ReplaysDone
  <2>5. PortfolioOf(w, PortfolioFromFiles, log)
    BY <1>2, <2>3, FreshPortfolio DEF PortfolioOf, PortfolioDone
  <2>6. ~ Unreadable(p) BY <1>2 DEF Unreadable, TornAny
  <2>7. CASE w.step = "metrics"
    <3>1. Loaded(p, "metrics", MetricsFromFiles) BY <1>7, <2>6, <2>7 DEF Recount, At
    <3> QED BY <1>5, <2>4, <2>7, <3>1
  <2>8. CASE w.step = "portfolio"
    <3>1. Loaded(p, "portfolio", PortfolioFromFiles) BY <1>7, <2>6, <2>8 DEF Recount, At
    <3> QED BY <1>5, <2>5, <2>8, <3>1
  <2> QED BY <2>2, <2>7, <2>8
<1> QED BY <1>6, <1>7

(* The metrics a command writes. *)
LEMMA MetricsSaved ==
  ASSUME TypeInv, RejectInv, MatchInv, Undisturbed, NEW p \in Proc, Save(p), At(p, "metrics"),
         NEW v, v.cmd = proc[p].cmd, v.entry = proc[p].entry,
         v.step = IF v.cmd = "replay" THEN "replay" ELSE "portfolio"
  PROVE  MetricsOf(v, memory'.metrics, log, summaries, replays)
<1> PICK w : w = proc[p] OBVIOUS
<1> PICK e : e = w.entry OBVIOUS
<1>1. ~ At(p, "idle") /\ w.loaded /\ w.step = "metrics" BY DEF Save, At
<1>2. /\ Working(w, serial, memory, log, summaries, replays, ended)
      /\ w \in ProcState /\ w.cmd \in Command /\ w.step \in StepsOf[w.cmd] /\ e \in Entry
      /\ CommandOK(w) /\ w # Idle
  BY <1>1, AtBooks
<1> PICK m : m = w.copy.metrics OBVIOUS
<1>3. MetricsOf(w, m, log, summaries, replays) BY <1>1, <1>2 DEF Working
<1>4. m \in [Counter -> Nat] BY <1>2 DEF ProcState, Memory
<1>5. StoreOf(p) = "metrics" BY <1>1 DEF StoreOf, At
<1>6. memory'.metrics = Updated(p)
  <2>1. memory \in Memory BY DEF TypeInv, TypeOK
  <2> QED BY <1>5, <2>1 DEF Save, Memory
<1>7. ~ OwesMetrics(v) /\ ~ OwesOffer(v) BY DEF OwesMetrics, OwesOffer
<1>8. /\ Len(log) \in Nat /\ log \in Seq(Entry) /\ Cardinality(summaries) \in Nat
      /\ Cardinality(replays) \in Nat
  BY FS_CardinalityType DEF TypeInv, TypeOK, FilesFinite
<1>9. CASE w.cmd \in {"refresh_metrics", "refresh_portfolio"}
  <2>1. Updated(p) = m BY <1>5, <1>9 DEF Updated, Refreshing
  <2>2. ~ OwesMetrics(w) /\ ~ OwesOffer(w) /\ v.step # "replay"
    BY <1>9 DEF OwesMetrics, OwesOffer, Writer
  <2> QED BY <1>1, <1>3, <1>6, <1>7, <2>1, <2>2
          DEF MetricsOf, MetricsDone, OffersDone, ReplaysDone
<1>10. CASE w.cmd = "replay"
  <2> PICK ok \in BOOLEAN : ok = ReplayOk(TheReplay(p)) BY DEF ReplayOk
  <2>1. Updated(p) = Raised(m, ReplayCounters(ok))
    BY <1>5, <1>10 DEF Updated, Refreshing
  <2>2. ~ OwesMetrics(w) /\ ~ OwesOffer(w) /\ v.step = "replay" /\ w.step # "replay"
    BY <1>1, <1>10 DEF OwesMetrics, OwesOffer, Writer
  <2>3. MetricsAgree(m, log, Len(log), Cardinality(summaries), Cardinality(replays))
    BY <1>3, <2>2 DEF MetricsOf, MetricsDone, OffersDone, ReplaysDone
  <2>4. MetricsAgree(Raised(m, ReplayCounters(ok)), log, Len(log), Cardinality(summaries),
                     Cardinality(replays) + 1)
    BY <1>4, <1>8, <2>3, ReplayCounted
  <2> QED BY <1>6, <1>7, <2>1, <2>2, <2>4 DEF MetricsOf, MetricsDone, OffersDone, ReplaysDone
<1>11. CASE w.cmd \in Writer
  <2>1. Updated(p) = Raised(m, RunCounters(e))
    <3>1. ~ Refreshing(p) /\ w.cmd # "replay" BY <1>11 DEF Refreshing, Writer
    <3> QED BY <1>5, <3>1 DEF Updated, Held
  <2>2. OwesMetrics(w) /\ OwesPortfolio(w) /\ w.step # "replay" /\ v.step # "replay"
    BY <1>1, <1>11 DEF OwesMetrics, OwesPortfolio, Writer
  <2>3. Len(log) > 0 /\ log[Len(log)] = e BY <1>2, <2>2 DEF Working
  <2> PICK n \in Nat : n + 1 = Len(log)
    <3>1. Len(log) - 1 \in Nat /\ (Len(log) - 1) + 1 = Len(log) BY <1>8, <2>3
    <3> QED BY <3>1
  <2>4. Len(log) - 1 = n BY <1>8
  <2>5. OwesOffer(w) <=> Status(e) = "candidate"
    <3>1. CASE w.cmd = "cycle" BY <1>1, <3>1 DEF OwesOffer
    <3>2. CASE w.cmd = "promotion"
      <4>1. e.retained = TRUE BY <1>2, <3>2 DEF CommandOK
      <4> QED BY <3>2, <4>1 DEF OwesOffer, Status
    <3>3. CASE w.cmd = "rejected"
      <4>1. EntryUseful(e) = FALSE
        BY <1>2, <3>3 DEF RejectInv, KnowsOK, Undisturbed
      <4> QED BY <3>3, <4>1 DEF OwesOffer, Status
    <3> QED BY <1>11, <3>1, <3>2, <3>3 DEF Writer
  <2> PICK offers \in Int : offers = OffersDone(w, summaries) BY <1>8 DEF OffersDone
  <2>6. MetricsAgree(m, log, n, offers, Cardinality(replays))
    BY <1>3, <2>2, <2>4 DEF MetricsOf, MetricsDone, ReplaysDone
  <2>7. MetricsAgree(Raised(m, RunCounters(e)), log, n + 1,
                     IF Status(e) = "candidate" THEN offers + 1 ELSE offers,
                     Cardinality(replays))
    BY <1>2, <1>4, <1>8, <2>3, <2>6, RunCounted
  <2>8. (IF Status(e) = "candidate" THEN offers + 1 ELSE offers) = Cardinality(summaries)
    BY <1>8, <2>5 DEF OffersDone
  <2> QED BY <1>6, <1>7, <2>1, <2>2, <2>7, <2>8
          DEF MetricsOf, MetricsDone, OffersDone, ReplaysDone
<1> QED BY <1>2, <1>9, <1>10, <1>11 DEF Command, Writer

LEMMA PortfolioSaved ==
  ASSUME TypeInv, RejectInv, MatchInv, Undisturbed, NEW p \in Proc, Save(p), At(p, "portfolio")
  PROVE  PortfolioAgrees(memory'.portfolio, log, Len(log))
<1> PICK w : w = proc[p] OBVIOUS
<1> PICK e : e = w.entry OBVIOUS
<1>1. ~ At(p, "idle") /\ w.loaded /\ w.step = "portfolio" BY DEF Save, At
<1>2. /\ Working(w, serial, memory, log, summaries, replays, ended)
      /\ w \in ProcState /\ w.cmd \in Command /\ e \in Entry
  BY <1>1, AtBooks
<1> PICK f : f = w.copy.portfolio OBVIOUS
<1>3. PortfolioAgrees(f, log, PortfolioDone(w, log))
  BY <1>1, <1>2 DEF Working, PortfolioOf
<1>4. f \in [Kinds -> [Share -> Nat]] BY <1>2 DEF ProcState, Memory
<1>5. StoreOf(p) = "portfolio" BY <1>1 DEF StoreOf, At
<1>6. memory'.portfolio = Updated(p)
  <2>1. memory \in Memory BY DEF TypeInv, TypeOK
  <2> QED BY <1>5, <2>1 DEF Save, Memory
<1>7. Len(log) \in Nat /\ log \in Seq(Entry) BY DEF TypeInv, TypeOK
<1>8. CASE w.cmd \in {"refresh_metrics", "refresh_portfolio"}
  <2>1. Updated(p) = f BY <1>5, <1>8 DEF Updated, Refreshing
  <2>2. PortfolioDone(w, log) = Len(log)
    BY <1>8 DEF PortfolioDone, OwesPortfolio, OwesMetrics, Writer
  <2> QED BY <1>3, <1>6, <2>1, <2>2
<1>9. CASE w.cmd = "replay"
  <2> PICK ok : ok = ReplayOk(TheReplay(p)) OBVIOUS
  <2> PICK d : d = e.digest OBVIOUS
  <2> PICK j : j = KindOf[d] OBVIOUS
  <2> PICK g : g = [f EXCEPT ![j] = Raised(@, ReplayShare(d, ok))] OBVIOUS
  <2>1. Updated(p) = g
    BY <1>5, <1>9 DEF Updated, Refreshing, Held
  <2>2. PortfolioDone(w, log) = Len(log)
    BY <1>9 DEF PortfolioDone, OwesPortfolio, OwesMetrics, Writer
  <2>3. PortfolioAgrees(f, log, Len(log)) BY <1>3, <2>2
  <2>4. PortfolioAgrees([f EXCEPT ![j] = Raised(@, ReplayShare(d, ok))], log, Len(log))
    BY <1>4, <2>3, ReplaySharesCounted
  <2> QED BY <1>6, <2>1, <2>4
<1>10. CASE w.cmd \in Writer
  <2>1. Updated(p) = [f EXCEPT ![KindOf[e.digest]] = Raised(@, KindShare(e))]
    <3>1. ~ Refreshing(p) /\ w.cmd # "replay" BY <1>10 DEF Refreshing, Writer
    <3> QED BY <1>5, <3>1 DEF Updated, Held
  <2>2. OwesPortfolio(w) BY <1>1, <1>10 DEF OwesPortfolio
  <2>3. Len(log) > 0 /\ log[Len(log)] = e BY <1>2, <2>2 DEF Working
  <2> PICK n \in Nat : n + 1 = Len(log)
    <3>1. Len(log) - 1 \in Nat /\ (Len(log) - 1) + 1 = Len(log) BY <1>7, <2>3
    <3> QED BY <3>1
  <2>4. PortfolioDone(w, log) = n BY <1>7, <2>2 DEF PortfolioDone
  <2>5. PortfolioAgrees([f EXCEPT ![KindOf[log[n + 1].digest]] = Raised(@, KindShare(log[n + 1]))],
                        log, n + 1)
    BY <1>2, <1>3, <1>4, <2>3, <2>4, SharesCounted
  <2> QED BY <1>6, <2>1, <2>3, <2>5
<1> QED BY <1>2, <1>8, <1>9, <1>10 DEF Command, Writer

LEMMA MetricsSaveMatches ==
  ASSUME TypeInv, RejectInv, MatchInv, Undisturbed, NEW p \in Proc, Save(p), At(p, "metrics")
  PROVE  MatchInv'
<1> PICK w : w = proc[p] OBVIOUS
<1>1. ~ At(p, "idle") /\ w.step = "metrics" /\ Proceed(p) BY DEF Save, At
<1>2. /\ Working(w, serial, memory, log, summaries, replays, ended)
      /\ torn = {} /\ glued = {} /\ \A s \in summaries : s.run <= serial
      /\ w \in ProcState /\ w.cmd \in Command /\ w.step \in StepsOf[w.cmd]
  BY <1>1, AtBooks
<1>3. /\ UNCHANGED <<serial, log, ended, glued, summaries, replays>> /\ torn' = {}
  BY <1>2 DEF Save
<1>4. memory'.portfolio = memory.portfolio
  <2>1. memory \in Memory BY DEF TypeInv, TypeOK
  <2>2. StoreOf(p) = "metrics" BY <1>1 DEF StoreOf, At
  <2> QED BY <2>1, <2>2 DEF Save, Memory
<1>5. ended = TRUE BY <1>1, <1>2 DEF Working
<1>6. NextStep(p) = IF w.cmd = "replay" THEN "replay"
                    ELSE IF w.cmd = "refresh_metrics" THEN "idle" ELSE "portfolio"
  BY <1>1 DEF NextStep, At
<1>7. CASE w.cmd = "refresh_metrics"
  <2> PICK v : v = [w EXCEPT !.step = "portfolio"] OBVIOUS
  <2>1. v.cmd = w.cmd /\ v.entry = w.entry /\ v.step = "portfolio" BY <1>2 DEF ProcState
  <2>2. MetricsOf(v, memory'.metrics, log, summaries, replays)
    BY <1>7, <2>1, MetricsSaved
  <2>3. ~ OwesMetrics(v) /\ ~ OwesOffer(v) /\ v.step # "replay" /\ ~ OwesPortfolio(w)
    BY <1>7, <2>1 DEF OwesMetrics, OwesOffer, OwesPortfolio, Writer
  <2>4. MetricsAgree(memory'.metrics, log, Len(log), Cardinality(summaries),
                     Cardinality(replays))
    BY <2>2, <2>3 DEF MetricsOf, MetricsDone, OffersDone, ReplaysDone
  <2>5. PortfolioAgrees(memory'.portfolio, log, Len(log))
    BY <1>2, <1>4, <2>3 DEF Working, PortfolioOf, PortfolioDone
  <2>6. Settled(memory', log', summaries', replays', ended')
    BY <1>3, <1>5, <2>4, <2>5 DEF Settled
  <2>7. Become(p, Idle) BY <1>1, <1>6, <1>7, ProceedGoes
  <2> QED BY <1>1, <1>2, <1>3, <2>6, <2>7, MatchTo
<1>8. CASE w.cmd # "refresh_metrics"
  <2>1. NextStep(p) = IF w.cmd = "replay" THEN "replay" ELSE "portfolio" BY <1>6, <1>8
  <2>2. NextStep(p) # "idle" BY <2>1
  <2>3. PICK v : /\ Become(p, v) /\ v # Idle /\ v.step = NextStep(p)
                 /\ v.cmd = w.cmd /\ v.entry = w.entry /\ v.loaded = FALSE
    BY <1>1, <2>2, ProceedGoes
  <2>4. MetricsOf(v, memory'.metrics, log, summaries, replays) BY <2>1, <2>3, MetricsSaved
  <2>5. w.cmd \in {"cycle", "rejected", "promotion", "replay"}
    BY <1>1, <1>2, <1>8 DEF Command, StepsOf
  <2>6. OwesPortfolio(v) <=> OwesPortfolio(w)
    BY <1>1, <2>1, <2>3, <2>5 DEF OwesPortfolio, OwesMetrics, Writer
  <2>7. PortfolioOf(v, memory'.portfolio, log)
    BY <1>2, <1>4, <2>6 DEF Working, PortfolioOf, PortfolioDone
  <2>8. v.step # "newline" /\ v.step \notin Unoffered BY <2>1, <2>3 DEF Unoffered
  <2>9. Working(v, serial, memory', log, summaries, replays, ended)
    BY <1>2, <1>5, <2>3, <2>4, <2>6, <2>7, <2>8 DEF Working
  <2>10. Working(v, serial', memory', log', summaries', replays', ended')
    BY <1>3, <2>9
  <2> QED BY <1>1, <1>2, <1>3, <2>3, <2>10, MatchTo
<1> QED BY <1>7, <1>8

LEMMA PortfolioSaveMatches ==
  ASSUME TypeInv, RejectInv, MatchInv, Undisturbed, NEW p \in Proc, Save(p), At(p, "portfolio")
  PROVE  MatchInv'
<1> PICK w : w = proc[p] OBVIOUS
<1>1. ~ At(p, "idle") /\ w.step = "portfolio" /\ Proceed(p) BY DEF Save, At
<1>2. /\ Working(w, serial, memory, log, summaries, replays, ended)
      /\ torn = {} /\ glued = {} /\ \A s \in summaries : s.run <= serial
  BY <1>1, AtBooks
<1>3. /\ UNCHANGED <<serial, log, ended, glued, summaries, replays>> /\ torn' = {}
  BY <1>2 DEF Save
<1>4. memory'.metrics = memory.metrics
  <2>1. memory \in Memory BY DEF TypeInv, TypeOK
  <2>2. StoreOf(p) = "portfolio" BY <1>1 DEF StoreOf, At
  <2> QED BY <2>1, <2>2 DEF Save, Memory
<1>5. ended = TRUE BY <1>1, <1>2 DEF Working
<1>6. ~ OwesMetrics(w) /\ ~ OwesOffer(w) /\ w.step # "replay"
  BY <1>1 DEF OwesMetrics, OwesOffer
<1>7. MetricsAgree(memory'.metrics, log, Len(log), Cardinality(summaries), Cardinality(replays))
  BY <1>2, <1>4, <1>6 DEF Working, MetricsOf, MetricsDone, OffersDone, ReplaysDone
<1>8. Settled(memory', log', summaries', replays', ended')
  BY <1>3, <1>5, <1>7, PortfolioSaved DEF Settled
<1>9. NextStep(p) = "idle" BY <1>1 DEF NextStep, At
<1>10. Become(p, Idle) BY <1>1, <1>9, ProceedGoes
<1> QED BY <1>1, <1>2, <1>3, <1>8, <1>10, MatchTo

LEMMA SaveMatches ==
  ASSUME TypeInv, RejectInv, MatchInv, Undisturbed, NEW p \in Proc, Save(p)
  PROVE  MatchInv'
<1>1. CASE At(p, "metrics") BY <1>1, MetricsSaveMatches
<1>2. CASE At(p, "portfolio") BY <1>2, PortfolioSaveMatches
<1>3. CASE ~ At(p, "metrics") /\ ~ At(p, "portfolio")
  <2>1. ~ At(p, "idle") /\ proc[p].loaded /\ Proceed(p) BY DEF Save
  <2>2. /\ Working(proc[p], serial, memory, log, summaries, replays, ended)
        /\ torn = {} /\ LoadedOK(proc[p]) /\ proc[p] # Idle
    BY <2>1, AtBooks
  <2>3. proc[p].step \in {"dedup", "patterns", "graph"}
    BY <1>3, <2>1, <2>2 DEF LoadedOK, StoreStep, At
  <2>4. StoreOf(p) \notin {"metrics", "portfolio"} BY <2>3 DEF StoreOf, At
  <2>5. memory \in Memory BY DEF TypeInv, TypeOK
  <2>6. memory'.metrics = memory.metrics /\ memory'.portfolio = memory.portfolio
    BY <2>4, <2>5 DEF Save, Memory
  <2>7. ended = TRUE BY <2>2, <2>3 DEF Working
  <2>8. UNCHANGED <<serial, log, summaries, replays, glued>> /\ torn' = {} /\ ended' = TRUE
    BY <2>2, <2>7 DEF Save
  <2> QED BY <2>1, <2>3, <2>6, <2>8, AlongMatches
<1> QED BY <1>1, <1>2, <1>3

LEMMA AppendMatches ==
  ASSUME TypeInv, RejectInv, MatchInv, Undisturbed, NEW p \in Proc, AppendLog(p)
  PROVE  MatchInv'
<1> PICK w : w = proc[p] OBVIOUS
<1> PICK e : e = w.entry OBVIOUS
<1>1. ~ At(p, "idle") /\ w.step = "append" /\ Proceed(p) /\ NextStep(p) = "newline"
  BY DEF AppendLog, At, NextStep
<1>2. /\ Working(w, serial, memory, log, summaries, replays, ended)
      /\ torn = {} /\ glued = {} /\ \A s \in summaries : s.run <= serial
      /\ w.cmd \in Command /\ w.step \in StepsOf[w.cmd] /\ e \in Entry
  BY <1>1, AtBooks
<1>3. ended = TRUE BY <1>1, <1>2 DEF Working
<1>4. /\ log' = Append(log, e) /\ glued' = {} /\ torn' = {} /\ ended' = FALSE
      /\ UNCHANGED <<serial, memory, summaries, replays>>
  BY <1>2, <1>3 DEF AppendLog, Held
<1>5. PICK v : /\ Become(p, v) /\ v # Idle /\ v.step = "newline"
               /\ v.cmd = w.cmd /\ v.entry = e /\ v.loaded = FALSE
  BY <1>1, ProceedGoes
<1>6. w.cmd \in Writer BY <1>1, <1>2 DEF StepsOf, Command, Writer
<1>7. /\ ~ OwesMetrics(w) /\ ~ OwesPortfolio(w) /\ ~ OwesOffer(w) /\ w.step # "replay"
      /\ OwesMetrics(v) /\ OwesPortfolio(v) /\ ~ OwesOffer(v) /\ v.step # "replay"
  BY <1>1, <1>5, <1>6 DEF OwesMetrics, OwesPortfolio, OwesOffer
<1>8. log \in Seq(Entry) /\ Len(log) \in Nat BY DEF TypeInv, TypeOK
<1> PICK l : l = Append(log, e) OBVIOUS
<1>9. Len(l) - 1 = Len(log) /\ Len(l) > 0 /\ l[Len(l)] = e BY <1>2, <1>8
<1>10. /\ MetricsAgree(memory.metrics, log, Len(log), Cardinality(summaries),
                       Cardinality(replays))
       /\ PortfolioAgrees(memory.portfolio, log, Len(log))
  BY <1>2, <1>7
     DEF Working, MetricsOf, PortfolioOf, MetricsDone, PortfolioDone, OffersDone, ReplaysDone
<1>11. /\ MetricsAgree(memory.metrics, l, Len(log), Cardinality(summaries), Cardinality(replays))
       /\ PortfolioAgrees(memory.portfolio, l, Len(log))
  BY <1>2, <1>8, <1>10, WrittenUncounted
<1>12. MetricsOf(v, memory.metrics, l, summaries, replays) /\ PortfolioOf(v, memory.portfolio, l)
  BY <1>7, <1>9, <1>11
     DEF MetricsOf, PortfolioOf, MetricsDone, PortfolioDone, OffersDone, ReplaysDone
<1>13. v.cmd = "cycle" => \A s \in summaries : s.run # v.entry.run
  BY <1>1, <1>2, <1>5 DEF Working, Unoffered, Step
<1>14. Working(v, serial, memory, l, summaries, replays, FALSE)
  BY <1>2, <1>5, <1>9, <1>12, <1>13 DEF Working
<1>15. Working(v, serial', memory', log', summaries', replays', ended')
  BY <1>4, <1>14
<1> QED BY <1>1, <1>2, <1>4, <1>5, <1>15, MatchTo

(* The step that offers the candidate. *)
LEMMA SummaryMatches ==
  ASSUME TypeInv, OfferInv, RejectInv, MatchInv, Undisturbed, NEW p \in Proc, StoreSummary(p)
  PROVE  MatchInv'
<1> PICK w : w = proc[p] OBVIOUS
<1> PICK e : e = w.entry OBVIOUS
<1>1. ~ At(p, "idle") /\ w.step = "summary" /\ Proceed(p) /\ NextStep(p) = "graph"
  BY DEF StoreSummary, At, NextStep
<1>2. /\ Working(w, serial, memory, log, summaries, replays, ended)
      /\ torn = {} /\ glued = {} /\ \A s \in summaries : s.run <= serial
      /\ w.cmd \in Command /\ w.step \in StepsOf[w.cmd] /\ e \in Entry /\ CommandOK(w)
      /\ w # Idle
  BY <1>1, AtBooks
<1>3. w.cmd = "cycle" BY <1>1, <1>2 DEF StepsOf, Command
<1>4. ended = TRUE BY <1>1, <1>2 DEF Working
<1>5. Status(e) = "candidate"
  <2>1. Stored(e) BY <1>1 DEF OfferInv, HeldOK
  <2>2. e.retained = FALSE BY <1>2, <1>3 DEF CommandOK, Entry
  <2> QED BY <1>2, <2>1, <2>2, StoredIsCandidate
<1> PICK s : s = TheSummary(p) OBVIOUS
<1>6. s.run = e.run BY DEF TheSummary, Held
<1>7. s \notin summaries
  <2>1. \A t \in summaries : t.run # e.run BY <1>1, <1>2, <1>3 DEF Working, Unoffered, Step
  <2> QED BY <1>6, <2>1
<1>8. /\ summaries' = summaries \cup {s} /\ torn' = {} /\ glued' = {} /\ ended' = TRUE
      /\ UNCHANGED <<serial, memory, log, replays>>
  BY <1>2, <1>4 DEF StoreSummary
<1>9. Cardinality(summaries') - 1 = Cardinality(summaries)
  <2>1. IsFiniteSet(summaries) BY DEF TypeInv, FilesFinite
  <2>2. Cardinality(summaries) \in Nat BY <2>1, FS_CardinalityType
  <2>3. Cardinality(summaries \cup {s}) = Cardinality(summaries) + 1
    BY <1>7, <2>1, FS_AddElement
  <2> QED BY <1>8, <2>2, <2>3
<1>10. PICK v : /\ Become(p, v) /\ v # Idle /\ v.step = "graph"
                /\ v.cmd = w.cmd /\ v.entry = e /\ v.loaded = FALSE
  BY <1>1, ProceedGoes
<1>11. /\ OwesMetrics(w) /\ OwesPortfolio(w) /\ ~ OwesOffer(w) /\ w.step # "replay"
       /\ OwesMetrics(v) /\ OwesPortfolio(v) /\ OwesOffer(v) /\ v.step # "replay"
  BY <1>1, <1>3, <1>5, <1>10 DEF OwesMetrics, OwesPortfolio, OwesOffer, Writer
<1> PICK S : S = summaries' OBVIOUS
<1>12. OffersDone(v, S) = OffersDone(w, summaries)
  BY <1>9, <1>11 DEF OffersDone
<1>13. MetricsOf(v, memory.metrics, log, S, replays) /\ PortfolioOf(v, memory.portfolio, log)
  BY <1>2, <1>11, <1>12
     DEF Working, MetricsOf, PortfolioOf, MetricsDone, PortfolioDone, ReplaysDone
<1>14. v.step \notin Unoffered BY <1>10 DEF Unoffered
<1>15. Working(v, serial, memory, log, S, replays, TRUE)
  BY <1>2, <1>10, <1>11, <1>13, <1>14 DEF Working
<1>16. Working(v, serial', memory', log', summaries', replays', ended')
  BY <1>8, <1>15
<1>17. \A t \in summaries' : t.run <= serial'
  <2>1. e.run <= serial BY <1>2 DEF Working
  <2> QED BY <1>2, <1>6, <1>8, <2>1
<1> QED BY <1>1, <1>8, <1>10, <1>16, <1>17, MatchTo

(* The step that stores the replay counted before. *)
LEMMA ReplayMatches ==
  ASSUME TypeInv, RejectInv, MatchInv, Undisturbed, NEW p \in Proc, StoreReplay(p)
  PROVE  MatchInv'
<1> PICK w : w = proc[p] OBVIOUS
<1>1. ~ At(p, "idle") /\ w.step = "replay" /\ Proceed(p) /\ NextStep(p) = "portfolio"
  BY DEF StoreReplay, At, NextStep
<1>2. /\ Working(w, serial, memory, log, summaries, replays, ended)
      /\ torn = {} /\ glued = {} /\ \A s \in summaries : s.run <= serial
      /\ w.cmd \in Command /\ w.step \in StepsOf[w.cmd]
  BY <1>1, AtBooks
<1>3. w.cmd = "replay" BY <1>1, <1>2 DEF StepsOf, Command, Step
<1>4. ended = TRUE BY <1>1, <1>2 DEF Working
<1>5. /\ replays' = WithReplay(p) /\ torn' = {} /\ glued' = {} /\ ended' = TRUE
      /\ UNCHANGED <<serial, memory, log, summaries>>
  BY <1>2, <1>4 DEF StoreReplay
<1> PICK R : R = replays' OBVIOUS
<1>6. Cardinality(R) \in Nat /\ Cardinality(replays) \in Nat
      /\ Cardinality(R) <= Cardinality(replays) + 1
  <2> PICK Q : Q = {r \in replays : r.run # Held(p).run} OBVIOUS
  <2>1. IsFiniteSet(replays) /\ Q \subseteq replays BY DEF TypeInv, FilesFinite
  <2>2. IsFiniteSet(Q) /\ Cardinality(Q) <= Cardinality(replays) BY <2>1, FS_Subset
  <2>3. R = Q \cup {TheReplay(p)} BY <1>5 DEF WithReplay
  <2>4. Cardinality(Q) \in Nat /\ Cardinality(replays) \in Nat
    BY <2>1, <2>2, FS_CardinalityType
  <2>5. Cardinality(R) = Cardinality(Q) \/ Cardinality(R) = Cardinality(Q) + 1
    BY <2>2, <2>3, FS_AddElement
  <2> QED BY <2>2, <2>4, <2>5
<1>7. PICK v : /\ Become(p, v) /\ v # Idle /\ v.step = "portfolio"
               /\ v.cmd = w.cmd /\ v.entry = w.entry /\ v.loaded = FALSE
  BY <1>1, ProceedGoes
<1>8. /\ ~ OwesMetrics(w) /\ ~ OwesPortfolio(w) /\ ~ OwesOffer(w)
      /\ ~ OwesMetrics(v) /\ ~ OwesPortfolio(v) /\ ~ OwesOffer(v) /\ v.step # "replay"
  BY <1>3, <1>7 DEF OwesMetrics, OwesPortfolio, OwesOffer, Writer
<1> PICK m : m = memory.metrics OBVIOUS
<1>9. MetricsAgree(m, log, Len(log), Cardinality(summaries), Cardinality(replays) + 1)
  BY <1>1, <1>2, <1>8
     DEF Working, MetricsOf, MetricsDone, OffersDone, ReplaysDone
<1>10. MetricsAgree(m, log, Len(log), Cardinality(summaries), Cardinality(R))
  <2>1. m \in [Counter -> Nat] BY DEF TypeInv, TypeOK, Memory
  <2>2. m["replay_passed"] \in Nat /\ m["replay_failed"] \in Nat BY <2>1 DEF Counter
  <2>3. m["replay_passed"] + m["replay_failed"] >= Cardinality(replays) + 1
    BY <1>9 DEF MetricsAgree
  <2>4. m["replay_passed"] + m["replay_failed"] >= Cardinality(R)
    BY <1>6, <2>2, <2>3
  <2> QED BY <1>9, <2>4 DEF MetricsAgree
<1>11. MetricsOf(v, m, log, summaries, R) /\ PortfolioOf(v, memory.portfolio, log)
  BY <1>2, <1>8, <1>10
     DEF Working, MetricsOf, PortfolioOf, MetricsDone, PortfolioDone, OffersDone, ReplaysDone
<1>12. Working(v, serial, memory, log, summaries, R, TRUE)
  BY <1>2, <1>3, <1>7, <1>8, <1>11 DEF Working
<1>13. Working(v, serial', memory', log', summaries', replays', ended')
  BY <1>5, <1>12
<1> QED BY <1>1, <1>2, <1>5, <1>7, <1>13, MatchTo

LEMMA NewlineMatches ==
  ASSUME TypeInv, RejectInv, MatchInv, Undisturbed, NEW p \in Proc,
         Newline(p) \/ StoreMutation(p)
  PROVE  MatchInv'
<1>1. /\ ~ At(p, "idle") /\ Proceed(p) /\ proc[p].step \in {"newline", "mutation"}
      /\ UNCHANGED <<serial, memory, log, summaries, replays, glued, torn>>
  BY DEF Newline, StoreMutation, At
<1>2. Working(proc[p], serial, memory, log, summaries, replays, ended) /\ torn = {}
  BY <1>1, AtBooks
<1>3. ended' = TRUE
  <2>1. CASE Newline(p) BY <2>1 DEF Newline
  <2>2. CASE StoreMutation(p) BY <1>2, <2>2 DEF Working, StoreMutation, At
  <2> QED BY <2>1, <2>2
<1> QED BY <1>1, <1>2, <1>3, AlongMatches

LEMMA MatchInit == Init => MatchInv
<1> SUFFICES ASSUME Init PROVE MatchInv OBVIOUS
<1>1. /\ torn = {} /\ glued = {} /\ summaries = {} /\ replays = {} /\ log = <<>> /\ ended = TRUE
      /\ \A p \in Proc : proc[p] = Idle
  BY DEF Init
<1>2. memory.metrics = [c \in Counter |-> 0]
      /\ memory.portfolio = [k \in Kinds |-> [c \in Share |-> 0]]
  BY DEF Init, NoMemory
<1>3. Cardinality({}) = 0 BY FS_EmptySet
<1>4. Len(log) = 0 /\ 1..0 = {} BY <1>1
<1>5. (\A c : Runs(log, 0, c) = {}) /\ \A k, c : Shares(log, 0, k, c) = {}
  BY <1>4 DEF Runs, Shares
<1> PICK m : m = memory.metrics OBVIOUS
<1>6. MetricsAgree(m, log, Len(log), Cardinality(summaries), Cardinality(replays))
  <2>1. \A c \in Counter : m[c] = 0 BY <1>2
  <2>2. \A c \in Counter : m[c] = Cardinality(Runs(log, Len(log), c))
    BY <1>3, <1>4, <1>5, <2>1
  <2>3. /\ m["candidates"] = 0 /\ m["failed"] = 0 /\ m["replay_failed"] = 0
        /\ m["replay_failed_runs"] = 0 /\ m["replay_passed"] = 0
        /\ m["failed"] = Cardinality(Runs(log, Len(log), "failed"))
    BY <2>1, <2>2 DEF Counter
  <2>4. /\ m["failed"] = Cardinality(Runs(log, Len(log), "failed")) + m["replay_failed"]
        /\ m["replay_passed"] + m["replay_failed"] >= 0
    BY <2>3
  <2>5. Cardinality(summaries) = 0 /\ Cardinality(replays) = 0 BY <1>1, <1>3
  <2> QED BY <2>2, <2>3, <2>4, <2>5 DEF MetricsAgree
<1>7. PortfolioAgrees(memory.portfolio, log, Len(log))
  <2>1. ASSUME NEW k \in Kinds, NEW c \in Share \ {"replay_passed"}
        PROVE  memory.portfolio[k][c] = Cardinality(Shares(log, Len(log), k, c))
    <3>1. memory.portfolio[k][c] = 0 BY <1>2
    <3>2. Cardinality(Shares(log, Len(log), k, c)) = 0 BY <1>3, <1>4, <1>5
    <3> QED BY <3>1, <3>2
  <2> QED BY <2>1 DEF PortfolioAgrees
<1> QED BY <1>1, <1>6, <1>7 DEF MatchInv, Settled

LEMMA MatchStep == TypeInv /\ OfferInv /\ RejectInv /\ MatchInv /\ [Next]_vars => MatchInv'
<1> SUFFICES ASSUME TypeInv, OfferInv, RejectInv, MatchInv, [Next]_vars, Undisturbed'
             PROVE  MatchInv'
  BY DEF MatchInv
<1>1. CASE UNCHANGED vars
  <2>1. UNCHANGED <<proc, serial, memory, torn, log, ended, glued, summaries, replays, alone,
                    deaths>>
    BY <1>1 DEF vars
  <2> QED BY <2>1 DEF MatchInv, Undisturbed
<1>2. CASE Next
  <2> PICK p \in Proc :
        \/ \E d \in Digest, t \in Pattern : BeginCycle(p, d, t) \/ BeginRejected(p, d, t)
        \/ \E s \in summaries : BeginReplay(p, s) \/ BeginPromotion(p, s)
        \/ BeginRefresh(p)
        \/ Copy(p) \/ Trial(p) \/ Destroy(p)
        \/ Load(p) \/ Recount(p) \/ Save(p)
        \/ AppendLog(p) \/ Newline(p)
        \/ StoreMutation(p) \/ StoreSummary(p) \/ StoreReplay(p)
        \/ Crash(p)
    BY <1>2 DEF Next
  <2>1. CASE \/ \E d \in Digest, t \in Pattern : BeginCycle(p, d, t) \/ BeginRejected(p, d, t)
             \/ \E s \in summaries : BeginReplay(p, s) \/ BeginPromotion(p, s)
             \/ BeginRefresh(p)
    BY <2>1, BeginsMatch
  <2>2. CASE Copy(p) \/ Trial(p) \/ Destroy(p)
    BY <2>2, TrialMatches DEF Copy, Trial, Destroy, Undisturbed
  <2>3. CASE Load(p) \/ Recount(p)
    BY <2>3, LoadMatches DEF Load, Recount, Undisturbed
  <2>4. CASE Save(p) BY <2>4, SaveMatches DEF Save, Undisturbed
  <2>5. CASE AppendLog(p) BY <2>5, AppendMatches DEF AppendLog, Undisturbed
  <2>6. CASE Newline(p) \/ StoreMutation(p)
    BY <2>6, NewlineMatches DEF Newline, StoreMutation, Undisturbed
  <2>7. CASE StoreSummary(p) BY <2>7, SummaryMatches DEF StoreSummary, Undisturbed
  <2>8. CASE StoreReplay(p) BY <2>8, ReplayMatches DEF StoreReplay, Undisturbed
  <2>9. CASE Crash(p)
    <3>1. deaths \in Nat BY DEF TypeInv, TypeOK
    <3>2. deaths' = deaths + 1 BY <2>9 DEF Crash
    <3> QED BY <3>1, <3>2 DEF Undisturbed
  <2> QED BY <2>1, <2>2, <2>3, <2>4, <2>5, <2>6, <2>7, <2>8, <2>9
<1> QED BY <1>1, <1>2

(* As long as commands neither overlap nor die, the metrics and the portfolio that cycles,
   replays and promotions update (update_metrics_after_log, update_portfolio_after_log and
   their replay twins) are those a refresh would compute (refresh_metrics,
   refresh_portfolio), replays counted apart. *)
THEOREM UpdatesAlwaysMatch == Spec => []UpdatesMatchRefresh
<1>1. Init => TypeInv /\ OfferInv /\ RejectInv /\ MatchInv
  BY InitTyped, OfferInit, RejectInit, MatchInit
<1>2. TypeInv /\ OfferInv /\ RejectInv /\ MatchInv /\ [Next]_vars
        => (TypeInv /\ OfferInv /\ RejectInv /\ MatchInv)'
  BY TypeStep, OfferStep, RejectStep, MatchStep
<1>3. MatchInv /\ TypeInv => UpdatesMatchRefresh BY MatchShows
<1> QED BY <1>1, <1>2, <1>3, PTL DEF Spec
=============================================================================
