--------------------------- MODULE EvolutionCycle ---------------------------
(***************************************************************************)
(* Evolution cycles, replays and the bookkeeping of promotions: what each  *)
(* command writes under memory/, in which order, and what is left when     *)
(* commands overlap or die.                                                *)
(*                                                                         *)
(* Every command is a process of its own.  The stores (mutation_dedup,     *)
(* regressions, success_patterns, graph, metrics, portfolio .json) are     *)
(* loaded, changed and written back whole, with nothing locked; the log    *)
(* is appended to.  A step is the work up to the next point where another  *)
(* command or a death can matter.                                          *)
(***************************************************************************)
EXTENDS CycleRecords, Sequences, FiniteSets

CONSTANTS Proc,         \* commands that may run at the same time
          PatternsOf,   \* patterns under which a mutation may be tried
          MaxCommands,  \* bound: commands that ever begin
          MaxBusy,      \* bound: commands that begin where some overlap
          MaxDeaths     \* bound: commands that die

ASSUME CycleAssumption ==
  /\ Digest # {} /\ Pattern # {}
  /\ PatternsOf \in [Digest -> SUBSET Pattern]
  /\ MaxCommands \in Nat /\ MaxBusy \in Nat /\ MaxDeaths \in Nat

VARIABLES
  proc,       \* the command each process is in
  serial,     \* commands begun: run ids and sandbox names are new each time
  memory,     \* the stores
  torn,       \* files a death left half-written
  log,        \* evolution.jsonl
  ended,      \* its last line has its newline
  glued,      \* entries of the log that share a line with the next one
  mutations,  \* runs with a whole candidates/<run>.mutation.json
  summaries,  \* candidates/<run>.summary.json
  replays,    \* replays/<run>.json
  sandboxes,  \* directories below sandboxes/, by the command that made them
  abandoned,  \* history: commands that died, or could not copy or remove
  alone,      \* history: no two commands ever ran at once
  deaths      \* how many commands died

vars == <<proc, serial, memory, torn, log, ended, glued, mutations, summaries, replays,
          sandboxes, abandoned, alone, deaths>>

Kinds  == {KindOf[d] : d \in Digest}
Result == {"candidate", "passed", "failed", "promoted"}
Store  == {"dedup", "regressions", "successes", "graph", "metrics", "portfolio"}
Memory == [dedup       : [Digest -> [seen : Nat, useful : BOOLEAN]],
           regressions : [Pattern -> Nat],
           successes   : [Pattern -> Nat],
           graph       : SUBSET (Digest \X Result),
           metrics     : [Counter -> Nat],
           portfolio   : [Kinds -> [Share -> Nat]]]
NoMemory == [dedup       |-> [d \in Digest |-> [seen |-> 0, useful |-> FALSE]],
             regressions |-> [t \in Pattern |-> 0],
             successes   |-> [t \in Pattern |-> 0],
             graph       |-> {},
             metrics     |-> [c \in Counter |-> 0],
             portfolio   |-> [k \in Kinds |-> [c \in Share |-> 0]]]

Summary == [run : Nat, digest : Digest, gates : Gates]
Replay  == [run : Nat, gates : Gates, matches : BOOLEAN]
TornFile == {<<s, 0>> : s \in Store} \cup ({"summary", "replay"} \X Nat)

Command == {"cycle", "rejected", "replay", "promotion", "refresh_metrics", "refresh_portfolio"}
Step    == {"copy", "trial", "destroy", "dedup", "patterns", "append", "newline",
            "mutation", "summary", "graph", "metrics", "replay", "portfolio"}
ProcState == [cmd : Command, step : Step, serial : Nat, loaded : BOOLEAN, copy : Memory,
              tried : BOOLEAN, matches : BOOLEAN, entry : Entry]
Idle      == [step |-> "idle"]

StepsOf ==
  [cycle             |-> Step \ {"replay"},
   rejected          |-> {"patterns", "append", "newline", "dedup", "metrics", "portfolio"},
   promotion         |-> {"append", "newline", "metrics", "portfolio"},
   replay            |-> {"copy", "trial", "destroy", "metrics", "replay", "portfolio"},
   refresh_metrics   |-> {"metrics"},
   refresh_portfolio |-> {"portfolio"}]

(* Only promotions retain, only duplicate rejections are duplicates. *)
CommandOK(v) ==
  v # Idle =>
    /\ v.step \in StepsOf[v.cmd]
    /\ v.entry.retained = (v.cmd = "promotion")
    /\ v.entry.duplicate = (v.cmd = "rejected")

TypeOK ==
  /\ proc \in [Proc -> ProcState \cup {Idle}]
  /\ \A p \in Proc : CommandOK(proc[p])
  /\ serial \in Nat /\ deaths \in Nat
  /\ memory \in Memory
  /\ torn \subseteq TornFile
  /\ log \in Seq(Entry)
  /\ ended \in BOOLEAN
  /\ glued \subseteq Nat
  /\ mutations \subseteq Nat
  /\ summaries \subseteq Summary
  /\ replays \subseteq Replay
  /\ sandboxes \subseteq Nat /\ abandoned \subseteq Nat
  /\ alone \in BOOLEAN

Init ==
  /\ proc = [p \in Proc |-> Idle]
  /\ serial = 0 /\ deaths = 0
  /\ memory = NoMemory
  /\ torn = {} /\ glued = {}
  /\ log = <<>> /\ ended = TRUE
  /\ mutations = {} /\ summaries = {} /\ replays = {}
  /\ sandboxes = {} /\ abandoned = {}
  /\ alone = TRUE

-----------------------------------------------------------------------------
(* Beginnings *)

At(p, step) == proc[p].step = step
Become(p, state) == proc' = [proc EXCEPT ![p] = state]
Go(p, step) == Become(p, [proc[p] EXCEPT !.step = step])
Finish(p) == Become(p, Idle)

Started(cmd, step, e) ==
  [cmd |-> cmd, step |-> step, serial |-> serial + 1, loaded |-> FALSE, copy |-> NoMemory,
   tried |-> FALSE, matches |-> FALSE, entry |-> e]

(* A new command; what it does with the files follows in its steps. *)
Begin(p, cmd, step, e) ==
  /\ At(p, "idle")
  /\ serial < MaxCommands
  /\ (~ alone \/ \E q \in Proc : ~ At(q, "idle")) => serial < MaxBusy
  /\ Become(p, Started(cmd, step, e))
  /\ serial' = serial + 1
  /\ alone' = (alone /\ \A q \in Proc : At(q, "idle"))
  /\ UNCHANGED <<memory, torn, log, ended, glued, mutations, summaries, replays, sandboxes,
                 abandoned, deaths>>

(* Only cycles record a pattern; a refresh is about no mutation at all. *)
NoPattern == CHOOSE t \in Pattern : TRUE
NoDigest  == CHOOSE d \in Digest : TRUE

NewEntry(d, t) ==
  [run |-> serial + 1, digest |-> d, pattern |-> t, gates |-> 0,
   duplicate |-> FALSE, retained |-> FALSE, destroyed |-> TRUE]

(* Mutant: the first time does not count. *)
KnownBadTwice(d) == memory.dedup[d].seen > 1 /\ ~ memory.dedup[d].useful

(* should_reject_duplicate_bad: what is useful has a score above 5. *)
KnownBad(d) == memory.dedup[d].seen > 0 /\ ~ memory.dedup[d].useful

BeginCycle(p, d, t) ==
  /\ t \in PatternsOf[d]
  /\ <<"dedup", 0>> \notin torn
  /\ ~ KnownBad(d)
  /\ Begin(p, "cycle", "copy", NewEntry(d, t))

(* The duplicate of a bad mutation is recorded without a trial. *)
BeginRejected(p, d, t) ==
  /\ t \in PatternsOf[d]
  /\ <<"dedup", 0>> \notin torn
  /\ KnownBad(d)
  /\ Begin(p, "rejected", "patterns", [NewEntry(d, t) EXCEPT !.duplicate = TRUE])

(* load_candidate and load_candidate_summary *)
Loadable(s) == s.run \in mutations /\ <<"summary", s.run>> \notin torn

BeginReplay(p, s) ==
  /\ Loadable(s)
  /\ Begin(p, "replay", "copy",
           [NewEntry(s.digest, NoPattern) EXCEPT !.run = s.run, !.gates = s.gates])

(* promote_candidate once check and test have passed in the project; what it does
   before is modelled in Governance.  It runs no cargo run. *)
BeginPromotion(p, s) ==
  /\ Loadable(s)
  /\ Begin(p, "promotion", "append",
           [NewEntry(s.digest, NoPattern) EXCEPT !.gates = 2, !.retained = TRUE,
                                                 !.destroyed = FALSE])

(* --refresh-metrics, and every status command that calls load_metrics; --portfolio-refresh *)
BeginRefresh(p) ==
  \/ Begin(p, "refresh_metrics", "metrics", NewEntry(NoDigest, NoPattern))
  \/ Begin(p, "refresh_portfolio", "portfolio", NewEntry(NoDigest, NoPattern))

-----------------------------------------------------------------------------
(* The trial in a sandbox *)

Held(p) == proc[p].entry

(* copy_project; a copy that fails half way is left behind. *)
Copy(p) ==
  /\ At(p, "copy")
  /\ \/ /\ Go(p, "trial")
        /\ sandboxes' = sandboxes \cup {proc[p].serial}
        /\ UNCHANGED abandoned
     \/ /\ Finish(p)
        /\ sandboxes' \in {sandboxes, sandboxes \cup {proc[p].serial}}
        /\ abandoned' = abandoned \cup {proc[p].serial}
  /\ UNCHANGED <<serial, memory, torn, log, ended, glued, mutations, summaries, replays, alone,
                 deaths>>

(* run_cycle_in_sandbox, replay_in_sandbox: the mutation may not apply; a replay
   without a cargo test is an error. *)
Trial(p) ==
  /\ At(p, "trial")
  /\ \/ Go(p, "destroy")
     \/ \E g \in Gates :
          Become(p, [proc[p] EXCEPT
            !.step = "destroy",
            !.tried = proc[p].cmd = "replay" => g > 0,
            !.matches = g = Held(p).gates
                        /\ Score(KindOf[Held(p).digest], g) = EntryScore(Held(p)),
            !.entry.gates = g])
  /\ UNCHANGED <<serial, memory, torn, log, ended, glued, mutations, summaries, replays,
                 sandboxes, abandoned, alone, deaths>>

(* Mutant: a trial that ended with an error returns before the removal. *)
DestroyTried(p) ==
  /\ At(p, "destroy")
  /\ IF proc[p].tried
     THEN sandboxes' = sandboxes \ {proc[p].serial} /\ Go(p, "dedup")
     ELSE Finish(p) /\ UNCHANGED sandboxes
  /\ UNCHANGED <<serial, memory, torn, log, ended, glued, mutations, summaries, replays,
                 abandoned, alone, deaths>>

(* destroy_sandbox runs whatever the trial gave; a cycle records its result even if
   the sandbox stays, a replay does not. *)
Destroy(p) ==
  /\ At(p, "destroy")
  /\ \E removed \in BOOLEAN :
       /\ IF removed
          THEN sandboxes' = sandboxes \ {proc[p].serial} /\ UNCHANGED abandoned
          ELSE abandoned' = abandoned \cup {proc[p].serial} /\ UNCHANGED sandboxes
       /\ IF proc[p].tried /\ (proc[p].cmd = "replay" => removed)
          THEN Become(p, [proc[p] EXCEPT
                 !.step = IF proc[p].cmd = "replay" THEN "metrics" ELSE "dedup",
                 !.entry.destroyed = removed])
          ELSE Finish(p)
  /\ UNCHANGED <<serial, memory, torn, log, ended, glued, mutations, summaries, replays, alone,
                 deaths>>

-----------------------------------------------------------------------------
(* What is recorded, and in which order *)

(* Mutant: a candidate is offered before the log has it. *)
SummaryFirst(p) ==
  LET cmd == proc[p].cmd
  IN CASE At(p, "dedup") -> IF cmd = "cycle" THEN "patterns" ELSE "metrics"
       [] At(p, "patterns") ->
            IF cmd = "cycle" /\ Stored(Held(p)) THEN "mutation" ELSE "append"
       [] At(p, "append") -> "newline"
       [] At(p, "newline") -> IF cmd = "rejected" THEN "dedup"
                              ELSE IF cmd = "cycle" THEN "graph" ELSE "metrics"
       [] At(p, "mutation") -> "summary"
       [] At(p, "summary") -> "append"
       [] At(p, "graph") -> "metrics"
       [] At(p, "metrics") -> IF cmd = "replay" THEN "replay"
                              ELSE IF cmd = "refresh_metrics" THEN "idle" ELSE "portfolio"
       [] At(p, "replay") -> "portfolio"
       [] OTHER -> "idle"

(* The order of the writes in run_evolution_cycle_with_mutation, replay_candidate
   and promote_candidate. *)
NextStep(p) ==
  LET cmd == proc[p].cmd
  IN CASE At(p, "dedup") -> IF cmd = "cycle" THEN "patterns" ELSE "metrics"
       [] At(p, "patterns") -> "append"
       [] At(p, "append") -> "newline"
       [] At(p, "newline") ->
            IF cmd = "rejected" THEN "dedup"
            ELSE IF cmd = "promotion" THEN "metrics"
            ELSE IF Stored(Held(p)) THEN "mutation" ELSE "graph"
       [] At(p, "mutation") -> "summary"
       [] At(p, "summary") -> "graph"
       [] At(p, "graph") -> "metrics"
       [] At(p, "metrics") -> IF cmd = "replay" THEN "replay"
                              ELSE IF cmd = "refresh_metrics" THEN "idle" ELSE "portfolio"
       [] At(p, "replay") -> "portfolio"
       [] OTHER -> "idle"

Proceed(p) ==
  IF NextStep(p) = "idle" THEN Finish(p)
  ELSE Become(p, [proc[p] EXCEPT !.step = NextStep(p), !.loaded = FALSE, !.copy = NoMemory])

(* A useful result goes to the success patterns, any other to the regressions. *)
StoreOf(p) ==
  IF ~ At(p, "patterns") THEN proc[p].step
  ELSE IF Status(Held(p)) = "candidate" THEN "successes" ELSE "regressions"

Refreshing(p) == proc[p].cmd \in {"refresh_metrics", "refresh_portfolio"}

(* replay_is_ok *)
ReplayOk(r) == r.matches /\ r.gates = 3

(* Lines of the log that hold one entry. *)
Lines == {i \in DOMAIN log : i \notin glued /\ i - 1 \notin glued}

(* refresh_metrics: candidates are counted by their files, not in the log. *)
MetricsFromFiles ==
  LET ok == {r \in replays : ReplayOk(r)}
      runs(c) == Cardinality({i \in DOMAIN log : c \in RunCounters(log[i])})
  IN [c \in Counter |->
        CASE c = "candidates" -> Cardinality(summaries)
          [] c = "replay_passed" -> Cardinality(ok)
          [] c \in {"replay_failed", "replay_failed_runs"} -> Cardinality(replays \ ok)
          [] c = "failed" -> runs(c) + Cardinality(replays \ ok)
          [] OTHER -> runs(c)]

(* refresh_portfolio: lines it cannot parse are skipped. *)
PortfolioFromFiles ==
  [k \in Kinds |->
     [c \in Share |->
        IF c = "replay_passed"
        THEN Cardinality({r \in replays : \E s \in summaries :
               /\ r.run = s.run /\ s.run \in mutations /\ KindOf[s.digest] = k
               /\ c \in ReplayShare(s.digest, ReplayOk(r))})
        ELSE Cardinality({i \in Lines : KindOf[log[i].digest] = k /\ c \in KindShare(log[i])})]]

TornAny(kind) == \E f \in torn : f[1] = kind

Loaded(p, s, value) ==
  Become(p, [proc[p] EXCEPT !.loaded = TRUE, !.copy = [NoMemory EXCEPT ![s] = value]])

(* Another command is about to write the store, and may just have truncated it. *)
MidWrite(s) == \E q \in Proc : ~ At(q, "idle") /\ proc[q].loaded /\ StoreOf(q) = s

(* A store is read; one that cannot be parsed ends the command with an error. *)
Load(p) ==
  /\ StoreOf(p) \in Store
  /\ ~ proc[p].loaded /\ ~ Refreshing(p)
  /\ \/ /\ <<StoreOf(p), 0>> \in torn \/ MidWrite(StoreOf(p))
        /\ Finish(p)
     \/ /\ <<StoreOf(p), 0>> \notin torn
        /\ Loaded(p, StoreOf(p), memory[StoreOf(p)])
  /\ UNCHANGED <<serial, memory, torn, log, ended, glued, mutations, summaries, replays,
                 sandboxes, abandoned, alone, deaths>>

Unreadable(p) == \/ TornAny("replay")
                 \/ At(p, "metrics") /\ (glued # {} \/ TornAny("summary"))

(* A refresh computes the store from the other files. *)
Recount(p) ==
  /\ ~ At(p, "idle")
  /\ Refreshing(p) /\ ~ proc[p].loaded
  /\ IF Unreadable(p) THEN Finish(p)
     ELSE IF At(p, "metrics") THEN Loaded(p, "metrics", MetricsFromFiles)
     ELSE Loaded(p, "portfolio", PortfolioFromFiles)
  /\ UNCHANGED <<serial, memory, torn, log, ended, glued, mutations, summaries, replays,
                 sandboxes, abandoned, alone, deaths>>

Raised(tally, counters) ==
  [c \in DOMAIN tally |-> IF c \in counters THEN tally[c] + 1 ELSE tally[c]]

TheReplay(p) ==
  [run |-> Held(p).run, gates |-> Held(p).gates, matches |-> proc[p].matches]

(* record_dedup_entry, record_regression, record_success_pattern,
   update_graph_for_evolution and the updates of metrics and portfolio *)
Updated(p) ==
  LET e == Held(p)
      s == StoreOf(p)
      old == proc[p].copy[s]
      ok == ReplayOk(TheReplay(p))
  IN IF Refreshing(p) THEN old
     ELSE CASE s = "dedup" ->
                 [old EXCEPT ![e.digest] = [seen |-> @.seen + 1, useful |-> EntryUseful(e)]]
            [] s \in {"regressions", "successes"} -> [old EXCEPT ![e.pattern] = @ + 1]
            [] s = "graph" -> old \cup {<<e.digest, Status(e)>>}
            [] s = "metrics" /\ proc[p].cmd = "replay" -> Raised(old, ReplayCounters(ok))
            [] s = "metrics" /\ proc[p].cmd # "replay" -> Raised(old, RunCounters(e))
            [] s = "portfolio" /\ proc[p].cmd = "replay" ->
                 [old EXCEPT ![KindOf[e.digest]] = Raised(@, ReplayShare(e.digest, ok))]
            [] s = "portfolio" /\ proc[p].cmd # "replay" ->
                 [old EXCEPT ![KindOf[e.digest]] = Raised(@, KindShare(e))]

Save(p) ==
  /\ ~ At(p, "idle")
  /\ proc[p].loaded
  /\ memory' = [memory EXCEPT ![StoreOf(p)] = Updated(p)]
  /\ torn' = torn \ {<<StoreOf(p), 0>>}
  /\ Proceed(p)
  /\ UNCHANGED <<serial, log, ended, glued, mutations, summaries, replays, sandboxes, abandoned,
                 alone, deaths>>

(* append_jsonl writes the text of an entry and its newline by two calls. *)
AppendLog(p) ==
  /\ At(p, "append")
  /\ log' = Append(log, Held(p))
  /\ glued' = IF ended THEN glued ELSE glued \cup {Len(log)}
  /\ ended' = FALSE
  /\ Proceed(p)
  /\ UNCHANGED <<serial, memory, torn, mutations, summaries, replays, sandboxes, abandoned,
                 alone, deaths>>

Newline(p) ==
  /\ At(p, "newline")
  /\ ended' = TRUE
  /\ Proceed(p)
  /\ UNCHANGED <<serial, memory, torn, log, glued, mutations, summaries, replays, sandboxes,
                 abandoned, alone, deaths>>

(* store_candidate: the mutation, then the summary *)
StoreMutation(p) ==
  /\ At(p, "mutation")
  /\ mutations' = mutations \cup {Held(p).run}
  /\ Proceed(p)
  /\ UNCHANGED <<serial, memory, torn, log, ended, glued, summaries, replays, sandboxes,
                 abandoned, alone, deaths>>

TheSummary(p) ==
  [run |-> Held(p).run, digest |-> Held(p).digest, gates |-> Held(p).gates]

StoreSummary(p) ==
  /\ At(p, "summary")
  /\ summaries' = summaries \cup {TheSummary(p)}
  /\ Proceed(p)
  /\ UNCHANGED <<serial, memory, torn, log, ended, glued, mutations, replays, sandboxes,
                 abandoned, alone, deaths>>

(* store_replay_result replaces the run's earlier replay. *)
WithReplay(p) == {r \in replays : r.run # Held(p).run} \cup {TheReplay(p)}

StoreReplay(p) ==
  /\ At(p, "replay")
  /\ replays' = WithReplay(p)
  /\ torn' = torn \ {<<"replay", Held(p).run>>}
  /\ Proceed(p)
  /\ UNCHANGED <<serial, memory, log, ended, glued, mutations, summaries, sandboxes, abandoned,
                 alone, deaths>>

-----------------------------------------------------------------------------
(* A command dies; fs::write truncates first, so the file it was writing may be torn. *)
Crash(p) ==
  /\ ~ At(p, "idle")
  /\ deaths < MaxDeaths
  /\ deaths' = deaths + 1
  /\ abandoned' = abandoned \cup {proc[p].serial}
  /\ Finish(p)
  /\ \/ UNCHANGED <<torn, summaries, replays>>
     \/ /\ proc[p].loaded
        /\ torn' = torn \cup {<<StoreOf(p), 0>>}
        /\ UNCHANGED <<summaries, replays>>
     \/ /\ At(p, "summary")
        /\ torn' = torn \cup {<<"summary", Held(p).run>>}
        /\ summaries' = summaries \cup {TheSummary(p)}
        /\ UNCHANGED replays
     \/ /\ At(p, "replay")
        /\ torn' = torn \cup {<<"replay", Held(p).run>>}
        /\ replays' = WithReplay(p)
        /\ UNCHANGED summaries
  /\ UNCHANGED <<serial, memory, log, ended, glued, mutations, sandboxes, alone>>

Next ==
  \E p \in Proc :
    \/ \E d \in Digest, t \in Pattern : BeginCycle(p, d, t) \/ BeginRejected(p, d, t)
    \/ \E s \in summaries : BeginReplay(p, s) \/ BeginPromotion(p, s)
    \/ BeginRefresh(p)
    \/ Copy(p) \/ Trial(p) \/ Destroy(p)
    \/ Load(p) \/ Recount(p) \/ Save(p)
    \/ AppendLog(p) \/ Newline(p)
    \/ StoreMutation(p) \/ StoreSummary(p) \/ StoreReplay(p)
    \/ Crash(p)

Spec == Init /\ [][Next]_vars

-----------------------------------------------------------------------------
(* Correctness *)

AtRest == \A p \in Proc : At(p, "idle")

(* Of every candidate on offer the log has an entry with status Candidate, and its
   mutation can be loaded, whatever overlapped or died. *)
OffersAreBacked ==
  \A s \in summaries :
    /\ s.run \in mutations
    /\ \E i \in DOMAIN log : /\ log[i].run = s.run /\ log[i].digest = s.digest
                             /\ Status(log[i]) = "candidate"

(* A directory below sandboxes/ belongs to a command still at work in it, or to one that
   died or could not copy or remove: no outcome of a trial leaks a sandbox. *)
SandboxesAccounted ==
  \A n \in sandboxes \ abandoned :
    \E p \in Proc : /\ proc[p].step \in {"trial", "destroy"}
                    /\ proc[p].serial = n

(* Once the log shows that a mutation was no use, every later cycle with it is a
   duplicate rejection, also after deaths; two commands at once can lose the record. *)
BadStaysRejected ==
  alone =>
    \A i, j \in DOMAIN log :
      (/\ i < j /\ log[i].digest = log[j].digest
       /\ ~ log[i].retained /\ ~ log[j].retained
       /\ ~ EntryUseful(log[i])) => log[j].duplicate

Except(tally, cs) == [c \in DOMAIN tally \ cs |-> tally[c]]

(* Without overlap and deaths, updating metrics and portfolio entry by entry gives what
   computing them anew from the files gives.  Replays are the exception: each is counted, but
   only the last of a run is kept. *)
UpdatesMatchRefresh ==
  (alone /\ deaths = 0 /\ AtRest) =>
    LET replayed == {"replay_passed", "replay_failed", "replay_failed_runs", "failed"}
        kept == memory.metrics
        fresh == MetricsFromFiles
    IN /\ Except(kept, replayed) = Except(fresh, replayed)
       /\ kept["failed"] - kept["replay_failed"] = fresh["failed"] - fresh["replay_failed"]
       /\ kept["replay_failed_runs"] = kept["replay_failed"]
       /\ kept["replay_passed"] + kept["replay_failed"] >= Cardinality(replays)
       /\ \A k \in Kinds : Except(memory.portfolio[k], {"replay_passed"})
                             = Except(PortfolioFromFiles[k], {"replay_passed"})
=============================================================================
