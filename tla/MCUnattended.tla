----------------------------- MODULE MCUnattended -----------------------------
(* Three tasks: one asks for replays and two campaigns, one for no replay, and one admits
   only what the graph does not offer. *)
EXTENDS Unattended

Tests == GeneratedTests
MCTarget == {Tests, "src/evolution/metrics.rs", "src/graph/mod.rs"}
MCPattern == SafeTargetsWithRuntime \cup HardForbidden \cup {"src/graph/*"}
MCCovers == [p \in MCPattern |->
  CASE p = "tests/*" -> {Tests}
    [] p = "src/evolution/*" -> {"src/evolution/metrics.rs"}
    [] p = "src/graph/*" -> {"src/graph/mod.rs"}
    [] OTHER -> {}]

Base == [targets |-> {}, forbidden |-> HardForbidden, kinds |-> {}, objectives |-> {},
         denied |-> RequiredDenied, maxRisk |-> 30, minScore |-> 50, cycles |-> 2,
         replay |-> TRUE, benchmark |-> FALSE, autoPromote |-> FALSE]
MCContract ==
  [plain  |-> [Base EXCEPT !.targets = {"tests/*"}, !.kinds = {"AddUnitTest"}],
   quick  |-> [Base EXCEPT !.cycles = 1, !.replay = FALSE],
   narrow |-> [Base EXCEPT !.targets = {"src/graph/*"}, !.minScore = 105]]

TestPlan   == [target |-> Tests, kind |-> "AddUnitTest", objective |-> "tests", risk |-> 12]
MetricPlan == [target |-> "src/evolution/metrics.rs", kind |-> "AddMetricUpdate",
               objective |-> "metrics", risk |-> 12]
GraphPlan  == [target |-> "src/graph/mod.rs", kind |-> "AddMetricUpdate",
               objective |-> "metrics", risk |-> 32]
MCPlanSets == {{TestPlan, MetricPlan}, {GraphPlan}}
(* Bound on everything together: four cycles alone, or fewer with a second command, a
   death, or the operator beside them. *)
MaxWork == 4
Work == count["cycles"] + 2 * Less(count["commands"], 1) + 2 * count["deaths"]
        + 3 * count["others"]
InBounds == Work <= MaxWork

MCSays == [f \in MCTarget |-> CASE f = Tests -> {}
                               [] f = "src/evolution/metrics.rs" -> {"source", "metrics", "evolution"}
                               [] OTHER -> {"source"}]
=============================================================================
