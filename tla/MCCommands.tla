----------------------------- MODULE MCCommands -----------------------------
(* Small instances of Commands: three commands on three directories, four    *)
(* machines, and one intent of every kind that is decided differently.       *)
EXTENDS Commands, Integers, TLC

CONSTANTS d1, d2, d3

All == ModelVerbs \cup ReportVerbs
MCPinned == [capabilities |-> [commands |-> All, version |-> "pinned"], usage |-> {}]
Current == [capabilities |-> [commands |-> All, version |-> "current"], usage |-> {}]
Old == [capabilities |-> Null, usage |-> {"sample", "diagnose"}]
Empty == [capabilities |-> [commands |-> {}, version |-> Null], usage |-> All]
Machine(path, built) == [p \in {"bayesite", "built"} |-> IF p = "built" THEN built ELSE path]
MCMachines == {Machine(Null, Old), Machine(Null, Null), Machine(Current, Empty), Machine(Old, Current)}

Ask(verb, dir, out) ==
  [verb |-> verb, replay |-> verb = "replay", backend |-> "bayesite", engine |-> Null, args |-> <<>>,
   show |-> FALSE, auto |-> TRUE, settings |-> <<>>, source |-> "valid", dir |-> dir, out |-> out,
   validate |-> Null]
Sample == Ask("sample", d1, d1)
JaxSample == [Sample EXCEPT !.backend = "bayesjax"]
Given(i, settings) == [i EXCEPT !.settings = settings]
MCIntents ==
  {Ask("ensure", d1, d1), Sample, Ask("sample", d2, d2), Ask("replay", d1, d2), Ask("replay", d2, d3),
   Ask("idata", d1, d1), Ask("plot", d1, d1), Ask("diagnose", d1, d1)}
  \cup {[Sample EXCEPT !.engine = "built"], [Sample EXCEPT !.engine = "built", !.show = TRUE],
        [Sample EXCEPT !.auto = FALSE], [Sample EXCEPT !.show = TRUE], [Sample EXCEPT !.source = "invalid"],
        [Given(Sample, [chains |-> 2, target_accept |-> Unit]) EXCEPT !.engine = "built", !.args = <<"--x">>],
        [Sample EXCEPT !.engine = "built", !.args = <<"--out">>],
        [Ask("idata", d1, d1) EXCEPT !.validate = "skip"],
        [Ask("diagnose", d1, d1) EXCEPT !.engine = "built"],
        [Ask("replay", d1, d2) EXCEPT !.engine = "built"], [Ask("replay", d1, d2) EXCEPT !.show = TRUE],
        [Ask("replay", d1, d2) EXCEPT !.args = <<"--x">>],
        [Ask("posterior-predictive", d1, d1) EXCEPT !.args = <<"--x">>, !.engine = "built"],
        [JaxSample EXCEPT !.args = <<"--x">>], [JaxSample EXCEPT !.engine = "built"]}
  \cup {[Ask(v, d1, d1) EXCEPT !.engine = "built"] : v \in {"simulate", "recover", "sbc", "prior-predictive",
                                                            "posterior-check", "recover-check"}}
  \cup {[Ask("recover", d1, d1) EXCEPT !.backend = "bayesjax"],
        [Ask("prior-predictive", d1, d1) EXCEPT !.backend = "bayesjax", !.settings = [draws |-> 1]]}
  \cup {Given(JaxSample, s) :
          s \in {<<>>, [seed |-> 0, max_tree_depth |-> 20], [draws |-> 4, target_accept |-> 1], [draws |-> 3],
                 [seed |-> -1], [chains |-> 0], [max_tree_depth |-> 21], [target_accept |-> Unit],
                 [seed |-> MaxReportable + 1], [warmup |-> Other]}}

CommandSymmetry == Permutations(Calls)
=============================================================================
