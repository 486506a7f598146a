------------------------------ MODULE MCMonitors ------------------------------
EXTENDS Monitors

CONSTANTS a1, q1, healthy, broken

\* The healthy path, and the one where the answers get lost: the next one asked is worse.
Path(o, p, imps, conf, delay) ==
    [outcome |-> o, primary |-> p, impairments |-> imps, confidence |-> conf, delay |-> delay]
MCResultOf ==
    healthy :> Path("success", None, {}, 90, 20)
    @@ broken :> Path("failure", "return_path_problem", {"return_path_problem"}, 60, 200)
MCPairOf == [c \in {healthy, broken} |-> "hosts"]
MCAssignee == a1 :> "analyst"
MCOutcome == {[outcome |-> "false_positive", cause |-> None]}
MCBaseline == {[delay |-> 500, confidence |-> -1, noisy |-> {"return_path_problem"}]}
MCRule == {[kind |-> "severity", value |-> "warning", for |-> 1]}
===============================================================================
