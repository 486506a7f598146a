--------------------------- MODULE MCCalculations ---------------------------
(* Small instances: every prefix before bodies of each kind and exporters  *)
(* that share a template id; captures on both sides of the thresholds and  *)
(* of the roles; scores on both sides of every band; events before and     *)
(* after each cutoff; runs of a path that recovers and one that gets worse.*)
EXTENDS Calculations
CONSTANTS cli, srv, be, eph, web

Csv(type, columns, timed, action) ==
    [kind |-> "csv", type |-> type, columns |-> columns, timed |-> timed, action |-> action]
Kv(first, near, far, action) ==
    [kind |-> "kv", first |-> first, near |-> near \cup {first}, far |-> far, timed |-> TRUE,
     action |-> action]
Tokens == {"accept", "allow", "allowed", "pass", "permit", "deny", "denied", "block", "blocked",
           "reject", "drop", "dropped", "drop-all-packets", "discard", "alert", "reset-both",
           "close", ""}
Bodies ==
    {Csv("TRAFFIC", 40, TRUE, a) : a \in Tokens} \cup {Csv("THREAT", 40, TRUE, a) : a \in Tokens}
    \cup {Csv("TRAFFIC", 10, TRUE, "allow"), Csv("TRAFFIC", 40, FALSE, "allow"),
          Csv("SYSTEM", 40, TRUE, "allow")}
    \cup {Kv("devname", {"srcip", "dst", "action"}, {}, a) : a \in Tokens}
    \cup {Kv("time", {"src", "dst", "action"}, {}, a) : a \in Tokens}
    \cup {Kv("devname", {"nat_src", "src_ip", "dst", "action"}, {}, "deny"),
          Kv("src_ip", {"dst", "time"}, {"action"}, "deny"),
          Kv("src_ip", {"dst", "action"}, {}, "deny"),
          Kv("time", {"devname", "src"}, {"dst"}, "deny")}
Heads == {<<p, h>> : p \in {"none", "digits", "text"}, h \in {"none", "month", "month_no_host", "other"}}
Prefixed(b, p, h) == [pri |-> p, header |-> h] @@ b
Odd(b) == b.kind = "csv" /\ (b.type = "SYSTEM" \/ b.columns = 10 \/ ~b.timed)
Plain == {b \in Bodies : b.action = "deny" \/ Odd(b)}
MCLine == {Prefixed(b, x[1], x[2]) : b \in Plain, x \in Heads}
              \cup {Prefixed(b, "none", "none") : b \in Bodies}

T(i, l, w) == [kind |-> "template", id |-> i, layout |-> l, whole |-> w]
Data(i) == [kind |-> "data", id |-> i]
Other(k) == [kind |-> k]
Pk(v, s, sets) == [version |-> v, source |-> s, sets |-> sets]
MCExport ==
    {Pk(9, 1, <<T(256, {"src", "dst"}, TRUE)>>),
     Pk(9, 1, <<Data(256)>>),
     Pk(10, 1, <<Other("options"), T(256, {"src", "dst", "bytes"}, TRUE), Data(256)>>),
     Pk(9, 1, <<T(256, {"dst"}, FALSE), Data(256)>>),
     Pk(9, 2, <<Other("malformed"), T(256, {"dst"}, TRUE)>>),
     Pk(9, 2, <<T(256, {"src"}, TRUE), Data(256)>>),
     Pk(10, 2, <<Data(256)>>),
     Pk(5, 2, <<Data(256)>>)}

P(s, d, sp, dp, f, data, t) ==
  [src |-> s, dst |-> d, sport |-> sp, dport |-> dp, flags |-> f, data |-> data, long |-> data, ts |-> t]
Out(f, data, t) == P(cli, srv, eph, web, f, data, t)
In(f, data, t) == P(srv, cli, web, eph, f, data, t)
MCPacket ==
  {Out({"syn"}, FALSE, 0), Out({"syn"}, FALSE, 150), In({"syn", "ack"}, FALSE, 150), In({"syn", "ack"}, FALSE, 0),
   Out({"ack"}, FALSE, 150), Out({"ack"}, TRUE, 150), In({"ack"}, TRUE, 400), In({"ack"}, TRUE, 900),
   In({"rst"}, FALSE, 400), Out({"rst"}, FALSE, 0), In({"syn"}, FALSE, 0), P(srv, be, eph, web, {"syn"}, FALSE, 150),
   P(cli, srv, web, eph, {"syn"}, FALSE, 0)}
F(s, d, t) == [src |-> s, dst |-> d, sport |-> eph, dport |-> web, first |-> t]
MCFlow == {F(cli, srv, 0), F(srv, be, 100), F(be, srv, 200), F(be, srv, 400), F(srv, cli, 500)}

Roles(f, l, b) == [firewall |-> f, lb |-> l, backend |-> b]
Q(port, roles) == [src |-> cli, dst |-> srv, port |-> port, roles |-> roles]
MCQuery == {Q(None, Roles({}, {}, {})), Q(web, Roles({srv}, {}, {})), Q(web, Roles({}, {srv}, {be})),
            Q(None, Roles({cli}, {}, {srv}))}

-----------------------------------------------------------------------------
MCUser == {[id |-> 1, team |-> 7], [id |-> 2, team |-> None]}
FRow(c, v, imp, step, cause) ==
  [analyst |-> 1, analysis |-> "A", path |-> "P", team |-> None, confidence |-> c, verdict |-> v,
   impairment |-> imp, outcome |-> "success", step |-> step, cause |-> cause]
MCFeedbackRow ==
  {FRow(c, v, None, None, None) : c \in {0, 39, 40, 50, 51, 59, 60, 74, 75, 89, 90, 100}, v \in Verdicts}
  \cup {FRow(75, v, imp, step, cause) : v \in Verdicts, imp \in {None, "rst"},
           step \in {None, "blank", "SYN"}, cause \in {None, "rst"}}
  \cup {[FRow(80, "incorrect", None, "SYN", None) EXCEPT !.analyst = 2, !.team = t, !.analysis = a] :
           t \in {None, 7}, a \in {"A", "B"}}

Ev(s, a, t) == [src |-> s, dst |-> "d", device |-> "firewall", action |-> a, time |-> t]
MCEvent == {Ev("a", "allow", 2), Ev("a", "deny", 6), Ev("b", "deny", 6), Ev("b", "reset", 8), Ev("a", "drop", 8)}
MCPaged == {Ev("a", "allow", 2), Ev("b", "reset", 8)}

LF(d, p, state, type) ==
  [src |-> "a", dst |-> d, port |-> p, state |-> state, type |-> type, first |-> 0, last |-> 0,
   slow |-> type = "unstable"]
MCLiveFlow == {LF("x", 80, "completed", "normal"), LF("y", 80, "completed", "unstable"), LF("x", 22, "denied", "scanning"),
               LF("y", None, "dropped", "suspicious"), LF("x", 80, "reset", "normal"),
               LF("y", 22, "expired", "normal")}
MCTune == [minFlows |-> 1, scanFlows |-> 3, scanPorts |-> 2, scanDsts |-> 2, lateralDsts |-> 2,
           blockedSpike |-> 2, scanningFlows |-> 2, scanDstLimit |-> 1, scanPortLimit |-> 1,
           resetLimit |-> 1, suspiciousFlows |-> 2, minWindows |-> 2]

Res(o, p, imps, conf, delay) ==
  [outcome |-> o, primary |-> p, impairments |-> imps, confidence |-> conf, delay |-> delay]
MCResult == {Res("success", None, {}, 90, 20), Res("success", None, {}, 70, 200),
             Res("partial_success", "packet_loss", {"packet_loss"}, 80, 20),
             Res("failure", "return_path_problem", {"return_path_problem"}, 60, 200),
             Res("failure", "no_response", {"no_response", "packet_loss"}, 60, 0)}
Judged(n, o) == [i \in 1 .. n |-> [outcome |-> o, cause |-> None, drivers |-> {"return_path_problem"}]]
MCJudgements == {<<>>, Judged(3, "false_positive"), Judged(2, "issue_confirmed")}
MCBaselines == {[delay |-> -1, confidence |-> -1, noisy |-> {}],
                [delay |-> 500, confidence |-> 50, noisy |-> {"return_path_problem"}]}
MCRules == {<<>>, <<[kind |-> "impairment", value |-> "return_path_problem", until |-> 1]>>,
            <<[kind |-> "impairment", value |-> "no_response", until |-> 1],
              [kind |-> "impairment", value |-> "return_path_problem", until |-> 1]>>,
            <<[kind |-> "mute", until |-> -1], [kind |-> "severity", value |-> "info", until |-> 1],
              [kind |-> "snooze", until |-> 1], [kind |-> "impairment", value |-> "no_response", until |-> 1]>>}

I(type, severity, criticality, priority) ==
  [type |-> type, severity |-> severity, criticality |-> criticality, priority |-> priority, flows |-> 3]
MCIncident == {I("scanning", 0, None, 20), I("scanning", 3, 3, 100), I("unstable", 1, 1, 45),
               I("suspicious", 2, 2, 75), I("lateral_movement", 1, None, 40), I("rule:1", 0, None, 20)}

MCMonitors == {1, 2, 3}
MCTarget == <<"d", "d", "e">>
Of(m, row) == [monitor |-> m] @@ row
MCDigestRow ==
  {Of(m, [kind |-> "run"] @@ r) : m \in {1, 2}, r \in {x \in MCResult : x.confidence \in {60, 90} /\ x.delay # 0}}
  \cup {Of(3, [kind |-> "run"] @@ Res("success", None, {}, 90, 20))}
  \cup {Of(m, [kind |-> "outcome", outcome |-> o, cause |-> "firewall", drivers |-> {"return_path_problem"}]) :
     m \in {1, 2}, o \in {"issue_confirmed", "false_positive"}}

MCMaxRows == [digest |-> 4, feedback |-> 2, events |-> 4, pages |-> 3, flows |-> 5, sessions |-> 4, monitor |-> 5]
=============================================================================
