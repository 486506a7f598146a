----------------------------- MODULE CausalPath -----------------------------
(***************************************************************************)
(* core/causal_path.py: where the traffic of a client and a server broke,  *)
(* from the packets and flows of a capture.                                *)
(*                                                                         *)
(* A packet is a record [src, dst, sport, dport, flags, data, long, ts]:   *)
(* flags a set, data whether it has TCP payload, long whether its frame    *)
(* is longer than 54 bytes, ts in milliseconds. A flow is [src, dst,       *)
(* sport, dport, first]. A query is [src, dst, port, roles], port None for *)
(* any and roles the addresses given as [firewall, lb, backend]; an        *)
(* address of a backend subnet counts as a backend. Sentences are left     *)
(* out, the hypotheses and notes they make up are members of sets.         *)
(***************************************************************************)
EXTENDS Integers, Sequences, FiniteSets, SequencesExt

CONSTANT None

Syn(p) == "syn" \in p.flags
Ack(p) == "ack" \in p.flags
Rst(p) == "rst" \in p.flags

\* Part of a capture: its packets, by their positions in the capture.  sorted(packets,
\* key=ts) is stable: of equal times the first captured comes first.
Before(s, i, j) == s[i].ts < s[j].ts \/ (s[i].ts = s[j].ts /\ i < j)
Earliest(s, I) == CHOOSE i \in I : \A j \in I : ~Before(s, j, i)
First(s, P(_)) ==
  LET I == {i \in DOMAIN s : P(s[i])} IN IF I = {} THEN None ELSE s[Earliest(s, I)]

Times(s) == {s[i].ts : i \in DOMAIN s}
Least(T) == CHOOSE t \in T : \A u \in T : t <= u
Greatest(T) == CHOOSE t \in T : \A u \in T : t >= u

-----------------------------------------------------------------------------
(* Step A: packets and flows of the pair, in either direction.             *)

OfPair(x, q) ==
  /\ {x.src, x.dst} = {q.src, q.dst}
  /\ q.port # None => q.port \in {x.sport, x.dport}
Relevant(s, q) == Restrict(s, {i \in DOMAIN s : OfPair(s[i], q)})

(* Steps B, C, D: the SYN, the SYN-ACK, the application data.              *)

FindSyn(s, q) ==
  First(s, LAMBDA p : /\ p.src = q.src /\ p.dst = q.dst /\ Syn(p) /\ ~Ack(p)
                      /\ q.port # None => p.dport = q.port)
\* Mutant: whatever the server sends first must be the SYN-ACK.
FirstAnswer(s, q) ==
  LET p == First(s, LAMBDA x : x.src = q.dst) IN IF p # None /\ Syn(p) /\ Ack(p) THEN p ELSE None
FindSynAck(s, q) ==
  First(s, LAMBDA p : /\ p.src = q.dst /\ p.dst = q.src /\ Syn(p) /\ Ack(p)
                      /\ q.port # None => p.sport = q.port)
FindData(s) == {i \in DOMAIN s : s[i].data \/ (s[i].flags = {} /\ s[i].long)}

(* Step E: the state of the connection.                                    *)

\* Mutant: data alone says that the connection worked.
DataFirst(syn, synack, data) ==
  CASE data # {}                               -> "data_observed"
    [] data = {} /\ syn = None                 -> "no_attempt"
    [] data = {} /\ syn # None /\ synack = None -> "no_response"
    [] OTHER                                     -> "established_no_data"
ClassifyState(syn, synack, data) ==
  CASE syn = None                                    -> "no_attempt"
    [] syn # None /\ synack = None                   -> "no_response"
    [] syn # None /\ synack # None /\ data = {}    -> "established_no_data"
    [] syn # None /\ synack # None /\ data # {}    -> "data_observed"

-----------------------------------------------------------------------------
(* Timing of the packets, whoever of the two opened the connection.        *)

AnySyn(s) == First(s, LAMBDA p : Syn(p) /\ ~Ack(p))
AnswerTo(s, syn) ==
  First(s, LAMBDA p : Syn(p) /\ Ack(p) /\ p.ts >= syn.ts /\ p.src = syn.dst /\ p.dst = syn.src)

ConnectTime(s) ==
  LET syn == AnySyn(s) IN
  IF syn = None \/ AnswerTo(s, syn) = None THEN None ELSE AnswerTo(s, syn).ts - syn.ts

FinalAck(s, syn, synack) ==
  First(s, LAMBDA p : /\ ~Syn(p) /\ Ack(p) /\ ~p.data /\ p.ts >= synack.ts
                      /\ p.src = syn.src /\ p.dst = syn.dst)
FirstServerData(s, syn, ack) ==
  First(s, LAMBDA p : p.data /\ p.ts >= ack.ts /\ p.src = syn.dst /\ p.dst = syn.src)
FirstResponseTime(s) ==
  LET syn == AnySyn(s) IN
  IF ConnectTime(s) = None \/ FinalAck(s, syn, AnswerTo(s, syn)) = None THEN None
  ELSE LET ack == FinalAck(s, syn, AnswerTo(s, syn)) IN
       IF FirstServerData(s, syn, ack) = None THEN None ELSE FirstServerData(s, syn, ack).ts - ack.ts

TotalLatency(s) == IF DOMAIN s = {} THEN None ELSE Greatest(Times(s)) - Least(Times(s))

Timing(s) == [connect |-> ConnectTime(s), response |-> FirstResponseTime(s), total |-> TotalLatency(s)]
Slow(t) == t # None /\ t > 200

FailureDomain(t) ==
  CASE t.connect = None -> IF t.total # None /\ t.total < 100 THEN "front_end_connection_failure"
                           ELSE "connection_establishment_failure"
    [] t.connect # None /\ t.response = None -> "no_server_response_after_connection"
    [] t.connect # None /\ t.response # None /\ t.connect > 100 -> "slow_connection_establishment"
    [] t.connect # None /\ t.response # None /\ t.connect <= 100 ->
         IF t.response > 200 THEN "backend_or_application_delay" ELSE "no_obvious_failure_detected"

\* The timing overrides the failure of step E, of latencies, unless data flowed.
FailurePoint(state, t) ==
  LET domain == FailureDomain(t) IN
  CASE state # "data_observed" /\ domain \in {"slow_connection_establishment",
         "backend_or_application_delay", "no_server_response_after_connection"} -> domain
    [] state = "no_response"         -> "blocked_or_unreachable"
    [] state = "established_no_data" -> "no_application_data"
    [] OTHER                         -> ""

-----------------------------------------------------------------------------
(* Layers of the path: load balancer, backend, return path, firewall.      *)

IsBackend(q, ip) == ip \in q.roles.backend
FirstSeen(flows, P(_)) ==
  LET T == {f.first : f \in {g \in flows : P(g)}} IN IF T = {} THEN None ELSE Least(T)
Delay(from, to) == IF None \in {from, to} \/ to < from THEN None ELSE to - from

\* None unless the destination is a known load balancer.
LbVisibility(flows, q) ==
  IF q.dst \notin q.roles.lb THEN None
  ELSE [frontend |-> \E f \in flows : f.src = q.src /\ f.dst = q.dst,
        backend  |-> \E f \in flows : f.src = q.dst /\ IsBackend(q, f.dst)]

\* None unless the load balancer reached a backend.
BackendQuality(flows, q, lb) ==
  IF lb = None \/ (lb # None /\ ~lb.backend) THEN None
  ELSE LET sent == FirstSeen(flows, LAMBDA f : f.src = q.dst /\ IsBackend(q, f.dst))
           back == FirstSeen(flows, LAMBDA f : IsBackend(q, f.src) /\ f.dst = q.dst)
       IN  [observed |-> back # None, delay |-> Delay(sent, back)]

\* None unless the backend replied. The delay is never computed: no time is passed.
ReturnPath(flows, q, bq) ==
  IF bq = None \/ (bq # None /\ ~bq.observed) THEN None
  ELSE [observed |-> FirstSeen(flows, LAMBDA f : f.src = q.dst /\ f.dst = q.src) # None]

\* The direction is that of the first reset captured, not of the earliest.
FirewallSigns(s, q) ==
  LET resets == {i \in DOMAIN s : Rst(s[i])} IN
  [reset |-> resets # {},
   notes |-> Cardinality({i \in resets : {s[i].src, s[i].dst} \cap q.roles.firewall # {}}),
   direction |-> IF resets = {} THEN None
                 ELSE IF s[Least(resets)].src = q.dst THEN "server_to_client" ELSE "client_to_server"]

-----------------------------------------------------------------------------
(* Outcome and impairments.                                                *)

ImpairmentPriority ==
  <<"connection_establishment_failure", "no_server_response", "firewall_interference",
    "return_path_problem", "lb_backend_issue", "backend_response_delay">>

BackendSilent(l) == l.bq # None /\ ~l.bq.observed
BackendSlow(l) == l.bq # None /\ Slow(l.bq.delay)
NotForwarded(l) == l.lb # None /\ ~l.lb.backend
NotReturned(l) == l.rp # None /\ ~l.rp.observed
Interfered(l) == l.fw.notes > 0 \/ (l.fw.reset /\ l.fw.direction = "server_to_client")

Impairments(state, t, l) ==
  {i \in Range(ImpairmentPriority) :
     CASE i = "connection_establishment_failure" -> state \in {"no_response", "no_attempt"}
       [] i = "no_server_response"     -> state = "established_no_data" \/ BackendSilent(l)
       [] i = "backend_response_delay" -> Slow(t.response) \/ BackendSlow(l)
       [] i = "lb_backend_issue"       -> NotForwarded(l)
       [] i = "return_path_problem"    -> NotReturned(l)
       [] i = "firewall_interference"  -> Interfered(l)}

Outcome(state, impairments) ==
  CASE state = "data_observed" ->
         IF "return_path_problem" \in impairments THEN "partial_success" ELSE "success"
    [] state \in {"established_no_data", "no_response"} -> "failure"
    [] state = "no_attempt" -> "unknown"

PrimaryImpairment(impairments) ==
  LET I == {i \in DOMAIN ImpairmentPriority : ImpairmentPriority[i] \in impairments} IN
  IF I = {} THEN None ELSE ImpairmentPriority[Least(I)]

-----------------------------------------------------------------------------
(* Evidence: at least one item for every impairment, found again from the  *)
(* packets and flows.                                                      *)

Item(type, strength, packets) == [type |-> type, strength |-> strength, packets |-> packets \ {None}]

ClientSyn(s, q) == First(s, LAMBDA p : Syn(p) /\ ~Ack(p) /\ p.src = q.src)
HandshakeEvidence(s, q) ==
  LET syn == ClientSyn(s, q) IN
  {Item("connection_establishment_failure", IF syn = None THEN "medium" ELSE "high", {syn})}

ServerSynAck(s, q) == First(s, LAMBDA p : Syn(p) /\ Ack(p) /\ p.src = q.dst)
ClientAck(s, q) ==
  LET synack == ServerSynAck(s, q) IN
  First(s, LAMBDA p : /\ Ack(p) /\ ~Syn(p) /\ ~p.data /\ p.src = q.src
                      /\ synack # None => p.ts >= synack.ts)
SilenceEvidence(s, q, state, l) ==
  (IF state = "established_no_data"
   THEN {Item("no_server_response", "high", {ServerSynAck(s, q), ClientAck(s, q)})} ELSE {})
  \cup IF BackendSilent(l) THEN {Item("no_server_response", "medium", {})} ELSE {}

\* Mutant: the slow backend behind a load balancer is left without evidence.
PacketDelayEvidence(s, q, t, l) ==
  IF Slow(t.response) THEN {Item("backend_response_delay", "medium", {ClientAck(s, q)})} ELSE {}
DelayEvidence(s, q, t, l) ==
  LET ack == ClientAck(s, q)
      data == First(s, LAMBDA p : p.src = q.dst /\ p.data /\ (ack # None => p.ts >= ack.ts))
  IN  CASE Slow(t.response) ->
             {Item("backend_response_delay", IF t.response > 500 THEN "high" ELSE "medium", {ack, data})}
        [] ~Slow(t.response) /\ BackendSlow(l) -> {Item("backend_response_delay", "medium", {})}
        [] OTHER -> {}

\* The first five resets; a known firewall among all of them makes the evidence strong.
ResetEvidence(s, q) ==
  LET resets == {i \in DOMAIN s : Rst(s[i])}
      known == \E i \in resets : {s[i].src, s[i].dst} \cap q.roles.firewall # {}
  IN  {Item("firewall_interference", IF known THEN "high" ELSE "medium",
            {s[i] : i \in {j \in resets : Cardinality({k \in resets : Before(s, k, j)}) < 5}})}

EvidenceFor(i, s, q, state, t, l) ==
  CASE i = "connection_establishment_failure" -> HandshakeEvidence(s, q)
    [] i = "no_server_response"     -> SilenceEvidence(s, q, state, l)
    [] i = "backend_response_delay" -> DelayEvidence(s, q, t, l)
    [] i = "firewall_interference"  -> ResetEvidence(s, q)
    [] i \in {"lb_backend_issue", "return_path_problem"} -> {Item(i, "medium", {})}

-----------------------------------------------------------------------------
(* Notes, hypotheses and the two confidences.                              *)

Chosen(condition, x) == IF condition THEN {x} ELSE {}

VisibilityNotes(s, flows, q, syn) ==
  Chosen(DOMAIN s = {}, "no_packets") \cup Chosen(syn = None /\ DOMAIN s # {}, "mid_stream")
  \cup Chosen(flows = {}, "no_flow") \cup Chosen(q.port = None, "no_port")
  \cup Chosen(q.dst \notin q.roles.lb \cup q.roles.backend /\ q.dst \in q.roles.firewall, "to_firewall")

RoleHypotheses(q, failure) ==
  CASE q.dst \in q.roles.lb ->
         Chosen(failure \in {"connection_establishment_failure", "front_end_connection_failure"}, "lb_frontend_down")
         \cup Chosen(failure = "no_server_response_after_connection", "lb_pool_unhealthy")
    [] q.dst \in q.roles.backend \ q.roles.lb ->
         Chosen(failure = "backend_or_application_delay", "backend_slow")
         \cup Chosen(failure = "no_server_response_after_connection", "backend_mute")
    [] OTHER -> {}

LayerHypotheses(l) ==
  Chosen(l.lb # None /\ l.lb.frontend /\ ~l.lb.backend, "not_forwarded")
  \cup Chosen(BackendSilent(l), "backend_silent") \cup Chosen(BackendSlow(l), "backend_slow")
  \cup Chosen(NotReturned(l), "return_interrupted") \cup Chosen(l.rp # None /\ l.rp.observed, "return_seen")

FirewallHypotheses(q, l) ==
  LET returned == l.rp # None /\ l.rp.observed IN
  Chosen(l.fw.reset /\ ~returned /\ q.roles.firewall # {}, "reset_by_firewall")
  \cup Chosen(l.bq # None /\ l.bq.observed /\ ~returned /\ ~l.fw.reset, "silent_drop")

Clamp(low, high, n) == IF n < low THEN low ELSE IF n > high THEN high ELSE n
When(condition, n) == IF condition THEN n ELSE 0

Confidence(s, flows, syn, synack) ==
  LET n == Cardinality(DOMAIN s) IN
  Clamp(10, 95, (IF n = 0 THEN 10 ELSE 50 + When(n >= 20, 10) - When(n < 5, 15))
                + When(flows # {}, 5) + (IF syn = None THEN -10 ELSE 10) + When(synack # None, 10))

PathConfidence(t, notes, l, impairments) ==
  Clamp(0, 100,
    100 - When(t.connect = None, 20) - When(t.response = None, 15) - When(NotForwarded(l), 10)
        - When(BackendSilent(l), 15) - When(NotReturned(l), 10) - Clamp(0, 20, 5 * notes)
        - When(l.fw.reset /\ l.bq # None /\ l.bq.observed, 15)
        - When(impairments = {"backend_response_delay"} /\ Slow(t.response) /\ t.response <= 500, 15)
        - When(impairments = {"return_path_problem"}, 10))

ReturnNote(s, q) ==
  LET sent == Cardinality({i \in DOMAIN s : s[i].src = q.src}) back == Cardinality(DOMAIN s) - sent IN
  CASE sent = 0 /\ back = 0 -> "none"
    [] sent > 0 /\ back = 0 -> "forward_only"
    [] sent = 0 /\ back > 0 -> "return_only"
    [] sent > 0 /\ back > 0 -> IF sent <= 2 * back /\ back <= 2 * sent THEN "symmetric" ELSE "asymmetric"

TimingText(t) ==
  CASE t.connect = None -> IF t.total # None /\ t.total < 100 /\ t.response = None THEN "brief" ELSE "not_observed"
    [] t.connect # None /\ t.response = None -> "no_response"
    [] t.connect # None /\ t.response # None ->
         IF t.connect > 100 THEN "slow_connect" ELSE IF t.response > 200 THEN "slow_response" ELSE "no_delay"

Narrative(q, state, t, l, failure, confidence) ==
  {IF state = "no_attempt" THEN "incomplete" ELSE "initiated",
   IF t.connect = None THEN "not_connected" ELSE IF t.connect > 100 THEN "slow_connect" ELSE "connected"}
  \cup (IF l.lb = None THEN {}
        ELSE {IF l.lb.frontend THEN "frontend_reached" ELSE "frontend_unseen",
              IF l.lb.backend THEN "forwarded" ELSE "not_forwarded"})
  \cup Chosen(BackendSilent(l), "backend_silent") \cup Chosen(BackendSlow(l), "backend_slow")
  \cup Chosen(NotReturned(l), "not_returned") \cup Chosen(l.rp # None /\ l.rp.observed, "returned")
  \cup Chosen(l.fw.reset, "reset") \cup Chosen(l.fw.notes > 0, "firewall_reset")
  \cup Chosen(l.lb = None /\ Slow(t.response), "slow_response")
  \cup {failure} \cup Chosen(confidence < 65, "low_confidence")

-----------------------------------------------------------------------------
(* CausalPathEngine.analyze                                                *)

Analyze(packets, allFlows, q) ==
  LET s      == Relevant(packets, q)
      flows  == {f \in allFlows : OfPair(f, q)}
      syn    == FindSyn(s, q)
      synack == FindSynAck(s, q)
      state  == ClassifyState(syn, synack, FindData(s))
      t      == Timing(s)
      lb     == LbVisibility(allFlows, q)
      bq     == BackendQuality(allFlows, q, lb)
      l      == [lb |-> lb, bq |-> bq, rp |-> ReturnPath(allFlows, q, bq), fw |-> FirewallSigns(s, q)]
      failure == FailurePoint(state, t)
      impairments == Impairments(state, t, l)
      notes  == VisibilityNotes(s, flows, q, syn)
      confidence == Confidence(s, flows, syn, synack)
  IN  [state |-> state, outcome |-> Outcome(state, impairments), failure |-> failure, timing |-> t,
       timingText |-> TimingText(t), impairments |-> impairments,
       primary |-> PrimaryImpairment(impairments), notes |-> notes, confidence |-> confidence,
       pathConfidence |-> PathConfidence(t, Cardinality(notes) + l.fw.notes, l, impairments),
       hypotheses |-> RoleHypotheses(q, failure) \cup LayerHypotheses(l) \cup FirewallHypotheses(q, l),
       evidence |-> UNION {EvidenceFor(i, s, q, state, t, l) : i \in impairments},
       returned |-> ReturnNote(s, q),
       steps |-> Narrative(q, state, t, l, failure, confidence)]

-----------------------------------------------------------------------------
(* build_hop_sequence, a second reading of the same packets that asks for  *)
(* the role of the destination.                                            *)

RoleOf(q) ==
  CASE q.dst \in q.roles.firewall -> "firewall"
    [] q.dst \in q.roles.lb \ q.roles.firewall -> "load_balancer"
    [] q.dst \in q.roles.backend \ (q.roles.lb \cup q.roles.firewall) -> "backend"
    [] OTHER -> "unknown"

FirewallHop(q, synack, rst) ==
  CASE synack # None -> "firewall_pass_observed"
    [] synack = None /\ rst # None -> IF rst.src = q.dst THEN "firewall_reset_observed" ELSE "firewall_drop_suspected"
    [] synack = None /\ rst = None -> "firewall_drop_suspected"
\* All packets are searched, not only those of the pair.
LbHops(packets, q) ==
  LET syn == First(packets, LAMBDA p : p.src = q.dst /\ Syn(p) /\ ~Ack(p) /\ IsBackend(q, p.dst)) IN
  <<"lb_frontend_connection_observed",
    IF syn = None THEN "lb_backend_connection_missing" ELSE "connection_established">>
BackendHops(s, q, synack) ==
  LET data == First(s, LAMBDA p : p.data /\ p.src = q.dst) IN
  <<"connection_established">>
    \o IF data # None /\ data.ts - synack.ts > 500 THEN <<"backend_response_slow">> ELSE <<>>

Hops(packets, q) ==
  LET s == Relevant(packets, q)
      syn == ClientSyn(s, q)
      synack == ServerSynAck(s, q)
  IN  IF syn = None THEN <<>>
      ELSE <<"client_initiated">> \o
           CASE RoleOf(q) = "firewall" -> <<FirewallHop(q, synack, First(s, Rst))>>
             [] RoleOf(q) # "firewall" /\ synack = None -> <<"connection_failed">>
             [] RoleOf(q) = "load_balancer" /\ synack # None -> LbHops(packets, q)
             [] RoleOf(q) = "backend" /\ synack # None -> BackendHops(s, q, synack)
             [] RoleOf(q) = "unknown" /\ synack # None -> <<"connection_established">>

-----------------------------------------------------------------------------
(* main.py: the comparison of the results of two captures.                 *)

Severity(outcome) ==
  CASE outcome = "success" -> 0 [] outcome = "partial_success" -> 1 [] outcome = "failure" -> 2
    [] outcome = "unknown" -> 3
Hinted == {"backend_response_delay", "return_path_problem", "firewall_interference", "lb_backend_issue"}

Compare(b, i) ==
  LET worse == Severity(i.outcome) > Severity(b.outcome)
      new == i.impairments \ b.impairments
      types(r) == {e.type : e \in r.evidence}
      numeric == {k \in DOMAIN b.timing : None \notin {b.timing[k], i.timing[k]}}
  IN  [changed |-> b.outcome # i.outcome, regression |-> worse,
       new |-> new, resolved |-> b.impairments \ i.impairments,
       persisting |-> b.impairments \cap i.impairments,
       timing |-> [k \in numeric |-> i.timing[k] - b.timing[k]],
       confidence |-> i.pathConfidence - b.pathConfidence,
       baselineOnly |-> types(b) \ types(i), incidentOnly |-> types(i) \ types(b),
       \* The first hint is that of the alphabetically first new impairment that has one.
       point |-> IF new \cap Hinted # {} THEN "hint"
                 ELSE IF ~worse THEN None ELSE IF i.outcome = "failure" THEN "failure" ELSE "partial"]
=============================================================================
