----------------------------- MODULE PathReview -----------------------------
(***************************************************************************)
(* The captures that path analysis is asked about: a capture is any        *)
(* sequence of packets with the flows of the traffic, and one step adds a  *)
(* packet or a flow to it, as a longer or wider capture does.              *)
(***************************************************************************)
EXTENDS CausalPath

CONSTANTS
  Packet, Flow,  \* what a capture may hold
  Query,         \* what is asked of it
  MaxPackets, MaxCaptured  \* bounds: packets, and packets with flows, of a capture

VARIABLES
  packets, flows,
  results  \* of every query, on the packets and flows captured
vars == <<packets, flows, results>>

Results(ps, fs) == [q \in Query |-> Analyze(ps, fs, q)]
Init == packets = <<>> /\ flows = {} /\ results = Results(<<>>, {})

Room == Len(packets) + Cardinality(flows) < MaxCaptured
CapturePacket(p) ==
  /\ Room /\ Len(packets) < MaxPackets
  /\ packets' = Append(packets, p)
  /\ results' = Results(packets', flows)
  /\ UNCHANGED flows
CaptureFlow(f) ==
  /\ Room /\ f \notin flows
  /\ flows' = flows \cup {f}
  /\ results' = Results(packets, flows')
  /\ UNCHANGED packets

Next == (\E p \in Packet : CapturePacket(p)) \/ (\E f \in Flow : CaptureFlow(f))
Spec == Init /\ [][Next]_vars

-----------------------------------------------------------------------------
(* Properties.                                                             *)

\* The comparison of two captures shows an impairment as new, or as resolved, exactly when
\* evidence of it appears, or is gone: the two lists are made from the same signals, but by
\* conditions of their own (causal_path.py:196, main.py:2006).
DiffsAgree ==
  [][results' # results => \A q \in Query :
       LET d == Compare(results[q], results'[q]) IN
       d.new = d.incidentOnly /\ d.resolved = d.baselineOnly]_vars

Progress == <<"no_attempt", "no_response", "established_no_data", "data_observed">>
Rank(state) == CHOOSE i \in DOMAIN Progress : Progress[i] = state
\* A capture that holds more, in whatever order of time, never makes the connection
\* look less complete (causal_path.py:1523).
VerdictGrows == [][\A q \in Query : Rank(results[q].state) <= Rank(results'[q].state)]_vars

\* The hops tell the same story as the verdict: none without an attempt, a failed one
\* exactly when the handshake was not answered (causal_path.py:1787). The hops look at no
\* port: a client that has the port asked for on its own side is shown as an attempt that
\* the verdict does not know.
Failed == {"connection_failed", "firewall_reset_observed", "firewall_drop_suspected"}
PortIsServers(q) ==
  q.port # None =>
    \A i \in DOMAIN packets :
      OfPair(packets[i], q) => /\ packets[i].src = q.src => packets[i].dport = q.port
                               /\ packets[i].src = q.dst => packets[i].sport = q.port
HopsAgree ==
  \A q \in Query :
    LET hops == Hops(packets, q) state == results[q].state IN
    PortIsServers(q) => /\ (hops = <<>>) <=> (state = "no_attempt")
                        /\ (Range(hops) \cap Failed # {}) <=> (state = "no_response")
============================================================
