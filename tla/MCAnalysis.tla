----------------------------- MODULE MCAnalysis -----------------------------
(* Captures of few packets between two private hosts and one public, with  *)
(* limits so low that every rule can fire.                                 *)
EXTENDS Analysis

Plain == [kind |-> "none"]
Tcp_(src, dst, sport, dport, stream, flags, signs, app) ==
  [src |-> src, dst |-> dst, sport |-> sport, dport |-> dport, proto |-> "tcp", stream |-> stream, flags |-> flags,
   signs |-> signs, app |-> app]
Udp_(src, dst, sport, dport, app) ==
  [src |-> src, dst |-> dst, sport |-> sport, dport |-> dport, proto |-> "udp", stream |-> 0 - 1, flags |-> {}, signs |-> {}, app |-> app]
Name == [apex |-> "a", sub |-> "b", long |-> TRUE, dga |-> TRUE]
MCPacket == {
  Tcp_(1, 8, 1000, 443, 0, {"syn"}, {}, Plain),
  Tcp_(8, 1, 443, 1000, 0, {"syn", "ack"}, {}, Plain),
  Tcp_(8, 1, 443, 1000, 0, {"rst"}, {"retransmission"}, Plain),
  Tcp_(1, 2, 1001, 22, 0 - 1, {"syn"}, {"zero_window"}, Plain),
  Tcp_(2, 1, 1001, 22, 4, {"syn"}, {}, Plain),
  Tcp_(1, 8, 1002, 80, 2, {}, {}, [kind |-> "http_request", n |-> 1, what |-> {"attack", "login"}]),
  Tcp_(8, 1, 80, 1002, 2, {"fin"}, {}, [kind |-> "http_response", n |-> 1, code |-> 500]),
  Tcp_(1, 8, 1000, 443, 0, {"ack"}, {}, [kind |-> "client_hello", version |-> "TLSv1.0", ja3 |-> "malicious", alert |-> FALSE]),
  Tcp_(8, 1, 443, 1000, 0, {"ack"}, {}, [kind |-> "server_hello", version |-> "TLSv1.2", alert |-> TRUE]),
  Udp_(1, 8, 1003, 53, [kind |-> "dns_query", txid |-> 1, name |-> Name]),
  Udp_(8, 1, 53, 1003, [kind |-> "dns_response", txid |-> 1, rcode |-> "nxdomain"]),
  [Udp_(None, None, None, None, [kind |-> "arp", ip |-> 2, mac |-> "m"]) EXCEPT !.proto = "arp"],
  Tcp_(2, 8, 1004, 21, 0 - 1, {"ack"}, {"v6"}, [kind |-> "ftp", command |-> "PASS"]) }
MCGap == {1, 0 - 1}
MCLimit ==
  [halfOpen |-> 2, halfOpenMany |-> 3, resets |-> 2, resetsMany |-> 3, failed |-> 1, failedMany |-> 2, failedSure |-> 3,
   retransmissions |-> 1, retransmissionsSure |-> 2, zeroWindows |-> 1, zeroWindowsMany |-> 2, zeroWindowsSure |-> 3, oneSided |-> 2,
   ports |-> 2, portsMany |-> 3, syns |-> 2, echoes |-> 2, beacons |-> 3, shortest |-> 1, longest |-> 5, lateral |-> 1,
   nxdomains |-> 1, nxdomainsMany |-> 2, generated |-> 2, names |-> 1, slowAnswer |-> 2, slowAnswers |-> 1, unanswered |-> 2,
   serverErrors |-> 1, serverErrorsMany |-> 2, clientErrors |-> 1, slowResponse |-> 1, slowResponses |-> 1, snmp |-> 2, kerberos |-> 2,
   peers |-> 1, intervals |-> 1, starts |-> 2, portsTried |-> 1, tries |-> 1, started |-> 0,
   hostsShown |-> 2, sessionsShown |-> 2, eventsShown |-> 4]
AnyOf == [rule |-> None, src |-> None, dst |-> None]
MCSuppressions == {{}, {[AnyOf EXCEPT !.src = 1, !.dst = 8]}}
MCWhitelists == {{}}
MCWellKnown == 22 :> "SSH" @@ 53 :> "DNS" @@ 80 :> "HTTP" @@ 443 :> "HTTPS"

\* One private host that knocks at two public ones; the knocks at one of them are known.
BeaconPacket == {Tcp_(1, d, 1000, 443, d, {"syn"}, {}, Plain) : d \in {8, 9}}
BeaconSuppressions == {{[rule |-> "C2-001", src |-> 1, dst |-> 8]}}
=============================================================================
