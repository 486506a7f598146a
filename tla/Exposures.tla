----------------------------- MODULE Exposures -----------------------------
(***************************************************************************)
(* The analyzers of the application protocols: DNS, HTTP, TLS and those    *)
(* that carry secrets or errors in the clear.                              *)
(***************************************************************************)
EXTENDS Detectors

Which(s, p(_)) == SelectSeq(s, p)
Both(txs) == Distinct(FlattenSeq([i \in DOMAIN txs |-> <<txs[i].client, txs[i].server>>]))
Asked(txs) == {txs[i].asked : i \in DOMAIN txs}
AskTimes(txs) == {txs[i].at : i \in DOMAIN txs}

-----------------------------------------------------------------------------
(* DNS: a name is a record [apex, sub, long, dga], sub None for the apex.  *)

Clients(txs) == Distinct([i \in DOMAIN txs |-> txs[i].client])
CountOf(txs, client) == Len(Which(txs, LAMBDA t : t.client = client))
ByCount(txs) == SortSeq(Clients(txs), LAMBDA a, b : CountOf(txs, a) > CountOf(txs, b))

NxdomainStorm(c) ==
  LET Nx == Which(c.dns, LAMBDA t : t.rcode = "nxdomain") IN
  When(Len(Nx) >= Limit.nxdomains,
    Finding("DNS-001", <<Len(Nx)>>, Above(Len(Nx), Limit.nxdomainsMany, "critical", "medium"), "high", Take(ByCount(Nx), 5), {}, AskTimes(Nx), TRUE))
Tunneling(c) ==
  LET Long == Which(c.dns, LAMBDA t : t.name.long) IN
  When(Len(Long) > 0, Finding("DNS-002", <<Len(Long)>>, "critical", "medium", Take(Clients(Long), 10), Asked(Take(Long, 10)), AskTimes(Long), TRUE))
Apexes(c) == Distinct([i \in DOMAIN c.dns |-> c.dns[i].name.apex])
Generated(c) ==
  LET Suspects == Which(Apexes(c), LAMBDA a : Len(Which(c.dns, LAMBDA t : t.name.dga /\ t.name.apex = a)) >= Limit.generated) IN
  When(Suspects # <<>>, Finding("DNS-003", <<Len(Suspects)>>, "medium", "low", <<>>, {}, {}, TRUE))
\* Most questions about an apex ask for a name below it that is asked once. Told of the first such apex.
ManyNames(c) ==
  LET Under(a) == Which(c.dns, LAMBDA t : t.name.apex = a)
      subs(a) == Cardinality({t.name.sub : t \in Range(Under(a))} \ {None})
      Many_ == Which(Apexes(c), LAMBDA a : subs(a) >= Limit.names /\ subs(a) * 10 >= 7 * Len(Under(a))) IN
  When(Many_ # <<>>, Finding("DNS-004", <<Many_[1], subs(Many_[1])>>, "medium", "medium", <<>>, {}, {}, TRUE))
SlowAnswers(c) ==
  LET Slow == Which(c.dns, LAMBDA t : t.answered # 0 /\ t.rtt > Limit.slowAnswer) IN
  When(Len(Slow) >= Limit.slowAnswers,
    Finding("DNS-005", <<Len(Slow)>>, "low", "high", Distinct([i \in 1..Len(Take(Slow, 5)) |-> Slow[i].server]), {}, {}, TRUE))
Unanswered(c) ==
  LET n == Len(Which(c.dns, LAMBDA t : t.answered = 0)) IN
  When(n >= Limit.unanswered, Finding("DNS-006", <<n>>, "low", "medium", <<>>, {}, {}, FALSE))
Dns(c) == NxdomainStorm(c) \o Tunneling(c) \o Generated(c) \o ManyNames(c) \o SlowAnswers(c) \o Unanswered(c)

-----------------------------------------------------------------------------
(* HTTP: what a request is, is a set: of a tool, an attack, a login.       *)

Requests(c, what) == Which(c.http, LAMBDA t : what \in t.what)
ToolAgents(c) == LET Txs == Requests(c, "tool") IN
  When(Txs # <<>>, Finding("HTTP-001", <<>>, "high", "high", Both(Txs), Asked(Txs), AskTimes(Txs), TRUE))
WebAttacks(c) == LET Txs == Requests(c, "attack") IN
  When(Txs # <<>>, Finding("HTTP-002", <<>>, "critical", "medium", Both(Txs), Asked(Txs), AskTimes(Txs), TRUE))
ClearLogins(c) == LET Txs == Which(Requests(c, "login"), LAMBDA t : t.port = 80) IN
  When(Txs # <<>>, Finding("HTTP-003", <<>>, "high", "high", Both(Txs), Asked(Txs), AskTimes(Txs), TRUE))
ServerErrors(c) == LET Txs == Which(c.http, LAMBDA t : t.code \in 500..599) IN
  When(Len(Txs) >= Limit.serverErrors,
    Finding("HTTP-004", <<Len(Txs)>>, Above(Len(Txs), Limit.serverErrorsMany, "critical", "high"), "high", Both(Txs),
            {t.answered : t \in Range(Txs)}, {}, TRUE))
ClientErrors(c) == LET Txs == Which(c.http, LAMBDA t : t.code \in 400..499) IN
  When(Len(Txs) >= Limit.clientErrors,
    Finding("HTTP-005", <<Len(Txs)>>, "medium", "medium", Both(Txs), {t.answered : t \in Range(Txs)}, {}, TRUE))
SlowResponses(c) == LET Txs == Which(c.http, LAMBDA t : t.latency > Limit.slowResponse) IN
  When(Len(Txs) >= Limit.slowResponses, Finding("HTTP-006", <<Len(Txs)>>, "medium", "medium", Both(Txs), Asked(Txs), {}, TRUE))
Http(c) == ToolAgents(c) \o WebAttacks(c) \o ClearLogins(c) \o ServerErrors(c) \o ClientErrors(c) \o SlowResponses(c)

-----------------------------------------------------------------------------
(* TLS. The rules on certificates are left out: no certificate is read.    *)

Deprecated == {"SSLv3", "TLSv1.0", "TLSv1.1"}
Version(t) == IF t.version # None THEN t.version ELSE t.offered
OldVersions(c) == LET Hs == Which(c.tls, LAMBDA t : Version(t) \in Deprecated) IN
  When(Hs # <<>>, Finding("TLS-001", <<{Version(t) : t \in Range(Hs)}>>, "high", "high", Both(Hs), Asked(Hs), {}, TRUE))
Alerts(c) == LET Hs == Which(c.tls, LAMBDA t : t.alert) IN
  When(Hs # <<>>, Finding("TLS-002", <<Len(Hs)>>, "medium", "medium", Both(Hs), Asked(Hs), {}, TRUE))
ClearOn443(c) == LET Txs == Which(c.http, LAMBDA t : t.port = 443) IN
  When(Txs # <<>>, Finding("TLS-003", <<Len(Txs)>>, "high", "high", Both(Txs), Asked(Txs), {}, TRUE))
BadFingerprints(c) == LET Hs == Which(c.tls, LAMBDA t : t.ja3 = "malicious") IN
  When(Hs # <<>>, Finding("TLS-006", <<Len(Hs)>>, "critical", "medium", Both(Hs), Asked(Hs), {}, TRUE))
Tls(c) == OldVersions(c) \o Alerts(c) \o ClearOn443(c) \o BadFingerprints(c)

-----------------------------------------------------------------------------
(* Other protocols, counted packet by packet.                              *)

Of(c, kind) == Which(c.packets, LAMBDA p : Carries(p, {kind}))
FtpLogins(c) == LET n == Len(Which(Of(c, "ftp"), LAMBDA p : p.app.command \in {"USER", "PASS"})) IN
  When(n >= 2, Finding("PROTO-001", <<n>>, "critical", "high", <<>>, {}, {}, FALSE))
OldSsh(c) == LET Ps == Which(Of(c, "ssh"), LAMBDA p : p.app.version = 1) IN
  When(Ps # <<>>, Finding("PROTO-002", <<Len(Ps)>>, "critical", "high", Parties(Range(Ps)), {}, {}, TRUE))
OldSnmp(c) == LET n == Len(Which(Of(c, "snmp"), LAMBDA p : p.app.version \in {0, 1})) IN
  When(n >= Limit.snmp, Finding("PROTO-003", <<n>>, "medium", "high", <<>>, {}, {}, FALSE))
KerberosErrors(c) == LET n == Len(Which(Of(c, "kerberos"), LAMBDA p : p.app.type = 30)) IN
  When(n >= Limit.kerberos, Finding("PROTO-004", <<n>>, "medium", "low", <<>>, {}, {}, FALSE))
MailLogins(c) == LET n == Len(Which(Of(c, "smtp"), LAMBDA p : p.app.command = "AUTH")) IN
  When(n >= 1, Finding("PROTO-005", <<n>>, "medium", "medium", <<>>, {}, {}, FALSE))
Protocols(c) == FtpLogins(c) \o OldSsh(c) \o OldSnmp(c) \o KerberosErrors(c) \o MailLogins(c)

\* In the order the pipeline runs them.
Detect(c) == Tcp(c) \o Dns(c) \o Http(c) \o Tls(c) \o Security(c) \o Protocols(c)
=============================================================================
