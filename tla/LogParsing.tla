----------------------------- MODULE LogParsing -----------------------------
(***************************************************************************)
(* What the collector reads out of a log line (Pipeline.process_line and   *)
(* the parsers of collector/parsers) and out of a NetFlow or IPFIX packet  *)
(* (collector/listeners/netflow_listener.py).                              *)
(*                                                                         *)
(* A line is a record: its priority `pri`, its `header`, and its body,     *)
(* which is comma separated (kind "csv") or key=value (kind "kv").  Of a   *)
(* key=value body the keys in the first 500 characters (`near`) and the    *)
(* later ones (`far`) count; `first` is the key it begins with.            *)
(***************************************************************************)
EXTENDS Integers, Sequences, FiniteSets

CONSTANTS
    Line,     \* lines that may come
    Export,   \* packets that may come: [version, source, sets]
    None

VARIABLES
    line,      \* the line processed last
    event,     \* what became of it: an event, or None
    templates, \* TemplateCache._store
    decoded,   \* the flows of the last packet: by the place of its flowset, [at, by, layout]
    announced, \* history: per source and id, the layout told last, whole, since the start
    due        \* history: the flows of the last packet that these layouts give

vars == <<line, event, templates, decoded, announced, due>>

-----------------------------------------------------------------------------
(* The prefixes.  Between "<" and ">" the code takes up to four digits: pri *)
(* is "none", "digits" or "text".  A header begins with a month, has no    *)
(* host, or is another: "none", "month", "month_no_host", "other".         *)

\* _strip_rfc3164_header takes two words after the month, day and time: without a host
\* it takes the first word of the message.
WithoutHeader(l) ==
    IF l.header = "month" THEN [l EXCEPT !.header = "none"]
    ELSE IF l.header = "month_no_host" /\ l.kind = "kv"
           THEN [l EXCEPT !.header = "none", !.near = @ \ {l.first}]
    ELSE IF l.header = "month_no_host" THEN [l EXCEPT !.header = "none", !.kind = "other"]
    ELSE l

\* Mutant: only a line with a priority loses its header.
StripWithPriority(l) ==
    IF l.pri = "digits" THEN WithoutHeader([l EXCEPT !.pri = "none"]) ELSE l

\* _strip_syslog_priority.  A header is found at the beginning of the line only.
Strip(l) ==
    IF l.pri = "text" THEN l ELSE WithoutHeader([l EXCEPT !.pri = "none"])

-----------------------------------------------------------------------------
(* The parsers.                                                            *)

Keys(l) == l.near \cup l.far
SourceKeys == {"src", "srcip", "src_ip"}
ContainsSrc == {"src", "srcip", "nat_src"}  \* names in which "src=" or "srcip=" is found

ClaimsPaloAlto(l) ==
    /\ l.kind = "csv" /\ l.pri = "none" /\ l.header = "none"
    /\ l.type \in {"TRAFFIC", "THREAT"}

ClaimsFortiGate(l) ==
    l.kind = "kv" /\ "devname" \in l.near /\ l.near \cap ContainsSrc # {}

ClaimsGeneric(l) ==
    /\ l.kind = "kv" /\ Cardinality(l.near) >= 3
    /\ l.near \cap SourceKeys # {} /\ {"dst", "action"} \subseteq l.near

\* detect_format over the registry, in the order of start_collector.
Detect(l) ==
    IF ClaimsPaloAlto(l) THEN "paloalto"
    ELSE IF ClaimsFortiGate(l) THEN "fortigate"
    ELSE IF ClaimsGeneric(l) THEN "generic_kv" ELSE None

Allowing == {"accept", "allow", "pass", "permit"}
Denying == {"deny", "denied", "block", "blocked", "reject"}
Dropping == {"drop", "dropped", "discard"}

FirstOf(raw, table) ==
    IF \E a \in DOMAIN table : raw \in table[a]
      THEN CHOOSE a \in DOMAIN table : raw \in table[a]
      ELSE IF raw = "" THEN "unknown" ELSE raw

FortiGateAction(raw) ==
    FirstOf(raw, [allow |-> Allowing, deny |-> Denying, drop |-> Dropping, reset |-> {"reset-both"}])

\* Mutant: what was blocked passes.
GenericActionSwapped(raw) ==
    FirstOf(raw, [allow |-> Allowing \cup {"allowed", "block", "blocked"},
                  deny |-> Denying \ {"block", "blocked"}, drop |-> Dropping,
                  reset |-> {"reset-both"}])

GenericAction(raw) ==
    FirstOf(raw, [allow |-> Allowing \cup {"allowed"}, deny |-> Denying, drop |-> Dropping,
                  reset |-> {"reset-both"}])

TrafficAction(raw) ==
    FirstOf(raw, [allow |-> {"allow", "allowed"}, deny |-> {"deny", "denied"},
                  drop |-> {"drop", "dropped", "drop-all-packets"}, reset |-> {"reset-both"}])

ThreatAction(raw) ==
    FirstOf(raw, [alert |-> {"alert"}, allow |-> {"allow", "allowed"},
                  deny |-> {"block", "blocked", "deny", "denied", "reset-both"},
                  drop |-> {"drop", "dropped", "drop-all-packets"}])

ActionBy(parser, l, raw) ==
    CASE parser = "fortigate" -> FortiGateAction(raw)
      [] parser = "generic_kv" -> GenericAction(raw)
      [] OTHER -> IF l.type = "THREAT" THEN ThreatAction(raw) ELSE TrafficAction(raw)

\* A FortiGate line names addresses under two names each; a generic line needs the three
\* fields under any alias; a Palo Alto line needs 36 columns and a time.
ReadableFortiGate(l) == Keys(l) \cap {"src", "srcip"} # {} /\ "dst" \in Keys(l)
ReadableGeneric(l) == Keys(l) \cap SourceKeys # {} /\ {"dst", "action"} \subseteq Keys(l)
ReadablePaloAlto(l) == l.columns >= 36 /\ l.timed

Readable(parser, l) ==
    CASE parser = "paloalto" -> ReadablePaloAlto(l)
      [] parser = "fortigate" -> ReadableFortiGate(l)
      [] parser = "generic_kv" -> ReadableGeneric(l)

\* process_line and _normalise: the event, whose time is the time of arrival when the line
\* has none that a parser reads.
EventOf(l) ==
    LET clean == Strip(l)  parser == Detect(clean) IN
    IF parser = None THEN None
    ELSE IF ~Readable(parser, clean) THEN None
    ELSE [parser |-> parser,
          action |-> ActionBy(parser, clean,
                              IF l.kind = "csv" \/ "action" \in Keys(clean) THEN l.action ELSE ""),
          dated |-> l.timed]

ProcessLine(l) ==
    /\ line' = l /\ event' = EventOf(l)
    /\ UNCHANGED <<templates, decoded, announced, due>>

-----------------------------------------------------------------------------
(* NetFlow.  A packet has flowsets: templates, option templates, which are *)
(* skipped, and data; a length below 4 ends the packet.                    *)

\* Mutant: templates of all sources share their ids.
PutTemplateForAll(cache, p, s) ==
    LET keys == DOMAIN cache \cup {<<p.source, s.id>>} IN
    IF s.whole THEN [k \in keys |-> IF k[2] = s.id THEN s.layout ELSE cache[k]]
               ELSE cache

\* A template that the flowset cuts short is not kept.
PutTemplate(cache, p, s) ==
    IF s.whole THEN [k \in DOMAIN cache \cup {<<p.source, s.id>>} |->
                        IF k = <<p.source, s.id>> THEN s.layout ELSE cache[k]]
               ELSE cache

\* _build_flow_dict: the records of a flowset become flows when they have both addresses.
BuildFlow(p, i, layout) ==
    IF {"src", "dst"} \subseteq layout THEN {[at |-> i, by |-> p.source, layout |-> layout]} ELSE {}

Slot(p, i) == <<p.source, p.sets[i].id>>

DecodeData(cache, p, i) ==
    IF Slot(p, i) \in DOMAIN cache THEN BuildFlow(p, i, cache[Slot(p, i)]) ELSE {}

\* parse_flowsets: one flowset, and the cache and flows after all of them.
ParseFlowset(prev, p, i) ==
    LET s == p.sets[i] IN
    CASE ~prev.open \/ s.kind = "malformed" -> [prev EXCEPT !.open = FALSE]
      [] prev.open /\ s.kind = "template"   -> [prev EXCEPT !.cache = PutTemplate(prev.cache, p, s)]
      [] prev.open /\ s.kind = "data"       -> [prev EXCEPT !.flows = prev.flows \cup DecodeData(prev.cache, p, i)]
      [] OTHER -> prev

ParseFlowsets(cache, p) ==
    LET after[i \in 0..Len(p.sets)] ==
          IF i = 0 THEN [cache |-> cache, flows |-> {}, open |-> TRUE]
          ELSE ParseFlowset(after[i - 1], p, i)
    IN after[Len(p.sets)]

\* History: what the source itself told, looked up backwards from a flowset in its packet
\* and then in the packets before. A packet tells nothing after a malformed flowset.
Opened(p, i) == \A j \in 1..i : p.sets[j].kind # "malformed"
Whole(p, i) == {j \in 1..i : p.sets[j].kind = "template" /\ p.sets[j].whole /\ Opened(p, j)}
SentBy(p, i, k) == {j \in Whole(p, i) : Slot(p, j) = k}
LastOf(S) == CHOOSE i \in S : \A j \in S : j <= i
Told(p, i) == DOMAIN announced \cup {Slot(p, j) : j \in Whole(p, i)}
ToldBy(p, i, k) == IF SentBy(p, i, k) # {} THEN p.sets[LastOf(SentBy(p, i, k))].layout ELSE announced[k]
DueOf(p, i) ==
    IF p.sets[i].kind = "data" /\ Opened(p, i) /\ Slot(p, i) \in Told(p, i)
      THEN BuildFlow(p, i, ToldBy(p, i, Slot(p, i))) ELSE {}

\* _recv_loop: a header of another version is skipped.
ReceivePacket(p) ==
    /\ p.version \in {9, 10}
    /\ LET read == ParseFlowsets(templates, p) IN templates' = read.cache /\ decoded' = read.flows
    /\ announced' = [k \in Told(p, Len(p.sets)) |-> ToldBy(p, Len(p.sets), k)]
    /\ due' = UNION {DueOf(p, i) : i \in 1..Len(p.sets)}
    /\ UNCHANGED <<line, event>>

\* start_collector makes a listener whose cache is empty.
Restart ==
    /\ templates' = [k \in {} |-> {}] /\ announced' = [k \in {} |-> {}]
    /\ decoded' = {} /\ due' = {}
    /\ UNCHANGED <<line, event>>

Init ==
    /\ line = None /\ event = None
    /\ templates = [k \in {} |-> {}] /\ announced = [k \in {} |-> {}]
    /\ decoded = {} /\ due = {}

Next == (\E l \in Line : ProcessLine(l)) \/ (\E p \in Export : ReceivePacket(p)) \/ Restart

Spec == Init /\ [][Next]_vars

-----------------------------------------------------------------------------
(* Properties.                                                             *)

Bare(l) == [l EXCEPT !.pri = "none", !.header = "none"]
Canonical == {"allow", "deny", "drop", "reset", "alert"}

\* What a relay puts before a message, a numeric priority, an RFC 3164 header with a host
\* or both, never changes what is read from it, nor whether anything is.
PrefixNeverMatters ==
    line # None => (line.pri # "text" /\ line.header \in {"none", "month"} => event = EventOf(Bare(line)))

\* The parsers never disagree about traffic that passed: an action that two of them bring
\* to the common vocabulary is "allow" for both or for neither.
ActionsAgree ==
    event # None => \A p \in {"fortigate", "generic_kv", "paloalto"}, t \in {"TRAFFIC", "THREAT"} :
        LET other == ActionBy(p, [type |-> t], line.action) IN
        other \in Canonical /\ event.action \in Canonical
            => (other = "allow") = (event.action = "allow")

\* Every record is decoded with the layout that its own source told last under its id before
\* the record, in the same packet or an earlier one, and with no other: none is decoded that
\* has none, and none is left out that has one with both addresses. A source is the id in
\* the header (netflow_listener.py:103): exporters that share one share their templates.
OwnTemplate == decoded = due
=============================================================================
