---------------------------- MODULE MCCollector -----------------------------
(* Small instance of Collector: two lines of one device, a line of another  *)
(* one by TCP, a NetFlow record, and two connections on one pool thread.    *)
EXTENDS Collector

Of(i, s, v) == [id |-> i, src |-> s, via |-> v]
MCEvent == {Of(1, "fw", "udp"), Of(2, "fw", "udp"), Of(3, "lb", "tcp"),
            Of(4, "exporter", "netflow")}
=============================================================================
