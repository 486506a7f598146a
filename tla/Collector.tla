----------------------------- MODULE Collector ------------------------------
(***************************************************************************)
(* The live collector of the Python backend (collector/service.py, its     *)
(* Pipeline, SyslogListener and NetflowListener), from start_collector to  *)
(* the exit of the process.                                                *)
(*                                                                         *)
(* Threads: the UDP server, one pool thread per TCP connection, the NetFlow*)
(* receiver, the consumer of the queue, the flush timer and the main       *)
(* thread, which starts and stops the others.  A                           *)
(* step is what happens under one lock, or between two points at which the *)
(* interpreter (CPython 3.11) may switch threads.                          *)
(***************************************************************************)
EXTENDS Integers, FiniteSets, Sequences

CONSTANTS
    Event,       \* what devices send: [src, via] and a name
    MaxConn,     \* bound: TCP connections open at a time
    TcpWorkers,  \* size of the pool
    QueueSize,   \* maxsize of the queue
    BatchSize,   \* batch_size
    MaxEps,      \* tokens of the global bucket, per second
    PerIpMaxEps, \* tokens of the bucket of one address, per second
    MaxTime,     \* bound: the clock stops here
    None         \* no event in hand

Line == {e \in Event : e.via \in {"udp", "tcp"}}
Sender == {e.src : e \in Line}

ASSUME CollectorAssumption ==
    /\ None \notin Event /\ IsFiniteSet(Sender)
    /\ \A e \in Event : e.via \in {"udp", "tcp", "netflow"}
    /\ {MaxConn, TcpWorkers, QueueSize, BatchSize, MaxEps, PerIpMaxEps} \subseteq Nat \ {0}
    /\ MaxTime \in Nat

VARIABLES
    main,      \* where start_collector, then stop_collector is
    running,   \* SyslogListener._running
    udp,       \* UDP server: "off", "serving" or "shut"
    tcp,       \* TCP server: likewise; its pool goes on
    conn,      \* [waiting, served]: TCP connections, by a pool thread
    queue,     \* the queue of lines
    consumer,  \* [at, event]: the consumer
    netflow,   \* [at, event]: the NetFlow receiver
    timer,     \* the flush timer: "off", "sleep" or "ended"
    buffer,    \* Pipeline._buffer
    tokens,    \* RateLimiter: [all, of]: what is left in this second
    fate,      \* per event received: how far it got
    clock

control == <<main, running, udp, tcp, conn>>
vars == <<control, timer, queue, consumer, netflow, buffer,
          tokens, fate, clock>>

Received == DOMAIN fate
Fates == {"limited", "refused", "raised", "queued", "parsed", "flushed"}
Settled == {e \in Received : fate[e] \in {"limited", "refused", "raised", "flushed"}}
Full == [all |-> MaxEps, of |-> [s \in Sender |-> PerIpMaxEps]]
Hands(at) == [at |-> at, event |-> None]

Init ==
    /\ main = "start" /\ running = FALSE
    /\ udp = "off" /\ tcp = "off" /\ conn = [waiting |-> 0, served |-> 0]
    /\ queue = <<>>
    /\ consumer = Hands("off") /\ netflow = Hands("off")
    /\ timer = "off"
    /\ buffer = {}
    /\ tokens = Full
    /\ fate = [e \in {} |-> "queued"]
    /\ clock = 0

Alive == main # "exited"
StopBegan == main \in {"shut", "drain", "flush", "stopped", "raised"}
Becomes(S, f) == fate' = [e \in Received \cup S |-> IF e \in S THEN f ELSE fate[e]]

-----------------------------------------------------------------------------
(* SyslogListener.ingest: the token buckets, then the queue; a line that    *)
(* one of them refuses is only counted.                                     *)

\* Mutant: a token of the global bucket is taken before the address is looked at.
AllowTakingFirst(s) ==
    IF tokens.all < 1 THEN [ok |-> FALSE, left |-> tokens]
    ELSE IF tokens.of[s] < 1
           THEN [ok |-> FALSE, left |-> [tokens EXCEPT !.all = @ - 1]]
           ELSE [ok |-> TRUE, left |-> [tokens EXCEPT !.all = @ - 1, !.of[s] = @ - 1]]

\* RateLimiter.allow.  A bucket that waited a second is full again (Tick).
Allow(s) ==
    IF tokens.all >= 1 /\ tokens.of[s] >= 1
      THEN [ok |-> TRUE, left |-> [tokens EXCEPT !.all = @ - 1, !.of[s] = @ - 1]]
      ELSE [ok |-> FALSE, left |-> tokens]

Ingest(e) ==
    /\ e \in Line \ Received
    /\ tokens' = Allow(e.src).left
    /\ IF ~Allow(e.src).ok THEN Becomes({e}, "limited") /\ UNCHANGED queue
       ELSE IF Len(queue) >= QueueSize THEN Becomes({e}, "refused") /\ UNCHANGED queue
       ELSE Becomes({e}, "queued") /\ queue' = Append(queue, e)
    /\ UNCHANGED <<control, timer, consumer, netflow, buffer, clock>>

ReceiveUDP(e) == e.via = "udp" /\ udp = "serving" /\ Ingest(e)

ReceiveTCP(e) == e.via = "tcp" /\ conn.served > 0 /\ Ingest(e)

\* A connection is accepted while the server serves; it is read when a thread of the
\* pool is free, until the peer closes it: also after the server was shut down.
Connect ==
    /\ \/ /\ tcp = "serving" /\ conn.waiting + conn.served < MaxConn
          /\ conn' = [conn EXCEPT !.waiting = @ + 1]
       \/ /\ conn.waiting > 0 /\ conn.served < TcpWorkers
          /\ conn' = [waiting |-> conn.waiting - 1, served |-> conn.served + 1]
       \/ /\ conn.served > 0
          /\ conn' = [conn EXCEPT !.served = @ - 1]
    /\ UNCHANGED <<main, running, udp, tcp, timer, queue, consumer, netflow, buffer,
                   tokens, fate, clock>>

-----------------------------------------------------------------------------
(* Pipeline.process_line: parsed, or refused, or an exception that nobody   *)
(* catches (a time the parser can not turn into a date raises OverflowError:*)
(* fortigate.py:181, generic_kv.py:234); process_flow does not refuse.      *)

Parse(e) == Becomes({e}, "parsed")

\* Mutant: the buffer is emptied only when the INSERT succeeded, as a retry would need.
DoFlushKeeping == Becomes(buffer, "flushed") /\ (UNCHANGED buffer \/ buffer' = {})

\* Pipeline.flush under the listener's lock: the buffer is emptied first, and a failed
\* INSERT loses all of it: "flushed" is written or lost.
DoFlush == buffer' = {} /\ Becomes(buffer, "flushed")

\* The consumer: a get with a timeout, which may still return a line after stop() began;
\* `running` is looked at between two lines.
NextRound == Hands(IF running THEN "get" ELSE "ended")

ConsumerGets ==
    /\ consumer.at = "get"
    /\ IF queue = <<>>
         THEN ~running /\ consumer' = NextRound /\ UNCHANGED queue
         ELSE consumer' = [at |-> "line", event |-> Head(queue)] /\ queue' = Tail(queue)
    /\ UNCHANGED <<control, timer, netflow, buffer, tokens, fate, clock>>

\* An exception ends the thread with the line in its hands; nobody starts another one.
ConsumerParses ==
    /\ consumer.at = "line"
    /\ \/ Parse(consumer.event) /\ consumer' = [consumer EXCEPT !.at = "event"]
       \/ Becomes({consumer.event}, "refused") /\ consumer' = NextRound
       \/ Becomes({consumer.event}, "raised") /\ consumer' = Hands("ended")
    /\ UNCHANGED <<control, timer, queue, netflow, buffer, tokens, clock>>

\* The batch is looked at without the lock; a flush in between only leaves less to flush.
ConsumerBuffers ==
    /\ consumer.at = "event"
    /\ consumer' = NextRound
    /\ LET held == buffer \cup {consumer.event} IN
       IF Cardinality(held) >= BatchSize
         THEN buffer' = {} /\ Becomes(held, "flushed")
         ELSE buffer' = held /\ UNCHANGED fate
    /\ UNCHANGED <<control, timer, queue, netflow, tokens, clock>>

\* _flush_loop sleeps, flushes, and then looks whether to go on: its last round comes
\* after stop() began, maybe after it returned.
TimerFlushes ==
    /\ timer = "sleep"
    /\ buffer # {} \/ ~running
    /\ DoFlush
    /\ timer' = IF running THEN "sleep" ELSE "ended"
    /\ UNCHANGED <<control, queue, consumer, netflow, tokens, clock>>

\* The NetFlow receiver buffers without the listener's lock; it is not joined.
ReceiveNetflow(e) ==
    /\ netflow.at = "read" /\ e.via = "netflow" /\ e \notin Received
    /\ Parse(e)
    /\ netflow' = [at |-> "event", event |-> e]
    /\ UNCHANGED <<control, timer, queue, consumer, buffer, tokens, clock>>

NetflowBuffers ==
    /\ netflow.at = "event"
    /\ buffer' = buffer \cup {netflow.event}
    /\ netflow' = Hands("read")
    /\ UNCHANGED <<control, timer, queue, consumer, tokens, fate,
                   clock>>

\* After stop() the receiver ends with the records of the packet it has.
NetflowEnds ==
    /\ netflow.at = "read" /\ StopBegan
    /\ netflow' = Hands("ended")
    /\ UNCHANGED <<control, timer, queue, consumer, buffer,
                   tokens, fate, clock>>

(* start_collector.  A bind that fails fails the startup of the process.    *)

Goes(p, q) == main = p /\ main' = q
Rest == <<queue, buffer, tokens, fate, clock>>

\* SyslogListener.start: the consumer, then the UDP server.
StartUDP ==
    /\ main = "start"
    /\ running' = TRUE /\ consumer' = Hands("get")
    /\ \/ main' = "tcp" /\ udp' = "serving"
       \/ main' = "exited" /\ UNCHANGED udp
    /\ UNCHANGED <<tcp, conn, timer, netflow, Rest>>

\* ... the TCP server and the flush timer.
StartTCP ==
    /\ main = "tcp"
    /\ \/ main' = "rest" /\ tcp' = "serving" /\ timer' = "sleep"
       \/ main' = "exited" /\ UNCHANGED <<tcp, timer>>
    /\ UNCHANGED <<running, udp, conn, consumer, netflow, Rest>>

\* and NetflowListener.start.
StartRest ==
    /\ main = "rest"
    /\ \/ main' = "serving" /\ netflow' = Hands("read")
       \/ main' = "exited" /\ UNCHANGED netflow
    /\ UNCHANGED <<running, udp, tcp, conn, timer, consumer, Rest>>

Start == StartUDP \/ StartTCP \/ StartRest

-----------------------------------------------------------------------------
(* stop_collector: NetFlow, then SyslogListener.stop.  shutdown() waits for *)
(* the request in progress; nothing waits for the pool or the consumer.     *)

Stop ==
    /\ Goes("serving", "shut") /\ running' = FALSE
    /\ UNCHANGED <<udp, tcp, conn, timer, consumer, netflow, Rest>>

ShutServers ==
    /\ Goes("shut", "drain")
    /\ udp' = "shut" /\ tcp' = "shut"
    /\ UNCHANGED <<running, conn, timer, consumer, netflow, Rest>>

\* _drain_queue: until the queue is found empty, whatever the pool still puts into it. An
\* exception ends stop(), before its last flush.
DrainLine ==
    /\ main = "drain" /\ queue # <<>>
    /\ queue' = Tail(queue)
    /\ \/ Parse(Head(queue)) /\ buffer' = buffer \cup {Head(queue)} /\ UNCHANGED main
       \/ Becomes({Head(queue)}, "refused") /\ UNCHANGED <<buffer, main>>
       \/ Becomes({Head(queue)}, "raised") /\ main' = "raised" /\ UNCHANGED buffer
    /\ UNCHANGED <<running, udp, tcp, conn, timer, consumer, netflow, tokens, clock>>

DrainEnds ==
    /\ Goes("drain", "flush") /\ queue = <<>>
    /\ UNCHANGED <<running, udp, tcp, conn, timer, consumer, netflow, Rest>>

\* Mutant: the queue is drained, and what it held is not flushed.
FinalFlushMissing ==
    /\ Goes("flush", "stopped")
    /\ UNCHANGED <<running, udp, tcp, conn, timer, queue, consumer, netflow,
                   buffer, tokens, fate, clock>>

FinalFlush ==
    /\ Goes("flush", "stopped")
    /\ DoFlush
    /\ UNCHANGED <<running, udp, tcp, conn, timer, queue, consumer, netflow,
                   tokens, clock>>

\* The interpreter joins the pool's threads before it exits: a peer that keeps its
\* connection open keeps the process.
Exit ==
    /\ Goes("stopped", "exited") \/ Goes("raised", "exited")
    /\ conn.waiting + conn.served = 0
    /\ UNCHANGED <<running, udp, tcp, conn, timer, consumer, netflow, Rest>>

Stopping == ShutServers \/ DrainLine \/ DrainEnds \/ FinalFlush \/ Exit

\* A second passes: the buckets are full again.
Tick ==
    /\ clock < MaxTime /\ clock' = clock + 1
    /\ tokens' = Full
    /\ UNCHANGED <<control, timer, queue, consumer, netflow, buffer,
                   fate>>

-----------------------------------------------------------------------------
Consume == ConsumerGets \/ ConsumerParses \/ ConsumerBuffers

Next ==
    /\ Alive
    /\ \/ \E e \in Event : ReceiveUDP(e) \/ ReceiveTCP(e) \/ ReceiveNetflow(e)
       \/ Connect
       \/ Consume \/ TimerFlushes \/ NetflowBuffers \/ NetflowEnds
       \/ Start \/ Stop \/ Stopping
       \/ Tick

Spec == Init /\ [][Next]_vars

\* The threads run and INSERTs return.  Nothing is assumed of devices and peers, of the
\* clock, and of when the process is told to stop.
FairSpec ==
    /\ Spec
    /\ WF_vars(Alive /\ Consume) /\ WF_vars(Alive /\ TimerFlushes)
    /\ WF_vars(Alive /\ NetflowBuffers)
    /\ WF_vars(Alive /\ Start) /\ WF_vars(Alive /\ Stopping)

-----------------------------------------------------------------------------
(* Properties.                                                              *)

Steps == {"off", "get", "read", "line", "event", "ended"}

TypeOK ==
    /\ running \in BOOLEAN
    /\ timer \in {"off", "sleep", "ended"}
    /\ {udp, tcp} \subseteq {"off", "serving", "shut"}
    /\ conn.waiting + conn.served <= MaxConn /\ conn.served <= TcpWorkers
    /\ queue \in Seq(Line) /\ Len(queue) <= QueueSize
    /\ \A h \in {consumer, netflow} : h.at \in Steps /\ h.event \in Event \cup {None}
    /\ buffer \subseteq Event
    /\ tokens.all \in 0..MaxEps /\ tokens.of \in [Sender -> 0..PerIpMaxEps]
    /\ Received \subseteq Event /\ \A e \in Received : fate[e] \in Fates

Queued(e) == \E i \in DOMAIN queue : queue[i] = e
InHand(e) == e \in {consumer.event, netflow.event}
Raised == {e \in Received : fate[e] = "raised"}
StopEnded == main \in {"raised", "exited"}
RaisedEndsThread ==
    /\ Raised # {} => consumer.at = "ended" \/ StopEnded
    /\ (\E e, f \in Raised : e # f) => consumer.at = "ended" /\ StopEnded

\* Whatever the threads do, an event that was received and not refused is in the queue, in
\* the hands of one thread, in the buffer or written (or lost by a failed INSERT), in one
\* of them only. A line is lost by an exception only with the thread that read it, the
\* consumer or stop(), and two lines only with both.
EventsInOnePlace ==
    /\ \A e \in Received :
          /\ Queued(e) => ~InHand(e) /\ e \notin buffer /\ fate[e] = "queued"
          /\ e \in buffer => ~InHand(e) /\ fate[e] = "parsed"
          /\ fate[e] \in {"queued", "parsed"} <=> Queued(e) \/ InHand(e) \/ e \in buffer
    /\ RaisedEndsThread

\* "Gracefully shut down listeners, drain the queue, and flush" (syslog_listener.py:277):
\* when stop() returns, all that UDP brought was written, lost or refused or raised, up to one
\* line that the consumer, which nobody joins, took from the queue before the drain.
StopDrains ==
    main = "stopped" =>
        Cardinality({e \in Received : e.via = "udp" /\ e \notin Settled}) <= 1

\* "A single noisy device cannot drown out everyone else" (syslog_listener.py:42): while
\* the devices are few enough for the global limit, a line is refused only to a device
\* that had its whole share of this second.
OthersAreServed ==
    [][\A e \in Received' \ Received :
          fate'[e] = "limited" /\ Cardinality(Sender) * PerIpMaxEps <= MaxEps
              => tokens.of[e.src] = 0]_vars

\* While the listener runs, an event in the buffer is written or lost by a failed INSERT.
BufferedIsFlushed ==
    \A e \in Event : e \in buffer ~> e \in Settled \/ ~running \/ ~Alive

\* Everybody is served: no device by the limiter's neglect of another, no event by a timer
\* that does not come.
EverybodyIsServed == OthersAreServed /\ BufferedIsFlushed
=============================================================================
