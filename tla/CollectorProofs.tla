-------------------------- MODULE CollectorProofs ---------------------------
(***************************************************************************)
(* The collector, for any set of events, any number of connections and     *)
(* pool threads, and any size of queue, batch and buckets.                 *)
(***************************************************************************)
EXTENDS Collector, FiniteSetTheorems, TLAPS

-----------------------------------------------------------------------------
(* The inductive invariant.                                                *)

Holding == {"line", "event"}
Phases == {"start", "tcp", "rest", "serving", "shut", "drain", "flush", "stopped", "raised", "exited"}

Types ==
  /\ running \in BOOLEAN
  /\ main \in Phases
  /\ queue \in Seq(Line)
  /\ consumer \in [at : {"off", "get", "line", "event", "ended"}, event : Event \cup {None}]
  /\ netflow \in [at : {"off", "read", "event", "ended"}, event : Event \cup {None}]
  /\ buffer \in SUBSET Event
  /\ Received \in SUBSET Event
  /\ \A e \in Received : fate[e] \in Fates

\* The queue holds lines that wait there, none of them twice.
QueueHolds ==
  /\ \A i \in DOMAIN queue : queue[i] \in Received /\ fate[queue[i]] = "queued"
  /\ \A i, j \in DOMAIN queue : queue[i] = queue[j] => i = j

\* The consumer holds a line that left the queue, and then the event made of it.
ConsumerHolds ==
  /\ consumer.at \notin Holding => consumer.event = None
  /\ consumer.at \in Holding => consumer.event \in Line \cap Received
  /\ consumer.at = "line" => fate[consumer.event] = "queued" /\ ~Queued(consumer.event)
  /\ consumer.at = "event" => fate[consumer.event] = "parsed" /\ consumer.event \notin buffer

\* The NetFlow receiver holds a record that no other thread ever sees.
NetflowHolds ==
  /\ netflow.at # "event" => netflow.event = None
  /\ netflow.at = "event" =>
       /\ netflow.event \in Received \ buffer
       /\ netflow.event.via = "netflow" /\ fate[netflow.event] = "parsed"

BufferHolds == \A e \in buffer : e \in Received /\ fate[e] = "parsed"

\* What is neither refused nor written is somewhere.
NothingLost ==
  \A e \in Received :
    /\ fate[e] = "queued" => Queued(e) \/ e = consumer.event
    /\ fate[e] = "parsed" => InHand(e) \/ e \in buffer

\* The threads start with the main thread, which has told them to end when it stops.
ThreadsFollow ==
  /\ main = "start" => consumer.at = "off"
  /\ main \in {"start", "tcp", "rest"} => netflow.at = "off"
  /\ StopBegan => ~running
  /\ main \in {"drain", "flush", "stopped"} => udp = "shut"

ByUDP(S) == {e \in S : e.via = "udp"}

\* After the drain the queue holds no datagram.
QueueDrained ==
  main \in {"flush", "stopped"} => \A i \in DOMAIN queue : queue[i].via # "udp"

\* After the last flush a datagram is in the buffer only when the consumer, which then has
\* ended, brought it there.
LastComer ==
  main = "stopped" /\ ByUDP(buffer) # {} =>
    consumer.at = "ended" /\ \E e \in buffer : ByUDP(buffer) = {e}

Places == QueueHolds /\ ConsumerHolds /\ NetflowHolds /\ BufferHolds /\ NothingLost
IInv == Types /\ Places /\ ThreadsFollow /\ QueueDrained /\ LastComer

-----------------------------------------------------------------------------
(* Operators of the model.                                                 *)

LEMMA BecomesEffect ==
  ASSUME NEW S \in SUBSET Event, NEW f, Becomes(S, f)
  PROVE  /\ DOMAIN fate' = Received \cup S /\ Received' = Received \cup S
         /\ \A e \in S : fate'[e] = f
         /\ \A e \in Received \ S : fate'[e] = fate[e]
BY DEF Becomes, Received

\* What a queue holds after its first line was taken.
LEMMA TailEffect ==
  ASSUME NEW q \in Seq(Line), q # <<>>
  PROVE  /\ Tail(q) \in Seq(Line) /\ 1 \in DOMAIN q /\ Head(q) = q[1] /\ Head(q) \in Line
         /\ \A i \in DOMAIN Tail(q) : i + 1 \in DOMAIN q /\ Tail(q)[i] = q[i + 1] /\ i \in Nat \ {0}
         /\ \A j \in DOMAIN q : j # 1 => j - 1 \in DOMAIN Tail(q) /\ Tail(q)[j - 1] = q[j] /\ j \in Nat
OBVIOUS

\* ... and after a line was put into it.
LEMMA AppendEffect ==
  ASSUME NEW q \in Seq(Line), NEW e \in Line
  PROVE  /\ Append(q, e) \in Seq(Line)
         /\ \A i \in DOMAIN Append(q, e) : \/ i \in DOMAIN q /\ Append(q, e)[i] = q[i]
                                           \/ i = Len(q) + 1
         /\ \A i \in DOMAIN q : i \in DOMAIN Append(q, e) /\ Append(q, e)[i] = q[i]
         /\ Len(q) + 1 \in DOMAIN Append(q, e) /\ Append(q, e)[Len(q) + 1] = e
         /\ Len(q) + 1 \notin DOMAIN q
<1>1. Append(q, e) \in Seq(Line) /\ Len(q) \in Nat  OBVIOUS
<1>2. DOMAIN q = 1 .. Len(q) /\ DOMAIN Append(q, e) = 1 .. Len(q) + 1  OBVIOUS
<1>3. \A i \in 1 .. Len(q) : Append(q, e)[i] = q[i]  OBVIOUS
<1>4. Append(q, e)[Len(q) + 1] = e  OBVIOUS
<1> QED  BY <1>1, <1>2, <1>3, <1>4

-----------------------------------------------------------------------------
(* One lemma per action.                                                   *)

LEMMA InitIInv == Init => IInv
<1> SUFFICES ASSUME Init  PROVE IInv  OBVIOUS
<1>1. Received = {}  BY DEF Init, Received
<1>2. Types
  <2>1. queue \in Seq(Line)  BY DEF Init
  <2>2. running \in BOOLEAN /\ main \in Phases /\ buffer \in SUBSET Event  BY DEF Init, Phases
  <2>3. /\ consumer \in [at : {"off", "get", "line", "event", "ended"}, event : Event \cup {None}]
        /\ netflow \in [at : {"off", "read", "event", "ended"}, event : Event \cup {None}]
    BY DEF Init, Hands
  <2> QED  BY <1>1, <2>1, <2>2, <2>3 DEF Types
<1>3. Places
  BY <1>1 DEF Init, Places, QueueHolds, ConsumerHolds, NetflowHolds, BufferHolds, NothingLost, Hands, Holding
<1>4. ThreadsFollow /\ QueueDrained /\ LastComer
  BY DEF Init, ThreadsFollow, QueueDrained, LastComer, StopBegan, Hands
<1> QED  BY <1>2, <1>3, <1>4 DEF IInv

LEMMA StutterIInv ==
  ASSUME IInv, UNCHANGED vars  PROVE IInv'
BY DEF IInv, Types, Places, QueueHolds, ConsumerHolds, NetflowHolds, BufferHolds, NothingLost,
       ThreadsFollow, QueueDrained, LastComer, StopBegan, Received, Queued, InHand, ByUDP, vars, control

\* What the main thread and the connections do leaves the events where they are.
LEMMA EventsStay ==
  ASSUME IInv, UNCHANGED <<queue, buffer, fate, consumer, netflow>>
  PROVE  Places'
BY DEF IInv, Places, QueueHolds, ConsumerHolds, NetflowHolds, BufferHolds, NothingLost,
       Received, Queued, InHand

\* A line that is not in the queue, nor in hand, nor in the buffer.
LEMMA NewIsNowhere ==
  ASSUME IInv, NEW e \in Event \ Received
  PROVE  /\ ~Queued(e) /\ e \notin buffer /\ ~InHand(e)
BY CollectorAssumption
   DEF IInv, Types, Places, QueueHolds, ConsumerHolds, NetflowHolds, BufferHolds, Queued, InHand, Holding

LEMMA IngestIInv ==
  ASSUME IInv, NEW e \in Event, Ingest(e), e.via = "udp" => udp = "serving"
  PROVE  IInv'
<1>1. /\ UNCHANGED <<main, running, udp, consumer, netflow, buffer>>
      /\ e \in Line \ Received /\ e \in Event
      /\ DOMAIN fate' = Received \cup {e} /\ \A x \in Received : fate'[x] = fate[x]
      /\ \/ fate'[e] \in {"limited", "refused"} /\ queue' = queue
         \/ fate'[e] = "queued" /\ queue' = Append(queue, e)
  <2>1. e \in Line \ Received /\ {e} \in SUBSET Event  BY DEF Ingest, Line
  <2>2. \/ Becomes({e}, "limited") /\ queue' = queue
        \/ Becomes({e}, "refused") /\ queue' = queue
        \/ Becomes({e}, "queued") /\ queue' = Append(queue, e)
    BY DEF Ingest
  <2>3. UNCHANGED <<main, running, udp, consumer, netflow, buffer>>  BY DEF Ingest, control
  <2>4. \A f : Becomes({e}, f) => /\ DOMAIN fate' = Received \cup {e} /\ fate'[e] = f
                                  /\ \A x \in Received : fate'[x] = fate[x]
    BY <2>1, BecomesEffect
  <2> QED  BY <2>1, <2>2, <2>3, <2>4
<1>2. Types /\ Types'
  <2>1. Types  BY DEF IInv
  <2>2. queue' \in Seq(Line)  BY <1>1, <2>1, AppendEffect DEF Types
  <2> QED  BY <1>1, <2>1, <2>2 DEF Types, Received, Fates
<1>3. ~Queued(e) /\ e \notin buffer /\ ~InHand(e)  BY <1>1, NewIsNowhere
<1>4. /\ \A i \in DOMAIN queue' : \/ i \in DOMAIN queue /\ queue'[i] = queue[i]
                                  \/ queue'[i] = e /\ fate'[e] = "queued" /\ i = Len(queue) + 1
      /\ \A i \in DOMAIN queue : i \in DOMAIN queue' /\ queue'[i] = queue[i]
      /\ fate'[e] = "queued" => Len(queue) + 1 \in DOMAIN queue' /\ queue'[Len(queue) + 1] = e
      /\ Len(queue) + 1 \notin DOMAIN queue
  BY <1>1, <1>2, AppendEffect DEF Types
<1>5. \A i \in DOMAIN queue : queue[i] # e  BY <1>3 DEF Queued
<1>6. Received' = Received \cup {e}  BY <1>1 DEF Received
<1>7. QueueHolds'
  <2>1. QueueHolds  BY DEF IInv, Places
  <2>2. \A i \in DOMAIN queue' : queue'[i] \in Received' /\ fate'[queue'[i]] = "queued"
    BY <1>1, <1>4, <1>6, <2>1 DEF QueueHolds
  <2>3. \A i, j \in DOMAIN queue' : queue'[i] = queue'[j] => i = j
    BY <1>4, <1>5, <2>1 DEF QueueHolds
  <2> QED  BY <2>2, <2>3 DEF QueueHolds
<1>8. \A x : Queued(x)' <=> Queued(x) \/ (x = e /\ fate'[e] = "queued")
  <2>1. ASSUME NEW x, Queued(x)'  PROVE Queued(x) \/ (x = e /\ fate'[e] = "queued")
    BY <1>4, <2>1 DEF Queued
  <2>2. ASSUME NEW x, Queued(x) \/ (x = e /\ fate'[e] = "queued")  PROVE Queued(x)'
    BY <1>4, <2>2 DEF Queued
  <2> QED  BY <2>1, <2>2
<1>9. ConsumerHolds' /\ NetflowHolds' /\ BufferHolds' /\ NothingLost'
  <2>1. ConsumerHolds /\ NetflowHolds /\ BufferHolds /\ NothingLost  BY DEF IInv, Places
  <2>2. ConsumerHolds'
    <3>1. consumer.at = "line" => ~Queued(consumer.event)'  BY <1>1, <1>3, <1>8, <2>1 DEF ConsumerHolds, InHand
    <3> QED  BY <1>1, <1>6, <2>1, <3>1 DEF ConsumerHolds, Holding
  <2>3. NetflowHolds'  BY <1>1, <1>6, <2>1 DEF NetflowHolds
  <2>4. BufferHolds'  BY <1>1, <1>6, <2>1 DEF BufferHolds
  <2>5. NothingLost'  BY <1>1, <1>6, <1>8, <2>1 DEF NothingLost, InHand
  <2> QED  BY <2>2, <2>3, <2>4, <2>5
<1>10. ThreadsFollow' /\ QueueDrained' /\ LastComer'
  <2>1. ThreadsFollow'  BY <1>1 DEF IInv, ThreadsFollow, StopBegan
  <2>2. QueueDrained'
    <3>1. main \in {"flush", "stopped"} => e.via # "udp"  BY <1>1 DEF IInv, ThreadsFollow
    <3> QED  BY <1>1, <1>4, <3>1 DEF IInv, QueueDrained
  <2>3. LastComer'  BY <1>1 DEF IInv, LastComer, ByUDP
  <2> QED  BY <2>1, <2>2, <2>3
<1> QED  BY <1>2, <1>7, <1>9, <1>10 DEF IInv, Places

\* A line leaves the queue.
LEMMA TakenFromQueue ==
  ASSUME IInv, queue # <<>>, queue' = Tail(queue)
  PROVE  /\ queue' \in Seq(Line) /\ Head(queue) \in Line \cap Received
         /\ fate[Head(queue)] = "queued" /\ ~InHand(Head(queue)) /\ Head(queue) \notin buffer
         /\ \A i \in DOMAIN queue' : queue'[i] # Head(queue)
         /\ \A x : x # Head(queue) => (Queued(x)' <=> Queued(x))
         /\ \A i \in DOMAIN queue' : \E j \in DOMAIN queue : queue'[i] = queue[j]
         /\ \A i, j \in DOMAIN queue' : queue'[i] = queue'[j] => i = j
<1> DEFINE h == Head(queue)
<1>1. Types /\ QueueHolds /\ ConsumerHolds /\ NetflowHolds /\ BufferHolds  BY DEF IInv, Places
<1>2. /\ queue' \in Seq(Line) /\ 1 \in DOMAIN queue /\ h = queue[1] /\ h \in Line
      /\ \A i \in DOMAIN queue' : i + 1 \in DOMAIN queue /\ queue'[i] = queue[i + 1] /\ i \in Nat \ {0}
      /\ \A j \in DOMAIN queue : j # 1 => j - 1 \in DOMAIN queue' /\ queue'[j - 1] = queue[j] /\ j \in Nat
  BY <1>1, TailEffect DEF Types
<1> HIDE DEF h
<1>3. h \in Received /\ fate[h] = "queued" /\ Queued(h)  BY <1>1, <1>2 DEF QueueHolds, Queued
<1>4. ~InHand(h) /\ h \notin buffer
  BY <1>1, <1>2, <1>3, CollectorAssumption
     DEF ConsumerHolds, NetflowHolds, BufferHolds, InHand, Holding, Line, Types
<1>5. \A i \in DOMAIN queue' : queue'[i] # h
  <2> SUFFICES ASSUME NEW i \in DOMAIN queue', queue'[i] = h  PROVE FALSE  OBVIOUS
  <2>1. i + 1 = 1 /\ i \in Nat \ {0}  BY <1>1, <1>2 DEF QueueHolds
  <2> QED  BY <2>1
<1>6. \A i, j \in DOMAIN queue' : queue'[i] = queue'[j] => i = j
  <2> SUFFICES ASSUME NEW i \in DOMAIN queue', NEW j \in DOMAIN queue', queue'[i] = queue'[j]
               PROVE  i = j
    OBVIOUS
  <2>1. i + 1 = j + 1 /\ i \in Nat /\ j \in Nat  BY <1>1, <1>2 DEF QueueHolds
  <2> QED  BY <2>1
<1>7. \A x : x # h => (Queued(x)' <=> Queued(x))
  <2> SUFFICES ASSUME NEW x, x # h  PROVE Queued(x)' <=> Queued(x)  OBVIOUS
  <2>1. ASSUME Queued(x)'  PROVE Queued(x)  BY <1>2, <2>1 DEF Queued
  <2>2. ASSUME Queued(x)  PROVE Queued(x)'
    <3>1. PICK j \in DOMAIN queue : queue[j] = x  BY <2>2 DEF Queued
    <3>2. j # 1  BY <1>2, <3>1
    <3> QED  BY <1>2, <3>1, <3>2 DEF Queued
  <2> QED  BY <2>1, <2>2
<1> QED  BY <1>2, <1>3, <1>4, <1>5, <1>6, <1>7 DEF h

LEMMA ConsumerGetsIInv ==
  ASSUME IInv, ConsumerGets  PROVE IInv'
<1> DEFINE h == Head(queue)
<1>1. /\ UNCHANGED <<main, running, udp, netflow, buffer, fate>>
      /\ consumer.at = "get"
      /\ \/ queue = <<>> /\ ~running /\ consumer' = Hands("ended") /\ queue' = queue
         \/ queue # <<>> /\ consumer' = [at |-> "line", event |-> h] /\ queue' = Tail(queue)
  BY DEF ConsumerGets, control, NextRound
<1>2. Received' = Received  BY <1>1 DEF Received
<1>3. IInv  OBVIOUS
<1>4. CASE queue = <<>>
  <2>1. consumer' = Hands("ended") /\ queue' = queue  BY <1>1, <1>4
  <2>2. Types'  BY <1>1, <1>2, <1>3, <2>1 DEF IInv, Types, Hands
  <2>3. \A x : Queued(x)' <=> Queued(x)  BY <2>1 DEF Queued
  <2>4. Places'
    BY <1>1, <1>2, <1>3, <2>1, <2>3
       DEF IInv, Places, QueueHolds, ConsumerHolds, NetflowHolds, BufferHolds, NothingLost, InHand, Hands, Holding
  <2>5. ThreadsFollow' /\ QueueDrained' /\ LastComer'
    BY <1>1, <1>3, <2>1 DEF IInv, ThreadsFollow, QueueDrained, LastComer, StopBegan, Hands, ByUDP
  <2> QED  BY <2>2, <2>4, <2>5 DEF IInv
<1>5. CASE queue # <<>>
  <2>1. consumer' = [at |-> "line", event |-> h] /\ queue' = Tail(queue)  BY <1>1, <1>5
  <2>2. /\ queue' \in Seq(Line) /\ h \in Line \cap Received
        /\ fate[h] = "queued" /\ ~InHand(h) /\ h \notin buffer
        /\ \A i \in DOMAIN queue' : queue'[i] # h
        /\ \A x : x # h => (Queued(x)' <=> Queued(x))
        /\ \A i \in DOMAIN queue' : \E j \in DOMAIN queue : queue'[i] = queue[j]
        /\ \A i, j \in DOMAIN queue' : queue'[i] = queue'[j] => i = j
    BY <1>5, <2>1, TakenFromQueue
  <2> HIDE DEF h
  <2>3. consumer'.at = "line" /\ consumer'.event = h  BY <2>1
  <2>4. Types'
    <3>1. consumer' \in [at : {"off", "get", "line", "event", "ended"}, event : Event \cup {None}]
      BY <2>1, <2>2 DEF Line
    <3> QED  BY <1>1, <1>2, <1>3, <2>2, <3>1 DEF IInv, Types
  <2>5. QueueHolds'  BY <1>1, <1>2, <1>3, <2>2 DEF IInv, Places, QueueHolds
  <2>6. ConsumerHolds'  BY <1>1, <1>2, <2>2, <2>3 DEF ConsumerHolds, Holding, Queued
  <2>7. NetflowHolds' /\ BufferHolds'  BY <1>1, <1>2, <1>3 DEF IInv, Places, NetflowHolds, BufferHolds
  <2>8. NothingLost'
    <3>1. consumer.event = None /\ None \notin Received
      BY <1>1, <1>3, CollectorAssumption DEF IInv, Places, ConsumerHolds, Types, Holding
    <3> QED  BY <1>1, <1>2, <1>3, <2>2, <2>3, <3>1 DEF IInv, Places, NothingLost, InHand
  <2>9. ThreadsFollow'  BY <1>1, <1>3, <2>3 DEF IInv, ThreadsFollow, StopBegan
  <2>10. QueueDrained'  BY <1>1, <1>3, <2>2 DEF IInv, QueueDrained
  <2>11. LastComer'  BY <1>1, <1>3 DEF IInv, LastComer, ByUDP
  <2> QED  BY <2>4, <2>5, <2>6, <2>7, <2>8, <2>9, <2>10, <2>11 DEF IInv, Places
<1> QED  BY <1>4, <1>5

\* The end of a round of the consumer.
LEMMA NextRoundEffect ==
  ASSUME IInv, consumer' = NextRound, consumer.at \in Holding
  PROVE  /\ consumer' \in [at : {"off", "get", "line", "event", "ended"}, event : Event \cup {None}]
         /\ consumer'.at \in {"get", "ended"} /\ consumer'.event = None
         /\ StopBegan => consumer'.at = "ended"
         /\ main # "start"
BY DEF NextRound, Hands, IInv, ThreadsFollow, Holding

LEMMA ConsumerParsesIInv ==
  ASSUME IInv, ConsumerParses  PROVE IInv'
<1> DEFINE h == consumer.event
<1>1. /\ UNCHANGED <<main, running, udp, queue, netflow, buffer>>
      /\ consumer.at = "line"
      /\ \/ Becomes({h}, "parsed") /\ consumer' = [consumer EXCEPT !.at = "event"]
         \/ Becomes({h}, "refused") /\ consumer' = NextRound
         \/ Becomes({h}, "raised") /\ consumer' = Hands("ended")
  BY DEF ConsumerParses, Parse, control
<1>2. h \in Line \cap Received /\ fate[h] = "queued" /\ ~Queued(h) /\ h \in Event /\ h \notin buffer /\ h # netflow.event
  BY <1>1, CollectorAssumption DEF IInv, Places, ConsumerHolds, NetflowHolds, BufferHolds, Holding, Line
<1>3. \A f : Becomes({h}, f) => /\ Received' = Received /\ fate'[h] = f
                                /\ \A x \in Received \ {h} : fate'[x] = fate[x]
  <2>1. {h} \in SUBSET Event /\ Received \cup {h} = Received  BY <1>2
  <2> QED  BY <2>1, BecomesEffect
<1>4. \A x : Queued(x)' <=> Queued(x)  BY <1>1 DEF Queued
<1>5. IInv  OBVIOUS
<1> HIDE DEF h
<1>6. /\ Received' = Received /\ fate'[h] \in {"parsed", "refused", "raised"}
      /\ \A x \in Received \ {h} : fate'[x] = fate[x]
  BY <1>1, <1>3
<1>7. QueueHolds' /\ NetflowHolds' /\ BufferHolds'
  BY <1>1, <1>2, <1>5, <1>6 DEF IInv, Places, QueueHolds, NetflowHolds, BufferHolds, Queued
<1>8. QueueDrained'  BY <1>1, <1>5 DEF IInv, QueueDrained
<1>9. LastComer'  BY <1>1, <1>5 DEF IInv, LastComer, ByUDP
<1>10. \A f \in Received : fate'[f] \in Fates  BY <1>5, <1>6 DEF IInv, Types, Fates
<1>11. CASE consumer' = [consumer EXCEPT !.at = "event"] /\ Becomes({h}, "parsed")
  <2>1. /\ consumer' \in [at : {"off", "get", "line", "event", "ended"}, event : Event \cup {None}]
        /\ consumer'.at = "event" /\ consumer'.event = h /\ fate'[h] = "parsed"
    BY <1>3, <1>5, <1>11 DEF IInv, Types, h
  <2>2. Types'  BY <1>1, <1>5, <1>6, <1>10, <2>1 DEF IInv, Types
  <2>3. ConsumerHolds'  BY <1>1, <1>2, <1>6, <2>1 DEF ConsumerHolds, Holding
  <2>4. NothingLost'  BY <1>1, <1>2, <1>4, <1>5, <1>6, <2>1 DEF IInv, Places, NothingLost, InHand, h
  <2>5. ThreadsFollow'  BY <1>1, <1>5, <2>1 DEF IInv, ThreadsFollow, StopBegan
  <2> QED  BY <1>7, <1>8, <1>9, <2>2, <2>3, <2>4, <2>5 DEF IInv, Places
<1>12. CASE consumer' = NextRound /\ Becomes({h}, "refused")
  <2>1. /\ consumer' \in [at : {"off", "get", "line", "event", "ended"}, event : Event \cup {None}]
        /\ consumer'.at \in {"get", "ended"} /\ consumer'.event = None /\ main # "start"
    BY <1>1, <1>5, <1>12, NextRoundEffect DEF Holding
  <2>2. fate'[h] = "refused"  BY <1>3, <1>12
  <2>3. Types'  BY <1>1, <1>5, <1>6, <1>10, <2>1 DEF IInv, Types
  <2>4. ConsumerHolds'  BY <2>1 DEF ConsumerHolds, Holding
  <2>5. NothingLost'  BY <1>1, <1>2, <1>4, <1>5, <1>6, <2>1, <2>2 DEF IInv, Places, NothingLost, InHand, h
  <2>6. ThreadsFollow'  BY <1>1, <1>5, <2>1 DEF IInv, ThreadsFollow, StopBegan
  <2> QED  BY <1>7, <1>8, <1>9, <2>3, <2>4, <2>5, <2>6 DEF IInv, Places
<1>13. CASE consumer' = Hands("ended") /\ Becomes({h}, "raised")
  <2>1. /\ consumer' \in [at : {"off", "get", "line", "event", "ended"}, event : Event \cup {None}]
        /\ consumer'.at = "ended" /\ consumer'.event = None /\ main # "start"
    BY <1>1, <1>5, <1>13 DEF Hands, IInv, ThreadsFollow
  <2>2. fate'[h] = "raised"  BY <1>3, <1>13
  <2>3. Types'  BY <1>1, <1>5, <1>6, <1>10, <2>1 DEF IInv, Types
  <2>4. ConsumerHolds'  BY <2>1 DEF ConsumerHolds, Holding
  <2>5. NothingLost'  BY <1>1, <1>2, <1>4, <1>5, <1>6, <2>1, <2>2 DEF IInv, Places, NothingLost, InHand, h
  <2>6. ThreadsFollow'  BY <1>1, <1>5, <2>1 DEF IInv, ThreadsFollow, StopBegan
  <2> QED  BY <1>7, <1>8, <1>9, <2>3, <2>4, <2>5, <2>6 DEF IInv, Places
<1> QED  BY <1>1, <1>11, <1>12, <1>13

\* A flush of a buffer that may have grown by an event that is in nobody's queue or hands.
LEMMA FlushEffect ==
  ASSUME IInv, NEW S \in SUBSET Event, S \subseteq Received, Becomes(S, "flushed"), buffer' = {},
         queue' = queue, \A e \in S : ~Queued(e), \A e \in buffer : e \in S,
         netflow' = netflow, netflow.event \notin S
  PROVE  /\ Received' = Received
         /\ \A e \in S : fate'[e] = "flushed" 
         /\ \A e \in Received \ S : fate'[e] = fate[e]
         /\ \A e \in Received : fate'[e] \in Fates
         /\ QueueHolds' /\ NetflowHolds' /\ BufferHolds'
<1>1. /\ Received' = Received
      /\ \A e \in S : fate'[e] = "flushed" 
      /\ \A e \in Received \ S : fate'[e] = fate[e]
  BY BecomesEffect, ZenonT(60)
<1>2. IInv  OBVIOUS
<1>3. \A e \in Received : fate'[e] \in Fates  BY <1>1, <1>2 DEF IInv, Types, Fates
<1>4. QueueHolds'  BY <1>1, <1>2 DEF IInv, Places, QueueHolds, Queued
<1>5. NetflowHolds'  BY <1>1, <1>2 DEF IInv, Places, NetflowHolds
<1>6. BufferHolds'  BY DEF BufferHolds
<1> QED  BY <1>1, <1>3, <1>4, <1>5, <1>6

LEMMA ConsumerBuffersIInv ==
  ASSUME IInv, ConsumerBuffers  PROVE IInv'
<1> DEFINE h == consumer.event
           held == buffer \cup {h}
<1>1. /\ UNCHANGED <<main, running, udp, queue, netflow>>
      /\ consumer.at = "event" /\ consumer' = NextRound
      /\ \/ buffer' = {} /\ Becomes(held, "flushed")
         \/ buffer' = held /\ fate' = fate
  BY DEF ConsumerBuffers, control
<1>2. IInv  OBVIOUS
<1>3. /\ h \in Line \cap Received /\ fate[h] = "parsed" /\ h \in Event /\ h \notin buffer
      /\ h # netflow.event /\ netflow.event \notin held
  BY <1>1, CollectorAssumption, <1>2 DEF IInv, Places, ConsumerHolds, NetflowHolds, Types, Holding, Line
<1>4. ~Queued(h)  BY <1>2, <1>3 DEF IInv, Places, QueueHolds, Queued
<1>5. \A e \in held : e \in Event /\ e \in Received /\ ~Queued(e)
  BY <1>2, <1>3, <1>4 DEF IInv, Places, QueueHolds, BufferHolds, Queued, Types
<1>6. \A x : Queued(x)' <=> Queued(x)  BY <1>1 DEF Queued
<1>7. /\ consumer' \in [at : {"off", "get", "line", "event", "ended"}, event : Event \cup {None}]
      /\ consumer'.at \in {"get", "ended"} /\ consumer'.event = None
      /\ StopBegan => consumer'.at = "ended"
      /\ main # "start"
  BY <1>1, NextRoundEffect DEF Holding
<1>8. h = consumer.event /\ \A e : e \in held <=> e \in buffer \/ e = h  OBVIOUS
<1> HIDE DEF held, h
<1>9. ConsumerHolds'  BY <1>7 DEF ConsumerHolds, Holding
<1>10. ThreadsFollow' /\ QueueDrained'
  BY <1>1, <1>2, <1>7 DEF IInv, ThreadsFollow, QueueDrained, StopBegan
<1>11. CASE buffer' = {} /\ Becomes(held, "flushed")
  <2>1. /\ Received' = Received
        /\ \A e \in held : fate'[e] = "flushed" 
        /\ \A e \in Received \ held : fate'[e] = fate[e]
        /\ \A e \in Received : fate'[e] \in Fates
        /\ QueueHolds' /\ NetflowHolds' /\ BufferHolds'
    <3>1. held \in SUBSET Event /\ held \subseteq Received  BY <1>5
    <3> QED  BY <1>1, <1>3, <1>5, <1>8, <1>11, <3>1, FlushEffect
  <2>2. Types'  BY <1>1, <1>2, <1>7, <1>11, <2>1 DEF IInv, Types
  <2>3. NothingLost'
    BY <1>1, <1>2, <1>6, <1>8, <2>1 DEF IInv, Places, NothingLost, InHand
  <2>4. LastComer'  BY <1>11 DEF LastComer, ByUDP
  <2> QED  BY <1>9, <1>10, <2>1, <2>2, <2>3, <2>4 DEF IInv, Places
<1>12. CASE buffer' = held /\ fate' = fate
  <2>1. Received' = Received  BY <1>12 DEF Received
  <2>2. Types'
    <3>1. held \in SUBSET Event  BY <1>5
    <3> QED  BY <1>1, <1>2, <1>7, <1>12, <2>1, <3>1 DEF IInv, Types
  <2>3. QueueHolds'  BY <1>1, <1>2, <1>12, <2>1 DEF IInv, Places, QueueHolds
  <2>4. NetflowHolds'  BY <1>1, <1>2, <1>3, <1>8, <1>12, <2>1 DEF IInv, Places, NetflowHolds
  <2>5. BufferHolds'  BY <1>2, <1>3, <1>8, <1>12, <2>1 DEF IInv, Places, BufferHolds
  <2>6. NothingLost'  BY <1>1, <1>2, <1>3, <1>6, <1>8, <1>12, <2>1 DEF IInv, Places, NothingLost, InHand
  <2>7. LastComer'
    <3> SUFFICES ASSUME main = "stopped", ByUDP(held) # {}
                 PROVE  consumer'.at = "ended" /\ \E e \in held : ByUDP(held) = {e}
      BY <1>1, <1>12 DEF LastComer, ByUDP
    <3>1. consumer'.at = "ended"  BY <1>7 DEF StopBegan
    <3>2. ByUDP(buffer) = {}  BY <1>1, <1>2 DEF IInv, LastComer
    <3>3. ByUDP(held) = {h} /\ h \in held  BY <1>8, <3>2 DEF ByUDP
    <3> QED  BY <3>1, <3>3
  <2> QED  BY <1>9, <1>10, <2>2, <2>3, <2>4, <2>5, <2>6, <2>7 DEF IInv, Places
<1> QED  BY <1>1, <1>11, <1>12

\* A flush of the buffer as it is.
LEMMA DoFlushKeeps ==
  ASSUME IInv, DoFlush, UNCHANGED <<queue, consumer, netflow>>
  PROVE  /\ Places' /\ buffer' = {} /\ Received' = Received
         /\ \A e \in Received : fate'[e] \in Fates
<1>1. IInv  OBVIOUS
<1>2. \A e \in buffer : e \in Event /\ e \in Received /\ ~Queued(e)
  BY <1>1 DEF IInv, Places, QueueHolds, BufferHolds, Queued, Types
<1>3. netflow.event \notin buffer /\ (consumer.at = "event" => consumer.event \notin buffer)
  BY <1>1, CollectorAssumption DEF IInv, Places, NetflowHolds, ConsumerHolds, Types
<1>4. /\ Received' = Received
      /\ \A e \in buffer : fate'[e] = "flushed" 
      /\ \A e \in Received \ buffer : fate'[e] = fate[e]
      /\ \A e \in Received : fate'[e] \in Fates
      /\ QueueHolds' /\ NetflowHolds' /\ BufferHolds'
  <2>1. buffer \in SUBSET Event /\ buffer \subseteq Received  BY <1>2
  <2> QED  BY <1>2, <1>3, <2>1, FlushEffect DEF DoFlush
<1>5. \A x : Queued(x)' <=> Queued(x)  BY DEF Queued
<1>6. ConsumerHolds'
  <2>1. consumer.at = "line" => consumer.event \notin buffer
    BY <1>1 DEF IInv, Places, ConsumerHolds, BufferHolds
  <2>2. ConsumerHolds /\ consumer' = consumer /\ queue' = queue  BY <1>1 DEF IInv, Places
  <2>3. consumer.at \in Holding => consumer.event \in Received \ buffer /\ fate'[consumer.event] = fate[consumer.event]
    BY <1>3, <1>4, <2>1, <2>2 DEF ConsumerHolds, Holding
  <2> QED  BY <1>4, <2>2, <2>3 DEF ConsumerHolds, Holding, Queued, DoFlush
<1>7. NothingLost'  BY <1>1, <1>4, <1>5 DEF IInv, Places, NothingLost, InHand
<1> QED  BY <1>4, <1>6, <1>7 DEF Places, DoFlush

LEMMA TimerFlushesIInv ==
  ASSUME IInv, TimerFlushes  PROVE IInv'
<1>1. UNCHANGED <<main, running, udp, queue, consumer, netflow>> /\ DoFlush  BY DEF TimerFlushes, control
<1>2. Places' /\ buffer' = {} /\ Received' = Received /\ \A e \in Received : fate'[e] \in Fates
  BY <1>1, DoFlushKeeps
<1>3. IInv  OBVIOUS
<1>4. Types'  BY <1>1, <1>2, <1>3 DEF IInv, Types
<1>5. ThreadsFollow' /\ QueueDrained' /\ LastComer'
  BY <1>1, <1>2, <1>3 DEF IInv, ThreadsFollow, QueueDrained, LastComer, StopBegan, ByUDP
<1> QED  BY <1>2, <1>4, <1>5 DEF IInv

LEMMA ReceiveNetflowIInv ==
  ASSUME IInv, NEW e \in Event, ReceiveNetflow(e)  PROVE IInv'
<1>1. /\ UNCHANGED <<main, running, udp, queue, consumer, buffer>>
      /\ netflow.at = "read" /\ e.via = "netflow" /\ e \in Event \ Received
      /\ Becomes({e}, "parsed") /\ netflow' = [at |-> "event", event |-> e]
  BY DEF ReceiveNetflow, Parse, control
<1>2. IInv  OBVIOUS
<1>3. ~Queued(e) /\ e \notin buffer /\ ~InHand(e)  BY <1>1, NewIsNowhere
<1>4. Received' = Received \cup {e} /\ fate'[e] = "parsed" /\ \A x \in Received : fate'[x] = fate[x]
  <2>1. {e} \in SUBSET Event /\ Received \ {e} = Received  BY <1>1
  <2> QED  BY <1>1, <2>1, BecomesEffect
<1>5. netflow'.at = "event" /\ netflow'.event = e  BY <1>1
<1>6. \A x : Queued(x)' <=> Queued(x)  BY <1>1 DEF Queued
<1>7. Types'
  <2>1. netflow' \in [at : {"off", "read", "event", "ended"}, event : Event \cup {None}]  BY <1>1
  <2>2. \A x \in Received' : fate'[x] \in Fates  BY <1>2, <1>4 DEF IInv, Types, Fates
  <2> QED  BY <1>1, <1>2, <1>4, <2>1, <2>2 DEF IInv, Types
<1>8. QueueHolds'  BY <1>1, <1>2, <1>4 DEF IInv, Places, QueueHolds
<1>9. ConsumerHolds'
  BY <1>1, <1>2, <1>4 DEF IInv, Places, ConsumerHolds, Holding, Queued
<1>10. NetflowHolds'  BY <1>1, <1>3, <1>4, <1>5 DEF NetflowHolds
<1>11. BufferHolds'  BY <1>1, <1>2, <1>4 DEF IInv, Places, BufferHolds
<1>12. NothingLost'
  <2>1. netflow.event = None /\ None \notin Received
    BY <1>1, <1>2, CollectorAssumption DEF IInv, Places, NetflowHolds, Types
  <2> QED  BY <1>1, <1>2, <1>4, <1>5, <1>6, <2>1 DEF IInv, Places, NothingLost, InHand
<1>13. ThreadsFollow' /\ QueueDrained' /\ LastComer'
  BY <1>1, <1>2, <1>5 DEF IInv, ThreadsFollow, QueueDrained, LastComer, StopBegan, ByUDP
<1> QED  BY <1>7, <1>8, <1>9, <1>10, <1>11, <1>12, <1>13 DEF IInv, Places

LEMMA NetflowBuffersIInv ==
  ASSUME IInv, NetflowBuffers  PROVE IInv'
<1> DEFINE h == netflow.event
<1>1. /\ UNCHANGED <<main, running, udp, queue, consumer, fate>>
      /\ netflow.at = "event" /\ buffer' = buffer \cup {h} /\ netflow' = Hands("read")
  BY DEF NetflowBuffers, control
<1>2. IInv  OBVIOUS
<1>3. /\ h \in Received \ buffer /\ h \in Event
      /\ h.via = "netflow" /\ fate[h] = "parsed" /\ h # consumer.event
  BY <1>1, <1>2, CollectorAssumption DEF IInv, Places, NetflowHolds, ConsumerHolds, Types, Holding, Line
<1>4. netflow'.at = "read" /\ netflow'.event = None  BY <1>1 DEF Hands
<1>5. h = netflow.event  OBVIOUS
<1> HIDE DEF h
<1>6. \A x : Queued(x)' <=> Queued(x)  BY <1>1 DEF Queued
<1>7. Received' = Received  BY <1>1 DEF Received
<1>8. Types'
  <2>1. netflow' \in [at : {"off", "read", "event", "ended"}, event : Event \cup {None}]  BY <1>1 DEF Hands
  <2> QED  BY <1>1, <1>2, <1>3, <1>7, <2>1 DEF IInv, Types
<1>9. QueueHolds'  BY <1>1, <1>2, <1>7 DEF IInv, Places, QueueHolds
<1>10. ConsumerHolds'
  BY <1>1, <1>2, <1>3, <1>7 DEF IInv, Places, ConsumerHolds, Holding, Queued
<1>11. NetflowHolds'  BY <1>4 DEF NetflowHolds
<1>12. BufferHolds'  BY <1>1, <1>2, <1>3, <1>7 DEF IInv, Places, BufferHolds
<1>13. NothingLost'  BY <1>1, <1>2, <1>3, <1>5, <1>6, <1>7 DEF IInv, Places, NothingLost, InHand
<1>14. ByUDP(buffer') = ByUDP(buffer)  BY <1>1, <1>3 DEF ByUDP
<1>15. ThreadsFollow' /\ QueueDrained' /\ LastComer'
  <2>1. ThreadsFollow' /\ QueueDrained'
    BY <1>1, <1>2, <1>4 DEF IInv, ThreadsFollow, QueueDrained, StopBegan
  <2>2. LastComer'
    <3>1. (main = "stopped" /\ ByUDP(buffer) # {} =>
             consumer.at = "ended" /\ \E e \in buffer : ByUDP(buffer) = {e})
      BY <1>2 DEF IInv, LastComer
    <3> QED  BY <1>1, <1>14, <3>1 DEF LastComer, ByUDP
  <2> QED  BY <2>1, <2>2
<1> QED  BY <1>8, <1>9, <1>10, <1>11, <1>12, <1>13, <1>15 DEF IInv, Places

LEMMA NetflowEndsIInv ==
  ASSUME IInv, NetflowEnds  PROVE IInv'
<1>1. /\ UNCHANGED <<main, running, udp, queue, consumer, buffer, fate>>
      /\ netflow.at = "read" /\ StopBegan /\ netflow' = Hands("ended")
  BY DEF NetflowEnds, control
<1>2. IInv  OBVIOUS
<1>3. netflow.event = None  BY <1>1, <1>2 DEF IInv, Places, NetflowHolds
<1>4. netflow' \in [at : {"off", "read", "event", "ended"}, event : Event \cup {None}]
      /\ netflow'.at = "ended" /\ netflow'.event = None
  BY <1>1 DEF Hands
<1>5. Received' = Received /\ \A x : Queued(x)' <=> Queued(x)  BY <1>1 DEF Queued, Received
<1>6. Types'  BY <1>1, <1>2, <1>4, <1>5 DEF IInv, Types
<1>7. QueueHolds' /\ BufferHolds' /\ NetflowHolds'
  BY <1>1, <1>2, <1>4, <1>5 DEF IInv, Places, QueueHolds, BufferHolds, NetflowHolds
<1>8. ConsumerHolds'  BY <1>1, <1>2, <1>5 DEF IInv, Places, ConsumerHolds, Holding, Queued
<1>9. NothingLost'  BY <1>1, <1>2, <1>3, <1>4, <1>5 DEF IInv, Places, NothingLost, InHand
<1>10. ThreadsFollow' /\ QueueDrained' /\ LastComer'
  BY <1>1, <1>2, <1>4 DEF IInv, ThreadsFollow, QueueDrained, LastComer, StopBegan, ByUDP
<1> QED  BY <1>6, <1>7, <1>8, <1>9, <1>10 DEF IInv, Places

\* Starting the consumer moves nothing: it holds nothing before it starts.
LEMMA StartIInv ==
  ASSUME IInv, Start  PROVE IInv'
<1>1. IInv  OBVIOUS
<1>2. UNCHANGED <<queue, buffer, fate>>  BY DEF Start, StartUDP, StartTCP, StartRest, Rest
<1>3. Received' = Received /\ \A x : Queued(x)' <=> Queued(x)  BY <1>2 DEF Queued, Received
<1>4. consumer.at \notin Holding => consumer.event = None  BY <1>1 DEF IInv, Places, ConsumerHolds
<1>5. netflow.at # "event" => netflow.event = None  BY <1>1 DEF IInv, Places, NetflowHolds
<1>6. /\ main \in {"start", "tcp", "rest"} /\ running' \in BOOLEAN
      /\ main' \in {"tcp", "rest", "serving", "exited"}
      /\ main' \in {"tcp", "rest"} => netflow' = netflow
      /\ consumer' = consumer \/ (consumer.at = "off" /\ consumer' = Hands("get"))
      /\ netflow' = netflow \/ (netflow.at = "off" /\ netflow' = Hands("read"))
  BY <1>1 DEF Start, StartUDP, StartTCP, StartRest, IInv, Types, ThreadsFollow
<1>7. Types'
  <2>1. /\ consumer' \in [at : {"off", "get", "line", "event", "ended"}, event : Event \cup {None}]
        /\ netflow' \in [at : {"off", "read", "event", "ended"}, event : Event \cup {None}]
    BY <1>1, <1>6 DEF IInv, Types, Hands
  <2> QED  BY <1>1, <1>2, <1>3, <1>6, <2>1 DEF IInv, Types, Phases
<1>8. consumer'.event = consumer.event /\ (consumer'.at = consumer.at \/ consumer'.at = "get")
  BY <1>4, <1>6 DEF Hands, Holding
<1>9. netflow'.event = netflow.event /\ (netflow'.at = netflow.at \/ (netflow'.at = "read" /\ netflow.at = "off"))
  BY <1>5, <1>6 DEF Hands
<1>10. QueueHolds' /\ BufferHolds'  BY <1>1, <1>2, <1>3 DEF IInv, Places, QueueHolds, BufferHolds
<1>11. ConsumerHolds'
  <2>1. consumer'.at = "get" => consumer'.event = None
    BY <1>4, <1>6 DEF Hands, Holding
  <2> QED  BY <1>1, <1>2, <1>3, <1>8, <2>1 DEF IInv, Places, ConsumerHolds, Holding, Queued
<1>12. NetflowHolds'  BY <1>1, <1>2, <1>3, <1>9, <1>5 DEF IInv, Places, NetflowHolds
<1>13. NothingLost'  BY <1>1, <1>2, <1>3, <1>8, <1>9 DEF IInv, Places, NothingLost, InHand
<1>14. ThreadsFollow' /\ QueueDrained' /\ LastComer'
  BY <1>1, <1>6 DEF IInv, ThreadsFollow, QueueDrained, LastComer, StopBegan
<1> QED  BY <1>7, <1>10, <1>11, <1>12, <1>13, <1>14 DEF IInv, Places

\* A step of the main thread that moves no event.
LEMMA MainMoves ==
  ASSUME IInv, UNCHANGED <<queue, buffer, fate, consumer, netflow>>,
         main' \in {"shut", "drain", "flush", "exited"}, running' = FALSE,
         main' \in {"drain", "flush"} => udp' = "shut",
         main' = "flush" => queue = <<>>
  PROVE  IInv'
<1>1. IInv  OBVIOUS
<1>2. Places'  BY EventsStay
<1>3. Received' = Received  BY DEF Received
<1>4. Types'  BY <1>1, <1>3 DEF IInv, Types, Phases
<1>5. ThreadsFollow' /\ LastComer'  BY DEF ThreadsFollow, LastComer, StopBegan
<1>6. QueueDrained'  BY DEF QueueDrained
<1> QED  BY <1>2, <1>4, <1>5, <1>6 DEF IInv

LEMMA StopIInv ==
  ASSUME IInv, Stop \/ ShutServers \/ DrainEnds \/ Exit  PROVE IInv'
<1>1. UNCHANGED <<queue, buffer, fate, consumer, netflow>>
  BY DEF Stop, ShutServers, DrainEnds, Exit, Rest
<1>2. /\ main' \in {"shut", "drain", "flush", "exited"} /\ running' = FALSE
      /\ main' \in {"drain", "flush"} => udp' = "shut"
      /\ main' = "flush" => queue = <<>>
  BY DEF Stop, ShutServers, DrainEnds, Exit, Goes, IInv, Types, ThreadsFollow, StopBegan
<1> QED  BY <1>1, <1>2, MainMoves

\* A second passes, or a connection comes and goes.
LEMMA ElsewhereIInv ==
  ASSUME IInv, Tick \/ Connect  PROVE IInv'
<1>1. UNCHANGED <<queue, buffer, fate, consumer, netflow, main, running, udp>>
  BY DEF Tick, Connect, control
<1>2. Places'  BY <1>1, EventsStay
<1>3. Received' = Received  BY <1>1 DEF Received
<1>4. Types'  BY <1>1, <1>3 DEF IInv, Types
<1>5. ThreadsFollow' /\ LastComer' /\ QueueDrained'
  BY <1>1 DEF IInv, ThreadsFollow, LastComer, StopBegan, QueueDrained, ByUDP
<1> QED  BY <1>2, <1>4, <1>5 DEF IInv

LEMMA FinalFlushIInv ==
  ASSUME IInv, FinalFlush  PROVE IInv'
<1>1. UNCHANGED <<running, udp, queue, consumer, netflow>> /\ DoFlush /\ main = "flush" /\ main' = "stopped"
  BY DEF FinalFlush, Goes
<1>2. Places' /\ buffer' = {} /\ Received' = Received /\ \A e \in Received : fate'[e] \in Fates
  BY <1>1, DoFlushKeeps
<1>3. IInv  OBVIOUS
<1>4. Types'  BY <1>1, <1>2, <1>3 DEF IInv, Types, Phases
<1>5. ThreadsFollow' /\ QueueDrained' /\ LastComer'
  BY <1>1, <1>2, <1>3 DEF IInv, ThreadsFollow, QueueDrained, LastComer, StopBegan, ByUDP
<1> QED  BY <1>2, <1>4, <1>5 DEF IInv

LEMMA DrainLineIInv ==
  ASSUME IInv, DrainLine  PROVE IInv'
<1> DEFINE h == Head(queue)
<1>1. /\ UNCHANGED <<running, udp, consumer, netflow>>
      /\ main = "drain" /\ queue # <<>> /\ queue' = Tail(queue) /\ main' \in {"drain", "raised"}
      /\ \/ Becomes({h}, "parsed") /\ buffer' = buffer \cup {h}
         \/ Becomes({h}, "refused") /\ buffer' = buffer
         \/ Becomes({h}, "raised") /\ buffer' = buffer
  BY DEF DrainLine, Parse, control
<1>2. IInv  OBVIOUS
<1>3. /\ queue' \in Seq(Line) /\ h \in Line \cap Received
      /\ fate[h] = "queued" /\ ~InHand(h) /\ h \notin buffer
      /\ \A i \in DOMAIN queue' : queue'[i] # h
      /\ \A x : x # h => (Queued(x)' <=> Queued(x))
      /\ \A i \in DOMAIN queue' : \E j \in DOMAIN queue : queue'[i] = queue[j]
      /\ \A i, j \in DOMAIN queue' : queue'[i] = queue'[j] => i = j
  BY <1>1, TakenFromQueue
<1> HIDE DEF h
<1>4. /\ Received' = Received /\ h \in Event
      /\ \A x \in Received \ {h} : fate'[x] = fate[x]
      /\ \/ fate'[h] = "parsed" /\ buffer' = buffer \cup {h}
         \/ fate'[h] \in {"refused", "raised"} /\ buffer' = buffer
  <2>1. {h} \in SUBSET Event /\ Received \cup {h} = Received  BY <1>3 DEF Line
  <2> QED  BY <1>1, <2>1, BecomesEffect
<1>5. Types'
  <2>1. \A x \in Received : fate'[x] \in Fates  BY <1>2, <1>4 DEF IInv, Types, Fates
  <2> QED  BY <1>1, <1>2, <1>3, <1>4, <2>1 DEF IInv, Types, Phases
<1>6. QueueHolds'
  <2>1. \A i \in DOMAIN queue' : queue'[i] \in Received' /\ fate'[queue'[i]] = "queued"
    BY <1>2, <1>3, <1>4 DEF IInv, Places, QueueHolds
  <2> QED  BY <1>3, <2>1 DEF QueueHolds
<1>7. ConsumerHolds'
  <2>1. ConsumerHolds /\ consumer' = consumer /\ h # consumer.event  BY <1>1, <1>2, <1>3 DEF IInv, Places, InHand
  <2>2. consumer.at = "line" => \A i \in DOMAIN queue' : queue'[i] # consumer.event
    BY <1>3, <2>1 DEF ConsumerHolds, Queued
  <2> QED  BY <1>4, <2>1, <2>2 DEF ConsumerHolds, Holding, Queued
<1>8. NetflowHolds'
  <2>1. h # netflow.event  BY <1>3 DEF InHand
  <2> QED  BY <1>1, <1>2, <1>4, <2>1 DEF IInv, Places, NetflowHolds
<1>9. BufferHolds'  BY <1>2, <1>3, <1>4 DEF IInv, Places, BufferHolds
<1>10. NothingLost'  BY <1>1, <1>2, <1>3, <1>4 DEF IInv, Places, NothingLost, InHand
<1>11. ThreadsFollow' /\ QueueDrained' /\ LastComer'
  BY <1>1, <1>2 DEF IInv, ThreadsFollow, QueueDrained, LastComer, StopBegan
<1> QED  BY <1>5, <1>6, <1>7, <1>8, <1>9, <1>10, <1>11 DEF IInv, Places

LEMMA NextIInv ==
  ASSUME IInv, [Next]_vars  PROVE IInv'
<1>1. CASE UNCHANGED vars  BY <1>1, StutterIInv
<1>2. ASSUME NEW e \in Event, ReceiveUDP(e) \/ ReceiveTCP(e)  PROVE IInv'
  <2>1. Ingest(e) /\ (e.via = "udp" => udp = "serving")  BY <1>2 DEF ReceiveUDP, ReceiveTCP
  <2> QED  BY <2>1, IngestIInv
<1>3. ASSUME NEW e \in Event, ReceiveNetflow(e)  PROVE IInv'  BY <1>3, ReceiveNetflowIInv
<1>4. CASE Consume
  BY <1>4, ConsumerGetsIInv, ConsumerParsesIInv, ConsumerBuffersIInv DEF Consume
<1>5. CASE TimerFlushes  BY <1>5, TimerFlushesIInv
<1>6. CASE NetflowBuffers \/ NetflowEnds  BY <1>6, NetflowBuffersIInv, NetflowEndsIInv
<1>7. CASE Start  BY <1>7, StartIInv
<1>8. CASE Stop \/ Stopping
  BY <1>8, StopIInv, DrainLineIInv, FinalFlushIInv DEF Stopping
<1>9. CASE Tick \/ Connect  BY <1>9, ElsewhereIInv
<1> QED  BY <1>1, <1>2, <1>3, <1>4, <1>5, <1>6, <1>7, <1>8, <1>9 DEF Next

LEMMA CollectorInductive == Spec => []IInv
<1>1. Init => IInv  BY InitIInv
<1>2. IInv /\ [Next]_vars => IInv'  BY NextIInv
<1> QED  BY <1>1, <1>2, PTL DEF Spec

-----------------------------------------------------------------------------
(* Exceptions.                                                              *)

\* A line becomes "raised" only in the hands of the consumer or of stop().
LEMMA OnlyTheseRaise ==
  ASSUME IInv, [Next]_vars
  PROVE  \/ Raised' \subseteq Raised
         \/ consumer.at = "line" /\ consumer'.at = "ended" /\ \E e : Raised' \subseteq Raised \cup {e}
         \/ main = "drain" /\ main' = "raised" /\ \E e : Raised' \subseteq Raised \cup {e}
<1>1. \A S : \A f : Becomes(S, f) /\ f # "raised" => Raised' \subseteq Raised
  <2> SUFFICES ASSUME NEW S, NEW f, Becomes(S, f), f # "raised"  PROVE Raised' \subseteq Raised  OBVIOUS
  <2> QED  BY DEF Becomes, Raised, Received
<1>2. \A e : Becomes({e}, "raised") => Raised' \subseteq Raised \cup {e}
  <2> SUFFICES ASSUME NEW e, Becomes({e}, "raised")  PROVE Raised' \subseteq Raised \cup {e}  OBVIOUS
  <2> QED  BY DEF Becomes, Raised, Received
<1>3. UNCHANGED fate => Raised' \subseteq Raised  BY DEF Raised, Received
<1>4. ASSUME NEW e \in Event, Ingest(e) \/ ReceiveNetflow(e)  PROVE Raised' \subseteq Raised
  BY <1>1, <1>4 DEF Ingest, ReceiveNetflow, Parse
<1>5. CASE ConsumerParses
  <2>1. Becomes({consumer.event}, "raised") => \E e : Raised' \subseteq Raised \cup {e}  BY <1>2
  <2>2. Becomes({consumer.event}, "parsed") \/ Becomes({consumer.event}, "refused") => Raised' \subseteq Raised
    BY <1>1
  <2> QED  BY <1>5, <2>1, <2>2 DEF ConsumerParses, Parse, Hands
<1>6. CASE DrainLine
  BY <1>1, <1>2, <1>6 DEF DrainLine, Parse
<1>7. CASE ConsumerBuffers \/ TimerFlushes \/ FinalFlush
  BY <1>1, <1>3, <1>7 DEF ConsumerBuffers, TimerFlushes, FinalFlush, DoFlush
<1>8. CASE UNCHANGED fate  BY <1>3, <1>8
<1> QED
  BY <1>4, <1>5, <1>6, <1>7, <1>8
     DEF Next, vars, ReceiveUDP, ReceiveTCP, Connect, Consume, ConsumerGets, NetflowBuffers, NetflowEnds,
         Start, StartUDP, StartTCP, StartRest, Stop, Stopping, ShutServers, DrainEnds, Exit, Rest, Tick

\* A thread that has ended stays so.
LEMMA EndedStays ==
  ASSUME IInv, [Next]_vars
  PROVE  /\ consumer.at = "ended" => consumer'.at = "ended"
         /\ StopEnded => StopEnded'
<1>1. main = "start" => consumer.at = "off"  BY DEF IInv, ThreadsFollow
<1>2. UNCHANGED vars => UNCHANGED <<consumer, main>>  BY DEF vars, control
<1>3. \A e \in Event : Ingest(e) \/ ReceiveNetflow(e) => UNCHANGED <<consumer, main>>
  BY DEF Ingest, ReceiveNetflow, control
<1>4. Tick \/ Connect \/ TimerFlushes \/ NetflowBuffers \/ NetflowEnds => UNCHANGED <<consumer, main>>
  BY DEF Tick, Connect, TimerFlushes, NetflowBuffers, NetflowEnds, control
<1>5. Consume => consumer.at # "ended" /\ main' = main
  BY DEF Consume, ConsumerGets, ConsumerParses, ConsumerBuffers, control
<1>6. Start => ~StopEnded /\ (consumer.at = "ended" => consumer' = consumer)
  BY <1>1 DEF Start, StartUDP, StartTCP, StartRest, StopEnded
<1>7. Stop \/ Stopping => consumer' = consumer /\ (StopEnded => main' = "exited")
  BY DEF Stop, Stopping, ShutServers, DrainLine, DrainEnds, FinalFlush, Exit, Goes, StopEnded
<1> QED
  BY <1>2, <1>3, <1>4, <1>5, <1>6, <1>7 DEF Next, ReceiveUDP, ReceiveTCP, StopEnded

LEMMA RaisedInductive == Spec => []RaisedEndsThread
<1>1. Init => RaisedEndsThread  BY DEF Init, RaisedEndsThread, Raised, Received
<1>2. IInv /\ RaisedEndsThread /\ [Next]_vars => RaisedEndsThread'
  <2> SUFFICES ASSUME IInv, RaisedEndsThread, [Next]_vars  PROVE RaisedEndsThread'  OBVIOUS
  <2> USE EndedStays
  <2>1. CASE Raised' \subseteq Raised  BY <2>1 DEF RaisedEndsThread
  <2>2. ASSUME NEW e, Raised' \subseteq Raised \cup {e}, consumer.at = "line", consumer'.at = "ended"
        PROVE  RaisedEndsThread'
    BY <2>2 DEF RaisedEndsThread
  <2>3. ASSUME NEW e, Raised' \subseteq Raised \cup {e}, main = "drain", main' = "raised"
        PROVE  RaisedEndsThread'
    BY <2>3 DEF RaisedEndsThread, StopEnded
  <2> QED  BY <2>1, <2>2, <2>3, OnlyTheseRaise
<1> QED  BY <1>1, <1>2, CollectorInductive, PTL DEF Spec

-----------------------------------------------------------------------------
(* The properties of the run.                                              *)

\* An event that was received and not refused is in the queue, in the hands of one thread, in
\* the buffer, or written or lost by an INSERT that failed, and in one of them only, however
\* the threads interleave and wherever stop() finds them; a line that raised took the thread
\* that read it with it.
THEOREM OnePlaceEach == Spec => []EventsInOnePlace
<1>1. IInv /\ RaisedEndsThread => EventsInOnePlace
  <2> SUFFICES ASSUME IInv, NEW e \in Received
               PROVE  /\ Queued(e) => ~InHand(e) /\ e \notin buffer /\ fate[e] = "queued"
                      /\ e \in buffer => ~InHand(e) /\ fate[e] = "parsed"
                      /\ fate[e] \in {"queued", "parsed"} <=> Queued(e) \/ InHand(e) \/ e \in buffer
    BY DEF EventsInOnePlace
  <2>1. Types /\ QueueHolds /\ ConsumerHolds /\ NetflowHolds /\ BufferHolds /\ NothingLost  BY DEF IInv, Places
  <2>2. e # None  BY <2>1, CollectorAssumption DEF Types
  <2>3. e = consumer.event => /\ fate[e] \in {"queued", "parsed"}
                              /\ consumer.at = "line" => ~Queued(e) /\ fate[e] = "queued"
                              /\ consumer.at = "event" => e \notin buffer /\ fate[e] = "parsed"
                              /\ consumer.at \in Holding
    BY <2>1, <2>2 DEF ConsumerHolds, Holding
  <2>4. e = netflow.event => e \notin buffer /\ fate[e] = "parsed"  BY <2>1, <2>2 DEF NetflowHolds
  <2>5. Queued(e) => fate[e] = "queued"  BY <2>1 DEF QueueHolds, Queued
  <2>6. e \in buffer => fate[e] = "parsed"  BY <2>1 DEF BufferHolds
  <2>7. Queued(e) => ~InHand(e)  BY <2>3, <2>4, <2>5 DEF InHand, Holding
  <2>8. e \in buffer => ~InHand(e)  BY <2>3, <2>4, <2>6 DEF InHand, Holding
  <2>9. fate[e] \in {"queued", "parsed"} => Queued(e) \/ InHand(e) \/ e \in buffer
    BY <2>1 DEF NothingLost, InHand
  <2>10. InHand(e) => fate[e] \in {"queued", "parsed"}  BY <2>3, <2>4 DEF InHand
  <2> QED  BY <2>5, <2>6, <2>7, <2>8, <2>9, <2>10
<1> QED  BY <1>1, CollectorInductive, RaisedInductive, PTL

\* When stop() returns, every datagram was written, lost, refused or raised, but for one at
\* most.
THEOREM DrainedAtStop == Spec => []StopDrains
<1>1. IInv => StopDrains
  <2> SUFFICES ASSUME IInv, main = "stopped"
               PROVE  Cardinality({e \in Received : e.via = "udp" /\ e \notin Settled}) <= 1
    BY DEF StopDrains
  <2> DEFINE open == {e \in Received : e.via = "udp" /\ e \notin Settled}
  <2>1. \A e \in open : e = consumer.event \/ e \in ByUDP(buffer)
    <3> SUFFICES ASSUME NEW e \in Received, e.via = "udp", e \notin Settled
                 PROVE  e = consumer.event \/ e \in ByUDP(buffer)
      OBVIOUS
    <3>1. fate[e] \in {"queued", "parsed"}  BY DEF IInv, Types, Fates, Settled
    <3>2. ~Queued(e)  BY DEF IInv, QueueDrained, Queued
    <3>3. e # netflow.event
      BY CollectorAssumption DEF IInv, Places, NetflowHolds, Types
    <3> QED  BY <3>1, <3>2, <3>3 DEF IInv, Places, NothingLost, InHand, ByUDP
  <2>2. \E x : open \subseteq {x}
    <3>1. CASE ByUDP(buffer) = {}  BY <2>1, <3>1
    <3>2. CASE ByUDP(buffer) # {}
      <4>1. consumer.at = "ended" /\ \E e \in buffer : ByUDP(buffer) = {e}
        BY <3>2 DEF IInv, LastComer
      <4>2. consumer.event \notin open
        BY <4>1, CollectorAssumption DEF IInv, Places, ConsumerHolds, Types, Holding
      <4> QED  BY <2>1, <4>1, <4>2
    <3> QED  BY <3>1, <3>2
  <2>3. PICK x : open \subseteq {x}  BY <2>2
  <2> HIDE DEF open
  <2>4. IsFiniteSet({x}) /\ Cardinality({x}) = 1  BY FS_Singleton
  <2>5. IsFiniteSet(open) /\ Cardinality(open) <= 1  BY <2>3, <2>4, FS_Subset
  <2> QED  BY <2>5 DEF open
<1> QED  BY <1>1, CollectorInductive, PTL

-----------------------------------------------------------------------------
(* The token buckets.                                                       *)

\* The tokens that lines took from the buckets of their senders in this second.
Tokens == Sender \X (1 .. PerIpMaxEps)
Taken == {p \in Tokens : p[2] > tokens.of[p[1]]}

\* Every token taken from a sender's bucket was taken from the global one.
BucketsAgree ==
  /\ tokens \in [all : 0 .. MaxEps, of : [Sender -> 0 .. PerIpMaxEps]]
  /\ IsFiniteSet(Taken) /\ Cardinality(Taken) + tokens.all = MaxEps

LEMMA TokensFinite ==
  IsFiniteSet(Tokens) /\ Cardinality(Tokens) = Cardinality(Sender) * PerIpMaxEps
<1>1. PerIpMaxEps \in Nat \ {0} /\ IsFiniteSet(Sender)  BY CollectorAssumption
<1>2. IsFiniteSet(1 .. PerIpMaxEps) /\ Cardinality(1 .. PerIpMaxEps) = PerIpMaxEps
  BY <1>1, FS_Interval
<1> QED  BY <1>1, <1>2, FS_Product DEF Tokens

LEMMA FullBuckets ==
  /\ Full \in [all : 0 .. MaxEps, of : [Sender -> 0 .. PerIpMaxEps]]
  /\ {p \in Tokens : p[2] > Full.of[p[1]]} = {} /\ Full.all = MaxEps
<1>1. PerIpMaxEps \in Nat \ {0} /\ MaxEps \in Nat \ {0}  BY CollectorAssumption
<1>2. \A p \in Tokens : p[1] \in Sender /\ p[2] <= PerIpMaxEps /\ p[2] \in Nat  BY <1>1 DEF Tokens
<1>3. Full.of = [s \in Sender |-> PerIpMaxEps] /\ Full.all = MaxEps  BY DEF Full
<1>4. \A p \in Tokens : ~(p[2] > Full.of[p[1]])  BY <1>1, <1>2, <1>3
<1> QED  BY <1>1, <1>4 DEF Full

\* A line that passes takes one token of both kinds.
LEMMA AllowKeeps ==
  ASSUME BucketsAgree, NEW s \in Sender, tokens' = Allow(s).left  PROVE BucketsAgree'
<1>1. CASE tokens.all >= 1 /\ tokens.of[s] >= 1
  <2> DEFINE n == tokens.of[s]
             q == <<s, n>>
  <2>1. /\ tokens' = [tokens EXCEPT !.all = @ - 1, !.of[s] = @ - 1]
        /\ tokens \in [all : 0 .. MaxEps, of : [Sender -> 0 .. PerIpMaxEps]]
        /\ MaxEps \in Nat /\ PerIpMaxEps \in Nat
    BY <1>1, CollectorAssumption DEF Allow, BucketsAgree
  <2>2. /\ tokens' \in [all : 0 .. MaxEps, of : [Sender -> 0 .. PerIpMaxEps]]
        /\ tokens'.all = tokens.all - 1 /\ tokens.all \in Nat
        /\ tokens'.of[s] = n - 1 /\ n \in 1 .. PerIpMaxEps
        /\ \A t \in Sender \ {s} : tokens'.of[t] = tokens.of[t]
    <3>1. tokens.all \in 1 .. MaxEps /\ tokens.of \in [Sender -> 0 .. PerIpMaxEps] /\ n \in 1 .. PerIpMaxEps
      BY <1>1, <2>1
    <3>2. tokens' = [all |-> tokens.all - 1, of |-> [tokens.of EXCEPT ![s] = n - 1]]  BY <2>1
    <3>3. [tokens.of EXCEPT ![s] = n - 1] \in [Sender -> 0 .. PerIpMaxEps]  BY <2>1, <3>1
    <3>4. tokens.all - 1 \in 0 .. MaxEps  BY <2>1, <3>1
    <3> QED  BY <3>1, <3>2, <3>3, <3>4
  <2>3. q \in Tokens /\ q[1] = s /\ q[2] = n  BY <2>2 DEF Tokens
  <2>4. q \notin Taken  BY <2>1, <2>2, <2>3 DEF Taken
  <2>5. \A p \in Tokens : (p[2] > tokens'.of[p[1]]) <=> (p[2] > tokens.of[p[1]] \/ p = q)
    <3> SUFFICES ASSUME NEW t \in Sender, NEW k \in 1 .. PerIpMaxEps
                 PROVE  (k > tokens'.of[t]) <=> (k > tokens.of[t] \/ <<t, k>> = q)
      BY DEF Tokens
    <3>1. CASE t = s  BY <2>1, <2>2, <3>1
    <3>2. CASE t # s  BY <2>1, <2>2, <3>2
    <3> QED  BY <3>1, <3>2
  <2>6. Taken' = Taken \cup {q}  BY <2>3, <2>5 DEF Taken
  <2>7. IsFiniteSet(Taken) /\ Cardinality(Taken) + tokens.all = MaxEps /\ Cardinality(Taken) \in Nat
    BY FS_CardinalityType DEF BucketsAgree
  <2> HIDE DEF q, n
  <2>8. IsFiniteSet(Taken') /\ Cardinality(Taken') = Cardinality(Taken) + 1
    BY <2>4, <2>6, <2>7, FS_AddElement
  <2>9. Cardinality(Taken') + tokens'.all = MaxEps  BY <2>2, <2>7, <2>8
  <2> QED  BY <2>2, <2>8, <2>9 DEF BucketsAgree
<1>2. CASE ~(tokens.all >= 1 /\ tokens.of[s] >= 1)
  <2>1. tokens' = tokens  BY <1>2 DEF Allow
  <2> QED  BY <2>1 DEF BucketsAgree, Taken
<1> QED  BY <1>1, <1>2

LEMMA BucketsInductive == Spec => []BucketsAgree
<1>1. Init => BucketsAgree
  <2> SUFFICES ASSUME Init  PROVE BucketsAgree  OBVIOUS
  <2>1. tokens = Full /\ Taken = {}  BY FullBuckets DEF Init, Taken
  <2>2. IsFiniteSet({}) /\ Cardinality({}) = 0 /\ MaxEps \in Nat  BY FS_EmptySet, CollectorAssumption
  <2> QED  BY <2>1, <2>2, FullBuckets DEF BucketsAgree
<1>2. BucketsAgree /\ [Next]_vars => BucketsAgree'
  <2> SUFFICES ASSUME BucketsAgree, [Next]_vars  PROVE BucketsAgree'  OBVIOUS
  <2>1. CASE tokens' = tokens  BY <2>1 DEF BucketsAgree, Taken
  <2>2. ASSUME NEW e \in Event, Ingest(e)  PROVE BucketsAgree'
    <3>1. e.src \in Sender /\ tokens' = Allow(e.src).left  BY <2>2 DEF Ingest, Sender
    <3> QED  BY <3>1, AllowKeeps
  <2>3. CASE Tick
    <3>1. tokens' = Full /\ Taken' = {}  BY <2>3, FullBuckets DEF Tick, Taken
    <3>2. IsFiniteSet({}) /\ Cardinality({}) = 0 /\ MaxEps \in Nat  BY FS_EmptySet, CollectorAssumption
    <3> QED  BY <3>1, <3>2, FullBuckets DEF BucketsAgree
  <2> QED
    BY <2>1, <2>2, <2>3
       DEF Next, vars, ReceiveUDP, ReceiveTCP, ReceiveNetflow, Connect, Consume, ConsumerGets,
           ConsumerParses, ConsumerBuffers, TimerFlushes, NetflowBuffers, NetflowEnds, Start, StartUDP,
           StartTCP, StartRest, Stop, Stopping, ShutServers, DrainLine, DrainEnds, FinalFlush, Exit, Rest
<1> QED  BY <1>1, <1>2, PTL DEF Spec

\* When all senders together may not take more than the global bucket holds, it is empty only
\* when theirs are.
LEMMA EmptyTogether ==
  ASSUME BucketsAgree, NEW s \in Sender, ~Allow(s).ok,
         Cardinality(Sender) * PerIpMaxEps <= MaxEps
  PROVE  tokens.of[s] = 0
<1>1. /\ tokens.all \in Nat /\ tokens.of \in [Sender -> 0 .. PerIpMaxEps] /\ MaxEps \in Nat
      /\ PerIpMaxEps \in Nat \ {0}
      /\ IsFiniteSet(Taken) /\ Cardinality(Taken) + tokens.all = MaxEps
  BY CollectorAssumption DEF BucketsAgree
<1>2. tokens.of[s] \in Nat /\ tokens.of[s] \in 0 .. PerIpMaxEps  BY <1>1
<1>3. CASE tokens.of[s] < 1  BY <1>2, <1>3
<1>4. CASE tokens.all < 1
  <2>1. tokens.all = 0 /\ Cardinality(Taken) = MaxEps /\ Cardinality(Taken) \in Nat
    BY <1>1, <1>4, FS_CardinalityType
  <2>2. IsFiniteSet(Tokens) /\ Cardinality(Tokens) <= MaxEps /\ Cardinality(Tokens) \in Nat
    BY TokensFinite, FS_CardinalityType
  <2>3. Taken \in SUBSET Tokens  BY DEF Taken
  <2>4. Cardinality(Taken) <= Cardinality(Tokens)  BY <2>2, <2>3, FS_Subset
  <2>5. Cardinality(Tokens) = Cardinality(Taken)  BY <2>1, <2>2, <2>4, <1>1
  <2>6. Taken = Tokens  BY <2>2, <2>3, <2>5, FS_Subset
  <2>7. <<s, 1>> \in Taken  BY <1>1, <2>6 DEF Tokens
  <2>8. 1 > tokens.of[s]  BY <2>7 DEF Taken
  <2> QED  BY <1>2, <2>8
<1> QED  BY <1>1, <1>2, <1>3, <1>4 DEF Allow

\* A line is refused only to a device that had its whole share of this second, while there are
\* few enough devices for the global limit: for any limits and any number of devices.
THEOREM NoisyDevice == Spec => OthersAreServed
<1> DEFINE A == \A e \in Received' \ Received :
                  fate'[e] = "limited" /\ Cardinality(Sender) * PerIpMaxEps <= MaxEps
                    => tokens.of[e.src] = 0
<1>1. ASSUME BucketsAgree, [Next]_vars  PROVE A
  <2> SUFFICES ASSUME NEW e \in Received' \ Received, fate'[e] = "limited",
                      Cardinality(Sender) * PerIpMaxEps <= MaxEps
               PROVE  tokens.of[e.src] = 0
    OBVIOUS
  <2>1. \A S : \A f : Becomes(S, f) => fate'[e] = f
    <3> SUFFICES ASSUME NEW S, NEW f, Becomes(S, f)  PROVE fate'[e] = f  OBVIOUS
    <3> QED  BY DEF Becomes, Received
  <2>2. fate' # fate  BY DEF Received
  <2>3. ASSUME NEW x \in Event, Ingest(x)  PROVE tokens.of[e.src] = 0
    <3>1. e = x /\ ~Allow(x.src).ok /\ x \in Line
      <4>1. \A f : Becomes({x}, f) => e = x  BY DEF Becomes, Received
      <4> QED  BY <2>1, <2>3, <4>1 DEF Ingest
    <3>2. e.src \in Sender  BY <3>1 DEF Sender
    <3> QED  BY <1>1, <3>1, <3>2, EmptyTogether
  <2>4. ASSUME NEW x \in Event, ReceiveNetflow(x)  PROVE FALSE  BY <2>1, <2>4 DEF ReceiveNetflow, Parse
  <2>5. CASE Consume \/ TimerFlushes \/ DrainLine \/ FinalFlush
    BY <2>1, <2>2, <2>5
       DEF Consume, ConsumerGets, ConsumerParses, ConsumerBuffers, TimerFlushes, DrainLine, FinalFlush,
           DoFlush, Parse
  <2>6. \/ \E x \in Event : Ingest(x) \/ ReceiveNetflow(x)
        \/ Consume \/ TimerFlushes \/ DrainLine \/ FinalFlush
    BY <1>1, <2>2
       DEF Next, vars, ReceiveUDP, ReceiveTCP, Connect, NetflowBuffers, NetflowEnds, Start, StartUDP,
           StartTCP, StartRest, Stop, Stopping, ShutServers, DrainEnds, Exit, Rest, Tick
  <2> QED  BY <2>3, <2>4, <2>5, <2>6
<1> HIDE DEF A
<1>2. BucketsAgree /\ [Next]_vars => [A]_vars  BY <1>1
<1>3. Spec => [][A]_vars  BY <1>2, BucketsInductive, PTL DEF Spec
<1> QED  BY <1>3 DEF OthersAreServed, A

-----------------------------------------------------------------------------
(* The limits of queue and pool.                                            *)

Bounded ==
  /\ timer \in {"off", "sleep", "ended"} /\ udp \in {"off", "serving", "shut"}
  /\ tcp \in {"off", "serving", "shut"}
  /\ conn \in [waiting : Nat, served : Nat]
  /\ conn.waiting + conn.served <= MaxConn /\ conn.served <= TcpWorkers
  /\ queue \in Seq(Line) /\ Len(queue) <= QueueSize

LEMMA InitBounded == Init => Bounded
<1> SUFFICES ASSUME Init  PROVE Bounded  OBVIOUS
<1>1. MaxConn \in Nat /\ TcpWorkers \in Nat /\ QueueSize \in Nat  BY CollectorAssumption
<1>2. queue \in Seq(Line) /\ Len(queue) = 0  BY DEF Init
<1>3. conn \in [waiting : Nat, served : Nat] /\ conn.waiting = 0 /\ conn.served = 0  BY DEF Init
<1> QED  BY <1>1, <1>2, <1>3 DEF Init, Bounded

LEMMA ConnectBounded ==
  ASSUME Bounded, Connect  PROVE Bounded'
<1>1. /\ MaxConn \in Nat /\ TcpWorkers \in Nat
      /\ conn \in [waiting : Nat, served : Nat] /\ conn.waiting \in Nat /\ conn.served \in Nat
      /\ conn.waiting + conn.served <= MaxConn /\ conn.served <= TcpWorkers
  BY CollectorAssumption DEF Bounded
<1>2. \/ conn.waiting + conn.served < MaxConn /\ conn' = [waiting |-> conn.waiting + 1, served |-> conn.served]
      \/ /\ conn.waiting > 0 /\ conn.served < TcpWorkers
         /\ conn' = [waiting |-> conn.waiting - 1, served |-> conn.served + 1]
      \/ conn.served > 0 /\ conn' = [waiting |-> conn.waiting, served |-> conn.served - 1]
  BY <1>1 DEF Connect
<1>3. /\ conn' \in [waiting : Nat, served : Nat]
      /\ conn'.waiting + conn'.served <= MaxConn /\ conn'.served <= TcpWorkers
  BY <1>1, <1>2
<1>4. UNCHANGED <<timer, udp, tcp, queue>>  BY DEF Connect
<1> QED  BY <1>3, <1>4 DEF Bounded

LEMMA NextBounded ==
  ASSUME Bounded, [Next]_vars  PROVE Bounded'
<1>1. queue \in Seq(Line) /\ Len(queue) <= QueueSize /\ QueueSize \in Nat  BY CollectorAssumption DEF Bounded
<1>2. ASSUME NEW e \in Event, Ingest(e)  PROVE Bounded'
  <2>1. queue' = queue \/ (e \in Line /\ Len(queue) < QueueSize /\ queue' = Append(queue, e))
    BY <1>1, <1>2 DEF Ingest
  <2>2. queue' \in Seq(Line) /\ Len(queue') <= QueueSize  BY <1>1, <2>1
  <2> QED  BY <1>2, <2>2 DEF Ingest, control, Bounded
<1>3. CASE ConsumerGets \/ DrainLine
  <2>1. queue' = queue \/ (queue # <<>> /\ queue' = Tail(queue))  BY <1>3 DEF ConsumerGets, DrainLine
  <2>2. queue' \in Seq(Line) /\ Len(queue') <= QueueSize  BY <1>1, <2>1
  <2> QED  BY <1>3, <2>2 DEF ConsumerGets, DrainLine, control, Bounded
<1>4. CASE Connect  BY <1>4, ConnectBounded
<1>5. CASE Start \/ ShutServers \/ TimerFlushes
  <2>1. UNCHANGED <<queue, conn>>
    BY <1>5 DEF Start, StartUDP, StartTCP, StartRest, ShutServers, TimerFlushes, control, Rest
  <2>2. timer' \in {"off", "sleep", "ended"} /\ udp' \in {"off", "serving", "shut"}
        /\ tcp' \in {"off", "serving", "shut"}
    BY <1>5 DEF Bounded, Start, StartUDP, StartTCP, StartRest, ShutServers, TimerFlushes, control
  <2> QED  BY <2>1, <2>2 DEF Bounded
<1>6. CASE UNCHANGED <<timer, udp, tcp, conn, queue>>  BY <1>6 DEF Bounded
<1> QED
  BY <1>2, <1>3, <1>4, <1>5, <1>6
     DEF Next, vars, control, ReceiveUDP, ReceiveTCP, ReceiveNetflow, Consume, ConsumerParses,
         ConsumerBuffers, NetflowBuffers, NetflowEnds, Stop, Stopping, DrainEnds, FinalFlush, Exit, Rest, Tick

\* Queue and pool keep their limits and every variable its type, whatever arrives and
\* whichever thread is late.
THEOREM CollectorTypes == Spec => []TypeOK
<1>1. Init => Bounded  BY InitBounded
<1>2. Bounded /\ [Next]_vars => Bounded'  BY NextBounded
<1>3. Spec => []Bounded  BY <1>1, <1>2, PTL DEF Spec
<1>4. Bounded /\ IInv /\ BucketsAgree => TypeOK
  <2> SUFFICES ASSUME Bounded, IInv, BucketsAgree  PROVE TypeOK  OBVIOUS
  <2>1. /\ consumer.at \in Steps /\ consumer.event \in Event \cup {None}
        /\ netflow.at \in Steps /\ netflow.event \in Event \cup {None}
    BY DEF IInv, Types, Steps
  <2>2. tokens.all \in 0 .. MaxEps /\ tokens.of \in [Sender -> 0 .. PerIpMaxEps]  BY DEF BucketsAgree
  <2> QED  BY <2>1, <2>2 DEF TypeOK, Bounded, IInv, Types
<1> QED  BY <1>3, <1>4, CollectorInductive, BucketsInductive, PTL
=============================================================================
