---------------------------- MODULE Ingest_proofs ----------------------------
(* Theorems about Ingest, for any number of events, workers and receivers. *)
EXTENDS Ingest, SequenceTheorems, TLAPS

USE DEF vars, procVars, pubVars, subVars
-----------------------------------------------------------------------------
(***************************************************************************)
(* The inductive invariant.                                                *)
(***************************************************************************)
Positions == {"idle", "decode", "analyse", "save", "ack", "nack"}

Typed ==
    /\ main \in Phases /\ client \in BOOLEAN /\ exits \in Nat
    /\ where \in [Events -> Places]
    /\ queue \in Seq(Events)
    /\ holds \in [Workers -> Events \cup {NoEvent, Stopped}]
    /\ rpc \in [Receivers -> Positions]
    /\ msg \in [Receivers -> Events]
    /\ saved \subseteq Events

\* An event is in the channel once, or with one worker.
ChannelInv ==
    \A i, j \in DOMAIN queue : where[queue[i]] = "channel" /\ (queue[i] = queue[j] => i = j)
WorkerInv ==
    \A w \in Workers : holds[w] \in Events =>
        /\ where[holds[w]] = "worker"
        /\ \A v \in Workers : holds[v] = holds[w] => v = w

\* What is handled came from the topic; it is saved only if it names a token, and
\* acknowledged when it is saved or names none.
ReceiverInv ==
    \A r \in Receivers :
        /\ rpc[r] # "idle" => where[msg[r]] \in {"topic", "acked"}
        /\ rpc[r] \in {"analyse", "save"} => msg[r] \notin Unusable
        /\ rpc[r] = "ack" => msg[r] \in saved \cup Unusable
EventInv ==
    \A e \in Events :
        /\ e \in saved => where[e] \in {"topic", "acked"} /\ e \notin Unusable
        /\ where[e] = "acked" => e \in saved \cup Unusable

IInv == Typed /\ ChannelInv /\ WorkerInv /\ ReceiverInv /\ EventInv /\ StopAfterWorkers

\* The invariant's types imply TypeOK.
LEMMA IInvIsTypeOK == IInv => TypeOK
BY DEF IInv, Typed, Positions, ChannelInv, WorkerInv, TypeOK

\* The markers of an idle and a stopped worker are no events.
LEMMA Names == NoEvent \notin Events /\ Stopped \notin Events /\ NoEvent # Stopped
BY NameAssumption DEF NoEvent, Stopped

\* The invariant holds before anything has been offered.
LEMMA InitIInv == Init => IInv
<1> SUFFICES ASSUME Init PROVE IInv
  OBVIOUS
<1> USE DEF Init
<1>1. Typed
  BY EventAssumption DEF Typed, Phases, Places, Positions
<1>2. ChannelInv /\ WorkerInv
  BY Names DEF ChannelInv, WorkerInv
<1>3. ReceiverInv /\ EventInv /\ StopAfterWorkers
  BY DEF ReceiverInv, EventInv, StopAfterWorkers
<1> QED
  BY <1>1, <1>2, <1>3 DEF IInv
-----------------------------------------------------------------------------
(***************************************************************************)
(* The handler and the channel.                                            *)
(***************************************************************************)
\* Moving an event that is neither in the channel nor with a worker, nor in Pub/Sub,
\* to such a place disturbs nothing.
LEMMA QuietMove ==
    ASSUME IInv, NEW e \in Events, NEW place \in {"helius", "handler", "batch", "topic", "lost"},
           where[e] \notin {"channel", "worker", "topic", "acked"}, Moved(e, place),
           UNCHANGED <<procVars, pubVars, subVars, saved>>
    PROVE  IInv'
<1> USE DEF IInv, Typed, Moved
<1>1. Typed'
  BY DEF Places
<1>2. ChannelInv'
  BY DEF ChannelInv
<1>3. WorkerInv'
  BY DEF WorkerInv
<1>4. ReceiverInv' /\ EventInv' /\ StopAfterWorkers'
  BY DEF ReceiverInv, EventInv, StopAfterWorkers
<1> QED
  BY <1>1, <1>2, <1>3, <1>4

\* The event enters the channel as its last and only copy.
LEMMA EnqueueInv ==
    ASSUME IInv, NEW e \in Events, Enqueue(e)
    PROVE  IInv'
<1> USE DEF IInv, Typed, Moved, Enqueue
<1>1. /\ queue' \in Seq(Events) /\ Len(queue') = Len(queue) + 1 /\ Len(queue) \in Nat
      /\ \A i \in 1 .. Len(queue) : queue'[i] = queue[i]
      /\ queue'[Len(queue) + 1] = e
  BY AppendProperties, LenProperties
<1>2. \A i \in DOMAIN queue' : \/ i = Len(queue) + 1 /\ queue'[i] = e
                               \/ i \in DOMAIN queue /\ queue'[i] = queue[i]
  <2>1. DOMAIN queue = 1 .. Len(queue) /\ DOMAIN queue' = 1 .. Len(queue')
    BY <1>1, LenProperties
  <2> QED
    BY <1>1, <2>1
<1>3. Typed'
  BY <1>1 DEF Places
<1>4. ChannelInv'
  <2>1. \A i \in DOMAIN queue : queue[i] # e /\ where'[queue[i]] = "channel" /\ queue[i] \in Events
    BY DEF ChannelInv
  <2>2. where'[e] = "channel"
    OBVIOUS
  <2> QED
    BY <1>2, <2>1, <2>2 DEF ChannelInv
<1>5. WorkerInv'
  BY DEF WorkerInv
<1>6. ReceiverInv' /\ EventInv' /\ StopAfterWorkers'
  BY DEF ReceiverInv, EventInv, StopAfterWorkers
<1> QED
  BY <1>3, <1>4, <1>5, <1>6

\* A worker that returns holds nothing.
LEMMA StopWorkerInv ==
    ASSUME IInv, NEW w \in Workers, StopWorker(w)
    PROVE  IInv'
<1> USE DEF IInv, Typed, StopWorker
<1>1. Typed' /\ ChannelInv'
  BY DEF ChannelInv
<1>2. WorkerInv'
  BY Names DEF WorkerInv
<1>3. ReceiverInv' /\ EventInv' /\ StopAfterWorkers'
  BY DEF ReceiverInv, EventInv, StopAfterWorkers
<1> QED
  BY <1>1, <1>2, <1>3

\* The head of the channel goes to one worker and is in no other hands.
LEMMA DequeueInv ==
    ASSUME IInv, NEW w \in Workers, Dequeue(w)
    PROVE  IInv'
<1> USE DEF IInv, Typed, Moved, Dequeue
<1> DEFINE h == Head(queue)
<1>1. /\ queue' \in Seq(Events) /\ Len(queue') = Len(queue) - 1 /\ Len(queue) > 0
      /\ h = queue[1] /\ h \in Events
      /\ \A i \in 1 .. Len(queue') : queue'[i] = queue[i + 1]
  BY HeadTailProperties
<1>2. 1 \in DOMAIN queue /\ \A i \in DOMAIN queue' : i + 1 \in DOMAIN queue /\ i + 1 # 1 /\ i \in Nat
  BY <1>1
<1>3. where[h] = "channel" /\ where' = [where EXCEPT ![h] = "worker"]
  BY <1>1, <1>2 DEF ChannelInv
<1>4. Typed'
  BY <1>1 DEF Places
<1>5. ChannelInv'
  <2>1. \A i \in DOMAIN queue' : /\ queue'[i] # h /\ where'[queue'[i]] = "channel"
    BY <1>1, <1>2, <1>3 DEF ChannelInv
  <2>2. \A i, j \in DOMAIN queue' : queue'[i] = queue'[j] => i = j
    BY <1>1, <1>2 DEF ChannelInv
  <2> QED
    BY <2>1, <2>2 DEF ChannelInv
<1>6. WorkerInv'
  <2>1. \A v \in Workers : holds[v] # h
    BY <1>1, <1>3 DEF WorkerInv
  <2> HIDE DEF h
  <2>2. holds' = [holds EXCEPT ![w] = h]
    BY DEF h
  <2> QED
    BY <1>1, <1>3, <2>1, <2>2 DEF WorkerInv
<1>7. ReceiverInv' /\ EventInv'
  BY <1>1, <1>3 DEF ReceiverInv, EventInv
<1>8. StopAfterWorkers'
  BY Names DEF StopAfterWorkers
<1> QED
  BY <1>4, <1>5, <1>6, <1>7, <1>8

\* The worker gives its event to the batch, or loses it when cancelled.
LEMMA PublishInv ==
    ASSUME IInv, NEW w \in Workers, Publish(w)
    PROVE  IInv'
<1> USE DEF IInv, Typed, Moved, Publish
<1> DEFINE e == holds[w]
<1>1. e \in Events /\ where[e] = "worker"
  BY DEF WorkerInv
<1>2. PICK place \in {"batch", "lost"} : where' = [where EXCEPT ![e] = place]
  OBVIOUS
<1>3. Typed'
  BY <1>1, <1>2 DEF Places
<1>4. ChannelInv'
  BY <1>1, <1>2 DEF ChannelInv
<1>5. WorkerInv'
  BY <1>1, <1>2, Names DEF WorkerInv
<1>6. ReceiverInv' /\ EventInv'
  BY <1>1, <1>2 DEF ReceiverInv, EventInv
<1>7. StopAfterWorkers'
  BY Names DEF StopAfterWorkers
<1> QED
  BY <1>3, <1>4, <1>5, <1>6, <1>7
-----------------------------------------------------------------------------
(***************************************************************************)
(* The receivers.                                                          *)
(***************************************************************************)
\* Steps of a receiver that only take it to another position.
Turn(r) ==
    /\ UNCHANGED <<procVars, where, pubVars, msg, saved>>
    /\ \E l \in Positions :
          /\ rpc' = [rpc EXCEPT ![r] = l]
          /\ rpc[r] # "idle"
          /\ l \in {"analyse", "save"} => msg[r] \notin Unusable
          /\ l = "ack" => msg[r] \in saved \cup Unusable

\* A receiver that only moves on leaves every event where it is.
LEMMA TurnInv ==
    ASSUME IInv, NEW r \in Receivers, Turn(r)
    PROVE  IInv'
<1> USE DEF IInv, Typed, Turn
<1>1. Typed' /\ ChannelInv' /\ WorkerInv'
  BY DEF ChannelInv, WorkerInv
<1>2. ReceiverInv'
  BY DEF ReceiverInv
<1>3. EventInv' /\ StopAfterWorkers'
  BY DEF EventInv, StopAfterWorkers
<1> QED
  BY <1>1, <1>2, <1>3

\* Most of handleMessage only moves on.
LEMMA Turns ==
    ASSUME IInv, NEW r \in Receivers,
           Decode(r) \/ Analyse(r) \/ AnalyseFails(r) \/ SaveFails(r) \/ Nack(r)
    PROVE  Turn(r)
<1> USE DEF Turn, RGoto, Positions
<1>1. CASE Decode(r)
  BY <1>1 DEF Decode
<1>2. CASE Analyse(r)
  BY <1>2 DEF Analyse, IInv, ReceiverInv
<1>3. CASE AnalyseFails(r) \/ SaveFails(r) \/ Nack(r)
  BY <1>3 DEF AnalyseFails, SaveFails, Nack
<1> QED
  BY <1>1, <1>2, <1>3

\* A receiver gets what the topic has.
LEMMA DeliverInv ==
    ASSUME IInv, NEW r \in Receivers, NEW e \in Events, Deliver(r, e)
    PROVE  IInv'
<1> USE DEF IInv, Typed, Deliver, RGoto
<1>1. Typed' /\ ChannelInv' /\ WorkerInv'
  BY DEF Positions, ChannelInv, WorkerInv
<1>2. ReceiverInv'
  BY DEF ReceiverInv
<1>3. EventInv' /\ StopAfterWorkers'
  BY DEF EventInv, StopAfterWorkers
<1> QED
  BY <1>1, <1>2, <1>3

\* What is saved was delivered, so the topic has it or it is acknowledged.
LEMMA SaveInv ==
    ASSUME IInv, NEW r \in Receivers, Save(r)
    PROVE  IInv'
<1> USE DEF IInv, Typed, Save, RGoto
<1>1. Typed' /\ ChannelInv' /\ WorkerInv'
  BY DEF Positions, ChannelInv, WorkerInv
<1>2. ReceiverInv'
  BY DEF ReceiverInv
<1>3. EventInv' /\ StopAfterWorkers'
  BY DEF ReceiverInv, EventInv, StopAfterWorkers
<1> QED
  BY <1>1, <1>2, <1>3

\* What is acknowledged leaves the topic and stays saved or unusable.
LEMMA AckInv ==
    ASSUME IInv, NEW r \in Receivers, Ack(r)
    PROVE  IInv'
<1> USE DEF IInv, Typed, Ack, RGoto, Moved
<1>1. where[msg[r]] \in {"topic", "acked"} /\ msg[r] \in Events /\ msg[r] \in saved \cup Unusable
  BY DEF ReceiverInv
<1>2. Typed'
  BY <1>1 DEF Positions, Places
<1>3. ChannelInv'
  BY <1>1 DEF ChannelInv
<1>4. WorkerInv'
  BY <1>1 DEF WorkerInv
<1>5. ReceiverInv'
  BY <1>1 DEF ReceiverInv
<1>6. EventInv' /\ StopAfterWorkers'
  BY <1>1 DEF EventInv, StopAfterWorkers
<1> QED
  BY <1>2, <1>3, <1>4, <1>5, <1>6
-----------------------------------------------------------------------------
(***************************************************************************)
(* The process.                                                            *)
(***************************************************************************)
LEMMA PhaseInv ==
    ASSUME IInv, Signal \/ ShutdownCall \/ WaitWorkers \/ Restart
    PROVE  IInv'
<1> USE DEF IInv, Typed, NextPhase
<1>1. UNCHANGED <<where, pubVars, subVars, saved>>
  BY DEF Signal, ShutdownCall, WaitWorkers, Restart
<1>2. main' \in Phases /\ client' \in BOOLEAN /\ exits' \in Nat
  BY EventAssumption DEF Signal, ShutdownCall, WaitWorkers, Restart, Phases
<1>3. Typed' /\ ChannelInv' /\ WorkerInv' /\ ReceiverInv' /\ EventInv'
  BY <1>1, <1>2 DEF ChannelInv, WorkerInv, ReceiverInv, EventInv
<1>4. StopAfterWorkers'
  BY <1>1 DEF Signal, ShutdownCall, WaitWorkers, Restart, StopAfterWorkers
<1> QED
  BY <1>3, <1>4

\* The part of where that survives the process.
LEMMA Deaths ==
    ASSUME IInv, Die, NEW e \in Events
    PROVE  where'[e] = IF where[e] \in {"channel", "worker", "batch"} THEN "lost"
                       ELSE IF where[e] = "handler" THEN "helius" ELSE where[e]
BY DEF Die

\* When the process ends its memory is lost, and what is durable stays.
LEMMA DieInv ==
    ASSUME IInv, Die, exits' \in Nat
    PROVE  IInv'
<1> USE DEF IInv, Typed
<1>1. where' \in [Events -> Places]
  <2>1. DOMAIN where' = Events /\ where' = [e \in Events |-> where'[e]]
    BY DEF Die
  <2>2. \A e \in Events : where'[e] \in Places
    BY Deaths DEF Places
  <2> QED
    BY <2>1, <2>2
<1>2. Typed'
  BY <1>1 DEF Die, Phases, Positions
<1>3. ChannelInv'
  BY DEF Die, ChannelInv
<1>4. WorkerInv' /\ StopAfterWorkers'
  BY Names DEF Die, WorkerInv, StopAfterWorkers
<1>5. ReceiverInv'
  BY DEF Die, ReceiverInv
<1>6. EventInv'
  BY Deaths DEF Die, EventInv
<1> QED
  BY <1>2, <1>3, <1>4, <1>5, <1>6
-----------------------------------------------------------------------------
\* Every step preserves the invariant.
LEMMA NextIInv == IInv /\ [Next]_vars => IInv'
<1> SUFFICES ASSUME IInv, [Next]_vars PROVE IInv'
  OBVIOUS
<1>1. ASSUME NEW e \in Events, ReceiveWebhook(e) \/ Refuse(e) \/ SendBatch(e)
      PROVE  IInv'
  BY <1>1, QuietMove DEF ReceiveWebhook, Refuse, SendBatch
<1>2. ASSUME NEW e \in Events, Enqueue(e)
      PROVE  IInv'
  BY <1>2, EnqueueInv
<1>3. ASSUME NEW w \in Workers, WorkerStep(w)
      PROVE  IInv'
  BY <1>3, StopWorkerInv, DequeueInv, PublishInv DEF WorkerStep
<1>4. ASSUME NEW r \in Receivers, HandleMessage(r)
      PROVE  IInv'
  BY <1>4, Turns, TurnInv, SaveInv, AckInv DEF HandleMessage
<1>5. ASSUME NEW r \in Receivers, NEW e \in Events, Deliver(r, e)
      PROVE  IInv'
  BY <1>5, DeliverInv
<1>6. CASE Exit \/ Crash
  <2>1. Die /\ exits' \in Nat
    BY <1>6 DEF Exit, Crash, IInv, Typed
  <2> QED
    BY <2>1, DieInv
<1>7. CASE Signal \/ ShutdownCall \/ WaitWorkers \/ Restart
  BY <1>7, PhaseInv
<1>8. CASE UNCHANGED vars
  BY <1>8 DEF IInv, Typed, ChannelInv, WorkerInv, ReceiverInv, EventInv, StopAfterWorkers
<1> QED
  BY <1>1, <1>2, <1>3, <1>4, <1>5, <1>6, <1>7, <1>8 DEF Next, MainStep

\* The strengthened invariant holds of every behaviour, with or without fairness.
THEOREM Invariance == Safety => []IInv
<1>1. Init => IInv
  BY InitIInv
<1>2. IInv /\ [Next]_vars => IInv'
  BY NextIInv
<1> QED
  BY <1>1, <1>2, PTL DEF Safety

\* Types hold, and an event is in the channel once or with one worker, for any number of
\* handlers and workers and any capacity of PublishChan.
THEOREM TypeCorrect == Safety => []TypeOK
BY Invariance, IInvIsTypeOK, PTL

\* Publisher.Shutdown waits for every worker before it stops the topic.
THEOREM ShutdownSafe == Safety => []StopAfterWorkers
<1>1. IInv => StopAfterWorkers
  BY DEF IInv
<1> QED
  BY <1>1, Invariance, PTL
-----------------------------------------------------------------------------
(***************************************************************************)
(* What an orderly shutdown costs.                                         *)
(***************************************************************************)
\* The converse of WorkerInv: no event is left with a worker that let go of it.
HeldInv ==
    \A e \in Events : where[e] = "worker" => \E w \in Workers : holds[w] = e

\* Every step preserves it: only Dequeue gives an event to a worker, and only Publish or
\* the end of the process takes it back.
LEMMA HeldStep == IInv /\ HeldInv /\ [Next]_vars => HeldInv'
<1> SUFFICES ASSUME IInv, HeldInv, [Next]_vars PROVE HeldInv'
  OBVIOUS
<1> USE DEF IInv, Typed
<1>1. ASSUME UNCHANGED holds,
             \A e \in Events : where'[e] = "worker" => where[e] = "worker"
      PROVE  HeldInv'
  BY <1>1 DEF HeldInv
<1>2. ASSUME NEW e \in Events,
             ReceiveWebhook(e) \/ Refuse(e) \/ SendBatch(e) \/ Enqueue(e)
      PROVE  HeldInv'
  BY <1>1, <1>2 DEF ReceiveWebhook, Refuse, SendBatch, Enqueue, Moved
<1>3. ASSUME NEW w \in Workers, StopWorker(w)
      PROVE  HeldInv'
  BY <1>3, Names DEF StopWorker, HeldInv
<1>4. ASSUME NEW w \in Workers, Dequeue(w)
      PROVE  HeldInv'
  <2> DEFINE h == Head(queue)
  <2>1. h \in Events
    BY <1>4, HeadTailProperties DEF Dequeue
  <2>2. /\ holds' = [holds EXCEPT ![w] = h]
        /\ where' = [where EXCEPT ![h] = "worker"]
        /\ holds[w] = NoEvent
    BY <1>4 DEF Dequeue, Moved
  <2> HIDE DEF h
  <2> QED
    BY <2>1, <2>2, Names DEF HeldInv
<1>5. ASSUME NEW w \in Workers, Publish(w)
      PROVE  HeldInv'
  <2>1. PICK place \in {"batch", "lost"} : where' = [where EXCEPT ![holds[w]] = place]
    BY <1>5 DEF Publish, Moved
  <2> QED
    BY <1>5, <2>1 DEF Publish, HeldInv
<1>6. ASSUME NEW r \in Receivers, HandleMessage(r)
      PROVE  HeldInv'
  <2>1. UNCHANGED holds
    BY <1>6 DEF HandleMessage, Decode, Analyse, AnalyseFails, Save, SaveFails, Ack, Nack
  <2>2. where' = where \/ where' = [where EXCEPT ![msg[r]] = "acked"]
    BY <1>6 DEF HandleMessage, Decode, Analyse, AnalyseFails, Save, SaveFails, Ack, Nack, Moved
  <2> QED
    BY <1>1, <2>1, <2>2
<1>7. ASSUME NEW r \in Receivers, NEW e \in Events, Deliver(r, e)
      PROVE  HeldInv'
  BY <1>1, <1>7 DEF Deliver
<1>8. CASE Exit \/ Crash
  <2>1. Die
    BY <1>8 DEF Exit, Crash
  <2> QED
    BY <2>1, Deaths DEF HeldInv
<1>9. CASE Signal \/ ShutdownCall \/ WaitWorkers \/ Restart \/ UNCHANGED vars
  BY <1>1, <1>9 DEF Signal, ShutdownCall, WaitWorkers, Restart
<1> QED
  BY <1>2, <1>3, <1>4, <1>5, <1>6, <1>7, <1>8, <1>9 DEF Next, MainStep, WorkerStep

\* A shutdown that comes to its end loses only what no worker had taken from the channel:
\* what a worker held and what the client library batched is with Pub/Sub (or the library
\* already failed to send it), and an event whose handler is cut off is offered again.
\* The order of the calls in Publisher.Shutdown is what it rests on: cancel, wg.Wait,
\* topicPub.Stop.
CleanExit == Exit => \A e \in Events :
    /\ where'[e] = "lost" => where[e] \in {"lost", "channel"}
    /\ where[e] = "handler" => where'[e] = "helius"

THEOREM CleanExitSafe == Safety => [][CleanExit]_vars
<1>1. Init => HeldInv
  BY DEF Init, HeldInv
<1>2. IInv /\ HeldInv => CleanExit
  <2> SUFFICES ASSUME IInv, HeldInv, Exit, NEW e \in Events
               PROVE  /\ where'[e] = "lost" => where[e] \in {"lost", "channel"}
                      /\ where[e] = "handler" => where'[e] = "helius"
    BY DEF CleanExit
  <2>1. where[e] \notin {"batch", "worker"}
    BY Names DEF Exit, IInv, StopAfterWorkers, HeldInv
  <2>2. Die
    BY DEF Exit
  <2> QED
    BY <2>1, <2>2, Deaths DEF IInv, Typed, Places
<1>3. IInv /\ HeldInv => [CleanExit]_vars
  BY <1>2
<1> QED
  BY <1>1, <1>3, HeldStep, Invariance, PTL DEF Safety
-----------------------------------------------------------------------------
(***************************************************************************)
(* The refinement of Delivery.                                             *)
(***************************************************************************)
\* The value of status for an event that is not saved.
StatusOf(place) ==
    IF place \in {"helius", "handler"} THEN "offered"
    ELSE IF place \in {"channel", "worker", "batch"} THEN "accepted"
    ELSE IF place = "topic" THEN "durable"
    ELSE IF place = "acked" THEN "discarded" ELSE "lost"

Status(e) == IF e \in saved THEN "analysed" ELSE StatusOf(where[e])

\* The refinement mapping, event by event.
LEMMA StatusIs == Typed => status = [e \in Events |-> Status(e)]
BY Zenon DEF Typed, status, Status, StatusOf, Places

\* The same after a step.
LEMMA StatusNext == Typed' => status' = [e \in Events |-> Status(e)']
BY Zenon DEF Typed, status, Status, StatusOf, Places

\* A change of one event's status is a Move, of none a stutter, to "lost" a Lose.
LEMMA OneMoves ==
    ASSUME Typed, Typed', NEW e \in Events, NEW from, NEW to, Status(e) = from, Status(e)' = to,
           \A d \in Events \ {e} : Status(d)' = Status(d)
    PROVE  D!Move(e, from, to)
<1>1. status = [d \in Events |-> Status(d)] /\ status' = [d \in Events |-> Status(d)']
  BY StatusIs, StatusNext
<1> QED
  BY <1>1 DEF D!Move

\* A step that changes no status is a stutter.
LEMMA NoneMoves ==
    ASSUME Typed, Typed', \A d \in Events : Status(d)' = Status(d)
    PROVE  status' = status
<1>1. status = [d \in Events |-> Status(d)] /\ status' = [d \in Events |-> Status(d)']
  BY StatusIs, StatusNext
<1> QED
  BY <1>1

\* Several accepted events lost at once are the loss Delivery allows.
LEMMA SomeLost ==
    ASSUME Typed, Typed', NEW S \in SUBSET Events, \A e \in S : Status(e) = "accepted",
           \A d \in Events : Status(d)' = IF d \in S THEN "lost" ELSE Status(d)
    PROVE  D!Next
<1>1. status = [d \in Events |-> Status(d)] /\ status' = [d \in Events |-> Status(d)']
  BY StatusIs, StatusNext
<1>2. D!Lose(S)
  BY <1>1 DEF D!Lose
<1> QED
  BY <1>2 DEF D!Next

\* At first every event is offered.
LEMMA InitRefines == Init => D!Init
<1> SUFFICES ASSUME Init PROVE D!Init
  OBVIOUS
<1>1. Typed
  BY InitIInv DEF IInv
<1>2. \A e \in Events : Status(e) = "offered"
  BY DEF Init, Status, StatusOf
<1> QED
  BY <1>1, <1>2, StatusIs DEF D!Init

Refines == D!Next \/ status' = status

\* A step that moves one event that is not saved from one place to another.
LEMMA MoveStatus ==
    ASSUME IInv, IInv', NEW e \in Events, NEW place \in Places, Moved(e, place), saved' = saved
    PROVE  /\ \A d \in Events \ {e} : Status(d)' = Status(d)
           /\ e \notin saved => Status(e) = StatusOf(where[e]) /\ Status(e)' = StatusOf(place)
           /\ e \in saved => Status(e)' = Status(e)
BY DEF IInv, Typed, Moved, Status

\* Every move of an unsaved event along the pipeline is a move of Delivery or a stutter.
LEMMA MoveRefines ==
    ASSUME IInv, IInv', NEW e \in Events, NEW place \in Places, Moved(e, place), saved' = saved,
           \/ where[e] = "helius" /\ place = "handler"
           \/ where[e] = "handler" /\ place \in {"helius", "channel"}
           \/ where[e] = "channel" /\ place = "worker"
           \/ where[e] = "worker" /\ place \in {"batch", "lost"}
           \/ where[e] = "batch" /\ place \in {"topic", "lost"}
    PROVE  Refines
<1> USE DEF Refines
<1>1. Typed /\ Typed' /\ e \notin saved
  BY DEF IInv, EventInv
<1>2. /\ Status(e) = StatusOf(where[e]) /\ Status(e)' = StatusOf(place)
      /\ \A d \in Events \ {e} : Status(d)' = Status(d)
  BY <1>1, MoveStatus
<1>3. CASE StatusOf(where[e]) = StatusOf(place)
  <2>1. \A d \in Events : Status(d)' = Status(d)
    BY <1>2, <1>3
  <2> QED
    BY <1>1, <2>1, NoneMoves
<1>4. CASE where[e] = "handler" /\ place = "channel"
  <2>1. Status(e) = "offered" /\ Status(e)' = "accepted"
    BY <1>2, <1>4 DEF StatusOf
  <2>2. D!Accept(e)
    BY <1>1, <1>2, <2>1, OneMoves DEF D!Accept
  <2> QED
    BY <2>2 DEF D!Next
<1>5. CASE where[e] = "batch" /\ place = "topic"
  <2>1. Status(e) = "accepted" /\ Status(e)' = "durable"
    BY <1>2, <1>5 DEF StatusOf
  <2>2. D!Persist(e)
    BY <1>1, <1>2, <2>1, OneMoves DEF D!Persist
  <2> QED
    BY <2>2 DEF D!Next
<1>6. CASE where[e] \in {"worker", "batch"} /\ place = "lost"
  <2>1. Status(e) = "accepted" /\ Status(e)' = "lost"
    BY <1>2, <1>6 DEF StatusOf
  <2>2. \A d \in Events : Status(d)' = IF d \in {e} THEN "lost" ELSE Status(d)
    BY <1>2, <2>1
  <2> QED
    BY <1>1, <2>1, <2>2, SomeLost
<1> QED
  BY <1>3, <1>4, <1>5, <1>6 DEF StatusOf

\* A step that neither moves nor saves an event is a stutter.
LEMMA QuietRefines ==
    ASSUME IInv, IInv', UNCHANGED <<where, saved>>
    PROVE  Refines
<1>1. Typed /\ Typed' /\ \A d \in Events : Status(d)' = Status(d)
  BY DEF IInv, Status
<1> QED
  BY <1>1, NoneMoves DEF Refines

\* Saving analyses a durable event, unless another delivery was saved before.
LEMMA SaveRefines ==
    ASSUME IInv, IInv', NEW r \in Receivers, Save(r)
    PROVE  Refines
<1> USE DEF Refines
<1>1. PICK e \in Events :
      /\ Typed /\ Typed' /\ e \notin Unusable
      /\ where' = where /\ saved' = saved \cup {e} /\ where[e] \in {"topic", "acked"}
  BY DEF IInv, Typed, ReceiverInv, Save
<1>2. \A d \in Events \ {e} : Status(d)' = Status(d)
  BY <1>1 DEF Status
<1>3. CASE e \in saved
  BY <1>1, <1>3, QuietRefines
<1>4. CASE e \notin saved
  <2>1. where[e] = "topic"
    BY <1>1, <1>4 DEF IInv, EventInv
  <2>2. Status(e) = "durable" /\ Status(e)' = "analysed"
    BY <1>1, <1>4, <2>1 DEF Status, StatusOf
  <2>3. D!Analyse(e)
    BY <1>1, <1>2, <2>2, OneMoves DEF D!Analyse
  <2> QED
    BY <1>1, <2>3 DEF D!Next
<1> QED
  BY <1>3, <1>4

\* Acknowledging discards an unusable event, and changes nothing about a saved one.
LEMMA AckRefines ==
    ASSUME IInv, IInv', NEW r \in Receivers, Ack(r)
    PROVE  Refines
<1> USE DEF Refines
<1>1. PICK e \in Events :
      /\ Typed /\ Typed' /\ e \in saved \cup Unusable
      /\ where[e] \in {"topic", "acked"} /\ saved' = saved
      /\ Moved(e, "acked") \/ where' = where
  BY DEF IInv, Typed, ReceiverInv, Ack
<1>2. CASE where' = where
  BY <1>1, <1>2, QuietRefines
<1>3. CASE Moved(e, "acked")
  <2>1. /\ \A d \in Events \ {e} : Status(d)' = Status(d)
        /\ e \notin saved => Status(e) = StatusOf(where[e]) /\ Status(e)' = StatusOf("acked")
        /\ e \in saved => Status(e)' = Status(e)
    BY <1>1, <1>3, MoveStatus DEF Places
  <2>2. CASE e \in saved \/ where[e] = "acked"
    <3>1. \A d \in Events : Status(d)' = Status(d)
      BY <2>1, <2>2
    <3> QED
      BY <1>1, <3>1, NoneMoves
  <2>3. CASE e \notin saved /\ where[e] = "topic"
    <3>1. Status(e) = "durable" /\ Status(e)' = "discarded" /\ e \in Unusable
      BY <1>1, <2>1, <2>3 DEF StatusOf
    <3>2. D!Discard(e)
      BY <1>1, <2>1, <3>1, OneMoves DEF D!Discard
    <3> QED
      BY <1>1, <3>2 DEF D!Next
  <2> QED
    BY <1>1, <2>2, <2>3
<1> QED
  BY <1>1, <1>2, <1>3

\* A process that ends loses the events it held in memory.
LEMMA DieRefines ==
    ASSUME IInv, IInv', Die
    PROVE  Refines
<1> DEFINE S == {e \in Events : where[e] \in {"channel", "worker", "batch"}}
<1>1. Typed /\ Typed' /\ saved' = saved
  BY DEF IInv, Die
<1>2. \A e \in S : e \notin saved
  BY DEF IInv, EventInv
<1>3. \A e \in S : Status(e) = "accepted" /\ Status(e)' = "lost"
  BY <1>1, <1>2, Deaths DEF Status, StatusOf
<1>4. \A e \in Events \ S : Status(e)' = Status(e)
  BY <1>1, Deaths DEF Status, StatusOf
<1> HIDE DEF S
<1>5. S \in SUBSET Events
  BY DEF S
<1>6. \A d \in Events : Status(d)' = IF d \in S THEN "lost" ELSE Status(d)
  BY <1>3, <1>4
<1> QED
  BY <1>1, <1>3, <1>5, <1>6, SomeLost DEF Refines

\* Every step of the pipeline is one of Delivery or a stutter.
LEMMA NextRefines == IInv /\ IInv' /\ [Next]_vars => Refines
<1> SUFFICES ASSUME IInv, IInv', [Next]_vars PROVE Refines
  OBVIOUS
<1>1. ASSUME NEW e \in Events, ReceiveWebhook(e) \/ Refuse(e) \/ Enqueue(e) \/ SendBatch(e)
      PROVE  Refines
  BY <1>1, MoveRefines DEF ReceiveWebhook, Refuse, Enqueue, SendBatch, Places
<1>2. ASSUME NEW w \in Workers, Dequeue(w)
      PROVE  Refines
  <2>1. Head(queue) \in Events /\ where[Head(queue)] = "channel"
    <3>1. queue \in Seq(Events) /\ queue # <<>>
      BY <1>2 DEF IInv, Typed, Dequeue
    <3>2. Head(queue) \in Events /\ Head(queue) = queue[1] /\ 1 \in DOMAIN queue
      BY <3>1, HeadTailProperties, LenProperties, EmptySeq
    <3> QED
      BY <3>2 DEF IInv, ChannelInv
  <2>2. Moved(Head(queue), "worker") /\ saved' = saved
    BY <1>2 DEF Dequeue
  <2> QED
    BY <2>1, <2>2, MoveRefines DEF Places
<1>3. ASSUME NEW w \in Workers, Publish(w)
      PROVE  Refines
  <2>1. holds[w] \in Events /\ where[holds[w]] = "worker" /\ saved' = saved
    BY <1>3 DEF Publish, IInv, WorkerInv
  <2>2. Moved(holds[w], "batch") \/ Moved(holds[w], "lost")
    BY <1>3 DEF Publish
  <2> QED
    BY <2>1, <2>2, MoveRefines DEF Places
<1>4. ASSUME NEW w \in Workers, StopWorker(w)
      PROVE  Refines
  BY <1>4, QuietRefines DEF StopWorker
<1>5. ASSUME NEW r \in Receivers, HandleMessage(r)
      PROVE  Refines
  <2>1. CASE Turn(r)
    BY <2>1, QuietRefines DEF Turn
  <2> QED
    BY <1>5, <2>1, Turns, SaveRefines, AckRefines DEF HandleMessage
<1>6. ASSUME NEW r \in Receivers, NEW e \in Events, Deliver(r, e)
      PROVE  Refines
  BY <1>6, QuietRefines DEF Deliver
<1>7. CASE Exit \/ Crash
  BY <1>7, DieRefines DEF Exit, Crash
<1>8. CASE Signal \/ ShutdownCall \/ WaitWorkers \/ Restart
  BY <1>8, QuietRefines DEF Signal, ShutdownCall, WaitWorkers, Restart
<1>9. CASE UNCHANGED vars
  BY <1>9, QuietRefines
<1> QED
  BY <1>1, <1>2, <1>3, <1>4, <1>5, <1>6, <1>7, <1>8, <1>9 DEF Next, WorkerStep, MainStep

\* The pipeline implements Delivery: what Pub/Sub has is analysed or, if it names no
\* token, discarded, and leaves in no other way, whatever fails, however often a message
\* is delivered and whenever the process ends.
THEOREM DeliveryRefined == Safety => ImplementsDelivery
<1>1. Init => D!Init
  BY InitRefines
<1>2. IInv /\ IInv' /\ [Next]_vars => [D!Next]_status
  BY NextRefines DEF Refines
<1> QED
  BY <1>1, <1>2, Invariance, PTL DEF Safety, ImplementsDelivery, D!Spec
=============================================================================
