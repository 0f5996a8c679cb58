------------------------------- MODULE Ingest -------------------------------
(***************************************************************************)
(* The reactive pipeline: HeliusWebhookHandler (internal/ingestor/         *)
(* handler.go) hands a payload to the Publisher's channel, its workers     *)
(* (publisher.go) hand it to the Pub/Sub client, and Subscriber.           *)
(* handleMessage (internal/processor/subscriber.go) analyses it with the   *)
(* brain and saves the verdict; and the process around it: RunMain and     *)
(* Shutdown of internal/app/app.go, crashes and restarts.                  *)
(*                                                                         *)
(* Abstractions.  An event is its identity; Enrich, which only fills in    *)
(* the payload and whose error is dropped, is part of the call of the      *)
(* brain.  The Pub/Sub service and its client library are external: they   *)
(* batch, deliver at least once, in any order and also twice at once, and  *)
(* may lose an acknowledgement.  Helius sends an event again when it was   *)
(* not answered 200.                                                       *)
(***************************************************************************)
EXTENDS Naturals, Sequences

CONSTANTS
    Events,     \* webhook payloads
    Unusable,   \* those that do not decode, or name no mint
    Workers,    \* the Publisher's goroutines
    Receivers,  \* goroutines inside handleMessage
    Capacity,   \* of PublishChan
    Faults,     \* TRUE: Pub/Sub, the brain and Postgres may fail
    Clients,    \* SUBSET BOOLEAN: may the Pub/Sub client be created at start-up?
    MaxExits    \* bound on shutdowns and crashes

ASSUME CapacityAssumption == Capacity \in Nat \ {0} /\ MaxExits \in Nat
ASSUME EventAssumption == Unusable \subseteq Events /\ Clients \subseteq BOOLEAN
ASSUME FaultAssumption == Faults \in BOOLEAN
ASSUME NameAssumption == {"none", "stopped"} \cap Events = {}

VARIABLES
    main,       \* RunMain: "running", the call Shutdown makes next, or "down"
    client,     \* TRUE iff this process has a topic and a subscription
    where,      \* where[e]: who holds event e
    queue,      \* PublishChan
    holds,      \* holds[w]: the event worker w publishes, "none" or "stopped"
    rpc,        \* rpc[r]: receiver r's position
    msg,        \* msg[r]: the event it handles
    saved,      \* events whose analysis is committed in Postgres
    exits       \* shutdowns and crashes so far

procVars == <<main, client, exits>>
pubVars  == <<queue, holds>>
subVars  == <<rpc, msg>>
vars == <<procVars, where, pubVars, subVars, saved>>

NoEvent == "none"
Stopped == "stopped"
Places == {"helius", "handler", "channel", "worker", "batch", "topic", "acked", "lost"}
\* Shutdown's calls, in order.
Phases == {"running", "server", "sub", "brain", "db", "cancel", "wait", "stop", "down"}

Init ==
    /\ main = "running"
    /\ client \in Clients
    /\ where = [e \in Events |-> "helius"]
    /\ queue = <<>>
    /\ holds = [w \in Workers |-> NoEvent]
    /\ rpc = [r \in Receivers |-> "idle"]
    /\ msg \in [Receivers -> Events]
    /\ saved = {}
    /\ exits = 0

Moved(e, place) == where' = [where EXCEPT ![e] = place]
-----------------------------------------------------------------------------
\* The server takes new requests until Server.Shutdown; then it only waits, for ten
\* seconds, for the handlers it has.
ReceiveWebhook(e) ==
    /\ main = "running" /\ where[e] = "helius"
    /\ Moved(e, "handler")
    /\ UNCHANGED <<procVars, pubVars, subVars, saved>>

\* The select of HeliusWebhookHandler: handed off (200), or the channel is full (429).
Enqueue(e) ==
    /\ where[e] = "handler" /\ Len(queue) < Capacity
    /\ queue' = Append(queue, e)
    /\ Moved(e, "channel")
    /\ UNCHANGED <<procVars, holds, subVars, saved>>

Refuse(e) ==
    /\ where[e] = "handler" /\ Len(queue) >= Capacity
    /\ Moved(e, "helius")
    /\ UNCHANGED <<procVars, pubVars, subVars, saved>>
-----------------------------------------------------------------------------
Cancelled == main \in {"wait", "stop", "down"}

\* Mutant: the worker returns without wg.Done.
StopWorkerNotDone(w) ==
    /\ Cancelled /\ holds[w] = NoEvent /\ main # "down"
    /\ UNCHANGED vars

\* worker's select: whichever case is ready, either when both are.
StopWorker(w) ==
    /\ Cancelled /\ holds[w] = NoEvent /\ main # "down"
    /\ holds' = [holds EXCEPT ![w] = Stopped]
    /\ UNCHANGED <<procVars, where, queue, subVars, saved>>

\* Mutant: the message is read but left in the channel.
DequeuePeek(w) ==
    /\ main # "down" /\ holds[w] = NoEvent /\ queue # <<>>
    /\ holds' = [holds EXCEPT ![w] = Head(queue)]
    /\ Moved(Head(queue), "worker")
    /\ UNCHANGED <<procVars, queue, subVars, saved>>

Dequeue(w) ==
    /\ main # "down" /\ holds[w] = NoEvent /\ queue # <<>>
    /\ holds' = [holds EXCEPT ![w] = Head(queue)]
    /\ queue' = Tail(queue)
    /\ Moved(Head(queue), "worker")
    /\ UNCHANGED <<procVars, subVars, saved>>

\* Publish is asynchronous: the client library has the message from here on.  Without a
\* topic the message is dropped.
Publish(w) ==
    /\ holds[w] \in Events
    /\ Moved(holds[w], IF client THEN "batch" ELSE "lost")
    /\ holds' = [holds EXCEPT ![w] = NoEvent]
    /\ UNCHANGED <<procVars, queue, subVars, saved>>

WorkerStep(w) == StopWorker(w) \/ Dequeue(w) \/ Publish(w)

\* The library (external) sends the batch.  If that fails the goroutine waiting for the
\* result logs it, and the message is gone.
SendBatch(e) ==
    /\ where[e] = "batch"
    /\ Moved(e, "topic") \/ (Faults /\ Moved(e, "lost"))
    /\ UNCHANGED <<procVars, pubVars, subVars, saved>>
-----------------------------------------------------------------------------
RGoto(r, l) == rpc' = [rpc EXCEPT ![r] = l]

\* Pub/Sub (external) delivers what is not acknowledged until Sub.Shutdown cancels.
Deliver(r, e) ==
    /\ client /\ main \in {"running", "server", "sub"}
    /\ rpc[r] = "idle" /\ where[e] = "topic"
    /\ RGoto(r, "decode")
    /\ msg' = [msg EXCEPT ![r] = e]
    /\ UNCHANGED <<procVars, where, pubVars, saved>>

\* Bad JSON or no mint: acknowledged, to clear the queue.
Decode(r) ==
    /\ rpc[r] = "decode"
    /\ RGoto(r, IF msg[r] \in Unusable THEN "ack" ELSE "analyse")
    /\ UNCHANGED <<procVars, where, pubVars, msg, saved>>

\* Enrich and AnalyzeToken.  The call may fail once its context is cancelled and must
\* once the connection is closed.
Analyse(r) ==
    /\ rpc[r] = "analyse" /\ main \notin {"db", "cancel", "wait", "stop"}
    /\ RGoto(r, "save")
    /\ UNCHANGED <<procVars, where, pubVars, msg, saved>>

\* Mutant: an analysis that fails is acknowledged, as a message that does not decode.
AnalyseFailsAcked(r) ==
    /\ Faults \/ main \notin {"running", "server", "sub"}
    /\ rpc[r] = "analyse"
    /\ RGoto(r, "ack")
    /\ UNCHANGED <<procVars, where, pubVars, msg, saved>>

AnalyseFails(r) ==
    /\ Faults \/ main \notin {"running", "server", "sub"}
    /\ rpc[r] = "analyse"
    /\ RGoto(r, "nack")
    /\ UNCHANGED <<procVars, where, pubVars, msg, saved>>

\* Mutant: tx.Commit is forgotten, the deferred Rollback undoes the transaction.
SaveRolledBack(r) ==
    /\ rpc[r] = "save" /\ main \notin {"cancel", "wait", "stop"}
    /\ RGoto(r, "ack")
    /\ UNCHANGED <<procVars, where, pubVars, msg, saved>>

\* SaveAnalysis: wallet and analysis in one transaction.  It may commit and report an
\* error all the same.
Save(r) ==
    /\ rpc[r] = "save" /\ main \notin {"cancel", "wait", "stop"}
    /\ saved' = saved \cup {msg[r]}
    /\ RGoto(r, "ack") \/ (Faults /\ RGoto(r, "nack"))
    /\ UNCHANGED <<procVars, where, pubVars, msg>>

SaveFails(r) ==
    /\ rpc[r] = "save"
    /\ Faults \/ main \notin {"running", "server", "sub"}
    /\ RGoto(r, "nack")
    /\ UNCHANGED <<procVars, where, pubVars, msg, saved>>

\* The acknowledgement may get lost: the message is delivered again.
Ack(r) ==
    /\ rpc[r] = "ack"
    /\ RGoto(r, "idle")
    /\ \/ Moved(msg[r], "acked")
       \/ (Faults \/ main \notin {"running", "server", "sub"}) /\ UNCHANGED where
    /\ UNCHANGED <<procVars, pubVars, msg, saved>>

Nack(r) ==
    /\ rpc[r] = "nack"
    /\ RGoto(r, "idle")
    /\ UNCHANGED <<procVars, where, pubVars, msg, saved>>

HandleMessage(r) ==
    \/ Decode(r) \/ Analyse(r) \/ AnalyseFails(r) \/ Save(r) \/ SaveFails(r)
    \/ Ack(r) \/ Nack(r)
-----------------------------------------------------------------------------
\* Shutdown, one call after the other.  Server.Shutdown returns when the handlers are
\* done or the ten seconds are over, so it may return at any time.
NextPhase == [server |-> "sub", sub |-> "brain", brain |-> "db", db |-> "cancel",
              cancel |-> "wait"]

Signal ==
    /\ main = "running" /\ exits < MaxExits
    /\ main' = "server"
    /\ exits' = exits + 1
    /\ UNCHANGED <<client, where, pubVars, subVars, saved>>

ShutdownCall ==
    /\ main \in DOMAIN NextPhase
    /\ main' = NextPhase[main]
    /\ UNCHANGED <<client, exits, where, pubVars, subVars, saved>>

\* wg.Wait
WaitWorkers ==
    /\ main = "wait" /\ \A w \in Workers : holds[w] = Stopped
    /\ main' = "stop"
    /\ UNCHANGED <<client, exits, where, pubVars, subVars, saved>>

\* The process ends: what only memory held is lost, a webhook in its handler is not
\* answered.
Die ==
    /\ main' = "down"
    /\ where' = [e \in Events |->
                    CASE where[e] \in {"channel", "worker", "batch"} -> "lost"
                      [] where[e] = "handler"                        -> "helius"
                      [] OTHER                                       -> where[e]]
    /\ queue' = <<>>
    /\ holds' = [w \in Workers |-> NoEvent]
    /\ rpc' = [r \in Receivers |-> "idle"]
    /\ UNCHANGED <<client, msg, saved>>

\* topicPub.Stop returns when the batches are sent, then main returns.
Exit ==
    /\ main = "stop" /\ \A e \in Events : where[e] # "batch"
    /\ Die
    /\ UNCHANGED exits

Crash ==
    /\ main # "down" /\ exits < MaxExits
    /\ exits' = exits + 1
    /\ Die

Restart ==
    /\ main = "down"
    /\ main' = "running"
    /\ client' \in Clients
    /\ UNCHANGED <<exits, where, pubVars, subVars, saved>>

MainStep == ShutdownCall \/ WaitWorkers \/ Exit \/ Restart

Next ==
    \/ \E e \in Events : ReceiveWebhook(e) \/ Enqueue(e) \/ Refuse(e) \/ SendBatch(e)
    \/ \E w \in Workers : WorkerStep(w)
    \/ \E r \in Receivers : HandleMessage(r)
    \/ \E r \in Receivers, e \in Events : Deliver(r, e)
    \/ Signal \/ Crash \/ MainStep

\* The Go scheduler runs every goroutine, the supervisor restarts the process, and
\* Pub/Sub keeps delivering every message; brain and database do not fail for ever on one.
Fairness ==
    /\ WF_vars(\E e \in Events : SendBatch(e))
    /\ \A w \in Workers : WF_vars(WorkerStep(w))
    /\ \A r \in Receivers : WF_vars(HandleMessage(r))
    /\ \A e \in Events \ Unusable :
          /\ SF_vars(\E r \in Receivers : Deliver(r, e))
          /\ SF_vars(\E r \in Receivers : msg[r] = e /\ Analyse(r))
          /\ SF_vars(\E r \in Receivers : msg[r] = e /\ Save(r))
    /\ WF_vars(MainStep)

Safety == Init /\ [][Next]_vars
Spec == Safety /\ Fairness
-----------------------------------------------------------------------------
(***************************************************************************)
(* Properties                                                              *)
(***************************************************************************)
\* Types, and the hand-over: an event is in the channel once, or with one worker.
TypeOK ==
    /\ main \in Phases /\ client \in BOOLEAN /\ exits \in Nat
    /\ where \in [Events -> Places]
    /\ queue \in Seq(Events)
    /\ holds \in [Workers -> Events \cup {NoEvent, Stopped}]
    /\ rpc \in [Receivers -> {"idle", "decode", "analyse", "save", "ack", "nack"}]
    /\ msg \in [Receivers -> Events]
    /\ saved \subseteq Events
    /\ \A i, j \in DOMAIN queue : where[queue[i]] = "channel" /\ (queue[i] = queue[j] => i = j)
    /\ \A w \in Workers : holds[w] \in Events => where[holds[w]] = "worker"

\* Publisher.Shutdown leaves nothing in the hands of a worker: when the topic is being
\* stopped every message taken from the channel has been handed to it.
StopAfterWorkers ==
    main = "stop" => \A w \in Workers : holds[w] = Stopped

\* An event in Pub/Sub is never lost, acknowledged without being saved or saved without
\* being accepted: the pipeline implements Delivery, through crashes, lost
\* acknowledgements, double deliveries and a shutdown that closes the brain and the
\* database under the handlers.
status ==
    [e \in Events |->
        IF e \in saved THEN "analysed"
        ELSE CASE where[e] \in {"helius", "handler"}             -> "offered"
               [] where[e] \in {"channel", "worker", "batch"}    -> "accepted"
               [] where[e] = "topic"                             -> "durable"
               [] where[e] = "acked"                             -> "discarded"
               [] where[e] = "lost"                              -> "lost"]
D == INSTANCE Delivery WITH
    Events <- Events, Unusable <- Unusable, status <- status
ImplementsDelivery == D!Spec

\* Whatever reached Pub/Sub is analysed in the end, if it names a token: failed
\* analyses and saves are nacked and come again, in this process or the next.
EventuallyAnalysed ==
    \A e \in Events \ Unusable : where[e] = "topic" ~> e \in saved \/ ~client

\* A shutdown ends: the workers stop although the channel may not be empty, and the
\* process goes down.
ShutdownEnds == main = "server" ~> main = "down"
=============================================================================
