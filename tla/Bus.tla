---------------------------------- MODULE Bus ----------------------------------
(***************************************************************************)
(* The bus (runtime/bus.rs): the builder and its start, the workers it     *)
(* runs, and the ways they end: shutdown, on any clone, and the last clone *)
(* dropping. What a worker does with a delivery, an outbox batch or the    *)
(* partitions is Endpoint's, Outbox's and Partitions'.                     *)
(***************************************************************************)
EXTENDS Naturals, Sequences, SequencesExt, FiniteSets

CONSTANTS
  Names,        \* names of endpoints
  MaxEndpoints, \* bound: endpoint() calls on the builder
  MaxWorkers,   \* bound: the workers of a bus
  Clones        \* the clones of the bus there may be

ASSUME BuilderAssumption == MaxEndpoints \in Nat /\ MaxWorkers \in Nat

VARIABLES
  stage,      \* "building", "subscribing", "running", or "refused"
  endpoints,  \* the builder's, in order
  outbox,     \* whether it has an outbox
  partitions, \* whether it keeps partitions
  subscribed, \* how many endpoints have subscribed
  worker,     \* what each worker does; none before the bus runs
  handles,    \* the workers shutdown has yet to wait for, in order
  stop,       \* whether the workers' signal was sent, or closed
  alive,      \* the clones that live
  call,       \* what each clone's shutdown call does
  mutex       \* the clone whose call holds the handles

builderVars == <<endpoints, outbox, partitions>>
startVars == <<stage, builderVars, subscribed>>
runVars == <<handles, stop, alive, call, mutex>>
vars == <<startVars, worker, runVars>>

Places == 1..MaxEndpoints
Workers == {<<"endpoint", i>> : i \in Places} \cup {<<"maintenance", 0>>, <<"dispatcher", 0>>}
Nobody == "nobody"

ASSUME ClonesAssumption == Nobody \notin Clones

\* A call of shutdown that is under way.
Calling == {"queued", "waiting"}

Init ==
  /\ stage = "building"
  /\ endpoints = <<>>
  /\ outbox = FALSE
  /\ partitions = FALSE
  /\ subscribed = 0
  /\ worker = [w \in Workers |-> "none"]
  /\ handles = <<>>
  /\ stop = FALSE
  /\ alive = {}
  /\ call = [c \in Clones |-> "none"]
  /\ mutex = Nobody

-------------------------------------------------------------------------------
(* The builder *)

One(flag) == IF flag THEN 1 ELSE 0

\* The builder may take one thing more.
MayAdd == stage = "building" /\ Len(endpoints) + One(outbox) + One(partitions) < MaxWorkers

\* endpoint: it is built at once, against the outbox there is so far, and may be
\* invalid. An endpoint with an inbox writes to that outbox.
AddEndpoint(name, inbox, valid) ==
  /\ MayAdd
  /\ Len(endpoints) < MaxEndpoints
  /\ endpoints' = Append(endpoints, [name |-> name, inbox |-> inbox, valid |-> valid,
                                     writes |-> inbox /\ outbox])
  /\ UNCHANGED <<stage, outbox, partitions, subscribed, worker, runVars>>

\* outbox: the endpoints with an inbox that came before it are errors from now on.
AddOutbox ==
  /\ MayAdd
  /\ ~outbox
  /\ outbox' = TRUE
  /\ endpoints' = [i \in DOMAIN endpoints |->
                     [endpoints[i] EXCEPT !.valid = @ /\ ~endpoints[i].inbox]]
  /\ UNCHANGED <<stage, partitions, subscribed, worker, runVars>>

\* partitions, in the mode that has a worker.
KeepPartitions ==
  /\ MayAdd
  /\ ~partitions
  /\ partitions' = TRUE
  /\ UNCHANGED <<stage, endpoints, outbox, subscribed, worker, runVars>>

-------------------------------------------------------------------------------
(* start *)

Accepted ==
  /\ \A i \in DOMAIN endpoints : endpoints[i].valid
  /\ \A i, j \in DOMAIN endpoints : endpoints[i].name = endpoints[j].name => i = j

\* The checks before anything is subscribed. The source and the dispatch settings
\* may be invalid as well.
Check(settings) ==
  /\ stage = "building"
  /\ stage' = IF settings /\ Accepted THEN "subscribing" ELSE "refused"
  /\ UNCHANGED <<builderVars, subscribed, worker, runVars>>

SubscribeNext ==
  /\ stage = "subscribing"
  /\ subscribed < Len(endpoints)
  /\ subscribed' = subscribed + 1
  /\ UNCHANGED <<stage, builderVars, worker, runVars>>

\* The transport can't subscribe, or the caller drops start.
SubscribeFails ==
  /\ stage = "subscribing"
  /\ stage' = "refused"
  /\ UNCHANGED <<builderVars, subscribed, worker, runVars>>

\* The workers of a bus: they are waited for from the last to the first.
Spawned ==
  [i \in DOMAIN endpoints |-> <<"endpoint", i>>]
    \o (IF partitions THEN <<<<"maintenance", 0>>>> ELSE <<>>)
    \o (IF outbox THEN <<<<"dispatcher", 0>>>> ELSE <<>>)

\* An endpoint waits first; the others begin with a round.
FirstThing(w) == IF w[1] = "endpoint" THEN "idle" ELSE "busy"

\* Slip: each worker starts once its endpoint has subscribed.
SpawnEarly ==
  /\ stage = "subscribing"
  /\ subscribed > 0
  /\ stage' = "running"
  /\ worker' = [w \in Workers |-> IF w \in ToSet(Spawned) THEN FirstThing(w) ELSE "none"]
  /\ handles' = Spawned
  /\ \E c \in Clones : alive' = {c}
  /\ UNCHANGED <<builderVars, subscribed, stop, call, mutex>>

Spawn ==
  /\ stage = "subscribing"
  /\ subscribed = Len(endpoints)
  /\ stage' = "running"
  /\ worker' = [w \in Workers |-> IF w \in ToSet(Spawned) THEN FirstThing(w) ELSE "none"]
  /\ handles' = Spawned
  /\ \E c \in Clones : alive' = {c}
  /\ UNCHANGED <<builderVars, subscribed, stop, call, mutex>>

-------------------------------------------------------------------------------
(* A worker: its select looks for the stop first, then for work *)

WorkerGoes(w, to) ==
  /\ worker' = [worker EXCEPT ![w] = to]
  /\ UNCHANGED <<startVars, runVars>>

\* Slip: the select isn't biased, so it may look for work though the stop is there.
LookUnbiased(w) ==
  /\ worker[w] = "idle"
  /\ WorkerGoes(w, "looking")

\* The stop isn't there yet.
Look(w) ==
  /\ worker[w] = "idle"
  /\ ~stop
  /\ WorkerGoes(w, "looking")

\* There is nothing to do, and the worker is woken for the stop or for work.
FindNothing(w) ==
  /\ worker[w] = "looking"
  /\ WorkerGoes(w, "idle")

\* It takes a delivery, or an hour or a poll interval is over.
TakeUp(w) ==
  /\ worker[w] = "looking"
  /\ WorkerGoes(w, "busy")

FinishWork(w) ==
  /\ worker[w] = "busy"
  /\ WorkerGoes(w, "idle")

Ends(w) == WorkerGoes(w, "ended")

SeeStop(w) == worker[w] = "idle" /\ stop /\ Ends(w)

\* The transport ends the deliveries, or a panic ends the worker.
Break(w) == worker[w] \in {"looking", "busy"} /\ Ends(w)

-------------------------------------------------------------------------------
(* Clones and shutdown *)

CloneBus(c) ==
  /\ alive # {} /\ c \notin alive
  /\ alive' = alive \cup {c}
  /\ call' = [call EXCEPT ![c] = "none"]
  /\ UNCHANGED <<startVars, worker, handles, stop, mutex>>

\* Slip: something else holds the sender, so that it never closes.
DropCloneOnly(c) ==
  /\ c \in alive
  /\ call[c] \notin Calling
  /\ alive' = alive \ {c}
  /\ UNCHANGED <<startVars, worker, handles, stop, call, mutex>>

\* The last clone takes the sender with it, and the handles: nobody waits then.
DropClone(c) ==
  /\ c \in alive
  /\ call[c] \notin Calling
  /\ alive' = alive \ {c}
  /\ stop' = (stop \/ alive = {c})
  /\ UNCHANGED <<startVars, worker, handles, call, mutex>>

\* shutdown sends the stop and asks for the handles.
CallShutdown(c) ==
  /\ c \in alive
  /\ call[c] \notin Calling
  /\ stop' = TRUE
  /\ call' = [call EXCEPT ![c] = "queued"]
  /\ UNCHANGED <<startVars, worker, handles, alive, mutex>>

LockHandles(c) ==
  /\ call[c] = "queued"
  /\ mutex = Nobody
  /\ mutex' = c
  /\ call' = [call EXCEPT ![c] = "waiting"]
  /\ UNCHANGED <<startVars, worker, handles, stop, alive>>

\* Slip: a call takes the handle out before it waits for the worker.
PopFirst(c) ==
  /\ call[c] = "waiting"
  /\ handles # <<>>
  /\ handles' = Front(handles)
  /\ UNCHANGED <<startVars, worker, stop, alive, call, mutex>>

\* The handle goes once its worker has ended.
AwaitWorker(c) ==
  /\ call[c] = "waiting"
  /\ handles # <<>>
  /\ worker[Last(handles)] = "ended"
  /\ handles' = Front(handles)
  /\ UNCHANGED <<startVars, worker, stop, alive, call, mutex>>

\* Slip: a call that ends leaves the handles locked.
LeaveLocked(c, how) ==
  /\ call' = [call EXCEPT ![c] = how]
  /\ UNCHANGED <<startVars, worker, handles, stop, alive, mutex>>

Leave(c, how) ==
  /\ call' = [call EXCEPT ![c] = how]
  /\ mutex' = IF mutex = c THEN Nobody ELSE mutex
  /\ UNCHANGED <<startVars, worker, handles, stop, alive>>

Return(c) == call[c] = "waiting" /\ handles = <<>> /\ Leave(c, "returned")

\* The caller drops the call, such as after a timeout.
DropCall(c) == call[c] \in Calling /\ Leave(c, "none")

-------------------------------------------------------------------------------
Build ==
  \/ \E name \in Names, inbox, valid \in BOOLEAN : AddEndpoint(name, inbox, valid)
  \/ AddOutbox \/ KeepPartitions

Start == (\E settings \in BOOLEAN : Check(settings)) \/ SubscribeNext \/ SubscribeFails \/ Spawn

Run(w) == Look(w) \/ FindNothing(w) \/ TakeUp(w) \/ FinishWork(w) \/ SeeStop(w) \/ Break(w)

Shutdown(c) == LockHandles(c) \/ AwaitWorker(c) \/ Return(c)

Next ==
  \/ Build \/ Start
  \/ \E w \in Workers : Run(w)
  \/ \E c \in Clones : CloneBus(c) \/ DropClone(c) \/ CallShutdown(c) \/ Shutdown(c) \/ DropCall(c)

Spec == Init /\ [][Next]_vars

\* Every worker and every call goes on: a handler returns in the end, and the
\* mutex hands itself to those who wait in turn.
Fairness ==
  /\ \A w \in Workers : WF_vars(Run(w))
  /\ \A c \in Clones : WF_vars(AwaitWorker(c) \/ Return(c)) /\ SF_vars(LockHandles(c))

FairSpec == Spec /\ Fairness

-------------------------------------------------------------------------------
(* Properties *)

\* Every variable keeps to its type, and the mutex is with a call that waits.
TypeOK ==
  /\ stage \in {"building", "subscribing", "running", "refused"}
  /\ endpoints \in Seq([name : Names, inbox : BOOLEAN, valid : BOOLEAN, writes : BOOLEAN])
  /\ subscribed \in 0..Len(endpoints)
  /\ worker \in [Workers -> {"none", "idle", "looking", "busy", "ended"}]
  /\ handles \in Seq(Workers)
  /\ alive \subseteq Clones
  /\ \A c \in Clones : call[c] \in {"none", "queued", "waiting", "returned"}
                       /\ (mutex = c <=> call[c] = "waiting")
                       /\ (call[c] \in Calling => c \in alive)

Runs(w) == worker[w] \in {"idle", "looking", "busy"}

\* A bus runs whole or not at all: no worker runs unless every endpoint has
\* subscribed (bus.rs:345-348), no two have one name, and with an outbox each one
\* with an inbox writes to that outbox, in whatever order the builder was told of
\* them (bus.rs:272-273).
RunsWhole ==
  (\E w \in Workers : Runs(w)) =>
    /\ subscribed = Len(endpoints)
    /\ Cardinality({endpoints[i].name : i \in DOMAIN endpoints}) = Len(endpoints)
    /\ outbox => \A i \in DOMAIN endpoints : endpoints[i].inbox => endpoints[i].writes

\* Once any call of shutdown has returned, no worker runs, though calls before it
\* were dropped halfway or clones were made since (bus.rs:109-110, 209-210).
ReturnedMeansStopped ==
  (\E c \in Clones : call[c] = "returned") => \A w \in Workers : ~Runs(w)

\* A call of shutdown comes back, though others hold the handles before it and
\* there is always work to take up: a worker looks for the stop first
\* (bus.rs:201-202).
ShutdownReturns == \A c \in Clones : call[c] \in Calling ~> call[c] \notin Calling

\* The workers end once no clone is left, though no shutdown was called
\* (bus.rs:109-114).
LastDropEnds == (stage = "running" /\ alive = {}) ~> \A w \in Workers : ~Runs(w)

===============================================================================
