------------------------------- MODULE BusProofs -------------------------------
(***************************************************************************)
(* What holds of Bus for any names, and any number of endpoints, workers   *)
(* and clones.                                                             *)
(***************************************************************************)
EXTENDS Bus, SequenceTheorems, FiniteSetTheorems, TLAPS

USE DEF builderVars, startVars, runVars

-------------------------------------------------------------------------------
(* The inductive invariant, by its parts *)

Endpoint == [name : Names, inbox : BOOLEAN, valid : BOOLEAN, writes : BOOLEAN]

\* What the builder has been told is of its type; and an endpoint with an inbox
\* that is still valid writes to the outbox, if there is one.
BuilderInv ==
  /\ stage \in {"building", "subscribing", "running", "refused"}
  /\ endpoints \in Seq(Endpoint) /\ Len(endpoints) <= MaxEndpoints
  /\ outbox \in BOOLEAN
  /\ subscribed \in 0..Len(endpoints)
  /\ \A i \in DOMAIN endpoints :
       outbox /\ endpoints[i].valid /\ endpoints[i].inbox => endpoints[i].writes

\* What was checked before the first subscription stays so.
StartInv ==
  /\ stage \in {"subscribing", "running"} => Accepted
  /\ stage = "running" => subscribed = Len(endpoints)

\* Shutdown has the handle of every worker that runs.
WorkersInv ==
  /\ worker \in [Workers -> {"none", "idle", "looking", "busy", "ended"}]
  /\ handles \in Seq(Workers)
  /\ \A w \in Workers : Runs(w) => stage = "running" /\ w \in ToSet(handles)

\* A call has the handles only while it waits, and has none left when it returned.
CallsInv ==
  /\ alive \subseteq Clones
  /\ call \in [Clones -> {"none", "queued", "waiting", "returned"}]
  /\ \A c \in Clones : /\ mutex = c <=> call[c] = "waiting"
                       /\ call[c] \in Calling => c \in alive
                       /\ call[c] = "returned" => handles = <<>> /\ stage = "running"
  /\ alive # {} => stage = "running"

IInv == BuilderInv /\ StartInv /\ WorkersInv /\ CallsInv

LEMMA InvIsType == IInv => TypeOK
BY DEF IInv, BuilderInv, WorkersInv, CallsInv, TypeOK, Endpoint

-------------------------------------------------------------------------------
(* The builder and start *)

\* The builder changes nothing once start was called.
LEMMA BuildKeeps ==
  ASSUME IInv, Build
  PROVE  IInv'
<1>1. stage = "building" /\ UNCHANGED <<stage, subscribed, worker, runVars>>
  BY DEF Build, AddEndpoint, AddOutbox, KeepPartitions, MayAdd
<1>2. StartInv' /\ WorkersInv' /\ CallsInv'
  BY <1>1 DEF IInv, StartInv, WorkersInv, CallsInv, Runs
<1>3. Len(endpoints) \in Nat /\ DOMAIN endpoints = 1..Len(endpoints) /\ endpoints \in Seq(Endpoint)
      /\ \A i \in DOMAIN endpoints : endpoints[i] \in Endpoint
  BY DEF IInv, BuilderInv
<1>4. ASSUME NEW name \in Names, NEW inbox \in BOOLEAN, NEW valid \in BOOLEAN,
             AddEndpoint(name, inbox, valid)
      PROVE  BuilderInv'
  <2> DEFINE new == [name |-> name, inbox |-> inbox, valid |-> valid, writes |-> inbox /\ outbox]
  <2>1. new \in Endpoint /\ (outbox /\ new.inbox => new.writes)
    BY DEF Endpoint
  <2>2. endpoints' = Append(endpoints, new) /\ Len(endpoints) < MaxEndpoints /\ UNCHANGED outbox
    BY <1>4 DEF AddEndpoint
  <2> HIDE DEF new
  <2>3. /\ endpoints' \in Seq(Endpoint) /\ Len(endpoints') = Len(endpoints) + 1
        /\ DOMAIN endpoints' = 1..(Len(endpoints) + 1)
        /\ \A i \in 1..Len(endpoints) : endpoints'[i] = endpoints[i]
        /\ endpoints'[Len(endpoints) + 1] = new
    BY <1>3, <2>1, <2>2, AppendProperties
  <2>4. \A i \in DOMAIN endpoints' :
          outbox /\ endpoints'[i].valid /\ endpoints'[i].inbox => endpoints'[i].writes
    BY <1>3, <2>1, <2>3 DEF IInv, BuilderInv
  <2>5. subscribed \in 0..Len(endpoints') /\ Len(endpoints') <= MaxEndpoints
    BY <1>3, <2>2, <2>3, BuilderAssumption DEF IInv, BuilderInv
  <2>6. QED
    BY <1>1, <2>2, <2>3, <2>4, <2>5 DEF IInv, BuilderInv
<1>5. ASSUME AddOutbox PROVE BuilderInv'
  <2>1. endpoints' = [i \in 1..Len(endpoints) |->
                        [endpoints[i] EXCEPT !.valid = @ /\ ~endpoints[i].inbox]]
    BY <1>3, <1>5 DEF AddOutbox
  <2>2. ASSUME NEW i \in 1..Len(endpoints)
        PROVE  endpoints'[i] \in Endpoint /\ (endpoints'[i].valid => ~endpoints'[i].inbox)
    BY <1>3, <2>1 DEF Endpoint
  <2>3. endpoints' \in Seq(Endpoint) /\ Len(endpoints') = Len(endpoints)
        /\ DOMAIN endpoints' = 1..Len(endpoints)
    <3>1. endpoints' \in [1..Len(endpoints) -> Endpoint]
      BY <2>1, <2>2
    <3>2. QED
      BY <3>1, <1>3, SeqDef
  <2>4. QED
    BY <1>1, <1>5, <2>2, <2>3 DEF AddOutbox, IInv, BuilderInv
<1>6. ASSUME KeepPartitions PROVE BuilderInv'
  BY <1>1, <1>6 DEF KeepPartitions, IInv, BuilderInv
<1>7. QED
  BY <1>2, <1>4, <1>5, <1>6 DEF Build, IInv

\* The workers that start makes are workers, whatever the builder has.
LEMMA SpawnedType == BuilderInv => Spawned \in Seq(Workers)
<1> SUFFICES ASSUME BuilderInv PROVE Spawned \in Seq(Workers)
  OBVIOUS
<1> DEFINE first == [i \in DOMAIN endpoints |-> <<"endpoint", i>>]
           second == IF partitions THEN <<<<"maintenance", 0>>>> ELSE <<>>
           third == IF outbox THEN <<<<"dispatcher", 0>>>> ELSE <<>>
<1>1. first \in Seq(Workers)
  <2>1. Len(endpoints) \in Nat /\ DOMAIN endpoints = 1..Len(endpoints)
    BY DEF BuilderInv
  <2>2. \A i \in 1..Len(endpoints) : i \in Places
    BY <2>1, BuilderAssumption DEF BuilderInv, Places
  <2>3. first \in [1..Len(endpoints) -> Workers]
    BY <2>1, <2>2 DEF Workers
  <2>4. QED
    BY <2>1, <2>3, SeqDef
<1>2. <<"maintenance", 0>> \in Workers /\ <<"dispatcher", 0>> \in Workers
  BY DEF Workers
<1>3. second \in Seq(Workers) /\ third \in Seq(Workers)
  BY <1>2
<1> HIDE DEF first, second, third
<1>4. first \o second \o third \in Seq(Workers)
  BY <1>1, <1>3
<1>5. QED
  BY <1>4 DEF Spawned, first, second, third

LEMMA StartKeeps ==
  ASSUME IInv, Start
  PROVE  IInv'
<1>1. Len(endpoints) \in Nat /\ subscribed \in 0..Len(endpoints)
  BY DEF IInv, BuilderInv
<1>2. CASE \/ \E settings \in BOOLEAN : Check(settings)
           \/ SubscribeNext \/ SubscribeFails
  <2>1. /\ stage \in {"building", "subscribing"} /\ stage' \in {"subscribing", "refused"}
        /\ (stage' = "subscribing" => stage = "subscribing" \/ Accepted)
        /\ UNCHANGED <<builderVars, worker, runVars>>
    BY <1>2 DEF Check, SubscribeNext, SubscribeFails
  <2>2. subscribed' \in 0..Len(endpoints)
    BY <1>1, <1>2 DEF Check, SubscribeNext, SubscribeFails
  <2>3. QED
    BY <2>1, <2>2 DEF IInv, BuilderInv, StartInv, Accepted, WorkersInv, CallsInv, Runs
<1>3. CASE Spawn
  <2>1. /\ stage = "subscribing" /\ stage' = "running" /\ subscribed = Len(endpoints)
        /\ worker' = [w \in Workers |-> IF w \in ToSet(Spawned) THEN FirstThing(w) ELSE "none"]
        /\ handles' = Spawned /\ alive' \subseteq Clones
        /\ UNCHANGED <<builderVars, subscribed, call, mutex>>
    BY <1>3 DEF Spawn
  <2>2. BuilderInv' /\ StartInv'
    BY <2>1 DEF IInv, BuilderInv, StartInv, Accepted
  <2>3. WorkersInv'
    BY <2>1, SpawnedType DEF IInv, WorkersInv, Runs, FirstThing
  <2>4. CallsInv'
    BY <2>1 DEF IInv, CallsInv, Calling
  <2>5. QED
    BY <2>2, <2>3, <2>4 DEF IInv
<1>4. QED
  BY <1>2, <1>3 DEF Start

-------------------------------------------------------------------------------
(* The workers, the clones and shutdown *)

\* A worker that has ended never runs again, and none starts by itself.
LEMMA RunKeeps ==
  ASSUME IInv, NEW w \in Workers, Run(w)
  PROVE  IInv'
<1>1. PICK to \in {"idle", "looking", "busy", "ended"} :
        worker' = [worker EXCEPT ![w] = to] /\ UNCHANGED <<startVars, runVars>> /\ Runs(w)
  BY DEF Run, Look, FindNothing, TakeUp, FinishWork, SeeStop, Break, Ends, WorkerGoes, Runs
<1>2. WorkersInv'
  BY <1>1 DEF IInv, WorkersInv, Runs
<1>3. QED
  BY <1>1, <1>2 DEF IInv, BuilderInv, StartInv, Accepted, CallsInv

\* A call of shutdown lets go of a handle only when its worker has ended.
LEMMA HandlesKeep ==
  ASSUME IInv, NEW c \in Clones, AwaitWorker(c)
  PROVE  IInv'
<1>1. /\ handles \in Seq(Workers) /\ handles # <<>> /\ worker[Last(handles)] = "ended"
      /\ handles' = Front(handles) /\ UNCHANGED <<startVars, worker, alive, call, mutex>>
      /\ call[c] = "waiting"
  BY DEF AwaitWorker, IInv, WorkersInv
<1> DEFINE n == Len(handles)
<1>2. n \in Nat \ {0} /\ DOMAIN handles = 1..n /\ handles' = SubSeq(handles, 1, n - 1)
      /\ worker[handles[n]] = "ended"
  BY <1>1 DEF Last, Front
<1>3. handles' \in Seq(Workers) /\ Len(handles') = n - 1 /\ DOMAIN handles' = 1..(n - 1)
      /\ \A i \in 1..(n - 1) : handles'[i] = handles[i]
  BY <1>1, <1>2
<1> HIDE DEF n
<1>4. ASSUME NEW w \in Workers, Runs(w) PROVE w \in ToSet(handles')
  <2>1. PICK i \in 1..n : handles[i] = w
    BY <1>2, <1>4 DEF IInv, WorkersInv, ToSet
  <2>2. i # n
    BY <1>2, <1>4, <2>1 DEF Runs
  <2>3. i \in 1..(n - 1) /\ handles'[i] = w
    BY <1>2, <1>3, <2>1, <2>2
  <2>4. QED
    BY <1>3, <2>3 DEF ToSet
<1>5. WorkersInv'
  BY <1>1, <1>3, <1>4 DEF IInv, WorkersInv, Runs
<1>6. \A d \in Clones : call[d] # "returned"
  BY <1>1 DEF IInv, CallsInv
<1>7. QED
  BY <1>1, <1>5, <1>6 DEF IInv, BuilderInv, StartInv, Accepted, CallsInv

\* The other steps of the clones leave the workers and their handles alone.
LEMMA ClonesKeep ==
  ASSUME IInv, NEW c \in Clones,
         \/ CloneBus(c) \/ DropClone(c) \/ CallShutdown(c)
         \/ LockHandles(c) \/ Return(c) \/ DropCall(c)
  PROVE  IInv'
<1>1. UNCHANGED <<startVars, worker, handles>>
  BY DEF CloneBus, DropClone, CallShutdown, LockHandles, Return, DropCall, Leave
<1>2. BuilderInv' /\ StartInv' /\ WorkersInv'
  BY <1>1 DEF IInv, BuilderInv, StartInv, Accepted, WorkersInv, Runs
<1>3. CallsInv'
  <2> USE ClonesAssumption DEF IInv, CallsInv, Calling
  <2>1. CASE CloneBus(c)
    BY <1>1, <2>1 DEF CloneBus
  <2>2. CASE DropClone(c) \/ CallShutdown(c)
    BY <1>1, <2>2 DEF DropClone, CallShutdown
  <2>3. CASE LockHandles(c)
    BY <1>1, <2>3 DEF LockHandles
  <2>4. CASE Return(c) \/ DropCall(c)
    BY <1>1, <2>4 DEF Return, DropCall, Leave
  <2>5. QED
    BY <2>1, <2>2, <2>3, <2>4
<1>4. QED
  BY <1>2, <1>3 DEF IInv

LEMMA IInvPreserved == IInv /\ [Next]_vars => IInv'
<1> SUFFICES ASSUME IInv, [Next]_vars PROVE IInv'
  OBVIOUS
<1>1. CASE UNCHANGED vars
  BY <1>1 DEF vars, IInv, BuilderInv, StartInv, Accepted, WorkersInv, CallsInv, Runs
<1>2. CASE Next
  BY <1>2, BuildKeeps, StartKeeps, RunKeeps, HandlesKeep, ClonesKeep DEF Next, Shutdown
<1>3. QED
  BY <1>1, <1>2

\* The handles cover the workers that run, whatever is built, cloned, dropped and
\* called, in whatever order.
THEOREM Inductive == Spec => []IInv
<1>1. ASSUME Init PROVE IInv
  <2>1. Len(endpoints) = 0 /\ endpoints \in Seq(Endpoint) /\ DOMAIN endpoints = {}
        /\ handles \in Seq(Workers)
    BY <1>1 DEF Init
  <2>2. BuilderInv /\ StartInv
    <3>1. Len(endpoints) <= MaxEndpoints /\ subscribed \in 0..Len(endpoints)
      BY <1>1, <2>1, BuilderAssumption DEF Init
    <3>2. outbox \in BOOLEAN /\ stage = "building"
      BY <1>1 DEF Init
    <3>3. QED
      BY <2>1, <3>1, <3>2 DEF BuilderInv, StartInv
  <2>3. WorkersInv /\ CallsInv
    BY <1>1, <2>1, ClonesAssumption DEF Init, WorkersInv, CallsInv, Runs, Calling
  <2>4. QED
    BY <2>2, <2>3 DEF IInv
<1>2. QED
  BY <1>1, IInvPreserved, PTL DEF Spec

\* Every variable keeps to its type, and one call at a time has the handles.
THEOREM TypeCorrect == Spec => []TypeOK
BY Inductive, InvIsType, PTL

\* Once any call of shutdown has returned no worker runs, however many calls were
\* dropped halfway before it and clones made since: the calls wait for the handles
\* that are left, and a handle is only let go of when its worker has ended.
THEOREM ReturnMeansStop == Spec => []ReturnedMeansStopped
<1>1. IInv => ReturnedMeansStopped
  BY DEF IInv, WorkersInv, CallsInv, ReturnedMeansStopped, ToSet
<1>2. QED
  BY <1>1, Inductive, PTL

\* A bus runs whole or not at all: every endpoint subscribed, under a name of its
\* own and, with an outbox, writing to it if it has an inbox, in whatever order
\* the builder was told of them.
THEOREM BusRunsWhole == Spec => []RunsWhole
<1>1. ASSUME IInv PROVE RunsWhole
  <2>1. SUFFICES ASSUME NEW w \in Workers, Runs(w)
        PROVE /\ subscribed = Len(endpoints)
              /\ Cardinality({endpoints[i].name : i \in DOMAIN endpoints}) = Len(endpoints)
              /\ outbox => \A i \in DOMAIN endpoints : endpoints[i].inbox => endpoints[i].writes
    BY DEF RunsWhole
  <2>2. stage = "running" /\ Accepted /\ subscribed = Len(endpoints)
    BY <1>1, <2>1 DEF IInv, WorkersInv, StartInv
  <2> DEFINE n == Len(endpoints)
             names == {endpoints[i].name : i \in DOMAIN endpoints}
             nameOf == [i \in 1..n |-> endpoints[i].name]
  <2>3. n \in Nat /\ DOMAIN endpoints = 1..n
    BY <1>1 DEF IInv, BuilderInv
  <2>4. nameOf \in Bijection(1..n, names)
    BY <2>2, <2>3 DEF Accepted, Bijection, Injection, Surjection, IsInjective
  <2> HIDE DEF n, names, nameOf
  <2>5. IsFiniteSet(1..n) /\ Cardinality(1..n) = n
    <3>1. 1 \in Int /\ n \in Int /\ (IF 1 > n THEN 0 ELSE n - 1 + 1) = n
      BY <2>3
    <3>2. QED
      BY <3>1, FS_Interval
  <2>6. Cardinality(names) = n
    BY <2>4, <2>5, FS_Bijection DEF ExistsBijection
  <2>7. QED
    BY <1>1, <2>2, <2>6 DEF n, names, Accepted, IInv, BuilderInv
<1>2. QED
  BY <1>1, Inductive, PTL

===============================================================================
