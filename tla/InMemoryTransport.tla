--------------------------- MODULE InMemoryTransport ---------------------------
(***************************************************************************)
(* The transport inside the process (in_memory.rs): a queue of copies per  *)
(* endpoint that its streams share, and the Notify they wait on, which     *)
(* keeps at most one permit.                                               *)
(***************************************************************************)
EXTENDS Naturals, Sequences, SequencesExt, FiniteSets

CONSTANTS
  Messages,    \* envelopes that are published once each
  TypeOf,      \* the type of each
  Endpoints,
  Streams,     \* what subscribe returned, or will
  EndpointOf,  \* the endpoint of each stream
  TypesOf,     \* the message types of its EndpointSpec
  Closers,     \* the streams whose owner may drop them
  MaxAttempt   \* bound: the last attempt number

ASSUME StreamsAssumption == /\ EndpointOf \in [Streams -> Endpoints]
                            /\ Closers \subseteq Streams
                            /\ MaxAttempt \in Nat \ {0}
                            /\ "none" \notin Messages

VARIABLES
  types,     \* the message types of each endpoint
  published, \* the messages published
  failing,   \* whether publishes are set to fail
  queue,     \* the pending copies of each endpoint
  notes,     \* pushes that are about to call notify_one
  permit,    \* whether the endpoint's Notify keeps a permit
  waiters,   \* the streams it will wake, in order
  phase,     \* what each stream does
  job,       \* the copy the owner of each stream handles
  later,     \* the copies of each endpoint that wait for their retry
  acked, rejected, \* the messages each endpoint is done with
  owed       \* the messages published while the endpoint had their type

notifyVars == <<notes, permit, waiters>>
doneVars == <<later, acked, rejected>>
publishVars == <<types, published, failing, owed>>
vars == <<publishVars, queue, notifyVars, phase, job, doneVars>>

Copies == [message : Messages, attempt : 1..MaxAttempt]
Nothing == [message |-> "none", attempt |-> 0]
Phases == {"unsubscribed", "idle", "empty", "waiting", "woken", "again", "handling", "closed"}

Init ==
  /\ types = [e \in Endpoints |-> {}]
  /\ published = {}
  /\ failing = FALSE
  /\ queue = [e \in Endpoints |-> <<>>]
  /\ notes = [e \in Endpoints |-> 0]
  /\ permit = [e \in Endpoints |-> FALSE]
  /\ waiters = [e \in Endpoints |-> <<>>]
  /\ phase = [s \in Streams |-> "unsubscribed"]
  /\ job = [s \in Streams |-> Nothing]
  /\ later = [e \in Endpoints |-> {}]
  /\ acked = [e \in Endpoints |-> {}]
  /\ rejected = [e \in Endpoints |-> {}]
  /\ owed = [e \in Endpoints |-> {}]

Goes(s, next) == phase' = [phase EXCEPT ![s] = next]

-------------------------------------------------------------------------------
(* The queue *)

\* push: the copy is in the queue before its notify_one; in between anyone may
\* take it. The one who pushed may go on first here, which only adds behaviours.
Push(e, copy) ==
  /\ queue' = [queue EXCEPT ![e] = Append(@, copy)]
  /\ notes' = [notes EXCEPT ![e] = @ + 1]

\* Slip: notify_waiters, which keeps no permit for the one who is about to wait.
NotifyWaiters(e) ==
  /\ notes[e] > 0
  /\ notes' = [notes EXCEPT ![e] = @ - 1]
  /\ waiters' = [waiters EXCEPT ![e] = <<>>]
  /\ phase' = [s \in Streams |-> IF s \in ToSet(waiters[e]) THEN "woken" ELSE phase[s]]
  /\ UNCHANGED <<publishVars, queue, permit, job, doneVars>>

\* notify_one wakes the first who waits, or keeps the one permit there is.
NotifyOne(e) ==
  /\ notes[e] > 0
  /\ notes' = [notes EXCEPT ![e] = @ - 1]
  /\ \/ /\ waiters[e] = <<>>
        /\ permit' = [permit EXCEPT ![e] = TRUE]
        /\ UNCHANGED <<waiters, phase>>
     \/ /\ waiters[e] # <<>>
        /\ waiters' = [waiters EXCEPT ![e] = Tail(@)]
        /\ Goes(Head(waiters[e]), "woken")
        /\ UNCHANGED permit
  /\ UNCHANGED <<publishVars, queue, job, doneVars>>

\* pop: the stream takes the first copy.
Take(s) ==
  LET e == EndpointOf[s] IN
  /\ phase[s] \in {"idle", "woken", "again"}
  /\ queue[e] # <<>>
  /\ queue' = [queue EXCEPT ![e] = Tail(@)]
  /\ job' = [job EXCEPT ![s] = Head(queue[e])]
  /\ Goes(s, "handling")
  /\ UNCHANGED <<publishVars, notifyVars, doneVars>>

\* pop: the queue is empty, and the stream doesn't wait yet.
FindEmpty(s) ==
  /\ phase[s] \in {"idle", "woken", "again"}
  /\ queue[EndpointOf[s]] = <<>>
  /\ Goes(s, "empty")
  /\ UNCHANGED <<publishVars, queue, notifyVars, job, doneVars>>

\* pop: the stream takes the permit and looks again, or waits for its turn.
Wait(s) ==
  LET e == EndpointOf[s] IN
  /\ phase[s] = "empty"
  /\ \/ /\ permit[e]
        /\ permit' = [permit EXCEPT ![e] = FALSE]
        /\ Goes(s, "again")
        /\ UNCHANGED waiters
     \/ /\ ~permit[e]
        /\ waiters' = [waiters EXCEPT ![e] = Append(@, s)]
        /\ Goes(s, "waiting")
        /\ UNCHANGED permit
  /\ UNCHANGED <<publishVars, queue, notes, job, doneVars>>

\* Slip: the one who is gone still counts as waiting.
CloseStillWaiting(s) ==
  /\ s \in Closers
  /\ phase[s] \in {"idle", "waiting", "woken"}
  /\ Goes(s, "closed")
  /\ UNCHANGED <<publishVars, queue, notifyVars, job, doneVars>>

\* A stream waits at most once.
Without(line, s) ==
  IF s \in ToSet(line) THEN RemoveAt(line, CHOOSE i \in DOMAIN line : line[i] = s) ELSE line

\* The owner of a stream drops it. One who was woken hands that on.
Close(s) ==
  LET e == EndpointOf[s] IN
  /\ s \in Closers
  /\ phase[s] \in {"idle", "waiting", "woken"}
  /\ waiters' = [waiters EXCEPT ![e] = Without(@, s)]
  /\ notes' = [notes EXCEPT ![e] = IF phase[s] = "woken" THEN @ + 1 ELSE @]
  /\ Goes(s, "closed")
  /\ UNCHANGED <<publishVars, queue, permit, job, doneVars>>

-------------------------------------------------------------------------------
(* Publishing and subscribing *)

\* subscribe creates the endpoint or adds the types of the stream to it.
Subscribe(s) ==
  /\ phase[s] = "unsubscribed"
  /\ types' = [types EXCEPT ![EndpointOf[s]] = @ \cup TypesOf[s]]
  /\ Goes(s, "idle")
  /\ UNCHANGED <<published, failing, owed, queue, notifyVars, job, doneVars>>

\* The endpoints some stream has subscribed to the type of m.
Subscribed(m) ==
  {EndpointOf[s] : s \in {t \in Streams : phase[t] # "unsubscribed" /\ TypeOf[m] \in TypesOf[t]}}

\* publish copies the message to every endpoint that has its type.
Publish(m) ==
  LET to == {e \in Endpoints : TypeOf[m] \in types[e]} IN
  /\ m \notin published
  /\ ~failing
  /\ published' = published \cup {m}
  /\ owed' = [e \in Endpoints |-> owed[e] \cup (IF e \in Subscribed(m) THEN {m} ELSE {})]
  /\ queue' = [e \in Endpoints |-> IF e \in to
                                   THEN Append(queue[e], [message |-> m, attempt |-> 1])
                                   ELSE queue[e]]
  /\ notes' = [e \in Endpoints |-> IF e \in to THEN notes[e] + 1 ELSE notes[e]]
  /\ UNCHANGED <<types, failing, permit, waiters, phase, job, doneVars>>

\* fail_publishes
FailPublishes(to) ==
  /\ failing # to
  /\ failing' = to
  /\ UNCHANGED <<types, published, owed, queue, notifyVars, phase, job, doneVars>>

-------------------------------------------------------------------------------
(* Settling a delivery *)

LetsGo(s) ==
  /\ phase[s] = "handling"
  /\ job' = [job EXCEPT ![s] = Nothing]
  /\ Goes(s, "idle")
  /\ UNCHANGED <<publishVars, permit, waiters>>

NextAttempt(s) == [job[s] EXCEPT !.attempt = @ + 1]

MayComeAgain(s) == job[s].attempt < MaxAttempt

Ack(s) ==
  /\ LetsGo(s)
  /\ acked' = [acked EXCEPT ![EndpointOf[s]] = @ \cup {job[s].message}]
  /\ UNCHANGED <<queue, notes, later, rejected>>

\* retry hands the copy to a task that sleeps for the delay.
Retry(s) ==
  /\ MayComeAgain(s)
  /\ LetsGo(s)
  /\ later' = [later EXCEPT ![EndpointOf[s]] = @ \cup {NextAttempt(s)}]
  /\ UNCHANGED <<queue, notes, acked, rejected>>

\* The task pushes the copy.
Due(e, copy) ==
  /\ copy \in later[e]
  /\ later' = [later EXCEPT ![e] = @ \ {copy}]
  /\ Push(e, copy)
  /\ UNCHANGED <<publishVars, permit, waiters, phase, job, acked, rejected>>

\* Slip: reject doesn't note that the delivery is settled, so that its drop puts
\* the copy back.
RejectUnsettled(s) ==
  /\ MayComeAgain(s)
  /\ LetsGo(s)
  /\ rejected' = [rejected EXCEPT ![EndpointOf[s]] = @ \cup {job[s].message}]
  /\ Push(EndpointOf[s], NextAttempt(s))
  /\ UNCHANGED <<later, acked>>

Reject(s) ==
  /\ LetsGo(s)
  /\ rejected' = [rejected EXCEPT ![EndpointOf[s]] = @ \cup {job[s].message}]
  /\ UNCHANGED <<queue, notes, later, acked>>

\* Slip: a delivery that is dropped is gone.
DropForGood(s) ==
  /\ MayComeAgain(s)
  /\ LetsGo(s)
  /\ UNCHANGED <<queue, notes, doneVars>>

\* A delivery is dropped unsettled: the copy is put back at once.
Drop(s) ==
  /\ MayComeAgain(s)
  /\ LetsGo(s)
  /\ Push(EndpointOf[s], NextAttempt(s))
  /\ UNCHANGED doneVars

-------------------------------------------------------------------------------
Poll(s) == Take(s) \/ FindEmpty(s) \/ Wait(s)
Settle(s) == Ack(s) \/ Retry(s) \/ Reject(s) \/ Drop(s)

Next ==
  \/ \E m \in Messages : Publish(m)
  \/ \E to \in BOOLEAN : FailPublishes(to)
  \/ \E e \in Endpoints : NotifyOne(e) \/ \E copy \in later[e] : Due(e, copy)
  \/ \E s \in Streams : Subscribe(s) \/ Poll(s) \/ Settle(s) \/ Close(s)

Spec == Init /\ [][Next]_vars

\* Tasks and threads that can run do, the timers of the retries fire, and every
\* owner settles or drops what it was delivered and asks for more.
Fairness ==
  /\ \A e \in Endpoints : /\ WF_vars(NotifyOne(e))
                          /\ WF_vars(\E copy \in later[e] : Due(e, copy))
  /\ \A s \in Streams : WF_vars(Poll(s)) /\ WF_vars(Settle(s))

FairSpec == Spec /\ Fairness

-------------------------------------------------------------------------------
(* Properties *)

\* Every variable keeps to its type; no attempt is numbered past the bound.
TypeOK ==
  /\ published \subseteq Messages
  /\ failing \in BOOLEAN
  /\ \A e \in Endpoints : /\ queue[e] \in Seq(Copies)
                          /\ notes[e] \in Nat
                          /\ permit[e] \in BOOLEAN
                          /\ ToSet(waiters[e]) = {s \in Streams : EndpointOf[s] = e /\ phase[s] = "waiting"}
                          /\ later[e] \subseteq Copies
                          /\ acked[e] \cup rejected[e] \cup owed[e] \subseteq Messages
  /\ phase \in [Streams -> Phases]
  /\ \A s \in Streams : job[s] \in Copies \cup {Nothing} /\ (phase[s] = "handling" <=> job[s] # Nothing)

PlacesOf(e, m) ==
  {<<"queue", i>> : i \in {j \in DOMAIN queue[e] : queue[e][j].message = m}}
    \cup {<<"later", c.attempt>> : c \in {d \in later[e] : d.message = m}}
    \cup {<<"handled by", s>> : s \in {t \in Streams : EndpointOf[t] = e /\ job[t].message = m}}
    \cup {<<"acked", m>> : k \in acked[e] \cap {m}}
    \cup {<<"rejected", m>> : k \in rejected[e] \cap {m}}

\* An endpoint has one copy of each message published after a stream of it
\* subscribed to its type, whichever stream that was and whatever its streams
\* did since (the promises of InMemoryTransport's comment: each endpoint gets its
\* own copy, a retried or dropped delivery comes again, an acked or rejected one
\* doesn't). Of other messages it has none.
OneCopy ==
  \A e \in Endpoints, m \in Messages :
    Cardinality(PlacesOf(e, m)) = IF m \in owed[e] THEN 1 ELSE 0

\* A stream is never left waiting over copies in the queue: when all the open
\* streams of an endpoint wait and no notify_one is on its way, the queue is
\* empty ("a push between a subscriber finding the queue empty and waiting isn't
\* missed", in_memory.rs:29-30). It holds where streams that share an endpoint
\* stay open: one that took the only permit of two pushes may be dropped after
\* the first copy, and the other waits over the second.
NoPushIsMissed ==
  \A e \in Endpoints :
    LET open == {s \in Streams : EndpointOf[s] = e /\ phase[s] \notin {"unsubscribed", "closed"}} IN
    (open # {} /\ notes[e] = 0 /\ \A s \in open : phase[s] = "waiting") => queue[e] = <<>>

\* Every copy is settled in the end, at an endpoint whose streams stay open.
EveryCopyIsSettled ==
  \A e \in Endpoints, m \in Messages :
    (\A s \in Closers : EndpointOf[s] # e) =>
      (m \in owed[e] ~> m \in acked[e] \cup rejected[e])

===============================================================================
