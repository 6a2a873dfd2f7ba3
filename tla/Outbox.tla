-------------------------------- MODULE Outbox --------------------------------
(***************************************************************************)
(* The outbox: rows an application writes in its own transactions, the     *)
(* statements of PostgresOutbox that claim and mark them, and the          *)
(* dispatchers that publish them to the broker (runtime dispatch.rs over   *)
(* postgres outbox.rs).                                                    *)
(*                                                                         *)
(* Times are relative to the present, so that the state space is finite:   *)
(* `due', `leased' and `left' say how many ticks ahead a moment lies, and  *)
(* Tick brings every one of them a tick nearer.                            *)
(***************************************************************************)
EXTENDS Integers, FiniteSets

CONSTANTS
  Rows,         \* ids of the rows: naturals, since claims go oldest id first
  Unreadable,   \* the rows whose columns do not make a valid envelope
  Dispatchers,  \* one per running bus with an outbox
  Stoppable,    \* the dispatchers a shutdown may stop
  BatchSize,    \* DispatchSettings::batch_size
  Lease,        \* DispatchSettings::lease, in ticks
  Attempts,     \* RetryPolicy::attempts
  RetryDelays,  \* the values RetryPolicy::delay takes, in ticks rounded up
  AttemptBound, \* bound: no person sets back a row that failed this often
  StallBound,   \* bound: how far past its lease a dispatcher may fall behind
  AgeBound      \* bound: a row due longer than this is not told apart

ASSUME RowsAssumption == /\ Rows \subseteq Nat
                         /\ IsFiniteSet(Rows)
                         /\ Unreadable \subseteq Rows

ASSUME SettingsAssumption ==       \* DispatchSettings::invalid is None
  /\ BatchSize \in Nat \ {0}
  /\ Lease \in Nat \ {0}
  /\ Attempts \in Nat              \* is_last takes 0 as 1
  /\ RetryDelays \subseteq Nat \ {0}

ASSUME BoundsAssumption == /\ AttemptBound \in Nat
                           /\ StallBound \in Nat
                           /\ AgeBound \in Nat
                           /\ StallBound < AgeBound

VARIABLES
  status,    \* of each row; "open" while its writer's transaction is
  due,       \* available_at of each row, from now
  attempts,  \* the attempts column of each row
  phase,     \* where each dispatcher is in run and round
  left,      \* claimed_at + lease of each round, from now
  leased,    \* leased_until of the records of each round, from now
  todo,      \* the claimed rows a round has not dealt with
  seen,      \* OutboxRecord::attempts of the claimed rows
  published, \* the rows of a round the broker acked
  stop,      \* whether each dispatcher's bus was told to stop
  stored,    \* the rows the broker has stored
  late       \* given-up publishes the broker may still store

rowVars == <<status, due, attempts>>
roundVars == <<phase, left, leased, todo, seen, published>>
brokerVars == <<stored, late>>
vars == <<rowVars, roundVars, stop, brokerVars>>

Committed == {"pending", "dispatched", "failed"}
Statuses == {"absent", "open", "rolledback"} \cup Committed

\* Holding: the phases of a round whose claim took effect.
Holding == {"reading", "sending", "publishing", "returning", "marking"}
InRound == {"claiming"} \cup Holding
Phases == {"idle", "waiting", "stopped"} \cup InRound

Init ==
  /\ status = [r \in Rows |-> "absent"]
  /\ due = [r \in Rows |-> 0]
  /\ attempts = [r \in Rows |-> 0]
  /\ phase = [d \in Dispatchers |-> "idle"]
  /\ left = [d \in Dispatchers |-> 0]
  /\ leased = [d \in Dispatchers |-> 0]
  /\ todo = [d \in Dispatchers |-> {}]
  /\ seen = [d \in Dispatchers |-> [r \in Rows |-> 0]]
  /\ published = [d \in Dispatchers |-> {}]
  /\ stop = [d \in Dispatchers |-> FALSE]
  /\ stored = {}
  /\ late = {}

-------------------------------------------------------------------------------
(* The application's transactions *)

\* available_at defaults to now(), the start of the transaction.
Insert(r) ==
  /\ status[r] = "absent"
  /\ status' = [status EXCEPT ![r] = "open"]
  /\ due' = [due EXCEPT ![r] = 0]
  /\ UNCHANGED <<attempts, roundVars, stop, brokerVars>>

EndTransaction(r) ==
  /\ status[r] = "open"
  /\ \E end \in {"pending", "rolledback"} : status' = [status EXCEPT ![r] = end]
  /\ UNCHANGED <<due, attempts, roundVars, stop, brokerVars>>

\* A person sets a failed row back to pending; nothing else of it changes.
SetBack(r) ==
  /\ status[r] = "failed"
  /\ attempts[r] < AttemptBound
  /\ status' = [status EXCEPT ![r] = "pending"]
  /\ UNCHANGED <<due, attempts, roundVars, stop, brokerVars>>

-------------------------------------------------------------------------------
(* The statements of PostgresOutbox; each commits on its own *)

FirstOf(S, n) == {r \in S : Cardinality({q \in S : q < r}) < n}

Head(d) == {r \in todo[d] : \A q \in todo[d] : r <= q}

\* Whether a statement of d may hold the lock of row r at the moment.
Locks(d, r) ==
  \/ phase[d] = "claiming"
  \/ phase[d] = "reading" /\ r \in Head(d)
  \/ phase[d] = "returning" /\ r \in Head(d)
  \/ phase[d] = "marking" /\ r \in published[d]

\* What a claim may take: the oldest due rows that no other statement locks.
Claimable(d, batch) ==
  LET ready == {r \in Rows : status[r] = "pending" /\ due[r] <= 0}
      contested == {r \in ready : \E e \in Dispatchers \ {d} : Locks(e, r)}
  IN \E skipped \in SUBSET contested : batch = FirstOf(ready \ skipped, BatchSize)

\* Slip: the marks match the status only.
FencedByStatus(d, r) == status[r] = "pending"

\* A mark changes a row only while it has the due time its claim set.
Fenced(d, r) == status[r] = "pending" /\ due[r] = leased[d]

\* The rows of S that d still holds become as a mark says.
Mark(d, S, newStatus, failures) ==
  LET marked == {r \in S : Fenced(d, r)}
  IN /\ status' = [r \in Rows |-> IF r \in marked THEN newStatus ELSE status[r]]
     /\ attempts' = [r \in Rows |-> IF r \in marked THEN attempts[r] + failures
                                                    ELSE attempts[r]]

MarkDispatched(d, S) == Mark(d, S, "dispatched", 0) /\ UNCHANGED due

MarkUnreadable(d, r) == Mark(d, {r}, "failed", 1) /\ UNCHANGED due

MarkRetry(d, r, delay) ==
  /\ Mark(d, {r}, "pending", 1)
  /\ due' = IF Fenced(d, r) THEN [due EXCEPT ![r] = delay] ELSE due

\* available_at is the now() of the mark: later than the end of every earlier
\* lease, which the claim before it saw pass, so a tick ahead like a delay.
MarkFailed(d, r) ==
  /\ Mark(d, {r}, "failed", 1)
  /\ due' = IF Fenced(d, r) THEN [due EXCEPT ![r] = 1] ELSE due

-------------------------------------------------------------------------------
(* The dispatcher *)

EndRound(d, next) ==
  /\ phase' = [phase EXCEPT ![d] = next]
  /\ left' = [left EXCEPT ![d] = 0]
  /\ leased' = [leased EXCEPT ![d] = 0]
  /\ todo' = [todo EXCEPT ![d] = {}]
  /\ seen' = [seen EXCEPT ![d] = [r \in Rows |-> 0]]
  /\ published' = [published EXCEPT ![d] = {}]

\* claimed_at is read before the claim is sent.
StartRound(d) ==
  /\ phase[d] = "idle"
  /\ phase' = [phase EXCEPT ![d] = "claiming"]
  /\ left' = [left EXCEPT ![d] = Lease]
  /\ UNCHANGED <<rowVars, leased, todo, seen, published, stop, brokerVars>>

TakeLease(batch) ==
  /\ due' = [r \in Rows |-> IF r \in batch THEN Lease ELSE due[r]]
  /\ UNCHANGED <<status, attempts>>

Claim(d) ==
  /\ phase[d] = "claiming"
  /\ \E batch \in SUBSET Rows :
       /\ Claimable(d, batch)
       /\ TakeLease(batch)
       /\ todo' = [todo EXCEPT ![d] = batch]
       /\ seen' = [seen EXCEPT ![d] = [r \in Rows |-> IF r \in batch THEN attempts[r] ELSE 0]]
  /\ phase' = [phase EXCEPT ![d] = "reading"]
  /\ leased' = [leased EXCEPT ![d] = Lease]
  /\ UNCHANGED <<left, published, stop, brokerVars>>

\* Slip: a failed claim ends the task.
ClaimFailsForGood(d) ==
  /\ phase[d] = "claiming"
  /\ UNCHANGED rowVars
  /\ EndRound(d, "stopped")
  /\ UNCHANGED <<stop, brokerVars>>

\* The answer of the claim is an error: the statement committed or it did not.
ClaimFails(d) ==
  /\ phase[d] = "claiming"
  /\ \/ UNCHANGED rowVars
     \/ \E batch \in SUBSET Rows : Claimable(d, batch) /\ TakeLease(batch)
  /\ EndRound(d, "waiting")
  /\ UNCHANGED <<stop, brokerVars>>

\* The loop of claim over the returned rows: an unreadable one is marked failed.
ReadRow(d) ==
  /\ phase[d] = "reading"
  /\ \E r \in todo[d] \cap Unreadable :
       /\ \A q \in todo[d] \cap Unreadable : r <= q
       /\ MarkUnreadable(d, r)
       /\ todo' = [todo EXCEPT ![d] = @ \ {r}]
  /\ UNCHANGED <<phase, left, leased, seen, published, stop, brokerVars>>

\* The mark is answered with an error, and so is the whole claim.
ReadFails(d) ==
  /\ phase[d] = "reading"
  /\ \E r \in todo[d] \cap Unreadable :
       /\ \A q \in todo[d] \cap Unreadable : r <= q
       /\ MarkUnreadable(d, r) \/ UNCHANGED rowVars
  /\ EndRound(d, "waiting")
  /\ UNCHANGED <<stop, brokerVars>>

\* Slip: the deadline is measured from the answer of the claim.
ReadDoneLate(d) ==
  /\ phase[d] = "reading"
  /\ todo[d] \cap Unreadable = {}
  /\ phase' = [phase EXCEPT ![d] = "sending"]
  /\ left' = [left EXCEPT ![d] = Lease]
  /\ UNCHANGED <<rowVars, leased, todo, seen, published, stop, brokerVars>>

ReadDone(d) ==
  /\ phase[d] = "reading"
  /\ todo[d] \cap Unreadable = {}
  /\ phase' = [phase EXCEPT ![d] = "sending"]
  /\ UNCHANGED <<rowVars, left, leased, todo, seen, published, stop, brokerVars>>

\* The head of the loop: the next record in id order is published.
Send(d) ==
  /\ phase[d] = "sending"
  /\ todo[d] # {}
  /\ ~stop[d]
  /\ left[d] > 0
  /\ phase' = [phase EXCEPT ![d] = "publishing"]
  /\ UNCHANGED <<rowVars, left, leased, todo, seen, published, stop, brokerVars>>

\* The loop ends: no record left, a stop, or the lease ran out.
LeaveLoop(d) ==
  /\ phase[d] = "sending"
  /\ todo[d] = {} \/ stop[d] \/ left[d] <= 0
  /\ phase' = [phase EXCEPT ![d] = "marking"]
  /\ todo' = [todo EXCEPT ![d] = {}]
  /\ UNCHANGED <<rowVars, left, leased, seen, published, stop, brokerVars>>

PublishOk(d) ==
  /\ phase[d] = "publishing"
  /\ \E r \in Head(d) :
       /\ stored' = stored \cup {r}
       /\ published' = [published EXCEPT ![d] = @ \cup {r}]
       /\ todo' = [todo EXCEPT ![d] = @ \ {r}]
  /\ phase' = [phase EXCEPT ![d] = "sending"]
  /\ UNCHANGED <<rowVars, left, leased, seen, stop, late>>

\* The broker said no, or its answer was lost on the way.
PublishErr(d) ==
  /\ phase[d] = "publishing"
  /\ late' = late \cup Head(d)
  /\ phase' = [phase EXCEPT ![d] = "returning"]
  /\ UNCHANGED <<rowVars, left, leased, todo, seen, published, stop, stored>>

\* timeout_at: the lease ran out while the broker had not answered.
PublishTimeout(d) ==
  /\ phase[d] = "publishing"
  /\ left[d] <= 0
  /\ late' = late \cup Head(d)
  /\ phase' = [phase EXCEPT ![d] = "marking"]
  /\ todo' = [todo EXCEPT ![d] = {}]
  /\ UNCHANGED <<rowVars, left, leased, seen, published, stop, stored>>

\* Slip: the count leaves out the attempt that just failed.
PutBackMarkLate(d, r) ==
  IF seen[d][r] >= Attempts
  THEN MarkFailed(d, r)
  ELSE \E delay \in RetryDelays : MarkRetry(d, r, delay)

\* put_back; a mark that is answered with an error is only logged.
PutBackMark(d, r) ==
  LET attempt == seen[d][r] + 1
  IN IF attempt >= Attempts
     THEN MarkFailed(d, r)
     ELSE \E delay \in RetryDelays : MarkRetry(d, r, delay)

\* Slip: a row that was put back is listed with the published ones.
LeaveRowAsPublished(d) ==
  /\ phase' = [phase EXCEPT ![d] = "sending"]
  /\ todo' = [todo EXCEPT ![d] = @ \ Head(d)]
  /\ published' = [published EXCEPT ![d] = @ \cup Head(d)]
  /\ UNCHANGED <<left, leased, seen, stop, brokerVars>>

LeaveRow(d) ==
  /\ phase' = [phase EXCEPT ![d] = "sending"]
  /\ todo' = [todo EXCEPT ![d] = @ \ Head(d)]
  /\ UNCHANGED <<left, leased, seen, published, stop, brokerVars>>

PutBack(d) ==
  /\ phase[d] = "returning"
  /\ \E r \in Head(d) : PutBackMark(d, r)
  /\ LeaveRow(d)

PutBackFails(d) ==
  /\ phase[d] = "returning"
  /\ UNCHANGED rowVars
  /\ LeaveRow(d)

\* round is done; a full batch is followed by the next round unless a stop came.
AfterRound(d) ==
  EndRound(d, IF Cardinality(published[d]) = BatchSize /\ ~stop[d]
              THEN "idle" ELSE "waiting")

MarkBatch(d) ==
  /\ phase[d] = "marking"
  /\ MarkDispatched(d, published[d])
  /\ AfterRound(d)
  /\ UNCHANGED <<stop, brokerVars>>

MarkBatchFails(d) ==
  /\ phase[d] = "marking"
  /\ published[d] # {}
  /\ UNCHANGED rowVars
  /\ AfterRound(d)
  /\ UNCHANGED <<stop, brokerVars>>

\* The select of run, biased towards the stop.
PollElapses(d) ==
  /\ phase[d] = "waiting"
  /\ ~stop[d]
  /\ phase' = [phase EXCEPT ![d] = "idle"]
  /\ UNCHANGED <<rowVars, left, leased, todo, seen, published, stop, brokerVars>>

EndRun(d) ==
  /\ phase[d] = "waiting"
  /\ stop[d]
  /\ phase' = [phase EXCEPT ![d] = "stopped"]
  /\ UNCHANGED <<rowVars, left, leased, todo, seen, published, stop, brokerVars>>

Stop(d) ==
  /\ d \in Stoppable
  /\ ~stop[d]
  /\ stop' = [stop EXCEPT ![d] = TRUE]
  /\ UNCHANGED <<rowVars, roundVars, brokerVars>>

\* The process dies and another starts in its place. A mark it had sent takes
\* effect or not; a publish it had sent is left to the broker.
Crash(d) ==
  /\ phase[d] # "idle"
  /\ \/ UNCHANGED rowVars
     \/ phase[d] = "claiming" /\ \E batch \in SUBSET Rows : Claimable(d, batch) /\ TakeLease(batch)
     \/ phase[d] = "returning" /\ \E r \in Head(d) : PutBackMark(d, r)
     \/ phase[d] = "marking" /\ MarkDispatched(d, published[d])
  /\ late' = IF phase[d] = "publishing" THEN late \cup Head(d) ELSE late
  /\ EndRound(d, "idle")
  /\ stop' = [stop EXCEPT ![d] = FALSE]
  /\ UNCHANGED stored

-------------------------------------------------------------------------------
(* The broker, and time *)

BrokerStores(r) ==
  /\ r \in late
  /\ stored' = stored \cup {r}
  /\ late' = late \ {r}
  /\ UNCHANGED <<rowVars, roundVars, stop>>

BrokerLoses(r) ==
  /\ r \in late
  /\ late' = late \ {r}
  /\ UNCHANGED <<rowVars, roundVars, stop, stored>>

Tick ==
  /\ \A d \in Dispatchers : phase[d] \in InRound => left[d] > -StallBound
  /\ due' = [r \in Rows |-> IF due[r] > -AgeBound THEN due[r] - 1 ELSE due[r]]
  /\ left' = [d \in Dispatchers |-> IF phase[d] \in InRound THEN left[d] - 1 ELSE 0]
  /\ leased' = [d \in Dispatchers |-> IF phase[d] \in Holding THEN leased[d] - 1 ELSE 0]
  /\ UNCHANGED <<status, attempts, phase, todo, seen, published, stop, brokerVars>>

-------------------------------------------------------------------------------

Application(r) == Insert(r) \/ EndTransaction(r) \/ SetBack(r)

Dispatch(d) ==
  \/ StartRound(d) \/ Claim(d) \/ ClaimFails(d)
  \/ ReadRow(d) \/ ReadFails(d) \/ ReadDone(d)
  \/ Send(d) \/ LeaveLoop(d)
  \/ PublishOk(d) \/ PublishErr(d) \/ PublishTimeout(d)
  \/ PutBack(d) \/ PutBackFails(d)
  \/ MarkBatch(d) \/ MarkBatchFails(d)
  \/ PollElapses(d) \/ EndRun(d)

Next ==
  \/ \E r \in Rows : Application(r) \/ BrokerStores(r) \/ BrokerLoses(r)
  \/ \E d \in Dispatchers : Dispatch(d) \/ Stop(d) \/ Crash(d)
  \/ Tick

Spec == Init /\ [][Next]_vars

-------------------------------------------------------------------------------
(* Safety *)

TypeOK ==
  /\ status \in [Rows -> Statuses]
  /\ due \in [Rows -> Int]
  /\ attempts \in [Rows -> Nat]
  /\ phase \in [Dispatchers -> Phases]
  /\ left \in [Dispatchers -> Int]
  /\ leased \in [Dispatchers -> Int]
  /\ todo \in [Dispatchers -> SUBSET Rows]
  /\ seen \in [Dispatchers -> [Rows -> Nat]]
  /\ published \in [Dispatchers -> SUBSET Rows]
  /\ stop \in [Dispatchers -> BOOLEAN]
  /\ stored \in SUBSET Rows
  /\ late \in SUBSET Rows

Held(d) == todo[d] \cup published[d]

\* The rows that may have reached the broker or may still reach it.
Sent == stored \cup late \cup UNION {Head(d) : d \in {e \in Dispatchers : phase[e] = "publishing"}}

\* A row whose transaction did not commit never reaches the broker
\* (postgres/outbox.rs insert and claim): the writer's rollback, or its still
\* open transaction, keeps the message in.
OnlyCommittedIsSent == \A r \in Sent : status[r] \in Committed

\* A row marked dispatched is with the broker, whatever failed, was given up or
\* answered late (dispatch.rs round, mark_dispatched).
DispatchedIsStored == \A r \in Rows : status[r] = "dispatched" => r \in stored

\* While the lease of a dispatcher has not run out on its own clock, which it
\* reads before the claim, no other dispatcher whose lease is good works on
\* the same row (dispatch.rs claimed_at and deadline).
LeaseExclusive ==
  \A d, e \in Dispatchers :
    (d # e /\ left[d] > 0 /\ left[e] > 0) => Held(d) \cap Held(e) = {}

LeavesAlone(d, r) ==
  (Fenced(d, r) /\ todo'[d] = todo[d] /\ phase'[d] = phase[d])
    => /\ status'[r] = status[r]
       /\ attempts'[r] = attempts[r]
       /\ due[r] > 0 => due'[r] <= due[r]

HeldLeftAlone == \A d \in Dispatchers : \A r \in Held(d) : LeavesAlone(d, r)

\* A row that a dispatcher holds under the due time its claim set is changed
\* by that dispatcher only, until the lease is over: the mark of a dispatcher
\* whose lease ran out does not overwrite a newer claim (postgres/outbox.rs,
\* the fence of the marks).
NoOverwrite == [][HeldLeftAlone]_vars

CountsAttempt(r) ==
  attempts'[r] # attempts[r] =>
    /\ attempts'[r] = attempts[r] + 1
    /\ r \notin Unreadable => ((status'[r] = "failed") <=> (attempts'[r] >= Attempts))

AllCountAttempts == \A r \in Rows : CountsAttempt(r)

\* Every failed publish that is written down counts one attempt, and a readable
\* row is failed exactly by the attempt that uses up RetryPolicy::attempts,
\* never early and never late, though the count was read at the claim
\* (dispatch.rs put_back).
AttemptsDecide == [][AllCountAttempts]_vars

-------------------------------------------------------------------------------
(* Why it is safe: the parts of the inductive invariant *)

\* Rows are held in a round only, each either still to do or published.
HoldingInv ==
  \A d \in Dispatchers :
    /\ phase[d] \notin Holding => Held(d) = {}
    /\ todo[d] \cap published[d] = {}

\* The dispatcher's clock runs the lease out no later than the database's.
DeadlineInv ==
  \A d \in Dispatchers :
    /\ phase[d] = "claiming" => left[d] <= Lease
    /\ phase[d] \in Holding => left[d] <= leased[d]

\* A held row was committed and has not been moved to before the claim's due
\* time; until that time comes, and while it is the row's, the row is as the
\* claim left it.
Token(d, r) ==
  /\ status[r] \in Committed
  /\ leased[d] <= due[r]
  /\ leased[d] > 0 => leased[d] = due[r]
  /\ leased[d] = due[r] => status[r] = "pending" /\ seen[d][r] = attempts[r]

TokenInv == \A d \in Dispatchers : \A r \in Held(d) : Token(d, r)

\* No two claims of a row set the same due time.
UniqueInv ==
  \A d, e \in Dispatchers :
    d # e => \A r \in Held(d) \cap Held(e) : leased[d] # leased[e]

BrokerInv ==
  /\ \A r \in stored \cup late : status[r] \in Committed
  /\ \A d \in Dispatchers : published[d] \subseteq stored
  /\ DispatchedIsStored

IInv == TypeOK /\ HoldingInv /\ DeadlineInv /\ TokenInv /\ UniqueInv /\ BrokerInv

-------------------------------------------------------------------------------
(* What the outbox promises *)

OutcomeOf(column) ==
  CASE column \in {"absent", "open"} -> "undecided"
    [] column = "rolledback" -> "void"
    [] column = "pending" -> "owed"
    [] column = "dispatched" -> "done"
    [] column = "failed" -> "given up"

outcome == [r \in Rows |-> OutcomeOf(status[r])]

Promise == INSTANCE OutboxPromise WITH delivered <- stored

\* Leases, stale marks, lost answers, stops and crashes of any dispatcher are
\* steps of the outbox's promise or change nothing of it.
KeepsPromise == Promise!Spec

-------------------------------------------------------------------------------
(* Liveness *)

\* Time passes and every dispatcher's task runs on; from some time on there are
\* no more crashes and the rounds end within their lease; and the database does
\* not answer the same statement about a row with an error for ever.
Fairness ==
  /\ WF_vars(Tick)
  /\ <>[][Tick => \A d \in Dispatchers : phase[d] \in InRound => left[d] > 1]_vars
  /\ <>[][\A d \in Dispatchers : ~Crash(d)]_vars
  /\ \A d \in Dispatchers : WF_vars(Dispatch(d))
  /\ \A d \in Dispatchers :
       /\ \A r \in Rows : SF_vars(Claim(d) /\ r \in todo'[d])
       /\ \A r \in Unreadable : SF_vars(r \in todo[d] /\ ReadRow(d))
       /\ \A r \in Rows \ Unreadable : /\ SF_vars(r \in Head(d) /\ PutBack(d))
                                      /\ SF_vars(r \in published[d] /\ MarkBatch(d))

FairSpec == Spec /\ Fairness

\* A committed row is eventually dispatched, or failed for a person to look at,
\* and so is one a person set back (store.rs mark_failed): whatever dispatcher
\* held it and stopped, crashed or fell behind, its lease runs out.
EveryRowIsSettled == \A r \in Rows : status[r] = "pending" ~> status[r] \in {"dispatched", "failed"}

===============================================================================
