------------------------------- MODULE Partitions -------------------------------
(***************************************************************************)
(* The partitions of the outbox table and their maintenance: the worker of *)
(* runtime/maintenance.rs over PostgresPartitions, in several instances    *)
(* with settings of their own, while writers and dispatchers go on.        *)
(***************************************************************************)
EXTENDS Integers, FiniteSets, FiniteSetsExt

CONSTANTS
  Instances,
  FirstDays,   \* the days each instance's intervals start on
  Ahead,       \* how many intervals after the current one
  Retention,   \* retention_days
  OnExpiry,    \* what expiring does for each instance: "detach", "drop", or "keep" for none
  Rows,        \* outbox rows
  LongestTransaction, \* how many midnights a writer's transaction lives through at most
  FirstParts,  \* the partitions the migration made
  LastDay,     \* bound: the last day
  Nowhere, Default, Gone \* homes of a row that are no partition's first day

ASSUME DaysAssumption == /\ Ahead \in Nat
                         /\ Retention \in Nat
                         /\ LongestTransaction \in Nat
                         /\ LastDay \in Nat

ASSUME SettingsAssumption == /\ FirstDays \in [Instances -> SUBSET Int]
                             /\ OnExpiry \in [Instances -> {"detach", "drop", "keep"}]
                             /\ FirstParts \subseteq [from : Int, to : Int]
                             /\ \A h \in {Nowhere, Default, Gone} : h \notin Int
                             /\ Nowhere # Default /\ Nowhere # Gone /\ Default # Gone

VARIABLES
  today,
  attached, archived, \* the partitions of the table, and the tables detached from it
  fate, day, home,    \* of each row: its state, the day of created_at, where it is
  run,                \* what each instance does, and knows of its run
  lock,               \* the session with the advisory lock
  alone,              \* the runs that no other run has overlapped
  reach               \* the first day after those a run made sure of since runs overlapped

tableVars == <<attached, archived>>
rowVars == <<fate, day, home>>
vars == <<today, tableVars, rowVars, run, lock, alone, reach>>

\* now is the day the run began; existing, cursor and failed are
\* ensure_partitions' partitions, next day and first error; todo are the
\* expirable partitions to count, clean those to expire.
NoRun == [pc |-> "asleep", now |-> 0, existing |-> {}, cursor |-> 0,
          failed |-> FALSE, todo |-> {}, clean |-> {}]

\* Holders of the lock that are no instance: nobody; a session that is over and
\* that the server hasn't ended yet.
Nobody == "nobody"
Closing == "closing"

Unsent == {"pending", "failed"}
InRun(i) == run[i].pc \notin {"asleep", "locking"}

Covers(part, d) == part.from <= d /\ d < part.to
Held(parts, d) == \E part \in parts : Covers(part, d)
Oldest(parts) == {part \in parts : \A other \in parts : part.from <= other.from}

\* PostgreSQL takes no empty range.
Proper(part) == part \in [from : Int, to : Int] /\ part.from < part.to

Apart(parts) == \A p, q \in parts : p = q \/ p.to <= q.from \/ q.to <= p.from

\* Every day lies in an interval of each instance, and so does the first day after
\* the ones ahead.
ASSUME IntervalsAssumption ==
  \A i \in Instances, d \in 0..LastDay :
    /\ \E b \in FirstDays[i] : b <= d /\ \A c \in FirstDays[i] : c <= d => c <= b
    /\ \E b \in FirstDays[i] : b > d /\ Cardinality({c \in FirstDays[i] : d < c /\ c <= b}) = Ahead + 1

ASSUME HoldersAssumption == Nobody \notin Instances /\ Closing \notin Instances

\* The partitions of the migration are a table PostgreSQL would take.
ASSUME FirstPartsAssumption == Apart(FirstParts) /\ \A part \in FirstParts : Proper(part)

Init ==
  /\ today = 0
  /\ attached = FirstParts
  /\ archived = {}
  /\ fate = [r \in Rows |-> "none"]
  /\ day = [r \in Rows |-> 0]
  /\ home = [r \in Rows |-> Nowhere]
  /\ run = [i \in Instances |-> NoRun]
  /\ lock = Nobody
  /\ alone = {}
  /\ reach = 0

-------------------------------------------------------------------------------
(* Writers, dispatchers and the calendar *)

\* Slip: the partition is the one named after the day.
HomesByName(d) == IF d \in 0..LastDay THEN {d} ELSE {Default}

HomesOf(d) == IF Held(attached, d) THEN {part.from : part \in {p \in attached : Covers(p, d)}} ELSE {Default}

\* A row goes to the partition that holds the day its transaction began.
Insert(r) ==
  /\ fate[r] = "none"
  /\ \E d \in (today - LongestTransaction)..today :
       /\ day' = [day EXCEPT ![r] = d]
       /\ \E to \in HomesOf(d) : home' = [home EXCEPT ![r] = to]
  /\ fate' = [fate EXCEPT ![r] = "open"]
  /\ UNCHANGED <<today, tableVars, run, lock, alone, reach>>

SetFate(r, to) ==
  /\ fate' = [fate EXCEPT ![r] = to]
  /\ UNCHANGED <<today, tableVars, day, home, run, lock, alone, reach>>

Commit(r) == fate[r] = "open" /\ SetFate(r, "pending")

\* The row may be inserted again.
Rollback(r) ==
  /\ fate[r] = "open"
  /\ fate' = [fate EXCEPT ![r] = "none"]
  /\ day' = [day EXCEPT ![r] = 0]
  /\ home' = [home EXCEPT ![r] = Nowhere]
  /\ UNCHANGED <<today, tableVars, run, lock, alone, reach>>

\* The dispatcher's marks, and the statement that sets a failed row back.
Mark(r) ==
  \/ fate[r] = "pending" /\ home[r] # Gone /\ (SetFate(r, "dispatched") \/ SetFate(r, "failed"))
  \/ fate[r] = "failed" /\ home[r] # Gone /\ SetFate(r, "pending")

Midnight ==
  /\ today < LastDay
  /\ \A r \in Rows : fate[r] = "open" => today + 1 - day[r] <= LongestTransaction
  /\ today' = today + 1
  /\ UNCHANGED <<tableVars, rowVars, run, lock, alone, reach>>

-------------------------------------------------------------------------------
(* A run *)

\* In the steps of a run everything else stays as it is, but for what they name.
tables == <<today, tableVars, rowVars>>
others == <<tables, lock, alone, reach>>

Goes(i, next) == run' = [run EXCEPT ![i].pc = next]

\* Slip: the connection goes back to the pool with the lock.
EndKeepingLock(i) ==
  /\ run' = [run EXCEPT ![i] = NoRun]
  /\ alone' = alone \ {i}
  /\ UNCHANGED lock

\* The lock is dropped, which closes its connection; the server ends the session
\* a little later.
End(i) ==
  /\ run' = [run EXCEPT ![i] = NoRun]
  /\ alone' = alone \ {i}
  /\ lock' = IF lock = i THEN Closing ELSE lock

\* run: an hour is over, or the worker starts.
Wake(i) ==
  /\ run[i].pc = "asleep"
  /\ run' = [run EXCEPT ![i].pc = "locking", ![i].now = today]
  /\ UNCHANGED others

\* try_lock
TakeLock(i) ==
  /\ run[i].pc = "locking"
  /\ lock = Nobody
  /\ lock' = i
  /\ Goes(i, "listing")
  /\ IF \E j \in Instances : InRun(j)
       THEN alone' = {} /\ reach' = today
       ELSE alone' = {i} /\ UNCHANGED reach
  /\ UNCHANGED tables

\* The lock is another's, or the database couldn't be asked.
NoLock(i) ==
  /\ run[i].pc = "locking"
  /\ End(i)
  /\ UNCHANGED <<tables, reach>>

-------------------------------------------------------------------------------
(* ensure_partitions *)

\* PartitionInterval::start and end for the intervals of an instance.
IntervalStart(i, d) == Max({b \in FirstDays[i] : b <= d})
IntervalEnd(i, d) == Min({b \in FirstDays[i] : b > d})

\* The first day after the current interval and the ones ahead of it.
RangeEnd(i) ==
  LET after == {b \in FirstDays[i] : b > run[i].now}
  IN  CHOOSE b \in after : Cardinality({c \in after : c <= b}) = Ahead + 1

\* What the instance knows of the table.
List(i) ==
  /\ run[i].pc = "listing"
  /\ run' = [run EXCEPT ![i].pc = "creating",
                        ![i].existing = attached,
                        ![i].cursor = IntervalStart(i, run[i].now)]
  /\ UNCHANGED others

\* The error is logged and the run goes on.
ListFails(i) ==
  /\ run[i].pc = "listing"
  /\ Goes(i, "checking")
  /\ UNCHANGED others

Gaps(i) == {d \in run[i].cursor..(RangeEnd(i) - 1) : ~Held(run[i].existing, d)}

\* Slip: the interval is asked for whole, up to its end.
NextPartWhole(i) ==
  LET first == Min(Gaps(i)) IN [from |-> first, to |-> IntervalEnd(i, first)]

\* The next stretch that no partition holds, within one interval.
NextPart(i) ==
  LET first == Min(Gaps(i))
      after == {part.from : part \in {q \in run[i].existing : q.from > first}}
  IN  [from |-> first, to |-> Min(after \cup {IntervalEnd(i, first)})]

\* What PostgreSQL refuses: an empty range; days some partition holds, or the default one has
\* committed rows of; a name that is taken.
Refused(part) ==
  \/ ~Proper(part)
  \/ \E d \in part.from..(part.to - 1) : Held(attached, d)
  \/ \E r \in Rows : home[r] = Default /\ fate[r] # "open" /\ Covers(part, day[r])
  \/ \E other \in attached \cup archived : other.from = part.from

\* It waits for the writers in the default partition, without a timeout.
MayCreate == \A r \in Rows : ~(home[r] = Default /\ fate[r] = "open")

Attach(part) == ~Refused(part) /\ attached' = attached \cup {part}

Creating(i) == run[i].pc = "creating" /\ Gaps(i) # {}

Create(i) ==
  LET part == NextPart(i) IN
  /\ Creating(i)
  /\ MayCreate
  /\ \/ /\ Attach(part)
        /\ run' = [run EXCEPT ![i].cursor = part.to, ![i].existing = @ \cup {part}]
     \/ /\ Refused(part) /\ UNCHANGED attached
        /\ run' = [run EXCEPT ![i].cursor = part.to, ![i].failed = TRUE]
  /\ UNCHANGED <<today, archived, rowVars, lock, alone, reach>>

\* Slip: the error of a partition doesn't come back from ensure_partitions.
CreateFailsUnseen(i) ==
  /\ Creating(i)
  /\ run' = [run EXCEPT ![i].cursor = NextPart(i).to]
  /\ UNCHANGED others

\* The statement or its answer is lost; the partition may be there all the same.
CreateFails(i) ==
  LET part == NextPart(i) IN
  /\ Creating(i)
  /\ UNCHANGED attached \/ (MayCreate /\ Attach(part))
  /\ run' = [run EXCEPT ![i].cursor = part.to, ![i].failed = TRUE]
  /\ UNCHANGED <<today, archived, rowVars, lock, alone, reach>>

Ensured(i) ==
  /\ run[i].pc = "creating" /\ Gaps(i) = {}
  /\ run' = [run EXCEPT ![i] = [NoRun EXCEPT !.pc = "checking", !.now = run[i].now]]
  /\ reach' = IF i \in alone /\ ~run[i].failed /\ RangeEnd(i) > reach THEN RangeEnd(i) ELSE reach
  /\ UNCHANGED <<today, tableVars, rowVars, lock, alone>>

-------------------------------------------------------------------------------
(* default_rows, expirable, expire *)

\* The rows of the default partition are counted and warned about.
CheckDefault(i) ==
  /\ run[i].pc = "checking"
  /\ IF OnExpiry[i] = "keep" THEN End(i) ELSE Goes(i, "looking") /\ UNCHANGED <<lock, alone>>
  /\ UNCHANGED <<tables, reach>>

Expired(i) == {part \in attached : part.to <= run[i].now - Retention}

Look(i) ==
  /\ run[i].pc = "looking"
  /\ run' = [run EXCEPT ![i].pc = "counting", ![i].todo = Expired(i)]
  /\ UNCHANGED others

\* Slip: the failed rows aren't counted.
PendingIn(part) == {r \in Rows : home[r] = part.from /\ fate[r] = "pending"}

UnsentIn(part) == {r \in Rows : home[r] = part.from /\ fate[r] \in Unsent}

\* count_unsent, one partition after the other; then the ones to expire are known.
CountUnsent(i) ==
  /\ run[i].pc = "counting"
  /\ \E part \in Oldest(run[i].todo) :
       run' = [run EXCEPT ![i].todo = @ \ {part},
                          ![i].clean = IF UnsentIn(part) = {} THEN @ \cup {part} ELSE @]
  /\ UNCHANGED others

Counted(i) ==
  /\ run[i].pc = "counting" /\ run[i].todo = {}
  /\ Goes(i, "expiring")
  /\ UNCHANGED others

Expiring(i, part) == run[i].pc = "expiring" /\ part \in Oldest(run[i].clean)

\* DETACH or DROP of the table of that name, which waits for its writers.
Expire(i) ==
  \E part \in run[i].clean, table \in attached \cup archived :
    /\ Expiring(i, part)
    /\ table.from = part.from
    /\ \A r \in Rows : ~(home[r] = table.from /\ fate[r] = "open")
    /\ \/ OnExpiry[i] = "detach" /\ table \in attached /\ archived' = archived \cup {table}
       \/ OnExpiry[i] = "drop" /\ archived' = archived \ {table}
    /\ attached' = attached \ {table}
    /\ home' = [r \in Rows |-> IF home[r] = table.from THEN Gone ELSE home[r]]
    /\ run' = [run EXCEPT ![i].clean = @ \ {part}]
    /\ UNCHANGED <<today, fate, day, lock, alone, reach>>

\* The table is gone, or its lock isn't to be had in time.
ExpireFails(i) ==
  \E part \in run[i].clean :
    /\ Expiring(i, part)
    /\ run' = [run EXCEPT ![i].clean = @ \ {part}]
    /\ UNCHANGED others

Finish(i) ==
  /\ run[i].pc = "expiring" /\ run[i].clean = {}
  /\ End(i)
  /\ UNCHANGED <<tables, reach>>

\* An error of default_rows or expirable ends the run; a process that dies leaves
\* its session to the server.
Abort(i) ==
  /\ run[i].pc # "asleep"
  /\ End(i)
  /\ UNCHANGED <<tables, reach>>

-------------------------------------------------------------------------------
(* The session of the lock *)

SessionEnds ==
  /\ lock = Closing
  /\ lock' = Nobody
  /\ UNCHANGED <<tables, run, alone, reach>>

\* The server loses the session of a run that goes on, on other connections.
LockLost ==
  /\ lock \in Instances
  /\ lock' = Nobody
  /\ UNCHANGED <<tables, run, alone, reach>>

-------------------------------------------------------------------------------
\* One run of maintain.
Maintain(i) ==
  \/ Wake(i) \/ TakeLock(i) \/ NoLock(i) \/ List(i) \/ ListFails(i)
  \/ Create(i) \/ CreateFails(i) \/ Ensured(i) \/ CheckDefault(i)
  \/ Look(i) \/ CountUnsent(i) \/ Counted(i) \/ Expire(i) \/ ExpireFails(i)
  \/ Finish(i) \/ Abort(i)

Next ==
  \/ Midnight \/ SessionEnds \/ LockLost
  \/ \E r \in Rows : Insert(r) \/ Commit(r) \/ Rollback(r) \/ Mark(r)
  \/ \E i \in Instances : Maintain(i)

Spec == Init /\ [][Next]_vars

-------------------------------------------------------------------------------
(* Properties *)

\* Every variable keeps to its type, the partitions of the table never overlap,
\* and every row that has one is in a partition of the table.
TypeOK ==
  /\ today \in 0..LastDay
  /\ \A part \in attached \cup archived : Proper(part)
  /\ Apart(attached)
  /\ \A r \in Rows : home[r] \in {part.from : part \in attached} \cup {Nowhere, Default, Gone}
  /\ fate \in [Rows -> Unsent \cup {"none", "open", "dispatched"}]
  /\ lock \in Instances \cup {Nobody, Closing}
  /\ alone \subseteq {i \in Instances : InRun(i)}

\* A run that no other overlaps expires no partition with a row that is pending,
\* failed or still to be committed, whoever commits or sets a row back between
\* its count and its statement ("an outbox partition with pending or failed rows
\* never expires", docs/01-architecture.md; maintenance.rs:26-29). It takes
\* transactions no longer than the retention, as a row's day is the one its
\* transaction began.
OnlySentExpires ==
  [][\A i \in alone, r \in Rows :
       Expire(i) /\ home[r] # Gone /\ home'[r] = Gone => fate[r] \notin Unsent \cup {"open"}]_vars

\* From today on, the days a run made sure of stay held, whatever runs with other
\* intervals create and expire later, "while no other instance does"
\* (maintenance.rs:24-26): of two runs that overlap, one expires by its name what
\* may by then be another, longer partition.
CoveredAhead == \A d \in today..(reach - 1) : Held(attached, d)

\* A run that no other overlaps never asks for a day that a partition holds: it
\* fills the gaps that earlier runs, failures and other intervals left.
GapsOnly ==
  [][\A i \in alone : Creating(i) /\ run'[i].cursor > run[i].cursor =>
       \A d \in NextPart(i).from..(NextPart(i).to - 1) : ~Held(attached, d)]_vars

\* The lock is never with a session whose run is over, however the run ended: it
\* would keep every other instance from the partitions (partitions.rs:182-184).
LockHasARun == lock \in Instances => InRun(lock)

===============================================================================
