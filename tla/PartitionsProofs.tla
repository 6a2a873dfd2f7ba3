---------------------------- MODULE PartitionsProofs ----------------------------
(***************************************************************************)
(* What holds of Partitions for any instances, any intervals and ranges,   *)
(* and any rows.                                                           *)
(***************************************************************************)
EXTENDS Partitions, WellFoundedInduction, TLAPS

USE DEF tableVars, rowVars

-------------------------------------------------------------------------------
(* The inductive invariant, by its parts *)

Part == [from : Int, to : Int]

Pcs == {"asleep", "locking", "listing", "creating", "checking", "looking", "counting", "expiring"}

Fates == Unsent \cup {"none", "open", "dispatched"}

Day == Int

Run == [pc : Pcs, now : Day, existing : SUBSET Part, cursor : Day, failed : BOOLEAN,
        todo : SUBSET Part, clean : SUBSET Part]

\* What an instance knows of its run, and that it knows nothing between runs.
RunInv ==
  /\ run \in [Instances -> Run]
  /\ \A i \in Instances : /\ run[i].now \in 0..today
                          /\ ~InRun(i) => run[i].todo = {} /\ run[i].clean = {}

\* No two tables have a name in common, detached ones included.
NamesInv == \A p, q \in attached \cup archived : p.from = q.from => p = q

\* A row is in the partition that holds its day, and its transaction isn't over
\* its bound.
RowsInv ==
  /\ day \in [Rows -> Int]
  /\ home \in [Rows -> Int \cup {Nowhere, Default, Gone}]
  /\ \A r \in Rows, part \in attached : home[r] = part.from => Covers(part, day[r])
  /\ \A r \in Rows : fate[r] = "open" => today - day[r] <= LongestTransaction

\* A run that no other overlaps is the only one; while other runs go on, no day
\* ahead is promised.
AloneInv ==
  /\ \A i \in alone, j \in Instances : InRun(j) => j = i
  /\ reach \in Int
  /\ \A i \in Instances \ alone : InRun(i) => reach <= today

\* What a run that no other overlaps believes of the table it is filling: it knows
\* every partition but those whose creation it lost sight of, which it is past.
Filling(i) ==
  run[i].pc = "creating" =>
    /\ run[i].existing \subseteq attached
    /\ \A part \in attached \ run[i].existing : part.to <= run[i].cursor
    /\ ~run[i].failed =>
         \A d \in IntervalStart(i, run[i].now)..(run[i].cursor - 1) : Held(attached, d)

\* What it is about to expire are partitions of the table whose days are over.
Doomed(i) ==
  /\ \A part \in run[i].todo \cup run[i].clean :
       part \in attached /\ part.to <= run[i].now - Retention
  /\ run[i].pc = "expiring" => run[i].todo = {}

BeliefsInv == \A i \in alone : Filling(i) /\ Doomed(i)

\* What it has counted has no row to send, nor gets one.
CleanInv ==
  \A i \in alone, r \in Rows : \A part \in run[i].clean :
    home[r] = part.from => fate[r] \notin Unsent \cup {"open"}

TablesInv == TypeOK /\ LockHasARun /\ RunInv /\ NamesInv /\ RowsInv /\ AloneInv

IInv == TablesInv /\ BeliefsInv /\ CoveredAhead

-------------------------------------------------------------------------------
(* Minima, intervals and the next partition *)

\* A set of integers with a lower bound has a least one.
LEMMA MinOfBounded ==
  ASSUME NEW S, S \subseteq Int, S # {}, NEW lo \in Int, \A x \in S : lo <= x
  PROVE  Min(S) \in S /\ \A y \in S : Min(S) <= y
<1> DEFINE T == {x - lo : x \in S}
<1>1. T \subseteq Nat /\ T # {}
  <2>1. \A x \in S : x \in Int /\ x - lo \in Nat
    OBVIOUS
  <2>2. QED
    BY <2>1
<1>2. PICK least \in T : \A y \in T : <<y, least>> \notin OpToRel(<, Nat)
  BY <1>1, WFMin, NatLessThanWellFounded
<1>3. \A y \in T : least <= y
  <2> HIDE DEF T
  <2>1. ASSUME NEW y \in T PROVE ~(y < least)
    <3>1. y \in Nat /\ least \in Nat
      BY <1>1
    <3>2. SUFFICES ASSUME y < least PROVE FALSE
      OBVIOUS
    <3>3. <<y, least>> \in OpToRel(<, Nat)
      BY <3>1, <3>2, Zenon DEF OpToRel
    <3>4. QED
      BY <1>2, <3>3
  <2>2. QED
    BY <1>1, <2>1
<1>4. PICK x \in S : least = x - lo
  OBVIOUS
<1>5. \A y \in S : x <= y
  <2>1. TAKE y \in S
  <2>2. y - lo \in T
    OBVIOUS
  <2>3. x - lo <= y - lo
    BY <1>3, <1>4, <2>2
  <2>4. QED
    BY <2>3
<1>6. QED
  BY <1>5 DEF Min

\* The current interval begins today or before, and the range ahead ends later.
LEMMA Intervals ==
  ASSUME NEW i \in Instances, run[i].now \in 0..LastDay
  PROVE  /\ IntervalStart(i, run[i].now) \in Int /\ IntervalStart(i, run[i].now) <= run[i].now
         /\ RangeEnd(i) \in FirstDays[i] /\ RangeEnd(i) \in Int /\ run[i].now < RangeEnd(i)
<1> DEFINE now == run[i].now
           after == {b \in FirstDays[i] : b > now}
<1>1. now \in Int /\ FirstDays[i] \subseteq Int
  BY SettingsAssumption, DaysAssumption
<1>2. PICK b \in FirstDays[i] : b <= now /\ \A c \in FirstDays[i] : c <= now => c <= b
  BY IntervalsAssumption
<1>3. IntervalStart(i, now) \in Int /\ IntervalStart(i, now) <= now
  <2>1. b \in {c \in FirstDays[i] : c <= now} /\ \A c \in {c \in FirstDays[i] : c <= now} : b >= c
    BY <1>1, <1>2
  <2>2. IntervalStart(i, now) \in {c \in FirstDays[i] : c <= now}
    BY <2>1 DEF IntervalStart, Max
  <2>3. QED
    BY <1>1, <2>2
<1>4. PICK e \in FirstDays[i] :
        e > now /\ Cardinality({c \in FirstDays[i] : now < c /\ c <= e}) = Ahead + 1
  BY IntervalsAssumption
<1>5. {c \in FirstDays[i] : now < c /\ c <= e} = {c \in after : c <= e} /\ e \in after
  BY <1>1, <1>4
<1>6. RangeEnd(i) \in after
  <2>1. \E x \in after : Cardinality({c \in after : c <= x}) = Ahead + 1
    BY <1>4, <1>5
  <2> HIDE DEF after
  <2>2. RangeEnd(i) = CHOOSE x \in after : Cardinality({c \in after : c <= x}) = Ahead + 1
    BY DEF RangeEnd, after
  <2>3. QED
    BY <2>1, <2>2
<1>7. QED
  BY <1>1, <1>3, <1>6

\* The next partition is a proper one, ahead of the cursor, of days that no partition
\* the run knows of holds; those before it, the run knows to be held.
LEMMA NextPartFacts ==
  ASSUME TypeOK, RunInv, NEW i \in Instances, Creating(i)
  PROVE  /\ NextPart(i) \in Part /\ Proper(NextPart(i))
         /\ run[i].cursor <= NextPart(i).from
         /\ \A d \in run[i].cursor..(NextPart(i).from - 1) : Held(run[i].existing, d)
         /\ \A d \in NextPart(i).from..(NextPart(i).to - 1) : ~Held(run[i].existing, d)
<1> DEFINE first == Min(Gaps(i))
           after == {part.from : part \in {q \in run[i].existing : q.from > first}}
           ends == {b \in FirstDays[i] : b > first}
           to == Min(after \cup {IntervalEnd(i, first)})
<1>1. /\ run[i].cursor \in Int /\ run[i].now \in 0..LastDay
      /\ \A q \in run[i].existing : q.from \in Int /\ q.to \in Int
  BY DaysAssumption DEF TypeOK, RunInv, Run, Part, Day
<1>2. RangeEnd(i) \in FirstDays[i] /\ RangeEnd(i) \in Int
  BY <1>1, Intervals
<1>3. first \in Gaps(i) /\ \A d \in Gaps(i) : first <= d
  <2>1. Gaps(i) \subseteq Int /\ Gaps(i) # {} /\ \A d \in Gaps(i) : run[i].cursor <= d
    BY <1>1, <1>2 DEF Gaps, Creating
  <2>2. QED
    BY <1>1, <2>1, MinOfBounded
<1>4. /\ first \in Int /\ run[i].cursor <= first /\ first < RangeEnd(i)
      /\ ~Held(run[i].existing, first)
  BY <1>1, <1>2, <1>3 DEF Gaps
<1>5. \A d \in run[i].cursor..(first - 1) : Held(run[i].existing, d)
  BY <1>1, <1>2, <1>3, <1>4 DEF Gaps
<1>6. IntervalEnd(i, first) \in Int /\ first < IntervalEnd(i, first)
  <2>1. ends \subseteq Int /\ ends # {} /\ \A b \in ends : first <= b
    BY <1>2, <1>4, SettingsAssumption
  <2>2. Min(ends) \in ends
    BY <1>4, <2>1, MinOfBounded
  <2>3. QED
    BY <2>1, <2>2, <1>4 DEF IntervalEnd
<1>7. to \in Int /\ first < to /\ \A q \in run[i].existing : q.from > first => to <= q.from
  <2> DEFINE S == after \cup {IntervalEnd(i, first)}
  <2>1. S \subseteq Int /\ S # {} /\ \A x \in S : first < x
    BY <1>1, <1>4, <1>6
  <2>2. \A q \in run[i].existing : q.from > first => q.from \in S
    OBVIOUS
  <2> HIDE DEF S
  <2>3. Min(S) \in S /\ \A y \in S : Min(S) <= y
    <3>1. \A x \in S : first <= x
      BY <1>4, <2>1
    <3>2. QED
      BY <1>4, <2>1, <3>1, MinOfBounded
  <2>4. to = Min(S)
    BY DEF S
  <2>5. QED
    BY <2>1, <2>2, <2>3, <2>4
<1> HIDE DEF first, to
<1>8. NextPart(i) = [from |-> first, to |-> to]
  BY DEF NextPart, first, to
<1>9. \A d \in first..(to - 1) : ~Held(run[i].existing, d)
  BY <1>1, <1>4, <1>7 DEF Held, Covers
<1>10. QED
  BY <1>4, <1>5, <1>7, <1>8, <1>9 DEF Part, Proper

-------------------------------------------------------------------------------
(* The tables, the rows and the runs *)

LEMMA InitInv == Init => IInv
<1> SUFFICES ASSUME Init PROVE IInv
  OBVIOUS
<1> USE DEF Init
<1>1. TypeOK /\ LockHasARun
  BY DaysAssumption, HoldersAssumption, FirstPartsAssumption DEF TypeOK, LockHasARun, Unsent
<1>2. RunInv
  <2>1. 0 \in Day /\ 0 \in 0..today
    BY DEF Day
  <2>2. NoRun \in Run
    BY <2>1 DEF NoRun, Pcs, Run
  <2>3. QED
    BY <2>1, <2>2 DEF RunInv, NoRun
<1>3. NamesInv
  BY FirstPartsAssumption DEF NamesInv, Apart, Proper
<1>4. RowsInv
  BY FirstPartsAssumption, SettingsAssumption DEF RowsInv, Proper
<1>5. AloneInv /\ BeliefsInv /\ CoveredAhead
  BY DEF AloneInv, BeliefsInv, CoveredAhead, InRun, NoRun
<1>6. QED
  BY <1>1, <1>2, <1>3, <1>4, <1>5 DEF IInv, TablesInv

\* A step of one instance's run leaves the others' runs and the day alone.
LEMMA MaintainRuns ==
  ASSUME TypeOK, RunInv, NEW i \in Instances, Maintain(i)
  PROVE  /\ RunInv' /\ today' = today
         /\ \A j \in Instances \ {i} : run'[j] = run[j]
<1> USE DEF others, tables
<1> DEFINE old == run[i]
           Fits(new) == /\ new \in Run /\ new.now \in 0..today
                        /\ new.pc \in {"asleep", "locking"} => new.todo = {} /\ new.clean = {}
<1>1. /\ today \in Day /\ today \in 0..today /\ 0 \in 0..today
      /\ run \in [Instances -> Run] /\ Fits(old)
  BY DaysAssumption DEF TypeOK, RunInv, InRun, Day
<1>2. attached \subseteq Part
  BY DEF TypeOK, Proper, Part
<1>3. Fits(NoRun) /\ NoRun.now = 0
  <2>1. 0 \in Day
    BY DEF Day
  <2>2. QED
    BY <1>1, <2>1 DEF NoRun, Pcs, Run
<1>4. ASSUME NEW next \in Pcs \ {"asleep", "locking"} PROVE Fits([old EXCEPT !.pc = next])
  BY <1>1 DEF Run
<1>5. \E new : Fits(new) /\ run' = [run EXCEPT ![i] = new] /\ today' = today
  <2>1. CASE Wake(i)
    <3> DEFINE new == [old EXCEPT !.pc = "locking", !.now = today]
    <3>1. run' = [run EXCEPT ![i] = new] /\ today' = today /\ old.pc = "asleep"
      BY <2>1 DEF Wake
    <3>2. new \in Run /\ new.now = today /\ new.todo = old.todo /\ new.clean = old.clean
      BY <1>1 DEF Run, Pcs
    <3>3. QED
      BY <1>1, <3>1, <3>2
  <2>2. CASE TakeLock(i)
    <3>1. run' = [run EXCEPT ![i] = [old EXCEPT !.pc = "listing"]] /\ today' = today
      BY <2>2 DEF TakeLock, Goes
    <3>2. QED
      BY <3>1, <1>4 DEF Pcs
  <2>3. CASE ListFails(i)
    <3>1. run' = [run EXCEPT ![i] = [old EXCEPT !.pc = "checking"]] /\ today' = today
      BY <2>3 DEF ListFails, Goes
    <3>2. QED
      BY <3>1, <1>4 DEF Pcs
  <2>4. CASE List(i)
    <3> DEFINE start == IntervalStart(i, old.now)
               new == [old EXCEPT !.pc = "creating", !.existing = attached, !.cursor = start]
    <3>1. start \in Day
      <4>1. old.now \in 0..LastDay
        BY <1>1, DaysAssumption DEF TypeOK
      <4>2. QED
        BY <4>1, Intervals DEF Day
    <3> HIDE DEF start
    <3>2. run' = [run EXCEPT ![i] = new] /\ today' = today
      BY <2>4 DEF List, start
    <3>3. new \in Run /\ new.now = old.now /\ new.pc = "creating"
      BY <1>1, <1>2, <3>1 DEF Run, Pcs
    <3>4. QED
      BY <1>1, <3>2, <3>3
  <2>5. CASE Create(i) \/ CreateFails(i)
    <3>1. PICK known \in {old.existing, old.existing \cup {NextPart(i)}}, failed \in BOOLEAN :
            /\ run' = [run EXCEPT ![i] = [old EXCEPT !.existing = known, !.cursor = NextPart(i).to,
                                                     !.failed = failed]]
            /\ today' = today
      <4> DEFINE part == NextPart(i)
      <4> HIDE DEF part
      <4>1. ASSUME run' = [run EXCEPT ![i].cursor = part.to, ![i].existing = @ \cup {part}]
            PROVE  run' = [run EXCEPT ![i] = [old EXCEPT !.existing = old.existing \cup {part},
                                                         !.cursor = part.to, !.failed = old.failed]]
        <5>1. [[old EXCEPT !.cursor = part.to] EXCEPT !.existing = old.existing \cup {part}]
              = [old EXCEPT !.existing = old.existing \cup {part}, !.cursor = part.to,
                            !.failed = old.failed]
          BY <1>1 DEF Run
        <5>2. QED
          BY <1>1, <4>1, <5>1 DEF Run
      <4>2. ASSUME run' = [run EXCEPT ![i].cursor = part.to, ![i].failed = TRUE]
            PROVE  run' = [run EXCEPT ![i] = [old EXCEPT !.existing = old.existing,
                                                         !.cursor = part.to, !.failed = TRUE]]
        <5>1. [[old EXCEPT !.cursor = part.to] EXCEPT !.failed = TRUE]
              = [old EXCEPT !.existing = old.existing, !.cursor = part.to, !.failed = TRUE]
          BY <1>1 DEF Run
        <5>2. QED
          BY <1>1, <4>2, <5>1 DEF Run
      <4>3. /\ today' = today
            /\ \/ run' = [run EXCEPT ![i].cursor = part.to, ![i].existing = @ \cup {part}]
               \/ run' = [run EXCEPT ![i].cursor = part.to, ![i].failed = TRUE]
        BY <2>5 DEF Create, CreateFails, part
      <4>4. old.failed \in BOOLEAN
        BY <1>1 DEF Run
      <4>5. QED
        BY <4>1, <4>2, <4>3, <4>4 DEF part
    <3>2. NextPart(i) \in Part /\ NextPart(i).to \in Day
      BY <2>5, NextPartFacts DEF Create, CreateFails, Part, Day
    <3> DEFINE new == [old EXCEPT !.existing = known, !.cursor = NextPart(i).to, !.failed = failed]
    <3>3. new \in Run /\ new.now = old.now /\ new.pc = old.pc /\ new.todo = old.todo
          /\ new.clean = old.clean
      BY <1>1, <3>2 DEF Run
    <3>4. QED
      BY <1>1, <3>1, <3>3
  <2>6. CASE Ensured(i)
    <3> DEFINE new == [NoRun EXCEPT !.pc = "checking", !.now = old.now]
    <3>1. run' = [run EXCEPT ![i] = new] /\ today' = today
      BY <2>6 DEF Ensured
    <3>2. new \in Run /\ new.now = old.now /\ new.pc = "checking"
      BY <1>1, <1>3 DEF Run, Pcs
    <3>3. QED
      BY <1>1, <3>1, <3>2
  <2>7. CASE End(i) /\ today' = today
    BY <1>3, <2>7 DEF End
  <2>8. CASE CheckDefault(i)
    <3>1. \/ End(i) /\ today' = today
          \/ run' = [run EXCEPT ![i] = [old EXCEPT !.pc = "looking"]] /\ today' = today
      BY <2>8 DEF CheckDefault, Goes
    <3>2. QED
      BY <1>4, <2>7, <3>1 DEF Pcs
  <2>9. CASE Look(i)
    <3> DEFINE new == [old EXCEPT !.pc = "counting", !.todo = Expired(i)]
    <3>1. run' = [run EXCEPT ![i] = new] /\ today' = today
      BY <2>9 DEF Look
    <3>2. new \in Run /\ new.now = old.now /\ new.pc = "counting"
      BY <1>1, <1>2 DEF Run, Pcs, Expired
    <3>3. QED
      BY <1>1, <3>1, <3>2
  <2>10. CASE CountUnsent(i)
    <3>1. PICK part \in old.todo :
            \E clean \in {old.clean, old.clean \cup {part}} :
              run' = [run EXCEPT ![i] = [old EXCEPT !.todo = old.todo \ {part}, !.clean = clean]]
      BY <1>1, <2>10 DEF CountUnsent, Oldest, Run
    <3>2. PICK clean \in {old.clean, old.clean \cup {part}} :
              run' = [run EXCEPT ![i] = [old EXCEPT !.todo = old.todo \ {part}, !.clean = clean]]
      BY <3>1
    <3> DEFINE new == [old EXCEPT !.todo = old.todo \ {part}, !.clean = clean]
    <3>3. new \in Run /\ new.now = old.now /\ new.pc = old.pc /\ old.pc = "counting" /\ today' = today
      BY <1>1, <2>10 DEF Run, CountUnsent
    <3>4. QED
      BY <1>1, <3>2, <3>3
  <2>11. CASE Counted(i)
    <3>1. run' = [run EXCEPT ![i] = [old EXCEPT !.pc = "expiring"]] /\ today' = today
      BY <2>11 DEF Counted, Goes
    <3>2. QED
      BY <3>1, <1>4 DEF Pcs
  <2>12. CASE Expire(i) \/ ExpireFails(i)
    <3>1. PICK part \in old.clean :
            /\ run' = [run EXCEPT ![i] = [old EXCEPT !.clean = old.clean \ {part}]]
            /\ today' = today /\ old.pc = "expiring"
      BY <2>12 DEF Expire, ExpireFails, Expiring
    <3> DEFINE new == [old EXCEPT !.clean = old.clean \ {part}]
    <3>2. new \in Run /\ new.now = old.now /\ new.pc = old.pc
      BY <1>1 DEF Run
    <3>3. QED
      BY <1>1, <3>1, <3>2
  <2>13. CASE NoLock(i) \/ Finish(i) \/ Abort(i)
    BY <2>7, <2>13 DEF NoLock, Finish, Abort
  <2>14. QED
    BY <2>1, <2>2, <2>3, <2>4, <2>5, <2>6, <2>8, <2>9, <2>10, <2>11, <2>12, <2>13 DEF Maintain
<1>6. PICK new : Fits(new) /\ run' = [run EXCEPT ![i] = new] /\ today' = today
  BY <1>5
<1>7. QED
  BY <1>1, <1>6 DEF RunInv, InRun

\* Everything about the tables and the rows in them but the fates and the days.
TablesOK ==
  /\ \A part \in attached \cup archived : Proper(part)
  /\ Apart(attached) /\ NamesInv
  /\ \A r \in Rows : home[r] \in {part.from : part \in attached} \cup {Nowhere, Default, Gone}

\* A partition that PostgreSQL takes leaves the tables in order.
LEMMA AttachKeeps ==
  ASSUME TablesOK, RowsInv, NEW part \in Part, Attach(part), UNCHANGED <<today, archived, rowVars>>
  PROVE  TablesOK' /\ RowsInv'
<1>1. /\ attached' = attached \cup {part} /\ Proper(part)
      /\ \A d \in part.from..(part.to - 1) : ~Held(attached, d)
      /\ \A other \in attached \cup archived : other.from # part.from
  BY DEF Attach, Refused
<1>2. \A q \in attached \cup archived : q.from \in Int /\ q.to \in Int /\ q.from < q.to
  BY DEF TablesOK, Proper
<1>3. part.from \in Int /\ part.to \in Int /\ part.from < part.to
  BY <1>1 DEF Proper
<1>4. ASSUME NEW q \in attached PROVE part.to <= q.from \/ q.to <= part.from
  <2>1. SUFFICES ASSUME q.from < part.to, part.from < q.to PROVE FALSE
    BY <1>2, <1>3
  <2>2. PICK d \in part.from..(part.to - 1) : q.from <= d /\ d < q.to
    <3>1. CASE q.from <= part.from
      BY <1>2, <1>3, <2>1, <3>1
    <3>2. CASE part.from < q.from
      <4>1. q.from \in part.from..(part.to - 1) /\ q.from <= q.from /\ q.from < q.to
        BY <1>2, <1>3, <2>1, <3>2
      <4>2. QED
        BY <4>1
    <3>3. QED
      BY <1>2, <1>3, <3>1, <3>2
  <2>3. QED
    BY <1>1, <2>2 DEF Held, Covers
<1>5. Apart(attached')
  BY <1>1, <1>4 DEF TablesOK, Apart
<1>6. \A q \in (attached \cup archived)' : Proper(q)
  BY <1>1 DEF TablesOK
<1>7. NamesInv'
  BY <1>1 DEF TablesOK, NamesInv
<1>8. \A r \in Rows : home[r] # part.from
  BY <1>1, <1>3, SettingsAssumption DEF TablesOK
<1>9. RowsInv'
  BY <1>1, <1>8 DEF RowsInv
<1>10. QED
  BY <1>1, <1>5, <1>6, <1>7, <1>9 DEF TablesOK, Apart

\* So does the expiring of one, whatever the run believed of it.
LEMMA ExpireKeeps ==
  ASSUME TablesOK, RowsInv, NEW i \in Instances, Expire(i)
  PROVE  TablesOK' /\ RowsInv'
<1>1. PICK table \in attached \cup archived :
        /\ attached' = attached \ {table} /\ archived' \subseteq archived \cup {table}
        /\ home' = [r \in Rows |-> IF home[r] = table.from THEN Gone ELSE home[r]]
        /\ UNCHANGED <<today, fate, day>>
  BY DEF Expire
<1>2. attached' \subseteq attached /\ (attached \cup archived)' \subseteq attached \cup archived
  BY <1>1
<1>3. \A r \in Rows, p \in attached' : home'[r] = p.from => home[r] = p.from
  BY <1>1, SettingsAssumption DEF TablesOK, Proper
<1>4. \A r \in Rows : home'[r] \in {part.from : part \in attached'} \cup {Nowhere, Default, Gone}
  BY <1>1 DEF TablesOK
<1>5. TablesOK'
  BY <1>2, <1>4 DEF TablesOK, Apart, NamesInv
<1>6. home' \in [Rows -> Int \cup {Nowhere, Default, Gone}]
  BY <1>1 DEF RowsInv
<1>7. QED
  BY <1>1, <1>2, <1>3, <1>5, <1>6 DEF RowsInv

LEMMA TablesStep ==
  ASSUME TypeOK, RunInv, NamesInv, RowsInv, Next
  PROVE  TablesOK' /\ RowsInv' /\ fate' \in [Rows -> Fates]
<1> USE DEF others, tables
<1> DEFINE Kept == TablesOK' /\ RowsInv' /\ fate' \in [Rows -> Fates]
<1>1. TablesOK /\ today \in Int /\ LongestTransaction \in Int
  BY DaysAssumption DEF TypeOK, TablesOK
<1>2. ASSUME UNCHANGED <<attached, archived, home, day>>, UNCHANGED fate, today' = today
      PROVE  TablesOK' /\ RowsInv'
  BY <1>1, <1>2 DEF TablesOK, RowsInv, NamesInv
<1>3. fate \in [Rows -> Fates] /\ Unsent \cup {"none", "open", "dispatched"} = Fates
  BY DEF TypeOK, Fates
<1>4. CASE Midnight
  BY <1>1, <1>3, <1>4 DEF Midnight, TablesOK, RowsInv, NamesInv
<1>5. CASE SessionEnds \/ LockLost
  BY <1>2, <1>3, <1>5 DEF SessionEnds, LockLost
<1>6. ASSUME NEW r \in Rows, Insert(r) PROVE Kept
  <2>1. PICK d \in (today - LongestTransaction)..today :
          day' = [day EXCEPT ![r] = d] /\ \E to \in HomesOf(d) : home' = [home EXCEPT ![r] = to]
    BY <1>6 DEF Insert
  <2>2. PICK to \in HomesOf(d) : home' = [home EXCEPT ![r] = to]
    BY <2>1
  <2>3. UNCHANGED <<today, attached, archived>> /\ fate' = [fate EXCEPT ![r] = "open"]
    BY <1>6 DEF Insert
  <2>4. /\ to \in {part.from : part \in attached} \cup {Nowhere, Default, Gone}
        /\ \A part \in attached : to = part.from => Covers(part, d)
    BY <1>1, SettingsAssumption DEF HomesOf, TablesOK, NamesInv, Proper
  <2>5. \A part \in attached : part.from \in Int
    BY <1>1 DEF TablesOK, Proper
  <2>6. today - d <= LongestTransaction /\ d \in Int
    BY <1>1, <2>1
  <2>7. home' \in [Rows -> Int \cup {Nowhere, Default, Gone}]
        /\ \A s \in Rows : home'[s] = IF s = r THEN to ELSE home[s]
    BY <2>2, <2>4, <2>5 DEF RowsInv
  <2>8. day' \in [Rows -> Int] /\ \A s \in Rows : day'[s] = IF s = r THEN d ELSE day[s]
    BY <2>1, <2>6 DEF RowsInv
  <2>9. \A s \in Rows : fate'[s] = IF s = r THEN "open" ELSE fate[s]
    BY <1>3, <2>3
  <2>10. TablesOK'
    BY <1>1, <2>3, <2>4, <2>7 DEF TablesOK, NamesInv
  <2>11. \A s \in Rows, part \in attached : home'[s] = part.from => Covers(part, day'[s])
    BY <2>4, <2>7, <2>8 DEF RowsInv
  <2>12. \A s \in Rows : fate'[s] = "open" => today - day'[s] <= LongestTransaction
    BY <2>6, <2>8, <2>9 DEF RowsInv
  <2>13. QED
    BY <1>3, <2>3, <2>7, <2>8, <2>10, <2>11, <2>12 DEF RowsInv
<1>7. ASSUME NEW r \in Rows, Commit(r) \/ Mark(r) PROVE Kept
  <2>1. PICK to \in Unsent \cup {"dispatched"} : SetFate(r, to)
    BY <1>7 DEF Commit, Mark, Unsent
  <2>2. UNCHANGED <<today, attached, archived, home, day>> /\ fate' = [fate EXCEPT ![r] = to]
    BY <2>1 DEF SetFate
  <2>3. \A s \in Rows : fate'[s] = "open" => fate[s] = "open"
    BY <1>3, <2>2 DEF Unsent
  <2>4. QED
    BY <1>1, <1>3, <2>2, <2>3 DEF TablesOK, RowsInv, NamesInv
<1>8. ASSUME NEW r \in Rows, Rollback(r) PROVE Kept
  <2>1. /\ UNCHANGED <<today, attached, archived>> /\ fate' = [fate EXCEPT ![r] = "none"]
        /\ day' = [day EXCEPT ![r] = 0] /\ home' = [home EXCEPT ![r] = Nowhere]
    BY <1>8 DEF Rollback
  <2>2. /\ \A s \in Rows : fate'[s] = "open" => fate[s] = "open" /\ s # r
        /\ \A s \in Rows : home'[s] = Nowhere \/ (home'[s] = home[s] /\ s # r)
        /\ \A s \in Rows : s # r => day'[s] = day[s]
        /\ home' \in [Rows -> Int \cup {Nowhere, Default, Gone}] /\ day' \in [Rows -> Int]
    BY <1>3, <2>1 DEF RowsInv
  <2>3. \A part \in attached : part.from # Nowhere
    BY <1>1, SettingsAssumption DEF TablesOK, Proper
  <2>4. TablesOK'
    BY <1>1, <2>1, <2>2 DEF TablesOK, NamesInv
  <2>5. QED
    BY <1>3, <2>1, <2>2, <2>3, <2>4 DEF RowsInv
<1>9. ASSUME NEW i \in Instances, Maintain(i) PROVE Kept
  <2>1. CASE Create(i) \/ CreateFails(i)
    <3>1. NextPart(i) \in Part
      BY <2>1, NextPartFacts DEF Create, CreateFails
    <3>2. Attach(NextPart(i)) \/ UNCHANGED attached
      BY <2>1 DEF Create, CreateFails
    <3>3. UNCHANGED <<today, archived, rowVars>>
      BY <2>1 DEF Create, CreateFails
    <3>4. QED
      BY <1>1, <1>2, <1>3, <3>1, <3>2, <3>3, AttachKeeps
  <2>2. CASE Expire(i)
    BY <1>1, <1>3, <2>2, ExpireKeeps DEF Expire
  <2>3. CASE ~(Create(i) \/ CreateFails(i) \/ Expire(i))
    <3>1. UNCHANGED tables
      BY <1>9, <2>3 DEF Maintain, Wake, TakeLock, NoLock, List, ListFails, Ensured, CheckDefault,
                        Look, CountUnsent, Counted, ExpireFails, Finish, Abort
    <3>2. QED
      BY <1>2, <1>3, <3>1
  <2>4. QED
    BY <2>1, <2>2, <2>3
<1>10. QED
  BY <1>4, <1>5, <1>6, <1>7, <1>8, <1>9 DEF Next

-------------------------------------------------------------------------------
(* The lock *)

\* What the lock and the ghosts of it may do when no run begins or ends a listing.
LEMMA LocksStep ==
  ASSUME TypeOK, RunInv, AloneInv, LockHasARun, Next
  PROVE  /\ today' \in 0..LastDay /\ lock' \in Instances \cup {Nobody, Closing}
         /\ alone' \subseteq {i \in Instances : InRun(i)}'
         /\ LockHasARun' /\ AloneInv'
<1> USE DEF others, tables
<1> DEFINE Kept == /\ today' \in 0..LastDay /\ lock' \in Instances \cup {Nobody, Closing}
                   /\ \A i \in alone' : i \in Instances /\ InRun(i)'
                   /\ LockHasARun' /\ AloneInv'
<1>1. /\ today \in 0..LastDay /\ lock \in Instances \cup {Nobody, Closing}
      /\ \A i \in alone : i \in Instances /\ InRun(i)
      /\ lock \in Instances => InRun(lock)
      /\ \A i \in alone, j \in Instances : InRun(j) => j = i
      /\ reach \in Int
      /\ \A i \in Instances \ alone : InRun(i) => reach <= today
      /\ Nobody \notin Instances /\ Closing \notin Instances
  BY HoldersAssumption DEF TypeOK, LockHasARun, AloneInv
<1>2. ASSUME UNCHANGED <<lock, alone, reach>>, today' \in {today, today + 1}, today' \in 0..LastDay,
             \A j \in Instances : InRun(j)' <=> InRun(j)
      PROVE  Kept
  BY <1>1, <1>2, DaysAssumption DEF LockHasARun, AloneInv
<1>3. CASE Midnight
  BY <1>1, <1>2, <1>3, DaysAssumption DEF Midnight, InRun
<1>4. CASE SessionEnds \/ LockLost
  BY <1>1, <1>4 DEF SessionEnds, LockLost, InRun, LockHasARun, AloneInv
<1>5. ASSUME NEW r \in Rows, Insert(r) \/ Commit(r) \/ Rollback(r) \/ Mark(r) PROVE Kept
  BY <1>1, <1>2, <1>5 DEF Insert, Commit, Rollback, Mark, SetFate, InRun
<1>6. ASSUME NEW i \in Instances, Maintain(i) PROVE Kept
  <2>1. RunInv' /\ today' = today /\ \A j \in Instances \ {i} : run'[j] = run[j]
    BY <1>6, MaintainRuns
  <2>2. \A j \in Instances \ {i} : InRun(j)' <=> InRun(j)
    BY <2>1 DEF InRun
  <2>3. run \in [Instances -> Run] /\ run[i] \in Run
    BY DEF RunInv
  <2>4. CASE End(i) /\ UNCHANGED reach
    <3>1. ~InRun(i)'
      BY <2>3, <2>4 DEF End, InRun, NoRun
    <3>2. alone' = alone \ {i} /\ lock' = IF lock = i THEN Closing ELSE lock
      BY <2>4 DEF End
    <3>3. QED
      BY <1>1, <2>1, <2>2, <2>4, <3>1, <3>2 DEF LockHasARun, AloneInv
  <2>5. CASE TakeLock(i)
    <3>1. InRun(i)' /\ ~InRun(i) /\ lock' = i
      BY <2>3, <2>5 DEF TakeLock, Goes, InRun, Run
    <3>2. CASE \E j \in Instances : InRun(j)
      <4>1. alone' = {} /\ reach' = today
        BY <2>5, <3>2 DEF TakeLock
      <4>2. QED
        BY <1>1, <2>1, <3>1, <4>1, DaysAssumption DEF LockHasARun, AloneInv
    <3>3. CASE ~\E j \in Instances : InRun(j)
      <4>1. alone' = {i} /\ reach' = reach
        BY <2>5, <3>3 DEF TakeLock
      <4>2. QED
        BY <1>1, <2>1, <2>2, <3>1, <3>3, <4>1 DEF LockHasARun, AloneInv
    <3>4. QED
      BY <3>2, <3>3
  <2>6. CASE Ensured(i)
    <3>1. InRun(i) /\ InRun(i)' /\ UNCHANGED <<lock, alone>>
      BY <2>3, <2>6 DEF Ensured, InRun, NoRun
    <3>2. reach' \in Int /\ (i \notin alone => reach' = reach)
      <4>1. RangeEnd(i) \in Int
        BY <1>1, DaysAssumption, Intervals DEF RunInv
      <4>2. QED
        BY <1>1, <2>6, <4>1 DEF Ensured
    <3>3. CASE i \in alone
      BY <1>1, <2>1, <2>2, <3>1, <3>2, <3>3 DEF LockHasARun, AloneInv
    <3>4. CASE i \notin alone
      BY <1>1, <1>2, <2>1, <2>2, <3>1, <3>2, <3>4
    <3>5. QED
      BY <3>3, <3>4
  <2>7. CASE Wake(i)
    <3>1. ~InRun(i) /\ ~InRun(i)' /\ UNCHANGED <<lock, alone, reach>>
      BY <2>3, <2>7 DEF Wake, InRun, Run
    <3>2. QED
      BY <1>1, <1>2, <2>1, <2>2, <3>1
  <2>8. CASE ListFails(i) \/ Counted(i) \/ List(i) \/ Look(i)
    <3>1. InRun(i) /\ InRun(i)' /\ UNCHANGED <<lock, alone, reach>>
      BY <2>3, <2>8 DEF ListFails, Counted, List, Look, Goes, InRun, Run
    <3>2. QED
      BY <1>1, <1>2, <2>1, <2>2, <3>1
  <2>9. CASE Create(i) \/ CreateFails(i) \/ CountUnsent(i) \/ Expire(i) \/ ExpireFails(i)
    <3>1. run'[i].pc = run[i].pc /\ UNCHANGED <<lock, alone, reach>>
      <4>1. CASE Create(i) \/ CreateFails(i)
        <5>1. PICK to, known : \/ run' = [run EXCEPT ![i].cursor = to, ![i].existing = known]
                               \/ run' = [run EXCEPT ![i].cursor = to, ![i].failed = TRUE]
          BY <4>1 DEF Create, CreateFails
        <5>2. QED
          BY <2>3, <4>1, <5>1 DEF Create, CreateFails, Run
      <4>2. CASE CountUnsent(i)
        BY <2>3, <4>2 DEF CountUnsent, Run
      <4>3. CASE Expire(i) \/ ExpireFails(i)
        BY <2>3, <4>3 DEF Expire, ExpireFails, Run
      <4>4. QED
        BY <2>9, <4>1, <4>2, <4>3
    <3>2. QED
      BY <1>1, <1>2, <2>1, <2>2, <3>1 DEF InRun
  <2>10. CASE CheckDefault(i)
    <3>1. CASE End(i) /\ UNCHANGED reach
      BY <2>4, <3>1
    <3>2. CASE Goes(i, "looking") /\ UNCHANGED <<lock, alone, reach>>
      <4>1. InRun(i) /\ InRun(i)'
        BY <2>3, <2>10, <3>2 DEF CheckDefault, Goes, InRun, Run
      <4>2. QED
        BY <1>1, <1>2, <2>1, <2>2, <3>2, <4>1
    <3>3. QED
      BY <2>10, <3>1, <3>2 DEF CheckDefault
  <2>11. CASE NoLock(i) \/ Finish(i) \/ Abort(i)
    BY <2>4, <2>11 DEF NoLock, Finish, Abort
  <2>12. QED
    BY <1>6, <2>5, <2>6, <2>7, <2>8, <2>9, <2>10, <2>11 DEF Maintain
<1>7. Kept
  BY <1>3, <1>4, <1>5, <1>6 DEF Next
<1>8. QED
  BY <1>7

-------------------------------------------------------------------------------
(* What a run that no other overlaps makes sure of *)

LEMMA CreateKeeps ==
  ASSUME TypeOK, RunInv, NEW i \in Instances, Filling(i), Create(i) \/ CreateFails(i)
  PROVE  Filling(i)'
<1> DEFINE part == NextPart(i)
           old == run[i]
<1>1. /\ part \in Part /\ Proper(part) /\ old.cursor <= part.from
      /\ \A d \in old.cursor..(part.from - 1) : Held(old.existing, d)
      /\ Creating(i)
  BY NextPartFacts DEF Create, CreateFails
<1>2. \/ /\ attached' = attached \cup {part}
         /\ run' = [run EXCEPT ![i].cursor = part.to, ![i].existing = @ \cup {part}]
      \/ /\ attached' = attached \/ attached' = attached \cup {part}
         /\ run' = [run EXCEPT ![i].cursor = part.to, ![i].failed = TRUE]
  BY DEF Create, CreateFails, Attach
<1>3. /\ run \in [Instances -> Run] /\ old \in Run /\ old.cursor \in Int /\ old.now \in 0..LastDay
      /\ part.from \in Int /\ part.to \in Int /\ part.from < part.to
      /\ \A q \in attached : q.to \in Int
  BY <1>1, DaysAssumption DEF TypeOK, RunInv, Run, Day, Proper
<1> HIDE DEF part
<1>4. /\ old.existing \subseteq attached
      /\ \A q \in attached \ old.existing : q.to <= old.cursor
      /\ ~old.failed => \A d \in IntervalStart(i, old.now)..(old.cursor - 1) : Held(attached, d)
  BY <1>1 DEF Filling, Creating
<1>5. IntervalStart(i, old.now) \in Int
  BY <1>3, Intervals
<1>6. CASE /\ attached' = attached \cup {part}
           /\ run' = [run EXCEPT ![i].cursor = part.to, ![i].existing = @ \cup {part}]
  <2>1. /\ run'[i].cursor = part.to /\ run'[i].existing = old.existing \cup {part}
        /\ run'[i].now = old.now /\ run'[i].failed = old.failed
    BY <1>3, <1>6 DEF Run
  <2>2. \A q \in attached' \ run'[i].existing : q.to <= run'[i].cursor
    BY <1>1, <1>3, <1>4, <1>6, <2>1
  <2>3. ASSUME ~old.failed, NEW d \in IntervalStart(i, old.now)..(part.to - 1)
        PROVE  Held(attached', d)
    <3>1. d < old.cursor \/ d \in old.cursor..(part.from - 1) \/ d \in part.from..(part.to - 1)
      BY <1>3, <1>5
    <3>2. CASE d < old.cursor
      BY <1>3, <1>4, <1>5, <1>6, <2>3, <3>2 DEF Held
    <3>3. CASE d \in old.cursor..(part.from - 1)
      BY <1>1, <1>4, <1>6, <3>3 DEF Held
    <3>4. CASE d \in part.from..(part.to - 1)
      BY <1>3, <1>6, <3>4 DEF Held, Covers
    <3>5. QED
      BY <3>1, <3>2, <3>3, <3>4
  <2>4. run'[i].existing \subseteq attached'
    BY <1>4, <1>6, <2>1
  <2>5. QED
    BY <2>1, <2>2, <2>3, <2>4 DEF Filling, Held, IntervalStart
<1>7. CASE /\ attached' = attached \/ attached' = attached \cup {part}
           /\ run' = [run EXCEPT ![i].cursor = part.to, ![i].failed = TRUE]
  <2>1. /\ run'[i].cursor = part.to /\ run'[i].existing = old.existing
        /\ run'[i].failed = TRUE
    BY <1>3, <1>7 DEF Run
  <2>2. \A q \in attached' \ run'[i].existing : q.to <= run'[i].cursor
    BY <1>1, <1>3, <1>4, <1>7, <2>1
  <2>3. run'[i].existing \subseteq attached'
    BY <1>4, <1>7, <2>1
  <2>4. QED
    BY <2>1, <2>2, <2>3 DEF Filling
<1>8. QED
  BY <1>2, <1>6, <1>7

\* Every day from today to the end of the range is held when nothing failed.
LEMMA EnsuredCovers ==
  ASSUME TypeOK, RunInv, NEW i \in alone, Filling(i), Ensured(i), ~run[i].failed
  PROVE  \A d \in today..(RangeEnd(i) - 1) : Held(attached, d)
<1> DEFINE old == run[i]
<1>1. i \in Instances /\ old.pc = "creating" /\ Gaps(i) = {}
  BY DEF Ensured, TypeOK
<1>2. /\ old.now \in 0..today /\ old.now \in 0..LastDay /\ old.cursor \in Int /\ today \in Int
  BY <1>1, DaysAssumption DEF TypeOK, RunInv, Run, Day
<1>3. /\ IntervalStart(i, old.now) \in Int /\ IntervalStart(i, old.now) <= old.now
      /\ RangeEnd(i) \in Int
  BY <1>1, <1>2, Intervals
<1>4. /\ old.existing \subseteq attached
      /\ \A d \in IntervalStart(i, old.now)..(old.cursor - 1) : Held(attached, d)
  BY <1>1 DEF Filling
<1>5. TAKE d \in today..(RangeEnd(i) - 1)
<1>6. CASE d < old.cursor
  BY <1>2, <1>3, <1>4, <1>6
<1>7. CASE old.cursor <= d
  <2>1. Held(old.existing, d)
    BY <1>1, <1>2, <1>3, <1>7 DEF Gaps
  <2>2. QED
    BY <1>4, <2>1 DEF Held
<1>8. QED
  BY <1>2, <1>3, <1>6, <1>7

\* A run that no other overlaps expires the very partitions it looked at.
LEMMA ExpiresItsOwn ==
  ASSUME NamesInv, NEW i \in alone, Doomed(i), Expire(i), run \in [Instances -> Run],
         i \in Instances
  PROVE  \E part \in run[i].clean :
           /\ part \in attached /\ part.to <= run[i].now - Retention
           /\ attached' = attached \ {part}
           /\ home' = [r \in Rows |-> IF home[r] = part.from THEN Gone ELSE home[r]]
           /\ run' = [run EXCEPT ![i].clean = @ \ {part}]
           /\ run[i].todo = {}
<1>1. PICK part \in run[i].clean, table \in attached \cup archived :
        /\ Expiring(i, part) /\ table.from = part.from
        /\ attached' = attached \ {table}
        /\ home' = [r \in Rows |-> IF home[r] = table.from THEN Gone ELSE home[r]]
        /\ run' = [run EXCEPT ![i].clean = @ \ {part}]
  BY DEF Expire
<1>2. part \in attached /\ part.to <= run[i].now - Retention /\ run[i].todo = {}
  BY <1>1 DEF Doomed, Expiring
<1>3. table = part
  BY <1>1, <1>2 DEF NamesInv
<1>4. QED
  BY <1>1, <1>2, <1>3

LEMMA BeliefsStep ==
  ASSUME IInv, Next
  PROVE  BeliefsInv' /\ CoveredAhead'
<1> USE DEF others, tables
<1>1. /\ today \in Int /\ reach \in Int /\ Retention \in Int /\ 0 <= Retention
      /\ alone \subseteq Instances /\ run \in [Instances -> Run]
      /\ \A i \in alone, j \in Instances : InRun(j) => j = i
      /\ \A i \in alone : InRun(i)
      /\ \A i \in Instances \ alone : InRun(i) => reach <= today
      /\ BeliefsInv /\ CoveredAhead /\ NamesInv /\ TypeOK /\ RunInv
  BY DaysAssumption DEF IInv, TablesInv, TypeOK, AloneInv, RunInv
<1>2. ASSUME NEW i \in alone, UNCHANGED attached, run'[i] = run[i]
      PROVE  Filling(i)' /\ Doomed(i)'
  <2>1. Filling(i) /\ Doomed(i)
    BY <1>1 DEF BeliefsInv
  <2>2. QED
    BY <1>2, <2>1 DEF Filling, Doomed, Held, IntervalStart
<1>3. ASSUME UNCHANGED <<attached, run, alone, reach>>, today' \in {today, today + 1}
      PROVE  BeliefsInv' /\ CoveredAhead'
  <2>1. BeliefsInv'
    BY <1>2, <1>3 DEF BeliefsInv
  <2>2. CoveredAhead'
    BY <1>1, <1>3 DEF CoveredAhead, Held
  <2>3. QED
    BY <2>1, <2>2
<1>4. CASE Midnight \/ SessionEnds \/ LockLost
  BY <1>3, <1>4 DEF Midnight, SessionEnds, LockLost
<1>5. ASSUME NEW r \in Rows, Insert(r) \/ Commit(r) \/ Rollback(r) \/ Mark(r)
      PROVE  BeliefsInv' /\ CoveredAhead'
  BY <1>3, <1>5 DEF Insert, Commit, Rollback, Mark, SetFate
<1>6. ASSUME NEW i \in Instances, Maintain(i) PROVE BeliefsInv' /\ CoveredAhead'
  <2>1. RunInv' /\ today' = today /\ \A j \in Instances \ {i} : run'[j] = run[j]
    BY <1>1, <1>6, MaintainRuns
  <2> DEFINE old == run[i]
             new == run'[i]
  <2>2. old \in Run /\ old.now \in 0..today
    BY <1>1 DEF RunInv
  <2>3. CASE End(i) /\ UNCHANGED <<tables, reach>>
    <3>1. alone' \subseteq alone \ {i}
      BY <2>3 DEF End
    <3>2. BeliefsInv'
      BY <1>1, <1>2, <2>1, <2>3, <3>1 DEF BeliefsInv
    <3>3. QED
      BY <1>1, <2>3, <3>2 DEF CoveredAhead
  <2>4. CASE ~InRun(i)
    <3>1. CASE Wake(i)
      <4>1. i \notin alone /\ UNCHANGED <<attached, alone, reach>>
        BY <1>1, <2>4, <3>1 DEF Wake
      <4>2. QED
        BY <1>1, <1>2, <2>1, <4>1 DEF BeliefsInv, CoveredAhead
    <3>2. CASE TakeLock(i)
      <4>1. alone' \subseteq {i} /\ reach' \in {reach, today} /\ UNCHANGED attached
        BY <3>2 DEF TakeLock
      <4>2. old.todo = {} /\ old.clean = {}
        BY <1>1, <2>4 DEF RunInv
      <4>3. new.pc = "listing" /\ new.todo = {} /\ new.clean = {}
        BY <1>1, <2>2, <3>2, <4>2 DEF TakeLock, Goes, Run
      <4>4. Filling(i)' /\ Doomed(i)'
        BY <4>3 DEF Filling, Doomed
      <4>5. CoveredAhead'
        <5>1. \A d \in today..(reach' - 1) : Held(attached, d)
          <6>1. CASE reach' = reach
            BY <1>1, <6>1 DEF CoveredAhead
          <6>2. CASE reach' = today
            BY <1>1, <6>2
          <6>3. QED
            BY <4>1, <6>1, <6>2
        <5>2. QED
          BY <2>1, <4>1, <5>1 DEF CoveredAhead, Held
      <4>6. QED
        BY <4>1, <4>4, <4>5 DEF BeliefsInv
    <3>3. CASE NoLock(i) \/ Abort(i)
      BY <2>3, <3>3 DEF NoLock, Abort
    <3>4. QED
      BY <1>6, <2>4, <3>1, <3>2, <3>3
         DEF Maintain, InRun, List, ListFails, Create, CreateFails, Creating, Ensured, CheckDefault,
             Look, CountUnsent, Counted, Expire, ExpireFails, Expiring, Finish
  <2>5. CASE InRun(i) /\ i \notin alone
    <3>1. alone = {} /\ reach <= today
      BY <1>1, <2>5
    <3>2. alone' = {} /\ reach' = reach
      <4>1. CASE End(i) /\ UNCHANGED reach
        BY <3>1, <4>1 DEF End
      <4>2. CASE UNCHANGED <<alone, reach>>
        BY <3>1, <4>2
      <4>3. QED
        BY <1>6, <2>5, <3>1, <4>1, <4>2
           DEF Maintain, InRun, Wake, TakeLock, NoLock, List, ListFails, Create, CreateFails, Ensured,
               CheckDefault, Look, CountUnsent, Counted, Expire, ExpireFails, Finish, Abort
    <3>3. QED
      BY <1>1, <2>1, <3>1, <3>2 DEF BeliefsInv, CoveredAhead
  <2>6. CASE InRun(i) /\ i \in alone
    <3>1. alone = {i} /\ Filling(i) /\ Doomed(i)
      BY <1>1, <2>6 DEF BeliefsInv
    <3>2. SUFFICES ASSUME ~(End(i) /\ UNCHANGED <<tables, reach>>)
                   PROVE  alone' = {i} /\ Filling(i)' /\ Doomed(i)' /\ CoveredAhead'
      BY <2>3 DEF BeliefsInv
    <3>3. ASSUME UNCHANGED <<attached, alone, reach>>, new.pc # "creating"
          PROVE  alone' = {i} /\ Filling(i)' /\ CoveredAhead'
      BY <2>1, <3>1, <3>3, <1>1 DEF Filling, CoveredAhead, Held
    <3>4. CASE List(i)
      <4>1. /\ new.pc = "creating" /\ new.existing = attached /\ new.now = old.now
            /\ new.todo = old.todo /\ new.clean = old.clean
            /\ new.cursor = IntervalStart(i, old.now)
            /\ UNCHANGED <<attached, alone, reach>>
        BY <1>1, <2>2, <3>4 DEF List, Run
      <4>2. new.cursor \in Int
        BY <2>1 DEF RunInv, Run, Day
      <4>3. Doomed(i)' /\ CoveredAhead' /\ alone' = {i}
        BY <1>1, <2>1, <3>1, <4>1 DEF Doomed, CoveredAhead, Held
      <4>4. QED
        <5>1. \A d \in IntervalStart(i, new.now)..(new.cursor - 1) : FALSE
          BY <4>1, <4>2
        <5>2. QED
          BY <4>1, <4>3, <5>1 DEF Filling, IntervalStart
    <3>5. CASE ListFails(i) \/ (CheckDefault(i) /\ Goes(i, "looking"))
      <4>1. new.pc \in {"checking", "looking"} /\ new.todo = old.todo /\ new.clean = old.clean /\ new.now = old.now
            /\ UNCHANGED <<attached, alone, reach>>
        BY <1>1, <2>2, <3>2, <3>5 DEF ListFails, CheckDefault, Goes, Run
      <4>2. QED
        BY <3>1, <3>3, <4>1 DEF Doomed
    <3>6. CASE Create(i) \/ CreateFails(i)
      <4>1. Filling(i)'
        BY <1>1, <3>1, <3>6, CreateKeeps
      <4>2. attached \subseteq attached' /\ UNCHANGED <<today, alone, reach>>
        BY <3>6 DEF Create, CreateFails, Attach
      <4>3. new.pc = "creating" /\ new.todo = old.todo /\ new.clean = old.clean /\ new.now = old.now
        <5>1. PICK to, known : \/ run' = [run EXCEPT ![i].cursor = to, ![i].existing = known]
                               \/ run' = [run EXCEPT ![i].cursor = to, ![i].failed = TRUE]
          BY <3>6 DEF Create, CreateFails
        <5>2. old.pc = "creating"
          BY <3>6 DEF Create, CreateFails, Creating
        <5>3. QED
          BY <1>1, <2>2, <5>1, <5>2 DEF Run
      <4>4. Doomed(i)' /\ CoveredAhead'
        BY <3>1, <4>2, <4>3, <1>1 DEF Doomed, CoveredAhead, Held
      <4>5. QED
        BY <3>1, <4>1, <4>2, <4>4
    <3>7. CASE Ensured(i)
      <4>1. new.pc = "checking" /\ new.todo = {} /\ new.clean = {} /\ UNCHANGED <<attached, alone>>
        BY <1>1, <3>7 DEF Ensured, NoRun
      <4>2. Filling(i)' /\ Doomed(i)' /\ alone' = {i}
        BY <3>1, <4>1 DEF Filling, Doomed
      <4>3. CASE reach' = reach
        BY <1>1, <2>1, <4>1, <4>2, <4>3 DEF CoveredAhead
      <4>4. CASE reach' = RangeEnd(i) /\ ~old.failed
        BY <1>1, <2>1, <3>1, <3>7, <4>1, <4>2, <4>4, EnsuredCovers DEF CoveredAhead
      <4>5. QED
        BY <3>7, <4>3, <4>4 DEF Ensured
    <3>8. CASE Look(i)
      <4>1. new.pc = "counting" /\ new.todo = Expired(i) /\ new.clean = old.clean /\ new.now = old.now
            /\ UNCHANGED <<attached, alone, reach>>
        BY <1>1, <2>2, <3>8 DEF Look, Run
      <4>2. QED
        BY <3>1, <3>3, <4>1 DEF Doomed, Expired
    <3>9. CASE CountUnsent(i)
      <4>1. new.todo \cup new.clean \subseteq old.todo \cup old.clean /\ new.now = old.now
            /\ new.pc = "counting" /\ UNCHANGED <<attached, alone, reach>>
        BY <1>1, <2>2, <3>9 DEF CountUnsent, Oldest, Run
      <4>2. QED
        BY <3>1, <3>3, <4>1 DEF Doomed
    <3>10. CASE Counted(i)
      <4>1. new.pc = "expiring" /\ new.todo = {} /\ new.clean = old.clean /\ new.now = old.now
            /\ UNCHANGED <<attached, alone, reach>>
        BY <1>1, <2>2, <3>10 DEF Counted, Goes, Run
      <4>2. QED
        BY <3>1, <3>3, <4>1 DEF Doomed
    <3>11. CASE Expire(i)
      <4>1. PICK part \in old.clean :
              /\ part \in attached /\ part.to <= old.now - Retention
              /\ attached' = attached \ {part}
              /\ run' = [run EXCEPT ![i].clean = @ \ {part}]
              /\ old.todo = {}
        BY <1>1, <3>1, <3>11, ExpiresItsOwn
      <4>2. new.pc = "expiring" /\ new.todo = {} /\ new.clean = old.clean \ {part} /\ new.now = old.now
        BY <1>1, <2>2, <3>11, <4>1 DEF Expire, Expiring, Run
      <4>3. UNCHANGED <<today, alone, reach>>
        BY <3>11 DEF Expire
      <4>4. Filling(i)' /\ Doomed(i)'
        BY <3>1, <4>1, <4>2 DEF Filling, Doomed
      <4>5. CoveredAhead'
        <5>1. part.to \in Int
          BY <1>1, <4>1 DEF TypeOK, Proper
        <5>2. ASSUME NEW d \in today..(reach - 1) PROVE Held(attached', d)
          <6>1. PICK q \in attached : Covers(q, d)
            BY <1>1 DEF CoveredAhead, Held
          <6>2. ~Covers(part, d)
            BY <1>1, <2>2, <4>1, <5>1 DEF Covers
          <6>3. QED
            BY <4>1, <6>1, <6>2 DEF Held
        <5>3. QED
          BY <4>3, <5>2 DEF CoveredAhead, Held
      <4>6. QED
        BY <3>1, <4>3, <4>4, <4>5
    <3>12. CASE ExpireFails(i)
      <4>1. new.todo = old.todo /\ new.clean \subseteq old.clean /\ new.now = old.now
            /\ new.pc = old.pc /\ new.pc = "expiring" /\ UNCHANGED <<attached, alone, reach>>
        BY <1>1, <2>2, <3>12 DEF ExpireFails, Expiring, Run
      <4>2. QED
        BY <3>1, <3>3, <4>1 DEF Doomed
    <3>13. QED
      BY <1>6, <2>6, <3>2, <3>4, <3>5, <3>6, <3>7, <3>8, <3>9, <3>10, <3>11, <3>12
         DEF Maintain, InRun, Wake, TakeLock, NoLock, CheckDefault, Finish, Abort
  <2>7. QED
    BY <2>4, <2>5, <2>6
<1>7. QED
  BY <1>4, <1>5, <1>6 DEF Next

-------------------------------------------------------------------------------
(* The theorems *)

LEMMA InvStep == IInv /\ [Next]_vars => IInv'
<1> SUFFICES ASSUME IInv, [Next]_vars PROVE IInv'
  OBVIOUS
<1>1. CASE Next
  <2>1. TypeOK /\ RunInv /\ NamesInv /\ RowsInv /\ AloneInv /\ LockHasARun
    BY DEF IInv, TablesInv
  <2>2. TablesOK' /\ RowsInv' /\ fate' \in [Rows -> Fates]
    BY <1>1, <2>1, TablesStep
  <2>3. /\ today' \in 0..LastDay /\ lock' \in Instances \cup {Nobody, Closing}
        /\ alone' \subseteq {i \in Instances : InRun(i)}'
        /\ LockHasARun' /\ AloneInv'
    BY <1>1, <2>1, LocksStep
  <2>4. BeliefsInv' /\ CoveredAhead'
    BY <1>1, BeliefsStep
  <2>5. RunInv'
    <3>1. ASSUME UNCHANGED run, today' \in {today, today + 1} PROVE RunInv'
      BY <2>1, <3>1, DaysAssumption DEF RunInv, InRun, TypeOK
    <3>2. CASE Midnight \/ SessionEnds \/ LockLost
      BY <3>1, <3>2 DEF Midnight, SessionEnds, LockLost, tables
    <3>3. ASSUME NEW r \in Rows, Insert(r) \/ Commit(r) \/ Rollback(r) \/ Mark(r) PROVE RunInv'
      BY <3>1, <3>3 DEF Insert, Commit, Rollback, Mark, SetFate
    <3>4. ASSUME NEW i \in Instances, Maintain(i) PROVE RunInv'
      BY <2>1, <3>4, MaintainRuns
    <3>5. QED
      BY <1>1, <3>2, <3>3, <3>4 DEF Next
  <2>6. TypeOK'
    BY <2>2, <2>3 DEF TypeOK, TablesOK, Fates
  <2>7. QED
    BY <2>2, <2>3, <2>4, <2>5, <2>6 DEF IInv, TablesInv, TablesOK
<1>2. CASE UNCHANGED vars
  <2>1. UNCHANGED vars
    BY <1>2
  <2>2. TypeOK' /\ LockHasARun' /\ RunInv' /\ NamesInv' /\ AloneInv'
    BY <2>1 DEF vars, IInv, TablesInv, TypeOK, LockHasARun, RunInv, NamesInv, AloneInv, InRun
  <2>3. RowsInv'
    BY <2>1 DEF vars, IInv, TablesInv, RowsInv
  <2>4. BeliefsInv' /\ CoveredAhead'
    BY <2>1 DEF vars, IInv, BeliefsInv, Filling, Doomed, CoveredAhead, Held, IntervalStart
  <2>5. QED
    BY <2>2, <2>3, <2>4 DEF IInv, TablesInv
<1>3. QED
  BY <1>1, <1>2

\* The partitions that the maintenance, the writers and the calendar leave are the
\* ones IInv describes, whatever the instances' intervals and settings.
THEOREM Inductive == Spec => []IInv
<1>1. IInv /\ [Next]_vars => IInv'
  BY InvStep
<1>2. QED
  BY <1>1, InitInv, PTL DEF Spec

\* Partitions never overlap, every row with a partition is in one of the table, and
\* only a run has the lock for itself.
THEOREM TypeCorrect == Spec => []TypeOK
<1>1. IInv => TypeOK
  BY DEF IInv, TablesInv
<1>2. QED
  BY <1>1, Inductive, PTL

\* However a run ended, the lock is not with its session.
THEOREM LockIsARuns == Spec => []LockHasARun
<1>1. IInv => LockHasARun
  BY DEF IInv, TablesInv
<1>2. QED
  BY <1>1, Inductive, PTL

\* The days a run made sure of stay held until two runs overlap.
THEOREM AheadIsCovered == Spec => []CoveredAhead
<1>1. IInv => CoveredAhead
  BY DEF IInv
<1>2. QED
  BY <1>1, Inductive, PTL

\* A run that no other overlaps never asks for a day that is held.
THEOREM OnlyGaps == Spec => GapsOnly
<1>1. IInv /\ [Next]_vars =>
        [\A i \in alone : Creating(i) /\ run'[i].cursor > run[i].cursor =>
           \A d \in NextPart(i).from..(NextPart(i).to - 1) : ~Held(attached, d)]_vars
  <2>1. SUFFICES ASSUME IInv, NEW i \in alone, Creating(i),
                        NEW d \in NextPart(i).from..(NextPart(i).to - 1), Held(attached, d)
                 PROVE  FALSE
    OBVIOUS
  <2>2. TypeOK /\ RunInv /\ i \in Instances /\ Filling(i)
    BY <2>1 DEF IInv, TablesInv, TypeOK, BeliefsInv
  <2>3. /\ NextPart(i).from \in Int /\ NextPart(i).to \in Int /\ run[i].cursor <= NextPart(i).from
        /\ ~Held(run[i].existing, d)
    BY <2>1, <2>2, NextPartFacts DEF Proper
  <2>4. PICK q \in attached : Covers(q, d)
    BY <2>1 DEF Held
  <2>5. q \notin run[i].existing
    BY <2>3, <2>4 DEF Held
  <2>6. q.to <= run[i].cursor
    BY <2>1, <2>2, <2>5 DEF Filling, Creating
  <2>7. run[i].cursor \in Int /\ q.to \in Int
    BY <2>2 DEF RunInv, Run, Day, TypeOK, Proper
  <2>8. QED
    BY <2>1, <2>3, <2>4, <2>6, <2>7 DEF Covers
<1>2. QED
  BY <1>1, Inductive, PTL DEF Spec, GapsOnly

-------------------------------------------------------------------------------
(* Rows that are still to be sent *)

\* The transactions of the writers are no longer than the retention.
ShortTransactions == LongestTransaction <= Retention

\* A transaction of today belongs in no partition that is about to expire, nor does
\* one that is still open.
LEMMA DoomedAreOld ==
  ASSUME ShortTransactions, IInv, NEW i \in alone, NEW part \in run[i].todo \cup run[i].clean
  PROVE  /\ part \in attached /\ part.from \in Int
         /\ \A d \in (today - LongestTransaction)..today : ~Covers(part, d)
         /\ \A r \in Rows : home[r] = part.from => fate[r] # "open"
<1>1. i \in Instances /\ Doomed(i) /\ RowsInv /\ TypeOK /\ RunInv
  BY DEF IInv, TablesInv, TypeOK, BeliefsInv
<1>2. part \in attached /\ part.to <= run[i].now - Retention
  BY <1>1 DEF Doomed
<1>3. /\ part.to \in Int /\ part.from \in Int /\ run[i].now \in 0..today /\ today \in Int
      /\ LongestTransaction \in Int /\ Retention \in Int
  BY <1>1, <1>2, DaysAssumption DEF TypeOK, RunInv, Proper
<1>4. \A d \in (today - LongestTransaction)..today : ~Covers(part, d)
  BY <1>2, <1>3 DEF ShortTransactions, Covers
<1>5. ASSUME NEW r \in Rows, home[r] = part.from, fate[r] = "open" PROVE FALSE
  <2>1. day[r] \in Int /\ Covers(part, day[r]) /\ today - day[r] <= LongestTransaction
    BY <1>1, <1>2, <1>5 DEF RowsInv
  <2>2. QED
    BY <1>2, <1>3, <2>1 DEF ShortTransactions, Covers
<1>6. QED
  BY <1>2, <1>3, <1>4, <1>5

LEMMA CleanStep ==
  ASSUME ShortTransactions, IInv, CleanInv, Next
  PROVE  CleanInv'
<1> USE DEF others, tables
<1>1. /\ alone \subseteq Instances /\ run \in [Instances -> Run] /\ TypeOK /\ RunInv /\ NamesInv
      /\ fate \in [Rows -> Fates] /\ home \in [Rows -> Int \cup {Nowhere, Default, Gone}]
  BY DEF IInv, TablesInv, TypeOK, RunInv, RowsInv, Fates
<1>2. CASE Midnight \/ SessionEnds \/ LockLost
  BY <1>2 DEF Midnight, SessionEnds, LockLost, CleanInv
<1>3. ASSUME NEW r \in Rows, Insert(r) PROVE CleanInv'
  <2>0. PICK d \in (today - LongestTransaction)..today :
          \E to \in HomesOf(d) : home' = [home EXCEPT ![r] = to]
    BY <1>3 DEF Insert
  <2>1. PICK to \in HomesOf(d) : home' = [home EXCEPT ![r] = to]
    BY <2>0
  <2>2. UNCHANGED <<attached, run, alone>> /\ fate' = [fate EXCEPT ![r] = "open"]
    BY <1>3 DEF Insert
  <2>3. ASSUME NEW i \in alone, NEW part \in run[i].clean, to = part.from PROVE FALSE
    <3>1. /\ part \in attached /\ part.from \in Int /\ ~Covers(part, d)
      BY <2>1, DoomedAreOld
    <3>2. Held(attached, d)
      BY <2>1, <2>3, <3>1, SettingsAssumption DEF HomesOf
    <3>3. PICK q \in attached : Covers(q, d) /\ to = q.from
      BY <2>1, <3>2 DEF HomesOf
    <3>4. QED
      BY <1>1, <2>3, <3>1, <3>3 DEF NamesInv
  <2>4. \A s \in Rows : /\ home'[s] = IF s = r THEN to ELSE home[s]
                        /\ s # r => fate'[s] = fate[s]
    BY <1>1, <2>1, <2>2
  <2>5. QED
    BY <2>2, <2>3, <2>4 DEF CleanInv
<1>4. ASSUME NEW r \in Rows, Commit(r) \/ Mark(r) PROVE CleanInv'
  <2>1. PICK to : SetFate(r, to) /\ fate[r] \in Unsent \cup {"open"}
    BY <1>4 DEF Commit, Mark, Unsent
  <2>2. UNCHANGED <<run, alone, home>> /\ \A s \in Rows : s # r => fate'[s] = fate[s]
    BY <1>1, <2>1 DEF SetFate
  <2>3. QED
    BY <2>1, <2>2 DEF CleanInv
<1>5. ASSUME NEW r \in Rows, Rollback(r) PROVE CleanInv'
  <2>1. UNCHANGED <<run, alone>>
        /\ \A s \in Rows : home'[s] = Nowhere \/ (home'[s] = home[s] /\ fate'[s] = fate[s])
    BY <1>1, <1>5 DEF Rollback
  <2>2. \A i \in alone : \A part \in run[i].clean : part.from # Nowhere
    BY DoomedAreOld, SettingsAssumption
  <2>3. QED
    BY <2>1, <2>2 DEF CleanInv
<1>6. ASSUME NEW i \in Instances, Maintain(i) PROVE CleanInv'
  <2>1. /\ \A j \in Instances \ {i} : run'[j] = run[j]
    BY <1>1, <1>6, MaintainRuns
  <2>2. ASSUME UNCHANGED fate, NEW r \in Rows, NEW j \in alone, NEW part \in run[j].clean,
               home'[r] = part.from, home'[r] = home[r] \/ home'[r] = Gone
        PROVE  fate'[r] \notin Unsent \cup {"open"}
    <3>1. part.from # Gone
      BY DoomedAreOld, SettingsAssumption
    <3>2. QED
      BY <2>2, <3>1 DEF CleanInv
  <2>3. ASSUME UNCHANGED fate, alone' \subseteq alone, run'[i].clean \subseteq run[i].clean \/ i \notin alone',
               \A r \in Rows : home'[r] = home[r] \/ home'[r] = Gone
        PROVE  CleanInv'
    <3>1. \A j \in alone' : run'[j].clean \subseteq run[j].clean
      BY <1>1, <2>1, <2>3
    <3>2. QED
      BY <2>2, <2>3, <3>1 DEF CleanInv
  <2>4. UNCHANGED fate
    BY <1>6 DEF Maintain, Wake, TakeLock, NoLock, List, ListFails, Create, CreateFails, Ensured,
                CheckDefault, Look, CountUnsent, Counted, Expire, ExpireFails, Finish, Abort
  <2>5. CASE TakeLock(i)
    <3>1. alone' \subseteq {i} /\ run'[i].clean = {}
      <4>1. run[i].clean = {}
        BY <1>1, <2>5 DEF TakeLock, RunInv, InRun
      <4>2. QED
        BY <1>1, <2>5, <4>1 DEF TakeLock, Goes, Run
    <3>2. QED
      BY <3>1 DEF CleanInv
  <2>6. CASE CountUnsent(i)
    <3>1. PICK part \in run[i].todo :
            run' = [run EXCEPT ![i].todo = @ \ {part},
                               ![i].clean = IF UnsentIn(part) = {} THEN @ \cup {part} ELSE @]
      BY <1>1, <2>6 DEF CountUnsent, Oldest
    <3>2. run'[i].clean = IF UnsentIn(part) = {} THEN run[i].clean \cup {part} ELSE run[i].clean
      BY <1>1, <3>1 DEF Run
    <3>3. UNCHANGED <<alone, home>>
      BY <2>6 DEF CountUnsent
    <3>4. i \in alone => \A r \in Rows : home[r] = part.from => fate[r] # "open"
      BY DoomedAreOld
    <3>5. ASSUME i \in alone, UnsentIn(part) = {}, NEW r \in Rows, home[r] = part.from
          PROVE  fate[r] \notin Unsent \cup {"open"}
      BY <3>4, <3>5 DEF UnsentIn
    <3>6. QED
      BY <1>1, <2>1, <2>4, <3>2, <3>3, <3>5 DEF CleanInv
  <2>7. CASE End(i) /\ UNCHANGED home
    BY <2>3, <2>4, <2>7 DEF End
  <2>8. CASE Expire(i) \/ ExpireFails(i)
    <3>1. /\ UNCHANGED alone
          /\ \E part : run' = [run EXCEPT ![i].clean = @ \ {part}]
          /\ \A r \in Rows : home'[r] = home[r] \/ home'[r] = Gone
      BY <2>8 DEF Expire, ExpireFails
    <3>2. run'[i].clean \subseteq run[i].clean
      BY <1>1, <3>1 DEF Run
    <3>3. QED
      BY <2>3, <2>4, <3>1, <3>2
  <2>9. CASE Wake(i) \/ List(i) \/ ListFails(i) \/ Create(i) \/ CreateFails(i) \/ Ensured(i)
              \/ Look(i) \/ Counted(i)
    <3>1. UNCHANGED <<alone, home>>
      BY <2>9 DEF Wake, List, ListFails, Create, CreateFails, Ensured, Look, Counted
    <3>2. run'[i].clean \subseteq run[i].clean
      <4>1. CASE Wake(i) \/ List(i) \/ ListFails(i) \/ Look(i) \/ Counted(i)
        BY <1>1, <4>1 DEF Wake, List, ListFails, Look, Counted, Goes, Run
      <4>2. CASE Create(i) \/ CreateFails(i)
        <5>1. PICK to, known : \/ run' = [run EXCEPT ![i].cursor = to, ![i].existing = known]
                               \/ run' = [run EXCEPT ![i].cursor = to, ![i].failed = TRUE]
          BY <4>2 DEF Create, CreateFails
        <5>2. QED
          BY <1>1, <5>1 DEF Run
      <4>3. CASE Ensured(i)
        BY <1>1, <4>3 DEF Ensured, NoRun
      <4>4. QED
        BY <2>9, <4>1, <4>2, <4>3
    <3>3. QED
      BY <2>3, <2>4, <3>1, <3>2
  <2>10. CASE CheckDefault(i)
    <3>1. CASE Goes(i, "looking") /\ UNCHANGED <<alone, home>>
      <4>1. run'[i].clean \subseteq run[i].clean
        BY <1>1, <3>1 DEF Goes, Run
      <4>2. QED
        BY <2>3, <2>4, <3>1, <4>1
    <3>2. QED
      BY <2>7, <2>10, <3>1 DEF CheckDefault
  <2>11. CASE NoLock(i) \/ Finish(i) \/ Abort(i)
    BY <2>7, <2>11 DEF NoLock, Finish, Abort
  <2>12. QED
    BY <1>6, <2>5, <2>6, <2>8, <2>9, <2>10, <2>11 DEF Maintain
<1>7. QED
  BY <1>2, <1>3, <1>4, <1>5, <1>6 DEF Next

\* While the writers' transactions are no longer than the retention, what a run that
\* no other overlaps has counted stays without a row to send.
THEOREM CountedStaysClean == ShortTransactions /\ Spec => [](IInv /\ CleanInv)
<1> SUFFICES ASSUME ShortTransactions PROVE Spec => [](IInv /\ CleanInv)
  OBVIOUS
<1>1. Init => CleanInv
  BY DEF Init, CleanInv
<1>2. IInv /\ CleanInv /\ [Next]_vars => CleanInv'
  <2>1. UNCHANGED vars /\ CleanInv => CleanInv'
    BY DEF vars, CleanInv
  <2>2. QED
    BY <2>1, CleanStep
<1>3. QED
  BY <1>1, <1>2, Inductive, PTL DEF Spec

\* Then it expires no partition with a row that is pending, failed or open.
THEOREM SentBeforeExpired == ShortTransactions /\ Spec => OnlySentExpires
<1>1. IInv /\ CleanInv /\ [Next]_vars =>
        [\A i \in alone, r \in Rows :
           Expire(i) /\ home[r] # Gone /\ home'[r] = Gone => fate[r] \notin Unsent \cup {"open"}]_vars
  <2>1. SUFFICES ASSUME IInv, CleanInv, NEW i \in alone, NEW r \in Rows, Expire(i),
                        home[r] # Gone, home'[r] = Gone
                 PROVE  fate[r] \notin Unsent \cup {"open"}
    OBVIOUS
  <2>2. /\ NamesInv /\ Doomed(i) /\ run \in [Instances -> Run] /\ i \in Instances
        /\ home \in [Rows -> Int \cup {Nowhere, Default, Gone}]
    BY <2>1 DEF IInv, TablesInv, BeliefsInv, RunInv, RowsInv, TypeOK
  <2>3. PICK part \in run[i].clean :
          home' = [s \in Rows |-> IF home[s] = part.from THEN Gone ELSE home[s]]
    BY <2>1, <2>2, ExpiresItsOwn
  <2>4. home[r] = part.from
    BY <2>1, <2>3
  <2>5. QED
    BY <2>1, <2>3, <2>4 DEF CleanInv
<1>2. QED
  BY <1>1, CountedStaysClean, PTL DEF OnlySentExpires, Spec

===============================================================================
