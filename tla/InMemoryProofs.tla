----------------------------- MODULE InMemoryProofs -----------------------------
(***************************************************************************)
(* What holds of InMemoryTransport for any messages, endpoints and streams. *)
(***************************************************************************)
EXTENDS InMemoryTransport, SequenceTheorems, FiniteSetTheorems, TLAPS

USE DEF publishVars, notifyVars, doneVars

-------------------------------------------------------------------------------
(* The inductive invariant, by its parts *)

AllTypes == UNION {TypesOf[s] : s \in Streams}

PublishType ==
  /\ types \in [Endpoints -> SUBSET AllTypes]
  /\ published \subseteq Messages /\ failing \in BOOLEAN
  /\ owed \in [Endpoints -> SUBSET Messages]
  /\ \A e \in Endpoints : owed[e] \subseteq published

\* An endpoint has the types its streams subscribed to.
SubscribedInv ==
  \A e \in Endpoints, m \in Messages : TypeOf[m] \in types[e] <=> e \in Subscribed(m)

CopiesType ==
  /\ queue \in [Endpoints -> Seq(Copies)]
  /\ later \in [Endpoints -> SUBSET Copies]
  /\ acked \in [Endpoints -> SUBSET Messages] /\ rejected \in [Endpoints -> SUBSET Messages]
  /\ job \in [Streams -> Copies \cup {Nothing}]
  /\ \A s \in Streams : phase[s] = "handling" <=> job[s] # Nothing

NotifyType ==
  /\ notes \in [Endpoints -> Nat]
  /\ permit \in [Endpoints -> BOOLEAN]
  /\ waiters \in [Endpoints -> Seq(Streams)]
  /\ phase \in [Streams -> Phases]

Once(line) == \A i, j \in DOMAIN line : line[i] = line[j] => i = j

\* The streams that wait are in line, each once, and none is while there is a permit.
LineInv ==
  \A e \in Endpoints :
    /\ Once(waiters[e])
    /\ \A s \in Streams : s \in ToSet(waiters[e]) <=> EndpointOf[s] = e /\ phase[s] = "waiting"
    /\ permit[e] => waiters[e] = <<>>

\* The messages of the copies in a line, each of its own.
MessagesIn(line) == {line[i].message : i \in DOMAIN line}
Distinct(line) == \A i, j \in DOMAIN line : line[i].message = line[j].message => i = j

Delayed(e) == {copy.message : copy \in later[e]}
Handlers(e) == {s \in Streams : EndpointOf[s] = e /\ job[s] # Nothing}
Handled(e) == {job[s].message : s \in Handlers(e)}

\* The copies in one place of an endpoint are of different messages.
DistinctAt(e) ==
  /\ Distinct(queue[e])
  /\ \A c, d \in later[e] : c.message = d.message => c = d
  /\ \A s, t \in Handlers(e) : job[s].message = job[t].message => s = t

Disjoint(a, b, c, d, f) ==
  /\ a \cap (b \cup c \cup d \cup f) = {} /\ b \cap (c \cup d \cup f) = {}
  /\ c \cap (d \cup f) = {} /\ d \cap f = {}

\* What an endpoint is owed is in exactly one of its places.
PlacesAt(e) ==
  /\ Disjoint(MessagesIn(queue[e]), Delayed(e), Handled(e), acked[e], rejected[e])
  /\ owed[e] = MessagesIn(queue[e]) \cup Delayed(e) \cup Handled(e) \cup acked[e] \cup rejected[e]

CopiesInv == \A e \in Endpoints : DistinctAt(e) /\ PlacesAt(e)

Open(e) == {s \in Streams : EndpointOf[s] = e /\ phase[s] \notin {"unsubscribed", "closed"}}

\* While there are copies in a queue, someone will look at it.
AwakeInv ==
  \A e \in Endpoints :
    queue[e] # <<>> /\ notes[e] = 0 /\ Open(e) # {} =>
      permit[e] \/ \E s \in Open(e) : phase[s] \notin {"empty", "waiting"}

IInv == /\ PublishType /\ SubscribedInv /\ CopiesType /\ NotifyType /\ LineInv
        /\ CopiesInv

-------------------------------------------------------------------------------
(* Lines *)

LEMMA LineAppend ==
  ASSUME NEW S, NEW line \in Seq(S), NEW x \in S, Once(line), x \notin ToSet(line)
  PROVE  /\ Append(line, x) \in Seq(S) /\ Once(Append(line, x))
         /\ \A y : y \in ToSet(Append(line, x)) <=> y \in ToSet(line) \/ y = x
<1> DEFINE longer == Append(line, x)
           n == Len(line)
<1>1. /\ n \in Nat /\ DOMAIN line = 1..n
      /\ longer \in Seq(S) /\ Len(longer) = n + 1 /\ DOMAIN longer = 1..(n + 1)
      /\ \A i \in 1..n : longer[i] = line[i]
      /\ longer[n + 1] = x
  BY AppendProperties, LenProperties
<1> HIDE DEF longer, n
<1>2. \A i \in 1..n : line[i] # x
  BY <1>1 DEF ToSet
<1>3. Once(longer)
  BY <1>1, <1>2 DEF Once
<1>4. ASSUME NEW y PROVE y \in ToSet(longer) <=> y \in ToSet(line) \/ y = x
  <2>1. y \in ToSet(longer) <=> \E i \in 1..(n + 1) : longer[i] = y
    BY <1>1 DEF ToSet
  <2>2. y \in ToSet(line) <=> \E i \in 1..n : line[i] = y
    BY <1>1 DEF ToSet
  <2>3. QED
    BY <1>1, <2>1, <2>2
<1>5. QED
  BY <1>1, <1>3, <1>4 DEF longer

LEMMA LineTail ==
  ASSUME NEW S, NEW line \in Seq(S), line # <<>>, Once(line)
  PROVE  /\ Head(line) \in S /\ Tail(line) \in Seq(S) /\ Once(Tail(line))
         /\ Head(line) \in ToSet(line)
         /\ \A y : y \in ToSet(Tail(line)) <=> y \in ToSet(line) /\ y # Head(line)
<1> DEFINE tail == Tail(line)
           n == Len(line)
<1>1. /\ n \in Nat /\ n > 0 /\ DOMAIN line = 1..n
      /\ Head(line) \in S /\ Head(line) = line[1]
      /\ tail \in Seq(S) /\ Len(tail) = n - 1 /\ DOMAIN tail = 1..(n - 1)
      /\ \A i \in 1..(n - 1) : tail[i] = line[i + 1]
  BY HeadTailProperties, LenProperties, EmptySeq
<1> HIDE DEF tail, n
<1>2. \A i, j \in 1..n : line[i] = line[j] => i = j
  BY <1>1 DEF Once
<1>3. Once(tail)
  <2>1. SUFFICES ASSUME NEW i \in 1..(n - 1), NEW j \in 1..(n - 1), tail[i] = tail[j] PROVE i = j
    BY <1>1 DEF Once
  <2>2. i + 1 = j + 1
    BY <1>1, <1>2, <2>1
  <2>3. QED
    BY <2>2
<1>4. ASSUME NEW y PROVE y \in ToSet(tail) <=> y \in ToSet(line) /\ y # Head(line)
  <2>1. y \in ToSet(line) <=> \E i \in 1..n : line[i] = y
    BY <1>1 DEF ToSet
  <2>2. y \in ToSet(tail) <=> \E i \in 1..(n - 1) : line[i + 1] = y
    BY <1>1 DEF ToSet
  <2>3. ASSUME NEW i \in 1..n, line[i] = y, y # line[1] PROVE \E k \in 1..(n - 1) : line[k + 1] = y
    <3>1. i - 1 \in 1..(n - 1) /\ line[(i - 1) + 1] = y
      BY <1>1, <2>3
    <3>2. QED
      BY <3>1
  <2>4. ASSUME NEW k \in 1..(n - 1), line[k + 1] = y
        PROVE  (\E i \in 1..n : line[i] = y) /\ y # line[1]
    BY <1>1, <1>2, <2>4
  <2>5. QED
    BY <1>1, <2>1, <2>2, <2>3, <2>4
<1>5. Head(line) \in ToSet(line)
  BY <1>1 DEF ToSet
<1>6. QED
  BY <1>1, <1>3, <1>4, <1>5 DEF tail

LEMMA LineWithout ==
  ASSUME NEW S, NEW line \in Seq(S), NEW x, Once(line)
  PROVE  /\ Without(line, x) \in Seq(S) /\ Once(Without(line, x))
         /\ \A y : y \in ToSet(Without(line, x)) <=> y \in ToSet(line) /\ y # x
<1>1. CASE x \notin ToSet(line)
  BY <1>1 DEF Without
<1>2. CASE x \in ToSet(line)
  <2> DEFINE n == Len(line)
             k == CHOOSE i \in DOMAIN line : line[i] = x
             front == SubSeq(line, 1, k - 1)
             back == SubSeq(line, k + 1, n)
             rest == front \o back
  <2>1. n \in Nat /\ DOMAIN line = 1..n /\ \A i \in 1..n : line[i] \in S
    BY LenProperties
  <2>2. k \in 1..n /\ line[k] = x
    BY <1>2, <2>1 DEF ToSet
  <2> HIDE DEF n, k
  <2>3. /\ front \in Seq(S) /\ Len(front) = k - 1
        /\ \A i \in 1..(k - 1) : front[i] = line[i]
    <3>1. \A i \in 1..(k - 1) : line[i] \in S
      BY <2>1, <2>2
    <3>2. QED
      BY <2>1, <2>2, <3>1, SubSeqProperties
  <2>4. /\ back \in Seq(S) /\ Len(back) = n - k
        /\ \A i \in 1..(n - k) : back[i] = line[k + i]
    <3>1. \A i \in (k + 1)..n : line[i] \in S
      BY <2>1, <2>2
    <3>2. k + 1 \in Int /\ n \in Int
      BY <2>1, <2>2
    <3>3. /\ back \in Seq(S) /\ Len(back) = IF k + 1 <= n THEN n - (k + 1) + 1 ELSE 0
          /\ \A i \in 1..(n - (k + 1) + 1) : back[i] = line[k + 1 + i - 1]
      BY <3>1, <3>2, SubSeqProperties
    <3>4. QED
      BY <2>1, <2>2, <3>3
  <2> HIDE DEF front, back
  <2>5. /\ rest \in Seq(S) /\ Len(rest) = n - 1 /\ DOMAIN rest = 1..(n - 1)
        /\ \A i \in 1..(n - 1) : rest[i] = IF i < k THEN line[i] ELSE line[i + 1]
    <3>1. /\ rest \in Seq(S) /\ Len(rest) = Len(front) + Len(back)
          /\ \A i \in 1..(Len(front) + Len(back)) :
               rest[i] = IF i <= Len(front) THEN front[i] ELSE back[i - Len(front)]
      BY <2>3, <2>4, ConcatProperties
    <3>2. Len(front) + Len(back) = n - 1
      BY <2>1, <2>2, <2>3, <2>4
    <3>3. ASSUME NEW i \in 1..(n - 1) PROVE rest[i] = IF i < k THEN line[i] ELSE line[i + 1]
      <4>1. CASE i < k
        BY <2>1, <2>2, <2>3, <3>1, <3>2, <4>1
      <4>2. CASE ~(i < k)
        <5>1. i - (k - 1) \in 1..(n - k) /\ k + (i - (k - 1)) = i + 1 /\ ~(i <= k - 1)
          BY <2>1, <2>2, <4>2
        <5>2. rest[i] = back[i - (k - 1)]
          BY <2>3, <3>1, <3>2, <5>1
        <5>3. QED
          BY <2>4, <4>2, <5>1, <5>2
      <4>3. QED
        BY <4>1, <4>2
    <3>4. QED
      BY <3>1, <3>2, <3>3, LenProperties
  <2>6. Without(line, x) = rest
    BY <1>2 DEF Without, RemoveAt, k, n, front, back
  <2> HIDE DEF rest
  <2>7. \A i, j \in 1..n : line[i] = line[j] => i = j
    BY <2>1 DEF Once
  <2>8. Once(rest)
    <3>1. SUFFICES ASSUME NEW i \in 1..(n - 1), NEW j \in 1..(n - 1), rest[i] = rest[j] PROVE i = j
      BY <2>5 DEF Once
    <3> DEFINE at(l) == IF l < k THEN l ELSE l + 1
    <3>2. at(i) \in 1..n /\ at(j) \in 1..n /\ line[at(i)] = line[at(j)]
      BY <2>1, <2>2, <2>5, <3>1
    <3>3. at(i) = at(j)
      BY <2>7, <3>2
    <3>4. QED
      BY <2>2, <3>3
  <2>9. ASSUME NEW y PROVE y \in ToSet(rest) <=> y \in ToSet(line) /\ y # x
    <3>1. y \in ToSet(line) <=> \E i \in 1..n : line[i] = y
      BY <2>1 DEF ToSet
    <3>2. y \in ToSet(rest) <=> \E i \in 1..(n - 1) : rest[i] = y
      BY <2>5 DEF ToSet
    <3>3. ASSUME NEW i \in 1..n, line[i] = y, y # x PROVE \E j \in 1..(n - 1) : rest[j] = y
      <4>1. CASE i < k
        <5>1. i \in 1..(n - 1) /\ rest[i] = y
          BY <2>1, <2>2, <2>5, <3>3, <4>1
        <5>2. QED
          BY <5>1
      <4>2. CASE ~(i < k)
        <5>1. i # k
          BY <2>2, <3>3
        <5>2. i - 1 \in 1..(n - 1) /\ ~(i - 1 < k) /\ (i - 1) + 1 = i
          BY <2>1, <2>2, <4>2, <5>1
        <5>3. rest[i - 1] = y
          BY <2>5, <3>3, <5>2
        <5>4. QED
          BY <5>2, <5>3
      <4>3. QED
        BY <4>1, <4>2
    <3>4. ASSUME NEW j \in 1..(n - 1), rest[j] = y PROVE (\E i \in 1..n : line[i] = y) /\ y # x
      <4> DEFINE at == IF j < k THEN j ELSE j + 1
      <4>1. at \in 1..n /\ line[at] = y /\ at # k
        BY <2>1, <2>2, <2>5, <3>4
      <4> HIDE DEF at
      <4>2. QED
        BY <2>2, <2>7, <4>1
    <3>5. QED
      BY <3>1, <3>2, <3>3, <3>4
  <2>10. QED
    BY <2>5, <2>6, <2>8, <2>9
<1>3. QED
  BY <1>1, <1>2

\* The same of a queue of copies, by their messages.
LEMMA QueueAppend ==
  ASSUME NEW line \in Seq(Copies), NEW x \in Copies, Distinct(line),
         x.message \notin MessagesIn(line)
  PROVE  /\ Append(line, x) \in Seq(Copies) /\ Distinct(Append(line, x))
         /\ MessagesIn(Append(line, x)) = MessagesIn(line) \cup {x.message}
<1> DEFINE longer == Append(line, x)
           n == Len(line)
<1>1. /\ n \in Nat /\ DOMAIN line = 1..n
      /\ longer \in Seq(Copies) /\ Len(longer) = n + 1 /\ DOMAIN longer = 1..(n + 1)
      /\ \A i \in 1..n : longer[i] = line[i]
      /\ longer[n + 1] = x
  BY AppendProperties, LenProperties
<1> HIDE DEF longer, n
<1>2. \A i \in 1..n : line[i].message # x.message
  BY <1>1 DEF MessagesIn
<1>3. Distinct(longer)
  BY <1>1, <1>2 DEF Distinct
<1>4. ASSUME NEW y PROVE y \in MessagesIn(longer) <=> y \in MessagesIn(line) \/ y = x.message
  <2>1. y \in MessagesIn(longer) <=> \E i \in 1..(n + 1) : longer[i].message = y
    BY <1>1 DEF MessagesIn
  <2>2. y \in MessagesIn(line) <=> \E i \in 1..n : line[i].message = y
    BY <1>1 DEF MessagesIn
  <2>3. QED
    BY <1>1, <2>1, <2>2
<1>5. QED
  BY <1>1, <1>3, <1>4 DEF longer

LEMMA QueueTail ==
  ASSUME NEW line \in Seq(Copies), line # <<>>, Distinct(line)
  PROVE  /\ Head(line) \in Copies /\ Tail(line) \in Seq(Copies) /\ Distinct(Tail(line))
         /\ Head(line).message \in MessagesIn(line)
         /\ MessagesIn(Tail(line)) = MessagesIn(line) \ {Head(line).message}
<1> DEFINE tail == Tail(line)
           n == Len(line)
<1>1. /\ n \in Nat /\ n > 0 /\ DOMAIN line = 1..n
      /\ Head(line) \in Copies /\ Head(line) = line[1]
      /\ tail \in Seq(Copies) /\ Len(tail) = n - 1 /\ DOMAIN tail = 1..(n - 1)
      /\ \A i \in 1..(n - 1) : tail[i] = line[i + 1]
  BY HeadTailProperties, LenProperties, EmptySeq
<1> HIDE DEF tail, n
<1>2. \A i, j \in 1..n : line[i].message = line[j].message => i = j
  BY <1>1 DEF Distinct
<1>3. Distinct(tail)
  <2>1. SUFFICES ASSUME NEW i \in 1..(n - 1), NEW j \in 1..(n - 1), tail[i].message = tail[j].message
                 PROVE  i = j
    BY <1>1 DEF Distinct
  <2>2. i + 1 = j + 1
    BY <1>1, <1>2, <2>1
  <2>3. QED
    BY <2>2
<1>4. ASSUME NEW y PROVE y \in MessagesIn(tail) <=> y \in MessagesIn(line) /\ y # Head(line).message
  <2>1. y \in MessagesIn(line) <=> \E i \in 1..n : line[i].message = y
    <3>1. DOMAIN line = 1..n
      BY <1>1
    <3>2. QED
      BY <3>1 DEF MessagesIn
  <2>2. y \in MessagesIn(tail) <=> \E i \in 1..(n - 1) : line[i + 1].message = y
    <3>1. DOMAIN tail = 1..(n - 1) /\ \A i \in 1..(n - 1) : tail[i] = line[i + 1]
      BY <1>1
    <3>2. y \in MessagesIn(tail) <=> \E i \in DOMAIN tail : tail[i].message = y
      BY DEF MessagesIn
    <3>3. QED
      BY <3>1, <3>2, Zenon
  <2>3. ASSUME NEW i \in 1..n, line[i].message = y, y # line[1].message
        PROVE  \E k \in 1..(n - 1) : line[k + 1].message = y
    <3>1. i # 1
      BY <2>3
    <3>2. i \in Int /\ 1 <= i /\ i <= n /\ n \in Int
      BY <1>1
    <3>3. i - 1 \in 1..(n - 1) /\ (i - 1) + 1 = i
      BY <3>1, <3>2
    <3>4. QED
      BY <2>3, <3>3
  <2>4. ASSUME NEW k \in 1..(n - 1), line[k + 1].message = y
        PROVE  (\E i \in 1..n : line[i].message = y) /\ y # line[1].message
    BY <1>1, <1>2, <2>4
  <2>5. QED
    BY <1>1, <2>1, <2>2, <2>3, <2>4
<1>5. Head(line).message \in MessagesIn(line)
  BY <1>1 DEF MessagesIn
<1>6. QED
  BY <1>1, <1>3, <1>4, <1>5 DEF tail

-------------------------------------------------------------------------------
(* Publishing and waiting *)

LEMMA InitInv == Init => IInv /\ AwakeInv
<1> SUFFICES ASSUME Init PROVE IInv /\ AwakeInv
  OBVIOUS
<1> USE DEF Init
<1>1. PublishType /\ CopiesType /\ NotifyType
  <2>1. PublishType
    BY DEF PublishType
  <2>2. CopiesType
    BY DEF CopiesType
  <2>3. NotifyType
    BY DEF NotifyType, Phases
  <2>4. QED
    BY <2>1, <2>2, <2>3
<1>2. SubscribedInv
  BY DEF SubscribedInv, Subscribed
<1>3. LineInv /\ AwakeInv
  BY DEF LineInv, Once, ToSet, AwakeInv, Open
<1>4. CopiesInv
  <2>1. \A e \in Endpoints : MessagesIn(queue[e]) = {} /\ Delayed(e) = {} /\ Handlers(e) = {}
    BY DEF MessagesIn, Delayed, Handlers
  <2>2. \A e \in Endpoints : Handled(e) = {}
    BY <2>1 DEF Handled
  <2>3. \A e \in Endpoints : DistinctAt(e)
    BY <2>1 DEF DistinctAt, Distinct
  <2>4. QED
    BY <2>1, <2>2, <2>3 DEF CopiesInv, PlacesAt, Disjoint
<1>5. QED
  BY <1>1, <1>2, <1>3, <1>4 DEF IInv

\* What publish and subscribe know of the endpoints.
LEMMA PublishStep ==
  ASSUME PublishType, SubscribedInv, NotifyType, LineInv, Next
  PROVE  PublishType' /\ SubscribedInv'
<1> USE DEF NotifyType
<1>1. ASSUME UNCHANGED <<types, published, owed>>, failing' \in BOOLEAN,
             \A s \in Streams : phase'[s] = "unsubscribed" <=> phase[s] = "unsubscribed"
      PROVE  PublishType' /\ SubscribedInv'
  <2>1. PublishType'
    BY <1>1 DEF PublishType
  <2>2. ASSUME NEW m \in Messages PROVE Subscribed(m)' = Subscribed(m)
    BY <1>1 DEF Subscribed
  <2>3. SubscribedInv'
    <3> HIDE DEF NotifyType
    <3>1. QED
      BY <1>1, <2>2 DEF SubscribedInv
  <2>4. QED
    BY <2>1, <2>3
<1>2. ASSUME NEW m \in Messages, Publish(m) PROVE PublishType' /\ SubscribedInv'
  <2>1. /\ UNCHANGED <<types, failing, phase>> /\ published' = published \cup {m}
        /\ owed' = [e \in Endpoints |-> owed[e] \cup (IF e \in Subscribed(m) THEN {m} ELSE {})]
    BY <1>2 DEF Publish
  <2>2. QED
    BY <2>1 DEF PublishType, SubscribedInv, Subscribed
<1>3. ASSUME NEW s \in Streams, Subscribe(s) PROVE PublishType' /\ SubscribedInv'
  <2>1. /\ UNCHANGED <<published, failing, owed>> /\ phase[s] = "unsubscribed"
        /\ types' = [types EXCEPT ![EndpointOf[s]] = @ \cup TypesOf[s]]
        /\ phase' = [phase EXCEPT ![s] = "idle"]
    BY <1>3 DEF Subscribe, Goes
  <2>2. PublishType'
    BY <2>1 DEF PublishType, AllTypes
  <2>3. ASSUME NEW e \in Endpoints, NEW m \in Messages
        PROVE  TypeOf[m] \in types'[e] <=> e \in Subscribed(m)'
    <3>1. TypeOf[m] \in types'[e] <=> TypeOf[m] \in types[e] \/ (e = EndpointOf[s] /\ TypeOf[m] \in TypesOf[s])
      BY <2>1 DEF PublishType
    <3>2. e \in Subscribed(m)' <=> e \in Subscribed(m) \/ (e = EndpointOf[s] /\ TypeOf[m] \in TypesOf[s])
      BY <2>1 DEF Subscribed
    <3>3. QED
      BY <3>1, <3>2 DEF SubscribedInv
  <2>4. QED
    BY <2>2, <2>3 DEF SubscribedInv
<1>4. ASSUME NEW to \in BOOLEAN, FailPublishes(to) PROVE PublishType' /\ SubscribedInv'
  BY <1>1, <1>4 DEF FailPublishes
<1>5. ASSUME NEW e \in Endpoints, NotifyOne(e) \/ \E copy \in later[e] : Due(e, copy)
      PROVE  PublishType' /\ SubscribedInv'
  <2>1. CASE UNCHANGED phase
    BY <1>1, <1>5, <2>1 DEF NotifyOne, Due, PublishType
  <2>2. CASE waiters[e] # <<>> /\ NotifyOne(e)
    <3> DEFINE first == Head(waiters[e])
    <3>1. first \in Streams /\ phase[first] = "waiting"
      <4>1. first \in Streams /\ first \in ToSet(waiters[e])
        BY <2>2, LineTail DEF LineInv
      <4>2. QED
        BY <4>1 DEF LineInv
    <3> HIDE DEF first
    <3>2. phase' = [phase EXCEPT ![first] = "woken"] /\ UNCHANGED publishVars
      BY <2>2 DEF NotifyOne, Goes, first
    <3>3. QED
      BY <1>1, <3>1, <3>2 DEF PublishType
  <2>3. QED
    BY <1>5, <2>1, <2>2 DEF NotifyOne, Due
<1>6. ASSUME NEW s \in Streams, Poll(s) \/ Settle(s) \/ Close(s) PROVE PublishType' /\ SubscribedInv'
  <2>1. PICK next : Goes(s, next) /\ next # "unsubscribed" /\ phase[s] # "unsubscribed" /\ UNCHANGED publishVars
    BY <1>6 DEF Poll, Settle, Close, Take, FindEmpty, Wait, Ack, Retry, Reject, Drop, LetsGo
  <2>2. QED
    BY <1>1, <2>1 DEF Goes, PublishType
<1>7. QED
  BY <1>2, <1>3, <1>4, <1>5, <1>6 DEF Next

\* The line stays the line of the streams that wait, through wakings, waits and
\* streams that are dropped while they wait.
LEMMA LineStep ==
  ASSUME NotifyType, LineInv, Next
  PROVE  NotifyType' /\ LineInv'
<1> USE DEF NotifyType
<1>1. /\ \A s \in Streams : EndpointOf[s] \in Endpoints
      /\ \A e \in Endpoints : waiters[e] \in Seq(Streams) /\ Once(waiters[e])
  BY StreamsAssumption DEF LineInv
<1>2. ASSUME UNCHANGED <<waiters, permit>>, notes' \in [Endpoints -> Nat], phase' \in [Streams -> Phases],
             \A s \in Streams : phase'[s] = "waiting" <=> phase[s] = "waiting"
      PROVE  NotifyType' /\ LineInv'
  BY <1>2 DEF LineInv
<1>3. ASSUME NEW m \in Messages, Publish(m) PROVE NotifyType' /\ LineInv'
  <2>1. UNCHANGED <<waiters, permit, phase>> /\ notes' \in [Endpoints -> Nat]
    BY <1>3 DEF Publish
  <2>2. QED
    BY <1>2, <2>1
<1>4. ASSUME NEW to \in BOOLEAN, FailPublishes(to) PROVE NotifyType' /\ LineInv'
  BY <1>2, <1>4 DEF FailPublishes
<1>5. ASSUME NEW e \in Endpoints, NotifyOne(e) PROVE NotifyType' /\ LineInv'
  <2>1. notes' \in [Endpoints -> Nat]
    BY <1>5 DEF NotifyOne
  <2>2. CASE waiters[e] = <<>>
    <3>1. UNCHANGED <<waiters, phase>> /\ permit' = [permit EXCEPT ![e] = TRUE]
      BY <1>5, <2>2 DEF NotifyOne
    <3>2. QED
      BY <2>1, <2>2, <3>1 DEF LineInv
  <2>3. CASE waiters[e] # <<>>
    <3> DEFINE first == Head(waiters[e])
    <3>1. /\ UNCHANGED permit /\ waiters' = [waiters EXCEPT ![e] = Tail(waiters[e])]
          /\ phase' = [phase EXCEPT ![first] = "woken"]
      BY <1>5, <2>3 DEF NotifyOne, Goes
    <3>2. /\ first \in Streams /\ first \in ToSet(waiters[e])
          /\ Tail(waiters[e]) \in Seq(Streams) /\ Once(Tail(waiters[e]))
          /\ \A s : s \in ToSet(Tail(waiters[e])) <=> s \in ToSet(waiters[e]) /\ s # first
      BY <1>1, <2>3, LineTail
    <3> HIDE DEF first
    <3>3. EndpointOf[first] = e /\ ~permit[e]
      BY <2>3, <3>2 DEF LineInv
    <3>4. /\ waiters' \in [Endpoints -> Seq(Streams)]
          /\ waiters'[e] = Tail(waiters[e]) /\ \A f \in Endpoints \ {e} : waiters'[f] = waiters[f]
      BY <3>1, <3>2
    <3>5. /\ phase' \in [Streams -> Phases]
          /\ \A s \in Streams : phase'[s] = IF s = first THEN "woken" ELSE phase[s]
      BY <3>1, <3>2 DEF Phases
    <3>6. \A f \in Endpoints, s \in Streams :
            s \in ToSet(waiters'[f]) <=> EndpointOf[s] = f /\ phase'[s] = "waiting"
      <4>1. TAKE f \in Endpoints, s \in Streams
      <4>2. s \in ToSet(waiters[f]) <=> EndpointOf[s] = f /\ phase[s] = "waiting"
        BY DEF LineInv
      <4>3. QED
        BY <3>2, <3>3, <3>4, <3>5, <4>2
    <3>7. \A f \in Endpoints : Once(waiters'[f]) /\ (permit'[f] => waiters'[f] = <<>>)
      BY <3>1, <3>2, <3>3, <3>4 DEF LineInv
    <3>8. QED
      BY <2>1, <3>1, <3>4, <3>5, <3>6, <3>7 DEF LineInv
  <2>4. QED
    BY <2>2, <2>3
<1>6. ASSUME NEW e \in Endpoints, NEW copy \in later[e], Due(e, copy) PROVE NotifyType' /\ LineInv'
  <2>1. UNCHANGED <<waiters, permit, phase>> /\ notes' \in [Endpoints -> Nat]
    BY <1>6 DEF Due, Push
  <2>2. QED
    BY <1>2, <2>1
<1>7. ASSUME NEW s \in Streams, Take(s) \/ FindEmpty(s) \/ Settle(s) \/ Subscribe(s)
      PROVE  NotifyType' /\ LineInv'
  <2>1. notes' \in [Endpoints -> Nat]
    BY <1>1, <1>7 DEF Take, FindEmpty, Settle, Ack, Retry, Reject, Drop, LetsGo, Push, Subscribe
  <2>2. PICK next \in Phases \ {"waiting"} :
          Goes(s, next) /\ phase[s] # "waiting" /\ UNCHANGED <<waiters, permit>>
    BY <1>7 DEF Take, FindEmpty, Settle, Ack, Retry, Reject, Drop, LetsGo, Subscribe, Phases
  <2>3. phase' \in [Streams -> Phases]
        /\ \A t \in Streams : phase'[t] = "waiting" <=> phase[t] = "waiting"
    BY <2>2 DEF Goes
  <2>4. QED
    BY <1>2, <2>1, <2>2, <2>3
<1>8. ASSUME NEW s \in Streams, Wait(s) PROVE NotifyType' /\ LineInv'
  <2> DEFINE e == EndpointOf[s]
  <2>1. e \in Endpoints /\ phase[s] = "empty" /\ UNCHANGED notes
    BY <1>1, <1>8 DEF Wait
  <2>2. CASE permit[e]
    <3>1. /\ permit' = [permit EXCEPT ![e] = FALSE] /\ UNCHANGED waiters
          /\ phase' = [phase EXCEPT ![s] = "again"]
      BY <1>8, <2>2 DEF Wait, Goes
    <3>2. phase' \in [Streams -> Phases]
          /\ \A t \in Streams : phase'[t] = "waiting" <=> phase[t] = "waiting"
      BY <2>1, <3>1 DEF Phases
    <3>3. permit' \in [Endpoints -> BOOLEAN] /\ \A f \in Endpoints : permit'[f] => permit[f]
      BY <3>1
    <3>4. QED
      BY <2>1, <3>1, <3>2, <3>3 DEF LineInv
  <2>3. CASE ~permit[e]
    <3>1. /\ UNCHANGED permit /\ waiters' = [waiters EXCEPT ![e] = Append(waiters[e], s)]
          /\ phase' = [phase EXCEPT ![s] = "waiting"]
      BY <1>8, <2>3 DEF Wait, Goes
    <3>2. s \notin ToSet(waiters[e])
      BY <2>1 DEF LineInv
    <3>3. /\ Append(waiters[e], s) \in Seq(Streams) /\ Once(Append(waiters[e], s))
          /\ \A t : t \in ToSet(Append(waiters[e], s)) <=> t \in ToSet(waiters[e]) \/ t = s
      BY <1>1, <2>1, <3>2, LineAppend
    <3> HIDE DEF e
    <3>4. /\ waiters' \in [Endpoints -> Seq(Streams)]
          /\ waiters'[e] = Append(waiters[e], s)
          /\ \A f \in Endpoints \ {e} : waiters'[f] = waiters[f]
      BY <2>1, <3>1, <3>3
    <3>5. /\ phase' \in [Streams -> Phases]
          /\ \A t \in Streams : phase'[t] = IF t = s THEN "waiting" ELSE phase[t]
      BY <3>1 DEF Phases
    <3>6. \A f \in Endpoints, t \in Streams :
            t \in ToSet(waiters'[f]) <=> EndpointOf[t] = f /\ phase'[t] = "waiting"
      <4>1. TAKE f \in Endpoints, t \in Streams
      <4>2. t \in ToSet(waiters[f]) <=> EndpointOf[t] = f /\ phase[t] = "waiting"
        BY DEF LineInv
      <4>3. e = EndpointOf[s]
        BY DEF e
      <4>4. QED
        BY <2>1, <3>3, <3>4, <3>5, <4>2, <4>3
    <3>7. \A f \in Endpoints : Once(waiters'[f]) /\ (permit'[f] => waiters'[f] = <<>>)
      BY <2>3, <3>1, <3>3, <3>4 DEF LineInv
    <3>8. QED
      BY <2>1, <3>1, <3>4, <3>5, <3>6, <3>7 DEF LineInv
  <2>4. QED
    BY <2>2, <2>3
<1>9. ASSUME NEW s \in Streams, Close(s) PROVE NotifyType' /\ LineInv'
  <2> DEFINE e == EndpointOf[s]
             rest == Without(waiters[e], s)
  <2>1. /\ e \in Endpoints /\ UNCHANGED permit
        /\ waiters' = [waiters EXCEPT ![e] = rest]
        /\ phase' = [phase EXCEPT ![s] = "closed"]
    BY <1>1, <1>9 DEF Close, Goes
  <2>2. notes' \in [Endpoints -> Nat]
    BY <2>1, <1>9 DEF Close
  <2>3. /\ rest \in Seq(Streams) /\ Once(rest)
        /\ \A t : t \in ToSet(rest) <=> t \in ToSet(waiters[e]) /\ t # s
    BY <1>1, <2>1, LineWithout
  <2>4. waiters[e] = <<>> => rest = <<>>
    BY DEF Without, ToSet
  <2> HIDE DEF e, rest
  <2>5. /\ waiters' \in [Endpoints -> Seq(Streams)] /\ waiters'[e] = rest
        /\ \A f \in Endpoints \ {e} : waiters'[f] = waiters[f]
    BY <2>1, <2>3
  <2>6. /\ phase' \in [Streams -> Phases]
        /\ \A t \in Streams : phase'[t] = IF t = s THEN "closed" ELSE phase[t]
    BY <2>1 DEF Phases
  <2>7. \A f \in Endpoints, t \in Streams :
          t \in ToSet(waiters'[f]) <=> EndpointOf[t] = f /\ phase'[t] = "waiting"
    <3>1. TAKE f \in Endpoints, t \in Streams
    <3>2. t \in ToSet(waiters[f]) <=> EndpointOf[t] = f /\ phase[t] = "waiting"
      BY DEF LineInv
    <3>3. e = EndpointOf[s]
      BY DEF e
    <3>4. QED
      BY <2>1, <2>3, <2>5, <2>6, <3>2, <3>3
  <2>8. \A f \in Endpoints : Once(waiters'[f]) /\ (permit'[f] => waiters'[f] = <<>>)
    BY <2>1, <2>3, <2>4, <2>5 DEF LineInv
  <2>9. QED
    BY <2>1, <2>2, <2>5, <2>6, <2>7, <2>8 DEF LineInv
<1>10. QED
  BY <1>3, <1>4, <1>5, <1>6, <1>7, <1>8, <1>9 DEF Next, Poll

-------------------------------------------------------------------------------
(* Copies *)

\* An endpoint keeps its copies where they are while nothing happens at it.
LEMMA Elsewhere ==
  ASSUME NEW f \in Endpoints, DistinctAt(f), PlacesAt(f),
         queue'[f] = queue[f], later'[f] = later[f], acked'[f] = acked[f],
         rejected'[f] = rejected[f], owed'[f] = owed[f],
         \A s \in Streams : EndpointOf[s] = f => job'[s] = job[s]
  PROVE  DistinctAt(f)' /\ PlacesAt(f)'
<1>1. Handlers(f)' = Handlers(f) /\ \A s \in Handlers(f) : job'[s] = job[s]
  BY DEF Handlers
<1>2. Handled(f)' = Handled(f)
  BY <1>1 DEF Handled
<1>3. Delayed(f)' = Delayed(f) /\ MessagesIn(queue'[f]) = MessagesIn(queue[f])
  BY DEF Delayed
<1>4. DistinctAt(f)'
  BY <1>1 DEF DistinctAt
<1>5. QED
  BY <1>2, <1>3, <1>4 DEF PlacesAt

\* The next attempt of a copy is a copy of the same message.
LEMMA NextAttemptCopy ==
  ASSUME NEW s \in Streams, job[s] \in Copies, MayComeAgain(s)
  PROVE  NextAttempt(s) \in Copies /\ NextAttempt(s).message = job[s].message
<1> DEFINE N == 1..MaxAttempt
           n == job[s].attempt + 1
<1>1. job[s] \in [message : Messages, attempt : N]
  BY DEF Copies
<1>2. n \in N
  BY <1>1, StreamsAssumption DEF MayComeAgain
<1>3. NextAttempt(s) = [job[s] EXCEPT !.attempt = n]
  BY DEF NextAttempt
<1> HIDE DEF N, n
<1>4. [job[s] EXCEPT !.attempt = n] \in [message : Messages, attempt : N]
      /\ [job[s] EXCEPT !.attempt = n].message = job[s].message
  BY <1>1, <1>2
<1>5. QED
  BY <1>3, <1>4 DEF Copies, N

LEMMA CopiesStep ==
  ASSUME IInv, Next
  PROVE  CopiesType' /\ CopiesInv'
<1> USE DEF CopiesType
<1>1. /\ CopiesType /\ CopiesInv /\ PublishType /\ SubscribedInv /\ NotifyType /\ LineInv
      /\ \A s \in Streams : EndpointOf[s] \in Endpoints
      /\ Nothing \notin Copies
  BY StreamsAssumption DEF IInv, Nothing, Copies
<1>2. ASSUME UNCHANGED <<queue, later, acked, rejected, owed, job>>,
             \A s \in Streams : phase'[s] = "handling" <=> phase[s] = "handling"
      PROVE  CopiesType' /\ CopiesInv'
  <2>1. CopiesType'
    BY <1>1, <1>2
  <2>2. CopiesInv'
    BY <1>1, <1>2, Elsewhere DEF CopiesInv
  <2>3. QED
    BY <2>1, <2>2
<1>3. ASSUME NEW m \in Messages, Publish(m) PROVE CopiesType' /\ CopiesInv'
  <2> DEFINE copy == [message |-> m, attempt |-> 1]
  <2>1. /\ UNCHANGED <<phase, job, later, acked, rejected>>
        /\ m \notin published
        /\ owed' = [e \in Endpoints |-> owed[e] \cup (IF e \in Subscribed(m) THEN {m} ELSE {})]
        /\ queue' = [e \in Endpoints |-> IF TypeOf[m] \in types[e] THEN Append(queue[e], copy) ELSE queue[e]]
    BY <1>3 DEF Publish
  <2>2. copy \in Copies /\ copy.message = m
    BY StreamsAssumption DEF Copies
  <2> HIDE DEF copy
  <2>3. ASSUME NEW e \in Endpoints
        PROVE  queue'[e] \in Seq(Copies) /\ DistinctAt(e)' /\ PlacesAt(e)'
    <3>1. DistinctAt(e) /\ PlacesAt(e) /\ queue[e] \in Seq(Copies)
      BY <1>1 DEF CopiesInv
    <3>2. m \notin owed[e]
      BY <1>1, <2>1 DEF PublishType
    <3>3. CASE TypeOf[m] \in types[e]
      <4>1. queue'[e] = Append(queue[e], copy) /\ owed'[e] = owed[e] \cup {m}
        BY <1>1, <2>1, <3>3 DEF SubscribedInv
      <4>2. /\ Append(queue[e], copy) \in Seq(Copies) /\ Distinct(Append(queue[e], copy))
            /\ MessagesIn(Append(queue[e], copy)) = MessagesIn(queue[e]) \cup {m}
        BY <2>2, <3>1, <3>2, QueueAppend DEF DistinctAt, PlacesAt
      <4>3. Handlers(e)' = Handlers(e) /\ Handled(e)' = Handled(e) /\ Delayed(e)' = Delayed(e)
        BY <2>1 DEF Handlers, Handled, Delayed
      <4>4. DistinctAt(e)'
        BY <2>1, <3>1, <4>1, <4>2, <4>3 DEF DistinctAt
      <4>5. PlacesAt(e)'
        BY <2>1, <3>1, <3>2, <4>1, <4>2, <4>3 DEF PlacesAt, Disjoint
      <4>6. QED
        BY <4>1, <4>2, <4>4, <4>5
    <3>4. CASE TypeOf[m] \notin types[e]
      <4>1. queue'[e] = queue[e] /\ owed'[e] = owed[e]
        BY <1>1, <2>1, <3>4 DEF SubscribedInv
      <4>2. QED
        BY <2>1, <3>1, <4>1, Elsewhere
    <3>5. QED
      BY <3>3, <3>4
  <2>4. CopiesType'
    BY <1>1, <2>1, <2>3
  <2>5. QED
    BY <2>3, <2>4 DEF CopiesInv
<1>4. ASSUME NEW e \in Endpoints, NEW copy \in later[e], Due(e, copy) PROVE CopiesType' /\ CopiesInv'
  <2>1. /\ UNCHANGED <<owed, phase, job, acked, rejected>>
        /\ later' = [later EXCEPT ![e] = later[e] \ {copy}]
        /\ queue' = [queue EXCEPT ![e] = Append(queue[e], copy)]
    BY <1>4 DEF Due, Push
  <2>2. DistinctAt(e) /\ PlacesAt(e) /\ queue[e] \in Seq(Copies) /\ copy \in Copies
    BY <1>1 DEF CopiesInv
  <2>3. copy.message \in Delayed(e)
    BY DEF Delayed
  <2>4. /\ Append(queue[e], copy) \in Seq(Copies) /\ Distinct(Append(queue[e], copy))
        /\ MessagesIn(Append(queue[e], copy)) = MessagesIn(queue[e]) \cup {copy.message}
    BY <2>2, <2>3, QueueAppend DEF DistinctAt, PlacesAt, Disjoint
  <2>5. queue'[e] = Append(queue[e], copy) /\ later'[e] = later[e] \ {copy}
    BY <1>1, <2>1
  <2>6. Delayed(e)' = Delayed(e) \ {copy.message}
    BY <2>2, <2>5 DEF Delayed, DistinctAt
  <2>7. Handlers(e)' = Handlers(e) /\ Handled(e)' = Handled(e)
    BY <2>1 DEF Handlers, Handled
  <2>8. DistinctAt(e)'
    BY <2>1, <2>2, <2>4, <2>5, <2>7 DEF DistinctAt
  <2>9. PlacesAt(e)'
    BY <2>1, <2>2, <2>3, <2>4, <2>5, <2>6, <2>7 DEF PlacesAt, Disjoint
  <2>10. CopiesType'
    BY <1>1, <2>1, <2>4
  <2>11. \A f \in Endpoints \ {e} : DistinctAt(f)' /\ PlacesAt(f)'
    <3>1. TAKE f \in Endpoints \ {e}
    <3>2. queue'[f] = queue[f] /\ later'[f] = later[f]
      BY <1>1, <2>1
    <3>3. QED
      BY <1>1, <2>1, <3>2, Elsewhere DEF CopiesInv
  <2>12. QED
    BY <2>8, <2>9, <2>10, <2>11 DEF CopiesInv
<1>5. ASSUME NEW s \in Streams, Take(s) PROVE CopiesType' /\ CopiesInv'
  <2> DEFINE e == EndpointOf[s]
             copy == Head(queue[e])
  <2>1. /\ e \in Endpoints /\ queue[e] # <<>> /\ phase[s] # "handling"
        /\ UNCHANGED <<owed, later, acked, rejected>>
        /\ queue' = [queue EXCEPT ![e] = Tail(queue[e])]
        /\ job' = [job EXCEPT ![s] = copy] /\ phase' = [phase EXCEPT ![s] = "handling"]
    BY <1>1, <1>5 DEF Take, Goes
  <2>2. DistinctAt(e) /\ PlacesAt(e) /\ queue[e] \in Seq(Copies)
    BY <1>1, <2>1 DEF CopiesInv
  <2>3. /\ copy \in Copies /\ Tail(queue[e]) \in Seq(Copies) /\ Distinct(Tail(queue[e]))
        /\ copy.message \in MessagesIn(queue[e])
        /\ MessagesIn(Tail(queue[e])) = MessagesIn(queue[e]) \ {copy.message}
    BY <2>1, <2>2, QueueTail DEF DistinctAt
  <2>4. e = EndpointOf[s]
    OBVIOUS
  <2> HIDE DEF e, copy
  <2>5. queue'[e] = Tail(queue[e])
    BY <1>1, <2>1
  <2>6. /\ job[s] = Nothing /\ job'[s] = copy /\ copy # Nothing
        /\ \A t \in Streams \ {s} : job'[t] = job[t]
    BY <1>1, <2>1, <2>3
  <2>7. Handlers(e)' = Handlers(e) \cup {s} /\ s \notin Handlers(e)
    BY <2>4, <2>6 DEF Handlers
  <2>8. Handled(e)' = Handled(e) \cup {copy.message}
    BY <2>6, <2>7 DEF Handled, Handlers
  <2>9. Delayed(e)' = Delayed(e)
    BY <2>1 DEF Delayed
  <2>10. copy.message \notin Handled(e)
    BY <2>2, <2>3 DEF PlacesAt, Disjoint
  <2>11. DistinctAt(e)'
    <3>1. \A t \in Handlers(e) : job[t].message # copy.message /\ job'[t] = job[t]
      BY <2>6, <2>7, <2>10 DEF Handled, Handlers
    <3>2. \A t, u \in Handlers(e)' : job'[t].message = job'[u].message => t = u
      BY <2>2, <2>6, <2>7, <3>1 DEF DistinctAt
    <3>3. QED
      BY <2>1, <2>2, <2>3, <2>5, <3>2 DEF DistinctAt
  <2>12. PlacesAt(e)'
    BY <2>1, <2>2, <2>3, <2>5, <2>8, <2>9 DEF PlacesAt, Disjoint
  <2>13. CopiesType'
    <3>1. queue' \in [Endpoints -> Seq(Copies)]
      BY <1>1, <2>1, <2>3
    <3>2. job' \in [Streams -> Copies \cup {Nothing}]
          /\ \A t \in Streams : phase'[t] = "handling" <=> job'[t] # Nothing
      BY <1>1, <2>1, <2>3, <2>6 DEF NotifyType
    <3>3. QED
      BY <1>1, <2>1, <3>1, <3>2
  <2>14. \A f \in Endpoints \ {e} : DistinctAt(f)' /\ PlacesAt(f)'
    <3>1. TAKE f \in Endpoints \ {e}
    <3>2. queue'[f] = queue[f] /\ \A t \in Streams : EndpointOf[t] = f => job'[t] = job[t]
      BY <1>1, <2>1, <2>4, <2>6
    <3>3. QED
      BY <1>1, <2>1, <3>2, Elsewhere DEF CopiesInv
  <2>15. QED
    BY <2>11, <2>12, <2>13, <2>14 DEF CopiesInv
<1>6. ASSUME NEW s \in Streams, Settle(s) PROVE CopiesType' /\ CopiesInv'
  <2> DEFINE e == EndpointOf[s]
             m == job[s].message
             next == NextAttempt(s)
  <2>1. /\ e \in Endpoints /\ phase[s] = "handling" /\ UNCHANGED owed
        /\ job' = [job EXCEPT ![s] = Nothing] /\ phase' = [phase EXCEPT ![s] = "idle"]
    BY <1>1, <1>6 DEF Settle, Ack, Retry, Reject, Drop, LetsGo, Goes
  <2>2. DistinctAt(e) /\ PlacesAt(e) /\ queue[e] \in Seq(Copies)
    BY <1>1, <2>1 DEF CopiesInv
  <2>3. job[s] \in Copies /\ job[s] # Nothing /\ m \in Messages
    BY <1>1, <2>1 DEF Copies
  <2>4. e = EndpointOf[s] /\ m = job[s].message
    OBVIOUS
  <2>5. MayComeAgain(s) => next \in Copies /\ next.message = m
    BY <2>3, NextAttemptCopy
  <2>6. \/ /\ acked' = [acked EXCEPT ![e] = acked[e] \cup {m}]
           /\ UNCHANGED <<queue, later, rejected>>
        \/ /\ later' = [later EXCEPT ![e] = later[e] \cup {next}] /\ MayComeAgain(s)
           /\ UNCHANGED <<queue, acked, rejected>>
        \/ /\ rejected' = [rejected EXCEPT ![e] = rejected[e] \cup {m}]
           /\ UNCHANGED <<queue, later, acked>>
        \/ /\ queue' = [queue EXCEPT ![e] = Append(queue[e], next)] /\ MayComeAgain(s)
           /\ UNCHANGED <<later, acked, rejected>>
    BY <1>6 DEF Settle, Ack, Retry, Reject, Drop, Push
  <2> HIDE DEF e, m, next
  <2>7. job'[s] = Nothing /\ \A t \in Streams \ {s} : job'[t] = job[t]
    BY <1>1, <2>1
  <2>8. Handlers(e)' = Handlers(e) \ {s} /\ s \in Handlers(e)
    BY <2>3, <2>4, <2>7 DEF Handlers
  <2>9. m \in Handled(e) /\ Handled(e)' = Handled(e) \ {m}
    <3>1. \A t \in Handlers(e) \ {s} : job[t].message # m /\ job'[t] = job[t]
      BY <2>2, <2>4, <2>7, <2>8 DEF DistinctAt, Handlers
    <3>2. m \in Handled(e)
      BY <2>4, <2>8 DEF Handled
    <3>3. Handled(e)' = {job'[t].message : t \in Handlers(e) \ {s}}
      BY <2>8 DEF Handled
    <3>4. Handled(e) = {job[t].message : t \in Handlers(e)}
      BY DEF Handled
    <3>5. QED
      BY <2>4, <3>1, <3>2, <3>3, <3>4
  <2>10. \A t, u \in Handlers(e)' : job'[t].message = job'[u].message => t = u
    BY <2>2, <2>7, <2>8 DEF DistinctAt, Handlers
  <2>11. /\ m \notin MessagesIn(queue[e]) /\ m \notin Delayed(e)
         /\ m \notin acked[e] /\ m \notin rejected[e]
    BY <2>2, <2>9 DEF PlacesAt, Disjoint
  <2>12. \A f \in Endpoints \ {e} : /\ queue'[f] = queue[f] /\ later'[f] = later[f]
                                    /\ acked'[f] = acked[f] /\ rejected'[f] = rejected[f]
    BY <1>1, <2>6
  <2>13. \A f \in Endpoints \ {e} : DistinctAt(f)' /\ PlacesAt(f)'
    <3>1. TAKE f \in Endpoints \ {e}
    <3>2. \A t \in Streams : EndpointOf[t] = f => job'[t] = job[t]
      BY <2>4, <2>7
    <3>3. QED
      BY <1>1, <2>1, <2>12, <3>2, Elsewhere DEF CopiesInv
  <2>14. job' \in [Streams -> Copies \cup {Nothing}]
         /\ \A t \in Streams : phase'[t] = "handling" <=> job'[t] # Nothing
    BY <1>1, <2>1, <2>7 DEF NotifyType
  <2>15. SUFFICES CopiesType' /\ DistinctAt(e)' /\ PlacesAt(e)'
    BY <2>13 DEF CopiesInv
  <2>16. CASE acked' = [acked EXCEPT ![e] = acked[e] \cup {m}] /\ UNCHANGED <<queue, later, rejected>>
    <3>1. acked'[e] = acked[e] \cup {m} /\ Delayed(e)' = Delayed(e)
      BY <1>1, <2>1, <2>16 DEF Delayed
    <3>2. DistinctAt(e)'
      BY <2>2, <2>10, <2>16 DEF DistinctAt
    <3>3. PlacesAt(e)'
      BY <2>1, <2>2, <2>9, <2>11, <2>16, <3>1 DEF PlacesAt, Disjoint
    <3>4. CopiesType'
      BY <1>1, <2>1, <2>3, <2>4, <2>14, <2>16
    <3>5. QED
      BY <3>2, <3>3, <3>4
  <2>17. CASE rejected' = [rejected EXCEPT ![e] = rejected[e] \cup {m}] /\ UNCHANGED <<queue, later, acked>>
    <3>1. rejected'[e] = rejected[e] \cup {m} /\ Delayed(e)' = Delayed(e)
      BY <1>1, <2>1, <2>17 DEF Delayed
    <3>2. DistinctAt(e)'
      BY <2>2, <2>10, <2>17 DEF DistinctAt
    <3>3. PlacesAt(e)'
      BY <2>1, <2>2, <2>9, <2>11, <2>17, <3>1 DEF PlacesAt, Disjoint
    <3>4. CopiesType'
      BY <1>1, <2>1, <2>3, <2>4, <2>14, <2>17
    <3>5. QED
      BY <3>2, <3>3, <3>4
  <2>18. CASE /\ later' = [later EXCEPT ![e] = later[e] \cup {next}] /\ MayComeAgain(s)
              /\ UNCHANGED <<queue, acked, rejected>>
    <3>1. later'[e] = later[e] \cup {next} /\ next \in Copies /\ next.message = m
      BY <1>1, <2>1, <2>5, <2>18
    <3>2. Delayed(e)' = Delayed(e) \cup {m} /\ \A c \in later[e] : c.message # m
      BY <2>11, <3>1 DEF Delayed
    <3>3. DistinctAt(e)'
      BY <2>2, <2>10, <2>18, <3>1, <3>2 DEF DistinctAt
    <3>4. PlacesAt(e)'
      BY <2>1, <2>2, <2>9, <2>11, <2>18, <3>2 DEF PlacesAt, Disjoint
    <3>5. CopiesType'
      BY <1>1, <2>1, <2>14, <2>18, <3>1
    <3>6. QED
      BY <3>3, <3>4, <3>5
  <2>19. CASE /\ queue' = [queue EXCEPT ![e] = Append(queue[e], next)] /\ MayComeAgain(s)
              /\ UNCHANGED <<later, acked, rejected>>
    <3>1. queue'[e] = Append(queue[e], next) /\ next \in Copies /\ next.message = m
      BY <1>1, <2>1, <2>5, <2>19
    <3>2. /\ Append(queue[e], next) \in Seq(Copies) /\ Distinct(Append(queue[e], next))
          /\ MessagesIn(Append(queue[e], next)) = MessagesIn(queue[e]) \cup {m}
      BY <2>2, <2>11, <3>1, QueueAppend DEF DistinctAt
    <3>3. DistinctAt(e)'
      BY <2>2, <2>10, <2>19, <3>1, <3>2 DEF DistinctAt
    <3>4. Delayed(e)' = Delayed(e)
      BY <2>19 DEF Delayed
    <3>5. PlacesAt(e)'
      BY <2>1, <2>2, <2>9, <2>11, <2>19, <3>1, <3>2, <3>4 DEF PlacesAt, Disjoint
    <3>6. CopiesType'
      BY <1>1, <2>1, <2>14, <2>19, <3>2
    <3>7. QED
      BY <3>3, <3>5, <3>6
  <2>20. QED
    BY <2>6, <2>16, <2>17, <2>18, <2>19
<1>7. CASE \E to \in BOOLEAN : FailPublishes(to)
  BY <1>2, <1>7 DEF FailPublishes
<1>8. ASSUME NEW e \in Endpoints, NotifyOne(e) PROVE CopiesType' /\ CopiesInv'
  <2>1. CASE waiters[e] = <<>>
    BY <1>2, <1>8, <2>1 DEF NotifyOne
  <2>2. CASE waiters[e] # <<>>
    <3> DEFINE first == Head(waiters[e])
    <3>1. first \in Streams /\ phase[first] = "waiting"
      <4>1. waiters[e] \in Seq(Streams) /\ Once(waiters[e])
        BY <1>1 DEF NotifyType, LineInv
      <4>2. first \in Streams /\ first \in ToSet(waiters[e])
        BY <2>2, <4>1, LineTail
      <4>3. QED
        BY <1>1, <4>2 DEF LineInv
    <3>2. phase' = [phase EXCEPT ![first] = "woken"]
          /\ UNCHANGED <<queue, later, acked, rejected, owed, job>>
      BY <1>8, <2>2 DEF NotifyOne, Goes
    <3> HIDE DEF first
    <3>3. \A s \in Streams : phase'[s] = "handling" <=> phase[s] = "handling"
      BY <1>1, <3>1, <3>2 DEF NotifyType
    <3>4. QED
      BY <1>2, <3>2, <3>3
  <2>3. QED
    BY <2>1, <2>2
<1>9. ASSUME NEW s \in Streams, FindEmpty(s) \/ Wait(s) \/ Close(s) \/ Subscribe(s)
      PROVE  CopiesType' /\ CopiesInv'
  <2>1. PICK next : Goes(s, next) /\ next # "handling" /\ phase[s] # "handling"
                    /\ UNCHANGED <<queue, later, acked, rejected, owed, job>>
    BY <1>9 DEF FindEmpty, Wait, Close, Subscribe
  <2>2. \A t \in Streams : phase'[t] = "handling" <=> phase[t] = "handling"
    BY <1>1, <2>1 DEF NotifyType, Goes
  <2>3. QED
    BY <1>2, <2>1, <2>2
<1>10. QED
  BY <1>3, <1>4, <1>5, <1>6, <1>7, <1>8, <1>9 DEF Next, Poll

-------------------------------------------------------------------------------
(* The theorems *)

LEMMA InvStep == IInv /\ [Next]_vars => IInv'
<1> SUFFICES ASSUME IInv, [Next]_vars PROVE IInv'
  OBVIOUS
<1>1. CASE Next
  <2>1. PublishType' /\ SubscribedInv'
    BY <1>1, PublishStep DEF IInv
  <2>2. NotifyType' /\ LineInv'
    BY <1>1, LineStep DEF IInv
  <2>3. CopiesType' /\ CopiesInv'
    BY <1>1, CopiesStep
  <2>4. QED
    BY <2>1, <2>2, <2>3 DEF IInv
<1>2. CASE UNCHANGED vars
  <2> USE <1>2 DEF vars
  <2>1. PublishType' /\ SubscribedInv' /\ NotifyType' /\ LineInv'
    BY DEF IInv, PublishType, SubscribedInv, Subscribed, NotifyType, LineInv
  <2>2. CopiesType'
    BY DEF IInv, CopiesType
  <2>3. CopiesInv'
    <3>1. SUFFICES ASSUME NEW e \in Endpoints PROVE DistinctAt(e)' /\ PlacesAt(e)'
      BY DEF CopiesInv
    <3>2. DistinctAt(e) /\ PlacesAt(e)
      BY DEF IInv, CopiesInv
    <3>3. QED
      BY <3>2, Elsewhere
  <2>4. QED
    BY <2>1, <2>2, <2>3 DEF IInv
<1>3. QED
  BY <1>1, <1>2

\* Whatever is published, handled, retried and dropped: the streams that wait are
\* in line, and every copy an endpoint is owed is in exactly one of its places.
THEOREM Inductive == Spec => []IInv
<1>1. Init => IInv
  BY InitInv
<1>2. QED
  BY <1>1, InvStep, PTL DEF Spec

\* Every variable keeps to its type, and who is in line waits (TypeOK).
THEOREM TypeCorrect == Spec => []TypeOK
<1>1. IInv => TypeOK
  <2> SUFFICES ASSUME IInv PROVE TypeOK
    OBVIOUS
  <2> USE DEF IInv, PublishType, CopiesType, NotifyType, LineInv
  <2>1. published \subseteq Messages /\ failing \in BOOLEAN /\ phase \in [Streams -> Phases]
    OBVIOUS
  <2>2. ASSUME NEW e \in Endpoints
        PROVE  /\ queue[e] \in Seq(Copies) /\ notes[e] \in Nat /\ permit[e] \in BOOLEAN
               /\ later[e] \subseteq Copies
               /\ acked[e] \cup rejected[e] \cup owed[e] \subseteq Messages
    OBVIOUS
  <2>3. ASSUME NEW e \in Endpoints
        PROVE  ToSet(waiters[e]) = {s \in Streams : EndpointOf[s] = e /\ phase[s] = "waiting"}
    <3>1. ToSet(waiters[e]) \subseteq Streams
      BY LenProperties DEF ToSet
    <3>2. QED
      BY <3>1
  <2>4. \A s \in Streams : job[s] \in Copies \cup {Nothing} /\ (phase[s] = "handling" <=> job[s] # Nothing)
    OBVIOUS
  <2>5. QED
    BY <2>1, <2>2, <2>3, <2>4 DEF TypeOK
<1>2. QED
  BY <1>1, Inductive, PTL

\* A message an endpoint is owed is in one of its places, in each of them once;
\* another message is in none.
LEMMA OnePlace ==
  ASSUME IInv, NEW e \in Endpoints, NEW m \in Messages
  PROVE  /\ m \notin owed[e] => PlacesOf(e, m) = {}
         /\ m \in owed[e] => \E place : PlacesOf(e, m) = {place}
<1> DEFINE waits == {<<"queue", i>> : i \in {j \in DOMAIN queue[e] : queue[e][j].message = m}}
           delays == {<<"later", c.attempt>> : c \in {d \in later[e] : d.message = m}}
           handles == {<<"handled by", s>> : s \in {t \in Streams : EndpointOf[t] = e /\ job[t].message = m}}
           acks == {<<"acked", m>> : k \in acked[e] \cap {m}}
           rejects == {<<"rejected", m>> : k \in rejected[e] \cap {m}}
<1>1. DistinctAt(e) /\ PlacesAt(e)
  BY DEF IInv, CopiesInv
<1>2. PlacesOf(e, m) = waits \cup delays \cup handles \cup acks \cup rejects
  BY DEF PlacesOf
<1>3. /\ m \notin MessagesIn(queue[e]) => waits = {}
      /\ m \in MessagesIn(queue[e]) => \E place : waits = {place}
  <2>1. CASE m \notin MessagesIn(queue[e])
    BY <2>1 DEF MessagesIn
  <2>2. CASE m \in MessagesIn(queue[e])
    <3>1. PICK i \in DOMAIN queue[e] : queue[e][i].message = m
      BY <2>2 DEF MessagesIn
    <3>2. {j \in DOMAIN queue[e] : queue[e][j].message = m} = {i}
      BY <1>1, <3>1 DEF DistinctAt, Distinct
    <3>3. waits = {<<"queue", i>>}
      BY <3>2
    <3>4. QED
      BY <2>2, <3>3
  <2>3. QED
    BY <2>1, <2>2
<1>4. /\ m \notin Delayed(e) => delays = {}
      /\ m \in Delayed(e) => \E place : delays = {place}
  <2>1. CASE m \notin Delayed(e)
    BY <2>1 DEF Delayed
  <2>2. CASE m \in Delayed(e)
    <3>1. PICK c \in later[e] : c.message = m
      BY <2>2 DEF Delayed
    <3>2. {d \in later[e] : d.message = m} = {c}
      BY <1>1, <3>1 DEF DistinctAt
    <3>3. delays = {<<"later", c.attempt>>}
      BY <3>2
    <3>4. QED
      BY <2>2, <3>3
  <2>3. QED
    BY <2>1, <2>2
<1>5. /\ m \notin Handled(e) => handles = {}
      /\ m \in Handled(e) => \E place : handles = {place}
  <2>1. \A t \in Streams : job[t].message = m => job[t] # Nothing
    BY StreamsAssumption DEF Nothing
  <2>2. CASE m \notin Handled(e)
    BY <2>1, <2>2 DEF Handled, Handlers
  <2>3. CASE m \in Handled(e)
    <3>1. PICK s \in Handlers(e) : job[s].message = m
      BY <2>3 DEF Handled
    <3>2. {t \in Streams : EndpointOf[t] = e /\ job[t].message = m} = {s}
      BY <1>1, <2>1, <3>1 DEF DistinctAt, Handlers
    <3>3. handles = {<<"handled by", s>>}
      BY <3>2
    <3>4. QED
      BY <2>3, <3>3
  <2>4. QED
    BY <2>2, <2>3
<1>6. /\ m \notin acked[e] => acks = {}
      /\ m \notin rejected[e] => rejects = {}
  OBVIOUS
<1>7. /\ m \in acked[e] => acks = {<<"acked", m>>}
      /\ m \in rejected[e] => rejects = {<<"rejected", m>>}
  OBVIOUS
<1> HIDE DEF waits, delays, handles, acks, rejects
<1>8. CASE m \notin owed[e]
  BY <1>1, <1>2, <1>3, <1>4, <1>5, <1>6, <1>8 DEF PlacesAt
<1>9. CASE m \in owed[e]
  <2>1. \/ m \in MessagesIn(queue[e]) \/ m \in Delayed(e) \/ m \in Handled(e)
        \/ m \in acked[e] \/ m \in rejected[e]
    BY <1>1, <1>9 DEF PlacesAt
  <2>2. CASE m \in MessagesIn(queue[e])
    <3>1. m \notin Delayed(e) /\ m \notin Handled(e) /\ m \notin acked[e] /\ m \notin rejected[e]
      BY <1>1, <2>2 DEF PlacesAt, Disjoint
    <3>2. PlacesOf(e, m) = waits
      BY <1>2, <1>4, <1>5, <1>6, <3>1
    <3>3. QED
      BY <1>3, <1>9, <2>2, <3>2
  <2>3. CASE m \in Delayed(e)
    <3>1. m \notin MessagesIn(queue[e]) /\ m \notin Handled(e) /\ m \notin acked[e] /\ m \notin rejected[e]
      BY <1>1, <2>3 DEF PlacesAt, Disjoint
    <3>2. PlacesOf(e, m) = delays
      BY <1>2, <1>3, <1>5, <1>6, <3>1
    <3>3. QED
      BY <1>4, <1>9, <2>3, <3>2
  <2>4. CASE m \in Handled(e)
    <3>1. m \notin MessagesIn(queue[e]) /\ m \notin Delayed(e) /\ m \notin acked[e] /\ m \notin rejected[e]
      BY <1>1, <2>4 DEF PlacesAt, Disjoint
    <3>2. PlacesOf(e, m) = handles
      BY <1>2, <1>3, <1>4, <1>6, <3>1
    <3>3. QED
      BY <1>5, <1>9, <2>4, <3>2
  <2>5. CASE m \in acked[e]
    <3>1. m \notin MessagesIn(queue[e]) /\ m \notin Delayed(e) /\ m \notin Handled(e) /\ m \notin rejected[e]
      BY <1>1, <2>5 DEF PlacesAt, Disjoint
    <3>2. PlacesOf(e, m) = acks
      BY <1>2, <1>3, <1>4, <1>5, <1>6, <3>1
    <3>3. QED
      BY <1>7, <1>9, <2>5, <3>2
  <2>6. CASE m \in rejected[e]
    <3>1. m \notin MessagesIn(queue[e]) /\ m \notin Delayed(e) /\ m \notin Handled(e) /\ m \notin acked[e]
      BY <1>1, <2>6 DEF PlacesAt, Disjoint
    <3>2. PlacesOf(e, m) = rejects
      BY <1>2, <1>3, <1>4, <1>5, <1>6, <3>1
    <3>3. QED
      BY <1>7, <1>9, <2>6, <3>2
  <2>7. QED
    BY <2>1, <2>2, <2>3, <2>4, <2>5, <2>6
<1>10. QED
  BY <1>8, <1>9

\* An endpoint has one copy of each message it is owed, in its queue, with a
\* retry's task, with a handler, or done with; of no other message any (OneCopy).
THEOREM OneCopyEach == Spec => []OneCopy
<1>1. IInv => OneCopy
  <2> SUFFICES ASSUME IInv, NEW e \in Endpoints, NEW m \in Messages
               PROVE  Cardinality(PlacesOf(e, m)) = IF m \in owed[e] THEN 1 ELSE 0
    BY DEF OneCopy
  <2>1. CASE m \notin owed[e]
    BY <2>1, OnePlace, FS_EmptySet
  <2>2. CASE m \in owed[e]
    BY <2>2, OnePlace, FS_Singleton
  <2>3. QED
    BY <2>1, <2>2
<1>2. QED
  BY <1>1, Inductive, PTL

-------------------------------------------------------------------------------
(* Waking *)

\* A stream whose owner may drop it has its endpoint to itself. Without this a
\* push can be missed: the permit two pushes leave wakes one stream, and when
\* that one is dropped after the first copy, the other waits over the second.
NoSharerCloses ==
  \A s \in Closers, t \in Streams : EndpointOf[t] = EndpointOf[s] => t = s

\* Whoever looks at an endpoint's queue goes on looking or has seen it empty.
LEMMA AwakeStep ==
  ASSUME NoSharerCloses, IInv, AwakeInv, Next
  PROVE  AwakeInv'
<1>1. /\ PublishType /\ CopiesType /\ NotifyType /\ LineInv
      /\ \A s \in Streams : EndpointOf[s] \in Endpoints
  BY StreamsAssumption DEF IInv
<1> USE DEF CopiesType, NotifyType
<1> DEFINE Sees(e) == \E s \in Open(e) : phase[s] \notin {"empty", "waiting"}
           Awake(e) == queue[e] # <<>> /\ notes[e] = 0 /\ Open(e) # {} => permit[e] \/ Sees(e)
<1>2. /\ \A e \in Endpoints : Awake(e)
      /\ AwakeInv' <=> \A e \in Endpoints : Awake(e)'
  BY DEF AwakeInv
\* A stream that is open and does neither wait nor is about to.
<1>3. ASSUME NEW s \in Streams, NEW next \in {"idle", "woken", "again", "handling"},
             phase' = [phase EXCEPT ![s] = next],
             \A e \in Endpoints \ {EndpointOf[s]} :
               queue'[e] = queue[e] /\ notes'[e] = notes[e] /\ permit'[e] = permit[e]
      PROVE  AwakeInv'
  <2>1. Awake(EndpointOf[s])'
    <3>1. s \in Open(EndpointOf[s])' /\ phase'[s] \notin {"empty", "waiting"}
      BY <1>1, <1>3 DEF Open
    <3>2. QED
      BY <3>1
  <2>2. ASSUME NEW e \in Endpoints, e # EndpointOf[s] PROVE Awake(e)'
    <3>1. Open(e)' = Open(e) /\ \A t \in Open(e) : phase'[t] = phase[t]
      BY <1>1, <1>3, <2>2 DEF Open
    <3>2. QED
      BY <1>2, <1>3, <2>2, <3>1
  <2>3. QED
    BY <1>2, <2>1, <2>2
<1>4. ASSUME UNCHANGED <<phase, permit>>,
             \A e \in Endpoints : \/ queue'[e] = queue[e] /\ notes'[e] = notes[e]
                                  \/ notes'[e] = notes[e] + 1
      PROVE  AwakeInv'
  <2>1. ASSUME NEW e \in Endpoints PROVE Awake(e)'
    <3>1. CASE queue'[e] = queue[e] /\ notes'[e] = notes[e]
      BY <1>2, <1>4, <3>1 DEF Open
    <3>2. CASE notes'[e] = notes[e] + 1
      <4>1. notes'[e] # 0
        BY <1>1, <3>2
      <4>2. QED
        BY <4>1
    <3>3. QED
      BY <1>4, <3>1, <3>2
  <2>2. QED
    BY <1>2, <2>1
<1>5. ASSUME NEW m \in Messages, Publish(m) PROVE AwakeInv'
  <2>1. UNCHANGED <<phase, permit>>
    BY <1>5 DEF Publish
  <2>2. \A e \in Endpoints : \/ queue'[e] = queue[e] /\ notes'[e] = notes[e]
                             \/ notes'[e] = notes[e] + 1
    BY <1>5 DEF Publish
  <2>3. QED
    BY <1>4, <2>1, <2>2
<1>6. ASSUME NEW to \in BOOLEAN, FailPublishes(to) PROVE AwakeInv'
  BY <1>4, <1>6 DEF FailPublishes
<1>7. ASSUME NEW e \in Endpoints, NEW copy \in later[e], Due(e, copy) PROVE AwakeInv'
  <2>1. UNCHANGED <<phase, permit>>
    BY <1>7 DEF Due
  <2>2. \A f \in Endpoints : \/ queue'[f] = queue[f] /\ notes'[f] = notes[f]
                             \/ notes'[f] = notes[f] + 1
    BY <1>1, <1>7 DEF Due, Push
  <2>3. QED
    BY <1>4, <2>1, <2>2
<1>8. ASSUME NEW e \in Endpoints, NotifyOne(e) PROVE AwakeInv'
  <2>1. /\ UNCHANGED queue /\ notes' = [notes EXCEPT ![e] = notes[e] - 1]
    BY <1>8 DEF NotifyOne
  <2>2. CASE waiters[e] = <<>>
    <3>1. UNCHANGED phase /\ permit' = [permit EXCEPT ![e] = TRUE]
      BY <1>8, <2>2 DEF NotifyOne
    <3>2. ASSUME NEW f \in Endpoints PROVE Awake(f)'
      <4>1. CASE f = e
        BY <1>1, <3>1, <4>1
      <4>2. CASE f # e
        <5>1. notes'[f] = notes[f] /\ permit'[f] = permit[f] /\ Open(f)' = Open(f)
          BY <1>1, <2>1, <3>1, <4>2 DEF Open
        <5>2. QED
          BY <1>2, <2>1, <3>1, <5>1
      <4>3. QED
        BY <4>1, <4>2
    <3>3. QED
      BY <1>2, <3>2
  <2>3. CASE waiters[e] # <<>>
    <3> DEFINE first == Head(waiters[e])
    <3>1. first \in Streams /\ EndpointOf[first] = e
      <4>1. waiters[e] \in Seq(Streams) /\ Once(waiters[e])
        BY <1>1 DEF LineInv
      <4>2. first \in Streams /\ first \in ToSet(waiters[e])
        BY <2>3, <4>1, LineTail
      <4>3. QED
        BY <1>1, <4>2 DEF LineInv
    <3>2. phase' = [phase EXCEPT ![first] = "woken"] /\ UNCHANGED permit
      BY <1>8, <2>3 DEF NotifyOne, Goes
    <3> HIDE DEF first
    <3>3. \A f \in Endpoints \ {EndpointOf[first]} :
            queue'[f] = queue[f] /\ notes'[f] = notes[f] /\ permit'[f] = permit[f]
      BY <1>1, <2>1, <3>1, <3>2
    <3>4. QED
      BY <1>3, <3>1, <3>2, <3>3
  <2>4. QED
    BY <2>2, <2>3
<1>9. ASSUME NEW s \in Streams, Subscribe(s) \/ Take(s) \/ Settle(s) PROVE AwakeInv'
  <2>1. PICK next \in {"idle", "handling"} : phase' = [phase EXCEPT ![s] = next] /\ UNCHANGED permit
    BY <1>9 DEF Subscribe, Take, Settle, Ack, Retry, Reject, Drop, LetsGo, Goes
  <2>2. \A e \in Endpoints \ {EndpointOf[s]} : queue'[e] = queue[e] /\ notes'[e] = notes[e]
    BY <1>1, <1>9 DEF Subscribe, Take, Settle, Ack, Retry, Reject, Drop, LetsGo, Push
  <2>3. QED
    BY <1>3, <2>1, <2>2
<1>10. ASSUME NEW s \in Streams, FindEmpty(s) PROVE AwakeInv'
  <2>1. /\ queue[EndpointOf[s]] = <<>> /\ UNCHANGED <<queue, notes, permit>>
        /\ phase' = [phase EXCEPT ![s] = "empty"]
    BY <1>10 DEF FindEmpty, Goes
  <2>2. ASSUME NEW e \in Endpoints, e # EndpointOf[s] PROVE Awake(e)'
    <3>1. Open(e)' = Open(e) /\ \A t \in Open(e) : phase'[t] = phase[t]
      BY <1>1, <2>1, <2>2 DEF Open
    <3>2. QED
      BY <1>2, <2>1, <2>2, <3>1
  <2>3. Awake(EndpointOf[s])'
    BY <2>1
  <2>4. QED
    BY <1>2, <2>2, <2>3
<1>11. ASSUME NEW s \in Streams, Wait(s) PROVE AwakeInv'
  <2> DEFINE e == EndpointOf[s]
  <2>1. e \in Endpoints /\ phase[s] = "empty" /\ UNCHANGED <<queue, notes>>
    BY <1>1, <1>11 DEF Wait
  <2>2. CASE permit[e]
    <3>1. permit' = [permit EXCEPT ![e] = FALSE] /\ phase' = [phase EXCEPT ![s] = "again"]
      BY <1>11, <2>2 DEF Wait, Goes
    <3>2. \A f \in Endpoints \ {EndpointOf[s]} :
            queue'[f] = queue[f] /\ notes'[f] = notes[f] /\ permit'[f] = permit[f]
      BY <1>1, <2>1, <3>1
    <3>3. QED
      BY <1>3, <3>1, <3>2
  <2>3. CASE ~permit[e]
    <3>1. UNCHANGED permit /\ phase' = [phase EXCEPT ![s] = "waiting"]
      BY <1>11, <2>3 DEF Wait, Goes
    <3>2. ASSUME NEW f \in Endpoints PROVE Awake(f)'
      <4>1. Open(f)' = Open(f)
            /\ \A t \in Open(f) : phase'[t] \in {"empty", "waiting"} <=> phase[t] \in {"empty", "waiting"}
        BY <1>1, <2>1, <3>1 DEF Open
      <4>2. QED
        BY <1>2, <2>1, <3>1, <4>1
    <3>3. QED
      BY <1>2, <3>2
  <2>4. QED
    BY <2>2, <2>3
<1>12. ASSUME NEW s \in Streams, Close(s) PROVE AwakeInv'
  <2>1. /\ s \in Closers /\ UNCHANGED <<queue, permit>> /\ phase' = [phase EXCEPT ![s] = "closed"]
        /\ \A e \in Endpoints \ {EndpointOf[s]} : notes'[e] = notes[e]
    BY <1>1, <1>12 DEF Close, Goes
  <2>2. Open(EndpointOf[s])' = {}
    BY <1>1, <2>1 DEF Open, NoSharerCloses
  <2>3. ASSUME NEW e \in Endpoints, e # EndpointOf[s] PROVE Awake(e)'
    <3>1. Open(e)' = Open(e) /\ \A t \in Open(e) : phase'[t] = phase[t]
      BY <1>1, <2>1, <2>3 DEF Open
    <3>2. QED
      BY <1>2, <2>1, <2>3, <3>1
  <2>4. QED
    BY <1>2, <2>2, <2>3
<1>13. QED
  BY <1>5, <1>6, <1>7, <1>8, <1>9, <1>10, <1>11, <1>12 DEF Next, Poll

\* No stream is left waiting over copies in its queue, where streams that share
\* an endpoint stay open (NoPushIsMissed).
THEOREM PushIsSeen == NoSharerCloses /\ Spec => []NoPushIsMissed
<1>1. IInv /\ AwakeInv => NoPushIsMissed
  <2> SUFFICES ASSUME IInv, AwakeInv, NEW e \in Endpoints, Open(e) # {}, notes[e] = 0,
                      \A s \in Open(e) : phase[s] = "waiting"
               PROVE  queue[e] = <<>>
    BY DEF NoPushIsMissed, Open
  <2>1. ~permit[e]
    <3>1. PICK s \in Open(e) : s \in Streams /\ EndpointOf[s] = e
      BY DEF Open
    <3>2. s \in ToSet(waiters[e])
      BY <3>1 DEF IInv, LineInv
    <3>3. waiters[e] # <<>>
      BY <3>2 DEF ToSet
    <3>4. QED
      BY <3>3 DEF IInv, LineInv
  <2>2. QED
    BY <2>1 DEF AwakeInv
<1>2. NoSharerCloses /\ IInv /\ AwakeInv /\ [Next]_vars => AwakeInv'
  <2>1. UNCHANGED vars /\ AwakeInv => AwakeInv'
    BY DEF vars, AwakeInv, Open
  <2>2. QED
    BY <2>1, AwakeStep
<1>3. Init => AwakeInv
  BY InitInv
<1>4. ASSUME NoSharerCloses PROVE Spec => []NoPushIsMissed
  <2>1. IInv /\ AwakeInv /\ [Next]_vars => AwakeInv'
    BY <1>2, <1>4
  <2>2. QED
    BY <1>1, <1>3, <2>1, Inductive, PTL DEF Spec
<1>5. QED
  BY <1>4

===============================================================================
