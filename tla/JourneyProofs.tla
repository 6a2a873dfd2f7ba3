----------------------------- MODULE JourneyProofs -----------------------------
(***************************************************************************)
(* What Journey checks of some days and messages, for all of them: first   *)
(* the calendar, then the envelope's forms, the waits, and the invariant   *)
(* that holds on a message's way.                                          *)
(***************************************************************************)
EXTENDS Journey, CalendarProofs, SequenceTheorems, WellFoundedInduction

-------------------------------------------------------------------------------
(* The calendar *)

LEMMA NextDateFollows ==
  ASSUME NEW date, IsDay(date)
  PROVE  NextDate(date) = Following(date)
<1>1. date = <<date[1], date[2], date[3]>> /\ date[3] \in Int
  BY DEF IsDay, Within
<1>2. [<<date[1], date[2], date[3]>> EXCEPT ![3] = @ + 1] = <<date[1], date[2], date[3] + 1>>
  OBVIOUS
<1>3. [date EXCEPT ![3] = @ + 1] = <<date[1], date[2], date[3] + 1>>
  BY <1>1, <1>2
<1>4. QED
  BY <1>3, Zenon DEF NextDate, Following

LEMMA DaysCounted == day \in FirstDay..LastDay => CountsTheDays
<1> SUFFICES ASSUME day \in FirstDay..LastDay PROVE CountsTheDays
  OBVIOUS
<1> DEFINE date == DateFromDays(day)
<1>1. day \in Int /\ IsDate(date) /\ IsDay(date) /\ DaysFromDate(date) = day
  BY DayHasDate, DayDateDay
<1>2. day = 0 => date = <<1970, 1, 1>>
  BY Z3 DEF DateFromDays
<1>3. DateFromDays(day + 1) = NextDate(date)
  <2> HIDE DEF date
  <2>1. DateFromDays(day + 1) = Following(date)
    BY <1>1, DaysFollow DEF date
  <2>2. QED
    BY <1>1, <2>1, NextDateFollows
<1>4. QED
  BY <1>1, <1>2, <1>3 DEF CountsTheDays

LEMMA IntervalsTiled == day \in FirstDay..LastDay => IntervalsTile
<1> SUFFICES ASSUME day \in FirstDay..LastDay, day - 7 > FirstDay, day + 31 <= LastDay,
                    NEW interval \in Intervals
             PROVE  LET start == Start(interval, day)
                        end == End(interval, day)
                    IN  /\ start <= day /\ day < end
                        /\ Start(interval, end) = end /\ Start(interval, end - 1) = start
                        /\ (start = day) <=> (End(interval, day - 1) = day)
  BY DEF IntervalsTile
<1>1. day \in Int
  BY DayHasDate
<1>2. QED
  BY <1>1, IntervalsTileDays

\* Padding keeps the nine digits.
LEMMA PaddingKeeps ==
  ASSUME NEW digits, Len(digits) \in Int
  PROVE  /\ Padded(digits) # <<>>
         /\ \A place \in 1..9 : DigitAt(Padded(digits), place) = DigitAt(digits, place)
<1> DEFINE ten == Padded(digits)
<1>1. /\ DOMAIN ten = 1..10
      /\ \A place \in 1..9 : ten[place] = DigitAt(digits, place)
  BY DEF Padded, DigitAt
<1>2. Len(ten) = 10
  BY DEF Padded
<1>3. ten # <<>>
  <2> HIDE DEF ten
  <2>1. QED
    BY <1>2
<1>4. QED
  <2> HIDE DEF ten
  <2>1. \A place \in 1..9 : place <= Len(ten)
    BY <1>2
  <2>2. \A place \in 1..9 : DigitAt(ten, place) = ten[place]
    BY <2>1 DEF DigitAt
  <2>3. QED
    BY <1>1, <1>3, <2>2 DEF ten

LEMMA OffsetsAreOffsets == \A offset \in Offsets : IsOffset(offset)
BY DEF Offsets, IsOffset

LEMMA TimesRead == day \in FirstDay..LastDay => TimesReadBack
<1> SUFFICES ASSUME day \in FirstDay..LastDay, NEW clock \in Clocks
             PROVE  LET time == [day |-> day, second |-> clock[1], nanos |-> clock[2]]
                        text == WriteTime(time)
                    IN  /\ ReadsAsTime(text) /\ ReadTime(text) = time
                        /\ \A offset \in Offsets :
                             LET written == WrittenAt(offset, time)
                             IN  written.date[1] \in Years
                                   => ReadsAsTime(written) /\ ReadTime(written) = time
  BY DEF TimesReadBack
<1> DEFINE second == clock[1]
           nanos == clock[2]
           time == [day |-> day, second |-> second, nanos |-> nanos]
           digits == Fraction(nanos)
<1>1. second \in 0..(SecondsPerDay - 1) /\ nanos \in 0..(NanosPerSecond - 1)
  BY JourneyAssumption
<1> HIDE DEF second, nanos
<1>2. IsTime(time)
  BY <1>1 DEF IsTime
<1>3. /\ day \in Int /\ Within(day, FirstDay, LastDay)
      /\ second \in Int /\ 0 <= second /\ second < SecondsPerDay
      /\ nanos \in Int /\ 0 <= nanos /\ nanos < NanosPerSecond
  BY <1>2, TimeRange
<1>4. ReadsAsTime(WriteTime(time)) /\ ReadTime(WriteTime(time)) = time
  BY <1>2, WrittenReads
<1>5. /\ \A place \in 1..9 : DigitAt(Padded(digits), place) = Digit(nanos, place)
      /\ Padded(digits) # <<>>
  BY <1>3, FractionReads, PaddingKeeps
<1>6. ASSUME NEW offset \in Offsets, WrittenAt(offset, time).date[1] \in Years
      PROVE  ReadsAsTime(WrittenAt(offset, time)) /\ ReadTime(WrittenAt(offset, time)) = time
  <2> DEFINE there == second + Shift(offset)
             localDay == day + there \div SecondsPerDay
             localSecond == there % SecondsPerDay
             yes == TRUE
             text == Text(localDay, localSecond, yes, Padded(digits), offset)
             local == [day |-> localDay, second |-> localSecond, nanos |-> nanos]
  <2>1. WrittenAt(offset, time)
          = [date |-> WriteTime(local).date, clock |-> WriteTime(local).clock, point |-> yes,
             digits |-> Padded(WriteTime(local).digits), offset |-> offset]
    BY DEF WrittenAt, Shift
  <2>2. yes = TRUE
    OBVIOUS
  <2> HIDE DEF localDay, localSecond, digits, yes
  <2>3. /\ WriteTime(local).date = DateFromDays(localDay)
        /\ WriteTime(local).clock = <<localSecond \div 3600, (localSecond \div 60) % 60, localSecond % 60>>
        /\ WriteTime(local).digits = digits
    BY DEF WriteTime, digits
  <2>4. WrittenAt(offset, time) = text /\ text.date = DateFromDays(localDay)
    <3> HIDE DEF time, local
    <3>1. QED
      BY <2>1, <2>3 DEF Text
  <2>5. IsOffset(offset)
    BY OffsetsAreOffsets
  <2>6. DateFromDays(localDay)[1] \in Years
    BY <1>6, <2>4
  <2>7. ReadsAsTime(text) /\ ReadTime(text) = time
    <3> DEFINE more == Padded(digits)
    <3>1. yes => more # <<>>
      BY <1>5
    <3>2. \A place \in 1..9 : DigitAt(more, place) = Digit(nanos, place)
      BY <1>5
    <3>3. DateFromDays(day + (second + Shift(offset)) \div SecondsPerDay)[1] \in Years
      BY <2>6 DEF localDay
    <3> HIDE DEF more
    <3>4. /\ ReadsAsTime(Text(day + (second + Shift(offset)) \div SecondsPerDay,
                              (second + Shift(offset)) % SecondsPerDay, yes, more, offset))
          /\ ReadTime(Text(day + (second + Shift(offset)) \div SecondsPerDay,
                           (second + Shift(offset)) % SecondsPerDay, yes, more, offset)) = time
      BY <1>3, <2>5, <3>1, <3>2, <3>3, OffsetTextReads
    <3>5. QED
      BY <3>4 DEF localDay, localSecond, more
  <2>8. QED
    BY <2>4, <2>7
<1>7. QED
  BY <1>4, <1>6 DEF second, nanos

\* On every day of the years 0000 to 9999, and at every time of a day, the conversions count the
\* days as the calendar does, the intervals of partitions tile them, and times read back as they
\* were written (date_from_days, days_from_date, PartitionInterval, Timestamp).
THEOREM EveryDayAgrees == Spec => []CalendarAgrees
<1>1. Init => day \in FirstDay..LastDay
  BY JourneyAssumption DEF Init
<1>2. day \in FirstDay..LastDay /\ [Next]_vars => (day \in FirstDay..LastDay)'
  <2> SUFFICES ASSUME day \in FirstDay..LastDay, [Next]_vars PROVE day' = day
    OBVIOUS
  <2>1. QED
    BY Zenon DEF Next, vars, Publish, PublishForeign, Dispatch, Deliver, Handle, HandleWithPublish,
                 ComesAgain, Retry, GiveUp
<1>3. day \in FirstDay..LastDay => CalendarAgrees
  BY DaysCounted, IntervalsTiled, TimesRead, Zenon DEF CalendarAgrees
<1>4. QED
  BY <1>1, <1>2, <1>3, PTL DEF Spec

-------------------------------------------------------------------------------
(* Attributes and the envelope they tell *)

\* The texts of an envelope's fields, None for one that isn't set.
Texts(e) ==
  [specversion |-> Version, id |-> IdText(e.id), source |-> e.source, type |-> e.type,
   time |-> TimeText(e.time), datacontenttype |-> e.contentType,
   correlationid |-> OptionalText(e.correlationId), causationid |-> OptionalText(e.causationId),
   subject |-> e.subject, dataschema |-> e.dataSchema, partitionkey |-> e.partitionKey,
   traceparent |-> IF e.trace = None THEN None ELSE e.trace.parent,
   tracestate |-> IF e.trace = None THEN None ELSE e.trace.state]

\* Attributes, in whatever form they came, that tell an envelope.
Told(e) == DOMAIN e.extensions \cup {name \in Fields : name \in Required \/ Texts(e)[name] # None}
Tells(attributes, e) ==
  /\ DOMAIN attributes = Told(e)
  /\ \A name \in Told(e) :
       attributes[name] = IF name \in Fields THEN Texts(e)[name] ELSE e.extensions[name]

LEMMA ExtensionsApart ==
  ASSUME NEW e, IsEnvelope(e)
  PROVE  DOMAIN e.extensions \cap Fields = {}
BY Zenon DEF IsEnvelope, IsExtension, Reserved

LEMMA OverIs ==
  ASSUME NEW f, NEW g
  PROVE  /\ DOMAIN Over(f, g) = DOMAIN f \cup DOMAIN g
         /\ \A name \in DOMAIN f : Over(f, g)[name] = f[name]
         /\ \A name \in DOMAIN g \ DOMAIN f : Over(f, g)[name] = g[name]
BY DEF Over

LEMMA PresentIs ==
  ASSUME NEW f
  PROVE  /\ \A name : name \in DOMAIN Present(f) <=> name \in DOMAIN f /\ f[name] # None
         /\ \A name \in DOMAIN Present(f) : Present(f)[name] = f[name]
BY DEF Present, Restrict

LEMMA WithoutIs ==
  ASSUME NEW f, NEW names
  PROVE  /\ DOMAIN Without(f, names) = DOMAIN f \ names
         /\ \A name \in DOMAIN f \ names : Without(f, names)[name] = f[name]
BY DEF Without, Restrict

LEMMA AttributesTell ==
  ASSUME NEW e, IsEnvelope(e)
  PROVE  Tells(ToAttributes(e), e)
<1> DEFINE optional == [subject |-> e.subject,
                        dataschema |-> e.dataSchema,
                        partitionkey |-> e.partitionKey,
                        correlationid |-> OptionalText(e.correlationId),
                        causationid |-> OptionalText(e.causationId),
                        traceparent |-> IF e.trace = None THEN None ELSE e.trace.parent,
                        tracestate |-> IF e.trace = None THEN None ELSE e.trace.state]
           required == [specversion |-> Version,
                        id |-> IdText(e.id),
                        source |-> e.source,
                        type |-> e.type,
                        time |-> TimeText(e.time),
                        datacontenttype |-> e.contentType]
<1>1. ToAttributes(e) = Over(e.extensions, Over(Present(optional), required))
  BY DEF ToAttributes
<1>2. /\ DOMAIN required = Required /\ DOMAIN optional = Fields \ Required
      /\ \A name \in Required : required[name] = Texts(e)[name]
      /\ \A name \in Fields \ Required : optional[name] = Texts(e)[name]
  BY DEF Required, Fields, Ids, Texts
<1>3. Required \subseteq Fields
  BY DEF Fields
<1> HIDE DEF optional, required
<1> DEFINE present == Present(optional)
           fields == Over(present, required)
           named == {name \in Fields : name \in Required \/ Texts(e)[name] # None}
<1>4. /\ \A name : name \in DOMAIN present <=> name \in Fields \ Required /\ Texts(e)[name] # None
      /\ \A name \in DOMAIN present : present[name] = Texts(e)[name]
  BY <1>2, PresentIs
<1>5. /\ DOMAIN fields = DOMAIN present \cup DOMAIN required
      /\ \A name \in DOMAIN present : fields[name] = present[name]
      /\ \A name \in DOMAIN required \ DOMAIN present : fields[name] = required[name]
  <2> HIDE DEF present
  <2>1. QED
    BY OverIs, Zenon
<1>6. DOMAIN fields = named /\ \A name \in named : fields[name] = Texts(e)[name]
  <2> HIDE DEF present, fields
  <2>1. \A name : name \in DOMAIN fields <=> name \in named
    BY <1>2, <1>3, <1>4, <1>5
  <2>2. \A name \in named : fields[name] = Texts(e)[name]
    BY <1>2, <1>4, <1>5, <2>1
  <2>3. QED
    BY <2>1, <2>2
<1>7. /\ DOMAIN ToAttributes(e) = DOMAIN e.extensions \cup DOMAIN fields
      /\ \A name \in DOMAIN e.extensions : ToAttributes(e)[name] = e.extensions[name]
      /\ \A name \in DOMAIN fields \ DOMAIN e.extensions : ToAttributes(e)[name] = fields[name]
  <2> HIDE DEF fields
  <2>1. ToAttributes(e) = Over(e.extensions, fields)
    BY <1>1 DEF fields, present
  <2> DEFINE all == Over(e.extensions, fields)
  <2>2. /\ DOMAIN all = DOMAIN e.extensions \cup DOMAIN fields
        /\ \A name \in DOMAIN e.extensions : all[name] = e.extensions[name]
        /\ \A name \in DOMAIN fields \ DOMAIN e.extensions : all[name] = fields[name]
    BY OverIs, Zenon
  <2> HIDE DEF all
  <2>3. ToAttributes(e) = all
    BY <2>1 DEF all
  <2>4. QED
    BY <2>2, <2>3
<1>8. QED
  <2> HIDE DEF fields
  <2>1. DOMAIN ToAttributes(e) = Told(e)
    BY <1>6, <1>7 DEF Told
  <2>2. ASSUME NEW name \in Told(e)
        PROVE  ToAttributes(e)[name] = IF name \in Fields THEN Texts(e)[name] ELSE e.extensions[name]
    <3>1. CASE name \in Fields
      BY <1>6, <1>7, <2>2, <3>1, ExtensionsApart DEF Told
    <3>2. CASE name \notin Fields
      BY <1>7, <2>2, <3>2 DEF Told
    <3>3. QED
      BY <3>1, <3>2
  <2>3. QED
    BY <2>1, <2>2 DEF Tells

\* from_attributes takes what tells an envelope, and makes that envelope of it.
THEOREM TellingReads ==
  ASSUME NEW e, IsEnvelope(e), NEW a, Tells(a, e)
  PROVE  Reads(a) /\ FromAttributes(a, e.data) = e
<1>1. \A name \in Fields : name \in DOMAIN a <=> name \in Required \/ Texts(e)[name] # None
  BY ExtensionsApart DEF Tells, Told
<1>2. \A name \in Fields \cap DOMAIN a : a[name] = Texts(e)[name]
  BY DEF Tells
<1>3. DOMAIN a \ Fields = DOMAIN e.extensions
  BY ExtensionsApart DEF Tells, Told
<1>4. \A name \in DOMAIN e.extensions : a[name] = e.extensions[name]
  BY ExtensionsApart DEF Tells, Told
<1>5. Required \subseteq Fields
  BY DEF Fields
<1>6. /\ a["specversion"] = Version /\ a["id"] = IdText(e.id) /\ a["source"] = e.source
      /\ a["type"] = e.type /\ a["time"] = TimeText(e.time) /\ a["datacontenttype"] = e.contentType
  BY <1>1, <1>2, <1>5 DEF Required, Texts
<1>7. Required \subseteq DOMAIN a
  BY <1>1, <1>5
<1>8. \A id \in Nat : IdText(id) # None /\ IsId(IdText(id)) /\ IdOf(IdText(id)) = id
  BY NoneAssumption DEF IdText, IsId, IdOf
<1>9. ReadsAsTime(WriteTime(e.time)) /\ ReadTime(WriteTime(e.time)) = e.time
  <2>1. e.time = [day |-> e.time.day, second |-> e.time.second, nanos |-> e.time.nanos]
    BY DEF IsEnvelope
  <2>2. QED
    BY <2>1, WrittenReads DEF IsEnvelope
<1>10. e.id \in Nat /\ e.correlationId \in Nat \cup {None} /\ e.causationId \in Nat \cup {None}
  BY DEF IsEnvelope
<1>11. Reads(a)
  <2>1. \A name \in Ids \cap DOMAIN a : IsId(a[name])
    <3>1. /\ "correlationid" \in DOMAIN a => a["correlationid"] = OptionalText(e.correlationId) /\ a["correlationid"] # None
          /\ "causationid" \in DOMAIN a => a["causationid"] = OptionalText(e.causationId) /\ a["causationid"] # None
      BY <1>1, <1>2 DEF Fields, Required, Ids, Texts
    <3>2. QED
      BY <3>1, <1>8, <1>10 DEF Ids, OptionalText
  <2>2. \A name \in DOMAIN a \ Fields : IsExtension(name)
    BY <1>3 DEF IsEnvelope
  <2>3. IsTimeText(a["time"])
    BY <1>6, <1>9 DEF IsTimeText, TimeText
  <2>4. IsSource(a["source"]) /\ IsMessageType(a["type"]) /\ IsContentType(a["datacontenttype"])
    BY <1>6 DEF IsEnvelope
  <2>5. IsId(a["id"])
    BY <1>6, <1>8, <1>10
  <2>6. QED
    BY <1>6, <1>7, <2>1, <2>2, <2>3, <2>4, <2>5 DEF Reads
<1>12. FromAttributes(a, e.data) = e
  <2> DEFINE Optional(name) == IF name \in DOMAIN a THEN a[name] ELSE None
             OptionalId(name) == IF Optional(name) = None THEN None ELSE IdOf(Optional(name))
  <2>1. \A name \in Fields \ Required : Optional(name) = Texts(e)[name]
    BY <1>1, <1>2
  <2>2. /\ Optional("subject") = e.subject /\ Optional("dataschema") = e.dataSchema
        /\ Optional("partitionkey") = e.partitionKey
        /\ Optional("correlationid") = OptionalText(e.correlationId)
        /\ Optional("causationid") = OptionalText(e.causationId)
        /\ Optional("traceparent") = IF e.trace = None THEN None ELSE e.trace.parent
        /\ Optional("tracestate") = IF e.trace = None THEN None ELSE e.trace.state
    <3> HIDE DEF Optional
    <3>1. {"subject", "dataschema", "partitionkey", "correlationid", "causationid", "traceparent",
           "tracestate"} \subseteq Fields \ Required
      BY DEF Fields, Required, Ids
    <3>2. QED
      BY <2>1, <3>1 DEF Texts
  <2> HIDE DEF Optional
  <2>3. OptionalId("correlationid") = e.correlationId /\ OptionalId("causationid") = e.causationId
    BY <1>8, <1>10, <2>2 DEF OptionalText
  <2> HIDE DEF OptionalId
  <2>4. TraceOf(Optional("traceparent"), Optional("tracestate")) = e.trace
    <3>1. CASE e.trace = None
      BY <2>2, <3>1 DEF TraceOf
    <3>2. CASE e.trace # None
      <4>1. e.trace.parent # None /\ e.trace = [parent |-> e.trace.parent, state |-> e.trace.state]
        BY <3>2 DEF IsEnvelope
      <4>2. QED
        BY <2>2, <3>2, <4>1 DEF TraceOf
    <3>3. QED
      BY <3>1, <3>2
  <2>5. Without(a, Fields) = e.extensions
    <3>1. e.extensions = [name \in DOMAIN e.extensions |-> e.extensions[name]]
      BY DEF IsEnvelope
    <3>2. QED
      BY <1>3, <1>4, <3>1 DEF Without, Restrict
  <2>6. IdOf(a["id"]) = e.id /\ ReadTime(a["time"][2]) = e.time
    BY <1>6, <1>8, <1>9, <1>10 DEF TimeText
  <2> DEFINE made == FromAttributes(a, e.data)
  <2>7. made = [id |-> IdOf(a["id"]),
                type |-> a["type"],
                source |-> a["source"],
                time |-> ReadTime(a["time"][2]),
                subject |-> Optional("subject"),
                contentType |-> a["datacontenttype"],
                dataSchema |-> Optional("dataschema"),
                partitionKey |-> Optional("partitionkey"),
                correlationId |-> OptionalId("correlationid"),
                causationId |-> OptionalId("causationid"),
                trace |-> TraceOf(Optional("traceparent"), Optional("tracestate")),
                extensions |-> Without(a, Fields),
                data |-> e.data]
    BY DEF FromAttributes, Optional, OptionalId
  <2> HIDE DEF made
  <2>8. made = [field \in EnvelopeFields |-> made[field]]
    BY <2>7 DEF EnvelopeFields
  <2>9. \A field \in EnvelopeFields : made[field] = e[field]
    BY <1>6, <2>2, <2>3, <2>4, <2>5, <2>6, <2>7 DEF EnvelopeFields
  <2>10. QED
    BY <2>8, <2>9 DEF made, IsEnvelope
<1>13. QED
  BY <1>11, <1>12

-------------------------------------------------------------------------------
(* Rows, receipts and headers *)

\* A row's columns and its other attributes are put together again.
LEMMA PutTogether ==
  ASSUME NEW e, IsEnvelope(e), NEW names, "specversion" \in names, names \subseteq Fields,
         \A name \in (names \cap Required) \ {"specversion"} : Texts(e)[name] # None,
         NEW columns, NEW set, set = [name \in names \ {"specversion"} |-> Texts(e)[name]],
         columns = Present(set),
         NEW r, r.columns = columns, r.attributes = Without(ToAttributes(e), names)
  PROVE  Tells(RowAttributes(r), e)
<1> DEFINE all == ToAttributes(e)
           rest == Without(all, names)
           version == [specversion |-> Version]
           more == Over(version, rest)
           both == Over(columns, more)
<1>1. Tells(all, e)
  BY AttributesTell
<1>2. DOMAIN rest = DOMAIN all \ names /\ \A name \in DOMAIN rest : rest[name] = all[name]
  <2>1. DOMAIN rest = DOMAIN all \ names /\ \A name \in DOMAIN all \ names : rest[name] = all[name]
    BY WithoutIs, Zenon
  <2> HIDE DEF rest, all
  <2>2. QED
    BY <2>1
<1>3. /\ DOMAIN columns = {name \in names \ {"specversion"} : Texts(e)[name] # None}
      /\ \A name \in DOMAIN columns : columns[name] = Texts(e)[name]
  <2> DEFINE present == Present(set)
  <2>1. /\ \A name : name \in DOMAIN present <=> name \in DOMAIN set /\ set[name] # None
        /\ \A name \in DOMAIN present : present[name] = set[name]
    BY DEF Present, Restrict
  <2>2. DOMAIN set = names \ {"specversion"}
        /\ \A name \in names \ {"specversion"} : set[name] = Texts(e)[name]
    OBVIOUS
  <2>3. columns = present
    OBVIOUS
  <2> HIDE DEF present
  <2>4. QED
    BY <2>1, <2>2, <2>3
<1>4. DOMAIN version = {"specversion"} /\ version["specversion"] = Version
  OBVIOUS
<1> HIDE DEF all, rest, version
<1>5. /\ DOMAIN more = {"specversion"} \cup DOMAIN rest
      /\ more["specversion"] = Version
      /\ \A name \in DOMAIN rest \ {"specversion"} : more[name] = rest[name]
  BY <1>4 DEF Over
<1>6. /\ DOMAIN both = DOMAIN columns \cup DOMAIN more
      /\ \A name \in DOMAIN columns : both[name] = columns[name]
      /\ \A name \in DOMAIN more \ DOMAIN columns : both[name] = more[name]
  <2> HIDE DEF more
  <2>1. QED
    BY OverIs, Zenon
<1>7. RowAttributes(r) = both
  BY DEF RowAttributes, both, more, rest, all, version
<1> HIDE DEF more, both
<1>8. Texts(e)["specversion"] = Version /\ "specversion" \in Fields /\ "specversion" \in Required
  BY DEF Texts, Fields, Required
<1>9. \A name \in Fields : name \in Told(e) <=> name \in Required \/ Texts(e)[name] # None
  BY ExtensionsApart DEF Told
<1>10. DOMAIN all = Told(e) /\ \A name \in Told(e) :
           all[name] = IF name \in Fields THEN Texts(e)[name] ELSE e.extensions[name]
  BY <1>1 DEF Tells
<1>11. ASSUME NEW name PROVE name \in DOMAIN both <=> name \in Told(e)
  <2>1. CASE name \in names
    BY <2>1, <1>2, <1>3, <1>5, <1>6, <1>8, <1>9, <1>10
  <2>2. CASE name \notin names
    BY <2>2, <1>2, <1>3, <1>5, <1>6, <1>10
  <2>3. QED
    BY <2>1, <2>2
<1>12. ASSUME NEW name \in Told(e)
       PROVE  both[name] = IF name \in Fields THEN Texts(e)[name] ELSE e.extensions[name]
  <2>1. CASE name \in names
    BY <2>1, <1>2, <1>3, <1>5, <1>6, <1>8, <1>11
  <2>2. CASE name \notin names
    BY <2>2, <1>2, <1>3, <1>5, <1>6, <1>10, <1>12
  <2>3. QED
    BY <2>1, <2>2
<1>13. QED
  BY <1>7, <1>11, <1>12 DEF Tells

LEMMA SetTexts ==
  ASSUME NEW e, IsEnvelope(e)
  PROVE  \A name \in {"id", "type", "source", "datacontenttype"} : Texts(e)[name] # None
<1>1. IdText(e.id) # None
  BY NoneAssumption DEF IsEnvelope, IdText
<1>2. QED
  BY <1>1 DEF IsEnvelope, Texts

\* An outbox row as insert writes it has exactly the envelope's attributes when record puts it
\* together again: none is lost to a column that isn't set, and none is kept twice.
THEOREM RowTells ==
  ASSUME NEW e, IsEnvelope(e)
  PROVE  Tells(RowAttributes(OutboxRow(e)), e)
<1> DEFINE set == [id |-> IdText(e.id), type |-> e.type, source |-> e.source, subject |-> e.subject,
                   partitionkey |-> e.partitionKey, datacontenttype |-> e.contentType,
                   dataschema |-> e.dataSchema]
<1>1. set = [name \in OutboxColumns \ {"specversion"} |-> Texts(e)[name]]
  BY DEF OutboxColumns, Texts
<1> DEFINE r == OutboxRow(e)
<1>2. r = [columns |-> Present(set), attributes |-> Without(ToAttributes(e), OutboxColumns),
                      data |-> e.data]
  BY DEF OutboxRow
<1>3. "specversion" \in OutboxColumns /\ OutboxColumns \subseteq Fields
  BY DEF OutboxColumns, Fields, Required
<1>4. (OutboxColumns \cap Required) \ {"specversion"} \subseteq {"id", "type", "source", "datacontenttype"}
  BY DEF OutboxColumns, Required
<1> HIDE DEF set, r
<1>5. /\ r.columns = Present(set) /\ r.attributes = Without(ToAttributes(e), OutboxColumns)
      /\ r.data = e.data
  BY <1>2
<1>6. \A name \in (OutboxColumns \cap Required) \ {"specversion"} : Texts(e)[name] # None
  BY <1>4, SetTexts
<1>7. Tells(RowAttributes(r), e)
  BY <1>1, <1>3, <1>5, <1>6, PutTogether
<1>8. QED
  BY <1>5, <1>7 DEF r

\* So has an inbox receipt as PostgresInbox::record writes it with the data.
THEOREM ReceiptTells ==
  ASSUME NEW e, IsEnvelope(e)
  PROVE  Tells(RowAttributes(Receipt(e, TRUE)), e) /\ Receipt(e, TRUE).data = e.data
<1> DEFINE set == [id |-> IdText(e.id), type |-> e.type, source |-> e.source,
                   correlationid |-> OptionalText(e.correlationId)]
<1>1. set = [name \in InboxColumns \ {"specversion"} |-> Texts(e)[name]]
  BY DEF InboxColumns, Texts
<1> DEFINE r == Receipt(e, TRUE)
<1>2. r = [columns |-> Present(set), attributes |-> Without(ToAttributes(e), InboxColumns),
                          data |-> e.data]
  BY DEF Receipt
<1>3. "specversion" \in InboxColumns /\ InboxColumns \subseteq Fields
  BY DEF InboxColumns, Fields, Required, Ids
<1>4. (InboxColumns \cap Required) \ {"specversion"} \subseteq {"id", "type", "source", "datacontenttype"}
  BY DEF InboxColumns, Required
<1> HIDE DEF set, r
<1>5. /\ r.columns = Present(set) /\ r.attributes = Without(ToAttributes(e), InboxColumns)
      /\ r.data = e.data
  BY <1>2
<1>6. \A name \in (InboxColumns \cap Required) \ {"specversion"} : Texts(e)[name] # None
  BY <1>4, SetTexts
<1>7. Tells(RowAttributes(r), e)
  BY <1>1, <1>3, <1>5, <1>6, PutTogether
<1>8. QED
  BY <1>5, <1>7 DEF r

\* Headers that carry attributes read as them, whatever other headers there are.
Carries(headers, attributes) ==
  /\ \A header \in DOMAIN headers :
       header[1] \in {"ce-", "Ce-"} => \E name \in DOMAIN attributes : header = Ce(name)
  /\ \A name \in DOMAIN attributes :
       Ce(name) \in DOMAIN headers /\ headers[Ce(name)] = attributes[name]

LEMMA CarriedReads ==
  ASSUME NEW headers, NEW attributes, Carries(headers, attributes)
  PROVE  /\ DOMAIN ReadHeaders(headers) = DOMAIN attributes
         /\ \A name \in DOMAIN attributes : ReadHeaders(headers)[name] = attributes[name]
<1> DEFINE ours == {header \in DOMAIN headers : header[1] \in {"ce-", "Ce-"}}
<1>1. \A name : Ce(name)[1] = "ce-" /\ Ce(name)[2] = name
  BY DEF Ce
<1>2. \A header \in ours : \E name \in DOMAIN attributes : header = Ce(name)
  BY DEF Carries
<1>3. \A name \in DOMAIN attributes : Ce(name) \in ours
  BY <1>1 DEF Carries
<1>4. ReadHeaders(headers) = [name \in {header[2] : header \in ours} |->
                                headers[CHOOSE header \in ours : header[2] = name]]
  BY DEF ReadHeaders
<1> HIDE DEF ours
<1>5. {header[2] : header \in ours} = DOMAIN attributes
  <2>1. \A name \in DOMAIN attributes : Ce(name) \in ours /\ Ce(name)[2] = name
    BY <1>1, <1>3
  <2>2. \A header \in ours : header[2] \in DOMAIN attributes
    BY <1>1, <1>2
  <2>3. QED
    BY <2>1, <2>2
<1>6. ASSUME NEW name \in DOMAIN attributes
      PROVE  headers[CHOOSE header \in ours : header[2] = name] = attributes[name]
  <2>1. \A header \in ours : header[2] = name => header = Ce(name)
    BY <1>1, <1>2
  <2>2. (CHOOSE header \in ours : header[2] = name) = Ce(name)
    BY <1>1, <1>3, <2>1
  <2>3. QED
    BY <2>2 DEF Carries
<1>7. QED
  BY <1>4, <1>5, <1>6

\* So have the attributes that NatsDelivery::read finds in the headers that NatsTransport wrote.
THEOREM HeadersTell ==
  ASSUME NEW e, IsEnvelope(e)
  PROVE  Tells(ReadHeaders(Headers(e)), e)
<1> DEFINE all == ToAttributes(e)
           id == [header \in {MsgId} |-> IdText(e.id)]
           prefixed == Prefixed(all)
           headers == Headers(e)
<1>1. Tells(all, e)
  BY AttributesTell
<1>2. DOMAIN id = {MsgId}
  OBVIOUS
<1>3. /\ DOMAIN prefixed = {Ce(name) : name \in DOMAIN all}
      /\ \A name \in DOMAIN all : prefixed[Ce(name)] = all[name]
  BY DEF Prefixed, Ce
<1>4. headers = Over(id, prefixed)
  BY DEF Headers
<1>5. MsgId[1] \notin {"ce-", "Ce-"} /\ \A name : Ce(name)[1] = "ce-"
  BY DEF MsgId, Ce
<1> HIDE DEF id, prefixed, all, headers
<1>6. /\ DOMAIN headers = DOMAIN id \cup DOMAIN prefixed
      /\ \A header \in DOMAIN prefixed \ DOMAIN id : headers[header] = prefixed[header]
  BY <1>4 DEF Over
<1>7. Carries(headers, all)
  BY <1>2, <1>3, <1>5, <1>6 DEF Carries
<1>8. DOMAIN ReadHeaders(headers) = DOMAIN all /\ \A name \in DOMAIN all : ReadHeaders(headers)[name] = all[name]
  BY <1>7, CarriedReads
<1>9. QED
  BY <1>1, <1>8 DEF Tells, headers

-------------------------------------------------------------------------------
(* Line breaks and error copies *)

\* The text that the attributes of an envelope have for a name.
TextOf(e, name) == IF name \in Fields THEN Texts(e)[name] ELSE e.extensions[name]
OneLined(e) == \A name \in Told(e) : ~HasLineBreak(TextOf(e, name))

LEMMA OneLinedIs ==
  ASSUME NEW e, IsEnvelope(e)
  PROVE  /\ WritesHeaders(e) <=> OneLined(e)
         /\ OneLined(e) => \A text \in Range(Headers(e)) : ~HasLineBreak(text)
<1> DEFINE all == ToAttributes(e)
           id == [header \in {MsgId} |-> IdText(e.id)]
           prefixed == Prefixed(all)
           headers == Headers(e)
<1>1. DOMAIN all = Told(e) /\ \A name \in Told(e) : all[name] = TextOf(e, name)
  BY AttributesTell DEF Tells, TextOf
<1>2. DOMAIN id = {MsgId} /\ id[MsgId] = IdText(e.id) /\ ~HasLineBreak(IdText(e.id))
  BY DEF HasLineBreak, IdText
<1>3. /\ DOMAIN prefixed = {Ce(name) : name \in DOMAIN all}
      /\ \A name \in DOMAIN all : prefixed[Ce(name)] = all[name]
  BY DEF Prefixed, Ce
<1>4. headers = Over(id, prefixed)
  BY DEF Headers
<1>5. WritesHeaders(e) <=> \A name \in DOMAIN all : ~HasLineBreak(all[name])
  BY DEF WritesHeaders, Range
<1> HIDE DEF id, prefixed, all, headers
<1>6. WritesHeaders(e) <=> OneLined(e)
  BY <1>1, <1>5 DEF OneLined
<1>7. ASSUME OneLined(e) PROVE \A text \in Range(headers) : ~HasLineBreak(text)
  <2>1. /\ DOMAIN headers = DOMAIN id \cup DOMAIN prefixed
        /\ \A header \in DOMAIN id : headers[header] = id[header]
        /\ \A header \in DOMAIN prefixed \ DOMAIN id : headers[header] = prefixed[header]
    BY <1>4 DEF Over
  <2>2. ASSUME NEW header \in DOMAIN headers PROVE ~HasLineBreak(headers[header])
    BY <1>1, <1>2, <1>3, <1>7, <2>1 DEF OneLined
  <2>3. QED
    BY <2>2 DEF Range
<1>8. QED
  BY <1>6, <1>7 DEF headers

\* Other extensions leave the rest of an envelope as it is.
LEMMA WithExtensions ==
  ASSUME NEW e, IsEnvelope(e), NEW x, x = [name \in DOMAIN x |-> x[name]],
         \A name \in DOMAIN x : IsExtension(name),
         NEW other
  PROVE  other = [e EXCEPT !.extensions = x] =>
           /\ IsEnvelope(other) /\ other.extensions = x /\ other.data = e.data
           /\ Texts(other) = Texts(e)
           /\ \A name : name \in Told(other) <=> name \in DOMAIN x \/ name \in Fields \cap Told(e)
<1>0. SUFFICES ASSUME other = [e EXCEPT !.extensions = x]
      PROVE  /\ IsEnvelope(other) /\ other.extensions = x /\ other.data = e.data
             /\ Texts(other) = Texts(e)
             /\ \A name : name \in Told(other) <=> name \in DOMAIN x \/ name \in Fields \cap Told(e)
  OBVIOUS
<1>1. DOMAIN e = EnvelopeFields
  BY DEF IsEnvelope
<1>2. DOMAIN other = EnvelopeFields /\ other = [field \in EnvelopeFields |-> other[field]]
  BY <1>0, <1>1
<1>3. \A field \in EnvelopeFields \ {"extensions"} : other[field] = e[field]
  BY <1>0, <1>1
<1>4. other.extensions = x
  BY <1>0, <1>1 DEF EnvelopeFields
<1>5. /\ other.id = e.id /\ other.type = e.type /\ other.source = e.source /\ other.time = e.time
      /\ other.subject = e.subject /\ other.contentType = e.contentType
      /\ other.dataSchema = e.dataSchema /\ other.partitionKey = e.partitionKey
      /\ other.correlationId = e.correlationId /\ other.causationId = e.causationId
      /\ other.trace = e.trace /\ other.data = e.data
  BY <1>3 DEF EnvelopeFields
<1>6. IsEnvelope(other)
  BY <1>2, <1>4, <1>5, Zenon DEF IsEnvelope
<1>7. Texts(other) = Texts(e)
  BY <1>5, Zenon DEF Texts
<1>8. \A name : name \in Told(other) <=> name \in DOMAIN x \/ name \in Fields \cap Told(e)
  <2>1. \A name : name \in Told(e) <=> name \in DOMAIN e.extensions
                                       \/ (name \in Fields /\ (name \in Required \/ Texts(e)[name] # None))
    BY DEF Told
  <2>2. \A name : name \in Told(other) <=> name \in DOMAIN x
                                       \/ (name \in Fields /\ (name \in Required \/ Texts(e)[name] # None))
    BY <1>4, <1>7 DEF Told
  <2>3. QED
    BY <2>1, <2>2, ExtensionsApart
<1>9. QED
  BY <1>4, <1>5, <1>6, <1>7, <1>8

LEMMA OneLineIs ==
  /\ \A text : ~HasLineBreak(OneLine(text))
  /\ \A text : ~HasLineBreak(text) => OneLine(text) = text
BY DEF HasLineBreak, OneLine

\* An envelope but for the failure that an error copy tells.
WithoutFailure(e) == [e EXCEPT !.extensions = Without(@, ErrorNames)]

\* What an error copy of `e` is: whole headers without Nats-Msg-Id that read as `e` with the
\* failure.
CopyTells(headers, data, e, at, n) ==
  LET read == ReadHeaders(headers)
      copied == FromAttributes(read, data)
  IN  /\ \A text \in Range(headers) : ~HasLineBreak(text)
      /\ MsgId \notin DOMAIN headers
      /\ Reads(read)
      /\ WithoutFailure(copied) = WithoutFailure(e)
      /\ copied.extensions["errorendpoint"] = at
      /\ copied.extensions["errorattempts"] = <<"number", n>>

\* An error copy tells its envelope and the failure.
LEMMA ErrorCopy ==
  ASSUME NEW e, IsEnvelope(e), OneLined(e), NEW at, ~HasLineBreak(at), NEW type, ~HasLineBreak(type),
         NEW error, NEW n, NEW failed, failed = ErrorEnvelope(e, at, type, error, n)
  PROVE  CopyTells(ErrorHeaders(failed), failed.data, e, at, n)
<1> DEFINE labels == [errorendpoint |-> at, errortype |-> type, errormessage |-> error,
                      errorattempts |-> <<"number", n>>]
           x == Over(labels, e.extensions)
           one == [name \in DOMAIN x |-> OneLine(x[name])]
           copy == [e EXCEPT !.extensions = one]
           headers == ErrorHeaders(failed)
           all == ToAttributes(failed)
           prefixed == Prefixed(all)
           read == ReadHeaders(headers)
<1>1. DOMAIN e = EnvelopeFields /\ "extensions" \in EnvelopeFields
  BY DEF IsEnvelope, EnvelopeFields
<1>2. failed = [e EXCEPT !.extensions = x]
  BY DEF ErrorEnvelope
<1>3. /\ DOMAIN labels = ErrorNames
      /\ labels["errorendpoint"] = at /\ labels["errorattempts"] = <<"number", n>>
      /\ \A name \in ErrorNames : name # "errormessage" => ~HasLineBreak(labels[name])
  BY DEF ErrorNames, HasLineBreak
<1>4. \A name \in ErrorNames : IsExtension(name)
  BY DEF ErrorNames, IsExtension, PlainNames, Reserved, Fields, Required, Ids
<1>5. \A name \in DOMAIN e.extensions : IsExtension(name)
  BY DEF IsEnvelope
<1> HIDE DEF labels
<1>6. /\ DOMAIN x = ErrorNames \cup DOMAIN e.extensions /\ x = [name \in DOMAIN x |-> x[name]]
      /\ \A name \in ErrorNames : x[name] = labels[name]
      /\ \A name \in DOMAIN e.extensions \ ErrorNames : x[name] = e.extensions[name]
  BY <1>3 DEF Over
<1> HIDE DEF x
<1>7. \A name \in DOMAIN x : IsExtension(name)
  BY <1>4, <1>5, <1>6
<1>8. /\ DOMAIN one = DOMAIN x /\ one = [name \in DOMAIN one |-> one[name]]
      /\ \A name \in DOMAIN x : one[name] = OneLine(x[name])
  OBVIOUS
<1> HIDE DEF one
<1>9. /\ IsEnvelope(failed) /\ failed.extensions = x /\ failed.data = e.data /\ Texts(failed) = Texts(e)
      /\ \A name : name \in Told(failed) <=> name \in DOMAIN x \/ name \in Fields \cap Told(e)
  BY <1>2, <1>6, <1>7, WithExtensions
<1>10. /\ IsEnvelope(copy) /\ copy.extensions = one /\ copy.data = e.data /\ Texts(copy) = Texts(e)
       /\ \A name : name \in Told(copy) <=> name \in DOMAIN x \/ name \in Fields \cap Told(e)
  <2>1. \A name \in DOMAIN one : IsExtension(name)
    BY <1>7, <1>8
  <2>2. IsEnvelope(copy) /\ copy.extensions = one /\ copy.data = e.data /\ Texts(copy) = Texts(e)
        /\ \A name : name \in Told(copy) <=> name \in DOMAIN one \/ name \in Fields \cap Told(e)
    BY <1>8, <2>1, WithExtensions
  <2>3. QED
    BY <1>8, <2>2
<1>11. DOMAIN all = Told(failed) /\ \A name \in Told(failed) : all[name] = TextOf(failed, name)
  BY <1>9, AttributesTell DEF Tells, TextOf
<1> HIDE DEF all
<1>12. /\ DOMAIN prefixed = {Ce(name) : name \in DOMAIN all}
       /\ \A name \in DOMAIN all : prefixed[Ce(name)] = all[name]
  BY DEF Prefixed, Ce
<1> HIDE DEF prefixed
<1>13. headers = [header \in DOMAIN prefixed |-> OneLine(prefixed[header])]
  BY DEF ErrorHeaders, prefixed, all
<1> HIDE DEF headers
<1>14. /\ DOMAIN headers = {Ce(name) : name \in DOMAIN all}
       /\ \A name \in DOMAIN all : headers[Ce(name)] = OneLine(all[name])
  BY <1>12, <1>13
<1>15. \A text \in Range(headers) : ~HasLineBreak(text)
  BY <1>13, OneLineIs DEF Range
<1>16. MsgId \notin DOMAIN headers
  BY <1>14 DEF MsgId, Ce
<1> DEFINE lines == [name \in DOMAIN all |-> OneLine(all[name])]
<1>17. DOMAIN lines = DOMAIN all /\ \A name \in DOMAIN all : lines[name] = OneLine(all[name])
  OBVIOUS
<1> HIDE DEF lines
<1>18. Carries(headers, lines)
  BY <1>14, <1>17 DEF Carries
<1>19. DOMAIN read = DOMAIN all /\ \A name \in DOMAIN all : read[name] = OneLine(all[name])
  BY <1>17, <1>18, CarriedReads
<1> HIDE DEF read, copy
<1>20. Tells(read, copy)
  <2>1. DOMAIN read = Told(copy)
    BY <1>9, <1>10, <1>11, <1>19
  <2>2. ASSUME NEW name \in Told(copy) PROVE read[name] = TextOf(copy, name)
    <3>1. read[name] = OneLine(TextOf(failed, name))
      BY <1>11, <1>19, <2>1
    <3>2. CASE name \in Fields
      <4>1. name \in Told(e)
        BY <1>7, <1>10, <2>2, <3>2 DEF IsExtension, Reserved
      <4>2. ~HasLineBreak(Texts(e)[name])
        BY <3>2, <4>1 DEF OneLined, TextOf
      <4>3. QED
        BY <1>9, <1>10, <3>1, <3>2, <4>2, OneLineIs DEF TextOf
    <3>3. CASE name \notin Fields
      BY <1>8, <1>9, <1>10, <2>2, <3>1, <3>3 DEF TextOf
    <3>4. QED
      BY <3>2, <3>3
  <2>3. QED
    BY <2>1, <2>2 DEF Tells, TextOf
<1>21. Reads(read) /\ FromAttributes(read, failed.data) = copy
  BY <1>9, <1>10, <1>20, TellingReads
<1>22. WithoutFailure(copy) = WithoutFailure(e)
  <2>1. \A name \in DOMAIN e.extensions : ~HasLineBreak(e.extensions[name])
    BY ExtensionsApart DEF OneLined, Told, TextOf
  <2>2. DOMAIN one \ ErrorNames = DOMAIN e.extensions \ ErrorNames
    BY <1>6, <1>8
  <2>3. \A name \in DOMAIN e.extensions \ ErrorNames : one[name] = e.extensions[name]
    BY <1>6, <1>8, <2>1, OneLineIs
  <2>4. Without(one, ErrorNames) = Without(e.extensions, ErrorNames)
    BY <2>2, <2>3 DEF Without, Restrict
  <2> DEFINE bare == Without(e.extensions, ErrorNames)
  <2> HIDE DEF bare
  <2>5. DOMAIN copy = EnvelopeFields /\ \A field \in EnvelopeFields \ {"extensions"} : copy[field] = e[field]
    BY <1>1 DEF copy
  <2>6. [copy EXCEPT !.extensions = bare] = [e EXCEPT !.extensions = bare]
    BY <1>1, <2>5
  <2>7. QED
    BY <1>10, <2>4, <2>6 DEF bare, WithoutFailure
<1>23. one["errorendpoint"] = at /\ one["errorattempts"] = <<"number", n>>
  <2>1. {"errorendpoint", "errorattempts"} \subseteq ErrorNames
    BY DEF ErrorNames
  <2>2. QED
    BY <1>3, <1>6, <1>8, <2>1, OneLineIs
<1>24. QED
  BY <1>10, <1>15, <1>16, <1>21, <1>22, <1>23 DEF CopyTells, headers, read

-------------------------------------------------------------------------------
(* Another client's message *)

LEMMA WrittenIsTime ==
  ASSUME NEW text, IsWritten(text), ReadsAsTime(text)
  PROVE  LET time == ReadTime(text)
         IN  IsTime(time) /\ time = [field \in {"day", "second", "nanos"} |-> time[field]]
<1> DEFINE time == ReadTime(text)
           digits == text.digits
           d(place) == DigitAt(digits, place)
           seconds == text.clock[1] * 3600 + text.clock[2] * 60 + text.clock[3]
                        - text.offset.sign * (text.offset.hour * 3600 + text.offset.minute * 60)
<1>1. time = [day |-> DaysFromDate(text.date) + seconds \div SecondsPerDay,
              second |-> seconds % SecondsPerDay, nanos |-> Nanos(digits)]
  BY DEF ReadTime
<1>2. time.day \in FirstDay..LastDay
  BY DEF ReadsAsTime
<1>3. seconds \in Int
  <2>1. /\ text.clock[1] \in Int /\ text.clock[2] \in Int /\ text.clock[3] \in Int
        /\ text.offset.sign \in {-1, 1} /\ text.offset.hour \in Int /\ text.offset.minute \in Int
    BY DEF IsWritten
  <2>2. QED
    BY <2>1
<1>4. \A place \in 1..9 : d(place) \in Int /\ 0 <= d(place) /\ d(place) <= 9
  <2>1. digits \in Seq(0..9)
    BY DEF IsWritten
  <2> HIDE DEF digits
  <2>2. TAKE place \in 1..9
  <2>3. CASE place <= Len(digits)
    <3>1. place \in 1..Len(digits)
      BY <2>1, <2>3
    <3>2. digits[place] \in 0..9
      BY <2>1, <3>1
    <3>3. QED
      BY <2>3, <3>2 DEF DigitAt
  <2>4. CASE ~(place <= Len(digits))
    BY <2>4 DEF DigitAt
  <2>5. QED
    BY <2>3, <2>4
<1> HIDE DEF seconds, digits
<1>5. seconds % SecondsPerDay \in 0..(SecondsPerDay - 1)
  <2> DEFINE rest == seconds % SecondsPerDay
  <2>1. rest \in Int /\ 0 <= rest /\ rest < SecondsPerDay /\ SecondsPerDay \in Int
    BY <1>3, Z3 DEF SecondsPerDay
  <2> HIDE DEF rest
  <2>2. rest \in 0..(SecondsPerDay - 1)
    BY <2>1
  <2>3. QED
    BY <2>2 DEF rest
<1>6. Nanos(digits) \in 0..(NanosPerSecond - 1)
  <2> DEFINE nanos == Nanos(digits)
  <2>1. nanos = 100000000 * d(1) + 10000000 * d(2) + 1000000 * d(3) + 100000 * d(4) + 10000 * d(5)
                + 1000 * d(6) + 100 * d(7) + 10 * d(8) + d(9)
    BY <1>4, NanosAddUp
  <2>2. /\ d(1) \in Int /\ d(2) \in Int /\ d(3) \in Int /\ d(4) \in Int /\ d(5) \in Int
        /\ d(6) \in Int /\ d(7) \in Int /\ d(8) \in Int /\ d(9) \in Int
        /\ 0 <= d(1) /\ 0 <= d(2) /\ 0 <= d(3) /\ 0 <= d(4) /\ 0 <= d(5) /\ 0 <= d(6) /\ 0 <= d(7)
        /\ 0 <= d(8) /\ 0 <= d(9)
        /\ d(1) <= 9 /\ d(2) <= 9 /\ d(3) <= 9 /\ d(4) <= 9 /\ d(5) <= 9 /\ d(6) <= 9 /\ d(7) <= 9
        /\ d(8) <= 9 /\ d(9) <= 9
    BY <1>4
  <2> HIDE DEF nanos, d
  <2>3. nanos \in Int /\ 0 <= nanos /\ nanos < NanosPerSecond /\ NanosPerSecond \in Int
    BY <2>1, <2>2, Z3 DEF NanosPerSecond
  <2>4. nanos \in 0..(NanosPerSecond - 1)
    BY <2>3
  <2>5. QED
    BY <2>4 DEF nanos
<1> HIDE DEF time
<1>7. /\ time.second = seconds % SecondsPerDay /\ time.nanos = Nanos(digits)
      /\ time = [field \in {"day", "second", "nanos"} |-> time[field]]
  BY <1>1
<1>8. IsTime(time)
  BY <1>2, <1>5, <1>6, <1>7, Zenon DEF IsTime
<1>9. QED
  BY <1>7, <1>8 DEF time

\* Another client's attributes that from_attributes takes make an envelope that keeps the rules,
\* fits into headers, and says what they say, in whatever spelling an id or a time came.
THEOREM ForeignReads ==
  ASSUME NEW a, \A name \in DOMAIN a : IsText(a[name]) /\ ~HasLineBreak(a[name]), Reads(a),
         None \notin [parent : Range(a), state : Range(a) \cup {None}], NEW data, NEW e, e = FromAttributes(a, data)
  PROVE  /\ IsEnvelope(e) /\ OneLined(e) /\ e.data = data
         /\ LET ours == ToAttributes(e)
                lone == IF "traceparent" \in DOMAIN a THEN {} ELSE {"tracestate"}
            IN  /\ DOMAIN ours = DOMAIN a \ lone
                /\ \A name \in DOMAIN ours : SaysTheSame(name, ours[name], a[name])
<1> DEFINE Optional(name) == IF name \in DOMAIN a THEN a[name] ELSE None
           OptionalId(name) == IF Optional(name) = None THEN None ELSE IdOf(Optional(name))
           ours == ToAttributes(e)
           lone == IF "traceparent" \in DOMAIN a THEN {} ELSE {"tracestate"}
           time == ReadTime(a["time"][2])
<1>1. e = [id |-> IdOf(a["id"]),
           type |-> a["type"],
           source |-> a["source"],
           time |-> time,
           subject |-> Optional("subject"),
           contentType |-> a["datacontenttype"],
           dataSchema |-> Optional("dataschema"),
           partitionKey |-> Optional("partitionkey"),
           correlationId |-> OptionalId("correlationid"),
           causationId |-> OptionalId("causationid"),
           trace |-> TraceOf(Optional("traceparent"), Optional("tracestate")),
           extensions |-> Without(a, Fields),
           data |-> data]
  BY DEF FromAttributes
<1>2. \A name \in DOMAIN a : a[name] # None
  BY DEF IsText
<1>3. Required \subseteq DOMAIN a /\ Required \subseteq Fields
  BY DEF Reads, Fields
<1>4. IsTimeText(a["time"]) /\ IsTime(time) /\ time = [field \in {"day", "second", "nanos"} |-> time[field]]
  <2>1. a["time"][1] = "time" /\ ReadsAsTime(a["time"][2]) /\ "time" \in DOMAIN a
    BY <1>3 DEF Reads, IsTimeText, Required
  <2>2. IsWritten(a["time"][2])
    BY <2>1 DEF IsText
  <2>3. IsTime(time) /\ time = [field \in {"day", "second", "nanos"} |-> time[field]]
    BY <2>1, <2>2, WrittenIsTime
  <2>4. QED
    BY <2>3 DEF Reads
<1>5. /\ IsId(a["id"]) /\ IdOf(a["id"]) \in Nat
      /\ \A name \in Ids : Optional(name) # None => IsId(a[name]) /\ IdOf(a[name]) \in Nat
  BY <1>3 DEF Reads, IsText, Required
<1>6. /\ OptionalId("correlationid") \in Nat \cup {None}
      /\ OptionalId("causationid") \in Nat \cup {None}
  BY <1>5 DEF Ids
<1> HIDE DEF time, Optional, OptionalId
<1>7. /\ DOMAIN Without(a, Fields) = DOMAIN a \ Fields
      /\ Without(a, Fields) = [name \in DOMAIN a \ Fields |-> a[name]]
      /\ \A name \in DOMAIN a \ Fields : Without(a, Fields)[name] = a[name] /\ IsExtension(name)
  <2>1. \A name \in DOMAIN a \ Fields : IsExtension(name)
    BY DEF Reads
  <2>2. QED
    BY <2>1 DEF Without, Restrict
<1>8. IsEnvelope(e)
  <2>1. e = [field \in EnvelopeFields |-> e[field]]
    BY <1>1 DEF EnvelopeFields
  <2>2. IsMessageType(a["type"]) /\ IsSource(a["source"]) /\ IsContentType(a["datacontenttype"])
    BY DEF Reads
  <2>3. None \notin {a["type"], a["source"], a["datacontenttype"]}
    BY <1>2, <1>3 DEF Required
  <2>4. ASSUME NEW parent, NEW state, TraceOf(parent, state) # None
        PROVE  /\ TraceOf(parent, state).parent # None
               /\ TraceOf(parent, state) = [field \in {"parent", "state"} |-> TraceOf(parent, state)[field]]
    <3>1. parent # None /\ TraceOf(parent, state) = [parent |-> parent, state |-> state]
      BY <2>4 DEF TraceOf
    <3>2. QED
      BY <3>1
  <2>5. /\ e.id = IdOf(a["id"]) /\ e.type = a["type"] /\ e.source = a["source"] /\ e.time = time
        /\ e.contentType = a["datacontenttype"] /\ e.correlationId = OptionalId("correlationid")
        /\ e.causationId = OptionalId("causationid") /\ e.extensions = Without(a, Fields)
        /\ e.trace = TraceOf(Optional("traceparent"), Optional("tracestate"))
    BY <1>1
  <2> DEFINE x == Without(a, Fields)
  <2>6. x = [name \in DOMAIN x |-> x[name]] /\ \A name \in DOMAIN x : IsExtension(name)
    <3> HIDE DEF x
    <3>1. QED
      BY <1>7 DEF x
  <2>7. e.trace # None => /\ e.trace.parent # None
                          /\ e.trace = [field \in {"parent", "state"} |-> e.trace[field]]
    <3> DEFINE trace == TraceOf(Optional("traceparent"), Optional("tracestate"))
    <3>1. trace # None => trace.parent # None /\ trace = [field \in {"parent", "state"} |-> trace[field]]
      BY <2>4, Zenon
    <3> HIDE DEF trace
    <3>2. e.trace = trace
      BY <2>5 DEF trace
    <3>3. QED
      BY <3>1, <3>2
  <2> HIDE DEF x
  <2>8. e.extensions = [name \in DOMAIN e.extensions |-> e.extensions[name]]
        /\ \A name \in DOMAIN e.extensions : IsExtension(name)
    BY <2>5, <2>6 DEF x
  <2>9. e.id \in Nat /\ IsMessageType(e.type) /\ IsSource(e.source) /\ IsContentType(e.contentType)
        /\ None \notin {e.type, e.source, e.contentType}
        /\ IsTime(e.time) /\ e.time = [field \in {"day", "second", "nanos"} |-> e.time[field]]
    BY <1>4, <1>5, <2>2, <2>3, <2>5
  <2>10. e.correlationId \in Nat \cup {None} /\ e.causationId \in Nat \cup {None}
    BY <1>6, <2>5
  <2>11. QED
    BY <2>1, <2>7, <2>8, <2>9, <2>10, Zenon DEF IsEnvelope
<1>9. /\ Texts(e)["specversion"] = Version /\ Texts(e)["id"] = IdText(IdOf(a["id"]))
      /\ Texts(e)["source"] = a["source"] /\ Texts(e)["type"] = a["type"]
      /\ Texts(e)["time"] = TimeText(time)
      /\ Texts(e)["datacontenttype"] = a["datacontenttype"]
      /\ Texts(e)["correlationid"] = OptionalText(OptionalId("correlationid"))
      /\ Texts(e)["causationid"] = OptionalText(OptionalId("causationid"))
      /\ Texts(e)["subject"] = Optional("subject") /\ Texts(e)["dataschema"] = Optional("dataschema")
      /\ Texts(e)["partitionkey"] = Optional("partitionkey")
  BY <1>1 DEF Texts
<1>10. /\ Texts(e)["traceparent"] = Optional("traceparent")
       /\ Texts(e)["tracestate"] = IF Optional("traceparent") = None THEN None ELSE Optional("tracestate")
  <2>1. e.trace = TraceOf(Optional("traceparent"), Optional("tracestate"))
    BY <1>1
  <2>2. /\ Texts(e)["traceparent"] = IF e.trace = None THEN None ELSE e.trace.parent
        /\ Texts(e)["tracestate"] = IF e.trace = None THEN None ELSE e.trace.state
    BY DEF Texts
  <2>3. CASE Optional("traceparent") = None
    BY <2>1, <2>2, <2>3 DEF TraceOf
  <2>4. CASE Optional("traceparent") # None
    <3>1. Optional("traceparent") \in Range(a) /\ Optional("tracestate") \in Range(a) \cup {None}
      BY <2>4 DEF Optional, Range
    <3>2. e.trace = [parent |-> Optional("traceparent"), state |-> Optional("tracestate")]
      BY <2>1, <2>4 DEF TraceOf
    <3>3. e.trace # None
      BY <3>1, <3>2
    <3>4. QED
      BY <2>2, <2>4, <3>2, <3>3
  <2>5. QED
    BY <2>3, <2>4
\* So the envelope's texts are those of the attributes, in whatever spelling.
<1>11. \A id \in Nat : IdText(id) # None /\ IdOf(IdText(id)) = id /\ ~HasLineBreak(IdText(id))
  BY NoneAssumption DEF IdText, IdOf, HasLineBreak
<1>12. ASSUME NEW name \in Fields
       PROVE  /\ name \in Told(e) <=> name \in DOMAIN a \ lone
              /\ name \in Told(e) => SaysTheSame(name, Texts(e)[name], a[name])
                                     /\ ~HasLineBreak(Texts(e)[name])
  <2>1. name \in Told(e) <=> name \in Required \/ Texts(e)[name] # None
    BY <1>8, ExtensionsApart DEF Told
  <2>2. \A text : /\ name \in Ids \cup {"id"} => (SaysTheSame(name, text, a[name]) <=> IdOf(text) = IdOf(a[name]))
                  /\ name = "time" => (SaysTheSame(name, text, a[name]) <=> ReadTime(text[2]) = ReadTime(a[name][2]))
                  /\ name \notin Ids \cup {"id", "time"} => (SaysTheSame(name, text, a[name]) <=> text = a[name])
    BY DEF SaysTheSame, Ids
  <2>3. Optional(name) # None <=> name \in DOMAIN a
    BY <1>2 DEF Optional
  <2>4. name \in DOMAIN a => Optional(name) = a[name] /\ ~HasLineBreak(a[name])
    BY DEF Optional
  <2>5. CASE name \in Required
    <3>1. name \in DOMAIN a \ lone /\ name \in Told(e)
      BY <1>3, <2>1, <2>5 DEF Required
    <3>2. CASE name = "id"
      BY <1>5, <1>9, <1>11, <2>2, <3>1, <3>2
    <3>3. CASE name = "time"
      <4>1. time = [day |-> time.day, second |-> time.second, nanos |-> time.nanos]
        BY <1>4
      <4>2. ReadTime(WriteTime(time)) = time
        BY <1>4, <4>1, WrittenReads
      <4>3. Texts(e)["time"] = <<"time", WriteTime(time)>>
        BY <1>9 DEF TimeText
      <4>4. ReadTime(Texts(e)["time"][2]) = ReadTime(a["time"][2]) /\ ~HasLineBreak(Texts(e)["time"])
        BY <4>2, <4>3 DEF HasLineBreak, time
      <4>5. QED
        BY <2>2, <3>1, <3>3, <4>4
    <3>4. CASE name \in {"specversion", "source", "type", "datacontenttype"}
      <4>1. a["specversion"] = Version
        BY DEF Reads
      <4>2. Texts(e)[name] = a[name]
        BY <1>9, <3>4, <4>1
      <4>3. name \notin Ids \cup {"id", "time"}
        BY <3>4 DEF Ids
      <4>4. QED
        BY <2>2, <2>4, <3>1, <4>2, <4>3
    <3>5. QED
      BY <2>5, <3>2, <3>3, <3>4 DEF Required
  <2>6. CASE name \in Ids
    <3>1. Texts(e)[name] = OptionalText(OptionalId(name))
      BY <1>9, <2>6 DEF Ids
    <3>2. name \notin Required /\ (name \in DOMAIN a \ lone <=> name \in DOMAIN a)
      BY <2>6 DEF Ids, Required
    <3>3. CASE Optional(name) = None
      BY <2>1, <2>3, <3>1, <3>2, <3>3 DEF OptionalId, OptionalText
    <3>4. CASE Optional(name) # None
      <4>1. OptionalId(name) = IdOf(a[name]) /\ IdOf(a[name]) \in Nat
        BY <1>5, <2>3, <2>4, <2>6, <3>4 DEF OptionalId
      <4>2. OptionalId(name) # None => Texts(e)[name] = IdText(IdOf(a[name]))
        BY <3>1, <4>1 DEF OptionalText
      <4>3. OptionalId(name) # None
        BY <4>1, NoneAssumption
      <4>4. QED
        BY <1>11, <2>1, <2>2, <2>3, <2>6, <3>2, <3>4, <4>1, <4>2, <4>3
    <3>5. QED
      BY <3>3, <3>4
  <2>7. CASE name \in {"subject", "dataschema", "partitionkey", "traceparent"}
    <3>1. Texts(e)[name] = Optional(name)
      BY <1>9, <1>10, <2>7
    <3>2. name \notin Required /\ name \notin Ids \cup {"id", "time"}
          /\ (name \in DOMAIN a \ lone <=> name \in DOMAIN a)
      BY <2>7 DEF Ids, Required
    <3>3. QED
      BY <2>1, <2>2, <2>3, <2>4, <3>1, <3>2
  <2>8. CASE name = "tracestate"
    <3>1. Optional("traceparent") # None <=> "traceparent" \in DOMAIN a
      BY <1>2 DEF Optional
    <3>2. name \notin Required /\ name \notin Ids \cup {"id", "time"}
          /\ (name \in DOMAIN a \ lone <=> name \in DOMAIN a /\ "traceparent" \in DOMAIN a)
      BY <2>8 DEF Ids, Required
    <3>3. Texts(e)[name] = IF "traceparent" \in DOMAIN a THEN Optional(name) ELSE None
      BY <1>10, <2>8, <3>1
    <3>4. QED
      BY <2>1, <2>2, <2>3, <2>4, <3>2, <3>3
  <2>9. QED
    BY <2>5, <2>6, <2>7, <2>8 DEF Fields
<1>13. ASSUME NEW name, name \notin Fields
       PROVE  /\ name \in Told(e) <=> name \in DOMAIN a \ lone
              /\ name \in Told(e) => e.extensions[name] = a[name] /\ ~HasLineBreak(a[name])
                                     /\ SaysTheSame(name, a[name], a[name])
  <2>1. e.extensions = Without(a, Fields)
    BY <1>1
  <2>2. name \in Told(e) <=> name \in DOMAIN a
    BY <1>7, <1>13, <2>1 DEF Told
  <2>3. name \notin lone
    BY <1>13 DEF Fields
  <2>4. name \in DOMAIN a => e.extensions[name] = a[name]
    BY <1>7, <1>13, <2>1
  <2>5. SaysTheSame(name, a[name], a[name])
    BY DEF SaysTheSame
  <2>6. QED
    BY <2>2, <2>3, <2>4, <2>5
<1> HIDE DEF lone
<1>14. DOMAIN ours = Told(e) /\ \A name \in Told(e) : ours[name] = TextOf(e, name)
  BY <1>8, AttributesTell DEF Tells, TextOf
<1> HIDE DEF ours
<1>15. \A name : name \in Told(e) <=> name \in DOMAIN a \ lone
  BY <1>12, <1>13
<1>16. \A name \in Told(e) : SaysTheSame(name, TextOf(e, name), a[name]) /\ ~HasLineBreak(TextOf(e, name))
  <2>1. TAKE name \in Told(e)
  <2>2. CASE name \in Fields
    BY <1>12, <2>2 DEF TextOf
  <2>3. CASE name \notin Fields
    BY <1>13, <2>3 DEF TextOf
  <2>4. QED
    BY <2>2, <2>3
<1>17. OneLined(e)
  BY <1>16 DEF OneLined
<1>18. DOMAIN ours = DOMAIN a \ lone /\ \A name \in DOMAIN ours : SaysTheSame(name, ours[name], a[name])
  BY <1>14, <1>15, <1>16
<1>19. e.data = data
  BY <1>1
<1>20. QED
  BY <1>8, <1>17, <1>18, <1>19 DEF ours, lone

-------------------------------------------------------------------------------
(* Waits *)

\* Induction over the natural numbers, for a set of them.
LEMMA FromZeroUp ==
  ASSUME NEW S, S \subseteq Nat, 0 \in S, \A n \in S : n + 1 \in S
  PROVE  S = Nat
<1> DEFINE T == Nat \ S
<1>1. SUFFICES ASSUME T # {} PROVE FALSE
  OBVIOUS
<1>2. T \subseteq Nat
  OBVIOUS
<1>3. PICK least \in T : \A n \in T : <<n, least>> \notin OpToRel(<, Nat)
  BY <1>1, <1>2, WFMin, NatLessThanWellFounded
<1>4. least \in Nat /\ least # 0 /\ least \notin S
  OBVIOUS
<1>5. least - 1 \in Nat /\ least - 1 < least /\ (least - 1) + 1 = least
  BY <1>4
<1>6. <<least - 1, least>> \in OpToRel(<, Nat)
  BY <1>4, <1>5, Zenon DEF OpToRel
<1>7. least - 1 \in S
  BY <1>3, <1>5, <1>6
<1>8. QED
  BY <1>4, <1>5, <1>7

\* What a recursive function up to n is: its first value, and each from the one before.
Steps == [Nat \X Nat -> Nat]
Runs(f, n, first, step) == f = [k \in 0..n |-> IF k = 0 THEN first ELSE step[<<k, f[k - 1]>>]]

LEMMA RunHas ==
  ASSUME NEW n \in Nat, NEW first \in Nat, NEW step \in Steps, NEW f, Runs(f, n, first, step)
  PROVE  f[0] = first /\ \A k \in 1..n : f[k] = step[<<k, f[k - 1]>>]
<1>1. 0 \in 0..n /\ \A k \in 1..n : k \in 0..n /\ k # 0
  OBVIOUS
<1>2. QED
  BY <1>1 DEF Runs

LEMMA RunsAgree ==
  ASSUME NEW m \in Nat, NEW n \in Nat, m <= n, NEW first \in Nat, NEW step \in Steps,
         NEW f, Runs(f, m, first, step), NEW g, Runs(g, n, first, step)
  PROVE  \A k \in 0..m : f[k] = g[k] /\ f[k] \in Nat
<1> DEFINE S == {k \in Nat : k <= m => f[k] = g[k] /\ f[k] \in Nat}
<1>1. /\ f[0] = first /\ \A k \in 1..m : f[k] = step[<<k, f[k - 1]>>]
      /\ g[0] = first /\ \A k \in 1..n : g[k] = step[<<k, g[k - 1]>>]
  BY RunHas
<1>2. 0 \in S
  BY <1>1
<1>3. ASSUME NEW k \in S PROVE k + 1 \in S
  <2>1. SUFFICES ASSUME k + 1 <= m PROVE f[k + 1] = g[k + 1] /\ f[k + 1] \in Nat
    OBVIOUS
  <2>2. k + 1 \in 1..m /\ k + 1 \in 1..n /\ (k + 1) - 1 = k /\ f[k] = g[k] /\ f[k] \in Nat
    BY <2>1
  <2>3. f[k + 1] = step[<<k + 1, f[k]>>] /\ g[k + 1] = step[<<k + 1, f[k]>>]
    BY <1>1, <2>2
  <2>4. step[<<k + 1, f[k]>>] \in Nat
    BY <2>2 DEF Steps
  <2>5. QED
    BY <2>3, <2>4
<1>4. S = Nat
  <2> HIDE DEF S
  <2>1. S \subseteq Nat
    BY DEF S
  <2>2. QED
    BY <1>2, <1>3, <2>1, FromZeroUp
<1>5. QED
  BY <1>4

LEMMA RunExists ==
  ASSUME NEW n \in Nat, NEW first \in Nat, NEW step \in Steps
  PROVE  \E f : Runs(f, n, first, step)
<1> DEFINE S == {k \in Nat : \E f : Runs(f, k, first, step)}
<1>1. 0 \in S
  <2> DEFINE f == [k \in 0..0 |-> first]
  <2>1. Runs(f, 0, first, step)
    <3>1. \A k \in 0..0 : k = 0
      OBVIOUS
    <3>2. QED
      BY <3>1 DEF Runs
  <2>2. QED
    BY <2>1
<1>2. ASSUME NEW k \in S PROVE k + 1 \in S
  <2>1. PICK f : Runs(f, k, first, step)
    OBVIOUS
  <2> DEFINE last == step[<<k + 1, f[k]>>]
             g == [j \in 0..(k + 1) |-> IF j = k + 1 THEN last ELSE f[j]]
  <2>2. f[0] = first /\ \A j \in 1..k : f[j] = step[<<j, f[j - 1]>>]
    BY <2>1, RunHas
  <2>3. /\ g[k + 1] = last /\ \A j \in 0..k : g[j] = f[j]
        /\ DOMAIN g = 0..(k + 1) /\ g = [j \in 0..(k + 1) |-> g[j]]
    OBVIOUS
  <2>4. \A j \in 0..(k + 1) : g[j] = IF j = 0 THEN first ELSE step[<<j, g[j - 1]>>]
    <3> HIDE DEF g
    <3>1. TAKE j \in 0..(k + 1)
    <3>2. CASE j = 0
      <4>1. 0 \in 0..k
        OBVIOUS
      <4>2. QED
        BY <2>2, <2>3, <3>2, <4>1
    <3>3. CASE j \in 1..k
      <4>1. j - 1 \in 0..k /\ j \in 0..k
        BY <3>3
      <4>2. QED
        BY <2>2, <2>3, <3>3, <4>1
    <3>4. CASE j = k + 1
      <4>1. k \in 0..k /\ (k + 1) - 1 = k /\ k + 1 # 0
        OBVIOUS
      <4>2. g[k] = f[k]
        BY <2>3, <4>1
      <4>3. QED
        BY <2>3, <3>4, <4>1, <4>2
    <3>5. QED
      BY <3>2, <3>3, <3>4
  <2>5. Runs(g, k + 1, first, step)
    <3> HIDE DEF g
    <3>1. QED
      BY <2>3, <2>4 DEF Runs
  <2>6. QED
    BY <2>5
<1>3. S = Nat
  <2> HIDE DEF S
  <2>1. S \subseteq Nat
    BY DEF S
  <2>2. QED
    BY <1>1, <1>2, <2>1, FromZeroUp
<1>4. QED
  BY <1>3

\* The steps of doubling, and of the waits.
DoublingStep == [p \in Nat \X Nat |-> 2 * p[2]]
WaitStep(policy) ==
  [p \in Nat \X Nat |-> IF p[1] <= 1 THEN policy.first
                        ELSE IF p[2] = 0 \/ p[2] >= policy.max THEN p[2]
                        ELSE Lesser(2 * p[2], LongestDelay)]

LEMMA DoubledRuns ==
  ASSUME NEW delay \in Nat, NEW n \in Nat
  PROVE  \E f : Runs(f, n, delay, DoublingStep) /\ Doubled(delay, n) = f[n]
<1> DEFINE Body(f) == f = [k \in 0..n |-> IF k = 0 THEN delay ELSE 2 * f[k - 1]]
           f == CHOOSE g : Body(g)
<1>1. Doubled(delay, n) = f[n]
  BY DEF Doubled
<1>2. DoublingStep \in Steps
  BY DEF DoublingStep, Steps
<1>3. PICK g : Runs(g, n, delay, DoublingStep)
  BY <1>2, RunExists
<1>4. \A k \in 0..n : g[k] \in Nat
  BY <1>2, <1>3, RunsAgree
<1>5. Body(g)
  <2>1. \A k \in 0..n : k # 0 => g[k - 1] \in Nat /\ k \in Nat
    BY <1>4
  <2>2. \A k \in 0..n : k # 0 => DoublingStep[<<k, g[k - 1]>>] = 2 * g[k - 1]
    BY <2>1 DEF DoublingStep
  <2>3. QED
    BY <1>3, <2>2 DEF Runs
<1>6. Body(f)
  <2> HIDE DEF Body
  <2>1. QED
    BY <1>5
<1> HIDE DEF f
<1> DEFINE S == {k \in Nat : k <= n => f[k] \in Nat}
<1>7. S = Nat
  <2>1. 0 \in S
    <3>1. 0 \in 0..n
      OBVIOUS
    <3>2. QED
      BY <1>6, <3>1
  <2>2. ASSUME NEW k \in S PROVE k + 1 \in S
    <3>1. SUFFICES ASSUME k + 1 <= n PROVE f[k + 1] \in Nat
      OBVIOUS
    <3>2. k + 1 \in 0..n /\ k + 1 # 0 /\ (k + 1) - 1 = k /\ f[k] \in Nat
      BY <3>1
    <3>3. f[k + 1] = 2 * f[k]
      BY <1>6, <3>2
    <3>4. QED
      BY <3>2, <3>3
  <2> HIDE DEF S
  <2>3. S \subseteq Nat
    BY DEF S
  <2>4. QED
    BY <2>1, <2>2, <2>3, FromZeroUp
<1>8. Runs(f, n, delay, DoublingStep)
  <2>1. \A k \in 0..n : k # 0 => f[k - 1] \in Nat /\ k \in Nat
    BY <1>7
  <2>2. \A k \in 0..n : k # 0 => DoublingStep[<<k, f[k - 1]>>] = 2 * f[k - 1]
    BY <2>1 DEF DoublingStep
  <2>3. QED
    BY <1>6, <2>2 DEF Runs
<1>9. QED
  BY <1>1, <1>8

LEMMA WaitStepIs ==
  ASSUME NEW policy \in Policies
  PROVE  /\ policy.first \in Nat /\ policy.first <= LongestDelay
         /\ policy.max \in Nat /\ policy.max <= LongestDelay
         /\ LongestDelay \in Nat /\ WaitStep(policy) \in Steps
<1>1. /\ policy.first \in 0..LongestDelay /\ policy.max \in 0..LongestDelay /\ LongestDelay \in Nat
  BY LongestDelayAssumption DEF Policies
<1>2. QED
  BY <1>1 DEF WaitStep, Steps, Lesser

LEMMA DelayRuns ==
  ASSUME NEW policy \in Policies, NEW n \in Nat
  PROVE  \E f : /\ Runs(f, n, policy.first, WaitStep(policy))
                /\ Delay(policy, n) = Lesser(f[n], policy.max)
<1> DEFINE After(k, wait) == IF k <= 1 THEN policy.first
                            ELSE IF wait = 0 \/ wait >= policy.max THEN wait
                            ELSE Lesser(2 * wait, LongestDelay)
           Body(f) == f = [k \in 0..n |-> IF k <= 1 THEN policy.first
                                          ELSE IF f[k - 1] = 0 \/ f[k - 1] >= policy.max THEN f[k - 1]
                                          ELSE Lesser(2 * f[k - 1], LongestDelay)]
           f == CHOOSE g : Body(g)
           step == WaitStep(policy)
<1>1. Delay(policy, n) = Lesser(f[n], policy.max)
  BY DEF Delay
<1>2. /\ policy.first \in Nat /\ policy.max \in Nat /\ LongestDelay \in Nat /\ step \in Steps
  BY WaitStepIs
<1>3. PICK g : Runs(g, n, policy.first, step)
  BY <1>2, RunExists
<1>4. \A k \in 0..n : g[k] \in Nat
  BY <1>2, <1>3, RunsAgree
<1>5. \A k \in Nat, wait \in Nat : step[<<k, wait>>] = After(k, wait) /\ After(k, wait) \in Nat
  BY <1>2 DEF WaitStep, Lesser
<1>6. \A h : (\A k \in 0..n : k # 0 => h[k - 1] \in Nat) => (Body(h) <=> Runs(h, n, policy.first, step))
  <2>1. SUFFICES ASSUME NEW h, \A k \in 0..n : k # 0 => h[k - 1] \in Nat
                 PROVE  Body(h) <=> Runs(h, n, policy.first, step)
    OBVIOUS
  <2>2. \A k \in 0..n : k # 0 => step[<<k, h[k - 1]>>] = After(k, h[k - 1])
    BY <1>5, <2>1
  <2> HIDE DEF step
  <2>3. [k \in 0..n |-> IF k <= 1 THEN policy.first
                        ELSE IF h[k - 1] = 0 \/ h[k - 1] >= policy.max THEN h[k - 1]
                        ELSE Lesser(2 * h[k - 1], LongestDelay)]
          = [k \in 0..n |-> IF k = 0 THEN policy.first ELSE step[<<k, h[k - 1]>>]]
    BY <2>2
  <2>4. QED
    BY <2>3, Zenon DEF Runs
<1> HIDE DEF step
<1>7. Body(g)
  <2> HIDE DEF Body
  <2>1. \A k \in 0..n : k # 0 => g[k - 1] \in Nat
    BY <1>4
  <2>2. QED
    BY <1>3, <1>6, <2>1
<1>8. Body(f)
  <2> HIDE DEF Body
  <2>1. QED
    BY <1>7
<1> HIDE DEF f
<1> DEFINE S == {k \in Nat : k <= n => f[k] \in Nat}
<1>9. S = Nat
  <2>1. 0 \in S
    <3>1. 0 \in 0..n
      OBVIOUS
    <3>2. QED
      BY <1>2, <1>8, <3>1
  <2>2. ASSUME NEW k \in S PROVE k + 1 \in S
    <3>1. SUFFICES ASSUME k + 1 <= n PROVE f[k + 1] \in Nat
      OBVIOUS
    <3>2. k + 1 \in 0..n /\ (k + 1) - 1 = k /\ f[k] \in Nat /\ k + 1 \in Nat
      BY <3>1
    <3>3. f[k + 1] = After(k + 1, f[k])
      BY <1>8, <3>2
    <3>4. QED
      BY <1>5, <3>2, <3>3
  <2> HIDE DEF S
  <2>3. S \subseteq Nat
    BY DEF S
  <2>4. QED
    BY <2>1, <2>2, <2>3, FromZeroUp
<1>10. Runs(f, n, policy.first, step)
  <2> HIDE DEF Body
  <2>1. \A k \in 0..n : k # 0 => f[k - 1] \in Nat
    BY <1>9
  <2>2. QED
    BY <1>6, <1>8, <2>1
<1>11. QED
  BY <1>1, <1>10 DEF step

\* Doubling once more.
LEMMA DoubledOnce ==
  ASSUME NEW delay \in Nat, NEW n \in Nat
  PROVE  /\ Doubled(delay, 0) = delay /\ Doubled(delay, n) \in Nat
         /\ Doubled(delay, n + 1) = 2 * Doubled(delay, n)
<1>1. DoublingStep \in Steps /\ 0 \in Nat /\ n + 1 \in Nat
  BY DEF DoublingStep, Steps
<1>2. PICK f : Runs(f, n, delay, DoublingStep) /\ Doubled(delay, n) = f[n]
  BY DoubledRuns
<1>3. PICK g : Runs(g, n + 1, delay, DoublingStep) /\ Doubled(delay, n + 1) = g[n + 1]
  BY <1>1, DoubledRuns
<1>4. PICK h : Runs(h, 0, delay, DoublingStep) /\ Doubled(delay, 0) = h[0]
  BY <1>1, DoubledRuns
<1>5. h[0] = delay
  BY <1>1, <1>4, RunHas
<1>6. f[n] = g[n] /\ f[n] \in Nat
  <2>1. n \in 0..n /\ n <= n + 1
    OBVIOUS
  <2>2. \A k \in 0..n : f[k] = g[k] /\ f[k] \in Nat
    BY <1>1, <1>2, <1>3, <2>1, RunsAgree
  <2>3. QED
    BY <2>1, <2>2
<1>7. g[n + 1] = DoublingStep[<<n + 1, g[n]>>]
  <2>1. n + 1 \in 1..(n + 1) /\ (n + 1) - 1 = n
    OBVIOUS
  <2>2. \A k \in 1..(n + 1) : g[k] = DoublingStep[<<k, g[k - 1]>>]
    BY <1>1, <1>3, RunHas
  <2>3. g[n + 1] = DoublingStep[<<n + 1, g[(n + 1) - 1]>>]
    BY <2>1, <2>2
  <2>4. QED
    BY <2>1, <2>3
<1>8. DoublingStep[<<n + 1, g[n]>>] = 2 * g[n]
  BY <1>1, <1>6 DEF DoublingStep
<1>9. QED
  BY <1>2, <1>3, <1>4, <1>5, <1>6, <1>7, <1>8

LEMMA DoubledGrows ==
  ASSUME NEW delay \in Nat, NEW m \in Nat, NEW n \in Nat
  PROVE  Doubled(delay, m) <= Doubled(delay, m + n)
<1> DEFINE S == {k \in Nat : Doubled(delay, m) <= Doubled(delay, m + k)}
<1>1. 0 \in S
  BY DoubledOnce
<1>2. ASSUME NEW k \in S PROVE k + 1 \in S
  <2>1. m + k \in Nat /\ (m + k) + 1 = m + (k + 1)
    OBVIOUS
  <2>2. /\ Doubled(delay, m + k) \in Nat /\ Doubled(delay, m) \in Nat
        /\ Doubled(delay, (m + k) + 1) = 2 * Doubled(delay, m + k)
    BY <2>1, DoubledOnce
  <2>3. QED
    BY <2>1, <2>2
<1>3. S = Nat
  <2> HIDE DEF S
  <2>1. S \subseteq Nat
    BY DEF S
  <2>2. QED
    BY <1>1, <1>2, <2>1, FromZeroUp
<1>4. QED
  BY <1>3

\* The wait after an attempt is the first one doubled, at most the maximum.
THEOREM DelayIs ==
  ASSUME NEW policy \in Policies, NEW n \in Nat
  PROVE  Delay(policy, n + 1) = Lesser(Doubled(policy.first, n), policy.max)
<1> DEFINE first == policy.first
           max == policy.max
           double(k) == Doubled(first, k)
<1>1. /\ first \in Nat /\ first <= LongestDelay /\ max \in Nat /\ max <= LongestDelay
      /\ LongestDelay \in Nat /\ WaitStep(policy) \in Steps
  BY WaitStepIs
<1>2. PICK f : /\ Runs(f, n + 1, first, WaitStep(policy))
               /\ Delay(policy, n + 1) = Lesser(f[n + 1], max)
  BY DelayRuns
<1>3. \A k \in 1..(n + 1) : f[k] = WaitStep(policy)[<<k, f[k - 1]>>]
  <2>1. n + 1 \in Nat
    OBVIOUS
  <2>2. QED
    BY <1>1, <1>2, <2>1, RunHas
<1>4. \A k \in Nat, wait \in Nat :
        WaitStep(policy)[<<k, wait>>] = IF k <= 1 THEN first
                                        ELSE IF wait = 0 \/ wait >= max THEN wait
                                        ELSE Lesser(2 * wait, LongestDelay)
  BY DEF WaitStep
<1>5. \A k \in 0..(n + 1) : f[k] \in Nat
  BY <1>1, <1>2, RunsAgree
<1>6. /\ double(0) = first
      /\ \A k \in Nat : double(k) \in Nat /\ double(k + 1) = 2 * double(k)
  BY <1>1, DoubledOnce
<1> DEFINE Same(k) == f[k + 1] = double(k) \/ (f[k + 1] >= max /\ double(k) >= max)
           S == {k \in Nat : k <= n => Same(k)}
<1>7. 0 \in S
  <2>1. 1 \in 1..(n + 1) /\ 1 - 1 = 0 /\ f[0] \in Nat
    BY <1>5
  <2>2. f[1] = WaitStep(policy)[<<1, f[0]>>]
    BY <1>3, <2>1
  <2>3. f[1] = first
    BY <1>4, <2>1, <2>2
  <2>4. QED
    BY <1>6, <2>3
<1>8. ASSUME NEW k \in S PROVE k + 1 \in S
  <2>1. SUFFICES ASSUME k + 1 <= n PROVE Same(k + 1)
    OBVIOUS
  <2> DEFINE wait == f[k + 1]
             next == f[k + 2]
             twice == double(k)
             twiceMore == double(k + 1)
  <2>2. k + 2 \in 1..(n + 1) /\ (k + 2) - 1 = k + 1 /\ k + 2 > 1 /\ k + 2 \in Nat /\ wait \in Nat
    BY <1>5, <2>1
  <2>3. next = WaitStep(policy)[<<k + 2, wait>>]
    BY <1>3, <2>2
  <2>4. next = IF wait = 0 \/ wait >= max THEN wait ELSE Lesser(2 * wait, LongestDelay)
    BY <1>4, <2>2, <2>3
  <2>5. twice \in Nat /\ twiceMore = 2 * twice /\ (wait = twice \/ (wait >= max /\ twice >= max))
    BY <1>6, <2>1
  <2>6. next = twiceMore \/ (next >= max /\ twiceMore >= max)
    <3> HIDE DEF wait, next, twice, twiceMore, max
    <3>1. QED
      BY <1>1, <2>2, <2>4, <2>5 DEF Lesser
  <2>7. (k + 1) + 1 = k + 2
    BY <2>1
  <2>8. QED
    BY <2>6, <2>7
<1>9. S = Nat
  <2> HIDE DEF S
  <2>1. S \subseteq Nat
    BY DEF S
  <2>2. QED
    BY <1>7, <1>8, <2>1, FromZeroUp
<1>10. Same(n)
  BY <1>9
<1>11. f[n + 1] \in Nat /\ double(n) \in Nat
  BY <1>5, <1>6
<1> HIDE DEF double, max
<1>12. Lesser(f[n + 1], max) = Lesser(double(n), max)
  BY <1>1, <1>10, <1>11 DEF Lesser
<1>13. QED
  BY <1>2, <1>12 DEF double, max

LEMMA DelaysGrow ==
  ASSUME NEW policy \in Policies, NEW m \in Nat, NEW n \in Nat, 1 <= m, m <= n
  PROVE  /\ Delay(policy, m) \in Nat /\ Delay(policy, m) <= Delay(policy, n)
         /\ Delay(policy, m) = Lesser(Doubled(policy.first, m - 1), policy.max)
<1> DEFINE first == policy.first
           max == policy.max
           short == Doubled(first, m - 1)
           long == Doubled(first, n - 1)
<1>1. first \in Nat /\ max \in Nat
  BY WaitStepIs
<1>2. m - 1 \in Nat /\ n - 1 \in Nat /\ n - m \in Nat /\ (m - 1) + 1 = m /\ (n - 1) + 1 = n
      /\ (m - 1) + (n - m) = n - 1
  OBVIOUS
<1>3. Delay(policy, m) = Lesser(short, max) /\ Delay(policy, n) = Lesser(long, max)
  <2>1. /\ Delay(policy, (m - 1) + 1) = Lesser(short, max)
        /\ Delay(policy, (n - 1) + 1) = Lesser(long, max)
    BY <1>2, DelayIs
  <2>2. QED
    BY <1>2, <2>1
<1>4. short \in Nat /\ long \in Nat
  BY <1>1, <1>2, DoubledOnce
<1>5. short <= long
  <2>1. Doubled(first, m - 1) <= Doubled(first, (m - 1) + (n - m))
    BY <1>1, <1>2, DoubledGrows
  <2>2. QED
    BY <1>2, <2>1
<1> HIDE DEF short, long
<1>6. Lesser(short, max) \in Nat /\ Lesser(short, max) <= Lesser(long, max)
  BY <1>1, <1>4, <1>5 DEF Lesser
<1>7. QED
  BY <1>3, <1>6 DEF short

-------------------------------------------------------------------------------
(* What the steps carry *)

\* A sequence, whatever its elements are.
Listed(s) == \E S : s \in Seq(S)

LEMMA Appended ==
  ASSUME NEW s, Listed(s), NEW x, NEW longer, longer = Append(s, x)
  PROVE  /\ Len(s) \in Nat /\ DOMAIN s = 1..Len(s)
         /\ Listed(longer) /\ Len(longer) = Len(s) + 1 /\ DOMAIN longer = 1..(Len(s) + 1)
         /\ \A i \in 1..Len(s) : longer[i] = s[i]
         /\ longer[Len(s) + 1] = x /\ Last(longer) = x /\ longer # <<>>
<1>1. PICK S : s \in Seq(S)
  BY DEF Listed
<1> DEFINE T == S \cup {x}
<1>2. s \in Seq(T) /\ x \in T
  BY <1>1, SeqMonotonic
<1> HIDE DEF T
<1>3. /\ longer \in Seq(T) /\ Len(longer) = Len(s) + 1 /\ Len(s) \in Nat /\ DOMAIN s = 1..Len(s)
      /\ \A i \in 1..Len(s) : longer[i] = s[i]
      /\ longer[Len(s) + 1] = x
  BY <1>2, AppendProperties, LenProperties
<1>4. DOMAIN longer = 1..(Len(s) + 1) /\ longer # <<>>
  BY <1>3, LenProperties, EmptySeq
<1>5. QED
  BY <1>3, <1>4 DEF Listed, Last

\* The draft gets its time.
LEMMA Timed ==
  ASSUME NEW draft \in Drafts, NEW d \in FirstDay..LastDay, NEW clock \in Clocks,
         NEW e
  PROVE  e = [draft EXCEPT !.time = [day |-> d, second |-> clock[1], nanos |-> clock[2]]]
           => IsEnvelope(e)
<1>0. SUFFICES ASSUME e = [draft EXCEPT !.time = [day |-> d, second |-> clock[1], nanos |-> clock[2]]]
               PROVE  IsEnvelope(e)
  OBVIOUS
<1> DEFINE time == [day |-> d, second |-> clock[1], nanos |-> clock[2]]
<1>1. IsTime(time) /\ time = [field \in {"day", "second", "nanos"} |-> time[field]]
  <2>1. clock[1] \in 0..(SecondsPerDay - 1) /\ clock[2] \in 0..(NanosPerSecond - 1)
    BY JourneyAssumption
  <2>2. QED
    BY <2>1 DEF IsTime
<1> HIDE DEF time
<1>2. IsEnvelope(draft)
  BY JourneyAssumption
<1>3. DOMAIN draft = EnvelopeFields
  BY <1>2 DEF IsEnvelope
<1>4. e = [draft EXCEPT !.time = time]
  BY <1>0 DEF time
<1>5. DOMAIN e = EnvelopeFields /\ e = [field \in EnvelopeFields |-> e[field]]
  BY <1>3, <1>4
<1>6. \A field \in EnvelopeFields \ {"time"} : e[field] = draft[field]
  BY <1>3, <1>4
<1>7. e.time = time
  BY <1>3, <1>4 DEF EnvelopeFields
<1>8. /\ e.id = draft.id /\ e.type = draft.type /\ e.source = draft.source
      /\ e.contentType = draft.contentType /\ e.correlationId = draft.correlationId
      /\ e.causationId = draft.causationId /\ e.trace = draft.trace /\ e.extensions = draft.extensions
  BY <1>6 DEF EnvelopeFields
<1>9. QED
  BY <1>1, <1>2, <1>5, <1>7, <1>8, Zenon DEF IsEnvelope

\* What a handler publishes.
LEMMA TiedChild ==
  ASSUME NEW handled, IsEnvelope(handled), NEW id \in Nat, NEW d \in FirstDay..LastDay,
         NEW clock \in Clocks,
         NEW child, child = Encode(id, handled.type, HandlerSource,
                                   [day |-> d, second |-> clock[1], nanos |-> clock[2]], "good"),
         NEW e, e = Tied(child, handled)
  PROVE  /\ IsEnvelope(e)
         /\ e.causationId = handled.id /\ e.correlationId = handled.correlationId
         /\ e.trace = handled.trace
<1> DEFINE time == [day |-> d, second |-> clock[1], nanos |-> clock[2]]
<1>1. IsTime(time) /\ time = [field \in {"day", "second", "nanos"} |-> time[field]]
  <2>1. clock[1] \in 0..(SecondsPerDay - 1) /\ clock[2] \in 0..(NanosPerSecond - 1)
    BY JourneyAssumption
  <2>2. QED
    BY <2>1 DEF IsTime
<1>2. child = Encode(id, handled.type, HandlerSource, time, "good")
  OBVIOUS
<1> HIDE DEF time
<1>3. /\ DOMAIN child = EnvelopeFields
      /\ child.id = id /\ child.type = handled.type /\ child.source = HandlerSource
      /\ child.time = time /\ child.contentType = JsonType /\ child.extensions = <<>>
  BY <1>2 DEF Encode, EnvelopeFields
<1>4. e = [child EXCEPT !.correlationId = handled.correlationId, !.causationId = handled.id,
                        !.trace = handled.trace]
  BY DEF Tied
<1>5. DOMAIN e = EnvelopeFields /\ e = [field \in EnvelopeFields |-> e[field]]
  BY <1>3, <1>4
<1>6. \A field \in EnvelopeFields \ {"correlationId", "causationId", "trace"} : e[field] = child[field]
  BY <1>3, <1>4
<1>7. e.causationId = handled.id /\ e.correlationId = handled.correlationId /\ e.trace = handled.trace
  BY <1>3, <1>4 DEF EnvelopeFields
<1>8. /\ e.id = id /\ e.type = handled.type /\ e.source = HandlerSource
      /\ e.time = time /\ e.contentType = JsonType /\ e.extensions = <<>>
  BY <1>3, <1>6 DEF EnvelopeFields
<1>9. /\ IsSource(HandlerSource) /\ None # HandlerSource
      /\ IsContentType(JsonType) /\ None # JsonType
  BY JourneyAssumption, NoneAssumption DEF IsSource, HandlerSource, HasControlOrSpace, IsContentType,
                                          JsonType, HasLineBreak
<1>10. /\ e.extensions = [name \in DOMAIN e.extensions |-> e.extensions[name]]
       /\ \A name \in DOMAIN e.extensions : IsExtension(name)
  <2> DEFINE none == <<>>
  <2>1. none = [name \in DOMAIN none |-> none[name]] /\ DOMAIN none = {}
    OBVIOUS
  <2> HIDE DEF none
  <2>2. e.extensions = none
    BY <1>8 DEF none
  <2>3. QED
    BY <2>1, <2>2
<1>11. /\ IsMessageType(e.type) /\ IsSource(e.source) /\ IsContentType(e.contentType)
       /\ None \notin {e.type, e.source, e.contentType} /\ e.id \in Nat
       /\ e.correlationId \in Nat \cup {None} /\ e.causationId \in Nat \cup {None}
  BY <1>7, <1>8, <1>9 DEF IsEnvelope
<1>12. e.trace # None => /\ e.trace.parent # None
                         /\ e.trace = [field \in {"parent", "state"} |-> e.trace[field]]
  BY <1>7, Zenon DEF IsEnvelope
<1>13. IsTime(e.time) /\ e.time = [field \in {"day", "second", "nanos"} |-> e.time[field]]
  BY <1>1, <1>8
<1>14. QED
  BY <1>5, <1>7, <1>10, <1>11, <1>12, <1>13, Zenon DEF IsEnvelope

\* The headers of another client's message.
LEMMA TheirHeaders ==
  ASSUME NEW message \in Foreign
  PROVE  /\ message = [headers |-> message.headers, data |-> message.data] /\ message # None
         /\ \A text \in Range(message.headers) : ~HasLineBreak(text)
         /\ LET a == ReadHeaders(message.headers)
            IN  /\ \A name \in DOMAIN a : IsText(a[name]) /\ ~HasLineBreak(a[name])
                /\ None \notin [parent : Range(a), state : Range(a) \cup {None}]
<1> DEFINE headers == message.headers
           ours == {header \in DOMAIN headers : header[1] \in {"ce-", "Ce-"}}
           a == ReadHeaders(headers)
<1>1. /\ message = [headers |-> headers, data |-> message.data] /\ message # None
      /\ \A text \in Range(headers) : IsText(text) /\ ~HasLineBreak(text)
      /\ None \notin [parent : Range(headers), state : Range(headers) \cup {None}]
  BY JourneyAssumption
<1>2. a = [name \in {header[2] : header \in ours} |->
             headers[CHOOSE header \in ours : header[2] = name]]
  BY DEF ReadHeaders
<1>3. ours \subseteq DOMAIN headers
  OBVIOUS
<1> HIDE DEF ours, a
<1>4. \A name \in DOMAIN a : a[name] \in Range(headers)
  <2>1. TAKE name \in DOMAIN a
  <2>2. \E header \in ours : header[2] = name
    BY <1>2
  <2>3. (CHOOSE header \in ours : header[2] = name) \in ours
    BY <2>2
  <2>4. QED
    BY <1>2, <1>3, <2>3 DEF Range
<1>5. Range(a) \subseteq Range(headers)
  BY <1>4 DEF Range
<1>6. QED
  BY <1>1, <1>4, <1>5 DEF a

\* A message set aside keeps its headers but for the added ones.
LEMMA AsideKeeps ==
  ASSUME NEW headers, \A text \in Range(headers) : ~HasLineBreak(text),
         NEW to, ~HasLineBreak(to), NEW error,
         NEW after, after = AsideHeaders(headers, to, error),
         NEW added, added = {Ce("errorendpoint"), Ce("errortype"), Ce("errormessage")}
  PROVE  /\ Without(after, added) = Without(headers, added \cup {MsgId})
         /\ added \subseteq DOMAIN after
         /\ \A text \in Range(after) : ~HasLineBreak(text)
<1> DEFINE labels == [errorendpoint |-> to, errortype |-> <<"word", "invalid_envelope">>,
                      errormessage |-> OneLine(error)]
           prefixed == Prefixed(labels)
           rest == Without(headers, {MsgId})
<1>1. after = Over(prefixed, rest)
  BY DEF AsideHeaders
<1>2. DOMAIN labels = {"errorendpoint", "errortype", "errormessage"}
      /\ \A name \in DOMAIN labels : ~HasLineBreak(labels[name])
  <2>1. ~HasLineBreak(<<"word", "invalid_envelope">>)
    BY DEF HasLineBreak
  <2>2. QED
    BY <2>1, OneLineIs
<1> HIDE DEF labels
<1>3. /\ DOMAIN prefixed = {Ce(name) : name \in DOMAIN labels}
      /\ \A name \in DOMAIN labels : prefixed[Ce(name)] = labels[name]
  BY DEF Prefixed, Ce
<1>4. DOMAIN prefixed = added /\ \A header \in added : ~HasLineBreak(prefixed[header])
  BY <1>2, <1>3
<1>5. /\ DOMAIN rest = DOMAIN headers \ {MsgId}
      /\ \A header \in DOMAIN headers \ {MsgId} : rest[header] = headers[header]
  BY DEF Without, Restrict
<1> HIDE DEF prefixed, rest
<1>6. /\ DOMAIN after = added \cup (DOMAIN headers \ {MsgId})
      /\ \A header \in added : after[header] = prefixed[header]
      /\ \A header \in DOMAIN headers \ (added \cup {MsgId}) : after[header] = headers[header]
  BY <1>1, <1>4, <1>5 DEF Over
<1>7. Without(after, added) = Without(headers, added \cup {MsgId})
  <2>1. DOMAIN after \ added = DOMAIN headers \ (added \cup {MsgId})
    BY <1>6
  <2>2. QED
    BY <1>6, <2>1 DEF Without, Restrict
<1>8. \A header \in DOMAIN headers : ~HasLineBreak(headers[header])
  BY DEF Range
<1>9. \A header \in DOMAIN after : ~HasLineBreak(after[header])
  BY <1>4, <1>6, <1>8
<1>10. QED
  BY <1>6, <1>7, <1>9 DEF Range

-------------------------------------------------------------------------------
(* The invariant *)

\* An envelope of the crates or another client's message, as it is on the stream.
OurEnvelope == IsEnvelope(sent) /\ OneLined(sent) /\ came = None /\ wire = Sent(sent)
TheirMessage == sent = None /\ came \in Foreign /\ wire = came

Theirs == ReadHeaders(came.headers)

\* Where the message is, it is the one that was sent.
WayInv ==
  /\ stage = "none" => /\ sent = None /\ came = None /\ row = None /\ wire = None /\ envelope = None
                       /\ receipt = None /\ conversation = <<>>
  /\ stage = "row" => IsEnvelope(sent) /\ came = None /\ row = OutboxRow(sent)
                      /\ wire = None /\ envelope = None
  /\ stage = "wire" => (OurEnvelope \/ TheirMessage) /\ envelope = None
  /\ stage = "received" =>
       /\ IsEnvelope(envelope) /\ OneLined(envelope)
       /\ \/ OurEnvelope /\ envelope = sent
          \/ TheirMessage /\ Reads(Theirs) /\ envelope = FromAttributes(Theirs, came.data)
  /\ stage = "aside" => came \in Foreign

\* What each variable may be.
RangeInv ==
  /\ day \in FirstDay..LastDay /\ stage \in Stages
  /\ sent # None => IsEnvelope(sent)
  /\ envelope # None => IsEnvelope(envelope)
  /\ came \in Foreign \cup {None}
  /\ endpoint \in Endpoints \cup {None} /\ attempt \in 0..MaxDeliveries
  /\ stage = "received" => endpoint \in Endpoints

\* The waits so far, those of the deliveries before this one.
WaitsInv ==
  /\ Listed(waits)
  /\ waits # <<>> => endpoint \in Endpoints
  /\ \A i \in DOMAIN waits : /\ waits[i][1] \in 1..attempt
                             /\ waits[i][2] = Delay(Policy[endpoint], waits[i][1])
                             /\ i > 1 => waits[i - 1][1] < waits[i][1]
  /\ stage = "received" => attempt \in 1..MaxDeliveries /\ \A i \in DOMAIN waits : waits[i][1] < attempt

\* The messages handled; the next one continues them.
Continues == /\ came = None
             /\ sent.causationId = Last(conversation).id
             /\ sent.correlationId = conversation[1].correlationId
             /\ sent.trace = conversation[1].trace
TalkInv ==
  /\ Listed(conversation) /\ Len(conversation) <= MaxHops
  /\ \A i \in DOMAIN conversation : IsEnvelope(conversation[i])
  /\ OneConversation
  /\ stage # "handled" => Len(conversation) < MaxHops
  /\ stage # "handled" /\ conversation # <<>> => Continues
  /\ receipt # None => conversation # <<>> /\ receipt = Receipt(Last(conversation), TRUE)

IInv == RangeInv /\ WayInv /\ WaitsInv /\ TalkInv /\ ErrorSubjectKeepsAll

-------------------------------------------------------------------------------
(* The invariant holds at first *)

LEMMA InitInv == Init => IInv
<1> SUFFICES ASSUME Init PROVE IInv
  OBVIOUS
<1> DEFINE none == <<>>
<1>1. Listed(none) /\ DOMAIN none = {} /\ Len(none) = 0
  BY EmptySeq DEF Listed
<1> HIDE DEF none
<1>2. /\ day \in FirstDay..LastDay /\ stage = "none" /\ sent = None /\ came = None /\ row = None
      /\ wire = None /\ endpoint = None /\ attempt = 0 /\ envelope = None /\ receipt = None
      /\ waits = none /\ conversation = none
  BY JourneyAssumption DEF Init, none
<1>3. RangeInv
  BY <1>2, JourneyAssumption DEF RangeInv, Stages
<1>4. WayInv
  BY <1>2 DEF WayInv, none
<1>5. WaitsInv
  BY <1>1, <1>2 DEF WaitsInv, none
<1>6. TalkInv
  BY <1>1, <1>2, JourneyAssumption DEF TalkInv, OneConversation, none
<1>7. ErrorSubjectKeepsAll
  BY <1>2 DEF ErrorSubjectKeepsAll, NoBrokenHeader, ErrorCopyReads, AsideAsItCame
<1>8. QED
  BY <1>3, <1>4, <1>5, <1>6, <1>7 DEF IInv

-------------------------------------------------------------------------------
(* Steps that keep it *)

\* Where no wait is added and the message isn't with an endpoint.
LEMMA WaitsStay ==
  ASSUME WaitsInv, UNCHANGED <<waits, endpoint, attempt>>, stage' # "received"
  PROVE  WaitsInv'
BY DEF WaitsInv

\* Where nothing is handled.
LEMMA TalkStays ==
  ASSUME TalkInv, UNCHANGED <<conversation, receipt>>, stage' # "handled", stage # "handled",
         conversation = <<>> \/ UNCHANGED <<sent, came>>
  PROVE  TalkInv'
BY DEF TalkInv, OneConversation, Continues

\* Nor copied to the error subject.
LEMMA ErrorsStay ==
  ASSUME stage' \notin {"error", "aside"}, NoBrokenHeader'
  PROVE  ErrorSubjectKeepsAll'
BY DEF ErrorSubjectKeepsAll, ErrorCopyReads, AsideAsItCame

\* An envelope goes out.
LEMMA GoesOut ==
  ASSUME NEW e, IsEnvelope(e), NEW place \in Places, Goes(e, place)
  PROVE  /\ sent' = e /\ stage' \in {"row", "wire", "refused"}
         /\ stage' = "row" => row' = OutboxRow(e) /\ wire' = None
         /\ stage' = "wire" => OneLined(e) /\ wire' = Sent(e)
         /\ NoBrokenHeader'
<1>1. /\ WritesHeaders(e) <=> OneLined(e)
      /\ OneLined(e) => \A text \in Range(Headers(e)) : ~HasLineBreak(text)
  BY OneLinedIs
<1>2. Sent(e).headers = Headers(e)
  BY DEF Sent
<1>3. CASE place = "row"
  <2>1. sent' = e /\ stage' = "row" /\ row' = OutboxRow(e) /\ wire' = None
    BY <1>3 DEF Goes
  <2>2. QED
    BY <2>1 DEF NoBrokenHeader
<1>4. CASE place = "wire" /\ WritesHeaders(e)
  <2>1. sent' = e /\ stage' = "wire" /\ wire' = Sent(e)
    BY <1>4 DEF Goes
  <2>2. QED
    BY <1>1, <1>2, <1>4, <2>1 DEF NoBrokenHeader
<1>5. CASE place = "wire" /\ ~WritesHeaders(e)
  <2>1. sent' = e /\ stage' = "refused" /\ wire' = None
    BY <1>5 DEF Goes
  <2>2. QED
    BY <2>1 DEF NoBrokenHeader
<1>6. QED
  BY <1>3, <1>4, <1>5 DEF Places

LEMMA PublishStep ==
  ASSUME IInv, NEW draft \in Drafts, NEW clock \in Clocks, NEW place \in Places,
         Publish(draft, clock, place)
  PROVE  IInv'
<1> DEFINE e == [draft EXCEPT !.time = [day |-> day, second |-> clock[1], nanos |-> clock[2]]]
<1>1. IsEnvelope(e)
  BY Timed DEF IInv, RangeInv
<1>2. /\ stage = "none" /\ Goes(e, place)
      /\ UNCHANGED <<day, came, endpoint, attempt, envelope, waits, receipt, conversation>>
  BY DEF Publish
<1> HIDE DEF e
<1>3. /\ sent' = e /\ stage' \in {"row", "wire", "refused"}
      /\ stage' = "row" => row' = OutboxRow(e) /\ wire' = None
      /\ stage' = "wire" => OneLined(e) /\ wire' = Sent(e)
      /\ NoBrokenHeader'
  BY <1>1, <1>2, GoesOut
<1>4. came = None /\ envelope = None /\ conversation = <<>>
  BY <1>2 DEF IInv, WayInv
<1>5. RangeInv'
  BY <1>1, <1>2, <1>3 DEF IInv, RangeInv, Stages
<1>6. WayInv'
  BY <1>1, <1>2, <1>3, <1>4 DEF WayInv, OurEnvelope, Sent
<1>7. WaitsInv'
  BY <1>2, <1>3, WaitsStay DEF IInv
<1>8. TalkInv'
  BY <1>2, <1>3, <1>4, TalkStays DEF IInv
<1>9. ErrorSubjectKeepsAll'
  BY <1>3, ErrorsStay
<1>10. QED
  BY <1>5, <1>6, <1>7, <1>8, <1>9 DEF IInv

LEMMA PublishForeignStep ==
  ASSUME IInv, NEW message \in Foreign, PublishForeign(message)
  PROVE  IInv'
<1>1. /\ stage = "none" /\ stage' = "wire" /\ came' = message /\ wire' = message
      /\ UNCHANGED <<day, sent, row, endpoint, attempt, envelope, waits, receipt, conversation>>
  BY DEF PublishForeign
<1>2. sent = None /\ envelope = None /\ conversation = <<>>
  BY <1>1 DEF IInv, WayInv
<1>3. NoBrokenHeader'
  BY <1>1, TheirHeaders DEF NoBrokenHeader
<1>4. RangeInv'
  BY <1>1 DEF IInv, RangeInv, Stages
<1>5. WayInv'
  BY <1>1, <1>2 DEF WayInv, TheirMessage
<1>6. WaitsInv'
  BY <1>1, WaitsStay DEF IInv
<1>7. TalkInv'
  BY <1>1, <1>2, TalkStays DEF IInv
<1>8. ErrorSubjectKeepsAll'
  BY <1>1, <1>3, ErrorsStay
<1>9. QED
  BY <1>4, <1>5, <1>6, <1>7, <1>8 DEF IInv

LEMMA DispatchStep == ASSUME IInv, Dispatch PROVE IInv'
<1> DEFINE e == FromAttributes(RowAttributes(row), row.data)
<1>1. stage = "row" /\ IsEnvelope(sent) /\ came = None /\ row = OutboxRow(sent) /\ wire = None
      /\ envelope = None
  BY DEF Dispatch, IInv, WayInv
<1>2. e = sent
  <2>1. row.data = sent.data
    BY <1>1 DEF OutboxRow
  <2>2. Tells(RowAttributes(row), sent)
    BY <1>1, RowTells
  <2>3. QED
    BY <1>1, <2>1, <2>2, TellingReads
<1>3. /\ IF WritesHeaders(e) THEN stage' = "wire" /\ wire' = Sent(e) /\ row' = None
                             ELSE stage' = "refused" /\ UNCHANGED <<wire, row>>
      /\ UNCHANGED <<day, sent, came, endpoint, attempt, envelope, waits, receipt, conversation>>
  BY DEF Dispatch
<1> HIDE DEF e
<1>4. /\ WritesHeaders(sent) <=> OneLined(sent)
      /\ OneLined(sent) => \A text \in Range(Headers(sent)) : ~HasLineBreak(text)
  BY <1>1, OneLinedIs
<1>5. \/ stage' = "wire" /\ wire' = Sent(sent) /\ OneLined(sent)
      \/ stage' = "refused" /\ wire' = None
  BY <1>1, <1>2, <1>3, <1>4
<1>6. NoBrokenHeader'
  BY <1>4, <1>5 DEF NoBrokenHeader, Sent
<1>7. RangeInv'
  BY <1>3, <1>5 DEF IInv, RangeInv, Stages
<1>8. WayInv'
  BY <1>1, <1>3, <1>5 DEF WayInv, OurEnvelope, Sent
<1>9. WaitsInv'
  BY <1>3, <1>5, WaitsStay DEF IInv
<1>10. TalkInv'
  BY <1>1, <1>3, <1>5, TalkStays DEF IInv
<1>11. ErrorSubjectKeepsAll'
  BY <1>5, <1>6, ErrorsStay
<1>12. QED
  BY <1>7, <1>8, <1>9, <1>10, <1>11 DEF IInv

\* The endpoint reads the message.
LEMMA DeliverStep ==
  ASSUME IInv, NEW to \in Endpoints, Deliver(to)
  PROVE  IInv'
<1> DEFINE a == ReadHeaders(wire.headers)
<1>1. /\ stage = "wire" /\ attempt < MaxDeliveries /\ endpoint \in {None, to} /\ endpoint' = to
      /\ attempt' = attempt + 1
      /\ UNCHANGED <<day, sent, came, row, waits, receipt, conversation>>
      /\ IF Reads(a)
         THEN stage' = "received" /\ envelope' = FromAttributes(a, wire.data) /\ UNCHANGED wire
         ELSE \E error \in Errors :
                /\ stage' = "aside" /\ UNCHANGED envelope
                /\ wire' = [wire EXCEPT !.headers = AsideHeaders(@, to, error)]
  BY DEF Deliver
<1>2. OurEnvelope \/ TheirMessage
  BY <1>1 DEF IInv, WayInv
<1>3. ASSUME OurEnvelope PROVE Reads(a) /\ FromAttributes(a, wire.data) = sent
  <2>1. IsEnvelope(sent) /\ wire = Sent(sent)
    BY <1>3 DEF OurEnvelope
  <2>2. wire.headers = Headers(sent) /\ wire.data = sent.data
    BY <2>1 DEF Sent
  <2>3. Tells(a, sent)
    BY <2>1, <2>2, HeadersTell
  <2>4. QED
    BY <2>1, <2>2, <2>3, TellingReads
<1>4. ASSUME TheirMessage, Reads(a)
      PROVE  IsEnvelope(FromAttributes(a, wire.data)) /\ OneLined(FromAttributes(a, wire.data))
  <2>1. came \in Foreign /\ wire = came
    BY <1>4 DEF TheirMessage
  <2>2. /\ \A name \in DOMAIN a : IsText(a[name]) /\ ~HasLineBreak(a[name])
        /\ None \notin [parent : Range(a), state : Range(a) \cup {None}]
    BY <2>1, TheirHeaders
  <2> HIDE DEF a
  <2>3. QED
    BY <1>4, <2>2, ForeignReads
<1>5. IsEnvelope(sent) \/ TheirMessage
  BY <1>2 DEF OurEnvelope
<1>6. attempt \in Nat /\ attempt + 1 \in 1..MaxDeliveries
  BY <1>1, JourneyAssumption DEF IInv, RangeInv
<1>7. endpoint # None => to = endpoint
  BY <1>1
<1>8. RangeInv' /\ WayInv'
  <2>1. CASE Reads(a)
    <3> DEFINE read == FromAttributes(a, wire.data)
    <3>1. stage' = "received" /\ envelope' = read /\ wire' = wire
      BY <1>1, <2>1
    <3>2. IsEnvelope(read) /\ OneLined(read)
      BY <1>2, <1>3, <1>4, <2>1 DEF OurEnvelope
    <3>3. OurEnvelope => read = sent
      BY <1>3
    <3>4. TheirMessage => Reads(Theirs) /\ read = FromAttributes(Theirs, came.data)
      BY <2>1 DEF TheirMessage, Theirs
    <3> HIDE DEF read, a
    <3>5. RangeInv'
      BY <1>1, <1>6, <3>1, <3>2 DEF IInv, RangeInv, Stages
    <3>6. (OurEnvelope <=> OurEnvelope') /\ (TheirMessage <=> TheirMessage') /\ Theirs' = Theirs
      BY <1>1, <3>1 DEF OurEnvelope, TheirMessage, Theirs, Sent
    <3>7. WayInv'
      <4>1. \/ OurEnvelope' /\ envelope' = sent'
            \/ TheirMessage' /\ Reads(Theirs') /\ envelope' = FromAttributes(Theirs', came'.data)
        BY <1>1, <1>2, <3>1, <3>3, <3>4, <3>6
      <4>2. IsEnvelope(envelope') /\ OneLined(envelope')
        BY <3>1, <3>2
      <4>3. QED
        BY <3>1, <4>1, <4>2 DEF WayInv
    <3>8. QED
      BY <3>5, <3>7
  <2>2. CASE ~Reads(a)
    <3>1. stage' = "aside" /\ envelope' = envelope
      BY <1>1, <2>2
    <3>2. came' = came /\ came \in Foreign
      BY <1>1, <1>2, <1>3, <2>2 DEF TheirMessage
    <3> HIDE DEF a
    <3>3. RangeInv'
      BY <1>1, <1>6, <3>1 DEF IInv, RangeInv, Stages
    <3>4. QED
      BY <3>1, <3>2, <3>3 DEF WayInv
  <2>3. QED
    BY <2>1, <2>2
<1>9. WaitsInv'
  <2>1. WaitsInv /\ waits' = waits /\ attempt' = attempt + 1 /\ endpoint' = to
    BY <1>1 DEF IInv
  <2>2. waits # <<>> => to = endpoint
    BY <1>7, <2>1, JourneyAssumption DEF WaitsInv, Endpoints
  <2>3. \A i \in DOMAIN waits : waits # <<>>
    OBVIOUS
  <2>4. \A i \in DOMAIN waits : /\ waits[i][1] \in 1..attempt
                                /\ waits[i][2] = Delay(Policy[to], waits[i][1])
                                /\ i > 1 => waits[i - 1][1] < waits[i][1]
    BY <2>1, <2>2, <2>3 DEF WaitsInv
  <2>5. \A k \in 1..attempt : k \in 1..(attempt + 1) /\ k < attempt + 1
    BY <1>6
  <2>6. QED
    BY <1>6, <2>1, <2>4, <2>5 DEF WaitsInv
<1>10. stage' # "handled" /\ stage # "handled"
  BY <1>1
<1>11. TalkInv'
  BY <1>1, <1>10, TalkStays DEF IInv
<1>12. ErrorSubjectKeepsAll'
  <2>1. CASE Reads(a)
    <3>1. stage' = "received" /\ wire' = wire
      BY <1>1, <2>1
    <3>2. NoBrokenHeader'
      BY <3>1 DEF IInv, ErrorSubjectKeepsAll, NoBrokenHeader
    <3>3. QED
      BY <3>1, <3>2, ErrorsStay
  <2>2. CASE ~Reads(a)
    <3>1. TheirMessage
      BY <1>2, <1>3, <2>2
    <3>2. came \in Foreign /\ wire = came
      BY <3>1 DEF TheirMessage
    <3>3. PICK error \in Errors : wire' = [wire EXCEPT !.headers = AsideHeaders(wire.headers, to, error)]
      BY <1>1, <2>2
    <3> DEFINE after == AsideHeaders(wire.headers, to, error)
               added == {Ce("errorendpoint"), Ce("errortype"), Ce("errormessage")}
    <3>4. wire = [headers |-> wire.headers, data |-> wire.data]
          /\ \A text \in Range(wire.headers) : ~HasLineBreak(text)
      BY <3>2, TheirHeaders
    <3>5. ~HasLineBreak(to)
      BY JourneyAssumption DEF Endpoints
    <3>6. /\ Without(after, added) = Without(wire.headers, added \cup {MsgId})
          /\ added \subseteq DOMAIN after
          /\ \A text \in Range(after) : ~HasLineBreak(text)
      BY <3>4, <3>5, AsideKeeps
    <3>7. wire' = [headers |-> after, data |-> wire.data]
      <4>1. DOMAIN wire = {"headers", "data"}
        BY <3>4
      <4> HIDE DEF after
      <4>2. wire' = [wire EXCEPT !.headers = after]
        BY <3>3 DEF after
      <4>3. DOMAIN wire' = {"headers", "data"} /\ wire' = [field \in {"headers", "data"} |-> wire'[field]]
        BY <4>1, <4>2
      <4>4. wire'.headers = after /\ wire'.data = wire.data
        BY <4>1, <4>2
      <4>5. QED
        BY <4>3, <4>4
    <3> HIDE DEF after
    <3>8. wire'.headers = after /\ wire'.data = came'.data /\ came'.headers = wire.headers
          /\ stage' = "aside"
      BY <1>1, <2>2, <3>2, <3>7
    <3>9. NoBrokenHeader' /\ ErrorCopyReads'
      BY <3>6, <3>8 DEF NoBrokenHeader, ErrorCopyReads
    <3>10. AsideAsItCame'
      BY <3>6, <3>8 DEF AsideAsItCame
    <3>11. QED
      BY <3>9, <3>10 DEF ErrorSubjectKeepsAll
  <2>3. QED
    BY <2>1, <2>2
<1>13. QED
  BY <1>8, <1>9, <1>11, <1>12 DEF IInv

\* What a handler returned Ok for is remembered as the last message handled.
LEMMA Remembered ==
  ASSUME IInv, stage = "received", Records
  PROVE  /\ Listed(conversation') /\ Len(conversation') = Len(conversation) + 1
         /\ Len(conversation) \in Nat /\ Len(conversation) < MaxHops
         /\ \A i \in DOMAIN conversation' : IsEnvelope(conversation'[i])
         /\ OneConversation'
         /\ conversation' # <<>> /\ Last(conversation') = envelope
         /\ envelope.correlationId = conversation'[1].correlationId
         /\ envelope.trace = conversation'[1].trace
         /\ receipt' # None => receipt' = Receipt(envelope, TRUE)
<1> DEFINE n == Len(conversation)
           longer == Append(conversation, envelope)
<1>1. conversation' = longer /\ receipt' = IF endpoint \in Inboxes THEN Receipt(envelope, TRUE) ELSE None
  BY DEF Records
<1>2. TalkInv /\ IsEnvelope(envelope) /\ (came = None => envelope = sent)
  <2>1. TalkInv /\ WayInv
    BY DEF IInv
  <2>2. TheirMessage => came # None
    BY TheirHeaders DEF TheirMessage
  <2>3. QED
    BY <2>1, <2>2 DEF WayInv
<1>3. /\ n \in Nat /\ DOMAIN conversation = 1..n
      /\ Listed(longer) /\ Len(longer) = n + 1 /\ DOMAIN longer = 1..(n + 1)
      /\ \A i \in 1..n : longer[i] = conversation[i]
      /\ longer[n + 1] = envelope /\ Last(longer) = envelope /\ longer # <<>>
  BY <1>2, Appended DEF TalkInv
<1> HIDE DEF longer, n
<1>4. \A i \in 1..(n + 1) : i \in 1..n \/ i = n + 1
  BY <1>3
<1>5. \A i \in 1..(n + 1) : IsEnvelope(longer[i])
  BY <1>2, <1>3, <1>4 DEF TalkInv
<1>6. n > 0 => /\ envelope.causationId = conversation[n].id
               /\ envelope.correlationId = conversation[1].correlationId
               /\ envelope.trace = conversation[1].trace
  <2>1. SUFFICES ASSUME n > 0
                 PROVE  /\ envelope.causationId = conversation[n].id
                        /\ envelope.correlationId = conversation[1].correlationId
                        /\ envelope.trace = conversation[1].trace
    OBVIOUS
  <2>2. 1 \in DOMAIN conversation
    BY <1>3, <2>1
  <2>3. conversation # <<>>
    BY <2>2
  <2>4. Continues
    BY <1>2, <2>3 DEF TalkInv
  <2>5. QED
    BY <1>2, <2>4 DEF Continues, Last, n
<1>7. longer[1] = IF n = 0 THEN envelope ELSE conversation[1]
  BY <1>3
<1>8. ASSUME NEW i \in 2..(n + 1)
      PROVE  /\ longer[i].causationId = longer[i - 1].id
             /\ longer[i].correlationId = longer[1].correlationId
             /\ longer[i].trace = longer[1].trace
  <2>1. n > 0 /\ longer[1] = conversation[1]
    BY <1>3, <1>7
  <2>2. CASE i = n + 1
    <3>1. i - 1 = n /\ longer[i - 1] = conversation[n]
      BY <1>3, <2>1, <2>2
    <3>2. QED
      BY <1>3, <1>6, <2>1, <2>2, <3>1
  <2>3. CASE i # n + 1
    <3>1. i \in 2..n /\ i \in 1..n /\ i - 1 \in 1..n
      BY <1>3, <2>3
    <3>2. longer[i] = conversation[i] /\ longer[i - 1] = conversation[i - 1]
      BY <1>3, <3>1
    <3>3. OneConversation
      BY <1>2 DEF TalkInv
    <3>4. QED
      BY <2>1, <3>1, <3>2, <3>3 DEF OneConversation, n
  <2>4. QED
    BY <2>2, <2>3
<1>9. OneConversation'
  BY <1>1, <1>3, <1>8 DEF OneConversation
<1>10. envelope.correlationId = longer[1].correlationId /\ envelope.trace = longer[1].trace
  BY <1>3, <1>6, <1>7
<1>11. n < MaxHops
  BY <1>2 DEF TalkInv, n
<1>12. QED
  BY <1>1, <1>3, <1>5, <1>9, <1>10, <1>11 DEF n

LEMMA HandleStep == ASSUME IInv, Handle PROVE IInv'
<1>1. /\ stage = "received" /\ stage' = "handled" /\ Records
      /\ UNCHANGED <<day, sent, came, row, wire, endpoint, attempt, envelope, waits>>
  BY DEF Handle
<1>2. RangeInv' /\ WayInv'
  BY <1>1 DEF IInv, RangeInv, Stages, WayInv
<1>3. WaitsInv'
  BY <1>1, WaitsStay DEF IInv
<1>4. TalkInv'
  <2>1. /\ Listed(conversation') /\ Len(conversation') = Len(conversation) + 1
        /\ Len(conversation) \in Nat /\ Len(conversation) < MaxHops
        /\ \A i \in DOMAIN conversation' : IsEnvelope(conversation'[i])
        /\ OneConversation'
        /\ conversation' # <<>> /\ Last(conversation') = envelope
        /\ receipt' # None => receipt' = Receipt(envelope, TRUE)
    BY <1>1, Remembered
  <2>2. Len(conversation') <= MaxHops
    BY <2>1, JourneyAssumption
  <2>3. receipt' # None => conversation' # <<>> /\ receipt' = Receipt(Last(conversation'), TRUE)
    BY <2>1
  <2>4. QED
    BY <1>1, <2>1, <2>2, <2>3 DEF TalkInv
<1>5. NoBrokenHeader'
  BY <1>1 DEF IInv, ErrorSubjectKeepsAll, NoBrokenHeader
<1>6. ErrorSubjectKeepsAll'
  BY <1>1, <1>5, ErrorsStay
<1>7. QED
  BY <1>2, <1>3, <1>4, <1>6 DEF IInv

LEMMA HandleWithPublishStep ==
  ASSUME IInv, NEW clock \in Clocks, HandleWithPublish(clock)
  PROVE  IInv'
<1> DEFINE time == [day |-> day, second |-> clock[1], nanos |-> clock[2]]
           child == Encode(Len(conversation) + 2, envelope.type, HandlerSource, time, "good")
           e == Tied(child, envelope)
           place == IF endpoint \in Inboxes THEN "row" ELSE "wire"
           none == <<>>
<1>1. /\ stage = "received" /\ Len(conversation) + 1 < MaxHops /\ Records
      /\ Goes(e, place)
      /\ came' = None /\ endpoint' = None /\ attempt' = 0 /\ envelope' = None /\ waits' = none
      /\ day' = day
  BY DEF HandleWithPublish
<1>2. Listed(none) /\ DOMAIN none = {} /\ Len(none) = 0
  BY EmptySeq DEF Listed
<1>3. /\ Listed(conversation') /\ Len(conversation') = Len(conversation) + 1
      /\ Len(conversation) \in Nat
      /\ \A i \in DOMAIN conversation' : IsEnvelope(conversation'[i])
      /\ OneConversation'
      /\ conversation' # <<>> /\ Last(conversation') = envelope
      /\ envelope.correlationId = conversation'[1].correlationId
      /\ envelope.trace = conversation'[1].trace
      /\ receipt' # None => receipt' = Receipt(envelope, TRUE)
  BY <1>1, Remembered
<1>4. IsEnvelope(envelope) /\ day \in FirstDay..LastDay
  BY <1>1 DEF IInv, WayInv, RangeInv
<1>5. /\ IsEnvelope(e) /\ e.causationId = envelope.id
      /\ e.correlationId = envelope.correlationId /\ e.trace = envelope.trace
  <2>1. Len(conversation) + 2 \in Nat
    BY <1>3
  <2>2. QED
    BY <1>4, <2>1, TiedChild
<1>6. place \in Places
  BY DEF Places
<1> HIDE DEF e, place, none
<1>7. /\ sent' = e /\ stage' \in {"row", "wire", "refused"}
      /\ stage' = "row" => row' = OutboxRow(e) /\ wire' = None
      /\ stage' = "wire" => OneLined(e) /\ wire' = Sent(e)
      /\ NoBrokenHeader'
  BY <1>1, <1>5, <1>6, GoesOut
<1>8. RangeInv'
  BY <1>1, <1>4, <1>5, <1>7, JourneyAssumption DEF RangeInv, Stages
<1>9. WayInv'
  BY <1>1, <1>5, <1>7 DEF WayInv, OurEnvelope, Sent
<1>10. WaitsInv'
  BY <1>1, <1>2, <1>7 DEF WaitsInv, none
<1>11. TalkInv'
  <2>1. Continues'
    BY <1>1, <1>3, <1>5, <1>7 DEF Continues
  <2>2. Len(conversation') < MaxHops /\ Len(conversation') <= MaxHops
    BY <1>1, <1>3, JourneyAssumption
  <2>3. QED
    BY <1>3, <1>7, <2>1, <2>2 DEF TalkInv
<1>12. ErrorSubjectKeepsAll'
  BY <1>7, ErrorsStay
<1>13. QED
  BY <1>8, <1>9, <1>10, <1>11, <1>12 DEF IInv

LEMMA ComesAgainStep == ASSUME IInv, ComesAgain PROVE IInv'
<1>1. /\ stage = "received" /\ stage' = "wire" /\ envelope' = None
      /\ UNCHANGED <<day, sent, came, row, wire, endpoint, attempt, waits, receipt, conversation>>
  BY DEF ComesAgain
<1>2. RangeInv'
  BY <1>1 DEF IInv, RangeInv, Stages
<1>3. WayInv'
  BY <1>1 DEF IInv, WayInv, OurEnvelope, TheirMessage, Sent
<1>4. WaitsInv'
  BY <1>1, WaitsStay DEF IInv
<1>5. TalkInv'
  BY <1>1, TalkStays DEF IInv
<1>6. NoBrokenHeader'
  BY <1>1 DEF IInv, ErrorSubjectKeepsAll, NoBrokenHeader
<1>7. ErrorSubjectKeepsAll'
  BY <1>1, <1>6, ErrorsStay
<1>8. QED
  BY <1>2, <1>3, <1>4, <1>5, <1>7 DEF IInv

LEMMA RetryStep == ASSUME IInv, Retry PROVE IInv'
<1> DEFINE wait == <<attempt, Delay(Policy[endpoint], attempt)>>
           n == Len(waits)
           longer == Append(waits, wait)
<1>0. longer = Append(waits, wait)
  OBVIOUS
<1>1. /\ stage = "received" /\ stage' = "wire" /\ envelope' = None /\ waits' = longer
      /\ UNCHANGED <<day, sent, came, row, wire, endpoint, attempt, receipt, conversation>>
  BY DEF Retry
<1>2. RangeInv'
  BY <1>1 DEF IInv, RangeInv, Stages
<1>3. WayInv'
  BY <1>1 DEF IInv, WayInv, OurEnvelope, TheirMessage, Sent
<1>4. TalkInv'
  BY <1>1, TalkStays DEF IInv
<1>5. NoBrokenHeader'
  BY <1>1 DEF IInv, ErrorSubjectKeepsAll, NoBrokenHeader
<1>6. ErrorSubjectKeepsAll'
  BY <1>1, <1>5, ErrorsStay
<1>7. WaitsInv'
  <2>1. WaitsInv /\ endpoint \in Endpoints /\ attempt \in Nat /\ attempt >= 1
    BY <1>1 DEF IInv, RangeInv, WaitsInv
  <2>2. wait[1] = attempt /\ wait[2] = Delay(Policy[endpoint], attempt)
    OBVIOUS
  <2> HIDE DEF wait, longer
  <2>0. Listed(waits)
    BY <2>1 DEF WaitsInv
  <2>3. /\ n \in Nat /\ DOMAIN waits = 1..n
        /\ Listed(longer) /\ Len(longer) = n + 1 /\ DOMAIN longer = 1..(n + 1)
        /\ \A i \in 1..n : longer[i] = waits[i]
        /\ longer[n + 1] = wait
    <3>1. n \in Nat /\ DOMAIN waits = 1..n
      BY <1>0, <2>0, Appended
    <3>2. Listed(longer) /\ Len(longer) = n + 1 /\ DOMAIN longer = 1..(n + 1)
      BY <1>0, <2>0, Appended
    <3>3. \A i \in 1..n : longer[i] = waits[i]
      BY <1>0, <2>0, Appended
    <3>4. longer[n + 1] = wait
      BY <1>0, <2>0, Appended
    <3>5. QED
      BY <3>1, <3>2, <3>3, <3>4
  <2> HIDE DEF n
  <2>4. \A i \in 1..n : /\ waits[i][1] \in 1..attempt /\ waits[i][1] < attempt
                        /\ waits[i][2] = Delay(Policy[endpoint], waits[i][1])
                        /\ i > 1 => waits[i - 1][1] < waits[i][1]
    BY <1>1, <2>1, <2>3 DEF WaitsInv
  <2>5. ASSUME NEW i \in 1..(n + 1)
        PROVE  /\ longer[i][1] \in 1..attempt
               /\ longer[i][2] = Delay(Policy[endpoint], longer[i][1])
               /\ i > 1 => longer[i - 1][1] < longer[i][1]
    <3>1. CASE i = n + 1
      <4>1. longer[i] = wait /\ attempt \in 1..attempt
        BY <2>1, <2>3, <3>1
      <4>2. i > 1 => i - 1 \in 1..n
        BY <2>3, <3>1
      <4>3. i > 1 => longer[i - 1] = waits[i - 1] /\ waits[i - 1][1] < attempt
        BY <2>3, <2>4, <4>2
      <4>4. QED
        BY <2>2, <4>1, <4>3
    <3>2. CASE i # n + 1
      <4>1. i \in 1..n /\ (i > 1 => i - 1 \in 1..n)
        BY <2>3, <3>2
      <4>2. longer[i] = waits[i] /\ (i > 1 => longer[i - 1] = waits[i - 1])
        BY <2>3, <4>1
      <4>3. QED
        BY <2>4, <4>1, <4>2
    <3>3. QED
      BY <3>1, <3>2
  <2>6. QED
    BY <1>1, <2>1, <2>3, <2>5 DEF WaitsInv
<1>8. QED
  BY <1>2, <1>3, <1>4, <1>6, <1>7 DEF IInv

LEMMA GiveUpStep == ASSUME IInv, NEW error, GiveUp(error) PROVE IInv'
<1> DEFINE type == <<"word", "HandlerError">>
           failed == ErrorEnvelope(envelope, endpoint, type, error, attempt)
<1>0. failed = ErrorEnvelope(envelope, endpoint, type, error, attempt)
  OBVIOUS
<1> DEFINE headers == ErrorHeaders(failed)
<1>1. /\ stage = "received" /\ stage' = "error"
      /\ wire' = [headers |-> headers, data |-> failed.data]
      /\ UNCHANGED <<day, sent, came, row, endpoint, attempt, envelope, waits, receipt, conversation>>
  BY DEF GiveUp
<1>2. IsEnvelope(envelope) /\ OneLined(envelope) /\ endpoint \in Endpoints
  BY <1>1 DEF IInv, WayInv, RangeInv
<1>3. ~HasLineBreak(endpoint) /\ ~HasLineBreak(type)
  BY <1>2, JourneyAssumption DEF Endpoints, HasLineBreak
<1> HIDE DEF type, failed
<1>4. CopyTells(headers, failed.data, envelope, endpoint, attempt)
  BY <1>0, <1>2, <1>3, ErrorCopy
<1> HIDE DEF headers
<1>5. wire'.headers = headers /\ wire'.data = failed.data
  BY <1>1
<1>6. ErrorCopyReads'
  BY <1>1, <1>4, <1>5 DEF CopyTells, ErrorCopyReads, WithoutFailure
<1>7. NoBrokenHeader' /\ AsideAsItCame'
  BY <1>1, <1>4, <1>5 DEF CopyTells, NoBrokenHeader, AsideAsItCame
<1>8. RangeInv' /\ WayInv'
  BY <1>1 DEF IInv, RangeInv, Stages, WayInv
<1>9. WaitsInv'
  BY <1>1, WaitsStay DEF IInv
<1>10. TalkInv'
  BY <1>1, TalkStays DEF IInv
<1>11. QED
  BY <1>6, <1>7, <1>8, <1>9, <1>10 DEF IInv, ErrorSubjectKeepsAll

\* Every step keeps it.
LEMMA NextInv == IInv /\ [Next]_vars => IInv'
<1> SUFFICES ASSUME IInv, [Next]_vars PROVE IInv'
  OBVIOUS
<1>1. CASE UNCHANGED vars
  <2>1. UNCHANGED <<day, stage, sent, came, row, wire, endpoint, attempt, envelope, waits, receipt,
                    conversation>>
    BY <1>1 DEF vars
  <2>2. RangeInv' /\ WayInv'
    BY <2>1 DEF IInv, RangeInv, WayInv, OurEnvelope, TheirMessage, Theirs, Sent
  <2>3. WaitsInv'
    BY <2>1 DEF IInv, WaitsInv
  <2>4. TalkInv'
    BY <2>1 DEF IInv, TalkInv, OneConversation, Continues
  <2>5. NoBrokenHeader' /\ ErrorCopyReads' /\ AsideAsItCame'
    BY <2>1 DEF IInv, ErrorSubjectKeepsAll, NoBrokenHeader, ErrorCopyReads, AsideAsItCame
  <2>6. QED
    BY <2>2, <2>3, <2>4, <2>5 DEF IInv, ErrorSubjectKeepsAll
<1>2. CASE \E draft \in Drafts, clock \in Clocks, place \in Places : Publish(draft, clock, place)
  BY <1>2, PublishStep
<1>3. CASE \E message \in Foreign : PublishForeign(message)
  BY <1>3, PublishForeignStep
<1>4. CASE Dispatch
  BY <1>4, DispatchStep
<1>5. CASE \E to \in Endpoints : Deliver(to)
  BY <1>5, DeliverStep
<1>6. CASE Handle
  BY <1>6, HandleStep
<1>7. CASE \E clock \in Clocks : HandleWithPublish(clock)
  BY <1>7, HandleWithPublishStep
<1>8. CASE ComesAgain
  BY <1>8, ComesAgainStep
<1>9. CASE Retry
  BY <1>9, RetryStep
<1>10. CASE \E error \in Errors : GiveUp(error)
  BY <1>10, GiveUpStep
<1>11. QED
  BY <1>1, <1>2, <1>3, <1>4, <1>5, <1>6, <1>7, <1>8, <1>9, <1>10 DEF Next

LEMMA IInvHolds == Spec => []IInv
BY InitInv, NextInv, PTL DEF Spec

-------------------------------------------------------------------------------
(* What follows from it *)

\* Every wait is the delay of its attempt's number.
LEMMA EachWait ==
  ASSUME IInv, NEW i \in DOMAIN waits
  PROVE  /\ Policy[endpoint] \in Policies
         /\ waits[i][1] \in 1..attempt /\ waits[i][1] \in Nat /\ 1 <= waits[i][1]
         /\ waits[i][2] \in Nat
         /\ waits[i][2] = Lesser(Doubled(Policy[endpoint].first, waits[i][1] - 1), Policy[endpoint].max)
<1> DEFINE n == waits[i][1]
           policy == Policy[endpoint]
<1>1. waits # <<>>
  OBVIOUS
<1>2. /\ endpoint \in Endpoints /\ attempt \in 0..MaxDeliveries
      /\ n \in 1..attempt /\ waits[i][2] = Delay(policy, n)
  BY <1>1 DEF IInv, WaitsInv, RangeInv
<1>3. policy \in Policies
  BY <1>2, JourneyAssumption DEF Endpoints
<1>4. n \in Nat /\ 1 <= n /\ n <= n
  BY <1>2, JourneyAssumption
<1> HIDE DEF n, policy
<1>5. Delay(policy, n) \in Nat /\ Delay(policy, n) = Lesser(Doubled(policy.first, n - 1), policy.max)
  BY <1>3, <1>4, DelaysGrow
<1>6. QED
  BY <1>2, <1>3, <1>4, <1>5 DEF n, policy

\* At any step, the variables are of their types: every envelope on the way keeps the rules that
\* its parts are checked for when they are made, also after the database and the wire.
THEOREM JourneyTyped == Spec => []TypeOK
<1>1. IInv => TypeOK
  <2> SUFFICES ASSUME IInv PROVE TypeOK
    OBVIOUS
  <2>1. \A i \in DOMAIN waits : waits[i][1] \in 1..attempt /\ waits[i][2] \in Nat
    BY EachWait
  <2>2. RangeInv /\ Len(conversation) <= MaxHops
        /\ \A i \in DOMAIN conversation : IsEnvelope(conversation[i])
    BY DEF IInv, TalkInv
  <2>3. \A e \in {sent, envelope} \cup ToSet(conversation) : e # None => IsEnvelope(e)
    <3>1. \A e \in ToSet(conversation) : IsEnvelope(e)
      BY <2>2 DEF ToSet
    <3>2. QED
      BY <2>2, <3>1 DEF RangeInv
  <2>4. QED
    BY <2>1, <2>2, <2>3 DEF TypeOK, RangeInv
<1>2. QED
  BY <1>1, IInvHolds, PTL

\* An endpoint reads what was published, through the outbox and the headers, and an inbox receipt
\* with the data keeps the whole envelope.
THEOREM MessagesStayWhole == Spec => []MessagesKeepWhole
<1>1. IInv => ReadsWhatWasSent
  <2> SUFFICES ASSUME IInv PROVE ReadsWhatWasSent
    OBVIOUS
  <2> DEFINE theirs == ReadHeaders(came.headers)
             ours == ToAttributes(envelope)
             lone == IF "traceparent" \in DOMAIN theirs THEN {} ELSE {"tracestate"}
  <2>1. stage = "aside" => came # None
    BY TheirHeaders DEF IInv, WayInv
  <2>2. ASSUME stage = "received", sent # None PROVE envelope = sent
    BY <2>2 DEF IInv, WayInv, TheirMessage
  <2>3. ASSUME stage = "received", came # None
        PROVE  /\ DOMAIN ours = DOMAIN theirs \ lone
               /\ \A name \in DOMAIN ours : SaysTheSame(name, ours[name], theirs[name])
               /\ envelope.data = came.data
    <3>1. came \in Foreign /\ Reads(Theirs) /\ envelope = FromAttributes(Theirs, came.data)
      BY <2>3 DEF IInv, WayInv, OurEnvelope, TheirMessage
    <3>2. /\ \A name \in DOMAIN Theirs : IsText(Theirs[name]) /\ ~HasLineBreak(Theirs[name])
          /\ None \notin [parent : Range(Theirs), state : Range(Theirs) \cup {None}]
      BY <3>1, TheirHeaders DEF Theirs
    <3>3. /\ envelope.data = came.data
          /\ LET mine == ToAttributes(envelope)
                 only == IF "traceparent" \in DOMAIN Theirs THEN {} ELSE {"tracestate"}
             IN  /\ DOMAIN mine = DOMAIN Theirs \ only
                 /\ \A name \in DOMAIN mine : SaysTheSame(name, mine[name], Theirs[name])
      BY <3>1, <3>2, ForeignReads
    <3>4. QED
      BY <3>3 DEF Theirs
  <2> HIDE DEF theirs, ours, lone
  <2>4. QED
    BY <2>1, <2>2, <2>3 DEF ReadsWhatWasSent, theirs, ours, lone
<1>2. IInv => ReceiptKeepsAll
  <2> SUFFICES ASSUME IInv, receipt # None
               PROVE  /\ Reads(RowAttributes(receipt))
                      /\ FromAttributes(RowAttributes(receipt), receipt.data) = Last(conversation)
    BY DEF ReceiptKeepsAll
  <2> DEFINE e == Last(conversation)
  <2>1. receipt = Receipt(e, TRUE) /\ conversation # <<>> /\ Listed(conversation)
        /\ \A i \in DOMAIN conversation : IsEnvelope(conversation[i])
    BY DEF IInv, TalkInv
  <2>2. IsEnvelope(e)
    <3>1. PICK S : conversation \in Seq(S)
      BY <2>1 DEF Listed
    <3>2. Len(conversation) \in DOMAIN conversation
      BY <2>1, <3>1
    <3>3. QED
      BY <2>1, <3>2 DEF Last
  <2> HIDE DEF e
  <2>3. Tells(RowAttributes(receipt), e) /\ receipt.data = e.data
    BY <2>1, <2>2, ReceiptTells
  <2>4. QED
    BY <2>2, <2>3, TellingReads DEF e
<1>3. QED
  BY <1>1, <1>2, IInvHolds, PTL DEF MessagesKeepWhole

\* What lies on the error subject has whole headers, reads as the message with its data, and
\* tells the last failure; a message that is no envelope lies there as it came.
THEOREM ErrorSubjectHasAll == Spec => []ErrorSubjectKeepsAll
<1>1. IInv => ErrorSubjectKeepsAll
  BY DEF IInv
<1>2. QED
  BY <1>1, IInvHolds, PTL

\* However many handlers publish one after the other, each message has the one before it as its
\* cause, and the first one's correlation id and trace.
THEOREM ConversationIsOne == Spec => []OneConversation
<1>1. IInv => OneConversation
  BY DEF IInv, TalkInv
<1>2. QED
  BY <1>1, IInvHolds, PTL

\* The wait after attempt n is the first delay doubled n - 1 times or the longest delay, if that
\* is shorter: cutting off early at it and saturating at Duration::MAX change nothing. So the
\* waits of a message never get shorter.
THEOREM WaitsAreDoubled == Spec => []WaitsDouble
<1>1. IInv => WaitsDouble
  <2> SUFFICES ASSUME IInv, NEW i \in DOMAIN waits
               PROVE  LET policy == Policy[endpoint]
                      IN  /\ waits[i][2] = Lesser(Doubled(policy.first, waits[i][1] - 1), policy.max)
                          /\ i > 1 => waits[i - 1][2] <= waits[i][2]
    BY DEF WaitsDouble
  <2>1. waits[i][2] = Lesser(Doubled(Policy[endpoint].first, waits[i][1] - 1), Policy[endpoint].max)
    BY EachWait
  <2>2. ASSUME i > 1 PROVE waits[i - 1][2] <= waits[i][2]
    <3>1. i - 1 \in DOMAIN waits
      <4>1. PICK S : waits \in Seq(S)
        BY DEF IInv, WaitsInv, Listed
      <4>2. QED
        BY <2>2, <4>1
    <3> DEFINE m == waits[i - 1][1]
               n == waits[i][1]
    <3>2. waits[i - 1][2] = Delay(Policy[endpoint], m) /\ waits[i][2] = Delay(Policy[endpoint], n)
          /\ m < n
      BY <2>2, <3>1 DEF IInv, WaitsInv
    <3>3. m \in Nat /\ 1 <= m /\ n \in Nat /\ Policy[endpoint] \in Policies
      BY <3>1, EachWait
    <3> HIDE DEF m, n
    <3>4. m <= n
      BY <3>2, <3>3
    <3>5. Delay(Policy[endpoint], m) <= Delay(Policy[endpoint], n)
      BY <3>3, <3>4, DelaysGrow
    <3>6. QED
      BY <3>2, <3>5
  <2>3. QED
    BY <2>1, <2>2
<1>2. QED
  BY <1>1, IInvHolds, PTL
===============================================================================
