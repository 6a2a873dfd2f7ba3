------------------------------- MODULE Journey -------------------------------
(***************************************************************************)
(* One message's way, in the forms it takes: made on some day, written to  *)
(* the outbox or sent at once, claimed, sent as headers, read by an        *)
(* endpoint, tried again, and handled or copied to the error subject; and  *)
(* the message its handler publishes, on the same way. Another client's    *)
(* message comes in at the headers. When these steps run, and which        *)
(* process runs them, is Outbox's, Endpoint's and NatsTransport's: here    *)
(* every step follows the one before, and what it carries is checked.      *)
(***************************************************************************)
EXTENDS Envelope, RetryPolicy

CONSTANTS
  Days,          \* the days to check the calendar on
  SendDays,      \* those of them that a message is made on
  Clocks,        \* the <<second, nanos>> of a day that one is made at
  Drafts,        \* envelopes to publish, but for their time
  Foreign,       \* other clients' messages, [headers, data]
  Policy,        \* the retry policy of each endpoint, by its name, a text
  Inboxes,       \* those of the endpoints with an inbox
  Handled,       \* the message types the endpoints have a handler for
  Errors,        \* what errors say
  MaxDeliveries, \* bound: deliveries of one message
  MaxHops        \* bound: messages that the first one leads to, itself included

\* The source of what the handlers publish.
HandlerSource == <<"word", "/billing">>

ASSUME JourneyAssumption ==
  /\ Days \subseteq FirstDay..LastDay
  /\ SendDays \subseteq Days
  /\ Clocks \subseteq (0..(SecondsPerDay - 1)) \X (0..(NanosPerSecond - 1))
  /\ \A draft \in Drafts : IsEnvelope(draft)
  /\ None # HandlerSource /\ None \notin Foreign
  /\ \A message \in Foreign :
       /\ message = [headers |-> message.headers, data |-> message.data]
       /\ \A text \in Range(message.headers) : IsText(text) /\ ~HasLineBreak(text)
       /\ None \notin [parent : Range(message.headers), state : Range(message.headers) \cup {None}]
  /\ Policy \in [DOMAIN Policy -> Policies]
  /\ \A endpoint \in DOMAIN Policy : endpoint # None /\ ~HasLineBreak(endpoint)
  /\ Inboxes \subseteq DOMAIN Policy
  /\ MaxDeliveries \in Nat /\ MaxHops \in Nat \ {0}

VARIABLES
  day,         \* today
  stage,       \* where the message is
  sent,        \* the envelope its publisher gave, None for another client's
  came,        \* another client's message, or None
  row,         \* its outbox row, or None
  wire,        \* its headers and data on the stream, or on the error subject
  endpoint,    \* the endpoint it is delivered to, None before
  attempt,     \* the number of its last delivery
  envelope,    \* the envelope the endpoint read, or None
  waits,       \* the waits between its deliveries, as <<attempt, delay>>
  receipt,     \* the inbox receipt of the last message handled, or None
  conversation \* the envelopes handled, each published in handling the one before

vars == <<day, stage, sent, came, row, wire, endpoint, attempt, envelope, waits, receipt,
          conversation>>

Endpoints == DOMAIN Policy
Stages == {"none", "row", "wire", "refused", "received", "handled", "error", "aside"}
Places == {"row", "wire"}

Init ==
  /\ day \in Days
  /\ stage = "none"
  /\ sent = None /\ came = None /\ row = None /\ wire = None
  /\ endpoint = None /\ attempt = 0 /\ envelope = None
  /\ waits = <<>> /\ receipt = None /\ conversation = <<>>

Sent(e) == [headers |-> Headers(e), data |-> e.data]

\* An envelope goes out: in the outbox it is written as it is, at the transport a line break in
\* it is refused.
Goes(e, place) ==
  /\ sent' = e
  /\ \/ place = "row" /\ stage' = "row" /\ row' = OutboxRow(e) /\ wire' = None
     \/ /\ place = "wire" /\ row' = None
        /\ IF WritesHeaders(e) THEN stage' = "wire" /\ wire' = Sent(e)
                               ELSE stage' = "refused" /\ wire' = None

\* The application publishes an envelope, on the bus, with the transport or in the outbox.
Publish(draft, clock, place) ==
  /\ stage = "none" /\ day \in SendDays
  /\ Goes([draft EXCEPT !.time = [day |-> day, second |-> clock[1], nanos |-> clock[2]]], place)
  /\ UNCHANGED <<day, came, endpoint, attempt, envelope, waits, receipt, conversation>>

\* Another client publishes.
PublishForeign(message) ==
  /\ stage = "none" /\ day \in SendDays
  /\ stage' = "wire" /\ came' = message /\ wire' = message
  /\ UNCHANGED <<day, sent, row, endpoint, attempt, envelope, waits, receipt, conversation>>

\* The dispatcher claims the row, puts the envelope together and publishes it; one the transport
\* refuses stays in the outbox, in the end as failed.
Dispatch ==
  /\ stage = "row"
  /\ LET e == FromAttributes(RowAttributes(row), row.data)
     IN  IF WritesHeaders(e) THEN stage' = "wire" /\ wire' = Sent(e) /\ row' = None
                             ELSE stage' = "refused" /\ UNCHANGED <<wire, row>>
  /\ UNCHANGED <<day, sent, came, endpoint, attempt, envelope, waits, receipt, conversation>>

\* The broker delivers the message to an endpoint, the same one each time. One that is no
\* envelope is set aside.
Deliver(to) ==
  /\ stage = "wire" /\ attempt < MaxDeliveries
  /\ endpoint \in {None, to}
  /\ endpoint' = to
  /\ attempt' = attempt + 1
  /\ LET attributes == ReadHeaders(wire.headers)
     IN  IF Reads(attributes)
         THEN stage' = "received" /\ envelope' = FromAttributes(attributes, wire.data)
              /\ UNCHANGED wire
         ELSE \E error \in Errors :
                /\ stage' = "aside" /\ UNCHANGED envelope
                /\ wire' = [wire EXCEPT !.headers = AsideHeaders(@, to, error)]
  /\ UNCHANGED <<day, sent, came, row, waits, receipt, conversation>>

\* Whether the endpoint has a handler for the message and can decode it.
Decodes == /\ envelope.type \in Handled
           /\ CanDecode(envelope.contentType)
           /\ envelope.data # "broken"

\* The handler returns Ok without a publish; an inbox has recorded the message.
Records == /\ receipt' = IF endpoint \in Inboxes THEN Receipt(envelope, TRUE) ELSE None
           /\ conversation' = Append(conversation, envelope)

Handle ==
  /\ stage = "received" /\ Decodes
  /\ stage' = "handled"
  /\ Records
  /\ UNCHANGED <<day, sent, came, row, wire, endpoint, attempt, envelope, waits>>

\* It returns Ok with a publish, which goes to the outbox with an inbox, else to the transport,
\* and starts on its way.
HandleWithPublish(clock) ==
  /\ stage = "received" /\ Decodes /\ Len(conversation) + 1 < MaxHops
  /\ Records
  /\ LET time == [day |-> day, second |-> clock[1], nanos |-> clock[2]]
         child == Encode(Len(conversation) + 2, envelope.type, HandlerSource, time, "good")
     IN  Goes(Tied(child, envelope), IF endpoint \in Inboxes THEN "row" ELSE "wire")
  /\ came' = None /\ endpoint' = None /\ attempt' = 0 /\ envelope' = None /\ waits' = <<>>
  /\ UNCHANGED day

\* A delivery that wasn't settled comes again after the broker's ack wait.
ComesAgain ==
  /\ stage = "received"
  /\ stage' = "wire" /\ envelope' = None
  /\ UNCHANGED <<day, sent, came, row, wire, endpoint, attempt, waits, receipt, conversation>>

\* The handler fails and the attempt isn't the last, or the copy to the error subject fails.
Retry ==
  /\ stage = "received"
  /\ stage' = "wire" /\ envelope' = None
  /\ waits' = Append(waits, <<attempt, Delay(Policy[endpoint], attempt)>>)
  /\ UNCHANGED <<day, sent, came, row, wire, endpoint, attempt, receipt, conversation>>

\* The handler's last attempt fails, or the message can't be decoded: it is copied to the error
\* subject and rejected.
GiveUp(error) ==
  /\ stage = "received"
  /\ Decodes => IsLast(Policy[endpoint], attempt)
  /\ stage' = "error"
  /\ LET failed == ErrorEnvelope(envelope, endpoint, <<"word", "HandlerError">>, error, attempt)
     IN  wire' = [headers |-> ErrorHeaders(failed), data |-> failed.data]
  /\ UNCHANGED <<day, sent, came, row, endpoint, attempt, envelope, waits, receipt, conversation>>

Next ==
  \/ \E draft \in Drafts, clock \in Clocks, place \in Places : Publish(draft, clock, place)
  \/ \E message \in Foreign : PublishForeign(message)
  \/ Dispatch
  \/ \E to \in Endpoints : Deliver(to)
  \/ Handle \/ \E clock \in Clocks : HandleWithPublish(clock)
  \/ ComesAgain \/ Retry
  \/ \E error \in Errors : GiveUp(error)

Spec == Init /\ [][Next]_vars

-------------------------------------------------------------------------------
(* The properties *)

\* The variables' types: above all, every envelope on the way keeps to the rules that its parts
\* are checked for when they are made (Source::new, MessageType::new, ContentType::new,
\* Extensions::insert, Timestamp's range), also after the database and the wire.
TypeOK ==
  /\ day \in FirstDay..LastDay
  /\ stage \in Stages
  /\ \A e \in {sent, envelope} \cup ToSet(conversation) : e # None => IsEnvelope(e)
  /\ came \in Foreign \cup {None}
  /\ endpoint \in Endpoints \cup {None}
  /\ attempt \in 0..MaxDeliveries
  /\ Len(conversation) <= MaxHops
  /\ \A i \in DOMAIN waits : waits[i][1] \in 1..attempt /\ waits[i][2] \in Nat

\* The day after a date, by the calendar's rules.
NextDate(date) ==
  IF date[3] < DaysInMonth(date[1], date[2]) THEN [date EXCEPT ![3] = @ + 1]
  ELSE IF date[2] < 12 THEN <<date[1], date[2] + 1, 1>> ELSE <<date[1] + 1, 1, 1>>

\* The conversions between days and dates (date_from_days, days_from_date) count the days as the
\* calendar does: 1970-01-01 is day zero, the next day's date is the next date, through leap
\* years, month ends and the days before 1970, and each conversion undoes the other.
CountsTheDays ==
  LET date == DateFromDays(day)
  IN  /\ IsDate(date)
      /\ DaysFromDate(date) = day
      /\ day = 0 => date = <<1970, 1, 1>>
      /\ day < LastDay => DateFromDays(day + 1) = NextDate(date)

\* The intervals of partitions (PartitionInterval::start and end) tile the days, so that a
\* table's partitions neither overlap nor leave a gap: a day is in its interval, an interval
\* starts on the day the one before it ends on, and nowhere else. The first week and the last
\* interval, which the range of Date cuts short, are left out: the code's first week, from
\* Saturday 0000-01-01, ends on the next Saturday.
IntervalsTile ==
  day - 7 > FirstDay /\ day + 31 <= LastDay =>
    \A interval \in Intervals :
      LET start == Start(interval, day)
          end == End(interval, day)
      IN  /\ start <= day /\ day < end
          /\ Start(interval, end) = end /\ Start(interval, end - 1) = start
          /\ (start = day) <=> (End(interval, day - 1) = day)

\* Offsets from UTC that a time may be written in.
Offsets == {[sign |-> 1, hour |-> 23, minute |-> 59], [sign |-> -1, hour |-> 7, minute |-> 0]}

\* The digits with more behind the ninth.
Padded(digits) ==
  [place \in 1..10 |-> IF place <= Len(digits) THEN digits[place] ELSE IF place = 10 THEN 9 ELSE 0]

\* A time as another client may write it at an offset.
WrittenAt(offset, time) ==
  LET there == time.second + offset.sign * (offset.hour * 3600 + offset.minute * 60)
      local == [day |-> time.day + there \div SecondsPerDay, second |-> there % SecondsPerDay,
                nanos |-> time.nanos]
      text == WriteTime(local)
  IN  [date |-> text.date, clock |-> text.clock, point |-> TRUE, digits |-> Padded(text.digits),
       offset |-> offset]

\* What Timestamp writes it reads back as the same time, and the same instant written at another
\* offset reads as that time too, whichever day the offset carries it over to; digits past the
\* ninth change nothing.
TimesReadBack ==
  \A clock \in Clocks :
    LET time == [day |-> day, second |-> clock[1], nanos |-> clock[2]]
        text == WriteTime(time)
    IN  /\ ReadsAsTime(text) /\ ReadTime(text) = time
        /\ \A offset \in Offsets :
             LET written == WrittenAt(offset, time)
             IN  written.date[1] \in Years => ReadsAsTime(written) /\ ReadTime(written) = time

\* The calendar, the partitions' intervals and the times of messages agree on every day, which is
\* the same through a journey.
CalendarAgrees == stage = "none" => CountsTheDays /\ IntervalsTile /\ TimesReadBack

\* Whether two attributes of this name say the same, in whatever spelling.
SaysTheSame(name, a, b) ==
  CASE name \in Ids \cup {"id"} -> IdOf(a) = IdOf(b)
    [] name = "time"            -> ReadTime(a[2]) = ReadTime(b[2])
    [] OTHER                    -> a = b

\* What an endpoint reads is what was published: the crates' own envelopes come through the
\* outbox and the headers whole and always read, and another client's keeps every attribute it
\* carries (docs/01-architecture.md:385-387), but for a tracestate without a traceparent.
ReadsWhatWasSent ==
  /\ stage = "aside" => came # None
  /\ stage = "received" /\ sent # None => envelope = sent
  /\ stage = "received" /\ came # None =>
       LET theirs == ReadHeaders(came.headers)
           ours == ToAttributes(envelope)
           lone == IF "traceparent" \in DOMAIN theirs THEN {} ELSE {"tracestate"}
       IN  /\ DOMAIN ours = DOMAIN theirs \ lone
           /\ \A name \in DOMAIN ours : SaysTheSame(name, ours[name], theirs[name])
           /\ envelope.data = came.data

\* An inbox receipt that keeps the data has the whole envelope, another producer's too
\* (docs/01-architecture.md:385-387).
ReceiptKeepsAll ==
  receipt # None =>
    LET attributes == RowAttributes(receipt)
    IN  Reads(attributes) /\ FromAttributes(attributes, receipt.data) = Last(conversation)

\* No message loses or changes anything between its publisher, the tables, the wire and the
\* endpoint (docs/01-architecture.md:385-387).
MessagesKeepWhole == ReadsWhatWasSent /\ ReceiptKeepsAll

\* A header never holds a line break, which would end it (transport.rs:110): an envelope with one
\* is refused, an error copy has a space instead.
NoBrokenHeader == wire # None => \A text \in Range(wire.headers) : ~HasLineBreak(text)

\* An error copy can be read and sent again as the message it was: it is an envelope with the
\* same attributes and data, without the Nats-Msg-Id the stream would drop it for, and with the
\* last delivery's failure, not an earlier one's that the message already carried.
ErrorCopyReads ==
  stage = "error" =>
    LET attributes == ReadHeaders(wire.headers)
        copy == FromAttributes(attributes, wire.data)
    IN  /\ MsgId \notin DOMAIN wire.headers
        /\ Reads(attributes)
        /\ [copy EXCEPT !.extensions = Without(@, ErrorNames)]
             = [envelope EXCEPT !.extensions = Without(@, ErrorNames)]
        /\ copy.extensions["errorendpoint"] = endpoint
        /\ copy.extensions["errorattempts"] = <<"number", attempt>>

\* A message that is no envelope goes to the error subject as it came
\* (docs/01-architecture.md:381-383): all its headers but Nats-Msg-Id, and its data.
AsideAsItCame ==
  stage = "aside" =>
    LET added == {Ce("errorendpoint"), Ce("errortype"), Ce("errormessage")}
    IN  /\ Without(wire.headers, added) = Without(came.headers, added \cup {MsgId})
        /\ added \subseteq DOMAIN wire.headers
        /\ wire.data = came.data

\* What lies on the error subject can be looked into and sent again: whole headers, the message
\* with its data, and the last failure (docs/01-architecture.md:381-383).
ErrorSubjectKeepsAll == NoBrokenHeader /\ ErrorCopyReads /\ AsideAsItCame

\* A handler's publishes belong to the conversation of the handled message, however many hops
\* through outboxes and headers it takes: each has the message before it as its cause, and the
\* first message's correlation id, or none, and trace.
OneConversation ==
  \A n \in 2..Len(conversation) :
    /\ conversation[n].causationId = conversation[n - 1].id
    /\ conversation[n].correlationId = conversation[1].correlationId
    /\ conversation[n].trace = conversation[1].trace

\* A delay doubled so many times.
Doubled(delay, times) ==
  LET doubled[n \in 0..times] == IF n = 0 THEN delay ELSE 2 * doubled[n - 1]
  IN  doubled[times]

\* The wait after attempt n is first_delay doubled n - 1 times, at most max_delay: a first delay
\* of zero stays zero, one above the maximum is cut, and doubling never overflows. So no wait of
\* a message is shorter than the one before.
WaitsDouble ==
  \A i \in DOMAIN waits :
    LET policy == Policy[endpoint]
    IN  /\ waits[i][2] = Lesser(Doubled(policy.first, waits[i][1] - 1), policy.max)
        /\ i > 1 => waits[i - 1][2] <= waits[i][2]
===============================================================================
