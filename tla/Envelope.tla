------------------------------- MODULE Envelope -------------------------------
(***************************************************************************)
(* The envelope (core/envelope.rs, core/message.rs) and the forms it takes *)
(* on its way: CloudEvents attributes, an outbox row and an inbox receipt  *)
(* (crates/postgres), NATS headers (crates/nats), the error copy and a     *)
(* handler's publish (crates/runtime).                                     *)
(*                                                                         *)
(* A text is a pair <<kind, content>>. The kinds are what the checks tell  *)
(* apart: "empty", "word" (no space), "phrase" (with spaces), "lines"      *)
(* (with a line break), and the texts that parse: "uuid" as the crates     *)
(* write one, "UUID" in another spelling, "type" with its levels, "time"   *)
(* with the fields of its RFC 3339 text, "media" with a media type and     *)
(* how it is spelled, "version" for `1.0`, and "number".                   *)
(***************************************************************************)
EXTENDS Calendar, Functions

CONSTANT None \* a field that isn't set

\* The type of what JsonCodec encodes.
JsonType == <<"media", <<"application/json", "as written">>>>

ASSUME NoneAssumption == None \notin Nat /\ None \notin {"uuid"} \X Nat /\ None # JsonType

-------------------------------------------------------------------------------
(* The checks of the attributes *)

HasLineBreak(text) == text[1] = "lines"
HasControlOrSpace(text) == text[1] \in {"phrase", "lines"}

IsSource(text) == text[1] # "empty" /\ ~HasControlOrSpace(text)
IsContentType(text) == text[1] # "empty" /\ ~HasLineBreak(text)

\* The levels of a message type: "placed" stands for every level of lowercase letters, digits
\* and `_`, "v1" for those that are a version too; "Placed" and the empty one are neither.
Versions == {"v1"}
Levels == {"placed"} \cup Versions

IsMessageType(text) ==
  /\ text[1] = "type"
  /\ Len(text[2]) >= 2
  /\ ToSet(text[2]) \subseteq Levels
  /\ Last(text[2]) \in Versions

\* MessageId reads any UUID and writes the hyphenated lowercase form.
IsId(text) == text[1] \in {"uuid", "UUID"}
IdOf(text) == text[2]
IdText(id) == <<"uuid", id>>

IsTimeText(text) == text[1] = "time" /\ ReadsAsTime(text[2])
TimeText(time) == <<"time", WriteTime(time)>>

\* A text whose kind says what it is.
IsText(text) ==
  /\ text # None
  /\ IsId(text) => IdOf(text) \in Nat
  /\ text[1] = "time" => IsWritten(text[2])

Version == <<"version", "1.0">>

Required == {"specversion", "id", "source", "type", "time", "datacontenttype"}
Ids == {"correlationid", "causationid"}
Fields == Required \cup Ids
          \cup {"subject", "dataschema", "partitionkey", "traceparent", "tracestate"}
Reserved == Fields \cup {"data"}

\* The names of at most 20 lowercase letters and digits that are used here.
ErrorNames == {"errorendpoint", "errortype", "errormessage", "errorattempts"}
PlainNames == ErrorNames \cup {"tenant"} \cup Reserved

\* Extensions::insert's check. Of other names, the code takes none.
IsExtension(name) == name \in PlainNames /\ name \notin Reserved

-------------------------------------------------------------------------------
(* The envelope and its attributes *)

EnvelopeFields == {"id", "type", "source", "time", "subject", "contentType", "dataSchema",
                   "partitionKey", "correlationId", "causationId", "trace", "extensions", "data"}

\* What the types of an envelope's fields allow.
IsEnvelope(e) ==
  /\ e = [field \in EnvelopeFields |-> e[field]]
  /\ e.id \in Nat
  /\ IsMessageType(e.type) /\ IsSource(e.source) /\ IsContentType(e.contentType)
  /\ None \notin {e.type, e.source, e.contentType}
  /\ IsTime(e.time) /\ e.time = [field \in {"day", "second", "nanos"} |-> e.time[field]]
  /\ e.correlationId \in Nat \cup {None} /\ e.causationId \in Nat \cup {None}
  /\ e.trace # None => e.trace.parent # None
                       /\ e.trace = [field \in {"parent", "state"} |-> e.trace[field]]
  /\ e.extensions = [name \in DOMAIN e.extensions |-> e.extensions[name]]
  /\ \A name \in DOMAIN e.extensions : IsExtension(name)

\* The entries of f, and those of g for other names.
Over(f, g) == [name \in DOMAIN f \cup DOMAIN g |-> IF name \in DOMAIN f THEN f[name] ELSE g[name]]
Without(f, names) == Restrict(f, DOMAIN f \ names)
Present(f) == Restrict(f, {name \in DOMAIN f : f[name] # None})

\* The text of an optional id.
OptionalText(id) == IF id = None THEN None ELSE IdText(id)

ToAttributes(envelope) ==
  LET optional == [subject |-> envelope.subject,
                   dataschema |-> envelope.dataSchema,
                   partitionkey |-> envelope.partitionKey,
                   correlationid |-> OptionalText(envelope.correlationId),
                   causationid |-> OptionalText(envelope.causationId),
                   traceparent |-> IF envelope.trace = None THEN None ELSE envelope.trace.parent,
                   tracestate |-> IF envelope.trace = None THEN None ELSE envelope.trace.state]
      required == [specversion |-> Version,
                   id |-> IdText(envelope.id),
                   source |-> envelope.source,
                   type |-> envelope.type,
                   time |-> TimeText(envelope.time),
                   datacontenttype |-> envelope.contentType]
  IN  Over(envelope.extensions, Over(Present(optional), required))

\* Slip: the source is taken unchecked.
ReadsAnySource(attributes) ==
  /\ Required \subseteq DOMAIN attributes
  /\ attributes["specversion"] = Version
  /\ IsId(attributes["id"])
  /\ IsMessageType(attributes["type"])
  /\ IsTimeText(attributes["time"])
  /\ IsContentType(attributes["datacontenttype"])
  /\ \A name \in Ids \cap DOMAIN attributes : IsId(attributes[name])
  /\ \A name \in DOMAIN attributes \ Fields : IsExtension(name)

\* Whether from_attributes takes the attributes.
Reads(attributes) ==
  /\ Required \subseteq DOMAIN attributes
  /\ attributes["specversion"] = Version
  /\ IsId(attributes["id"])
  /\ IsSource(attributes["source"])
  /\ IsMessageType(attributes["type"])
  /\ IsTimeText(attributes["time"])
  /\ IsContentType(attributes["datacontenttype"])
  /\ \A name \in Ids \cap DOMAIN attributes : IsId(attributes[name])
  /\ \A name \in DOMAIN attributes \ Fields : IsExtension(name)

\* A tracestate without a traceparent is dropped.
TraceOf(parent, state) == IF parent = None THEN None ELSE [parent |-> parent, state |-> state]

\* The envelope from_attributes makes of attributes it takes.
FromAttributes(attributes, data) ==
  LET Optional(name) == IF name \in DOMAIN attributes THEN attributes[name] ELSE None
      OptionalId(name) == IF Optional(name) = None THEN None ELSE IdOf(Optional(name))
  IN  [id |-> IdOf(attributes["id"]),
       type |-> attributes["type"],
       source |-> attributes["source"],
       time |-> ReadTime(attributes["time"][2]),
       subject |-> Optional("subject"),
       contentType |-> attributes["datacontenttype"],
       dataSchema |-> Optional("dataschema"),
       partitionKey |-> Optional("partitionkey"),
       correlationId |-> OptionalId("correlationid"),
       causationId |-> OptionalId("causationid"),
       trace |-> TraceOf(Optional("traceparent"), Optional("tracestate")),
       extensions |-> Without(attributes, Fields),
       data |-> data]

-------------------------------------------------------------------------------
(* In the database: a row's columns and its other attributes *)

\* The attributes that have a column, so `attributes` doesn't repeat them.
OutboxColumns == {"specversion", "id", "type", "source", "subject", "partitionkey",
                  "datacontenttype", "dataschema"}

\* Slip: the causation id is taken for a column like the correlation id.
InboxColumnsBothIds == {"specversion", "id", "type", "source", "correlationid", "causationid"}

InboxColumns == {"specversion", "id", "type", "source", "correlationid"}

\* A row of outbox_messages as insert writes it: the columns that are set, the other attributes
\* and the data.
OutboxRow(envelope) ==
  [columns |-> Present([id |-> IdText(envelope.id), type |-> envelope.type,
                        source |-> envelope.source, subject |-> envelope.subject,
                        partitionkey |-> envelope.partitionKey,
                        datacontenttype |-> envelope.contentType,
                        dataschema |-> envelope.dataSchema]),
   attributes |-> Without(ToAttributes(envelope), OutboxColumns),
   data |-> envelope.data]

\* The attributes that record puts a claimed row back together from.
RowAttributes(row) == Over(row.columns, Over([specversion |-> Version], row.attributes))

\* A row of inbox_receipts as record writes it, with the data kept only on a keep_data inbox.
Receipt(envelope, keepData) ==
  [columns |-> Present([id |-> IdText(envelope.id), type |-> envelope.type,
                        source |-> envelope.source,
                        correlationid |-> OptionalText(envelope.correlationId)]),
   attributes |-> Without(ToAttributes(envelope), InboxColumns),
   data |-> IF keepData THEN envelope.data ELSE None]

-------------------------------------------------------------------------------
(* On NATS: a header is named by the spelling of its prefix, "ce-" or "Ce-" as other clients    *)
(* may write it, or "" without one, and the rest of its name.                                   *)

MsgId == <<"", "Nats-Msg-Id">>
Ce(name) == <<"ce-", name>>

Prefixed(attributes) == [header \in {Ce(name) : name \in DOMAIN attributes} |->
                           attributes[header[2]]]

\* The headers of an envelope, which a value with a line break can't be in.
WritesHeaders(envelope) == \A text \in Range(ToAttributes(envelope)) : ~HasLineBreak(text)
Headers(envelope) ==
  Over([header \in {MsgId} |-> IdText(envelope.id)], Prefixed(ToAttributes(envelope)))

\* one_line: a line break becomes a space.
OneLine(text) == IF HasLineBreak(text) THEN <<"phrase", text[2]>> ELSE text

\* The headers of an envelope on the error subject.
ErrorHeaders(envelope) ==
  LET headers == Prefixed(ToAttributes(envelope))
  IN  [header \in DOMAIN headers |-> OneLine(headers[header])]

\* The headers set_aside copies and adds.
AsideHeaders(headers, endpoint, error) ==
  Over(Prefixed([errorendpoint |-> endpoint, errortype |-> <<"word", "invalid_envelope">>,
                 errormessage |-> OneLine(error)]),
       Without(headers, {MsgId}))

\* The attributes that NatsDelivery::read finds in headers.
ReadHeaders(headers) ==
  LET ours == {header \in DOMAIN headers : header[1] \in {"ce-", "Ce-"}}
  IN  [name \in {header[2] : header \in ours} |->
         headers[CHOOSE header \in ours : header[2] = name]]

-------------------------------------------------------------------------------
(* In an endpoint *)

\* Slip: an earlier failure the envelope carries stays.
ErrorEnvelopeFirst(envelope, endpoint, type, message, attempt) ==
  [envelope EXCEPT !.extensions =
     Over(@, [errorendpoint |-> endpoint, errortype |-> type, errormessage |-> message,
              errorattempts |-> <<"number", attempt>>])]

\* What handling gave up on: the envelope with the error's extensions, whatever it had of them.
ErrorEnvelope(envelope, endpoint, type, message, attempt) ==
  [envelope EXCEPT !.extensions =
     Over([errorendpoint |-> endpoint, errortype |-> type, errormessage |-> message,
           errorattempts |-> <<"number", attempt>>], @)]

\* encode: a new envelope for a message.
Encode(id, type, source, time, data) ==
  [id |-> id, type |-> type, source |-> source, time |-> time, subject |-> None,
   contentType |-> JsonType, dataSchema |-> None,
   partitionKey |-> None, correlationId |-> None, causationId |-> None, trace |-> None,
   extensions |-> <<>>, data |-> data]

\* Slip: a message without a correlation id starts a conversation of its own.
TiedToCause(envelope, handled) ==
  [envelope EXCEPT !.correlationId = IF handled.correlationId = None THEN handled.id
                                                                    ELSE handled.correlationId,
                   !.causationId = handled.id, !.trace = handled.trace]

\* HandlerContext::publish ties a handler's message to the handled one.
Tied(envelope, handled) ==
  [envelope EXCEPT !.correlationId = handled.correlationId,
                   !.causationId = handled.id,
                   !.trace = handled.trace]

\* JsonCodec::can_decode: the media type, whatever its case and parameters.
CanDecode(contentType) == contentType[1] = "media" /\ contentType[2][1] = "application/json"

===============================================================================
