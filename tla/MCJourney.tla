------------------------------ MODULE MCJourney ------------------------------
(* A small instance of Journey for TLC. *)
EXTENDS Journey

\* A whole era of 400 years and the two ends of the range, and days around 1970.
MCDays == (FirstDay .. FirstDay + 146500) \cup (-400 .. 800) \cup (LastDay - 400 .. LastDay)
MCSendDays == {-1, LastDay}
MCClocks == {<<0, 0>>, <<86399, 999999990>>}

Placed == <<"type", <<"placed", "v1">>>>
Unknown == <<"type", <<"placed", "placed", "v1">>>>
Json == <<"media", <<"application/json", "as written">>>>
JsonWithParameters == <<"media", <<"application/json", "with parameters">>>>
Avro == <<"media", <<"application/avro", "as written">>>>
Word(word) == <<"word", word>>
Lines == <<"lines", "text">>
Phrase == <<"phrase", "text">>

Midnight == [day |-> 0, second |-> 0, nanos |-> 0]
Plain == Encode(1, Placed, Word("/orders"), Midnight, "good")
Traces == {None, [parent |-> Word("parent"), state |-> None],
           [parent |-> Word("parent"), state |-> Phrase]}
Rich == [Plain EXCEPT !.subject = Phrase, !.dataSchema = Word("schema"), !.partitionKey = Word("key"),
                      !.extensions = [tenant |-> Word("ours"), errorendpoint |-> Word("old"),
                                      errorattempts |-> Word("old")]]

MCDrafts ==
  {[draft EXCEPT !.correlationId = id, !.trace = trace, !.data = data] :
     draft \in {Plain, Rich}, id \in {None, 9}, trace \in Traces, data \in {"good", "broken"}}
  \cup {[Plain EXCEPT !.subject = Lines], [Plain EXCEPT !.type = Unknown],
        [Plain EXCEPT !.contentType = Avro], [Plain EXCEPT !.contentType = JsonWithParameters],
        [Rich EXCEPT !.causationId = 8, !.extensions = [tenant |-> Lines]]}

\* Another client's message that reads, and those with one attribute dropped, changed or added.
Noon(offset, digits) ==
  <<"time", [date |-> <<2000, 2, 29>>, clock |-> <<12, 0, 0>>, point |-> digits # <<>>,
             digits |-> digits, offset |-> offset]>>
Early == [sign |-> 1, hour |-> 23, minute |-> 59]
Late == [sign |-> -1, hour |-> 7, minute |-> 0]
Base == [specversion |-> Version, id |-> <<"UUID", 1>>, source |-> Word("/theirs"), type |-> Placed,
         time |-> Noon(Late, <<5, 0>>), datacontenttype |-> JsonWithParameters]

Changes ==
  {[specversion |-> Word("0.3")], [id |-> Word("seven")], [id |-> <<"uuid", 1>>],
   [source |-> Phrase], [source |-> <<"empty", "">>],
   [type |-> <<"type", <<"v1">>>>], [type |-> <<"type", <<"Placed", "v1">>>>],
   [type |-> <<"type", <<"placed", "", "v1">>>>], [type |-> <<"type", <<"v1", "placed">>>>],
   [datacontenttype |-> Phrase], [datacontenttype |-> <<"empty", "">>],
   [time |-> Word("noon")], [time |-> Noon(Early, <<>>)], [time |-> Noon(Utc, <<0, 0, 0, 0, 0, 0, 0, 0, 1, 9>>)],
   [time |-> <<"time", [Noon(Utc, <<>>)[2] EXCEPT !.date = <<1900, 2, 29>>]>>],
   [time |-> <<"time", [Noon(Utc, <<>>)[2] EXCEPT !.clock = <<23, 59, 60>>]>>],
   [time |-> <<"time", [Noon(Utc, <<>>)[2] EXCEPT !.point = TRUE]>>],
   [time |-> <<"time", [Noon(Early, <<>>)[2] EXCEPT !.date = <<0, 1, 1>>]>>],
   [time |-> <<"time", [Noon(Late, <<>>)[2] EXCEPT !.date = <<9999, 12, 31>>, !.clock = <<23, 0, 0>>]>>],
   [correlationid |-> <<"UUID", 9>>, causationid |-> <<"uuid", 8>>], [correlationid |-> Phrase],
   [traceparent |-> Word("parent"), tracestate |-> Phrase], [tracestate |-> Phrase],
   [subject |-> Phrase, dataschema |-> Word("schema"), partitionkey |-> <<"empty", "">>],
   [tenant |-> Word("theirs")], [tenant_id |-> Word("theirs")], [data |-> Word("theirs")],
   [errorendpoint |-> Word("old"), errortype |-> Word("old"), errormessage |-> Phrase,
    errorattempts |-> Word("old")]}

Spelled(prefix, attributes) ==
  [header \in {<<prefix, name>> : name \in DOMAIN attributes} |-> attributes[header[2]]]

MCForeign ==
  [headers : {Spelled("ce-", Without(Base, {name})) : name \in Required}
             \cup {Spelled("ce-", change @@ Base) : change \in Changes}
             \cup {Spelled("Ce-", change @@ Base) : change \in Changes}
             \cup {(MsgId :> <<"uuid", 1>>) @@ (<<"", "Other">> :> Phrase) @@ Spelled("ce-", Base),
                   (MsgId :> <<"uuid", 1>>) @@ (<<"", "Other">> :> Phrase)},
   data : {"good"}]

Billing == Word("billing")
Shipping == Word("shipping")
MCPolicy == (Billing :> [attempts |-> 3, first |-> 1, max |-> 3])
            @@ (Shipping :> [attempts |-> 0, first |-> 0, max |-> 7])
            @@ (Word("audit") :> [attempts |-> 4, first |-> 3, max |-> 7])
            @@ (Word("mail") :> [attempts |-> 4, first |-> 5, max |-> 2])
MCInboxes == {Billing}
MCHandled == {Placed}
MCErrors == {Phrase, Lines}

===============================================================================
