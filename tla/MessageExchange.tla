--------------------------- MODULE MessageExchange ---------------------------
(***************************************************************************)
(* The parameters of a channel, from the application's typed header over   *)
(* the text of the message to the typed header of the server and back:     *)
(* SET-PARAMS, GET-PARAMS and the request that inherits them (SPEAK,       *)
(* RECOGNIZE, RECORD; *_request_set_params, *_response_get_params and      *)
(* mrcp_header_fields_inherit of libs/mrcp-engine/src/mrcp_*_state_-       *)
(* machine.c).  One step is one transaction: the state machine takes the   *)
(* requests of a channel one at a time.                                    *)
(***************************************************************************)
EXTENDS Integers, Sequences, HeaderFields

(***************************************************************************)
(* The start line of an MRCP message                                       *)
(* (libs/mrcp/message/src/mrcp_start_line.c): what is written for a        *)
(* request, response or event of either version, what is read from it, and *)
(* the length MRCPv2 declares, which counts its own digits.                *)
(* A line is a sequence of fields [num, word].                             *)
(***************************************************************************)

MAX_DIGIT_COUNT == 6

Word(w) == [num |-> -1, word |-> w]
Num(n) == [num |-> n, word |-> ""]

VersionWord(version) == IF version = 1 THEN "MRCP/1.0" ELSE "MRCP/2.0"

States == {"COMPLETE", "IN-PROGRESS", "PENDING"}

(* A field of a line that is not there ends the parsing with an error.     *)
Field(line, i) == IF i <= Len(line) THEN line[i] ELSE Word("")

mrcp_request_id_parse(f) == IF f.num = -1 THEN 0 ELSE f.num
mrcp_request_state_parse(f) == IF f.word \in States THEN f.word ELSE "UNKNOWN"

Line(version, type, id, method, status, state) ==
    [version |-> version, type |-> type, request_id |-> id, method |-> method,
     status |-> status, state |-> state]

Invalid == Line(0, "UNKNOWN", 0, "", 0, "UNKNOWN")

StateField(state) == IF state \in States THEN <<Word(state)>> ELSE <<>>

mrcp_request_line_generate(l) ==
    <<Word(l.method), Num(l.request_id)>>
    \o (IF l.type = "REQUEST" /\ l.status # 0 THEN <<Num(l.status)>> ELSE <<>>)
    \o (IF l.type = "EVENT" THEN StateField(l.state) ELSE <<>>)
    \o <<Word(VersionWord(l.version))>>

mrcp_response_line_generate(l) ==
    <<Word(VersionWord(l.version)), Num(l.request_id), Num(l.status)>> \o StateField(l.state)

mrcp_v2_start_line_generate(l, length) ==
    <<Word(VersionWord(2)), Num(length)>> \o
    CASE l.type = "RESPONSE" -> <<Num(l.request_id), Num(l.status)>> \o StateField(l.state)
      [] l.type = "REQUEST" -> <<Word(l.method), Num(l.request_id)>>
      [] l.type = "EVENT" -> <<Word(l.method), Num(l.request_id)>> \o StateField(l.state)

mrcp_start_line_generate(l, length) ==
    CASE l.version = 2 -> mrcp_v2_start_line_generate(l, length)
      [] l.version = 1 /\ l.type = "RESPONSE" -> mrcp_response_line_generate(l)
      [] l.version = 1 /\ l.type # "RESPONSE" -> mrcp_request_line_generate(l)

mrcp_request_line_parse(line) ==
    LET state == mrcp_request_state_parse(Field(line, 3))
        event == state # "UNKNOWN"
        version == Field(line, IF event THEN 4 ELSE 3)
    IN  IF Len(line) < 3 \/ version.word \notin {VersionWord(1), VersionWord(2)} THEN Invalid
        ELSE Line(IF version.word = VersionWord(1) THEN 1 ELSE 2, IF event THEN "EVENT" ELSE "REQUEST", mrcp_request_id_parse(line[2]),
                  line[1].word, 0, state)

mrcp_response_line_parse(line) ==
    IF Len(line) < 4 THEN Invalid
    ELSE Line(1, "RESPONSE", mrcp_request_id_parse(line[2]), "", line[3].num,
              mrcp_request_state_parse(line[4]))

(* The third field is a method when it is not a number.                    *)
mrcp_v2_start_line_parse(line) ==
    LET numeric == Field(line, 3).num # -1
    IN  CASE numeric /\ Len(line) >= 5 ->
                 Line(2, "RESPONSE", line[3].num, "", line[4].num, mrcp_request_state_parse(line[5]))
          [] ~numeric /\ Len(line) >= 5 ->
                 Line(2, "EVENT", mrcp_request_id_parse(line[4]), line[3].word, 0,
                      mrcp_request_state_parse(line[5]))
          [] ~numeric /\ Len(line) = 4 ->
                 Line(2, "REQUEST", mrcp_request_id_parse(line[4]), line[3].word, 0, "UNKNOWN")
          [] OTHER -> Invalid

mrcp_start_line_parse(line) ==
    CASE Field(line, 1).word = VersionWord(2) -> mrcp_v2_start_line_parse(line)
      [] Field(line, 1).word = VersionWord(1) -> mrcp_response_line_parse(line)
      [] OTHER -> mrcp_request_line_parse(line)

-----------------------------------------------------------------------------
(* What a response and an event take from the request.                     *)

mrcp_response_create(request) ==
    Line(request.version, "RESPONSE", request.request_id, request.method, 200, "COMPLETE")

mrcp_event_create(request, event) ==
    Line(request.version, "EVENT", request.request_id, event, 0, "UNKNOWN")

-----------------------------------------------------------------------------
(* The length is written over the place of its digits once the header is   *)
(* complete; size is the length of the message without those digits.       *)

DigitCount(n) == CASE n < 10 -> 1 [] n >= 10 /\ n < 100 -> 2 [] n >= 100 /\ n < 1000 -> 3
                   [] n >= 1000 /\ n < 10000 -> 4 [] n >= 10000 /\ n < 100000 -> 5
                   [] n >= 100000 /\ n < 1000000 -> 6 [] OTHER -> 7

apt_var_length_value_generate(value, max_count) ==
    LET digits == DigitCount(value)
        bounds == 10 ^ digits
        count == IF value >= bounds - digits THEN digits + 1 ELSE digits
    IN  [ok |-> count <= max_count, value |-> value + count]

mrcp_start_line_finalize(size) == apt_var_length_value_generate(size, MAX_DIGIT_COUNT)

-----------------------------------------------------------------------------

CONSTANTS
    Subjects,    \* the fields looked at, [resource, version, name]
    Companion, CompanionValue,  \* a field sent beside each of them, and its value
    Values,      \* Values[kind]: the typed values the application sets
    Sizes,       \* sizes of messages without the digits of their length
    MaxExchanges

VARIABLES
    resource, version,
    names,       \* the fields of this behaviour
    properties,  \* the header the state machine keeps
    exchanged,   \* the last transaction: [method, set, request, line, reply, reply_line, event_line]
    wanted,      \* what the application last set, by name
    count

exchangeVars == <<resource, version, names, properties, exchanged, wanted, count>>

Resource == [name |-> resource, version |-> version]

(* The kind of value a field takes.                                        *)
KindOf(n) ==
    CASE n \notin ResourceNames(Resource) /\ n \in DOMAIN GenericFields -> GenericFields[n]
      [] n \in ResourceNames(Resource) /\ resource = "synth" -> SynthFields[n]
      [] n \in ResourceNames(Resource) /\ resource = "recog" -> RecogFields(version)[n]
      [] n \in ResourceNames(Resource) /\ resource = "verifier" -> VerifierFields[n]
      [] n \in ResourceNames(Resource) /\ resource = "recorder" -> RecorderFields[n]
      [] OTHER -> "unknown"

NoExchange == [method |-> "", set |-> <<>>, request |-> EmptyHeader({}), line |-> Invalid,
               reply |-> EmptyHeader({}), reply_line |-> Invalid, event_line |-> Invalid]

ExchangeInit ==
    /\ \E s \in Subjects :
        /\ resource = s.resource /\ version = s.version
        /\ names = {s.name, Companion}
    /\ properties = EmptyHeader(names)
    /\ exchanged = NoExchange
    /\ wanted = [n \in names |-> Unset]
    /\ count = 0

(* The typed values the application may give the fields in a request.      *)
Settings ==
    LET own == {<<>>} \cup UNION {{n :> v : v \in Values[KindOf(n)]} : n \in names \ {Companion}}
    IN  own \cup {set @@ (Companion :> CompanionValue) : set \in own}

(* mrcp_request_create and the properties added to it, generated, and      *)
(* parsed by the peer.                                                     *)
Built(set) ==
    FoldLeft(LAMBDA h, n : header_property_add(h, Resource, n, set[n]), EmptyHeader(names),
             SetToSeq(DOMAIN set))

NamesOnly(mask) ==
    [EmptyHeader(names) EXCEPT !.fields = [i \in DOMAIN SetToSeq(mask) |->
        [name |-> SetToSeq(mask)[i], text |-> NoText]]]

Sent(header) == mrcp_header_fields_parse(header.fields, names, Resource)

Transaction(method, set, request, reply) ==
    LET id == count
        l == Line(version, "REQUEST", id, method, 0, "UNKNOWN")
        received == mrcp_start_line_parse(mrcp_start_line_generate(l, 0))
        response == mrcp_response_create(received)
        event == [mrcp_event_create(received, "DONE") EXCEPT !.state = "COMPLETE"]
    IN  exchanged' = [method |-> method, set |-> set, request |-> request, line |-> received,
                      reply |-> Sent(reply),
                      reply_line |-> mrcp_start_line_parse(mrcp_start_line_generate(response, 0)),
                      event_line |-> mrcp_start_line_parse(mrcp_start_line_generate(event, 0))]

request_set_params(set) ==
    LET request == Sent(Built(set))
    IN  /\ properties' = mrcp_header_fields_set(properties, request, Resource)
        /\ wanted' = [n \in names |-> IF n \in DOMAIN set THEN set[n] ELSE wanted[n]]
        /\ Transaction("SET-PARAMS", set, request, EmptyHeader(names))

response_get_params(mask) ==
    LET request == Sent(NamesOnly(mask))
        reply == mrcp_header_fields_get(EmptyHeader(names), properties, request, Resource)
    IN  /\ Transaction("GET-PARAMS", [n \in mask |-> Unset], request, reply)
        /\ UNCHANGED <<properties, wanted>>

request_inherit(set) ==
    LET request == mrcp_header_fields_inherit(Sent(Built(set)), properties, Resource)
    IN  /\ Transaction("SPEAK", set, request, EmptyHeader(names))
        /\ UNCHANGED <<properties, wanted>>

ExchangeNext ==
    /\ count < MaxExchanges
    /\ count' = count + 1
    /\ UNCHANGED <<resource, version, names>>
    /\ \/ \E set \in Settings : request_set_params(set)
       \/ \E mask \in SUBSET names : response_get_params(mask)
       \/ \E set \in Settings : request_inherit(set)

-----------------------------------------------------------------------------
(* What the peer reads of a value.  A positive change of the volume is     *)
(* written without its sign (mrcp_prosody_volume_generate) and read as an  *)
(* absolute volume; a negative change of the rate is read as a label, and  *)
(* as one that is in no table (mrcp_prosody_param_rate_parse).             *)
ReadAs(kind, v) ==
    CASE kind = "volume" /\ v.type = "relative" /\ v.num >= 0 -> Typed("numeric", v.num, "")
      [] kind = "rate" /\ v.type = "relative" /\ v.num < 0 -> Typed("label", None, "none")
      [] OTHER -> v

(* GET-PARAMS returns, for every field it names, the value the last        *)
(* SET-PARAMS gave it - as the application that asks reads it after two    *)
(* conversions to text - and the bare name of a field never set.  The two  *)
(* relative values of ReadAs come back as another kind of value.           *)
GetReturnsLastSet ==
    exchanged.method = "GET-PARAMS" =>
        \A n \in DOMAIN exchanged.set :
            /\ Has(exchanged.reply, n)
            /\ Known(Resource, n) => exchanged.reply.data[n] = ReadAs(KindOf(n), wanted[n])

(* A request runs with its own value of a field, else with the value last  *)
(* set by SET-PARAMS, and its text and its typed header say the same.      *)
(* Excepted is a list of request identifiers that SET-PARAMS carried: the  *)
(* text of the request has it, its typed header has not                    *)
(* (mrcp_generic_header_duplicate).                                        *)
RequestObeysParams ==
    exchanged.method = "SPEAK" =>
        \A n \in names :
            LET own == n \in DOMAIN exchanged.set
            IN  Known(Resource, n) /\ (own \/ KindOf(n) # "ids") =>
                  /\ exchanged.request.data[n] =
                        ReadAs(KindOf(n), IF own THEN exchanged.set[n] ELSE wanted[n])
                  /\ Has(exchanged.request, n) =>
                       mrcp_header_field_value_parse(Resource, n, TextOf(exchanged.request, n), Unset)
                           = exchanged.request.data[n]

(* Both ends read the same start line: the response and the event name the *)
(* request they are about (request identifier 0 included), and the length MRCPv2 declares *)
(* is the number of bytes of the message with its own digits.              *)
StartLineExact ==
    exchanged.method # "" =>
        /\ exchanged.line.type = "REQUEST" /\ exchanged.line.method = exchanged.method
        /\ exchanged.reply_line.type = "RESPONSE"
        /\ exchanged.reply_line.request_id = count - 1
        /\ exchanged.reply_line.status = 200 /\ exchanged.reply_line.state = "COMPLETE"
        /\ exchanged.event_line.type = "EVENT" /\ exchanged.event_line.method = "DONE"
        /\ exchanged.event_line.request_id = count - 1
        /\ exchanged.event_line.state = "COMPLETE"
        /\ \A size \in Sizes : LET length == mrcp_start_line_finalize(size) IN
             length.ok => length.value = size + DigitCount(length.value)

=============================================================================
