---------------------------- MODULE MessageStream ----------------------------
(***************************************************************************)
(* A connection that carries text messages: one side generates them into   *)
(* its transmit buffer, TCP delivers the text in pieces cut anywhere, the  *)
(* other side parses what it has received so far                           *)
(* (mrcp_server_poller_signal_process and mrcp_server_agent_messsage_send  *)
(* of libs/mrcpv2-transport/src/mrcp_server_connection.c; the RTSP agents  *)
(* do the same).  Besides this generator, a peer of another make may send  *)
(* texts of its own: lines that end in LF, folded or malformed fields,     *)
(* messages that are not valid.                                            *)
(***************************************************************************)
EXTENDS Naturals, Sequences, SequencesExt

(***************************************************************************)
(* How a text message is put on a stream and taken from it again           *)
(* (libs/apr-toolkit/src/apt_text_stream.c, apt_text_message.c) with the   *)
(* handlers of the two protocols that use it, MRCPv2                       *)
(* (libs/mrcp/control/src/mrcp_stream.c) and RTSP                          *)
(* (libs/uni-rtsp/src/rtsp_stream.c).                                      *)
(*                                                                         *)
(* A text is a sequence of tokens: "CR", "LF", "SP", ":" and words.  A     *)
(* receive may end between any two tokens.  A position in a text is the    *)
(* index of the next token; the end of the stream is Len(text) + 1.        *)
(***************************************************************************)

CONSTANTS
    StartLines, \* the words that are valid start lines
    Methods,    \* those whose method the resource knows
    Resources   \* the words the resource factory finds a resource for

CRLF == <<"CR", "LF">>

IsWsp(token) == token = "SP"

Content == [value \in {"len1", "len2", "len3"} |->
              CASE value = "len1" -> 1 [] value = "len2" -> 2 [] value = "len3" -> 3]

-----------------------------------------------------------------------------
(* Reading lines and header fields                                         *)

FirstFrom(text, p, tokens) ==
    LET found == {i \in p..Len(text) : text[i] \in tokens}
    IN  IF found = {} THEN 0 ELSE CHOOSE i \in found : \A j \in found : i <= j

AfterEol(text, i) ==
    IF text[i] = "CR" /\ i < Len(text) /\ text[i + 1] = "LF" THEN i + 2 ELSE i + 1

AfterSpaces(text, p) ==
    CHOOSE q \in p..(Len(text) + 1) :
        /\ \A i \in p..(q - 1) : IsWsp(text[i])
        /\ q = Len(text) + 1 \/ ~IsWsp(text[q])

(* A line that has no end yet is left where it is and sets is_eos.         *)
apt_text_line_read(text, p) ==
    LET i == FirstFrom(text, p, {"CR", "LF"})
    IN  IF i = 0 THEN [ok |-> FALSE, line |-> <<>>, pos |-> p, eos |-> TRUE]
        ELSE [ok |-> TRUE, line |-> SubSeq(text, p, i - 1), pos |-> AfterEol(text, i), eos |-> FALSE]

(* The name ends at the first colon after its first character, the value   *)
(* starts after the spaces that follow; a line of spaces is the empty      *)
(* header, one without a colon is malformed.                               *)
NameValue(r, line, colon) ==
        [ok |-> r.ok /\ (line = <<>> \/ colon # 0), pos |-> r.pos, eos |-> r.eos,
         name |-> IF colon = 0 THEN <<>> ELSE SubSeq(line, 1, colon - 1),
         value |-> IF colon = 0 THEN <<>>
                   ELSE SubSeq(line, AfterSpaces(line, colon + 1), Len(line))]

Unindented(line) == SubSeq(line, AfterSpaces(line, 1), Len(line))

HeaderOf(r, line) == NameValue(r, line, FirstFrom(line, 2, {":"}))

FromLine(r) == HeaderOf(r, Unindented(r.line))

apt_text_header_read(text, p) == FromLine(apt_text_line_read(text, p))

(* Lines that begin with a space continue the value, as far as they are    *)
(* in this part of the stream.                                             *)
Continued(r, l) == [r EXCEPT !.pos = l.pos, !.eos = @ \/ l.eos, !.value = @ \o l.line]

RECURSIVE Folded(_, _)
Folded(text, r) ==
    IF r.pos > Len(text) THEN r
    ELSE IF ~IsWsp(text[r.pos]) THEN r
    ELSE Folded(text, Continued(r, apt_text_line_read(text, AfterSpaces(text, r.pos))))

WithFolds(text, r) == IF r.ok /\ r.name # <<>> THEN Folded(text, r) ELSE r

apt_header_field_parse(text, p) == WithFolds(text, apt_text_header_read(text, p))

apt_text_is_eos(text, r) == r.pos > Len(text) \/ r.eos

(* Fields are added until the empty one; a malformed one is passed over.   *)
RECURSIVE FieldRead(_, _, _)
FieldRead(text, f, header) ==
    LET fields == IF f.ok /\ f.name # <<>>
                  THEN Append(header, [name |-> f.name, value |-> f.value]) ELSE header
    IN  IF (f.ok /\ f.name = <<>>) \/ apt_text_is_eos(text, f)
        THEN [ok |-> f.ok /\ f.name = <<>>, pos |-> f.pos, eos |-> f.eos, header |-> fields]
        ELSE FieldRead(text, apt_header_field_parse(text, f.pos), fields)

apt_header_section_parse(text, p, header) == FieldRead(text, apt_header_field_parse(text, p), header)

-----------------------------------------------------------------------------
(* The handlers of the protocols.  An MRCPv2 message must name a known     *)
(* resource in its channel identifier, which is taken out of the header,   *)
(* and a method of the resource.  Of several content lengths the last      *)
(* counts: the fields are parsed in turn.                                  *)

FieldOf(header, name) == SelectSeq(header, LAMBDA f : f.name = <<name>>)

mrcp_parser_on_start(line) == Len(line) = 1 /\ line[1] \in StartLines

rtsp_parser_on_start(line) == Len(line) = 1 /\ line[1] \in StartLines

mrcp_channel_id_parse(header) ==
    LET found == {i \in 1..Len(header) : header[i].name = <<"Channel">> /\ header[i].value # <<>>}
    IN  IF found = {} THEN [ok |-> FALSE, id |-> <<>>, header |-> header]
        ELSE LET i == CHOOSE i \in found : \A j \in found : i <= j
             IN  [ok |-> TRUE, id |-> header[i].value, header |-> RemoveAt(header, i)]

ContentLength(header) ==
    LET f == SelectSeq(FieldOf(header, "Length"), LAMBDA g : g.value # <<>>)
    IN  IF f = <<>> THEN 0
        ELSE IF Last(f).value[1] \in DOMAIN Content THEN Content[Last(f).value[1]] ELSE 0

WithChannel(m, c) ==
        [ok |-> c.ok /\ c.id[1] \in Resources /\ m.start[1] \in Methods,
         length |-> ContentLength(c.header),
         message |-> [m EXCEPT !.header = c.header, !.channel = c.id]]

mrcp_parser_on_header_complete(m) == WithChannel(m, mrcp_channel_id_parse(m.header))

rtsp_parser_on_header_complete(m) ==
    [ok |-> TRUE, length |-> ContentLength(m.header), message |-> m]

on_header_complete(m) ==
    IF m.protocol = "mrcp" THEN mrcp_parser_on_header_complete(m) ELSE rtsp_parser_on_header_complete(m)

-----------------------------------------------------------------------------
(* The parser: [stage, skip_lf, content_length, message]; it goes on where *)
(* it stopped when more of the stream is there.                            *)

apt_message_parser_create ==
    [stage |-> "START_LINE", skip_lf |-> FALSE, content_length |-> 0, message |-> <<>>]

message_create(protocol, line) ==
    [protocol |-> protocol, start |-> line, channel |-> <<>>, header |-> <<>>, body |-> <<>>]

apt_crlf_segmentation_test_none(parser, text, p) == parser

apt_crlf_segmentation_test(parser, text, p) ==
    [parser EXCEPT !.skip_lf = @ \/ (p = Len(text) + 1 /\ p > 1 /\ text[p - 1] = "CR")]

Outcome(parser, p, eos, status) == [parser |-> parser, pos |-> p, eos |-> eos, status |-> status]

apt_message_body_read(parser, text, p, eos) ==
    LET required == parser.content_length - Len(parser.message.body)
        length == IF required > Len(text) + 1 - p THEN Len(text) + 1 - p ELSE required
        read == [parser EXCEPT !.message.body = @ \o SubSeq(text, p, p + length - 1)]
    IN  IF length < required THEN Outcome(read, p + length, eos, "INCOMPLETE")
        ELSE Outcome([read EXCEPT !.stage = "START_LINE"], p + length, eos, "COMPLETE")

(* s is what was read of the header, h what the protocol's handler says.   *)
HeaderHandled(parser, text, s, h) ==
    LET taken == [parser EXCEPT !.message = h.message]
    IN  CASE ~h.ok -> Outcome(taken, s.pos, s.eos, "INVALID")
          [] h.ok /\ h.length = 0 ->
                Outcome([taken EXCEPT !.stage = "START_LINE"], s.pos, s.eos, "COMPLETE")
          [] h.ok /\ h.length # 0 ->
                apt_message_body_read([taken EXCEPT !.stage = "BODY", !.content_length = h.length],
                                      text, s.pos, s.eos)

HeaderTested(parser, text, s) ==
    IF s.ok THEN HeaderHandled(parser, text, s, on_header_complete(parser.message))
    ELSE Outcome(parser, s.pos, s.eos, "INCOMPLETE")

HeaderRead(parser, text, s) ==
    HeaderTested(apt_crlf_segmentation_test([parser EXCEPT !.message.header = s.header], text, s.pos), text, s)

HeaderStage(parser, text, p) ==
    HeaderRead(parser, text, apt_header_section_parse(text, p, parser.message.header))

StartStage(protocol, parser, text, r) ==
    CASE ~r.ok -> Outcome(parser, r.pos, TRUE, "INCOMPLETE")
      [] r.ok /\ ~(IF protocol = "mrcp" THEN mrcp_parser_on_start(r.line) ELSE rtsp_parser_on_start(r.line)) ->
            Outcome(parser, r.pos, FALSE, IF r.pos > Len(text) THEN "INCOMPLETE" ELSE "INVALID")
      [] OTHER ->
            HeaderStage(apt_crlf_segmentation_test(
                            [parser EXCEPT !.stage = "HEADER", !.message = message_create(protocol, r.line)],
                            text, r.pos), text, r.pos)

RunFrom(protocol, parser, text, p) ==
    CASE parser.stage = "START_LINE" -> StartStage(protocol, parser, text, apt_text_line_read(text, p))
      [] parser.stage = "HEADER" -> HeaderStage(parser, text, p)
      [] parser.stage = "BODY" -> apt_message_body_read(parser, text, p, FALSE)

apt_message_parser_run(protocol, parser, text, p) ==
    RunFrom(protocol, [parser EXCEPT !.skip_lf = FALSE], text,
            IF parser.skip_lf /\ p <= Len(text) /\ text[p] = "LF" THEN p + 1 ELSE p)

-----------------------------------------------------------------------------
(* The generator.  Every insertion leaves one place of the buffer free.  A *)
(* header field that does not fit is left out, and apt_header_section_-    *)
(* generate does not look at the result.                                   *)

apt_text_eol_insert(text, size) ==
    IF Len(text) + 2 < size THEN [ok |-> TRUE, text |-> text \o CRLF] ELSE [ok |-> FALSE, text |-> text]

apt_text_name_value_insert(text, name, value, size) ==
    IF Len(text) + Len(name) + Len(value) + 2 >= size THEN [ok |-> FALSE, text |-> text]
    ELSE apt_text_eol_insert(text \o name \o <<":", "SP">> \o value, size)

apt_header_section_generate(text, header, size) ==
    apt_text_eol_insert(
        FoldLeft(LAMBDA t, f : apt_text_name_value_insert(t, f.name, f.value, size).text, text, header),
        size)

(* mrcp_message_validate adds a missing content length.                    *)
mrcp_message_validate(m) ==
    IF m.body # <<>> /\ FieldOf(m.header, "Length") = <<>>
    THEN [m EXCEPT !.header = Append(@, [name |-> <<"Length">>,
             value |-> <<CHOOSE v \in DOMAIN Content : Content[v] = Len(m.body)>>])]
    ELSE m

ChannelAdded(m, line, size) ==
        IF m.protocol = "mrcp" /\ line.ok
        THEN [line EXCEPT !.text = apt_text_name_value_insert(line.text, <<"Channel">>, m.channel, size).text]
        ELSE line

generator_on_start(m, size) == ChannelAdded(m, apt_text_eol_insert(m.start, size), size)

(* The texts sent for a message: the head with as much of the body as fits *)
(* into the transmit buffer, then the rest of the body in as many parts.   *)
RECURSIVE apt_message_body_write(_, _)
apt_message_body_write(body, size) ==
    IF Len(body) <= size THEN body
    ELSE SubSeq(body, 1, size) \o apt_message_body_write(SubSeq(body, size + 1, Len(body)), size)

Whole(m, start, head, size) ==
    LET room == size - Len(head.text)
        first == IF Len(m.body) <= room THEN m.body ELSE SubSeq(m.body, 1, room)
    IN  [ok |-> start.ok /\ head.ok, message |-> m,
         text |-> head.text \o first
                  \o apt_message_body_write(SubSeq(m.body, Len(first) + 1, Len(m.body)), size)]

HeadGenerated(m, start, size) ==
    Whole(m, start, apt_header_section_generate(start.text, m.header, size), size)

Validated(m, size) == HeadGenerated(m, generator_on_start(m, size), size)

apt_message_generator_run(m, size) ==
    Validated(IF m.protocol = "mrcp" THEN mrcp_message_validate(m) ELSE m, size)

-----------------------------------------------------------------------------

CONSTANTS
    Messages,     \* what this generator sends
    Texts,        \* what other peers send: [protocol, text, message, cut], message = <<>> if it is not valid
    TxSize,       \* the transmit buffer
    RxSize,       \* the receive buffer
    MaxMessages   \* bounds the messages on one connection

VARIABLES
    sent,      \* the messages put on the stream
    wire,      \* the text under way
    rx_stream, \* the text received and not parsed yet
    parser,
    received,  \* the messages the parser has completed
    sock       \* "open" or "closed"

streamVars == <<sent, wire, rx_stream, parser, received, sock>>

StreamInit ==
    /\ sent = <<>> /\ wire = <<>> /\ rx_stream = <<>> /\ received = <<>>
    /\ parser = apt_message_parser_create
    /\ sock = "open"

Protocol == IF sent = <<>> THEN {"mrcp", "rtsp"} ELSE {sent[1].protocol}

(* The whole of mrcp_server_agent_messsage_send: nothing is sent of a      *)
(* message whose head does not fit.                                        *)
Sends(m, g, whole) ==
        /\ sock = "open" /\ Len(sent) < MaxMessages /\ m.protocol \in Protocol
        /\ g.ok
        /\ wire' = wire \o g.text
        /\ sent' = Append(sent, [protocol |-> m.protocol, text |-> g.text, message |-> g.message,
                                 cut |-> g.text # whole.text])
        /\ UNCHANGED <<rx_stream, parser, received, sock>>

message_send(m) ==
    Sends(m, apt_message_generator_run(m, TxSize), apt_message_generator_run(m, 2 * TxSize))

PeerSends(t) ==
    /\ sock = "open" /\ Len(sent) < MaxMessages /\ t.protocol \in Protocol
    /\ wire' = wire \o t.text
    /\ sent' = Append(sent, t)
    /\ UNCHANGED <<rx_stream, parser, received, sock>>

(* The loop over the messages of one receive, and the scroll that keeps    *)
(* what is left.                                                           *)
RECURSIVE Parsed(_, _, _, _)
Parsed(protocol, text, r, messages) ==
    LET done == CASE r.status = "COMPLETE" -> Append(messages, r.parser.message)
                  [] r.status = "INVALID" -> Append(messages, <<>>)
                  [] r.status = "INCOMPLETE" -> messages
    IN  IF apt_text_is_eos(text, r)
        THEN [parser |-> r.parser, rest |-> SubSeq(text, r.pos, Len(text)), messages |-> done]
        ELSE Parsed(protocol, text, apt_message_parser_run(protocol, r.parser, text, r.pos), done)

Receives(protocol, text) ==
    Parsed(protocol, text, apt_message_parser_run(protocol, parser, text, 1), <<>>)

Keeps(r) ==
    /\ parser' = r.parser
    /\ rx_stream' = r.rest
    /\ received' = received \o r.messages

poller_signal_process(n) ==
    /\ sock = "open" /\ n <= Len(wire) /\ n <= RxSize - Len(rx_stream)
    /\ Keeps(Receives(sent[1].protocol, rx_stream \o SubSeq(wire, 1, n)))
    /\ wire' = SubSeq(wire, n + 1, Len(wire))
    /\ UNCHANGED <<sent, sock>>

(* With a full buffer the receive gets no bytes, which is taken for the    *)
(* peer closing the connection.                                            *)
poller_signal_process_full ==
    /\ sock = "open" /\ wire # <<>> /\ Len(rx_stream) = RxSize
    /\ sock' = "closed"
    /\ UNCHANGED <<sent, wire, rx_stream, parser, received>>

StreamNext ==
    \/ \E m \in Messages : message_send(m)
    \/ \E t \in Texts : PeerSends(t)
    \/ \E n \in 1..RxSize : poller_signal_process(n)
    \/ poller_signal_process_full

-----------------------------------------------------------------------------
(* A field that is folded, and a field the generator left out, are the two *)
(* ways in which a valid message can come out different.                   *)
Folds(text) == \E i \in 2..Len(text) : text[i] = "SP" /\ text[i - 1] \in {"CR", "LF"}

Plain(s) == s.message # <<>> /\ ~Folds(s.text) /\ ~s.cut

LeadingPlain == CHOOSE k \in 0..Len(sent) :
                    /\ \A i \in 1..k : Plain(sent[i])
                    /\ k = Len(sent) \/ ~Plain(sent[k + 1])

(* However TCP cuts the stream - inside a line, between CR and LF, inside  *)
(* a body, several messages in one piece - the parser delivers the         *)
(* messages that were sent, in order and each exactly once, up to the      *)
(* first that is not valid; when all text has been read none is missing.   *)
ParsedAsSent ==
    LET k == LeadingPlain
    IN  /\ \A i \in 1..Len(received) : i <= k => received[i] = sent[i].message
        /\ (wire = <<>> /\ sock = "open") => Len(received) >= k

=============================================================================
