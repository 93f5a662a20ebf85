----------------------------- MODULE OfferAnswer -----------------------------
(***************************************************************************)
(* The media of a session, offered by the client and answered by the       *)
(* server: the session descriptors of both (mrcp_session_descriptor,       *)
(* mrcp_control_descriptor), their conversion to and from SDP              *)
(* (mrcp_sdp.c, mrcp_unirtsp_sdp.c), and the RTP streams they drive.       *)
(*                                                                         *)
(* The client adds channels, removes them (port 0, media disabled), adds   *)
(* them again and repeats its offer; the server builds its answer from     *)
(* the offer or, when an offer equals the last one, repeats its answer.    *)
(* One request is outstanding at a time: both session layers see to it.    *)
(*                                                                         *)
(* A descriptor of the offer or the answer and the media of the stream are *)
(* one object in the code: negotiating a stream changes both.  Here the    *)
(* streams hold the audio media, the descriptors are read off them.        *)
(***************************************************************************)
EXTENDS RtpStream

CONSTANTS
    Channels,         \* sequence: the direction the client's RTP stream starts with
    ClientSettings, ServerSettings,      \* RTP settings of the two profiles
    ClientCaps, ServerCaps,              \* capabilities of the channels' streams
    ClientPorts, ServerPorts,            \* rtp_port_min and rtp_port_max
    MaxOffers         \* bound: offers the client makes

VARIABLES
    client,           \* [control, streams, config]
    server,           \* [control, streams, config, last_offer]
    wire,             \* the SDP under way: [type, lines]
    offers            \* offers made so far

vars == <<client, server, wire, offers>>

TCP_DISCARD_PORT == 9
ServerControlPort == 1544

Side(ports) == [control |-> <<>>, streams |-> <<>>, config |-> ports]

-----------------------------------------------------------------------------
(* Control media: the position id, the port, the identifiers of the audio  *)
(* media it controls.                                                      *)
mrcp_control_offer_create(id, cmid) == [id |-> id, port |-> TCP_DISCARD_PORT, cmid |-> <<cmid>>]

mrcp_control_answer_create(offer, port) ==
    [offer EXCEPT !.port = IF offer.port = 0 THEN 0 ELSE port]

mrcp_cmid_find(cmid_arr, cmid) == \E i \in DOMAIN cmid_arr : cmid_arr[i] = cmid

mrcp_control_descriptors_compare(c1, c2) == c1 = c2

mrcp_session_media_count_get(d) == Len(d.control) + Len(d.audio)

(* The streams' media, as a sequence. *)
LocalMedias(streams) == [i \in DOMAIN streams |-> streams[i].local]

Descriptor(control, audio) == [control |-> control, audio |-> audio]

mrcp_session_offers_compare(o1, o2) ==
    /\ Len(o1.control) = Len(o2.control) /\ Len(o1.audio) = Len(o2.audio)
    /\ \A i \in DOMAIN o1.control : mrcp_control_descriptors_compare(o1.control[i], o2.control[i])
    /\ \A i \in DOMAIN o1.audio : mpf_rtp_media_descriptors_compare(o1.audio[i], o2.audio[i])

-----------------------------------------------------------------------------
(* SDP.  A media line has a kind, a port, the enabled codecs in order, a   *)
(* mode (the empty set: no attribute) and the identifiers.                 *)
\* Codecs that were not agreed upon are offered as well.
sdp_rtp_media_generate(media) ==
    [kind |-> "audio", mid |-> <<media.mid>>,
     port |-> IF media.state = "ENABLED" THEN media.port ELSE 0,
     codecs |-> IF media.state = "ENABLED" THEN Enabled(media.codecs) ELSE <<>>,
     mode |-> IF media.state = "ENABLED" THEN media.direction ELSE {}]

sdp_control_media_generate(control) ==
    [kind |-> "application", mid |-> control.cmid, port |-> control.port, codecs |-> <<>>,
     mode |-> {}]

(* Position i takes the next audio medium if that is its id, else the next *)
(* control medium if that is its id; else nothing.                         *)
LineAt(d, i, g) ==
    IF g.audio <= Len(d.audio) /\ d.audio[g.audio].id = i
    THEN [lines |-> Append(g.lines, sdp_rtp_media_generate(d.audio[g.audio])),
          audio |-> g.audio + 1, control |-> g.control]
    ELSE IF g.control <= Len(d.control) /\ d.control[g.control].id = i
    THEN [lines |-> Append(g.lines, sdp_control_media_generate(d.control[g.control])),
          audio |-> g.audio, control |-> g.control + 1]
    ELSE g

sdp_string_generate_by_mrcp_descriptor(d) ==
    FoldLeft(LAMBDA g, i : LineAt(d, i - 1, g), [lines |-> <<>>, audio |-> 1, control |-> 1],
             [i \in 1..mrcp_session_media_count_get(d) |-> i]).lines

(* A line without a mode reads as sendrecv.  What the SDP parser makes of  *)
(* the mode of a rejected line is up to it: rejected is {} or DUPLEX.      *)
sdp_parse_mode(line, rejected) ==
    IF line.port = 0 THEN rejected ELSE IF line.mode = {} THEN DUPLEX ELSE line.mode

mpf_rtp_media_generate(line, id, rejected) ==
    [state |-> IF line.port # 0 THEN "ENABLED" ELSE "DISABLED", port |-> line.port, id |-> id,
     mid |-> line.mid[1], direction |-> sdp_parse_mode(line, rejected),
     codecs |-> List([i \in DOMAIN line.codecs |->
                         [line.codecs[i] EXCEPT !.channels = 1, !.enabled = TRUE]])]

mrcp_control_media_generate(line, id) == [id |-> id, port |-> line.port, cmid |-> line.mid]

mrcp_descriptor_generate_by_sdp_session(lines, rejected) ==
    FoldLeft(LAMBDA d, line :
                 IF line.kind = "audio"
                 THEN [d EXCEPT !.audio = Append(@, mpf_rtp_media_generate(line,
                                              mrcp_session_media_count_get(d), rejected))]
                 ELSE [d EXCEPT !.control = Append(@, mrcp_control_media_generate(line,
                                              mrcp_session_media_count_get(d)))],
             Descriptor(<<>>, <<>>), lines)

-----------------------------------------------------------------------------
Taken(side) == {side.streams[i].local.port : i \in {j \in DOMAIN side.streams :
                                                       side.streams[j].socket}}

Search(side) == mpf_rtp_socket_pair_bind(side.config, Taken(side))

(* The k-th stream of a side is added (k past the end) or modified.        *)
WithStream(side, k, result) ==
    [side EXCEPT !.streams = IF k > Len(@) THEN Append(@, result.stream)
                             ELSE [@ EXCEPT ![k] = result.stream],
                 !.config.cur = IF result.cur = {} THEN @ ELSE CHOOSE c \in result.cur : TRUE]

mpf_rtp_termination_add(side, settings, local, remote, caps) ==
    WithStream(side, Len(side.streams) + 1,
        mpf_rtp_stream_modify(mpf_rtp_stream_create(settings), local, remote, caps, Search(side)))

mpf_rtp_termination_modify(side, k, remote) ==
    WithStream(side, k, mpf_rtp_stream_modify(side.streams[k], NULL, remote, {}, Search(side)))

mpf_rtp_termination_subtract(side, k) ==
    [side EXCEPT !.streams[k] = mpf_rtp_stream_remove(@)]

-----------------------------------------------------------------------------
(* The client.                                                             *)
CanOffer == wire.type = "none" /\ offers < MaxOffers

mrcp_client_session_offer_send(c) ==
    /\ client' = c
    /\ wire' = [type |-> "offer", lines |-> sdp_string_generate_by_mrcp_descriptor(
                                                Descriptor(c.control, LocalMedias(c.streams)))]
    /\ offers' = offers + 1
    /\ UNCHANGED server

(* The new control medium takes the next position, then, once the RTP      *)
(* termination is added, so does its audio medium.                         *)
AudioAdded(c, k) ==
    [c EXCEPT !.streams[k].local = [@ EXCEPT
        !.id = mrcp_session_media_count_get(Descriptor(c.control, c.streams)) - 1, !.mid = k]]

mrcp_client_channel_add ==
    /\ CanOffer
    /\ Len(client.control) < Len(Channels)
    /\ LET k == Len(client.control) + 1
           c == [client EXCEPT !.control = Append(@, mrcp_control_offer_create(
                     mrcp_session_media_count_get(Descriptor(client.control, client.streams)), k))]
           media == [mpf_rtp_media_descriptor_init EXCEPT !.state = "ENABLED",
                                                          !.direction = Channels[k]]
       IN  mrcp_client_session_offer_send(AudioAdded(
               mpf_rtp_termination_add(c, ClientSettings, media, NULL, {ClientCaps}), k))

Modified(media, direction) ==
    [media EXCEPT !.direction = direction,
                  !.state = IF direction # {} THEN "ENABLED" ELSE "DISABLED"]

mrcp_client_channel_modify(k, enable) ==
    /\ CanOffer
    /\ mrcp_client_session_offer_send(
           [client EXCEPT !.control[k].port = IF enable THEN TCP_DISCARD_PORT ELSE 0,
                          !.streams[k].local = Modified(@,
                              IF enable THEN @.direction \cup Channels[k]
                              ELSE @.direction \ Channels[k])])

mrcp_client_session_update ==
    /\ CanOffer /\ client.control # <<>>
    /\ mrcp_client_session_offer_send(client)

(* Every termination with an audio medium in the answer is modified.       *)
mrcp_client_av_media_answer_process(c, audio) ==
    FoldLeft(LAMBDA side, k : mpf_rtp_termination_modify(side, k, audio[k]), c,
             [k \in 1..Min({Len(c.streams), Len(audio)}) |-> k])

mrcp_client_session_answer_process ==
    /\ wire.type = "answer"
    /\ \E rejected \in {{}, DUPLEX} :
           client' = mrcp_client_av_media_answer_process(client,
                         mrcp_descriptor_generate_by_sdp_session(wire.lines, rejected).audio)
    /\ wire' = [type |-> "none", lines |-> <<>>]
    /\ UNCHANGED <<server, offers>>

mrcp_client_session_terminate ==
    /\ wire.type = "none" /\ client.streams # <<>>
    /\ client' = FoldLeft(LAMBDA side, k : mpf_rtp_termination_subtract(side, k), client,
                          [k \in DOMAIN client.streams |-> k])
    /\ wire' = [type |-> "bye", lines |-> <<>>]
    /\ UNCHANGED <<server, offers>>

-----------------------------------------------------------------------------
(* The server.                                                             *)
(* Channels a stream is associated with: all of them while there is one    *)
(* stream, else those whose identifiers name the medium.                   *)
mrcp_server_associations_build(control, streams, mid) ==
    {i \in DOMAIN control : streams = 1 \/ mrcp_cmid_find(control[i].cmid, mid)}

Capabilities(associated) == IF associated = {} THEN {} ELSE {ServerCaps}

mrcp_server_av_media_offer_process(s, offer) ==
    FoldLeft(LAMBDA side, k :
        IF k <= Len(side.streams) THEN mpf_rtp_termination_modify(side, k, offer.audio[k])
        ELSE mpf_rtp_termination_add(side, ServerSettings, NULL, offer.audio[k],
                 Capabilities(mrcp_server_associations_build(offer.control,
                                  Len(side.streams) + 1, offer.audio[k].mid))),
        s, [k \in DOMAIN offer.audio |-> k])

mrcp_server_control_media_offer_process(control) ==
    [i \in DOMAIN control |-> mrcp_control_answer_create(control[i], ServerControlPort)]

(* The last offer: its media are those the streams negotiated with, except *)
(* for a stream that has not got as far as that.                           *)
LastOffer ==
    [server.last_offer EXCEPT !.audio = [i \in DOMAIN @ |->
        IF server.streams[i].remote.state = "NULL" THEN @[i] ELSE server.streams[i].remote]]

mrcp_server_session_answer_send(s, offer) ==
    /\ server' = [s EXCEPT !.last_offer = offer]
    /\ wire' = [type |-> "answer", lines |-> sdp_string_generate_by_mrcp_descriptor(
                                                 Descriptor(s.control, LocalMedias(s.streams)))]
    /\ UNCHANGED <<client, offers>>

mrcp_server_session_offer_process ==
    /\ wire.type = "offer"
    /\ \E rejected \in {{}, DUPLEX} :
       \E offer \in {mrcp_descriptor_generate_by_sdp_session(wire.lines, rejected)} :
           mrcp_server_session_answer_send(
               IF server.control # <<>> /\ mrcp_session_offers_compare(offer, LastOffer)
               THEN server
               ELSE mrcp_server_av_media_offer_process(
                        [server EXCEPT !.control =
                            mrcp_server_control_media_offer_process(offer.control)],
                        offer), offer)

mrcp_server_session_terminate_process ==
    /\ wire.type = "bye"
    /\ server' = FoldLeft(LAMBDA side, k : mpf_rtp_termination_subtract(side, k), server,
                          [k \in DOMAIN server.streams |-> k])
    /\ wire' = [type |-> "terminated", lines |-> <<>>]
    /\ UNCHANGED <<client, offers>>

-----------------------------------------------------------------------------
Init ==
    /\ client = Side(ClientPorts)
    /\ server = [control |-> <<>>, streams |-> <<>>, config |-> ServerPorts,
                 last_offer |-> Descriptor(<<>>, <<>>)]
    /\ wire = [type |-> "none", lines |-> <<>>]
    /\ offers = 0

Next ==
    \/ mrcp_client_channel_add
    \/ \E k \in DOMAIN client.control, enable \in BOOLEAN : mrcp_client_channel_modify(k, enable)
    \/ mrcp_client_session_update
    \/ mrcp_client_session_answer_process
    \/ mrcp_client_session_terminate
    \/ mrcp_server_session_offer_process
    \/ mrcp_server_session_terminate_process

Spec == Init /\ [][Next]_vars

-----------------------------------------------------------------------------
Settled == wire.type = "none" /\ Len(client.streams) = Len(server.streams)

(* Types of the two sides and of the SDP under way. *)
TypeOK ==
    /\ offers \in 0..MaxOffers
    /\ wire.type \in {"none", "offer", "answer", "bye", "terminated"}
    /\ \A side \in {client, server} : \A i \in DOMAIN side.streams :
           /\ side.streams[i].state \in {"ENABLED", "DISABLED"}
           /\ side.streams[i].direction \subseteq DUPLEX
           /\ side.streams[i].timers \in BOOLEAN

HasCodec(list) ==
    /\ list.primary # 0
    /\ mpf_codec_manager_codec_get(mpf_engine_codec_manager_create, list.arr[list.primary]) # 0

(* After an offer has been answered both ends have the k-th stream in the  *)
(* same state, and what one end sends, codec and events alike, bears the   *)
(* payload type the other end expects, in either direction, whatever was   *)
(* removed, added again or offered again before; the codec manager of each *)
(* end has a codec to open the stream with (mpf_rtp_stream_modify,         *)
(* mpf_codec_lists_intersect, mrcp_sdp.c).                                 *)
PeersAgree ==
    Settled => \A k \in DOMAIN client.streams :
        LET c == client.streams[k]
            s == server.streams[k]
        IN  /\ c.state = s.state
            /\ c.state = "ENABLED" =>
                /\ c.direction = mpf_stream_reverse_direction_get(s.direction)
                /\ "SEND" \in c.direction => c.tx = s.rx /\ c.tx_event = s.rx_event
                /\ "SEND" \in s.direction => s.tx = c.rx /\ s.tx_event = c.rx_event
                /\ HasCodec(c.local.codecs) /\ HasCodec(s.local.codecs)

(* An answer has the lines of the offer, in its order, and every audio     *)
(* medium keeps its position for the next offer, through rejections and    *)
(* removals (sdp_string_generate_by_mrcp_descriptor,                       *)
(* mrcp_descriptor_generate_by_sdp_session, the ids the stream mirrors).   *)
LinesKept ==
    /\ wire.type = "answer" =>
           /\ Len(wire.lines) = mrcp_session_media_count_get(
                                    Descriptor(client.control, client.streams))
           /\ \A k \in DOMAIN client.control :
                  wire.lines[2 * k - 1].kind = "application" /\ wire.lines[2 * k].kind = "audio"
    /\ \A k \in DOMAIN client.streams : client.streams[k].local.id = 2 * k - 1

(* RTCP timers run exactly while a session is enabled; an enabled stream   *)
(* holds the port its media name, no other stream of the host holds it,    *)
(* and a stream of a terminated session holds none                         *)
(* (mpf_rtp_stream_media_negotiate, mpf_rtp_stream_remove and the port     *)
(* search of mpf_rtp_stream_local_media_create).  Excepted is a stream for *)
(* which no port was free when it was created: it is refused then, but the *)
(* next offer finds its local media and enables it, without a socket and   *)
(* with a port that may be another stream's.                               *)
TimersAndPorts ==
    \A side \in {client, server} :
        /\ \A i \in DOMAIN side.streams :
               LET s == side.streams[i]
               IN  /\ s.timers = (s.state = "ENABLED" /\ s.settings.rtcp)
                   /\ s.state = "ENABLED" => s.socket \/ s.portless
                   /\ s.socket => s.local.port \in side.config.min..(side.config.max - 1)
                   /\ s.socket => wire.type # "terminated"
        /\ \A i, j \in DOMAIN side.streams :
               /\ i # j /\ side.streams[i].socket
               /\ side.streams[j].socket \/ side.streams[j].state = "ENABLED"
               => \/ side.streams[i].local.port # side.streams[j].local.port
                  \/ side.streams[j].portless

-----------------------------------------------------------------------------

(***************************************************************************)
(* The media of an MRCPv1 session, carried by RTSP: one SETUP or TEARDOWN  *)
(* names one resource, the SDP has audio media only and no identifiers     *)
(* (mrcp_unirtsp_sdp.c), and the server gives every medium the directions  *)
(* of all its channels (mrcp_server_associations_build).                   *)
(*                                                                         *)
(* A SETUP without SDP, which the server also takes, comes from another    *)
(* client: sdp is FALSE then, and only the Transport header has a port.    *)
(***************************************************************************)

CONSTANTS
    ResourceMap,      \* function: MRCP resource name to RTSP name; its domain is the factory's
    Resources         \* sequence: the resource of each channel

VARIABLES
    rtsp,             \* the method and RTSP resource name of the request under way
    discovered        \* resources the last discovery has found

varsV1 == <<vars, rtsp, discovered>>

rtsp_name_get_by_mrcp_name(name) == IF name \in DOMAIN ResourceMap THEN ResourceMap[name] ELSE name

mrcp_name_get_by_rtsp_name(rtsp_name) ==
    IF \E n \in DOMAIN ResourceMap : ResourceMap[n] = rtsp_name
    THEN CHOOSE n \in DOMAIN ResourceMap : ResourceMap[n] = rtsp_name
    ELSE "unknown"

-----------------------------------------------------------------------------
(* SETUP with the SDP of all media, or TEARDOWN with nothing.              *)
rtsp_request_generate_by_mrcp_descriptor(k, state, streams, sdp) ==
    /\ wire' = [type |-> "offer",
                lines |-> IF state /\ sdp THEN sdp_string_generate_by_mrcp_descriptor(
                                                   Descriptor(<<>>, LocalMedias(streams)))
                          ELSE <<>>]
    /\ rtsp' = [method |-> IF state THEN "SETUP" ELSE "TEARDOWN", sdp |-> sdp, channel |-> k,
                name |-> rtsp_name_get_by_mrcp_name(Resources[k]),
                port |-> IF streams = <<>> THEN 0 ELSE streams[Len(streams)].local.port]

mrcp_unirtsp_session_offer(c, k, state, sdp) ==
    /\ client' = c
    /\ rtsp_request_generate_by_mrcp_descriptor(k, state, c.streams, sdp)
    /\ offers' = offers + 1
    /\ UNCHANGED <<server, discovered>>

(* Channels are counted by their streams: there is no control medium.      *)
channel_add(sdp) ==
    /\ CanOffer
    /\ Len(client.streams) < Len(Channels)
    /\ LET k == Len(client.streams) + 1
           media == [mpf_rtp_media_descriptor_init EXCEPT !.state = "ENABLED",
                                                          !.direction = Channels[k]]
       IN  mrcp_unirtsp_session_offer(AudioAdded(
               mpf_rtp_termination_add(client, ClientSettings, media, NULL, {ClientCaps}), k),
               k, TRUE, sdp)

channel_modify(k, enable) ==
    /\ CanOffer
    /\ mrcp_unirtsp_session_offer(
           [client EXCEPT !.streams[k].local = Modified(@,
                              IF enable THEN @.direction \cup Channels[k]
                              ELSE @.direction \ Channels[k])], k, enable, TRUE)

(* A TEARDOWN's answer says nothing about media. *)
mrcp_descriptor_generate_by_rtsp_response(rejected) ==
    IF rtsp.method = "SETUP" THEN mrcp_descriptor_generate_by_sdp_session(wire.lines, rejected)
    ELSE Descriptor(<<>>, <<>>)

mrcp_client_resource_answer_process ==
    /\ wire.type = "answer"
    /\ \E rejected \in {{}, DUPLEX} :
           client' = IF rtsp.method = "TEARDOWN" THEN client
                     ELSE mrcp_client_av_media_answer_process(client,
                              mrcp_descriptor_generate_by_rtsp_response(rejected).audio)
    /\ wire' = [type |-> "none", lines |-> <<>>]
    /\ UNCHANGED <<server, offers, rtsp, discovered>>

session_update ==
    /\ CanOffer /\ client.streams # <<>>
    /\ offers' = offers + 1
    /\ rtsp_request_generate_by_mrcp_descriptor(rtsp.channel, rtsp.method = "SETUP", client.streams,
                                                rtsp.sdp)
    /\ UNCHANGED <<client, server, discovered>>

session_terminate == mrcp_client_session_terminate /\ UNCHANGED <<rtsp, discovered>>

-----------------------------------------------------------------------------
(* What the server makes of a request: the media of its SDP, or, without   *)
(* SDP, one enabled medium with the port of the Transport header.          *)
mrcp_descriptor_generate_by_rtsp_request(rejected) ==
    IF rtsp.method = "TEARDOWN" THEN Descriptor(<<>>, <<>>)
    ELSE IF rtsp.sdp THEN mrcp_descriptor_generate_by_sdp_session(wire.lines, rejected)
    ELSE Descriptor(<<>>, <<[mpf_rtp_media_descriptor_init EXCEPT !.state = "ENABLED",
                                                                  !.port = rtsp.port]>>)

(* A channel per resource set up. *)
mrcp_server_resource_offer_process(channels, name) ==
    IF rtsp.method = "SETUP" /\ \A i \in DOMAIN channels : channels[i] # name
    THEN Append(channels, name) ELSE channels

ChannelDirections(channels) ==
    UNION {Channels[k] : k \in {j \in DOMAIN Resources :
                                   \E i \in DOMAIN channels : channels[i] = Resources[j]}}

(* Without SDP the configured codecs count as offered.                     *)
Implicit(media, channels) ==
    [media EXCEPT !.codecs = IF media.direction = {} /\ media.codecs.arr = <<>>
                             THEN ServerSettings.codecs ELSE @,
                  !.direction = @ \cup ChannelDirections(channels), !.state = "ENABLED"]

av_media_offer_process(s, audio) ==
    FoldLeft(LAMBDA side, k :
        IF k <= Len(side.streams)
        THEN mpf_rtp_termination_modify(side, k, Implicit(audio[k], s.control))
        ELSE mpf_rtp_termination_add(side, ServerSettings, NULL, Implicit(audio[k], s.control),
                                     {ServerCaps}),
        s, [k \in DOMAIN audio |-> k])

(* The last offer also names the resource and whether it is set up.        *)
SameOffer(o) ==
    /\ server.control # <<>>
    /\ server.resource = [name |-> rtsp.name, method |-> rtsp.method]
    /\ mrcp_session_offers_compare(o, LastOffer)

rtsp_response_generate_by_mrcp_descriptor(s, o) ==
    /\ server' = [s EXCEPT !.last_offer = o,
                          !.resource = [name |-> rtsp.name, method |-> rtsp.method]]
    /\ wire' = [type |-> "answer",
                lines |-> IF rtsp.method = "TEARDOWN" THEN <<>>
                          ELSE sdp_string_generate_by_mrcp_descriptor(
                                   Descriptor(<<>>, LocalMedias(s.streams)))]
    /\ UNCHANGED <<client, offers, rtsp, discovered>>

mrcp_unirtsp_message_handle ==
    /\ wire.type = "offer"
    /\ \E rejected \in {{}, DUPLEX} :
       \E o \in {mrcp_descriptor_generate_by_rtsp_request(rejected)} :
           rtsp_response_generate_by_mrcp_descriptor(
               IF SameOffer(o) THEN server
               ELSE av_media_offer_process(
                        [server EXCEPT !.control = mrcp_server_resource_offer_process(@,
                                           mrcp_name_get_by_rtsp_name(rtsp.name))],
                        o.audio), o)

session_deactivate == mrcp_server_session_terminate_process /\ UNCHANGED <<rtsp, discovered>>

-----------------------------------------------------------------------------
(* Discovery sends a DESCRIBE per resource of the client's factory; the    *)
(* server answers each with the same SDP, whether it has the resource or   *)
(* not, so each is found.                                                  *)
rtsp_resource_discovery_response_generate ==
    [kind |-> "audio", mid |-> <<>>, port |-> 0, mode |-> {},
     codecs |-> <<Codec(0, "PCMU", 8000, 1), Codec(8, "PCMA", 8000, 1),
                  Codec(96, "L16", 8000, 1), Codec(101, TEL_EVENT_NAME, 8000, 1)>>]

mrcp_resource_discovery_response_generate(name, line) ==
    IF line.codecs = <<>> THEN {} ELSE {mrcp_name_get_by_rtsp_name(name)}

mrcp_client_resource_discover ==
    /\ client.streams = <<>> /\ discovered = {}
    /\ discovered' = UNION {mrcp_resource_discovery_response_generate(
                                rtsp_name_get_by_mrcp_name(r),
                                rtsp_resource_discovery_response_generate) : r \in DOMAIN ResourceMap}
    /\ UNCHANGED <<vars, rtsp>>

-----------------------------------------------------------------------------
InitV1 ==
    /\ client = Side(ClientPorts)
    /\ server = [control |-> <<>>, streams |-> <<>>, config |-> ServerPorts,
                 last_offer |-> Descriptor(<<>>, <<>>), resource |-> [name |-> "", method |-> ""]]
    /\ wire = [type |-> "none", lines |-> <<>>]
    /\ offers = 0
    /\ rtsp = [method |-> "", sdp |-> TRUE, channel |-> 1, name |-> "", port |-> 0]
    /\ discovered = {}

NextV1 ==
    \/ \E sdp \in BOOLEAN : channel_add(sdp)
    \/ \E k \in DOMAIN client.streams, enable \in BOOLEAN : channel_modify(k, enable)
    \/ session_update
    \/ mrcp_client_resource_answer_process
    \/ session_terminate
    \/ mrcp_unirtsp_message_handle
    \/ session_deactivate
    \/ mrcp_client_resource_discover

SpecV1 == InitV1 /\ [][NextV1]_varsV1

=============================================================================
