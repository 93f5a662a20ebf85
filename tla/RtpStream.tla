------------------------------ MODULE RtpStream ------------------------------
(***************************************************************************)
(* The RTP stream of a termination (mpf_rtp_stream.c) as seen by           *)
(* signalling: its sockets, its local and remote media, their negotiation  *)
(* and the RTCP timers; and the RTP termination factory that splits the    *)
(* port range among media engines (mpf_rtp_termination_factory.c).         *)
(*                                                                         *)
(* Addresses are reduced to ports; ptime is left out.  A stream holds its  *)
(* RTP port while "socket" is TRUE; the RTCP socket follows it.            *)
(***************************************************************************)
EXTENDS Integers, SequencesExt

(***************************************************************************)
(* Codec descriptors, capabilities and lists of the media framework        *)
(* (mpf_codec_descriptor.c/.h, mpf_codec_manager.c, mpf_named_event.c):    *)
(* how two descriptors match, how a list is restricted to the rates a      *)
(* channel supports, and how an offered and a configured list are          *)
(* intersected.                                                            *)
(*                                                                         *)
(* A pointer into a list (primary_descriptor, event_descriptor) is an      *)
(* index of its array, 0 being NULL.  Names are model values or strings;   *)
(* a format parameter (fmtp) plays no part in matching and is left out.    *)
(***************************************************************************)

RTP_PT_DYNAMIC == 96
TEL_EVENT_NAME == "telephone-event"

Codec(pt, name, rate, channels) ==
    [pt |-> pt, name |-> name, rate |-> rate, channels |-> channels, enabled |-> TRUE]

List(arr) == [arr |-> arr, primary |-> 0, event |-> 0]

mpf_event_descriptor_create(rate) == Codec(101, TEL_EVENT_NAME, rate, 1)
mpf_event_descriptor_check(d) == d.name = TEL_EVENT_NAME

Rates == {8000, 16000, 32000, 48000}

(* The mask of a rate, as a set; any other rate has the empty mask. *)
mpf_sample_rate_mask_get(rate) == {rate} \cap Rates
mpf_sampling_rate_check(rate, rates) == mpf_sample_rate_mask_get(rate) \cap rates # {}

mpf_codec_descriptors_match(d1, d2) ==
    IF d1.pt < RTP_PT_DYNAMIC /\ d2.pt < RTP_PT_DYNAMIC
    THEN d1.pt = d2.pt
    ELSE d1.name = d2.name /\ d1.rate = d2.rate /\ d1.channels = d2.channels

(* The first index of 1..n with the property, 0 when there is none. *)
First(indices) == IF indices = {} THEN 0 ELSE Min(indices)

mpf_codec_list_descriptor_find(list, d) ==
    First({j \in DOMAIN list.arr : mpf_codec_descriptors_match(d, list.arr[j])})

(* Only the sampling rate is looked at: capabilities is a sequence of sets *)
(* of rates.                                                               *)
mpf_codec_capabilities_attribs_find(capabilities, d) ==
    First({i \in DOMAIN capabilities : mpf_sampling_rate_check(d.rate, capabilities[i])})

mpf_codec_list_match(list, capabilities) ==
    [list EXCEPT !.arr = [i \in DOMAIN list.arr |->
        [list.arr[i] EXCEPT !.enabled =
            @ /\ mpf_codec_capabilities_attribs_find(capabilities, list.arr[i]) # 0]]]

HasEnabled(list) == \E i \in DOMAIN list.arr : list.arr[i].enabled

\* A matched entry of the second list is taken although it was disabled.
Matching_disabled(list1, list2, events) ==
    {i \in DOMAIN list1.arr :
        /\ mpf_event_descriptor_check(list1.arr[i]) = events
        /\ mpf_codec_list_descriptor_find(list2, list1.arr[i]) # 0}

(* The entries of list1 for which an enabled entry of list2 is found; the  *)
(* first of either kind (named event or not) is taken, all others are      *)
(* disabled, in both lists.                                                *)
Matching(list1, list2, events) ==
    {i \in DOMAIN list1.arr :
        /\ list1.arr[i].enabled
        /\ mpf_event_descriptor_check(list1.arr[i]) = events
        /\ LET j == mpf_codec_list_descriptor_find(list2, list1.arr[i])
           IN  j # 0 /\ list2.arr[j].enabled}

Chosen(list, primary, event) ==
    [arr |-> [i \in DOMAIN list.arr |->
                 [list.arr[i] EXCEPT !.enabled = i \in {primary, event}]],
     primary |-> primary, event |-> event]

Peer(list1, list2, i) ==
    IF i = 0 THEN 0 ELSE mpf_codec_list_descriptor_find(list2, list1.arr[i])

Intersection(list1, list2, primary, event) ==
    [list1 |-> Chosen(list1, primary, event),
     list2 |-> Chosen(list2, Peer(list1, list2, primary), Peer(list1, list2, event)),
     status |-> primary # 0]

mpf_codec_lists_intersect(list1, list2) ==
    Intersection(list1, list2, First(Matching(list1, list2, FALSE)),
                               First(Matching(list1, list2, TRUE)))

Enabled(list) == SelectSeq(list.arr, LAMBDA d : d.enabled)

SameCodecs(arr1, arr2) ==
    /\ Len(arr1) = Len(arr2)
    /\ \A i \in DOMAIN arr1 : mpf_codec_descriptors_match(arr1[i], arr2[i])

mpf_codec_lists_compare(list1, list2) == SameCodecs(Enabled(list1), Enabled(list2))

-----------------------------------------------------------------------------
(* The codec manager: PCMU and PCMA have a static descriptor, L16 has none *)
(* (mpf_engine_codec_manager_create).                                      *)
mpf_engine_codec_manager_create ==
    << [name |-> "PCMU", static |-> << Codec(0, "PCMU", 8000, 1) >>, rates |-> Rates],
       [name |-> "PCMA", static |-> << Codec(8, "PCMA", 8000, 1) >>, rates |-> Rates],
       [name |-> "L16",  static |-> <<>>, rates |-> Rates] >>

mpf_codec_descriptor_match_by_attribs(d, codec) ==
    IF d.pt < RTP_PT_DYNAMIC
    THEN codec.static # <<>> /\ codec.static[1].pt = d.pt
    ELSE codec.name = d.name /\ mpf_sampling_rate_check(d.rate, codec.rates)

mpf_codec_manager_codec_get(manager, d) ==
    First({i \in DOMAIN manager : mpf_codec_descriptor_match_by_attribs(d, manager[i])})

mpf_codec_manager_codec_find(manager, name) ==
    First({i \in DOMAIN manager : manager[i].name = name})

(* All codecs with a static descriptor, then the named events. *)
StaticCodecs(manager) == SelectSeq(manager, LAMBDA c : c.static # <<>>)

mpf_codec_manager_codec_list_get(manager) ==
    List([i \in DOMAIN StaticCodecs(manager) |-> StaticCodecs(manager)[i].static[1]]
         \o << mpf_event_descriptor_create(8000) >>)

(* One element of a configured list, <<name>>, <<name, pt>> or <<name, pt, *)
(* rate>>: the defaults of the codec, overridden by what is given.  An     *)
(* unknown name adds nothing.                                              *)
DefaultCodec(manager, name) ==
    LET i == mpf_codec_manager_codec_find(manager, name)
    IN  IF i # 0
        THEN IF manager[i].static # <<>> THEN manager[i].static
             ELSE << Codec(RTP_PT_DYNAMIC, name, 8000, 1) >>
        ELSE IF name = TEL_EVENT_NAME THEN << mpf_event_descriptor_create(8000) >> ELSE <<>>

mpf_codec_manager_codec_parse(manager, item) ==
    [i \in DOMAIN DefaultCodec(manager, item.name) |->
        [DefaultCodec(manager, item.name)[i] EXCEPT
            !.pt = IF item.pt # <<>> THEN item.pt[1] ELSE @,
            !.rate = IF item.rate # <<>> THEN item.rate[1] ELSE @]]

mpf_codec_manager_codec_list_load(manager, items) ==
    List(FlattenSeq([i \in DOMAIN items |-> mpf_codec_manager_codec_parse(manager, items[i])]))

-----------------------------------------------------------------------------

DUPLEX == {"SEND", "RECEIVE"}

mpf_stream_reverse_direction_get(direction) ==
    IF direction \in {{}, DUPLEX} THEN direction ELSE DUPLEX \ direction

mpf_rtp_media_descriptor_init ==
    [state |-> "DISABLED", direction |-> {}, port |-> 0, codecs |-> List(<<>>), mid |-> 0,
     id |-> 0]

(* NULL, a media descriptor that is not there. *)
NULL == [mpf_rtp_media_descriptor_init EXCEPT !.state = "NULL"]

mpf_rtp_media_descriptors_compare(m1, m2) ==
    /\ m1.state # "NULL" /\ m2.state # "NULL"
    /\ [m1 EXCEPT !.codecs = 0] = [m2 EXCEPT !.codecs = 0]
    /\ mpf_codec_lists_compare(m1.codecs, m2.codecs)

(* settings: the configured codecs (an empty list: all static ones), the   *)
(* preference, and whether RTCP is on.  tx, rx, tx_event, rx_event are the *)
(* payload types of the descriptors in use, -1 when unset; portless        *)
(* remembers for the properties that no port was free for the stream.      *)
mpf_rtp_stream_create(settings) ==
    [settings |-> settings, local |-> NULL, remote |-> NULL, socket |-> FALSE, portless |-> FALSE, r_port |-> 0,
     timers |-> FALSE, state |-> "DISABLED", direction |-> {}, tx |-> -1, rx |-> -1,
     tx_event |-> -1, rx_event |-> -1]

-----------------------------------------------------------------------------
(* RTP ports: rtp_port_cur walks over min, min+2, ... below max.           *)
Ports(config) == Max({1, (config.max - config.min + 1) \div 2})
PortAt(config, i) == config.min + (2 * (i % Ports(config)))
Position(config) == (config.cur - config.min) \div 2

(* The number of bind attempts that fail before one succeeds; Ports when   *)
(* the search comes back to the first port.                                *)
Failures(config, taken) ==
    Min({k \in 0..(Ports(config) - 1) : PortAt(config, Position(config) + k) \notin taken}
        \cup {Ports(config)})

(* What mpf_rtp_stream_local_media_create does to find a port: the port it *)
(* ends with, whether the pair is bound, and the next rtp_port_cur.        *)
PortSearch(config, k) ==
    [port |-> PortAt(config, Position(config) + Min({k, Ports(config) - 1})),
     ok   |-> k < Ports(config),
     cur  |-> PortAt(config, Position(config) + Min({k + 1, Ports(config)}))]

mpf_rtp_socket_pair_bind(config, taken) == PortSearch(config, Failures(config, taken))

ConfiguredCodecs(local, settings) ==
    IF local.codecs.arr # <<>> THEN local.codecs
    ELSE IF settings.codecs.arr # <<>> THEN settings.codecs
    ELSE mpf_codec_manager_codec_list_get(mpf_engine_codec_manager_create)

(* The local media of a stream: an enabled duplex one unless it is given.  *)
DefaultLocal(local) ==
    IF local.state # "NULL" THEN local
    ELSE [mpf_rtp_media_descriptor_init EXCEPT !.state = "ENABLED", !.direction = DUPLEX]

LocalMedia(local, remote, search, codecs, caps) ==
    [local EXCEPT !.id     = IF remote.state # "NULL" THEN remote.id ELSE @,
                  !.port   = search.port,
                  !.codecs = IF caps = {} THEN codecs
                             ELSE mpf_codec_list_match(codecs, CHOOSE c \in caps : TRUE),
                  !.state  = IF search.ok THEN @ ELSE "DISABLED"]

(* The codecs left by the capabilities decide as well as the socket does.  *)
LocalCreated(s, media, search, caps) ==
    LET status == search.ok /\ (caps = {} \/ HasEnabled(media.codecs))
    IN  [stream |-> [s EXCEPT !.socket = search.ok, !.portless = ~search.ok,
                              !.local  = IF caps = {} \/ HasEnabled(media.codecs) THEN media
                                         ELSE [media EXCEPT !.state = "DISABLED"]],
         status |-> status, cur |-> search.cur]

(* caps is {} or holds the capabilities of the associated channels. *)
mpf_rtp_stream_local_media_create(s, local, remote, caps, search) ==
    LocalCreated(s, LocalMedia(DefaultLocal(local), remote, search,
                               ConfiguredCodecs(DefaultLocal(local), s.settings), caps),
                 search, caps)

mpf_rtp_stream_remote_media_update(s, media) ==
    [s EXCEPT !.remote = media,
              !.r_port = IF media.state = "ENABLED" /\ s.remote.port # media.port
                         THEN media.port ELSE @]

-----------------------------------------------------------------------------
\* A rejected session keeps its RTCP timers.
Rejected_keeps_timers(s) ==
    [s EXCEPT !.state = "DISABLED", !.direction = {},
              !.local = [@ EXCEPT !.direction = {}, !.state = "DISABLED"]]

(* What the intersection leaves: both lists restricted; a session without  *)
(* a common codec is rejected, its timers killed.                          *)
Rejected(s) ==
    [s EXCEPT !.state = "DISABLED", !.timers = FALSE, !.direction = {},
              !.local = [@ EXCEPT !.direction = {}, !.state = "DISABLED"]]

WithLists(s, local, remote, status) ==
    IF status THEN [s EXCEPT !.local.codecs = local, !.remote.codecs = remote]
    ELSE Rejected([s EXCEPT !.local.codecs = local, !.remote.codecs = remote])

Intersected(s, own, i) ==
    IF own THEN WithLists(s, i.list1, i.list2, i.status)
    ELSE WithLists(s, i.list2, i.list1, i.status)

(* Enabling sets the timers, disabling kills them and sends a BYE. *)
Switched(s, state) ==
    [s EXCEPT !.state = state,
              !.timers = IF s.state = state THEN @ ELSE state = "ENABLED" /\ s.settings.rtcp]

Mirrored(s, direction) ==
    [s EXCEPT !.local = [@ EXCEPT !.id = s.remote.id, !.mid = s.remote.mid,
                                  !.state = s.remote.state, !.direction = direction],
              !.direction = direction]

mpf_rtp_stream_media_negotiate(s) ==
    LET m == Mirrored(Switched(s, s.remote.state),
                      mpf_stream_reverse_direction_get(s.remote.direction))
    IN  IF m.state # "ENABLED" THEN m
        ELSE Intersected(m, s.settings.own,
                 IF s.settings.own
                 THEN mpf_codec_lists_intersect(m.local.codecs, m.remote.codecs)
                 ELSE mpf_codec_lists_intersect(m.remote.codecs, m.local.codecs))

Pt(list, i, otherwise) == IF i = 0 THEN otherwise ELSE list.arr[i].pt

\* The codec to send with is taken from the local list.
(* An event descriptor stays as it was when none is agreed upon. *)
WithDescriptors(s) ==
    [s EXCEPT
        !.tx = IF "SEND" \in s.direction THEN Pt(s.remote.codecs, s.remote.codecs.primary, -1)
               ELSE @,
        !.tx_event = IF "SEND" \in s.direction
                     THEN Pt(s.remote.codecs, s.remote.codecs.event, @) ELSE @,
        !.rx = IF "RECEIVE" \in s.direction THEN Pt(s.local.codecs, s.local.codecs.primary, -1)
               ELSE @,
        !.rx_event = IF "RECEIVE" \in s.direction
                     THEN Pt(s.local.codecs, s.local.codecs.event, @) ELSE @]

Updated(s, remote, status) ==
    IF remote.state = "NULL" \/ ~status THEN WithDescriptors(s)
    ELSE WithDescriptors(mpf_rtp_stream_media_negotiate(
                             mpf_rtp_stream_remote_media_update(s, remote)))

(* The local media is created once; later calls only bring a remote one.   *)
mpf_rtp_stream_modify(s, local, remote, caps, search) ==
    IF s.local.state # "NULL"
    THEN [stream |-> Updated(s, remote, TRUE), cur |-> {}]
    ELSE LET c == mpf_rtp_stream_local_media_create(s, local, remote, caps, search)
         IN  [stream |-> Updated(c.stream, remote, c.status), cur |-> {c.cur}]

mpf_rtp_socket_pair_close(s) == [s EXCEPT !.socket = FALSE]

mpf_rtp_stream_remove(s) ==
    mpf_rtp_socket_pair_close([s EXCEPT !.state = "DISABLED",
                                        !.timers = @ /\ s.state # "ENABLED"])

-----------------------------------------------------------------------------
(* The factory's port range, split evenly among n media engines.           *)
PortsPerEngine(config, n) ==
    LET p == (config.max - config.min) \div n IN p - (p % 2)

mpf_rtp_factory_engine_assign(config, n) ==
    [i \in 1..n |->
        [min |-> config.min + ((i - 1) * PortsPerEngine(config, n)),
         max |-> IF i = n THEN config.max ELSE config.min + (i * PortsPerEngine(config, n)),
         cur |-> config.min + ((i - 1) * PortsPerEngine(config, n))]]

=============================================================================
