----------------------------- MODULE MediaContext -----------------------------
(***************************************************************************)
(* The media engine seen by a session: mpf_engine.c, mpf_context.c and the *)
(* objects a context moves frames with (mpf_bridge.c, mpf_multiplier.c,    *)
(* mpf_mixer.c, over mpf_stream.c, mpf_decoder.c and mpf_encoder.c).       *)
(*                                                                         *)
(* A context keeps terminations in slots, a matrix of associations between *)
(* the slots, the number of associations of each slot in each direction,   *)
(* and the objects built from the matrix when the topology is applied.     *)
(* Nothing but the order of the commands a session sends keeps the objects *)
(* and the matrix together, and the commands of one request travel in      *)
(* containers of bounded size: the engine's thread may run between two     *)
(* containers of the same request.                                         *)
(***************************************************************************)
EXTENDS Integers, Sequences, FiniteSets, FiniteSetsExt, SequencesExt

CONSTANTS
    Capacity,          \* max_termination_count of mpf_context_create
    MaxMessages,       \* MAX_MPF_MESSAGE_COUNT of a container
    ChannelSeq,        \* terminations of the engine (or application) channels
    Direction,         \* channel termination -> directions of its stream
    Opens,             \* the channel terminations whose stream opens
    Rtp,               \* RTP terminations, a sequence
    Medias,            \* what an RTP stream may be negotiated to: direction, codec
    Roles,             \* the sessions modelled: "server" and "client"
    MaxRequests        \* bound: offers and answers of the session

LPCM == "LPCM"
NONE == "NONE"
Slots == 1..Capacity
Channels == Range(ChannelSeq)
Streams == Channels \cup Range(Rtp)

VARIABLES
    media,      \* the context and its streams, see mpf_context_create
    queue,      \* request_queue of the engine: containers of commands
    session     \* what the session has still to signal and waits for

vars == <<media, queue, session>>

(***************************************************************************)
(* Streams and terminations.                                               *)
(***************************************************************************)
(* The slot of a termination is zero from mpf_termination_base_create, and *)
(* zero is the first slot of the header; slots count from one here.        *)
mpf_audio_stream_create(direction) ==
    [slot |-> 1, direction |-> direction, rx |-> NONE, tx |-> NONE,
     rx_open |-> 0, tx_open |-> 0]

(* The descriptor of a channel's stream is made of its capabilities the    *)
(* first time it is needed, and then stays.  An RTP stream has the one its *)
(* media were negotiated to.                                               *)
mpf_audio_stream_rx_validate(m, t) ==
    IF t \in Channels /\ m.term[t].rx = NONE THEN [m EXCEPT !.term[t].rx = LPCM] ELSE m

mpf_audio_stream_tx_validate(m, t) ==
    IF t \in Channels /\ m.term[t].tx = NONE THEN [m EXCEPT !.term[t].tx = LPCM] ELSE m

StreamOpens(t) == t \notin Channels \/ t \in Opens

mpf_audio_stream_rx_open(m, t) == [m EXCEPT !.term[t].rx_open = @ + 1]
mpf_audio_stream_tx_open(m, t) == [m EXCEPT !.term[t].tx_open = @ + 1]
mpf_audio_stream_rx_close(m, t) == [m EXCEPT !.term[t].rx_open = @ - 1]
mpf_audio_stream_tx_close(m, t) == [m EXCEPT !.term[t].tx_open = @ - 1]

(* The streams a decoder stands before, or an encoder after: those that do *)
(* not carry linear PCM.                                                   *)
mpf_decoder_create(m, sources) == {t \in sources : m.term[t].rx # LPCM}
mpf_encoder_create(m, sinks) == {t \in sinks : m.term[t].tx # LPCM}

(***************************************************************************)
(* Objects: the streams read and written on every tick, in order.          *)
(***************************************************************************)
Object(kind, sources, sinks, decoders, encoders) ==
    [kind |-> kind, sources |-> sources, sinks |-> sinks,
     decoders |-> decoders, encoders |-> encoders]

mpf_context_object_add(m, object) == [m EXCEPT !.objects = Append(@, object)]

(* The bridge is given up when a stream does not open; the source is       *)
(* closed again when it is the sink that does not.                         *)
BridgeOpened(m, object) ==
    IF StreamOpens(object.sources[1]) /\ StreamOpens(object.sinks[1])
    THEN mpf_context_object_add(
             mpf_audio_stream_tx_open(mpf_audio_stream_rx_open(m, object.sources[1]),
                                      object.sinks[1]), object)
    ELSE m

mpf_null_bridge_create(m, source, sink) ==
    BridgeOpened(m, Object("null bridge", <<source>>, <<sink>>, {}, {}))

mpf_linear_bridge_create(m, source, sink) ==
    BridgeOpened(m, Object("bridge", <<source>>, <<sink>>,
                           mpf_decoder_create(m, {source}), mpf_encoder_create(m, {sink})))

BridgeValidated(m, source, sink) ==
    IF m.term[source].rx = NONE \/ m.term[sink].tx = NONE THEN m
    ELSE IF m.term[source].rx = m.term[sink].tx
         THEN mpf_null_bridge_create(m, source, sink)
         ELSE mpf_linear_bridge_create(m, source, sink)

mpf_bridge_create(m, source, sink) ==
    BridgeValidated(mpf_audio_stream_tx_validate(mpf_audio_stream_rx_validate(m, source), sink),
                    source, sink)

(* A multiplier and a mixer do not look at what opening a stream returns.  *)
MultiplierOpened(m, source, sinks) ==
    IF m.term[source].rx = NONE THEN m
    ELSE mpf_context_object_add(
             FoldLeft(mpf_audio_stream_tx_open, mpf_audio_stream_rx_open(m, source), sinks),
             Object("multiplier", <<source>>, sinks, mpf_decoder_create(m, {source}),
                    mpf_encoder_create(m, Range(sinks))))

mpf_multiplier_create(m, source, sinks) ==
    MultiplierOpened(FoldLeft(mpf_audio_stream_tx_validate,
                              mpf_audio_stream_rx_validate(m, source), sinks),
                     source, sinks)

MixerOpened(m, sources, sink) ==
    IF m.term[sink].tx = NONE THEN m
    ELSE mpf_context_object_add(
             FoldLeft(mpf_audio_stream_rx_open, mpf_audio_stream_tx_open(m, sink), sources),
             Object("mixer", sources, <<sink>>, mpf_decoder_create(m, Range(sources)),
                    mpf_encoder_create(m, {sink})))

mpf_mixer_create(m, sources, sink) ==
    MixerOpened(FoldLeft(mpf_audio_stream_rx_validate,
                         mpf_audio_stream_tx_validate(m, sink), sources),
                sources, sink)

(* mpf_bridge_destroy, mpf_multiplier_destroy and mpf_mixer_destroy        *)
mpf_object_destroy(m, object) ==
    FoldLeft(mpf_audio_stream_tx_close,
             FoldLeft(mpf_audio_stream_rx_close, m, object.sources), object.sinks)

(***************************************************************************)
(* The context.                                                            *)
(***************************************************************************)
mpf_context_create ==
    [header |-> [i \in Slots |-> NONE], tx |-> [i \in Slots |-> 0],
     rx |-> [i \in Slots |-> 0], on |-> {}, count |-> 0, ring |-> FALSE,
     objects |-> <<>>,
     term |-> [t \in Streams |->
                  mpf_audio_stream_create(IF t \in Channels THEN Direction[t] ELSE {})]]

Occupied(m) == {i \in Slots : m.header[i] # NONE}
InOrder(slots) == SetToSortSeq(slots, <)
Sinks(m, i) == {j \in Occupied(m) : <<i, j>> \in m.on}
Sources(m, j) == {i \in Occupied(m) : <<i, j>> \in m.on}
AtSlots(m, slots) == [k \in DOMAIN InOrder(slots) |-> m.header[InOrder(slots)[k]]]

SlotTaken(m, t, i) ==
    [m EXCEPT !.header[i] = t, !.tx[i] = 0, !.rx[i] = 0, !.term[t].slot = i,
              !.count = @ + 1, !.ring = TRUE]

mpf_context_termination_add(m, t) ==
    IF Occupied(m) = Slots THEN m ELSE SlotTaken(m, t, Min(Slots \ Occupied(m)))

IsMember(m, t) == m.term[t].slot \in Slots /\ m.header[m.term[t].slot] = t

(* Switches the association of one ordered pair of slots on or off. *)
On(m, i, j) ==
    IF <<i, j>> \in m.on THEN m
    ELSE [m EXCEPT !.on = @ \cup {<<i, j>>}, !.tx[i] = @ + 1, !.rx[j] = @ + 1]

Off(m, pair) ==
    IF pair \notin m.on THEN m
    ELSE [m EXCEPT !.on = @ \ {pair}, !.tx[pair[1]] = @ - 1, !.rx[pair[2]] = @ - 1]

PairsOff(m, i, others) ==
    FoldLeft(Off, m, FlattenSeq([k \in DOMAIN InOrder(others) |->
                                    <<<<i, InOrder(others)[k]>>, <<InOrder(others)[k], i>>>>]))

SlotFreed(m, t, i) ==
    [m EXCEPT !.header[i] = NONE, !.term[t].slot = 0, !.count = @ - 1,
              !.ring = (m.count # 1)]

mpf_context_termination_subtract(m, t) ==
    IF ~IsMember(m, t) THEN m
    ELSE SlotFreed(PairsOff(m, m.term[t].slot, Occupied(m)), t, m.term[t].slot)

stream_direction_compatibility_check(m, source, sink) ==
    /\ "RECEIVE" \in m.term[source].direction
    /\ "SEND" \in m.term[sink].direction

OneWay(m, source, sink) ==
    IF stream_direction_compatibility_check(m, source, sink)
    THEN On(m, m.term[source].slot, m.term[sink].slot)
    ELSE m

mpf_context_association_add(m, t, u) ==
    IF ~IsMember(m, t) \/ ~IsMember(m, u) THEN m ELSE OneWay(OneWay(m, t, u), u, t)

mpf_context_topology_destroy(m) ==
    [FoldLeft(mpf_object_destroy, m, m.objects) EXCEPT !.objects = <<>>]

(* A slot with both counts at zero is passed over. *)
SlotReset(m, i) ==
    IF m.tx[i] = 0 /\ m.rx[i] = 0 THEN m
    ELSE PairsOff(m, i, {j \in Occupied(m) : j >= i})

mpf_context_associations_reset(m) ==
    FoldLeft(SlotReset, mpf_context_topology_destroy(m), InOrder(Occupied(m)))

mpf_context_bridge_create_despite_mixer(m, i) ==
    mpf_bridge_create(m, m.header[i], m.header[Min(Sinks(m, i))])

(* No bridge to a stream that has a mixer. *)
mpf_context_bridge_create(m, i) ==
    IF \E j \in Sinks(m, i) : m.rx[j] > 1 THEN m
    ELSE mpf_bridge_create(m, m.header[i], m.header[Min(Sinks(m, i))])

mpf_context_multiplier_create(m, i) ==
    mpf_multiplier_create(m, m.header[i], AtSlots(m, Sinks(m, i)))

mpf_context_mixer_create(m, j) ==
    IF m.rx[j] <= 1 THEN m ELSE mpf_mixer_create(m, AtSlots(m, Sources(m, j)), m.header[j])

SlotApplied(m, i) ==
    mpf_context_mixer_create(
        IF m.tx[i] = 0 THEN m
        ELSE IF m.tx[i] = 1 THEN mpf_context_bridge_create(m, i)
             ELSE mpf_context_multiplier_create(m, i), i)

mpf_context_topology_apply(m) ==
    FoldLeft(SlotApplied, mpf_context_topology_destroy(m), InOrder(Occupied(m)))

(***************************************************************************)
(* The engine: the commands of a container one after the other.            *)
(***************************************************************************)
Command(id, t, u, desc) == [id |-> id, t |-> t, u |-> u, desc |-> desc]
NoMedia == [direction |-> {}, codec |-> NONE]

(* An RTP termination is given its media by add or modify; the descriptor  *)
(* of a direction the media lacks stays.                                   *)
mpf_termination_modify(m, t, desc) ==
    IF t \in Channels \/ desc = NoMedia THEN m
    ELSE [m EXCEPT !.term[t].direction = desc.direction,
                   !.term[t].rx = IF "RECEIVE" \in desc.direction THEN desc.codec ELSE @,
                   !.term[t].tx = IF "SEND" \in desc.direction THEN desc.codec ELSE @]

mpf_engine_command(m, c) ==
    CASE c.id = "ADD_TERMINATION" ->
           mpf_context_termination_add(mpf_termination_modify(m, c.t, c.desc), c.t)
      [] c.id = "MODIFY_TERMINATION" -> mpf_termination_modify(m, c.t, c.desc)
      [] c.id = "SUBTRACT_TERMINATION" -> mpf_context_termination_subtract(m, c.t)
      [] c.id = "ADD_ASSOCIATION" -> mpf_context_association_add(m, c.t, c.u)
      [] c.id = "RESET_ASSOCIATIONS" -> mpf_context_associations_reset(m)
      [] c.id = "APPLY_TOPOLOGY" -> mpf_context_topology_apply(m)
      [] c.id = "DESTROY_TOPOLOGY" -> mpf_context_topology_destroy(m)

(* One container is taken from the queue and answered with one. *)
mpf_engine_msg_process ==
    /\ queue # <<>>
    /\ media' = FoldLeft(mpf_engine_command, media, queue[1])
    /\ queue' = Tail(queue)
    /\ session' = [session EXCEPT !.subrequest_count = @ - Len(queue[1]),
                                  !.phase = IF @ = "BUSY" /\ session.todo = <<>>
                                               /\ session.subrequest_count = Len(queue[1])
                                            THEN "READY" ELSE @]

(***************************************************************************)
(* The sessions: the commands of a request are put in containers, a full   *)
(* one being signalled when the next command comes.                        *)
(***************************************************************************)
mpf_engine_message_get(commands) ==
    [k \in 1..((Len(commands) + MaxMessages - 1) \div MaxMessages) |->
        SubSeq(commands, (k - 1) * MaxMessages + 1,
               Min({k * MaxMessages, Len(commands)}))]

Request(commands, phase) ==
    [session EXCEPT !.todo = mpf_engine_message_get(commands), !.phase = phase,
                    !.subrequest_count = Len(commands), !.requests = @ + 1]

mpf_engine_message_send ==
    /\ session.todo # <<>>
    /\ queue' = Append(queue, session.todo[1])
    /\ session' = [session EXCEPT !.todo = Tail(@)]
    /\ UNCHANGED media

(* One command for each number from first to last. *)
Each(Op(_), first, last) == [k \in 1..Max({0, last + 1 - first}) |-> Op(first + k - 1)]

Topology(id) == Command(id, NONE, NONE, NoMedia)
AddChannel(k) == Command("ADD_TERMINATION", ChannelSeq[k], NONE, NoMedia)
SubtractChannel(k) == Command("SUBTRACT_TERMINATION", ChannelSeq[k], NONE, NoMedia)
SubtractRtp(k) == Command("SUBTRACT_TERMINATION", Rtp[k], NONE, NoMedia)

Waiting == session.todo # <<>> \/ session.subrequest_count > 0

(* The server associates its RTP termination with every channel. *)
mrcp_server_av_media_offer_process(n, desc) ==
    LET Associate(k) == Command("ADD_ASSOCIATION", Rtp[1], ChannelSeq[k], NoMedia)
    IN <<Command(IF session.rtp = 1 THEN "MODIFY_TERMINATION" ELSE "ADD_TERMINATION",
                 Rtp[1], NONE, desc)>> \o Each(Associate, 1, n)

mrcp_server_session_offer_process(n, audio, desc) ==
    /\ session.role = "server" /\ session.phase \in {"IDLE", "READY"} /\ ~Waiting
    /\ session.requests < MaxRequests
    /\ session' = [Request(<<Topology("RESET_ASSOCIATIONS")>>
                           \o Each(AddChannel, session.channels + 1, n)
                           \o (IF audio THEN mrcp_server_av_media_offer_process(n, desc) ELSE <<>>)
                           \o <<Topology("APPLY_TOPOLOGY")>>, "BUSY")
                       EXCEPT !.channels = n, !.associated = audio,
                              !.rtp = IF audio THEN 1 ELSE @]
    /\ UNCHANGED <<media, queue>>

mrcp_server_session_terminate_process ==
    /\ session.role = "server" /\ session.phase = "READY" /\ ~Waiting
    /\ session' = Request(<<Topology("RESET_ASSOCIATIONS")>>
                          \o Each(SubtractChannel, 1, session.channels)
                          \o Each(SubtractRtp, 1, session.rtp), "OVER")
    /\ UNCHANGED <<media, queue>>

(* The client makes an RTP termination for each channel, without remote    *)
(* media until the answer comes.                                           *)
mrcp_client_channel_add ==
    /\ session.role = "client" /\ session.phase \in {"IDLE", "READY"} /\ ~Waiting
    /\ session.channels < Len(ChannelSeq)
    /\ session' = [Request(<<AddChannel(session.channels + 1),
                             Command("ADD_TERMINATION", Rtp[session.rtp + 1], NONE, NoMedia)>>,
                           "OFFERED")
                       EXCEPT !.channels = @ + 1, !.rtp = @ + 1]
    /\ UNCHANGED <<media, queue>>

mrcp_client_av_media_answer_process(desc) ==
    LET Modify(k) == <<Command("MODIFY_TERMINATION", Rtp[k], NONE, desc),
                       Command("ADD_ASSOCIATION", Rtp[k], ChannelSeq[k], NoMedia)>>
    IN FlattenSeq(Each(Modify, 1, session.rtp))

mrcp_client_session_answer_process(desc) ==
    /\ session.role = "client" /\ session.phase \in {"OFFERED", "READY"} /\ ~Waiting
    /\ session.requests < MaxRequests
    /\ session' = [Request(<<Topology("RESET_ASSOCIATIONS")>>
                           \o mrcp_client_av_media_answer_process(desc)
                           \o <<Topology("APPLY_TOPOLOGY")>>, "BUSY") EXCEPT !.associated = TRUE]
    /\ UNCHANGED <<media, queue>>

mrcp_client_session_terminate ==
    /\ session.role = "client" /\ session.phase \in {"OFFERED", "READY"} /\ ~Waiting
    /\ session' = Request(<<Topology("DESTROY_TOPOLOGY")>>
                          \o Each(SubtractChannel, 1, session.channels)
                          \o Each(SubtractRtp, 1, session.rtp), "OVER")
    /\ UNCHANGED <<media, queue>>

Init ==
    /\ media = mpf_context_create
    /\ queue = <<>>
    /\ session \in [role : Roles, phase : {"IDLE"}, todo : {<<>>}, subrequest_count : {0},
                    channels : {0}, rtp : {0}, requests : {0}, associated : {FALSE}]

Next ==
    \/ mpf_engine_msg_process
    \/ mpf_engine_message_send
    \/ \E n \in 1..Len(ChannelSeq), audio \in BOOLEAN, desc \in Medias :
          /\ n >= session.channels
          /\ mrcp_server_session_offer_process(n, audio, desc)
    \/ mrcp_server_session_terminate_process
    \/ mrcp_client_channel_add
    \/ \E desc \in Medias : mrcp_client_session_answer_process(desc)
    \/ mrcp_client_session_terminate

Spec == Init /\ [][Next]_vars

(***************************************************************************)
(* What the objects move: pairs of streams, with the number of the object. *)
(***************************************************************************)
Moves(m) == {<<m.objects[k].sources[a], m.objects[k].sinks[b], k>> :
                <<k, a, b>> \in {x \in (1..Len(m.objects)) \X Slots \X Slots :
                                    /\ x[2] \in DOMAIN m.objects[x[1]].sources
                                    /\ x[3] \in DOMAIN m.objects[x[1]].sinks}}

Associated ==
    IF ~session.associated THEN {}
    ELSE IF session.role = "server"
         THEN {<<Rtp[1], ChannelSeq[k]>> : k \in 1..session.channels}
         ELSE {<<Rtp[k], ChannelSeq[k]>> : k \in 1..session.rtp}

(* The streams frames have to pass between once a request is answered. *)
Wanted(m) ==
    {p \in Associated \cup {<<q[2], q[1]>> : q \in Associated} :
        /\ IsMember(m, p[1]) /\ IsMember(m, p[2])
        /\ stream_direction_compatibility_check(m, p[1], p[2])
        /\ StreamOpens(p[1]) /\ StreamOpens(p[2])}

(* Type invariant. *)
TypeOK ==
    /\ media.on \subseteq Slots \X Slots
    /\ \A i \in Slots : media.header[i] \in Streams \cup {NONE}
    /\ \A i \in Slots : media.tx[i] \in 0..Capacity /\ media.rx[i] \in 0..Capacity
    /\ media.count \in 0..Capacity /\ session.subrequest_count \in Nat

(* The counts kept beside the matrix (mpf_context.c) are those of the      *)
(* matrix, associations are between members, the number of terminations is *)
(* right and the engine processes the context exactly while it has one:    *)
(* whatever order adding, subtracting, associating and resetting came in.  *)
CountsMatchMatrix ==
    /\ \A i \in Slots : /\ media.tx[i] = Cardinality({p \in media.on : p[1] = i})
                           \/ media.header[i] = NONE
                        /\ media.rx[i] = Cardinality({p \in media.on : p[2] = i})
                           \/ media.header[i] = NONE
    /\ media.on \subseteq Occupied(media) \X Occupied(media)
    /\ media.count = Cardinality(Occupied(media))
    /\ media.ring = (media.count > 0)

(* On no tick, not even between two containers of one request, does an     *)
(* object read or write a stream whose termination has left the context,   *)
(* and a stream is open in a direction exactly as often as an object uses  *)
(* it, which is at most once.                                              *)
ObjectsUseMembers ==
    /\ \A x \in Moves(media) : IsMember(media, x[1]) /\ IsMember(media, x[2])
    /\ \A t \in Streams :
          LET reads == {k \in DOMAIN media.objects : t \in Range(media.objects[k].sources)}
              writes == {k \in DOMAIN media.objects : t \in Range(media.objects[k].sinks)}
          IN /\ media.term[t].rx_open = Cardinality(reads) /\ Cardinality(reads) <= 1
             /\ media.term[t].tx_open = Cardinality(writes) /\ Cardinality(writes) <= 1

(* When the engine has answered the last command of an offer or answer,    *)
(* frames pass between exactly the streams that were associated and whose  *)
(* directions agree, each pair through one object, decoded and encoded     *)
(* where the formats of the two differ.                                    *)
MediaFlowsAsNegotiated ==
    session.phase = "READY" =>
        /\ {<<x[1], x[2]>> : x \in {y \in Moves(media) : StreamOpens(y[1]) /\ StreamOpens(y[2])}}
              = Wanted(media)
        /\ \A x, y \in Moves(media) : x[1] = y[1] /\ x[2] = y[2] => x = y
        /\ \A x \in Moves(media) :
              LET object == media.objects[x[3]]
                  carried == IF x[1] \in object.decoders THEN LPCM ELSE media.term[x[1]].rx
              IN (IF x[2] \in object.encoders /\ carried = LPCM
                  THEN media.term[x[2]].tx ELSE carried) = media.term[x[2]].tx
====
