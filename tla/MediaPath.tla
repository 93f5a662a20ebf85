------------------------------ MODULE MediaPath ------------------------------
(***************************************************************************)
(* Audio and DTMF from one RTP stream to another: a sender that transmits   *)
(* one frame per tick of its media clock, a network that delays, loses,     *)
(* duplicates and reorders packets, and a receiver that reads one frame per *)
(* tick of its own clock from the jitter buffer into a DTMF detector.       *)
(* Audio frames carry the number of the tick they were recorded at.         *)
(***************************************************************************)
EXTENDS Integers, Sequences, FiniteSetsExt, SequencesExt

(***************************************************************************)
(* The receiving side of an RTP stream (libs/mpf/src/mpf_rtp_stream.c):     *)
(* validation of packets, source probation, sequence and timestamp          *)
(* tracking, restarts, and the statistics of the RTCP receiver report.      *)
(* Operators on a receiver record; time is counted in frames of 10 ms.      *)
(***************************************************************************)

(***************************************************************************)
(* The jitter buffer of an RTP receiver (libs/mpf/src/mpf_jitter_buffer.c): *)
(* operators on a buffer record, one per function of the file.  Received    *)
(* packets are written at a position computed from their timestamp, the     *)
(* media clock reads one frame per tick.  Positions are 32-bit unsigned in  *)
(* the code; here they are modulo TsMod.                                    *)
(***************************************************************************)

CONSTANTS
    TsMod,       \* the modulus of a timestamp (2^32 in the code)
    FrameTs,     \* timestamp units of one frame (jb->frame_ts)
    StatPeriod   \* measurements before the length statistics start over (50)

CODEC_FRAME_TIME_BASE == 10

Unsigned(n) == n % TsMod

\* A named event as it is carried by a packet and by a frame.
NoEvent == [event_id |-> 0, duration |-> 0, edge |-> 0]

\* A slot of the buffer: audio 0 and event FALSE are MEDIA_FRAME_TYPE_NONE.
EmptyFrame == [audio |-> 0, event |-> FALSE, marker |-> "NONE", event_frame |-> NoEvent]

\* event_write_update is a pointer: NULL, to event_write_base, or into a slot.
NullUpdate == -2
BaseUpdate == -1

ValidConfig(config) ==
    LET initial == config.initial
        max == IF config.max < initial THEN 2 * initial ELSE config.max
        rest == initial % CODEC_FRAME_TIME_BASE
    IN  [config EXCEPT !.min = Min({@, initial}),
                       !.max = IF max = 0 THEN 600 ELSE max,
                       !.initial = IF rest = 0 THEN initial
                                   ELSE initial + CODEC_FRAME_TIME_BASE - rest]

InitialDelay(config) == (FrameTs * config.initial) \div CODEC_FRAME_TIME_BASE

mpf_jitter_buffer_create(requested) ==
    LET config == ValidConfig(requested)
        frame_count == config.max \div CODEC_FRAME_TIME_BASE
    IN  [config |-> config, frame_count |-> frame_count,
         playout_delay_ts |-> InitialDelay(config),
         max_playout_delay_ts |-> (FrameTs * config.max) \div CODEC_FRAME_TIME_BASE,
         write_sync |-> TRUE, write_ts_offset |-> 0, write_ts |-> 0, read_ts |-> 0,
         min_length_ts |-> 0, max_length_ts |-> 0, measurment_count |-> 0,
         event_write_base_ts |-> 0, event_write_base |-> NoEvent,
         event_write_update |-> NullUpdate,
         frames |-> [i \in 0 .. frame_count - 1 |-> EmptyFrame]]

\* The frames stay in their slots: only the write position is taken back.
mpf_jitter_buffer_restart(jb) ==
    [jb EXCEPT !.write_sync = TRUE, !.write_ts_offset = 0, !.write_ts = jb.read_ts,
               !.event_write_base_ts = 0, !.event_write_base = NoEvent,
               !.event_write_update = NullUpdate,
               !.playout_delay_ts =
                    IF jb.config.adaptive /\ @ = jb.max_playout_delay_ts
                    THEN InitialDelay(jb.config) ELSE @]

Slot(jb, ts) == (ts \div FrameTs) % jb.frame_count

mpf_jitter_buffer_stat_update(jb) ==
    LET full == jb.measurment_count = StatPeriod
        mean == jb.min_length_ts + (jb.max_length_ts - jb.min_length_ts) \div 2
        lo == IF full THEN mean ELSE jb.min_length_ts
        hi == IF full THEN mean ELSE jb.max_length_ts
        length == jb.write_ts - jb.read_ts
    IN  [jb EXCEPT !.measurment_count = (IF full THEN 0 ELSE @) + 1,
                   !.max_length_ts = IF length > hi THEN length ELSE hi,
                   !.min_length_ts = IF length <= hi /\ length < lo THEN length ELSE lo]

mpf_jitter_buffer_frame_allign(ts) == ts - (ts % FrameTs)

mpf_jitter_buffer_write_prepare(jb, ts) ==
    LET skew == jb.config.time_skew_detection
    IN  IF ~jb.write_sync THEN jb
        ELSE [jb EXCEPT !.write_ts_offset = ts - jb.read_ts, !.write_sync = FALSE,
                        !.min_length_ts = IF skew THEN jb.playout_delay_ts ELSE @,
                        !.max_length_ts = IF skew THEN jb.playout_delay_ts ELSE @,
                        !.measurment_count = IF skew THEN 0 ELSE @]

WritePosition(jb, ts) ==
    mpf_jitter_buffer_frame_allign(Unsigned(ts - jb.write_ts_offset + jb.playout_delay_ts))

-----------------------------------------------------------------------------
(* mpf_jitter_buffer_write: what happens to an audio packet *)

Discard(jb, result) == [jb |-> jb, write_ts |-> 0, result |-> result]
Keep(jb, write_ts) == [jb |-> jb, write_ts |-> write_ts, result |-> "JB_OK"]

\* A new talkspurt finds the buffer empty: the offset is computed anew.
Resync(jb, marker) ==
    [jb EXCEPT !.write_sync = @ \/ (marker /\ jb.write_ts <= jb.read_ts)]

\* The playout delay grows by delta, unless the buffer is static or at its limit.
AdaptDelay(jb, write_ts, delta) ==
    LET skew == jb.config.time_skew_detection
    IN  IF delta = 0 THEN Keep(jb, write_ts)
        ELSE IF ~jb.config.adaptive \/ jb.playout_delay_ts + delta > jb.max_playout_delay_ts
        THEN Discard(jb, "JB_DISCARD_TOO_LATE")
        ELSE Keep([jb EXCEPT !.playout_delay_ts = @ + delta,
                             !.min_length_ts = IF skew THEN @ + delta ELSE @,
                             !.max_length_ts = IF skew THEN @ + delta ELSE @],
                  write_ts + delta)

\* The clock of the sender is behind: the offset moves by the skew.
CorrectSkew(jb, ts, write_ts, delta) ==
    LET skew_ts == mpf_jitter_buffer_frame_allign(jb.playout_delay_ts - jb.max_length_ts)
        offset == jb.write_ts_offset - skew_ts
    IN  IF jb.max_length_ts > 0 /\ jb.max_length_ts < jb.playout_delay_ts
        THEN AdaptDelay([jb EXCEPT !.write_ts_offset = offset,
                                   !.min_length_ts = @ + skew_ts, !.max_length_ts = @ + skew_ts],
                        Unsigned(ts - offset + jb.playout_delay_ts),
                        IF skew_ts < delta THEN delta - skew_ts ELSE 0)
        ELSE AdaptDelay(jb, write_ts, delta)

\* A packet behind the last one written makes the delay grow all the same.
PlaceLate_any_order(jb, ts, write_ts) == AdaptDelay(jb, write_ts, jb.read_ts - write_ts)

PlaceLate(jb, ts, write_ts) ==
    LET delta == jb.read_ts - write_ts
        spread == Unsigned(jb.max_length_ts - jb.min_length_ts)
    IN  IF write_ts < jb.write_ts THEN Discard(jb, "JB_DISCARD_TOO_LATE")
        ELSE IF ~jb.config.time_skew_detection THEN AdaptDelay(jb, write_ts, delta)
        ELSE CorrectSkew(jb, ts, write_ts,
                         IF spread > jb.playout_delay_ts + delta
                         THEN mpf_jitter_buffer_frame_allign(spread - jb.playout_delay_ts)
                         ELSE delta)

\* available_frame_count is unsigned: a position beyond the buffer leaves a huge
\* count, and only a position exactly at its end leaves none.
Available(jb, write_ts, wanted) ==
    LET ahead == Unsigned(write_ts - jb.read_ts) \div FrameTs
    IN  IF ahead > jb.frame_count THEN wanted ELSE Min({wanted, jb.frame_count - ahead})

StoreFrames(jb, write_ts, data, n) ==
    LET at(k) == Slot(jb, write_ts + (k - 1) * FrameTs)
        end == Unsigned(write_ts + n * FrameTs)
        last(i) == {k \in 1 .. n : at(k) = i}
    IN  [jb EXCEPT !.frames = [i \in DOMAIN @ |->
                        IF last(i) = {} THEN @[i] ELSE [@[i] EXCEPT !.audio = data[Max(last(i))]]],
                   !.write_ts = IF end > @ THEN end ELSE @]

Store(placed, data) ==
    LET jb == placed.jb
        n == Available(jb, placed.write_ts, Len(data))
    IN  IF placed.result # "JB_OK" THEN placed
        ELSE IF n = 0 THEN Discard(jb, "JB_DISCARD_TOO_EARLY")
        ELSE Keep(StoreFrames(jb, placed.write_ts, data, n), placed.write_ts)

Placed(jb, ts, write_ts) ==
    IF write_ts >= jb.read_ts THEN Keep(jb, write_ts) ELSE PlaceLate(jb, ts, write_ts)

PreparedWrite(jb, data, ts) == Store(Placed(jb, ts, WritePosition(jb, ts)), data)

mpf_jitter_buffer_write(jb, data, ts, marker) ==
    PreparedWrite(mpf_jitter_buffer_write_prepare(Resync(jb, marker), ts), data, ts)

-----------------------------------------------------------------------------
(* mpf_jitter_buffer_event_write: what happens to a named event packet *)

LastUpdate(jb) ==
    IF jb.event_write_update = BaseUpdate THEN jb.event_write_base
    ELSE jb.frames[jb.event_write_update].event_frame

\* A packet without marker that starts an event all the same.
MissingMarker(jb, named_event, write_ts) ==
    \/ jb.event_write_base.event_id # named_event.event_id
    \/ jb.event_write_update = NullUpdate
    \/ /\ jb.event_write_base_ts # write_ts
       /\ write_ts > jb.event_write_base_ts + LastUpdate(jb).duration + 4 * FrameTs

EventBase(jb, named_event, write_ts) ==
    [jb EXCEPT !.event_write_base = named_event, !.event_write_update = BaseUpdate,
               !.event_write_base_ts = write_ts]

\* Nothing new: an update from the past, or a retransmission.
StaleUpdate(last, named_event) ==
    \/ named_event.duration < last.duration
    \/ /\ named_event.duration = last.duration
       /\ last.edge = 1 \/ last.edge = named_event.edge

StoreEvent(jb, named_event, write_ts, start) ==
    LET slot == Slot(jb, write_ts)
        end == write_ts + FrameTs
    IN  Keep([jb EXCEPT
                !.frames[slot] = [@ EXCEPT
                    !.event = TRUE, !.event_frame = named_event,
                    !.marker = IF start THEN "START_OF_EVENT"
                               ELSE IF named_event.edge = 1 THEN "END_OF_EVENT" ELSE @],
                !.event_write_update = slot,
                !.write_ts = IF end > @ THEN end ELSE @], write_ts)

PlaceEvent(jb, named_event, write_ts, start) ==
    LET delta == jb.read_ts - write_ts
    IN  IF write_ts < jb.read_ts
        THEN IF ~jb.config.adaptive \/ jb.playout_delay_ts + delta > jb.max_playout_delay_ts
             THEN Discard(jb, "JB_DISCARD_TOO_LATE")
             ELSE StoreEvent([jb EXCEPT !.playout_delay_ts = @ + delta,
                                        !.event_write_base_ts = IF start THEN jb.read_ts ELSE @],
                             named_event, jb.read_ts, start)
        ELSE IF (write_ts - jb.read_ts) \div FrameTs >= jb.frame_count
        THEN Discard(jb, "JB_DISCARD_TOO_EARLY")
        ELSE StoreEvent(jb, named_event, write_ts, start)

UpdateEvent(jb, named_event, write_ts) ==
    IF StaleUpdate(LastUpdate(jb), named_event) THEN Keep(jb, write_ts)
    ELSE PlaceEvent(jb, named_event, Unsigned(write_ts + LastUpdate(jb).duration), FALSE)

PreparedEvent(jb, named_event, write_ts, marker) ==
    IF marker \/ MissingMarker(jb, named_event, write_ts)
    THEN PlaceEvent(EventBase(jb, named_event, write_ts), named_event, write_ts, TRUE)
    ELSE IF jb.event_write_base_ts # write_ts
    THEN UpdateEvent(EventBase(jb, named_event, write_ts), named_event, write_ts)
    ELSE UpdateEvent(jb, named_event, write_ts)

EventWrite(jb, named_event, ts, marker) ==
    PreparedEvent(jb, named_event, WritePosition(jb, ts), marker)

mpf_jitter_buffer_event_write(jb, named_event, ts, marker) ==
    EventWrite(mpf_jitter_buffer_write_prepare(jb, ts), named_event, ts, marker)

-----------------------------------------------------------------------------
(* mpf_jitter_buffer_read: one frame per tick *)

FrameRead(jb) ==
    IF jb.write_ts > jb.read_ts THEN jb.frames[Slot(jb, jb.read_ts)] ELSE EmptyFrame

ReadAdvance(jb) ==
    [jb EXCEPT !.frames[Slot(jb, jb.read_ts)] = [@ EXCEPT !.audio = 0, !.event = FALSE, !.marker = "NONE"],
               !.read_ts = Unsigned(@ + FrameTs)]

mpf_jitter_buffer_read(jb) ==
    IF jb.config.time_skew_detection THEN mpf_jitter_buffer_stat_update(ReadAdvance(jb))
    ELSE ReadAdvance(jb)

-----------------------------------------------------------------------------

CONSTANTS
    RTP_SEQ_MOD,          \* 2^16 in the code
    MAX_DROPOUT, MAX_MISORDER,
    DEVIATION_THRESHOLD,  \* timestamp deviation that restarts the receiver
    INTER_TALKSPURT_GAP,  \* silence, in frames, after which a talkspurt is assumed
    Probation             \* packets before a new source is accepted (5)

DISCARDED_TO_RECEIVED_RATIO_THRESHOLD == 30

NoStat == [received_packets |-> 0, invalid_packets |-> 0, discarded_packets |-> 0,
           ignored_packets |-> 0, lost_packets |-> 0, restarts |-> 0]
NoHistory == [seq_cycles |-> 0, seq_num_base |-> 0, seq_num_max |-> 0, ts_last |-> 0,
              time_last |-> 0, ssrc_new |-> 0, ssrc_probation |-> 0]
NoPeriodicHistory == [received_prior |-> 0, expected_prior |-> 0, discarded_prior |-> 0]

rtp_receiver_init == [rr_stat |-> [ssrc |-> 0, fraction |-> 0, lost |-> 0], stat |-> NoStat,
                      history |-> NoHistory, periodic_history |-> NoPeriodicHistory]

\* The stream is opened with a fresh jitter buffer; the statistics are kept.
mpf_rtp_rx_stream_open(receiver, jb_config) ==
    [rr_stat |-> receiver.rr_stat, stat |-> receiver.stat, history |-> receiver.history,
     periodic_history |-> receiver.periodic_history,
     jb |-> mpf_jitter_buffer_create(jb_config)]

ExpectedPackets(rx) ==
    IF rx.stat.received_packets = 0 THEN 0
    ELSE rx.history.seq_cycles + rx.history.seq_num_max - rx.history.seq_num_base + 1

Above(n, m) == IF n > m THEN n - m ELSE 0

rtp_rx_overall_stat_reset(rx) ==
    [rx EXCEPT !.stat = NoStat, !.history = NoHistory, !.periodic_history = NoPeriodicHistory]

rtp_rx_stat_init(rx, header, time) ==
    [rx EXCEPT !.rr_stat.ssrc = header.ssrc,
               !.history.seq_num_base = header.sequence, !.history.seq_num_max = header.sequence,
               !.history.ts_last = header.timestamp, !.history.time_last = time]

rtp_rx_restart(rx) ==
    [rtp_rx_overall_stat_reset(rx) EXCEPT
        !.jb = mpf_jitter_buffer_restart(rx.jb),
        !.stat.restarts = rx.stat.restarts + 1]

\* The payload starts behind the fixed header, the contributing sources and the
\* extension; "valid" stands for the version and for a payload within the packet.
rtp_rx_header_skip(packet) == packet.valid

\* The fraction is kept in eight bits.
LostFraction(lost_interval, expected_interval) ==
    IF expected_interval = 0 \/ lost_interval = 0 THEN 0
    ELSE (lost_interval * 256) \div expected_interval

rtp_periodic_history_update(rx) ==
    LET expected_packets == ExpectedPackets(rx)
        expected_interval == expected_packets - rx.periodic_history.expected_prior
        received_interval == rx.stat.received_packets - rx.periodic_history.received_prior
    IN  [rx EXCEPT
            !.periodic_history = [expected_prior |-> expected_packets,
                                  received_prior |-> rx.stat.received_packets,
                                  discarded_prior |-> rx.stat.discarded_packets],
            !.rr_stat.fraction = LostFraction(Above(expected_interval, received_interval),
                                              expected_interval),
            !.rr_stat.lost = Above(expected_packets, rx.stat.received_packets)]

\* A packet of another source is put on probation before the receiver follows it.
Settled(rx, ssrc) ==
    [rx EXCEPT !.history.ssrc_probation = 0,
               !.history.ssrc_new = IF rx.history.ssrc_probation # 0 THEN 0 ELSE @]

rtp_rx_ssrc_update(rx, ssrc) ==
    IF rx.rr_stat.ssrc = ssrc THEN [rx |-> Settled(rx, ssrc), result |-> "RTP_SSRC_UPDATE"]
    ELSE IF rx.history.ssrc_new # ssrc
    THEN [rx |-> [rx EXCEPT !.history.ssrc_new = ssrc, !.history.ssrc_probation = Probation],
          result |-> "RTP_SSRC_PROBATION"]
    ELSE IF rx.history.ssrc_probation = 1
    THEN [rx |-> [rx EXCEPT !.history.ssrc_probation = 0, !.rr_stat.ssrc = ssrc],
          result |-> "RTP_SSRC_RESTART"]
    ELSE [rx |-> [rx EXCEPT !.history.ssrc_probation = @ - 1], result |-> "RTP_SSRC_PROBATION"]

\* The result (misordered, drifted) is not used by the caller; the counters are.
rtp_rx_seq_update(rx, seq_num) ==
    LET seq_delta == (seq_num - rx.history.seq_num_max) % RTP_SEQ_MOD
        ahead == seq_delta < MAX_DROPOUT
    IN  [rx EXCEPT !.history.seq_cycles =
                        IF ahead /\ seq_num < rx.history.seq_num_max THEN @ + RTP_SEQ_MOD ELSE @,
                   !.history.seq_num_max = IF ahead THEN seq_num ELSE @,
                   !.stat.received_packets = @ + 1]

Signed(n) == IF n >= TsMod \div 2 THEN n - TsMod ELSE n
Distance(n) == IF n < 0 THEN -n ELSE n

\* How far the arrival of a packet is from where its timestamp puts it.
Deviation(rx, time, ts) ==
    Distance((time - rx.history.time_last) * FrameTs - Signed(Unsigned(ts - rx.history.ts_last)))

MissingTalkspurt(rx, time) == time - rx.history.time_last > INTER_TALKSPURT_GAP

rtp_rx_ts_update(rx, time, ts) ==
    [rx EXCEPT !.history.time_last = time, !.history.ts_last = ts]

rtp_rx_failure_threshold_check(rx) ==
    LET received == rx.stat.received_packets - rx.periodic_history.received_prior
        discarded == rx.stat.discarded_packets - rx.periodic_history.discarded_prior
    IN  IF discarded * 100 > received * DISCARDED_TO_RECEIVED_RATIO_THRESHOLD
        THEN rtp_rx_restart(rx) ELSE rx

Discarded(rx) == [rx EXCEPT !.stat.discarded_packets = @ + 1]

AudioStored(rx, write) ==
    IF write.result = "JB_OK" THEN [rx EXCEPT !.jb = write.jb]
    ELSE rtp_rx_failure_threshold_check(Discarded([rx EXCEPT !.jb = write.jb]))

AudioReceive(rx, packet, time) ==
    IF Deviation(rx, time, packet.timestamp) > DEVIATION_THRESHOLD THEN rtp_rx_restart(rx)
    ELSE AudioStored(rtp_rx_ts_update(rx, time, packet.timestamp),
                     mpf_jitter_buffer_write(rx.jb, packet.data, packet.timestamp,
                                             packet.marker \/ MissingTalkspurt(rx, time)))

EventStored(rx, write) ==
    IF write.result = "JB_OK" THEN [rx EXCEPT !.jb = write.jb]
    ELSE Discarded([rx EXCEPT !.jb = write.jb])

PayloadReceive(rx, packet, time) ==
    CASE packet.type = "codec" -> AudioReceive(rx, packet, time)
      [] packet.type = "event" ->
            EventStored(rx, mpf_jitter_buffer_event_write(rx.jb, packet.named_event,
                                                          packet.timestamp, packet.marker))
      [] OTHER -> [rx EXCEPT !.stat.ignored_packets = @ + 1]

SourceChecked(rx, ssrc, packet, time) ==
    CASE ssrc.result = "RTP_SSRC_PROBATION" ->
            [ssrc.rx EXCEPT !.stat.invalid_packets = @ + 1]
      [] ssrc.result = "RTP_SSRC_RESTART" ->
            PayloadReceive(rtp_rx_seq_update(rtp_rx_stat_init(rtp_rx_restart(ssrc.rx), packet, time),
                                             packet.sequence), packet, time)
      [] OTHER -> PayloadReceive(rtp_rx_seq_update(ssrc.rx, packet.sequence), packet, time)

Initialised(rx, packet, time) ==
    IF rx.stat.received_packets = 0 THEN rtp_rx_stat_init(rx, packet, time) ELSE rx

rtp_rx_packet_receive(rx, packet, time) ==
    IF ~rtp_rx_header_skip(packet) THEN [rx EXCEPT !.stat.invalid_packets = @ + 1]
    ELSE SourceChecked(rx, rtp_rx_ssrc_update(Initialised(rx, packet, time), packet.ssrc),
                       packet, time)

\* At most this many packets are taken from the socket in a tick.
MaxPacketsPerTick == 5

rtp_rx_process(rx, packets, time) ==
    FoldLeft(LAMBDA r, packet : rtp_rx_packet_receive(r, packet, time), rx, packets)

mpf_rtp_stream_receive(rx) == [rx EXCEPT !.jb = mpf_jitter_buffer_read(@)]

-----------------------------------------------------------------------------
CONSTANTS
    JbConfigs,      \* the configurations of the receiver's jitter buffer
    Ptime,          \* packetization time of the sender, in msec
    Speech,         \* what the sender may have to say in a tick: BOOLEAN or {FALSE}
    Digits,         \* the digits the sender dials, one after the other
    DialTicks,      \* the ticks of the sender in which it dials them
    ToneFrames, SilenceFrames, MaxDuration, QueueLen,
    MaxTicks,       \* length of a behaviour, in ticks of the sender
    MaxLag,         \* how far the two clocks may be apart
    MaxInFlight,    \* packets the network holds back at most
    LeadTicks,      \* ticks the receiver has been open for when the sender starts
    Faults,         \* faults of the network: sets of "lose", "duplicate", "reorder"
    MaxFaults,
    Sources,        \* times the sender may start over with another source
    Reports         \* receiver reports

VARIABLES
    tx, gen,        \* the sender: rtp_transmitter_t, mpf_dtmf_generator_t
    net,            \* packets on their way, in the order of their arrival
    rx, det,        \* the receiver: rtp_receiver_t, mpf_dtmf_detector_t
    sent, read,     \* ticks of the two clocks
    dialled,        \* digits enqueued
    heard,          \* what the receiver played and received, see Init
    budget          \* faults, source changes and reports left

vars == <<tx, gen, net, rx, det, sent, read, dialled, heard, budget>>

S == INSTANCE RtpTransmitter WITH
        SamplesPerFrame <- FrameTs, SendMod <- TsMod, SendSeqMod <- RTP_SEQ_MOD,
        MaxEventDuration <- MaxDuration, QUEUE_LEN <- QueueLen, BUFFER_LEN <- Len(Digits) + 1

Opened(jb) == [jb EXCEPT !.read_ts = LeadTicks * FrameTs]

Init ==
    /\ tx = S!mpf_rtp_tx_stream_open(S!rtp_transmitter_init(1), Ptime)
    /\ gen = S!mpf_dtmf_generator_create_ex(TRUE, TRUE, {"OUTBAND"}, ToneFrames, SilenceFrames)
    /\ net = <<>>
    /\ \E config \in JbConfigs :
            rx = [mpf_rtp_rx_stream_open(rtp_receiver_init, config) EXCEPT !.jb = Opened(@)]
    /\ det = S!mpf_dtmf_detector_create_ex(TRUE, {"INBAND", "OUTBAND"})
    /\ sent = LeadTicks /\ read = LeadTicks
    /\ dialled = 0
    /\ heard = [frame |-> 0,      \* the last audio frame played
                count |-> 0,      \* how many were played
                highest |-> 0,    \* the latest of them
                arrived |-> 0,    \* the latest frame received
                left |-> 0,       \* the latest of those received before the last restart
                newest |-> -1,    \* the highest timestamp received
                epoch |-> 0,      \* from this timestamp on, the buffer places frames as it does now
                displaced |-> {}] \* the frames it was given again, or late, and placed differently
    /\ budget = [faults |-> MaxFaults, sources |-> Sources, reports |-> Reports]

Now == Max({sent, read})

\* The application dials the next digit; a full queue refuses it.
Dial ==
    /\ dialled < Len(Digits) /\ sent < LeadTicks + DialTicks
    /\ gen' = S!mpf_dtmf_generator_enqueue(gen, <<Digits[dialled + 1]>>)
    /\ gen' # gen
    /\ dialled' = dialled + 1
    /\ UNCHANGED <<tx, net, rx, det, sent, read, heard, budget>>

\* The frame of a tick: what the generator puts into it, else what is said.
FrameOf(generated, speaks) ==
    IF generated.frame.event \/ ~speaks THEN generated.frame
    ELSE [generated.frame EXCEPT !.audio = sent + 1]

Transmitted(generated, result) ==
    /\ gen' = generated.gen
    /\ tx' = result.tx
    /\ net' = net \o result.out

SenderTick ==
    /\ sent < MaxTicks /\ sent < read + MaxLag /\ Len(net) < MaxInFlight
    /\ \E speaks \in Speech : \E generated \in {S!mpf_dtmf_generator_put_frame(gen)} :
            \E result \in {S!mpf_rtp_stream_transmit(tx, FrameOf(generated, speaks))} :
                Transmitted(generated, result)
    /\ sent' = sent + 1
    /\ UNCHANGED <<rx, det, read, dialled, heard, budget>>

\* The peer starts over: another source, with timestamps of its own.
SourceChange ==
    /\ budget.sources > 0
    /\ tx' = S!mpf_rtp_tx_stream_open(S!rtp_transmitter_init(tx.ssrc + 1), Ptime)
    /\ budget' = [budget EXCEPT !.sources = @ - 1]
    /\ UNCHANGED <<gen, net, rx, det, sent, read, dialled, heard>>

Fault(kind) == kind \in Faults /\ budget.faults > 0

Lose ==
    /\ Fault("lose")
    /\ \E i \in DOMAIN net : net' = RemoveAt(net, i)
    /\ budget' = [budget EXCEPT !.faults = @ - 1]
    /\ UNCHANGED <<tx, gen, rx, det, sent, read, dialled, heard>>

Duplicate ==
    /\ Fault("duplicate")
    /\ \E i \in DOMAIN net : net' = Append(net, net[i])
    /\ budget' = [budget EXCEPT !.faults = @ - 1]
    /\ UNCHANGED <<tx, gen, rx, det, sent, read, dialled, heard>>

Reorder ==
    /\ Fault("reorder")
    /\ \E i \in DOMAIN net : i > 1 /\ net' = InsertAt(RemoveAt(net, i), 1, net[i])
    /\ budget' = [budget EXCEPT !.faults = @ - 1]
    /\ UNCHANGED <<tx, gen, rx, det, sent, read, dialled, heard>>

Heard(h, frame) ==
    IF frame.audio > 0
    THEN [h EXCEPT !.frame = frame.audio, !.count = @ + 1, !.highest = Max({@, frame.audio})] ELSE h

\* What the properties remember of a packet: before and after are the receiver.
Noted(h, packet, before, after) ==
    LET ts == packet.timestamp
        shift(jb) == jb.playout_delay_ts - jb.write_ts_offset
        old == ts <= h.newest
        spurt == packet.marker \/ MissingTalkspurt(before, Now)
    IN  IF after.stat.restarts # before.stat.restarts
        THEN [h EXCEPT !.left = h.arrived, !.arrived = Max(ToSet(packet.data) \union {@}),
                       !.newest = ts, !.epoch = ts]
        ELSE IF packet.type # "codec" THEN h
        ELSE [h EXCEPT
                !.arrived = Max(ToSet(packet.data) \union {@}),
                !.newest = Max({@, ts}),
                !.epoch = IF shift(after.jb) # shift(before.jb) THEN Max({ts, h.newest + 1}) ELSE @,
                !.displaced = IF old /\ (ts < h.epoch \/ spurt) THEN @ \union ToSet(packet.data) ELSE @]

NotedAll(packets) ==
    FoldLeft(LAMBDA h, i : Noted(h, packets[i], rtp_rx_process(rx, SubSeq(packets, 1, i - 1), Now),
                                 rtp_rx_process(rx, SubSeq(packets, 1, i), Now)),
             heard, [i \in DOMAIN packets |-> i])

Played(received, noted, frame) ==
    /\ rx' = mpf_rtp_stream_receive(received)
    /\ det' = S!mpf_dtmf_detector_get_frame(det, frame, -1)
    /\ heard' = Heard(noted, frame)

\* The first n packets have arrived; the rest is still on its way, or waits in
\* the socket for the next tick.
ReceiverTick ==
    /\ read < MaxTicks + MaxLag /\ read < sent + MaxLag
    /\ \E n \in 0 .. Min({MaxPacketsPerTick, Len(net)}) :
            /\ \E received \in {rtp_rx_process(rx, SubSeq(net, 1, n), Now)} :
                    Played(received, NotedAll(SubSeq(net, 1, n)), FrameRead(received.jb))
            /\ net' = SubSeq(net, n + 1, Len(net))
    /\ read' = read + 1
    /\ UNCHANGED <<tx, gen, sent, dialled, budget>>

\* The RTCP timer of the receiver: a report with the statistics of the interval.
Report ==
    /\ budget.reports > 0
    /\ budget' = [budget EXCEPT !.reports = @ - 1]
    /\ rx' = rtp_periodic_history_update(rx)
    /\ UNCHANGED <<tx, gen, net, det, sent, read, dialled, heard>>

Next == Dial \/ SenderTick \/ SourceChange \/ Lose \/ Duplicate \/ Reorder \/ ReceiverTick \/ Report

Spec == Init /\ [][Next]_vars

TypeOK ==
    /\ rx.jb.frame_count = Cardinality(DOMAIN rx.jb.frames)
    /\ rx.jb.playout_delay_ts \in 0 .. rx.jb.max_playout_delay_ts
    /\ det.buf \in Seq(0 .. S!DTMF_EVENT_ID_MAX)

\* Audio is played in the order it was recorded in, and no frame is played twice,
\* with two exceptions.  A restart of the receiver leaves the frames it was given
\* before in their slots.  And a packet that comes again, or after a later one, is
\* placed anew: it finds another position when the delay or the offset changed
\* since, and when it starts a talkspurt it changes the offset itself
\* (mpf_jitter_buffer_write, mpf_jitter_buffer_write_prepare, mpf_jitter_buffer_read).
PlaysInOrder ==
    [][heard'.count # heard.count
        => heard'.frame > heard.highest \/ heard'.frame <= heard'.left \/ heard'.frame \in heard'.displaced]_vars

\* The frames an adaptive buffer has added to its delay.
Grown == (rx.jb.playout_delay_ts - InitialDelay(rx.jb.config)) \div FrameTs

\* The elements of s at the positions of a set, in order.
At(s, positions) == LET order == SetToSortSeq(positions, <) IN [i \in DOMAIN order |-> s[order[i]]]

\* The digits the detector reports are digits that were dialled, in that order and
\* each at most once, also when packets of an event are lost, come twice or
\* overtake each other.  An adaptive buffer is excepted where it gave way: a packet
\* that is too late makes the delay grow, is taken for the start of an event, or
\* makes the next one look like a start, and adds a digit, no more of them than
\* the delay has grown by frames (mpf_jitter_buffer_event_write,
\* mpf_dtmf_detector_get_frame).
DigitsOnce ==
    \E genuine \in SUBSET DOMAIN det.buf, kept \in SUBSET (1 .. dialled) :
        /\ Len(det.buf) - Cardinality(genuine) <= Grown
        /\ At(det.buf, genuine) = At(Digits, kept)

\* The fraction of lost packets fits the eight bits of the report: an interval in
\* which packets are expected has seen one (rtp_periodic_history_update).
FractionFits == rx.rr_stat.fraction < 256

=============================================================================
