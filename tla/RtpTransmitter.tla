----------------------------- MODULE RtpTransmitter -----------------------------
(***************************************************************************)
(* The sending side of an RTP stream (libs/mpf/src/mpf_rtp_stream.c) and    *)
(* the DTMF generator and detector at the two ends of it                    *)
(* (libs/mpf/src/mpf_dtmf_generator.c, mpf_dtmf_detector.c,                 *)
(* mpf_named_event.c).  Operators on transmitter, generator and detector    *)
(* records.  Samples are abstracted: an audio frame carries one value, and  *)
(* a window of samples is what the frequency analysis makes of it, a digit  *)
(* or 0.                                                                    *)
(***************************************************************************)
EXTENDS Integers, Sequences, SequencesExt

CONSTANTS
    SamplesPerFrame,   \* timestamp units of one frame
    SendMod,           \* the modulus of a timestamp
    SendSeqMod,        \* the modulus of a sequence number
    MaxEventDuration,  \* the largest duration an event packet carries (0xFFFF)
    QUEUE_LEN,         \* MPF_DTMFGEN_QUEUE_LEN
    BUFFER_LEN         \* MPF_DTMFDET_BUFFER_LEN

FRAME_MS == 10

\* The data of a packet that is filled up when its talkspurt ends.
Filler == -1

Silence == [audio |-> 0, event |-> FALSE, marker |-> "NONE", event_id |-> 0, duration |-> 0]

rtp_transmitter_init(ssrc) ==
    [ptime |-> 0, packet_frames |-> 0, current_frames |-> 0, inactivity |-> FALSE,
     last_seq_num |-> 0, timestamp |-> 0, timestamp_base |-> 0, ssrc |-> ssrc,
     packet |-> <<>>, packet_ts |-> 0, packet_marker |-> FALSE, sent_packets |-> 0]

mpf_rtp_tx_stream_open(tx, ptime) ==
    LET time == IF tx.ptime = 0 THEN (IF ptime = 0 THEN 20 ELSE ptime) ELSE tx.ptime
    IN  [tx EXCEPT !.ptime = time, !.packet_frames = time \div FRAME_MS,
                   !.current_frames = 0, !.inactivity = TRUE]

\* header and payload of the packets of a stream: audio and named events
rtp_header_prepare(tx, type, marker, timestamp, data, named_event) ==
    [valid |-> TRUE, ssrc |-> tx.ssrc, sequence |-> (tx.last_seq_num + 1) % SendSeqMod,
     type |-> type, marker |-> marker, timestamp |-> timestamp, data |-> data,
     named_event |-> named_event]

NoNamedEvent == [event_id |-> 0, duration |-> 0, edge |-> 0]

\* The packet leaves when it holds packet_frames frames.
mpf_rtp_data_send(sent, audio) ==
    LET tx == sent.tx
        data == Append(tx.packet, audio)
        full == tx.current_frames + 1 = tx.packet_frames
    IN  [tx |-> [tx EXCEPT !.packet = IF full THEN <<>> ELSE data,
                           !.current_frames = IF full THEN 0 ELSE @ + 1,
                           !.last_seq_num = IF full THEN (@ + 1) % SendSeqMod ELSE @,
                           !.sent_packets = IF full THEN @ + 1 ELSE @],
         out |-> IF full
                 THEN Append(sent.out, rtp_header_prepare(tx, "codec", tx.packet_marker, tx.packet_ts,
                                                          data, NoNamedEvent))
                 ELSE sent.out]

mpf_rtp_event_send(sent, frame) ==
    LET tx == sent.tx
    IN  [tx |-> [tx EXCEPT !.last_seq_num = (@ + 1) % SendSeqMod, !.sent_packets = @ + 1],
         out |-> Append(sent.out,
                    rtp_header_prepare(tx, "event", frame.marker = "START_OF_EVENT", tx.timestamp_base,
                        <<>>, [event_id |-> frame.event_id, duration |-> frame.duration,
                               edge |-> IF frame.marker = "END_OF_EVENT" THEN 1 ELSE 0]))]

\* Silence ends the talkspurt once the packet that was begun is filled up.
SilenceTransmit(sent) ==
    IF sent.tx.inactivity THEN sent
    ELSE IF sent.tx.current_frames = 0 THEN [sent EXCEPT !.tx.inactivity = TRUE]
    ELSE mpf_rtp_data_send(sent, Filler)

EventTransmit(sent, frame) ==
    IF ~frame.event THEN sent
    ELSE mpf_rtp_event_send(
            [sent EXCEPT !.tx.timestamp_base =
                IF frame.marker \in {"START_OF_EVENT", "NEW_SEGMENT"} THEN sent.tx.timestamp ELSE @],
            frame)

\* The header of a packet is written with its first frame.
PacketBegun(tx) ==
    IF tx.current_frames = 0
    THEN [tx EXCEPT !.packet_ts = tx.timestamp, !.packet_marker = tx.inactivity,
                    !.inactivity = FALSE]
    ELSE tx

AudioTransmit(sent, frame) ==
    IF frame.audio = 0 THEN sent
    ELSE mpf_rtp_data_send([sent EXCEPT !.tx = PacketBegun(@)], frame.audio)

Ticked(tx) == [tx |-> [tx EXCEPT !.timestamp = (@ + SamplesPerFrame) % SendMod], out |-> <<>>]

mpf_rtp_stream_transmit(tx, frame) ==
    IF frame.audio = 0 /\ ~frame.event THEN SilenceTransmit(Ticked(tx))
    ELSE AudioTransmit(EventTransmit(Ticked(tx), frame), frame)

-----------------------------------------------------------------------------
(* The DTMF generator.  Digits are event identifiers; a character that is no  *)
(* digit has the identifier InvalidEvent.                                     *)

DTMF_EVENT_ID_MAX == 15
InvalidEvent == 255

mpf_dtmf_char_to_event_id(char) == IF char \in 0 .. DTMF_EVENT_ID_MAX THEN char ELSE InvalidEvent
mpf_event_id_to_dtmf_char(event_id) == event_id

\* NULL ("none") when the stream can carry neither band.
mpf_dtmf_generator_create_ex(audio, events, band, tone, silence) ==
    [state |-> IF band \ ((IF audio THEN {} ELSE {"INBAND"}) \cup (IF events THEN {} ELSE {"OUTBAND"})) = {}
               THEN "NULL" ELSE "DTMF_GEN_STATE_IDLE",
     band |-> band \ ((IF audio THEN {} ELSE {"INBAND"}) \cup (IF events THEN {} ELSE {"OUTBAND"})),
     queue |-> <<>>, event_id |-> 0, tone_duration |-> tone * SamplesPerFrame,
     silence_duration |-> silence * SamplesPerFrame, counter |-> 0, event_duration |-> 0,
     new_segment |-> FALSE]

mpf_dtmf_generator_enqueue(gen, digits) ==
    IF Len(gen.queue) + Len(digits) > QUEUE_LEN THEN gen
    ELSE [gen EXCEPT !.queue = @ \o digits]

\* The queue up to and including the first valid digit is taken off.
NextDigit(gen) ==
    LET valid == {i \in DOMAIN gen.queue : mpf_dtmf_char_to_event_id(gen.queue[i]) # InvalidEvent}
        first == CHOOSE i \in valid : \A j \in valid : i <= j
    IN  IF gen.state # "DTMF_GEN_STATE_IDLE" THEN gen
        ELSE IF valid = {} THEN [gen EXCEPT !.queue = <<>>]
        ELSE [gen EXCEPT !.queue = SubSeq(@, first + 1, Len(@)), !.event_id = gen.queue[first],
                         !.state = "DTMF_GEN_STATE_TONE", !.counter = 0, !.event_duration = 0,
                         !.new_segment = FALSE]

Frame(gen, event, marker, duration) ==
    [audio |-> IF "INBAND" \in gen.band THEN gen.event_id + 1 ELSE 0, event |-> event,
     marker |-> marker, event_id |-> gen.event_id, duration |-> duration]

\* An event longer than its 16-bit duration goes on as a new segment.
OutbandTone(gen) ==
    LET long == gen.event_duration > MaxEventDuration
        over == gen.counter >= gen.tone_duration
        duration == IF long THEN MaxEventDuration ELSE gen.event_duration
        marker == CASE over -> "END_OF_EVENT"
                    [] gen.counter = SamplesPerFrame -> "START_OF_EVENT"
                    [] gen.new_segment -> "NEW_SEGMENT"
                    [] OTHER -> "NONE"
    IN  [gen |-> [gen EXCEPT !.state = IF over THEN "DTMF_GEN_STATE_ENDING" ELSE @,
                             !.counter = IF over THEN 0 ELSE @,
                             !.event_duration = IF long THEN 0 ELSE @,
                             !.new_segment = long \/ (@ /\ (over \/ marker # "NEW_SEGMENT"))],
         frame |-> Frame(gen, TRUE, marker, duration)]

InbandTone(gen) ==
    LET over == gen.counter >= gen.tone_duration
    IN  [gen |-> [gen EXCEPT !.state = IF over THEN "DTMF_GEN_STATE_SILENCE" ELSE @,
                             !.counter = IF over THEN 0 ELSE @],
         frame |-> Frame(gen, FALSE, "NONE", 0)]

Tone(gen) == IF "OUTBAND" \in gen.band THEN OutbandTone(gen) ELSE InbandTone(gen)

\* The end of the event is sent twice more.
Ending(gen) ==
    LET done == gen.counter + 1 >= 2
    IN  [gen |-> [gen EXCEPT !.state = IF done THEN "DTMF_GEN_STATE_SILENCE" ELSE @,
                             !.counter = IF done THEN 2 * SamplesPerFrame ELSE @ + 1],
         frame |-> [Frame(gen, TRUE, "END_OF_EVENT",
                          IF gen.new_segment THEN MaxEventDuration ELSE gen.event_duration)
                    EXCEPT !.audio = IF "INBAND" \in gen.band THEN Filler ELSE 0]]

InterDigit(gen) ==
    LET count == gen.counter + SamplesPerFrame
    IN  [gen |-> [gen EXCEPT !.counter = count,
                             !.state = IF count >= gen.silence_duration THEN "DTMF_GEN_STATE_IDLE" ELSE @],
         frame |-> Silence]

Generated(gen) ==
    CASE gen.state = "DTMF_GEN_STATE_TONE" ->
            Tone([gen EXCEPT !.counter = @ + SamplesPerFrame, !.event_duration = @ + SamplesPerFrame])
      [] gen.state = "DTMF_GEN_STATE_ENDING" -> Ending(gen)
      [] gen.state = "DTMF_GEN_STATE_SILENCE" -> InterDigit(gen)
      [] OTHER -> [gen |-> gen, frame |-> Silence]

mpf_dtmf_generator_put_frame(gen) == Generated(NextDigit(gen))

-----------------------------------------------------------------------------
(* The DTMF detector *)

mpf_dtmf_detector_create_ex(audio, band) ==
    [band |-> IF audio THEN band ELSE band \ {"INBAND"}, buf |-> <<>>, lost_digits |-> 0,
     last1 |-> 0, last2 |-> 0, curr |-> 0]

mpf_dtmf_detector_digit_get(det) == IF det.buf = <<>> THEN det ELSE [det EXCEPT !.buf = Tail(@)]

mpf_dtmf_detector_reset(det) ==
    [det EXCEPT !.buf = <<>>, !.lost_digits = 0, !.curr = 0, !.last1 = 0, !.last2 = 0]

mpf_dtmf_detector_add_digit(det, digit) ==
    IF Len(det.buf) < BUFFER_LEN THEN [det EXCEPT !.buf = Append(@, digit)]
    ELSE [det EXCEPT !.lost_digits = @ + 1]

\* A digit is reported when three windows in a row show it, and forgotten when
\* three in a row do not.
goertzel_energies_digit(det, digit) ==
    LET hit == digit # 0 /\ det.last1 = digit /\ det.last2 = digit
        found == IF digit # det.curr /\ hit
                 THEN mpf_dtmf_detector_add_digit([det EXCEPT !.curr = digit], digit)
                 ELSE IF digit # det.curr /\ det.last1 # det.curr /\ det.last2 # det.curr
                 THEN [det EXCEPT !.curr = 0]
                 ELSE det
    IN  [found EXCEPT !.last1 = det.last2, !.last2 = digit]

\* Every frame of an event counts as a digit.
mpf_dtmf_detector_get_frame_every_frame(det, frame, window) ==
    IF "OUTBAND" \in det.band /\ frame.event /\ frame.event_frame.event_id <= DTMF_EVENT_ID_MAX
    THEN mpf_dtmf_detector_add_digit([det EXCEPT !.band = @ \ {"INBAND"}],
                                     mpf_event_id_to_dtmf_char(frame.event_frame.event_id))
    ELSE det

\* window is what the analysis finds if this frame completes one (-1: it does not).
mpf_dtmf_detector_get_frame(det, frame, window) ==
    IF /\ "OUTBAND" \in det.band /\ frame.event /\ frame.marker = "START_OF_EVENT"
       /\ frame.event_frame.event_id <= DTMF_EVENT_ID_MAX
    THEN mpf_dtmf_detector_add_digit([det EXCEPT !.band = @ \ {"INBAND"}],
                                     mpf_event_id_to_dtmf_char(frame.event_frame.event_id))
    ELSE IF "INBAND" \in det.band /\ frame.audio # 0 /\ window >= 0
    THEN goertzel_energies_digit(det, window)
    ELSE det
==============================================================================
