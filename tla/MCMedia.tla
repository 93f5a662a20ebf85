------------------------------- MODULE MCMedia -------------------------------
(***************************************************************************)
(* The media framework: audio, DTMF and a change of source from one RTP    *)
(* stream to another, the contexts of a server and of a client session,    *)
(* offer and answer over SIP and over RTSP, RTCP, the detectors, and the   *)
(* frame buffer, file stream and scheduler.  A behaviour is one of the     *)
(* part that component names; the other parts rest.                        *)
(***************************************************************************)
EXTENDS Integers, Sequences

VARIABLES component,
    tx, gen, net, rx, det, sent, read, dialled, heard, budget,
    media, queue, session,
    client, server, wire, offers, rtsp, discovered,
    direction, ip, packet, seen,
    activity, event, dtmf, frames, past,
    buffer, written, received, restart, file, events, clock

pathVars == <<tx, gen, net, rx, det, sent, read, dialled, heard, budget>>
contextVars == <<media, queue, session>>
offerVars == <<client, server, wire, offers>>
offerVarsV1 == <<offerVars, rtsp, discovered>>
rtcpVars == <<direction, ip, packet, seen>>
detectorVars == <<activity, event, dtmf, frames, past>>
frameVars == <<buffer, written, received, restart, file, events, clock>>

vars == <<component, pathVars, contextVars, offerVarsV1, rtcpVars, detectorVars, frameVars>>

-----------------------------------------------------------------------------
(* Timestamps count frames.  Static and adaptive jitter buffers, with the  *)
(* initial and the largest delay in milliseconds.                          *)
JbConfig(adaptive, initial, max) ==
    [adaptive |-> adaptive, time_skew_detection |-> adaptive, min |-> 0, initial |-> initial, max |-> max]

Audio == INSTANCE MediaPath WITH
    TsMod <- 1024, FrameTs <- 1, StatPeriod <- 4, RTP_SEQ_MOD <- 64, MAX_DROPOUT <- 20,
    MAX_MISORDER <- 10, DEVIATION_THRESHOLD <- 3, INTER_TALKSPURT_GAP <- 5, Probation <- 2,
    JbConfigs <- {JbConfig(TRUE, 20, 70), JbConfig(FALSE, 20, 70)}, Ptime <- 10, Speech <- BOOLEAN,
    Digits <- <<>>, DialTicks <- 2, QueueLen <- 2, ToneFrames <- 3, SilenceFrames <- 5,
    MaxDuration <- 100, MaxTicks <- 8, MaxLag <- 1, LeadTicks <- 3, MaxInFlight <- 3,
    Faults <- {"lose", "duplicate", "reorder"}, MaxFaults <- 1, Sources <- 0, Reports <- 0

(* Digits under one fault of any kind, under packets that come late to a   *)
(* delay that grows, and under two losses.                                 *)
Dtmf == INSTANCE MediaPath WITH
    TsMod <- 1024, FrameTs <- 1, StatPeriod <- 4, RTP_SEQ_MOD <- 64, MAX_DROPOUT <- 20,
    MAX_MISORDER <- 10, DEVIATION_THRESHOLD <- 3, INTER_TALKSPURT_GAP <- 5, Probation <- 2,
    JbConfigs <- {JbConfig(TRUE, 10, 100), JbConfig(FALSE, 10, 100)}, Ptime <- 10, Speech <- {FALSE},
    Digits <- <<1, 99, 1>>, DialTicks <- 1, QueueLen <- 2, ToneFrames <- 3, SilenceFrames <- 5,
    MaxDuration <- 100, MaxTicks <- 18, MaxLag <- 1, LeadTicks <- 3, MaxInFlight <- 3,
    Faults <- {"lose", "duplicate", "reorder"}, MaxFaults <- 1, Sources <- 0, Reports <- 0

LateDtmf == INSTANCE MediaPath WITH
    TsMod <- 1024, FrameTs <- 1, StatPeriod <- 4, RTP_SEQ_MOD <- 64, MAX_DROPOUT <- 20,
    MAX_MISORDER <- 10, DEVIATION_THRESHOLD <- 3, INTER_TALKSPURT_GAP <- 5, Probation <- 2,
    JbConfigs <- {JbConfig(TRUE, 10, 100)}, Ptime <- 10, Speech <- {FALSE},
    Digits <- <<1, 2>>, DialTicks <- 1, QueueLen <- 2, ToneFrames <- 3, SilenceFrames <- 5,
    MaxDuration <- 100, MaxTicks <- 14, MaxLag <- 1, LeadTicks <- 3, MaxInFlight <- 4,
    Faults <- {"reorder"}, MaxFaults <- 1, Sources <- 0, Reports <- 0

LossyDtmf == INSTANCE MediaPath WITH
    TsMod <- 1024, FrameTs <- 1, StatPeriod <- 4, RTP_SEQ_MOD <- 64, MAX_DROPOUT <- 20,
    MAX_MISORDER <- 10, DEVIATION_THRESHOLD <- 3, INTER_TALKSPURT_GAP <- 5, Probation <- 2,
    JbConfigs <- {JbConfig(FALSE, 20, 70)}, Ptime <- 10, Speech <- {FALSE},
    Digits <- <<1, 99, 1>>, DialTicks <- 1, QueueLen <- 2, ToneFrames <- 3, SilenceFrames <- 5,
    MaxDuration <- 100, MaxTicks <- 20, MaxLag <- 1, LeadTicks <- 3, MaxInFlight <- 2,
    Faults <- {"lose"}, MaxFaults <- 2, Sources <- 0, Reports <- 0

Source == INSTANCE MediaPath WITH
    TsMod <- 1024, FrameTs <- 1, StatPeriod <- 4, RTP_SEQ_MOD <- 64, MAX_DROPOUT <- 20,
    MAX_MISORDER <- 10, DEVIATION_THRESHOLD <- 3, INTER_TALKSPURT_GAP <- 5, Probation <- 2,
    JbConfigs <- {JbConfig(FALSE, 20, 70)}, Ptime <- 10, Speech <- {TRUE},
    Digits <- <<>>, DialTicks <- 2, QueueLen <- 2, ToneFrames <- 3, SilenceFrames <- 5,
    MaxDuration <- 100, MaxTicks <- 9, MaxLag <- 1, LeadTicks <- 3, MaxInFlight <- 3,
    Faults <- {"lose"}, MaxFaults <- 2, Sources <- 1, Reports <- 2

-----------------------------------------------------------------------------
MCMedias == [direction : SUBSET {"SEND", "RECEIVE"}, codec : {"LPCM", "PCMU"}]
MCDirection == [c1 |-> {"SEND", "RECEIVE"}, c2 |-> {"SEND", "RECEIVE"}]

Context == INSTANCE MediaContext WITH
    Capacity <- 3, MaxMessages <- 2, ChannelSeq <- <<"c1", "c2">>, Direction <- MCDirection,
    Opens <- {"c1", "c2"}, Rtp <- <<"r1", "r2">>, Medias <- MCMedias,
    Roles <- {"server", "client"}, MaxRequests <- 4

(* The stream of the second channel does not open. *)
FailingContext == INSTANCE MediaContext WITH
    Capacity <- 3, MaxMessages <- 2, ChannelSeq <- <<"c1", "c2">>, Direction <- MCDirection,
    Opens <- {"c1"}, Rtp <- <<"r1", "r2">>, Medias <- MCMedias,
    Roles <- {"client"}, MaxRequests <- 4

-----------------------------------------------------------------------------
(* The codecs of the two profiles: one dynamic payload type differs, and   *)
(* the server's channels do not take 16 kHz.  In MRCPv1 the server's first *)
(* codec is one every client has, see mrcp_unirtsp_sdp.c.                  *)
CL == INSTANCE RtpStream
Manager == CL!mpf_engine_codec_manager_create
Item(name, pt, rate) == [name |-> name, pt |-> pt, rate |-> rate]
PCMU == Item("PCMU", <<>>, <<>>)
PCMA == Item("PCMA", <<>>, <<>>)
L16(pt) == Item("L16", <<pt>>, <<16000>>)
TelephoneEvent == Item(CL!TEL_EVENT_NAME, <<101>>, <<>>)
Unknown == Item("OPUS", <<98>>, <<48000>>)

Settings(items, own) ==
    [codecs |-> CL!mpf_codec_manager_codec_list_load(Manager, items), own |-> own, rtcp |-> TRUE]
MCChannels == <<{"RECEIVE"}, {"SEND"}>>
MCClientPorts == [min |-> 4000, max |-> 4006, cur |-> 4000]
MCServerPorts ==
    CL!mpf_rtp_factory_engine_assign([min |-> 5000, max |-> 5004, cur |-> 5000], 2)[1]
MCResourceMap == [speechsynth |-> "speechsynthesizer", speechrecog |-> "speechrecognizer"]

V2 == INSTANCE OfferAnswer WITH
    Channels <- MCChannels, MaxOffers <- 6,
    ClientSettings <- Settings(<<PCMU, Unknown, L16(96), TelephoneEvent>>, TRUE),
    ServerSettings <- Settings(<<TelephoneEvent, L16(97), PCMA, PCMU>>, FALSE),
    ClientCaps <- <<{8000, 16000}>>, ServerCaps <- <<{8000}>>,
    ClientPorts <- MCClientPorts, ServerPorts <- MCServerPorts,
    ResourceMap <- MCResourceMap, Resources <- <<"speechsynth", "speechrecog">>

V1 == INSTANCE OfferAnswer WITH
    Channels <- MCChannels, MaxOffers <- 6,
    ClientSettings <- Settings(<<PCMU, Unknown, L16(96), TelephoneEvent>>, TRUE),
    ServerSettings <- Settings(<<TelephoneEvent, L16(97), PCMU, PCMA>>, FALSE),
    ClientCaps <- <<{8000, 16000}>>, ServerCaps <- <<{8000}>>,
    ClientPorts <- MCClientPorts, ServerPorts <- MCServerPorts,
    ResourceMap <- MCResourceMap, Resources <- <<"speechsynth", "speechrecog">>

-----------------------------------------------------------------------------
(* Addresses of all lengths modulo four, and the reasons the code gives.   *)
R == INSTANCE Rtcp WITH IpLengths <- 7..15, Reasons <- {0, 13, 15}

D == INSTANCE Detectors WITH
    SpeechTimeout <- 2, SilenceTimeout <- 2, NoinputTimeout <- 3, Tones <- 0..2,
    BufferLen <- 2, MaxFrames <- 9

(* The frame buffer alone, and the file stream with the scheduler. *)
Buffer == INSTANCE FrameStreams WITH
    FrameCount <- 2, WriteSizes <- {1, 3}, FileFrames <- 1, MaxWriteSize <- 2,
    MediaResolution <- 4, TimerResolution <- 8, Rates <- {1}, Delays <- {0}, MaxTicks <- 5

F == INSTANCE FrameStreams WITH
    FrameCount <- 2, WriteSizes <- {}, FileFrames <- 1, MaxWriteSize <- 2,
    MediaResolution <- 4, TimerResolution <- 8, Rates <- {1, 3}, Delays <- {0, 2, 5}, MaxTicks <- 3

-----------------------------------------------------------------------------
Components == {"audio", "dtmf", "late dtmf", "lossy dtmf", "source", "context", "failing context",
               "v2", "v1", "rtcp", "detectors", "buffer", "clock"}

(* A part that rests starts in one of its initial states only. *)
Init ==
    /\ component \in Components
    /\ CASE component = "audio"      -> Audio!Init
         [] component = "dtmf"       -> Dtmf!Init
         [] component = "late dtmf"  -> LateDtmf!Init
         [] component = "source"     -> Source!Init
         [] OTHER                    -> LossyDtmf!Init
    /\ IF component = "context" THEN Context!Init ELSE FailingContext!Init
    /\ V1!InitV1
    /\ R!Init /\ (component = "rtcp" \/ (ip = 7 /\ direction = {"SEND"}))
    /\ D!Init
    /\ F!Init /\ (component = "clock" \/ clock.media = 4)

Path ==
    /\ \/ component = "audio" /\ Audio!Next
       \/ component = "dtmf" /\ Dtmf!Next
       \/ component = "late dtmf" /\ LateDtmf!Next
       \/ component = "lossy dtmf" /\ LossyDtmf!Next
       \/ component = "source" /\ Source!Next
    /\ UNCHANGED <<component, contextVars, offerVarsV1, rtcpVars, detectorVars, frameVars>>

Contexts ==
    /\ \/ component = "context" /\ Context!Next
       \/ component = "failing context" /\ FailingContext!Next
    /\ UNCHANGED <<component, pathVars, offerVarsV1, rtcpVars, detectorVars, frameVars>>

Offers ==
    /\ \/ component = "v2" /\ V2!Next /\ UNCHANGED <<rtsp, discovered>>
       \/ component = "v1" /\ V1!NextV1
    /\ UNCHANGED <<component, pathVars, contextVars, rtcpVars, detectorVars, frameVars>>

Reports ==
    /\ component = "rtcp" /\ R!Next
    /\ UNCHANGED <<component, pathVars, contextVars, offerVarsV1, detectorVars, frameVars>>

Detection ==
    /\ component = "detectors" /\ D!Next
    /\ UNCHANGED <<component, pathVars, contextVars, offerVarsV1, rtcpVars, frameVars>>

FramesAndClock ==
    /\ \/ component = "buffer" /\ UNCHANGED file /\ Buffer!Next
       \/ component = "clock" /\ UNCHANGED restart /\ F!Next
    /\ UNCHANGED <<component, pathVars, contextVars, offerVarsV1, rtcpVars, detectorVars>>

Next == Path \/ Contexts \/ Offers \/ Reports \/ Detection \/ FramesAndClock

Spec == Init /\ [][Next]_vars

-----------------------------------------------------------------------------
(* The properties of the parts, stated in their modules.                   *)

(* Audio is played in the order it was recorded in, and no frame twice,    *)
(* but for frames received before a restart, which it leaves in the        *)
(* buffer, and for packets that come again or late and are placed anew;    *)
(* see the property of MediaPath (mpf_jitter_buffer.c).                    *)
PlaysInOrder == Audio!PlaysInOrder

(* Digits are reported in the order they were dialled in, each once, but   *)
(* for at most one report more whenever the buffer grows its delay; see    *)
(* the property of MediaPath (mpf_jitter_buffer_event_write,               *)
(* mpf_dtmf_detector_get_frame).                                           *)
DigitsOnce ==
    CASE component = "dtmf"       -> Dtmf!TypeOK /\ Dtmf!DigitsOnce
      [] component = "late dtmf"  -> LateDtmf!TypeOK /\ LateDtmf!DigitsOnce
      [] component = "lossy dtmf" -> LossyDtmf!TypeOK /\ LossyDtmf!DigitsOnce
      [] component = "audio"      -> Audio!TypeOK
      [] OTHER                    -> TRUE

(* Association counts, matrix, slots and the objects of the topology       *)
(* agree, and between requests media flow exactly where they were          *)
(* negotiated to (mpf_context.c, mpf_bridge.c).                            *)
MediaFlowsAsNegotiated ==
    component \in {"context", "failing context"} =>
        /\ Context!TypeOK /\ Context!CountsMatchMatrix /\ Context!ObjectsUseMembers
        /\ IF component = "context" THEN Context!MediaFlowsAsNegotiated
                                    ELSE FailingContext!MediaFlowsAsNegotiated

(* The two ends of a stream agree after an answer, in either protocol, and *)
(* media lines keep position, kind and number over all re-offers           *)
(* (mpf_rtp_stream_media_negotiate, mrcp_sdp.c, mrcp_unirtsp_sdp.c).       *)
PeersAgree ==
    /\ component \in {"v2", "v1"} => V1!TypeOK /\ V1!PeersAgree
    /\ component = "v2" => V2!LinesKept

(* RTCP timers run for open streams only, an open stream has a port and    *)
(* shares it with no other, unless none was free when it was created, and  *)
(* a report can be read by its receiver, its numbers in their fields       *)
(* (mpf_rtp_stream.c, mpf_rtp_termination_factory.c).                      *)
RtpHousekeeping ==
    /\ component \in {"v2", "v1"} => V1!TimersAndPorts
    /\ component = "rtcp" => R!ReportsReadable
    /\ Source!FractionFits

(* Activity is reported after its timeouts, a digit held down once         *)
(* (mpf_activity_detector.c, mpf_dtmf_detector.c).                         *)
DetectorsReliable == D!DetectorsReliable

(* Frames leave the buffer in order, a restart that no read or write       *)
(* crosses empties it, the end of a file and of a limited space are        *)
(* reported once, and neither clock of the scheduler runs ahead of time    *)
(* (mpf_frame_buffer.c, mpf_audio_file_stream.c, mpf_scheduler.c).         *)
FramesInTime == Buffer!FramesInOrder /\ F!ClockNeverAhead

=============================================================================
