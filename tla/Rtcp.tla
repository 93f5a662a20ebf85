-------------------------------- MODULE Rtcp --------------------------------
(***************************************************************************)
(* RTCP of an RTP stream (mpf_rtp_stream.c, mpf_rtcp_packet.h): the        *)
(* compound packets its timer, a disabled session and the end of a         *)
(* talkspurt send (a report, a source description, perhaps a BYE), and the *)
(* walk over such a packet at the other end.  A packet is a sequence of    *)
(* parts with the length, in words, that their header announces; sizes are *)
(* those of the C structures, in octets.                                   *)
(***************************************************************************)
EXTENDS Integers, SequencesExt

CONSTANTS
    IpLengths,        \* lengths of the local address in dotted notation
    Reasons           \* lengths of the reasons for a BYE

VARIABLES
    direction,        \* of the stream
    ip,               \* length of its address
    packet,           \* the packet under way: [parts, length], no parts: none
    seen              \* what the receiver made of the last packet

vars == <<direction, ip, packet, seen>>

HEADER == 4
SSRC == 4
SR_STAT == 24
RR_STAT == 24
BUFFER == 1500        \* MAX_RTCP_PACKET_SIZE

rtcp_header_length_set(length) == length \div 4 - 1

Part(pt, count, length) ==
    [pt |-> pt, count |-> count, length |-> rtcp_header_length_set(length), octets |-> length]

(* A receiver report always has its block, a sender report only when the   *)
(* stream also receives.                                                   *)
rtcp_report_generate ==
    LET count == IF "RECEIVE" \in direction THEN 1 ELSE 0
    IN  IF "SEND" \in direction THEN Part("SR", count, HEADER + SR_STAT + (count * RR_STAT))
        ELSE Part("RR", count, HEADER + SSRC + RR_STAT)

Padding(offset) == 4 - (offset % 4)

(* One CNAME item, at least one end marker. *)
rtcp_sdes_generate ==
    LET offset == HEADER + SSRC + 2 + ip IN Part("SDES", 1, offset + Padding(offset))

rtcp_bye_generate(reason) ==
    Part("BYE", 1, HEADER + SSRC + (IF reason = 0 THEN 0 ELSE reason + Padding(reason)))

Octets(parts) == FoldLeft(LAMBDA n, p : n + p.octets, 0, parts)

Send(parts) ==
    /\ packet = [parts |-> <<>>, length |-> 0]
    /\ packet' = [parts |-> parts, length |-> Octets(parts)]
    /\ UNCHANGED <<direction, ip, seen>>

mpf_rtcp_tx_timer_proc == Send(<<rtcp_report_generate, rtcp_sdes_generate>>)

mpf_rtcp_bye_send ==
    \E reason \in Reasons :
        Send(<<rtcp_report_generate, rtcp_sdes_generate, rtcp_bye_generate(reason)>>)

(* Where the walk stands after n parts, if it found their headers. *)
PositionAfter(parts, n) == FoldLeft(LAMBDA k, p : k + 4 * (p.length + 1), 0, SubSeq(parts, 1, n))

StartOf(parts, n) == Octets(SubSeq(parts, 1, n))

(* The walk goes from header to header while each is where the last one    *)
(* said; it succeeds when it ends where the packet ends.                   *)
mpf_rtcp_compound_packet_receive(p) ==
    LET onTrack == {n \in 0..Len(p.parts) : \A i \in 0..n : PositionAfter(p.parts, i)
                                                               = StartOf(p.parts, i)}
        last == Max(onTrack)
    IN  [status |-> last = Len(p.parts) /\ PositionAfter(p.parts, last) = p.length,
         reports |-> [i \in 1..last |-> <<p.parts[i].pt, p.parts[i].count>>],
         length |-> p.length]

mpf_rtcp_rx_timer_proc ==
    /\ packet.parts # <<>>
    /\ seen' = mpf_rtcp_compound_packet_receive(packet)
    /\ packet' = [parts |-> <<>>, length |-> 0]
    /\ UNCHANGED <<direction, ip>>

Init ==
    /\ direction \in SUBSET {"SEND", "RECEIVE"}
    /\ ip \in IpLengths
    /\ packet = [parts |-> <<>>, length |-> 0]
    /\ seen = [status |-> TRUE, reports |-> <<>>, length |-> 0]

Next == mpf_rtcp_tx_timer_proc \/ mpf_rtcp_bye_send \/ mpf_rtcp_rx_timer_proc

Spec == Init /\ [][Next]_vars

(* Every compound packet fits the buffer it is written to, and the other   *)
(* end reads all its parts, the blocks of statistics among them exactly    *)
(* when the sender receives, whatever the address and the reason           *)
(* (rtcp_*_generate, mpf_rtcp_compound_packet_receive).                    *)
ReportsReadable ==
    /\ seen.status
    /\ seen.length <= BUFFER
    /\ seen.reports # <<>> =>
           /\ seen.reports[1] = <<IF "SEND" \in direction THEN "SR" ELSE "RR",
                                  IF "RECEIVE" \in direction THEN 1 ELSE 0>>
           /\ seen.reports[2] = <<"SDES", 1>>
=============================================================================
