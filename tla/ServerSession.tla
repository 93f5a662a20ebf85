---------------------------- MODULE ServerSession ----------------------------
(***************************************************************************)
(* An MRCPv2 session of the server (libs/mrcp-server/src/                  *)
(* mrcp_server_session.c), from its first offer to its destruction.        *)
(*                                                                         *)
(* To answer an offer the session makes sub-requests of the connection     *)
(* agent, of the media engine and then of the resource engines, each a     *)
(* task of its own, and counts them; the answer is sent, and a session     *)
(* that is asked to terminate goes on from one phase to the next, when the *)
(* count comes back to zero.  The tasks answer in any order with respect   *)
(* to each other, through the one message queue of the server task.        *)
(***************************************************************************)
EXTENDS Naturals, Sequences, FiniteSets, FiniteSetsExt, SequencesExt

CONSTANTS
    Offers,       \* the session descriptors a client offers
    MaxOffers,    \* bound: how many offers the client sends
    MaxControls,  \* bound: how many control requests the client sends
    MaxChannels   \* engine->config->max_channel_count

(* An offer has a sequence of control media, each for a known resource or  *)
(* not and enabled (port # 0) or not, and audio media or none.             *)
ControlMedia == [known : BOOLEAN, port : BOOLEAN]

ASSUME SessionAssumption ==
    /\ \A o \in Offers : /\ o.control \in Seq(ControlMedia)
                         /\ o.control # <<>>
                         /\ o.audio \in BOOLEAN
    /\ MaxOffers \in Nat /\ MaxControls \in Nat /\ MaxChannels \in Nat \ {0}

VARIABLES
    call,              \* the SIP call: NONE, UP, BYE once the server ends it, OVER
    offered,           \* how many offers the client has sent
    controls,          \* how many control requests the client has sent
    active_request,
    request_queue,
    dispatching,       \* active_request was just set and is to be dispatched
    state,             \* TERMINATED once the session is destroyed
    subrequest_count,
    offer,
    status,            \* session->answer->status
    last_offer,
    answers,           \* the status of each answer sent
    agreed,            \* the last offer that was answered OK
    channels,
    rtp,               \* the RTP termination slot
    cur_channel_count, \* the engine's count of channels
    control,           \* requests signalled to the connection agent
    media,             \* containers signalled to the media engine
    engine,            \* requests made of the resource engine
    stopping,          \* channels whose state machine is being deactivated
    inbox,             \* the message queue of the server task
    attached,          \* channels the connection agent knows
    opened             \* channels the resource engine has open

vars == <<call, offered, controls, active_request, request_queue, dispatching,
          state, subrequest_count, offer, status, last_offer, answers, agreed,
          channels, rtp, cur_channel_count, control, media, engine, stopping,
          inbox, attached, opened>>

clientVars == <<call, offered, controls>>
requestVars == <<active_request, request_queue, dispatching>>
offerVars == <<offer, status, last_offer, answers, agreed>>
agentVars == <<control, media, engine, stopping>>
peerVars == <<attached, opened>>

-----------------------------------------------------------------------------
NoOffer == [control |-> <<>>, audio |-> FALSE]

Signal(type, o, ch) == [type |-> type, offer |-> o, ch |-> ch]
NONE == Signal("NONE", NoOffer, 0)
TERMINATE == Signal("TERMINATE", NoOffer, 0)

(* A request to, and an answer of, another task, or a signal of its own.   *)
(* ch is an index in channels, 0 for the RTP termination and the topology. *)
Msg(cmd, ch) == [cmd |-> cmd, ch |-> ch, ok |-> TRUE, offer |-> NoOffer]

ForAll(cmd, seq) == [j \in DOMAIN seq |-> Msg(cmd, seq[j])]

Indices(Test(_), n) == SelectSeq([i \in 1..n |-> i], Test)

MAX_MPF_MESSAGE_COUNT == 5

(* mpf_engine_message_get: the messages to the media engine are sent in    *)
(* containers of a fixed size.                                             *)
Containers(msgs) ==
    [c \in 1..((Len(msgs) + MAX_MPF_MESSAGE_COUNT - 1) \div MAX_MPF_MESSAGE_COUNT) |->
        SubSeq(msgs, (c - 1) * MAX_MPF_MESSAGE_COUNT + 1,
                     Min({c * MAX_MPF_MESSAGE_COUNT, Len(msgs)}))]

(* The channel created for control media i of an offer; the engine may     *)
(* have no channel left for it.                                            *)
mrcp_server_channel_create(i, has_engine) ==
    [id |-> i, engine |-> has_engine, is_open |-> FALSE, used |-> FALSE,
     waiting_for_channel |-> FALSE, waiting_for_termination |-> FALSE]

WithEngine(chs) == Indices(LAMBDA k : chs[k].engine, Len(chs))

-----------------------------------------------------------------------------
(* Sending an answer makes the next queued request active; its dispatch is *)
(* nested in whatever sent the answer, and so is the very next step.       *)
NextRequest ==
    IF request_queue = <<>>
      THEN active_request' = NONE /\ dispatching' = FALSE /\ UNCHANGED request_queue
      ELSE /\ active_request' = Head(request_queue)
           /\ request_queue' = Tail(request_queue)
           /\ dispatching' = TRUE

mrcp_server_session_answer_send(o, s) ==
    /\ answers' = Append(answers, s)
    /\ last_offer' = o
    /\ agreed' = IF s = "OK" THEN o ELSE agreed
    /\ offer' = NoOffer
    /\ status' = s
    /\ NextRequest

(* mrcp_server_session_terminate_send: the engine's channels are destroyed *)
mrcp_server_session_terminate_send(chs) ==
    /\ state' = "TERMINATED"
    /\ cur_channel_count' = cur_channel_count - Len(WithEngine(chs))

(* mrcp_server_session_terminate_process: remove every control channel,    *)
(* subtract every termination and close the given engine channels.  The    *)
(* session has had an offer, so there is a media context to reset, and the *)
(* count is not zero.                                                      *)
RemoveAll(chs, slot, closes, count) ==
    LET subtracts == ForAll("subtract", WithEngine(chs))
                     \o (IF slot.exists THEN <<Msg("subtract", 0)>> ELSE <<>>)
    IN  /\ state' = "TERMINATING"
        /\ control' = control \o ForAll("remove", [k \in 1..Len(chs) |-> k])
        /\ media' = media \o Containers(<<Msg("topology", 0)>> \o subtracts)
        /\ engine' = engine \o ForAll("close", closes)
        /\ subrequest_count' = Len(chs) + 1 + Len(subtracts) + count
        /\ channels' = [k \in DOMAIN chs |->
               [chs[k] EXCEPT !.is_open = FALSE,
                              !.waiting_for_channel = TRUE,
                              !.waiting_for_termination = chs[k].engine]]
        /\ rtp' = [slot EXCEPT !.waiting = slot.exists]
        /\ UNCHANGED cur_channel_count

OpenChannels(chs) == Indices(LAMBDA k : chs[k].engine /\ chs[k].is_open, Len(chs))

mrcp_server_session_terminate_process_keeps_open(chs, slot) ==
    RemoveAll(chs, slot, <<>>, 0)

mrcp_server_session_terminate_process(chs, slot) ==
    RemoveAll(chs, slot, OpenChannels(chs), Len(OpenChannels(chs)))

(* mrcp_engine_channel_virtual_open, mrcp_engine_channel_virtual_close of   *)
(* the engine channels in the sequence changed; now: send the answer.      *)
OpenOrClose(chs, changed, now) ==
    /\ state' = "INITIALIZING"
    /\ subrequest_count' = Len(changed)
    /\ engine' = engine \o [j \in DOMAIN changed |->
           Msg(IF chs[changed[j]].is_open THEN "close" ELSE "open", changed[j])]
    /\ channels' = [k \in DOMAIN chs |->
           [chs[k] EXCEPT !.is_open = (@ # (k \in ToSet(changed)))]]
    /\ IF now THEN mrcp_server_session_answer_send(offer, status)
              ELSE UNCHANGED <<requestVars, offerVars>>

(* The engine channels that are not as the offer has them: channel k is    *)
(* taken to be that of control media k.                                    *)
ToUpdate(chs) ==
    Indices(LAMBDA k : /\ chs[k].engine
                       /\ k <= Len(offer.control)
                       /\ chs[k].is_open # offer.control[k].port, Len(chs))

mrcp_server_engine_channels_update_answers_at_once(chs) ==
    OpenOrClose(chs, ToUpdate(chs), TRUE)

(* mrcp_server_engine_channels_update: open the engine channels whose      *)
(* control media is enabled, close the others.                             *)
mrcp_server_engine_channels_update(chs) ==
    OpenOrClose(chs, ToUpdate(chs), ToUpdate(chs) = <<>>)

(* mrcp_server_session_subrequest_remove, with the channels and the slot   *)
(* as its caller left them, and the status of the answer so far.           *)
mrcp_server_session_subrequest_remove(chs, slot, s) ==
    \/ /\ subrequest_count # 1
       /\ subrequest_count' = IF subrequest_count = 0 THEN 0
                                                      ELSE subrequest_count - 1
       /\ channels' = chs /\ rtp' = slot /\ status' = s
       /\ UNCHANGED <<requestVars, state, offer, last_offer, answers, agreed,
                      cur_channel_count, control, media, engine>>
    \/ /\ subrequest_count = 1
       /\ \/ /\ state = "GENERATING_ANSWER"
             /\ mrcp_server_engine_channels_update(chs)
             /\ rtp' = slot
             /\ UNCHANGED <<cur_channel_count, control, media>>
          \/ /\ state = "INITIALIZING"
             /\ mrcp_server_session_answer_send(offer, s)
             /\ subrequest_count' = 0
             /\ channels' = chs /\ rtp' = slot
             /\ UNCHANGED <<state, cur_channel_count, control, media, engine>>
          \/ /\ state = "DEACTIVATING"
             /\ mrcp_server_session_terminate_process(chs, slot)
             /\ UNCHANGED <<requestVars, offerVars>>
          \/ /\ state = "TERMINATING"
             /\ mrcp_server_session_terminate_send(chs)
             /\ subrequest_count' = 0
             /\ channels' = chs /\ rtp' = slot
             /\ UNCHANGED <<requestVars, offerVars, control, media, engine>>

-----------------------------------------------------------------------------
(* The dispatch of the active request.                                     *)

Dispatch(type) ==
    /\ dispatching
    /\ active_request.type = type

(* mrcp_server_session_offer_process: an offer that is identical to the    *)
(* last one is answered with the last answer.                              *)
OfferUnchanged ==
    /\ Dispatch("OFFER")
    /\ active_request.offer = last_offer
    /\ mrcp_server_session_answer_send(last_offer, answers[Len(answers)])
    /\ UNCHANGED <<state, subrequest_count, channels, rtp, cur_channel_count,
                   control, media, engine, stopping>>

(* mrcp_engine_channel_virtual_create for the j-th new channel.            *)
HasChannelLeft(j) == cur_channel_count + j <= MaxChannels

(* The new channels of an offer, for its control media after the first n:  *)
(* one for each known resource, with an engine channel while there is one. *)
NewChannels(o, n) ==
    LET lines == Indices(LAMBDA i : i > n /\ o.control[i].known, Len(o.control))
    IN  [j \in 1..Len(lines) |->
            mrcp_server_channel_create(lines[j], HasChannelLeft(j))]

(* The status of the answer: that of the last channel that could not be    *)
(* created.                                                                *)
OfferStatus(o, n, new) ==
    LET failed == {i \in (n + 1)..Len(o.control) :
                      \A j \in DOMAIN new : new[j].engine => new[j].id # i}
    IN  IF failed = {} THEN "OK"
        ELSE IF o.control[Max(failed)].known THEN "UNACCEPTABLE_RESOURCE"
                                             ELSE "NO_SUCH_RESOURCE"

(* mrcp_server_av_media_offer_process: add or modify the RTP termination   *)
(* and associate it with every engine channel.                             *)
AudioMessages(o, all) ==
    IF o.audio THEN <<Msg("rtp", 0)>> \o ForAll("association", WithEngine(all))
               ELSE <<>>

(* mrcp_server_session_offer_process: modify the control channels there    *)
(* are, add the new ones and their terminations, set up the RTP            *)
(* termination, associate it with every channel and apply the topology.    *)
mrcp_server_session_offer_process ==
    LET o    == active_request.offer
        n    == Min({Len(channels), Len(o.control)})
        old  == [k \in DOMAIN channels |->
                    IF k <= n THEN [channels[k] EXCEPT !.waiting_for_channel = TRUE]
                              ELSE channels[k]]
        new  == NewChannels(o, n)
        first == Len(channels)
        Added(j) == [new[j] EXCEPT !.waiting_for_channel = TRUE,
                                   !.waiting_for_termination = new[j].engine]
        all  == old \o [j \in DOMAIN new |-> Added(j)]
        adds == ForAll("add_termination",
                       Indices(LAMBDA k : k > first /\ all[k].engine, Len(all)))
        msgs == <<Msg("topology", 0)>> \o adds \o AudioMessages(o, all)
                \o <<Msg("topology", 0)>>
        ctrl == ForAll("modify", [k \in 1..n |-> k])
                \o ForAll("add", [j \in 1..Len(new) |-> first + j])
    IN  /\ Dispatch("OFFER")
        /\ o # last_offer
        /\ offer' = o
        /\ status' = OfferStatus(o, n, new)
        /\ state' = "GENERATING_ANSWER"
        /\ control' = control \o ctrl
        /\ media' = media \o Containers(msgs)
        /\ subrequest_count' = Len(ctrl) + Len(msgs)
        /\ channels' = all
        /\ rtp' = IF o.audio THEN [exists |-> TRUE, waiting |-> TRUE] ELSE rtp
        /\ cur_channel_count' = cur_channel_count + Len(SelectSeq(new, LAMBDA c : c.engine))
        /\ dispatching' = FALSE
        /\ UNCHANGED <<active_request, request_queue, last_offer, answers, agreed,
                       engine, stopping>>

(* mrcp_server_on_message_receive: the state machine of the channel sends  *)
(* the request to its engine channel, if there is one.                     *)
mrcp_server_on_message_receive ==
    LET k == active_request.ch
    IN  /\ Dispatch("CONTROL")
        /\ engine' = IF channels[k].engine THEN Append(engine, Msg("request", k))
                                           ELSE engine
        /\ channels' = [channels EXCEPT ![k].used = channels[k].engine]
        /\ dispatching' = FALSE
        /\ UNCHANGED <<active_request, request_queue, offerVars, state,
                       subrequest_count, rtp, cur_channel_count,
                       control, media, stopping>>

(* mrcp_server_session_deactivate: wait for the state machines that are    *)
(* busy, or proceed.                                                       *)
Deactivate(busy, proceed) ==
    /\ Dispatch("TERMINATE")
    /\ dispatching' = FALSE
    /\ stopping' = busy
    /\ IF proceed
         THEN mrcp_server_session_terminate_process(channels, rtp)
         ELSE /\ state' = "DEACTIVATING"
              /\ subrequest_count' = Cardinality(busy)
              /\ UNCHANGED <<channels, rtp, cur_channel_count, control, media,
                             engine>>
    /\ UNCHANGED <<active_request, request_queue, offerVars>>

(* Any of the state machines that were sent a request may be busy.         *)
Used == {k \in DOMAIN channels : channels[k].used}

mrcp_server_session_deactivate_waits ==
    \E busy \in SUBSET Used : Deactivate(busy, FALSE)

mrcp_server_session_deactivate ==
    \E busy \in SUBSET Used : Deactivate(busy, busy = {})

mrcp_server_signaling_message_dispatch ==
    /\ \/ OfferUnchanged
       \/ mrcp_server_session_offer_process
       \/ mrcp_server_on_message_receive
       \/ mrcp_server_session_deactivate
    /\ UNCHANGED <<clientVars, inbox, peerVars>>

-----------------------------------------------------------------------------
(* The messages of the server task's queue.  None is taken while a request *)
(* is to be dispatched.                                                    *)

(* mrcp_server_on_channel_modify, mrcp_server_on_channel_remove            *)
mrcp_server_on_channel_modify(m) ==
    /\ m.cmd \in {"add", "modify", "remove"}
    /\ IF channels[m.ch].waiting_for_channel
         THEN mrcp_server_session_subrequest_remove(
                  [channels EXCEPT ![m.ch].waiting_for_channel = FALSE], rtp, status)
         ELSE UNCHANGED <<requestVars, state, subrequest_count, offerVars,
                          channels, rtp, cur_channel_count, control, media, engine>>
    /\ UNCHANGED stopping

(* mrcp_server_on_engine_channel_open: a failure becomes the status of the *)
(* answer.                                                                 *)
mrcp_server_on_engine_channel_open(m) ==
    /\ m.cmd = "open"
    /\ mrcp_server_session_subrequest_remove(channels, rtp,
           IF m.ok THEN status ELSE "UNAVAILABLE_RESOURCE")
    /\ UNCHANGED stopping

mrcp_server_on_engine_channel_close(m) ==
    /\ m.cmd = "close"
    /\ mrcp_server_session_subrequest_remove(channels, rtp, status)
    /\ UNCHANGED stopping

(* mrcp_server_on_termination_modify, mrcp_server_on_termination_subtract: *)
(* channel 0 stands for the RTP termination.                               *)
mrcp_server_on_termination_modify(m) ==
    /\ m.cmd \in {"add_termination", "rtp", "subtract"}
    /\ \/ /\ m.ch = 0 /\ rtp.waiting
          /\ mrcp_server_session_subrequest_remove(channels,
                 [rtp EXCEPT !.waiting = FALSE], status)
       \/ /\ m.ch # 0 /\ channels[m.ch].waiting_for_termination
          /\ mrcp_server_session_subrequest_remove(
                 [channels EXCEPT ![m.ch].waiting_for_termination = FALSE],
                 rtp, status)
    /\ UNCHANGED stopping

(* mrcp_server_mpf_message_process: associations and topology.             *)
mrcp_server_mpf_message_process(m) ==
    /\ m.cmd \in {"topology", "association"}
    /\ mrcp_server_session_subrequest_remove(channels, rtp, status)
    /\ UNCHANGED stopping

(* The engine has stopped the in-progress request of a state machine that  *)
(* is being deactivated.                                                   *)
state_machine_on_deactivate(m) ==
    /\ m.cmd = "deactivated"
    /\ mrcp_server_session_subrequest_remove(channels, rtp, status)
    /\ UNCHANGED stopping

(* state_machine_on_message_dispatch: the response to a control request.   *)
state_machine_on_message_dispatch(m) ==
    /\ m.cmd = "request"
    /\ NextRequest
    /\ UNCHANGED <<state, subrequest_count, offerVars, channels, rtp,
                   cur_channel_count, agentVars>>

(* mrcp_server_on_disconnect asks the signalling agent to end the call,    *)
(* unless the session is being terminated already.                         *)
mrcp_server_on_disconnect(m) ==
    /\ m.cmd = "disconnect"
    /\ call' = IF call = "UP" /\ state \notin {"DEACTIVATING", "TERMINATING"}
                 THEN "BYE" ELSE call
    /\ UNCHANGED <<requestVars, state, subrequest_count, offerVars, channels,
                   rtp, cur_channel_count, agentVars>>

(* The request of the signalling agent or of the connection agent that     *)
(* message m brings.                                                       *)
SignalOf(m) ==
    CASE m.cmd = "offer"     -> Signal("OFFER", m.offer, 0)
      [] m.cmd = "message"   -> Signal("CONTROL", NoOffer, m.ch)
      [] m.cmd = "terminate" -> TERMINATE

mrcp_server_signaling_message_process(m) ==
    /\ m.cmd \in {"offer", "message", "terminate"}
    /\ IF active_request # NONE
         THEN /\ request_queue' = Append(request_queue, SignalOf(m))
              /\ UNCHANGED <<active_request, dispatching>>
         ELSE /\ active_request' = SignalOf(m)
              /\ dispatching' = TRUE
              /\ UNCHANGED request_queue
    /\ UNCHANGED <<state, subrequest_count, offerVars, channels, rtp,
                   cur_channel_count, agentVars>>

ServerMessage ==
    /\ ~dispatching
    /\ inbox # <<>>
    /\ inbox' = Tail(inbox)
    /\ LET m == Head(inbox)
       IN  \/ /\ \/ mrcp_server_signaling_message_process(m)
                 \/ mrcp_server_on_channel_modify(m)
                 \/ mrcp_server_on_engine_channel_open(m)
                 \/ mrcp_server_on_engine_channel_close(m)
                 \/ mrcp_server_on_termination_modify(m)
                 \/ mrcp_server_mpf_message_process(m)
                 \/ state_machine_on_deactivate(m)
                 \/ state_machine_on_message_dispatch(m)
              /\ UNCHANGED call
           \/ mrcp_server_on_disconnect(m)
    /\ UNCHANGED <<offered, controls, peerVars>>

Server == mrcp_server_signaling_message_dispatch \/ ServerMessage

-----------------------------------------------------------------------------
(* The other tasks.  Each answers its requests in order.                   *)

AgentUnchanged == UNCHANGED <<clientVars, requestVars, offerVars, state,
                              subrequest_count, channels, rtp, cur_channel_count>>

(* mrcp_server_agent_msg_process                                           *)
ConnectionAgent ==
    /\ control # <<>>
    /\ LET m == Head(control)
       IN  /\ control' = Tail(control)
           /\ inbox' = Append(inbox, m)
           /\ attached' = IF m.cmd = "remove" THEN attached \ {m.ch}
                                              ELSE attached \cup {m.ch}
    /\ AgentUnchanged
    /\ UNCHANGED <<media, engine, stopping, opened>>

(* mrcp_connection_disconnect_raise.  Bound: one at a time.                *)
ConnectionLost ==
    /\ \E k \in attached :
         /\ \A i \in DOMAIN inbox : inbox[i].cmd # "disconnect"
         /\ inbox' = Append(inbox, Msg("disconnect", k))
    /\ AgentUnchanged
    /\ UNCHANGED <<agentVars, peerVars>>

(* mpf_engine_msg_process answers a container at a time.                   *)
MediaEngine ==
    /\ media # <<>>
    /\ media' = Tail(media)
    /\ inbox' = inbox \o Head(media)
    /\ AgentUnchanged
    /\ UNCHANGED <<control, engine, stopping, peerVars>>

(* The resource engine may fail to open a channel.                         *)
ResourceEngine ==
    /\ engine # <<>>
    /\ LET m == Head(engine)
       IN  /\ engine' = Tail(engine)
           /\ \E ok \in BOOLEAN :
                /\ ~ok => m.cmd = "open"
                /\ inbox' = Append(inbox, [m EXCEPT !.ok = ok])
                /\ opened' = CASE m.cmd = "open" /\ ok -> opened \cup {m.ch}
                                [] m.cmd = "close" -> opened \ {m.ch}
                                [] OTHER -> opened
    /\ AgentUnchanged
    /\ UNCHANGED <<control, media, stopping, attached>>

(* The engine stops the in-progress request of a deactivated channel.      *)
EngineStops ==
    /\ \E k \in stopping :
         /\ stopping' = stopping \ {k}
         /\ inbox' = Append(inbox, Msg("deactivated", k))
    /\ AgentUnchanged
    /\ UNCHANGED <<control, media, engine, peerVars>>

-----------------------------------------------------------------------------
(* The client, through the signalling agent and the control connection.    *)

SessionUnchanged == UNCHANGED <<requestVars, offerVars, state, subrequest_count,
                                channels, rtp, cur_channel_count, agentVars, peerVars>>

(* mrcp_sofia_on_call_receive: a SIP call has one offer at a time, and does *)
(* not outlive the refusal of its first offer.                             *)
ClientOffer ==
    /\ call \in {"NONE", "UP"}
    /\ offered < MaxOffers
    /\ offered = Len(answers)
    /\ offered > 0 => answers[1] = "OK"
    /\ call' = "UP"
    /\ offered' = offered + 1
    /\ \E o \in Offers : inbox' = Append(inbox, [Msg("offer", 0) EXCEPT !.offer = o])
    /\ UNCHANGED controls
    /\ SessionUnchanged

(* A control request on a channel the client was told it may use.  It may  *)
(* come after the end of the call, until the channel is removed.           *)
ClientControl ==
    /\ controls < MaxControls
    /\ controls' = controls + 1
    /\ \E k \in attached :
         /\ channels[k].id <= Len(agreed.control)
         /\ agreed.control[channels[k].id].port
         /\ inbox' = Append(inbox, Msg("message", k))
    /\ UNCHANGED <<call, offered>>
    /\ SessionUnchanged

(* mrcp_sofia_on_call_terminate: the client, or the agent because the      *)
(* first offer was refused or the server asked for it, ends the call.      *)
CallEnds ==
    /\ call \in {"UP", "BYE"}
    /\ call' = "OVER"
    /\ inbox' = Append(inbox, Msg("terminate", 0))
    /\ UNCHANGED <<offered, controls>>
    /\ SessionUnchanged

CallIsToEnd == call = "BYE" \/ (answers # <<>> /\ answers[1] # "OK")

-----------------------------------------------------------------------------
Init ==
    /\ call = "NONE" /\ offered = 0 /\ controls = 0
    /\ active_request = NONE /\ request_queue = <<>> /\ dispatching = FALSE
    /\ state = "NONE" /\ subrequest_count = 0
    /\ offer = NoOffer /\ last_offer = NoOffer /\ agreed = NoOffer
    /\ status = "OK" /\ answers = <<>>
    /\ channels = <<>> /\ rtp = [exists |-> FALSE, waiting |-> FALSE]
    /\ cur_channel_count = 0
    /\ control = <<>> /\ media = <<>> /\ engine = <<>> /\ stopping = {}
    /\ inbox = <<>> /\ attached = {} /\ opened = {}

Next ==
    \/ ClientOffer
    \/ ClientControl
    \/ CallEnds
    \/ Server
    \/ ConnectionAgent
    \/ ConnectionLost
    \/ MediaEngine
    \/ ResourceEngine
    \/ EngineStops

(* Every task of the server processes its queue, and the signalling agent  *)
(* ends a call that is to end.                                             *)
Fairness ==
    /\ WF_vars(Server)
    /\ WF_vars(ConnectionAgent)
    /\ WF_vars(MediaEngine)
    /\ WF_vars(ResourceEngine)
    /\ WF_vars(EngineStops)
    /\ WF_vars(CallIsToEnd /\ CallEnds)

Spec == Init /\ [][Next]_vars

FairSpec == Spec /\ Fairness

-----------------------------------------------------------------------------
(* Properties.                                                             *)

Channel == [id : Nat, engine : BOOLEAN, is_open : BOOLEAN, used : BOOLEAN,
            waiting_for_channel : BOOLEAN, waiting_for_termination : BOOLEAN]

Status == {"OK", "NO_SUCH_RESOURCE", "UNACCEPTABLE_RESOURCE",
           "UNAVAILABLE_RESOURCE"}

SignalMessage == [type : {"NONE", "OFFER", "CONTROL", "TERMINATE"},
                  offer : Offers \cup {NoOffer}, ch : Nat]

AgentMessage == [cmd : STRING, ch : Nat, ok : BOOLEAN, offer : Offers \cup {NoOffer}]

(* Every variable keeps its type, and the engine's channel count its limit.*)
TypeOK ==
    /\ call \in {"NONE", "UP", "BYE", "OVER"}
    /\ offered \in 0..MaxOffers /\ controls \in 0..MaxControls
    /\ active_request \in SignalMessage
    /\ request_queue \in Seq(SignalMessage)
    /\ dispatching \in BOOLEAN
    /\ state \in {"NONE", "GENERATING_ANSWER", "INITIALIZING", "DEACTIVATING",
                  "TERMINATING", "TERMINATED"}
    /\ subrequest_count \in Nat
    /\ {offer, last_offer, agreed} \subseteq Offers \cup {NoOffer}
    /\ status \in Status /\ answers \in Seq(Status)
    /\ channels \in Seq(Channel)
    /\ rtp \in [exists : BOOLEAN, waiting : BOOLEAN]
    /\ cur_channel_count \in 0..MaxChannels
    /\ {control, engine, inbox} \subseteq Seq(AgentMessage)
    /\ media \in Seq(Seq(AgentMessage))
    /\ {stopping, attached, opened} \subseteq SUBSET (DOMAIN channels)

Uncounted == {"offer", "message", "terminate", "request", "disconnect"}

Counted(seq) == Len(SelectSeq(seq, LAMBDA m : m.cmd \notin Uncounted))

(* How many sub-requests have not been answered to the session yet.        *)
Outstanding ==
    Len(control) + Len(FlattenSeq(media)) + Counted(engine)
    + Cardinality(stopping) + Counted(inbox)

(* subrequest_count is the number of sub-requests in progress, so none of  *)
(* the "error case" branches is taken and no phase begins early or never.  *)
CountMatchesOutstanding == subrequest_count = Outstanding

(* A destroyed session leaves nothing behind: no task has or sends a       *)
(* message about it, the connection agent and the engine do not know its   *)
(* channels and the engine's channel count is what it was.                 *)
NothingLeft ==
    state = "TERMINATED" =>
        /\ Outstanding = 0 /\ inbox = <<>>
        /\ attached = {} /\ opened = {}
        /\ cur_channel_count = 0

(* An answer is sent when everything the offer asked for is done: the      *)
(* engine has answered for every channel and nothing is outstanding.       *)
AnswerWhenDone ==
    [][answers' # answers => Outstanding' = 0]_vars

(* A session is destroyed when its call is over, whatever was going on, or *)
(* when its control connection is lost and the server ends the call.       *)
TerminateCompletes == (call \in {"BYE", "OVER"}) ~> (state = "TERMINATED")

-----------------------------------------------------------------------------

On == [known |-> TRUE, port |-> TRUE]
Off == [known |-> TRUE, port |-> FALSE]
Unknown == [known |-> FALSE, port |-> FALSE]

Offer(lines, audio) == [control |-> lines, audio |-> audio]

(* One channel; three, of which the engine has two; one that is disabled,  *)
(* an unknown resource and a channel after it, without audio.              *)
SeveralChannels == {Offer(<<On>>, TRUE), Offer(<<On, On, On>>, TRUE),
                    Offer(<<Off, Unknown, On>>, FALSE)}

(* The sub-request count is exact, and an answer leaves only when nothing  *)
(* the offer asked for is outstanding (mrcp_server_session_subrequest_add, *)
(* _remove and mrcp_server_session_answer_send).                           *)
SubrequestsExact == []CountMatchesOutstanding /\ AnswerWhenDone

=============================================================================
