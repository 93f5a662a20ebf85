---------------------------- MODULE ClientSession ----------------------------
(* The MRCPv2 client session (mrcp_client_session.c) with the signalling   *)
(* agent of the SIP stack (mrcp_sofiasip_client_agent.c).  The application *)
(* sends requests, which the client task serves one at a time.  A request  *)
(* that needs other tasks splits into sub-requests to the connection agent,*)
(* the media engine and the signalling agent; their answers come through   *)
(* the queue of the client task.                                           *)
EXTENDS Naturals, Sequences, FiniteSets, SequencesExt

CONSTANTS
    Channels,       \* the channels of the application
    MediaChannels,  \* those with a termination of the media engine; the
                    \* others bypass it
    Scripts         \* the sequences of requests the application may send,
                    \* each of them [type, ch]

MAX_MPF_MESSAGE_COUNT == 5

(* The application adds a channel before it uses it, and sends nothing     *)
(* after TERMINATE: "it is horribly wrong and can crash anytime here".     *)
ASSUME ClientSessionAssumption ==
    /\ MediaChannels \subseteq Channels
    /\ \A s \in Scripts :
         /\ s \in Seq([type : {"ADD", "REMOVE", "UPDATE", "CONTROL", "DISCOVER",
                               "TERMINATE"}, ch : Channels])
         /\ \A i \in DOMAIN s :
              /\ s[i].type \in {"REMOVE", "CONTROL", "UPDATE"} =>
                   \E j \in 1..(i - 1) : s[j] = [type |-> "ADD", ch |-> s[i].ch]
              /\ s[i].type = "TERMINATE" => i = Len(s)

VARIABLES
    sent,               \* the requests of the application, [type, ch]
    raised,             \* its responses and events, [id, status]; id is an index
                        \* of sent, 0 for an event
    active_request,     \* an index of sent, or 0
    request_queue,
    dispatching,        \* mrcp_app_request_dispatch is to be called
    registered,         \* the session has been added to the session table
    in_table,           \* and not been removed from it
    disconnected,
    state,
    status,
    subrequest_count,
    offer,              \* session->offer is set
    base_id,            \* session->base.id is set
    channels,           \* the channels in the order they were added; each has
                        \* a control channel and a termination slot
    waiting,            \* the waiting_* flags that are set, <<flag, channel>>
    inbox,              \* the queue of the client task
    control,            \* the queue of the connection agent
    connection,         \* the connection of each channel
    pending,            \* the channels that wait for a response of the server
    media,              \* the queue of the media engine, in containers
    nh,                 \* the session's handle of the SIP stack is set
    nua_state,
    terminate_requested,
    commands,           \* the commands given to the handle
    raising             \* what is left of mrcp_sofia_on_session_terminate

requestVars == <<raised, active_request, request_queue, dispatching, status>>
sessionVars == <<registered, in_table, disconnected, state, offer, base_id, channels>>
subrequestVars == <<subrequest_count, waiting>>
connectionVars == <<connection, pending>>
handleVars == <<nua_state, raising>>
vars == <<sent, requestVars, sessionVars, subrequestVars, inbox, control, media,
          connectionVars, nh, terminate_requested, commands, handleVars>>

Msg(cmd, k) == [cmd |-> cmd, ch |-> k, ok |-> TRUE]

(* mpf_engine_message_get: the messages to the media engine are sent in    *)
(* containers of a fixed size.                                             *)
Containers(msgs) ==
    LET full == Len(msgs) \div MAX_MPF_MESSAGE_COUNT
        Part(c) == SubSeq(msgs, (c - 1) * MAX_MPF_MESSAGE_COUNT + 1,
                                c * MAX_MPF_MESSAGE_COUNT)
        rest == SubSeq(msgs, full * MAX_MPF_MESSAGE_COUNT + 1, Len(msgs))
    IN  [c \in 1..full |-> Part(c)] \o IF rest = <<>> THEN <<>> ELSE <<rest>>

(* The channels of the session that use the media engine, in order.        *)
Terminations(chs) == SelectSeq(chs, LAMBDA k : k \in MediaChannels)

(* One message for each channel of seq.                                    *)
ForAll(cmd, seq) == [i \in DOMAIN seq |-> Msg(cmd, seq[i])]

-----------------------------------------------------------------------------
(* Responses to the application and offers to the server.                  *)

(* Answer the active request and, with next, take the first of the queue.  *)
Raise(s, next) ==
    LET more == next /\ request_queue # <<>>
    IN  /\ raised' = Append(raised, [id |-> active_request, status |-> s])
        /\ active_request' = IF more THEN Head(request_queue) ELSE 0
        /\ request_queue' = IF more THEN Tail(request_queue) ELSE request_queue
        /\ dispatching' = more

mrcp_app_sig_response_raise(s, next) ==
    LET s1 == IF disconnected THEN "TERMINATE" ELSE s
    IN  IF active_request = 0
          THEN /\ status' = s
               /\ UNCHANGED <<raised, active_request, request_queue, dispatching>>
          ELSE /\ status' = s1
               /\ Raise(s1, next)

(* mrcp_app_control_message_raise for a response, in a session of status s.*)
mrcp_app_control_message_raise(s) ==
    /\ status' = s
    /\ Raise("SUCCESS", TRUE)

(* mrcp_app_failure_message_raise                                          *)
mrcp_app_failure_message_raise(s) ==
    /\ status' = s
    /\ raised' = Append(raised, [id |-> active_request, status |-> s])
    /\ active_request' = 0
    /\ dispatching' = FALSE
    /\ UNCHANGED request_queue

(* mrcp_sofia_session_offer: nothing is sent when the call is over.        *)
mrcp_sofia_session_offer(handle) ==
    commands' = IF handle THEN Append(commands, "invite") ELSE commands

(* mrcp_client_session_offer_send: nobody looks at the result.             *)
mrcp_client_session_offer_send(handle) == mrcp_sofia_session_offer(handle)

(* mrcp_app_session_terminate_raise                                        *)
mrcp_app_session_terminate_raise(s) ==
    /\ in_table' = FALSE
    /\ mrcp_app_sig_response_raise(s, FALSE)

(* mrcp_client_session_subrequest_remove, with the flags left to wait for; *)
(* finish is what the caller does after the last sub-request.              *)
mrcp_client_session_subrequest_remove(flags, finish, s) ==
    /\ waiting' = flags
    /\ subrequest_count' = IF subrequest_count = 0 THEN 0 ELSE subrequest_count - 1
    /\ \/ /\ subrequest_count # 1 \/ finish = "nothing"
          /\ UNCHANGED <<requestVars, in_table, commands>>
       \/ /\ subrequest_count = 1 /\ finish = "offer"
          /\ mrcp_client_session_offer_send(nh)
          /\ UNCHANGED <<requestVars, in_table>>
       \/ /\ subrequest_count = 1 /\ finish = "response"
          /\ mrcp_app_sig_response_raise(s, TRUE)
          /\ UNCHANGED <<in_table, commands>>
       \/ /\ subrequest_count = 1 /\ finish = "terminate"
          /\ mrcp_app_session_terminate_raise(s)
          /\ UNCHANGED commands

-----------------------------------------------------------------------------
(* mrcp_app_request_dispatch                                               *)

Type(i) == sent[i].type

(* A disconnected session cancels every request but TERMINATE.             *)
CancelRequest ==
    /\ dispatching /\ state # "TERMINATING"
    /\ disconnected /\ Type(active_request) # "TERMINATE"
    /\ mrcp_app_failure_message_raise("CANCEL")
    /\ UNCHANGED <<sessionVars, subrequestVars, inbox, control, media,
                   nh, terminate_requested, commands>>

(* There is nothing to terminate.                                          *)
TerminateUnregistered ==
    /\ dispatching /\ ~registered
    /\ Type(active_request) = "TERMINATE"
    /\ mrcp_app_sig_response_raise("SUCCESS", FALSE)
    /\ UNCHANGED <<sessionVars, subrequestVars, inbox, control, media,
                   nh, terminate_requested, commands>>

(* No agent can be selected, or the agent cannot create a session; once    *)
(* that happened the status of the session says so.                        *)
RegisterFails ==
    /\ dispatching /\ ~registered
    /\ Type(active_request) # "TERMINATE"
    /\ mrcp_app_failure_message_raise("FAILURE")
    /\ UNCHANGED <<sessionVars, subrequestVars, inbox, control, media,
                   nh, terminate_requested, commands>>

(* The request is processed, in a session that is registered if need be.   *)
Dispatch(type) ==
    /\ dispatching /\ state # "TERMINATING"
    /\ Type(active_request) = type
    /\ disconnected => type = "TERMINATE"
    /\ ~registered => type # "TERMINATE" /\ status # "FAILURE"
    /\ registered' = TRUE
    /\ in_table' = (in_table \/ ~registered)
    /\ nh' = (nh \/ ~registered)
    /\ UNCHANGED <<disconnected, base_id>>

(* The active request stays active.                                        *)
InProgress ==
    /\ dispatching' = FALSE
    /\ status' = "SUCCESS"
    /\ UNCHANGED <<raised, active_request, request_queue>>

mrcp_client_channel_find(k) == k \in ToSet(channels)

(* The offer there is, if any, is sent again.                              *)
OfferAgain ==
    /\ InProgress
    /\ IF offer THEN mrcp_client_session_offer_send(nh') ELSE UNCHANGED commands
    /\ UNCHANGED <<state, offer, channels, subrequestVars, inbox, control, media,
                   terminate_requested>>

mrcp_client_session_update == Dispatch("UPDATE") /\ OfferAgain

(* mrcp_client_channel_modify: for a channel that is removed, or added     *)
(* again.                                                                  *)
mrcp_client_channel_modify ==
    /\ \/ Dispatch("REMOVE")
       \/ Dispatch("ADD") /\ mrcp_client_channel_find(sent[active_request].ch)
    /\ OfferAgain

mrcp_client_channel_add ==
    LET k == sent[active_request].ch
        msgs == IF k \in MediaChannels
                  THEN <<Msg("add_termination", k), Msg("add_rtp", k)>> ELSE <<>>
    IN  /\ Dispatch("ADD")
        /\ ~mrcp_client_channel_find(k)
        /\ InProgress
        /\ state' = "GENERATING_OFFER"
        /\ offer' = TRUE
        /\ channels' = Append(channels, k)
        /\ control' = Append(control, Msg("add", k))
        /\ media' = media \o Containers(msgs)
        /\ waiting' = waiting \cup {<<"channel", k>>}
             \cup {<<flag, k>> : flag \in IF msgs = <<>> THEN {}
                                          ELSE {"termination", "rtp"}}
        /\ subrequest_count' = 1 + Len(msgs)
        /\ UNCHANGED <<inbox, terminate_requested, commands>>

(* mrcp_client_message_send: before the first answer there is no session   *)
(* id to send the message with.                                            *)
mrcp_client_message_send ==
    /\ Dispatch("CONTROL")
    /\ IF base_id
         THEN /\ control' = Append(control, Msg("message", sent[active_request].ch))
              /\ InProgress
         ELSE /\ mrcp_app_control_message_raise("SUCCESS")
              /\ UNCHANGED control
    /\ UNCHANGED <<state, offer, channels, subrequestVars, inbox, media,
                   terminate_requested, commands>>

(* mrcp_client_resource_discover, mrcp_sofia_session_discover_request      *)
mrcp_client_resource_discover ==
    /\ Dispatch("DISCOVER")
    /\ state' = "DISCOVERING"
    /\ IF nh'
         THEN /\ commands' = Append(commands, "options")
              /\ subrequest_count' = 1
              /\ InProgress
         ELSE /\ subrequest_count' = 0
              /\ mrcp_app_sig_response_raise("FAILURE", TRUE)
              /\ UNCHANGED commands
    /\ UNCHANGED <<offer, channels, waiting, inbox, control, media,
                   terminate_requested>>

mrcp_client_context_destroy(t) ==
    <<Msg("topology", 0)>> \o ForAll("subtract_termination", t)
    \o ForAll("subtract_rtp", t)

RemoveChannels_forgets_first(chs) == ForAll("remove", SubSeq(chs, 2, Len(chs)))

(* The messages that remove the control channels.                          *)
RemoveChannels(chs) == ForAll("remove", chs)

(* The sub-requests of TERMINATE: the last one is to the signalling agent. *)
TerminateSubrequests(ctrl, msgs) == Len(ctrl) + Len(msgs) + 1

(* mrcp_sofia_session_terminate_request: without a call the agent answers  *)
(* at once.                                                                *)
mrcp_sofia_session_terminate_request ==
    /\ terminate_requested' = nh
    /\ commands' = IF nh THEN Append(commands, "bye") ELSE commands
    /\ inbox' = IF nh THEN inbox ELSE Append(inbox, Msg("terminate_response", 0))

mrcp_client_session_terminate ==
    LET t    == Terminations(channels)
        msgs == IF t = <<>> THEN <<>> ELSE mrcp_client_context_destroy(t)
        ctrl == RemoveChannels(channels)
    IN  /\ Dispatch("TERMINATE")
        /\ InProgress
        /\ state' = "TERMINATING"
        /\ control' = control \o ctrl
        /\ media' = media \o Containers(msgs)
        /\ waiting' = waiting \cup ({"channel"} \X {m.ch : m \in ToSet(ctrl)})
                              \cup ({"termination", "rtp"} \X ToSet(t))
        /\ subrequest_count' = TerminateSubrequests(ctrl, msgs)
        /\ mrcp_sofia_session_terminate_request
        /\ UNCHANGED <<offer, channels>>

mrcp_app_request_dispatch ==
    /\ \/ CancelRequest
       \/ TerminateUnregistered
       \/ RegisterFails
       \/ mrcp_client_session_update
       \/ mrcp_client_channel_modify
       \/ mrcp_client_channel_add
       \/ mrcp_client_message_send
       \/ mrcp_client_resource_discover
       \/ mrcp_client_session_terminate
    /\ UNCHANGED <<sent, connectionVars, handleVars>>

-----------------------------------------------------------------------------
(* The messages of the client task's queue.  None is taken while a request *)
(* is to be dispatched.                                                    *)

(* mrcp_client_app_message_process                                         *)
mrcp_client_app_message_process_overtakes(m) ==
    /\ m.cmd = "request"
    /\ IF active_request # 0 /\ Type(m.ch) # "TERMINATE"
         THEN /\ request_queue' = Append(request_queue, m.ch)
              /\ UNCHANGED <<active_request, dispatching>>
         ELSE /\ active_request' = m.ch
              /\ dispatching' = TRUE
              /\ UNCHANGED request_queue
    /\ UNCHANGED <<raised, status, sessionVars, subrequestVars, control, media, commands>>

mrcp_client_app_message_process(m) ==
    /\ m.cmd = "request"
    /\ IF active_request # 0
         THEN /\ request_queue' = Append(request_queue, m.ch)
              /\ UNCHANGED <<active_request, dispatching>>
         ELSE /\ active_request' = m.ch
              /\ dispatching' = TRUE
              /\ UNCHANGED request_queue
    /\ UNCHANGED <<raised, status, sessionVars, subrequestVars, control, media, commands>>

Ignore == UNCHANGED <<requestVars, sessionVars, subrequestVars, control, media, commands>>

(* A sub-request that sets the flag of message m has been answered: what   *)
(* to do when it was the last one.                                         *)
Answered(m, flag, finish, s) ==
    IF <<flag, m.ch>> \in waiting
      THEN /\ mrcp_client_session_subrequest_remove(waiting \ {<<flag, m.ch>>}, finish, s)
           /\ UNCHANGED <<registered, disconnected, state, offer, base_id, channels,
                          control, media>>
      ELSE Ignore

mrcp_client_on_channel_add_offers_at_once(m) ==
    /\ m.cmd = "add"
    /\ <<"channel", m.ch>> \in waiting
    /\ waiting' = waiting \ {<<"channel", m.ch>>}
    /\ subrequest_count' = subrequest_count - 1
    /\ mrcp_client_session_offer_send(nh)
    /\ UNCHANGED <<requestVars, sessionVars, control, media>>

mrcp_client_on_channel_add(m) ==
    /\ m.cmd = "add"
    /\ Answered(m, "channel", "offer", status)

mrcp_client_on_channel_modify(m) ==
    /\ m.cmd = "modify"
    /\ Answered(m, "channel", "response", IF m.ok THEN status ELSE "FAILURE")

mrcp_client_on_channel_remove(m) ==
    /\ m.cmd = "remove"
    /\ Answered(m, "channel", "terminate", status)

mrcp_client_on_termination_add_waits(m) ==
    \/ m.cmd = "add_termination" /\ Answered(m, "termination", "nothing", status)
    \/ m.cmd = "add_rtp" /\ Answered(m, "rtp", "nothing", status)

mrcp_client_on_termination_add(m) ==
    \/ m.cmd = "add_termination" /\ Answered(m, "termination", "offer", status)
    \/ m.cmd = "add_rtp" /\ Answered(m, "rtp", "offer", status)

(* What the answer to a request that several phases make leads to.         *)
ByState == CASE state = "GENERATING_OFFER"  -> "offer"
             [] state = "PROCESSING_ANSWER" -> "response"
             [] OTHER                       -> "nothing"

mrcp_client_on_termination_modify(m) ==
    /\ m.cmd = "modify_rtp"
    /\ Answered(m, "rtp", ByState, status)

mrcp_client_on_termination_subtract(m) ==
    \/ m.cmd = "subtract_termination" /\ Answered(m, "termination", "response", status)
    \/ m.cmd = "subtract_rtp" /\ Answered(m, "rtp", "terminate", status)

(* mrcp_client_mpf_message_process: associations and topology.             *)
mrcp_client_mpf_message_process(m) ==
    /\ m.cmd \in {"association", "topology"}
    /\ mrcp_client_session_subrequest_remove(waiting, ByState, status)
    /\ UNCHANGED <<registered, disconnected, state, offer, base_id, channels,
                   control, media>>

(* The messages that set up the media of the terminations t.               *)
mrcp_client_av_media_answer_process(t) ==
    <<Msg("topology", 0)>>
    \o FlattenSeq([i \in DOMAIN t |-> <<Msg("modify_rtp", t[i]), Msg("association", t[i])>>])
    \o <<Msg("topology", 0)>>

(* The messages that modify the control channels.                          *)
mrcp_client_control_media_answer_process(chs) == ForAll("modify", chs)

(* mrcp_client_session_answer_process: an answer has a control media for   *)
(* each channel, and an audio media for each one with a termination.       *)
mrcp_client_session_answer_process(m) ==
    LET t    == Terminations(channels)
        msgs == IF t = <<>> THEN <<>> ELSE mrcp_client_av_media_answer_process(t)
        ctrl == mrcp_client_control_media_answer_process(channels)
    IN  /\ m.cmd = "answer"
        /\ \/ /\ m.ok
              /\ state' = "PROCESSING_ANSWER"
              /\ base_id' = TRUE
              /\ control' = control \o ctrl
              /\ media' = media \o Containers(msgs)
              /\ waiting' = waiting \cup ({"channel"} \X ToSet(channels))
                                    \cup ({"rtp"} \X ToSet(t))
              /\ subrequest_count' = Len(ctrl) + Len(msgs)
              /\ UNCHANGED requestVars
           \/ /\ ~m.ok
              /\ IF subrequest_count = 0
                   THEN mrcp_app_sig_response_raise("TERMINATE", TRUE)
                   ELSE /\ status' = "TERMINATE"
                        /\ UNCHANGED <<raised, active_request, request_queue, dispatching>>
              /\ UNCHANGED <<state, base_id, control, media, subrequestVars>>
        /\ UNCHANGED <<registered, in_table, disconnected, offer, channels, commands>>

mrcp_client_session_terminate_response_process(m) ==
    /\ m.cmd = "terminate_response"
    /\ mrcp_client_session_subrequest_remove(waiting, "terminate", status)
    /\ UNCHANGED <<registered, disconnected, state, offer, base_id, channels,
                   control, media>>

(* mrcp_client_session_terminate_event_process, mrcp_client_on_disconnect  *)
mrcp_client_session_terminate_event_process(m) ==
    /\ m.cmd \in {"terminate_event", "disconnect"}
    /\ IF state = "TERMINATING"
         THEN UNCHANGED <<disconnected, raised>>
         ELSE /\ disconnected' = TRUE
              /\ raised' = IF active_request = 0
                             THEN Append(raised, [id |-> 0, status |-> "TERMINATE"])
                             ELSE raised
    /\ UNCHANGED <<active_request, request_queue, dispatching, status, registered,
                   in_table, state, offer, base_id, channels, subrequestVars,
                   control, media, commands>>

mrcp_client_session_discover_response_process(m) ==
    /\ m.cmd = "discover_response"
    /\ IF active_request # 0 /\ subrequest_count > 0
         THEN /\ subrequest_count' = subrequest_count - 1
              /\ IF subrequest_count = 1
                   THEN status' = status /\ Raise("SUCCESS", TRUE)
                   ELSE UNCHANGED requestVars
         ELSE UNCHANGED <<requestVars, subrequest_count>>
    /\ UNCHANGED <<sessionVars, waiting, control, media, commands>>

(* A response to a control request.                                        *)
mrcp_client_on_message_receive(m) ==
    /\ m.cmd = "response"
    /\ IF active_request # 0 /\ Type(active_request) = "CONTROL"
         THEN /\ mrcp_app_control_message_raise(status)
              /\ UNCHANGED <<sessionVars, subrequestVars, control, media, commands>>
         ELSE Ignore

mrcp_client_msg_process ==
    /\ ~dispatching
    /\ inbox # <<>>
    /\ inbox' = Tail(inbox)
    /\ LET m == Head(inbox)
       IN  \/ mrcp_client_app_message_process(m)
           \/ mrcp_client_on_channel_add(m)
           \/ mrcp_client_on_channel_modify(m)
           \/ mrcp_client_on_channel_remove(m)
           \/ mrcp_client_on_termination_add(m)
           \/ mrcp_client_on_termination_modify(m)
           \/ mrcp_client_on_termination_subtract(m)
           \/ mrcp_client_mpf_message_process(m)
           \/ mrcp_client_session_answer_process(m)
           \/ mrcp_client_session_terminate_response_process(m)
           \/ mrcp_client_session_terminate_event_process(m)
           \/ mrcp_client_session_discover_response_process(m)
           \/ mrcp_client_on_message_receive(m)
    /\ UNCHANGED <<sent, connectionVars, nh, terminate_requested, handleVars>>

Client == mrcp_app_request_dispatch \/ mrcp_client_msg_process

-----------------------------------------------------------------------------
(* The connection agent, the server's responses, and the media engine.     *)

SessionUnchanged == UNCHANGED <<requestVars, sessionVars, subrequestVars>>
SipUnchanged == UNCHANGED <<nh, terminate_requested, commands, handleVars>>

(* mrcp_client_agent_channel_modify: a channel without connection gets one *)
(* or, when its media is disabled in the answer, stays without.            *)
mrcp_client_agent_channel_modify(m) ==
    /\ m.cmd = "modify"
    /\ \E ok \in BOOLEAN, c \in {"NONE", "OPEN"} :
         /\ connection[m.ch] # "NONE" => ok /\ c = "NONE"
         /\ ~ok => c = "NONE"
         /\ inbox' = Append(inbox, [m EXCEPT !.ok = ok])
         /\ connection' = IF connection[m.ch] = "NONE"
                            THEN [connection EXCEPT ![m.ch] = c] ELSE connection
    /\ UNCHANGED pending

(* mrcp_client_agent_messsage_send: a message that cannot be sent is       *)
(* answered by the agent.                                                  *)
mrcp_client_agent_messsage_send(m) ==
    /\ m.cmd = "message"
    /\ IF connection[m.ch] = "OPEN"
         THEN pending' = pending \cup {m.ch} /\ UNCHANGED inbox
         ELSE inbox' = Append(inbox, Msg("response", m.ch)) /\ UNCHANGED pending
    /\ UNCHANGED connection

mrcp_client_agent_channel_add(m) ==
    /\ m.cmd = "add"
    /\ inbox' = Append(inbox, m)
    /\ UNCHANGED connectionVars

mrcp_client_agent_channel_remove(m) ==
    /\ m.cmd = "remove"
    /\ inbox' = Append(inbox, m)
    /\ connection' = [connection EXCEPT ![m.ch] = "NONE"]
    /\ UNCHANGED pending

ConnectionAgent ==
    /\ control # <<>>
    /\ control' = Tail(control)
    /\ LET m == Head(control)
       IN  \/ mrcp_client_agent_channel_add(m)
           \/ mrcp_client_agent_channel_remove(m)
           \/ mrcp_client_agent_channel_modify(m)
           \/ mrcp_client_agent_messsage_send(m)
    /\ SessionUnchanged /\ SipUnchanged
    /\ UNCHANGED <<sent, media>>

(* mrcp_client_message_handler for the response of the server, or          *)
(* mrcp_client_timer_proc for its timeout.                                 *)
ControlResponse ==
    /\ \E k \in pending :
         /\ pending' = pending \ {k}
         /\ inbox' = Append(inbox, Msg("response", k))
    /\ SessionUnchanged /\ SipUnchanged
    /\ UNCHANGED <<sent, control, media, connection>>

(* mrcp_client_agent_disconnect_raise for a channel of the connection that *)
(* is lost: its request is cancelled, or the session is told.              *)
ConnectionLost ==
    /\ \E k \in Channels :
         /\ connection[k] = "OPEN"
         /\ connection' = [connection EXCEPT ![k] = "CLOSED"]
         /\ pending' = pending \ {k}
         /\ inbox' = Append(inbox, Msg(IF k \in pending THEN "response"
                                                        ELSE "disconnect", k))
    /\ SessionUnchanged /\ SipUnchanged
    /\ UNCHANGED <<sent, control, media>>

(* mpf_engine_msg_process answers a container at a time.                   *)
MediaEngine ==
    /\ media # <<>>
    /\ media' = Tail(media)
    /\ inbox' = inbox \o Head(media)
    /\ SessionUnchanged /\ SipUnchanged
    /\ UNCHANGED <<sent, control, connectionVars>>

-----------------------------------------------------------------------------
(* The thread of the SIP stack.                                            *)

SipOnly == SessionUnchanged /\ UNCHANGED <<sent, control, media, connectionVars>>

(* The stack sends an INVITE.                                              *)
SipInvite ==
    /\ raising = "none"
    /\ commands # <<>> /\ Head(commands) = "invite"
    /\ commands' = Tail(commands)
    /\ nua_state' = "calling"
    /\ SipOnly /\ UNCHANGED <<inbox, nh, terminate_requested, raising>>

(* mrcp_sofia_on_session_ready: the server accepts the offer, or refuses   *)
(* it in a call that was established before.                               *)
mrcp_sofia_on_session_ready ==
    /\ nh /\ raising = "none"
    /\ nua_state = "calling"
    /\ \E ok \in BOOLEAN :
         /\ ~ok => base_id
         /\ inbox' = Append(inbox, [Msg("answer", 0) EXCEPT !.ok = ok])
    /\ nua_state' = "ready"
    /\ SipOnly /\ UNCHANGED <<nh, terminate_requested, commands, raising>>

mrcp_sofia_on_resource_discover ==
    /\ raising = "none"
    /\ commands # <<>> /\ Head(commands) = "options"
    /\ commands' = Tail(commands)
    /\ inbox' = Append(inbox, Msg("discover_response", 0))
    /\ SipOnly /\ UNCHANGED <<nh, terminate_requested, handleVars>>

(* mrcp_sofia_on_session_terminate, as far as it holds the lock: the handle*)
(* is destroyed, and with it the commands that were given to it.           *)
mrcp_sofia_on_session_terminate ==
    /\ nh /\ raising = "none"
    /\ raising' = CASE terminate_requested   -> "terminate_response"
                    [] nua_state = "ready"   -> "terminate_event"
                    [] OTHER                 -> "answer"
    /\ nh' = FALSE
    /\ commands' = <<>>
    /\ SipOnly /\ UNCHANGED <<inbox, terminate_requested, nua_state>>

(* The client ends the call.                                               *)
SipBye ==
    /\ commands # <<>> /\ Head(commands) = "bye"
    /\ mrcp_sofia_on_session_terminate

(* The server refuses the call or ends it.                                 *)
CallEnds ==
    /\ nua_state \in {"calling", "ready"}
    /\ mrcp_sofia_on_session_terminate

(* mrcp_sofia_on_session_terminate, after it has released the lock.        *)
SipRaise ==
    /\ raising # "none"
    /\ inbox' = Append(inbox, [Msg(raising, 0) EXCEPT !.ok = raising # "answer"])
    /\ nua_state' = "terminated"
    /\ raising' = "none"
    /\ SipOnly /\ UNCHANGED <<nh, terminate_requested, commands>>

SipStack == SipInvite \/ mrcp_sofia_on_session_ready
            \/ mrcp_sofia_on_resource_discover \/ SipBye \/ SipRaise

-----------------------------------------------------------------------------
(* The application sends its next request.                                 *)
AppRequest ==
    /\ \E s \in Scripts :
         /\ IsStrictPrefix(sent, s)
         /\ sent' = Append(sent, s[Len(sent) + 1])
    /\ inbox' = Append(inbox, Msg("request", Len(sent) + 1))
    /\ SessionUnchanged /\ SipUnchanged
    /\ UNCHANGED <<control, media, connectionVars>>

Init ==
    /\ sent = <<>> /\ raised = <<>>
    /\ active_request = 0 /\ request_queue = <<>> /\ dispatching = FALSE
    /\ registered = FALSE /\ in_table = FALSE /\ disconnected = FALSE
    /\ state = "NONE" /\ status = "SUCCESS" /\ subrequest_count = 0
    /\ offer = FALSE /\ base_id = FALSE
    /\ channels = <<>> /\ waiting = {}
    /\ inbox = <<>> /\ control = <<>> /\ media = <<>>
    /\ connection = [k \in Channels |-> "NONE"] /\ pending = {}
    /\ nh = FALSE /\ nua_state = "init" /\ terminate_requested = FALSE
    /\ commands = <<>> /\ raising = "none"

Next ==
    \/ AppRequest
    \/ mrcp_app_request_dispatch
    \/ mrcp_client_msg_process
    \/ ConnectionAgent
    \/ ControlResponse
    \/ ConnectionLost
    \/ MediaEngine
    \/ SipStack
    \/ CallEnds

(* Every task takes the messages it has, the stack and the server answer   *)
(* what they are asked.                                                    *)
Fairness ==
    /\ WF_vars(Client)
    /\ WF_vars(ConnectionAgent)
    /\ WF_vars(ControlResponse)
    /\ WF_vars(MediaEngine)
    /\ WF_vars(SipStack)

Spec == Init /\ [][Next]_vars

FairSpec == Spec /\ Fairness

-----------------------------------------------------------------------------
(* Properties.                                                             *)

Status == {"SUCCESS", "FAILURE", "TERMINATE", "CANCEL"}
Ids == 0..Max({Len(s) : s \in Scripts})
Message == [cmd : STRING, ch : Nat, ok : BOOLEAN]

(* Every variable keeps its type.                                          *)
TypeOK ==
    /\ \E s \in Scripts : IsPrefix(sent, s)
    /\ raised \in Seq([id : Ids, status : Status])
    /\ active_request \in Ids /\ request_queue \in Seq(Ids \ {0})
    /\ {dispatching, registered, in_table, disconnected, offer, base_id, nh,
        terminate_requested} \subseteq BOOLEAN
    /\ dispatching => active_request # 0
    /\ state \in {"NONE", "GENERATING_OFFER", "PROCESSING_ANSWER", "TERMINATING",
                  "DISCOVERING"}
    /\ status \in Status
    /\ subrequest_count \in Nat
    /\ channels \in Seq(Channels) /\ IsInjective(channels)
    /\ waiting \subseteq {"channel", "termination", "rtp"} \X Channels
    /\ {inbox, control} \subseteq Seq(Message) /\ media \in Seq(Seq(Message))
    /\ connection \in [Channels -> {"NONE", "OPEN", "CLOSED"}]
    /\ pending \subseteq Channels
    /\ nua_state \in {"init", "calling", "ready", "terminated"}
    /\ commands \in Seq({"invite", "options", "bye"})
    /\ raising \in {"none", "answer", "terminate_event", "terminate_response"}

Uncounted == {"request", "message", "response", "answer", "terminate_event",
              "disconnect"}

Counted(seq) == Len(SelectSeq(seq, LAMBDA m : m.cmd \notin Uncounted))

(* How many sub-requests have not been answered to the session yet.        *)
Outstanding ==
    Counted(control) + Len(FlattenSeq(media)) + Counted(inbox)
    + Len(SelectSeq(commands, LAMBDA c : c # "invite"))
    + (IF raising = "terminate_response" THEN 1 ELSE 0)

(* subrequest_count is the number of sub-requests in progress, so that a   *)
(* phase ends when its last one does, and never earlier; but an OPTIONS    *)
(* request of a call that the server ends is never answered.               *)
CountMatchesOutstanding ==
    \/ subrequest_count = Outstanding
    \/ state = "DISCOVERING" /\ ~nh /\ subrequest_count = 1 /\ Outstanding = 0

Responses == SelectSeq(raised, LAMBDA r : r.id # 0)

(* Requests are answered once and in the order the application sent them,  *)
(* and none is left out before the session is disconnected.                *)
AnsweredInOrder ==
    \A i \in DOMAIN Responses :
        /\ i > 1 => Responses[i - 1].id < Responses[i].id
        /\ ~disconnected => Responses[i].id = i

(* A request is answered, and an offer is sent, when no sub-request is     *)
(* outstanding: the offer has all the media and the application gets a     *)
(* channel that is set up.                                                 *)
PhaseComplete ==
    [][ \/ Len(raised') > Len(raised)
        \/ Len(commands') > Len(commands) /\ Last(commands') = "invite"
        => Outstanding' = 0 ]_vars

Terminated == \E i \in DOMAIN raised :
                  raised[i].id # 0 /\ Type(raised[i].id) = "TERMINATE"

(* The application may destroy the session when TERMINATE is answered: no  *)
(* task has anything left of it, but for the event of a call that the      *)
(* server ended at the same time.                                          *)
NothingLeft ==
    Terminated =>
        /\ Outstanding = 0 /\ pending = {} /\ ~in_table /\ ~nh
        /\ \A k \in Channels : connection[k] = "NONE"
        /\ \A i \in DOMAIN inbox : inbox[i].cmd = "terminate_event"
        /\ raising \in {"none", "terminate_event"}

(* Every request is answered while neither the call nor a connection is    *)
(* lost.                                                                   *)
RequestsAnswered ==
    \A i \in Ids \ {0} :
        Len(sent) >= i ~> \/ \E j \in DOMAIN raised : raised[j].id = i
                          \/ disconnected
                          \/ registered /\ ~nh

(* Once the session is being terminated the application gets a response,   *)
(* whatever was lost before or is lost meanwhile.                          *)
TerminateCompletes == (state = "TERMINATING") ~> Terminated

-----------------------------------------------------------------------------

Request(type, k) == [type |-> type, ch |-> k]

(* Two channels and a control request; a channel that is removed and added *)
(* again before a discovery; a session that begins with a discovery.       *)
Sessions == {
    <<Request("ADD", 1), Request("ADD", 2), Request("CONTROL", 1), Request("TERMINATE", 1)>>,
    <<Request("ADD", 2), Request("REMOVE", 2), Request("ADD", 2), Request("DISCOVER", 1),
      Request("TERMINATE", 1)>>,
    <<Request("DISCOVER", 1), Request("ADD", 1), Request("UPDATE", 1), Request("TERMINATE", 1)>>}

(* The sub-request count is exact, and a request is answered, or an offer  *)
(* sent, only when nothing is outstanding: the offer has all the media and *)
(* the application gets a channel that is set up                           *)
(* (mrcp_client_session_subrequest_remove, mrcp_client_session_offer_send).*)
SubrequestsExact == []CountMatchesOutstanding /\ PhaseComplete

=============================================================================
