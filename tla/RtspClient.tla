----------------------------- MODULE RtspClient -----------------------------
(* The MRCPv1 client: the RTSP client (rtsp_client.c) and the signalling   *)
(* agent above it (mrcp_unirtsp_client_agent.c).  The client session above *)
(* makes its requests one at a time.  A session opens a connection of its  *)
(* own with its first request, so handle_table holds the session or        *)
(* nothing.                                                                *)
EXTENDS Naturals, Sequences, SequencesExt, FiniteSets

CONSTANTS
    Resources,
    Scripts,        \* the sequences of requests the client session may make
    Timeout         \* request_timeout is not 0

VARIABLES
    session,        \* rtsp_client_session_t, with the agent's mrcp_message
    connection,     \* rtsp_client_connection_t
    tasks,          \* the messages of the poller task
    to_server,
    to_client,
    peer_closed,
    asked,          \* the requests of the client session, <<method, resource>>
    answers,        \* what it was told, [request, ok]; request is an index of
                    \* asked, or 0 for an event
    disturbed       \* the requests that were forgotten when the connection was
                    \* lost, or whose answer could not be read

rtspClientVars == <<session, connection, tasks, to_server, to_client, peer_closed, asked, answers, disturbed>>

NULL == [method |-> "none", resource |-> "", request |-> 0, cseq |-> 0]
NoConnection == [alive |-> FALSE, sock |-> FALSE, handle |-> FALSE, table |-> FALSE,
                 inprogress |-> 0, last_cseq |-> 0]

-----------------------------------------------------------------------------
(* The handlers change session, connection, the requests sent and the      *)
(* answers raised: st holds the four.                                      *)
State == [session |-> session, connection |-> connection, sent |-> <<>>, raised |-> <<>>]

(* A server that is two requests behind does not answer the oldest.        *)
MaxBehind == 2
Kept(requests) == IF Len(requests) <= MaxBehind THEN requests
                  ELSE SubSeq(requests, Len(requests) - MaxBehind + 1, Len(requests))

Becomes(next) ==
    \E st \in {next} :
        /\ session' = st.session
        /\ connection' = st.connection
        /\ to_server' = IF peer_closed THEN to_server ELSE Kept(to_server \o st.sent)
        /\ answers' = answers \o st.raised

Raise(st, request, ok) == [st EXCEPT !.raised = Append(@, [request |-> request, ok |-> ok])]

(* A response is [ok, body, id, request]: id tells whether it names the    *)
(* session, request is the one its MRCP message names.  One agent callback for each method: SETUP and TEARDOWN answer   *)
(* an offer, ANNOUNCE a control request, DESCRIBE a discovery.  A SETUP    *)
(* whose SDP cannot be parsed gets no answer.  An ANNOUNCE without a       *)
(* message of MRCP gets METHOD-FAILED, for the last message sent.          *)
Bodies == {"good", "none", "garbled"}
InternalError == [ok |-> FALSE, body |-> "none", id |-> FALSE, request |-> 0]

mrcp_unirtsp_on_announce_response(st, r) ==
    IF r.body = "good" THEN [Raise(st, r.request, TRUE) EXCEPT !.session.mrcp_message =
                                IF @ = r.request THEN 0 ELSE @]
    ELSE IF st.session.mrcp_message = 0 THEN st
    ELSE [Raise(st, st.session.mrcp_message, FALSE) EXCEPT !.session.mrcp_message = 0]

mrcp_unirtsp_on_resource_discover(st, m, r) == Raise(st, m.request, r.body # "none")

mrcp_unirtsp_on_session_response(st, m, r) ==
    CASE m.method = "SETUP" -> IF r.body = "garbled" THEN st ELSE Raise(st, m.request, r.body = "good")
      [] m.method = "TEARDOWN" -> Raise(st, m.request, TRUE)
      [] m.method = "ANNOUNCE" -> mrcp_unirtsp_on_announce_response(st, r)
      [] m.method = "DESCRIBE" -> mrcp_unirtsp_on_resource_discover(st, m, r)

mrcp_unirtsp_on_session_terminate_event(st) == Raise(st, 0, TRUE)

mrcp_unirtsp_session_destroy(st) == [st EXCEPT !.session.alive = FALSE]

mrcp_unirtsp_on_session_terminate_response(st) ==
    Raise(mrcp_unirtsp_session_destroy(st), Len(asked), TRUE)

-----------------------------------------------------------------------------
(* The RTSP client.  ok tells whether connect and send succeed.            *)
rtsp_client_connect(connects) == connects

rtsp_client_connection_close(st) == [st EXCEPT !.connection.sock = FALSE]

rtsp_client_connection_create(st, connects) ==
    IF rtsp_client_connect(connects)
    THEN [st EXCEPT !.connection = [NoConnection EXCEPT !.alive = TRUE, !.sock = TRUE, !.handle = TRUE]]
    ELSE st

rtsp_client_connection_destroy(st) == [rtsp_client_connection_close(st) EXCEPT !.connection = NoConnection]

rtsp_client_request_push(st, m) ==
    [st EXCEPT !.session.active_request = m, !.session.timer = Timeout, !.connection.inprogress = @ + 1]

(* The session is found among those in progress.                           *)
rtsp_client_request_pop(st, cseq) ==
    /\ st.connection.inprogress > 0
    /\ st.session.active_request # NULL /\ st.session.active_request.cseq = cseq

Popped(st) ==
    [st EXCEPT !.session.active_request = NULL, !.session.timer = FALSE, !.connection.inprogress = @ - 1]

rtsp_client_message_send(st, m, sends) ==
    IF st.connection.sock /\ sends THEN [st EXCEPT !.sent = Append(@, m)] ELSE st

Numbered(st, m) == [m EXCEPT !.cseq = st.connection.last_cseq + 1]

Sent(st, m, sends) ==
    IF st.connection.sock /\ sends
    THEN rtsp_client_request_push(rtsp_client_message_send(st, m, sends), m) ELSE st

(* The request fails when it is not the active one afterwards.             *)
rtsp_client_session_request_process(st, m, connects, sends) ==
    LET c == IF st.connection.alive THEN st ELSE rtsp_client_connection_create(st, connects)
    IN  IF c.connection.alive
        THEN Sent([c EXCEPT !.connection.last_cseq = @ + 1], Numbered(c, m), sends) ELSE c

Failed(st) == st.session.active_request = NULL

rtsp_client_session_resources_update(st, m, r) ==
    CASE m.method = "SETUP" /\ r.ok ->
            [st EXCEPT !.session.resources = @ \union {m.resource},
                       !.session.id = @ \/ (st.session.resources = {} /\ r.id),
                       !.connection.table = @ \/ (st.session.resources = {} /\ r.id)]
      [] m.method = "TEARDOWN" ->
            [st EXCEPT !.session.resources = @ \ {m.resource},
                       !.connection.table = @ /\ st.session.resources # {m.resource}
                                              /\ st.session.resources # {}]
      [] OTHER -> st

rtsp_client_session_response_process(st, m, r) ==
    LET u == rtsp_client_session_resources_update(st, m, r)
    IN  IF st.session.term_state = "INPROGRESS" THEN u
        ELSE mrcp_unirtsp_on_session_response(u, m, r)

RequestTried(st, m) ==
    IF Failed(st) THEN rtsp_client_session_response_process(st, m, InternalError) ELSE st

rtsp_client_session_message_process(st, m, connects, sends) ==
    IF ~Failed(st) THEN [st EXCEPT !.session.pending_request_queue = Append(@, m)]
    ELSE RequestTried(rtsp_client_session_request_process(st, m, connects, sends), m)

(* The pending requests are tried until one is sent.                       *)
RECURSIVE PendingTried(_, _)
PendingTried(st, sends) ==
    IF ~Failed(st) \/ st.session.pending_request_queue = <<>> THEN st
    ELSE PendingTried(RequestTried(rtsp_client_session_request_process(
                          [st EXCEPT !.session.pending_request_queue = Tail(@)],
                          Head(st.session.pending_request_queue), FALSE, sends),
                      Head(st.session.pending_request_queue)), sends)

rtsp_client_session_pending_requests_process(st, sends) == PendingTried(st, sends)

rtsp_client_session_terminate_respond(st) ==
    mrcp_unirtsp_on_session_terminate_response(
        [st EXCEPT !.connection.handle = FALSE, !.session.term_state = "NONE"])

Teardown(r) == [NULL EXCEPT !.method = "TEARDOWN", !.resource = r]

rtsp_client_session_resources_teardown(st, sends) ==
    FoldLeft(LAMBDA s, r : rtsp_client_session_message_process(s, Teardown(r), FALSE, sends),
             [st EXCEPT !.session.term_state = "INPROGRESS"], SetToSeq(st.session.resources))

ConnectionReleased(st) ==
    IF st.connection.handle THEN st ELSE rtsp_client_connection_destroy(st)

RespondedIfDown(st) ==
    IF st.session.resources = {} THEN ConnectionReleased(rtsp_client_session_terminate_respond(st)) ELSE st

rtsp_client_session_terminate_process(st, sends) ==
    IF ~st.connection.alive THEN mrcp_unirtsp_on_session_terminate_response(st)
    ELSE IF ~Failed(st) THEN [st EXCEPT !.session.term_state = "REQUESTED"]
    ELSE RespondedIfDown(rtsp_client_session_resources_teardown(st, sends))

(* A response that belongs to no request in progress is dropped.           *)
TerminationChecked(st, sends) ==
    IF ~Failed(st) \/ st.session.term_state = "NONE" THEN st
    ELSE RespondedIfDown(IF st.session.term_state = "REQUESTED"
                         THEN rtsp_client_session_resources_teardown(st, sends) ELSE st)

rtsp_client_response_handle(st, r, sends) ==
    IF ~rtsp_client_request_pop(st, r.cseq) THEN st
    ELSE TerminationChecked(
            rtsp_client_session_pending_requests_process(
                rtsp_client_session_response_process(Popped(st), st.session.active_request, r),
                sends), sends)

(* The event is answered to the server, which takes no notice.             *)
rtsp_client_session_event_process(st, m) ==
    IF st.connection.table
    THEN mrcp_unirtsp_on_announce_response(st, m) ELSE st

rtsp_client_message_handler(st, m, sends) ==
    IF m.type = "response" THEN rtsp_client_response_handle(st, m, sends)
    ELSE rtsp_client_session_event_process(st, m)

(* The answer that is made up goes the way of one that is received.        *)
rtsp_client_request_cancel(st, sends) ==
    IF Failed(st) THEN st
    ELSE rtsp_client_message_handler(st, [type |-> "response", cseq |-> st.session.active_request.cseq,
                                          ok |-> FALSE, body |-> "none", id |-> FALSE, request |-> 0], sends)

rtsp_client_session_terminate_raise(st) ==
    LET c == FoldLeft(LAMBDA s, m : rtsp_client_session_response_process(s, m, InternalError),
                      [st EXCEPT !.session.pending_request_queue = <<>>], st.session.pending_request_queue)
    IN  IF c.session.term_state = "NONE" THEN mrcp_unirtsp_on_session_terminate_event(c)
        ELSE rtsp_client_session_terminate_respond(c)

(* The list is emptied before the requests are cancelled, so that none of  *)
(* them is found on it; only the timer is killed.                          *)
InprogressCancelled(st) ==
    IF st.connection.inprogress = 0 THEN st
    ELSE [rtsp_client_request_cancel([st EXCEPT !.connection.inprogress = 0], FALSE)
            EXCEPT !.session.timer = FALSE]

HandlesTerminated(st) ==
    IF st.connection.handle /\ st.connection.table THEN rtsp_client_session_terminate_raise(st) ELSE st

rtsp_client_on_disconnect(st) ==
    HandlesTerminated(InprogressCancelled(rtsp_client_connection_close(st)))
-----------------------------------------------------------------------------
(* The requests of the client session, signalled to the poller task.       *)
Idle == \A i \in DOMAIN asked : \E a \in ToSet(answers) : a.request = i

Ask(method, r) ==
    /\ session.alive /\ Idle
    /\ asked' = Append(asked, <<method, r>>)
    /\ \E s \in Scripts : IsPrefix(asked', s)
    /\ tasks' = Append(tasks, [NULL EXCEPT !.method = method, !.resource = r, !.request = Len(asked) + 1])
    /\ UNCHANGED <<connection, to_server, to_client, peer_closed, answers, disturbed>>

mrcp_unirtsp_session_offer(r) ==
    /\ \E method \in {"SETUP", "TEARDOWN"} :
         /\ (method = "SETUP") = (r \notin session.resources)
         /\ Ask(method, r)
    /\ UNCHANGED session

mrcp_unirtsp_session_control(r) ==
    /\ r \in session.resources
    /\ Ask("ANNOUNCE", r)
    /\ session' = [session EXCEPT !.mrcp_message = Len(asked) + 1]

mrcp_unirtsp_resource_discover(r) == Ask("DESCRIBE", r) /\ UNCHANGED session

mrcp_unirtsp_session_terminate(r) == Ask("TERMINATE", r) /\ UNCHANGED session

AppUnchanged == UNCHANGED <<asked, peer_closed>>

(* A send fails when the peer has closed the connection, sooner or later.  *)
Sends == IF peer_closed THEN BOOLEAN ELSE {TRUE}

rtsp_client_task_msg_process ==
    /\ tasks # <<>>
    /\ tasks' = Tail(tasks)
    /\ \E connects \in IF connection.alive THEN {TRUE} ELSE BOOLEAN, sends \in Sends :
         Becomes(IF Head(tasks).method = "TERMINATE"
                 THEN rtsp_client_session_terminate_process(State, sends)
                 ELSE rtsp_client_session_message_process(State, Head(tasks), connects, sends))
    /\ UNCHANGED <<to_client, disturbed>> /\ AppUnchanged

(* The SETUP that the agent leaves unanswered with this message.           *)
Unread(m) ==
    IF /\ m.type = "response" /\ m.body = "garbled" /\ session.term_state # "INPROGRESS"
       /\ rtsp_client_request_pop(State, m.cseq)
    THEN {session.active_request.request} ELSE {}

rtsp_client_poller_signal_process ==
    /\ connection.sock /\ to_client # <<>>
    /\ to_client' = Tail(to_client)
    /\ \E sends \in Sends : Becomes(rtsp_client_message_handler(State, Head(to_client), sends))
    /\ disturbed' = disturbed \union Unread(Head(to_client))
    /\ UNCHANGED tasks /\ AppUnchanged

(* The request in progress, which is on no list any more, and the          *)
(* termination of a session that is in no table.                           *)
Forgotten ==
    ({session.active_request.request} \ {0})
    \union {i \in {Len(asked)} : session.term_state # "NONE" /\ ~connection.table}

PeerDisconnected ==
    /\ connection.sock /\ to_client = <<>> /\ peer_closed
    /\ Becomes(rtsp_client_on_disconnect(State))
    /\ disturbed' = disturbed \union Forgotten
    /\ UNCHANGED <<tasks, to_client>> /\ AppUnchanged

rtsp_client_timer_proc ==
    /\ session.timer
    /\ \E sends \in Sends :
         Becomes(rtsp_client_request_cancel([State EXCEPT !.session.timer = FALSE], sends))
    /\ UNCHANGED <<tasks, to_client, disturbed>> /\ AppUnchanged
-----------------------------------------------------------------------------
(* The server: it answers in any order, says OK or not, with a body that   *)
(* can be read or not, as far as the client tells the cases apart.  It     *)
(* sends an event and may close the connection.                            *)
ServerUnchanged == UNCHANGED <<session, connection, tasks, asked, answers>>

Responses(method) ==
    CASE method = "SETUP" -> {<<TRUE, b, TRUE>> : b \in Bodies}
                             \union {<<TRUE, "good", FALSE>>, <<FALSE, "none", FALSE>>}
      [] method = "TEARDOWN" -> {<<TRUE, "none", TRUE>>}
      [] OTHER -> {<<TRUE, "good", TRUE>>, <<FALSE, "none", TRUE>>}

ServerResponds ==
    \E i \in DOMAIN to_server : \E r \in Responses(to_server[i].method) :
        /\ ~peer_closed /\ connection.sock
        /\ to_server' = RemoveAt(to_server, i)
        /\ to_client' = Append(to_client, [type |-> "response", cseq |-> to_server[i].cseq, ok |-> r[1],
                                           body |-> r[2], id |-> r[3], request |-> to_server[i].request])
        /\ UNCHANGED <<peer_closed, disturbed>> /\ ServerUnchanged

ServerAnnounces ==
    /\ ~peer_closed /\ connection.table /\ to_client = <<>> /\ \A a \in ToSet(answers) : a.request # 0
    /\ to_client' = Append(to_client, [type |-> "event", cseq |-> 0, ok |-> TRUE, body |-> "good",
                                       id |-> TRUE, request |-> 0])
    /\ UNCHANGED <<to_server, peer_closed, disturbed>> /\ ServerUnchanged

ServerCloses ==
    /\ connection.sock /\ ~peer_closed
    /\ peer_closed' = TRUE
    /\ to_server' = <<>>
    /\ UNCHANGED <<to_client, disturbed>> /\ ServerUnchanged
-----------------------------------------------------------------------------
RtspClientInit ==
    /\ session = [alive |-> TRUE, id |-> FALSE, active_request |-> NULL, pending_request_queue |-> <<>>,
                  timer |-> FALSE, resources |-> {}, term_state |-> "NONE", mrcp_message |-> 0]
    /\ connection = NoConnection
    /\ tasks = <<>> /\ to_server = <<>> /\ to_client = <<>>
    /\ peer_closed = FALSE /\ disturbed = {}
    /\ asked = <<>> /\ answers = <<>>

App ==
    \E r \in Resources :
        \/ mrcp_unirtsp_session_offer(r) \/ mrcp_unirtsp_session_control(r)
        \/ mrcp_unirtsp_resource_discover(r) \/ mrcp_unirtsp_session_terminate(r)

ClientTask ==
    rtsp_client_task_msg_process \/ rtsp_client_poller_signal_process \/ PeerDisconnected \/ rtsp_client_timer_proc

RtspServerPeer == ServerResponds \/ ServerAnnounces \/ ServerCloses

RtspClientNext == App \/ ClientTask \/ RtspServerPeer

(* The poller task runs; its timers fire.  The server owes nothing.        *)
RtspClientFairness == WF_rtspClientVars(ClientTask) /\ WF_rtspClientVars(rtsp_client_timer_proc)
-----------------------------------------------------------------------------
(* No request is answered twice, and an answer with a message of MRCP is   *)
(* for the request it names: a response that comes after the timeout of    *)
(* its request is not taken for the answer to the next one                 *)
(* (rtsp_client_request_pop compares CSeq).                                *)
ClientAnsweredOnce ==
    \A i, j \in DOMAIN answers :
        /\ answers[i].request \in 0..Len(asked)
        /\ answers[i].request # 0 /\ answers[i].request = answers[j].request => i = j

(* A session that was destroyed is on no list and has no timer set, and    *)
(* its connection is gone with it unless the peer closed that first.       *)
ClientReleased ==
    ~session.alive =>
        /\ ~session.timer /\ connection.inprogress = 0 /\ ~connection.handle /\ tasks = <<>>
        /\ ~peer_closed => ~connection.alive

(* With request_timeout set, every request of the client session is        *)
(* answered, the termination included, whatever the server does, with      *)
(* three exceptions: a request in progress when the connection is lost, a  *)
(* SETUP whose answer has an SDP that cannot be read, and the termination  *)
(* of a session the server gave no identifier, if the connection is lost   *)
(* during it.                                                              *)
ClientRequestsAnswered == []<>(\A i \in DOMAIN asked : i \in disturbed \/ \E a \in ToSet(answers) : a.request = i)

=============================================================================
