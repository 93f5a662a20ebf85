----------------------------- MODULE RtspServer -----------------------------
(* The MRCPv1 server: the RTSP server (rtsp_server.c) and the signalling   *)
(* agent above it (mrcp_unirtsp_server_agent.c).  The RTSP sessions live   *)
(* in the poller task of the RTSP server, the MRCP sessions above them in  *)
(* the task of the MRCP server, which serves its messages in order; the    *)
(* two tasks exchange messages.  One connection of one client.             *)
EXTENDS Naturals, Sequences, SequencesExt, FiniteSets

CONSTANTS
    SessionIds,     \* the identifiers apt_unique_id_generate gives
    Names,          \* the resources of the requests
    Requests,       \* the clients: the sequences of requests they send
    MaxPipelined,   \* bound on the unanswered requests of a client
    MaxEvents       \* bound on the events of the MRCP server

VARIABLES
    online,
    conn,           \* "none", "open", "closed" (no socket), "destroyed"
    timer,          \* the inactivity timer is set
    sessions,       \* rtsp_server_session_t of each identifier
    queue,          \* the messages of the poller task
    mrcp,           \* the messages of the task of the MRCP server
    objects,        \* the RTSP sessions whose object, the agent's session, is set
    requests,       \* the requests on their way, in order
    client,         \* the requests of the client
    asked,          \* how many of them it has sent
    responses,      \* what the client got
    events          \* how many events the MRCP server raised

rtspServerVars == <<online, conn, timer, sessions, queue, mrcp, objects, requests, client, asked, responses, events>>

NoRequest == [method |-> "none", session |-> 0, resource |-> "", cseq |-> 0, good |-> FALSE]
NoSession == [state |-> "none", table |-> FALSE, active_request |-> NoRequest, request_queue |-> <<>>,
              resource_table |-> {}, terminating |-> FALSE, last_cseq |-> 0,
              late |-> FALSE]   \* a request was handled after the session was told to terminate (history)
-----------------------------------------------------------------------------
(* What the handlers of the poller task change.                            *)
State == [sessions |-> sessions, queue |-> queue, mrcp |-> mrcp, objects |-> objects, responses |-> responses]

Becomes(next) ==
    \E st \in {next} :
        /\ sessions' = st.sessions
        /\ queue' = st.queue
        /\ mrcp' = st.mrcp
        /\ objects' = st.objects
        /\ responses' = st.responses

Session(st, s) == st.sessions[s]

Response(type, status, s, cseq) == [type |-> type, status |-> status, session |-> s, cseq |-> cseq]

rtsp_server_message_send(st, r) ==
    IF conn = "open" THEN [st EXCEPT !.responses = Append(@, r)] ELSE st

rtsp_server_error_respond(st, m, status) ==
    rtsp_server_message_send(st, Response("response", status, 0, m.cseq))

rtsp_server_control_message_signal(q, type, s, status, cseq) ==
    Append(q, [type |-> type, session |-> s, status |-> status, cseq |-> cseq])

rtsp_server_session_respond(q, s, status, cseq) == rtsp_server_control_message_signal(q, "SEND", s, status, cseq)

rtsp_server_session_terminate(q, s) == rtsp_server_control_message_signal(q, "TERMINATE", s, "OK", 0)

rtsp_server_session_release(q, s) == rtsp_server_control_message_signal(q, "RELEASE", s, "OK", 0)

Signal(st, type, s) == [st EXCEPT !.mrcp = Append(@, [type |-> type, session |-> s])]

-----------------------------------------------------------------------------
(* The agent, called by the RTSP server.                                   *)
mrcp_unirtsp_session_terminate(st, s) ==
    IF s \in st.objects THEN Signal(st, "TERMINATE", s) ELSE st

(* What the agent does with the request, or that it refuses it: a session  *)
(* without an object, an ANNOUNCE without a message of MRCP, a method it   *)
(* does not know.  A SETUP with an SDP that cannot be read, or a TEARDOWN  *)
(* of a resource that has no name in MRCP, is answered.                    *)
Refuses(st, s, m) ==
    \/ s \notin st.objects
    \/ m.method = "ANNOUNCE" /\ ~m.good
    \/ m.method \notin {"SETUP", "TEARDOWN", "ANNOUNCE", "DESCRIBE"}

mrcp_unirtsp_session_announce(st, s) == Signal(st, "CONTROL", s)

mrcp_unirtsp_message_handle(st, s, m) ==
    CASE m.method \in {"SETUP", "TEARDOWN"} /\ ~m.good ->
            [st EXCEPT !.queue = rtsp_server_session_respond(@, s, "BAD_REQUEST", m.cseq)]
      [] m.method \in {"SETUP", "TEARDOWN"} /\ m.good -> Signal(st, "OFFER", s)
      [] m.method = "ANNOUNCE" -> mrcp_unirtsp_session_announce(st, s)
      [] m.method = "DESCRIBE" -> [st EXCEPT !.queue = rtsp_server_session_respond(@, s, "OK", m.cseq)]
-----------------------------------------------------------------------------
rtsp_server_session_terminate_request(st, s) ==
    IF Session(st, s).terminating THEN st
    ELSE mrcp_unirtsp_session_terminate([st EXCEPT !.sessions[s].terminating = TRUE], s)

Handled(st, s, m) ==
    IF m.method = "TEARDOWN" /\ Session(st, s).resource_table = {}
    THEN rtsp_server_session_terminate_request(st, s)
    ELSE IF Refuses(st, s, m) THEN rtsp_server_error_respond(st, m, "INTERNAL_SERVER_ERROR")
    ELSE mrcp_unirtsp_message_handle(st, s, m)

rtsp_server_session_message_handle(st, s, m) ==
    Handled(IF m.method = "TEARDOWN" THEN [st EXCEPT !.sessions[s].resource_table = @ \ {m.resource}] ELSE st,
            s, m)

MessageHandle(st, s, m) ==
    rtsp_server_session_message_handle([st EXCEPT !.sessions[s].active_request = m], s, m)

mrcp_unirtsp_session_create(st, s) == [st EXCEPT !.objects = @ \union {s}]

rtsp_server_session_create(st, s) ==
    mrcp_unirtsp_session_create([st EXCEPT !.sessions[s] = [NoSession EXCEPT !.state = "alive"]], s)

rtsp_server_session_setup_process(st, s) ==
    [rtsp_server_session_create(st, s) EXCEPT !.sessions[s].table = TRUE]

rtsp_server_session_destroy(st, s) == [st EXCEPT !.sessions[s].state = "destroyed"]

(* What is left of the session is the memory of the properties: the        *)
(* requests that waited in it, and whether one was late.                   *)
RemovedAndDestroyed(st, s) ==
    [st EXCEPT !.sessions[s] = [NoSession EXCEPT !.state = "destroyed", !.late = Session(st, s).late,
                                                 !.request_queue = Session(st, s).request_queue]]

(* The request that ended the session is answered last.                    *)
rtsp_server_session_do_terminate(st, s) ==
    RemovedAndDestroyed(IF Session(st, s).active_request = NoRequest THEN st
                        ELSE rtsp_server_message_send(st, Response("response", "OK", s,
                                                      Session(st, s).active_request.cseq)), s)

rtsp_server_session_do_release(st, s) == rtsp_server_session_terminate_request(st, s)

(* An event of the MRCP server; one for a resource that is not set up is   *)
(* dropped.                                                                *)
AnnounceSent(st, s, resource) ==
    IF resource \notin Session(st, s).resource_table THEN st
    ELSE rtsp_server_message_send(st, Response("event", "OK", s, Session(st, s).last_cseq))

NextRequest(st, s) ==
    IF Session(st, s).request_queue = <<>> THEN [st EXCEPT !.sessions[s].active_request = NoRequest]
    ELSE MessageHandle([st EXCEPT !.sessions[s].request_queue = Tail(@), !.sessions[s].late = Session(st, s).terminating],
                       s, Head(Session(st, s).request_queue))

Ends(st, s, request, status) ==
    \/ request.method = "DESCRIBE"
    \/ request.method = "SETUP" /\ status # "OK" /\ Session(st, s).resource_table = {}

Responded_keeps_active(st, s, request, status) ==
    IF Ends(st, s, request, status) THEN rtsp_server_session_terminate_request(st, s)
    ELSE NextRequest(IF request.method = "SETUP" /\ status = "OK"
                     THEN [st EXCEPT !.sessions[s].resource_table = @ \union {request.resource}] ELSE st, s)

Responded(st, s, request, status) ==
    IF Ends(st, s, request, status)
    THEN rtsp_server_session_terminate_request([st EXCEPT !.sessions[s].active_request = NoRequest], s)
    ELSE NextRequest(IF request.method = "SETUP" /\ status = "OK"
                     THEN [st EXCEPT !.sessions[s].resource_table = @ \union {request.resource}] ELSE st, s)

Answer(st, s, request, m) ==
    Responded(rtsp_server_message_send([st EXCEPT !.sessions[s].last_cseq = m.cseq],
                  Response("response", m.status, IF request.method = "DESCRIBE" THEN 0 ELSE s, m.cseq)),
              s, request, m.status)

rtsp_server_session_response_process(st, s, m) ==
    IF m.status \in Names THEN AnnounceSent(st, s, m.status)
    ELSE IF Session(st, s).active_request = NoRequest THEN st
    ELSE Answer(st, s, Session(st, s).active_request, m)
-----------------------------------------------------------------------------
(* A request of the client.  s is the identifier of the session that the   *)
(* request creates, if it creates one.                                     *)
Fresh(st, s) == Session(st, s).state = "none"

Started(st, s, m) ==
    IF Refuses(st, s, m) THEN rtsp_server_session_destroy(MessageHandle(st, s, m), s) ELSE MessageHandle(st, s, m)

NewSession(st, m, s) == Started(rtsp_server_session_setup_process(st, s), s, m)

WithoutSession(st, m, s, created) ==
    CASE m.method \in {"SETUP", "DESCRIBE"} /\ ~online -> rtsp_server_error_respond(st, m, "SERVICE_UNAVAILABLE")
      [] m.method \in {"SETUP", "DESCRIBE"} /\ online ->
            IF created THEN NewSession(st, m, s) ELSE rtsp_server_error_respond(st, m, "NOT_ACCEPTABLE")
      [] m.method = "OPTIONS" -> rtsp_server_message_send(st, Response("response", "OK", 0, m.cseq))
      [] OTHER -> rtsp_server_error_respond(st, m, "BAD_REQUEST")

WithSession(st, m, s) ==
    CASE ~Session(st, s).table -> rtsp_server_error_respond(st, m, "NOT_FOUND")
      [] Session(st, s).table /\ Session(st, s).terminating -> rtsp_server_error_respond(st, m, "NOT_ACCEPTABLE")
      [] OTHER -> IF Session(st, s).active_request # NoRequest
                  THEN [st EXCEPT !.sessions[s].request_queue = Append(@, m)]
                  ELSE MessageHandle(st, s, m)

rtsp_server_session_request_process(st, m, s, created) ==
    IF m.session = 0 THEN WithoutSession(st, m, s, created) ELSE WithSession(st, m, m.session)

(* A message that cannot be parsed is answered when the parser got as far  *)
(* as a message.                                                           *)
InvalidReceived(st, m, parsed) == IF parsed THEN rtsp_server_error_respond(st, m, "BAD_REQUEST") ELSE st

PeerUnchanged == UNCHANGED <<client, asked, events>>
(* The connection is accepted; the inactivity timer runs from then on, and *)
(* anew with every message.                                                *)
rtsp_server_connection_accept ==
    /\ conn = "none"
    /\ conn' = "open" /\ timer' = TRUE
    /\ UNCHANGED <<online, sessions, queue, mrcp, objects, requests, responses>> /\ PeerUnchanged

rtsp_server_message_handler ==
    \E s \in SessionIds, created \in BOOLEAN :
        /\ conn = "open" /\ requests # <<>> /\ Fresh(State, s)
        /\ \A t \in SessionIds : Fresh(State, t) => s <= t
        /\ requests' = Tail(requests)
        /\ timer' = TRUE
        /\ UNCHANGED <<online, conn>> /\ PeerUnchanged
        /\ Becomes(IF Head(requests).method = "INVALID" THEN InvalidReceived(State, Head(requests), created)
                   ELSE rtsp_server_session_request_process(State, Head(requests), s, created))

InTable(st) == {s \in SessionIds : Session(st, s).table}

rtsp_server_connection_close_leaves(st) == st

(* Every session of the connection is terminated, or the connection is     *)
(* destroyed when it has none.                                             *)
rtsp_server_connection_close(st) ==
    FoldLeft(LAMBDA u, s : rtsp_server_session_terminate_request(u, s), st, SetToSeq(InTable(st)))

Close ==
    /\ conn = "open"
    /\ conn' = IF InTable(State) = {} THEN "destroyed" ELSE "closed"
    /\ timer' = FALSE
    /\ Becomes(rtsp_server_connection_close(State))
    /\ UNCHANGED <<online, requests>> /\ PeerUnchanged

(* The peer closes the connection, or it is inactive for too long.         *)
PeerDisconnected == requests = <<>> /\ Close
rtsp_server_inactivity_timer_proc == timer /\ Close

rtsp_server_on_offline == /\ online /\ online' = FALSE
                          /\ UNCHANGED <<conn, timer, sessions, queue, mrcp, objects, requests, responses>>
                          /\ PeerUnchanged
rtsp_server_on_online == /\ ~online /\ online' = TRUE
                         /\ UNCHANGED <<conn, timer, sessions, queue, mrcp, objects, requests, responses>>
                         /\ PeerUnchanged

TaskMessage(st, m) ==
    CASE m.type = "SEND" -> rtsp_server_session_response_process(st, m.session, m)
      [] m.type = "TERMINATE" -> rtsp_server_session_do_terminate(st, m.session)
      [] m.type = "RELEASE" -> rtsp_server_session_do_release(st, m.session)

(* The last session takes a connection without a socket with it.           *)
rtsp_server_task_msg_process ==
    /\ queue # <<>>
    /\ Becomes(TaskMessage([State EXCEPT !.queue = Tail(@)], Head(queue)))
    /\ conn' = IF Head(queue).type = "TERMINATE" /\ conn = "closed"
                  /\ InTable(State) \subseteq {Head(queue).session}
               THEN "destroyed" ELSE conn
    /\ UNCHANGED <<online, timer, requests>> /\ PeerUnchanged
-----------------------------------------------------------------------------
(* The MRCP server, which serves its messages in order (ServerSession.tla);*)
(* the agent turns its answers into messages of the poller task.           *)
MrcpUnchanged == UNCHANGED <<online, conn, timer, sessions, requests, client, asked, responses>>

(* The answer is dropped when the RTSP session has no active request, or   *)
(* one of another method.                                                  *)
Answered(s, status, methods) ==
    IF sessions[s].active_request.method \in methods
    THEN rtsp_server_session_respond(queue, s, status, sessions[s].active_request.cseq) ELSE queue

mrcp_unirtsp_on_session_answer(s, status) ==
    queue' = Answered(s, IF sessions[s].active_request.method = "TEARDOWN" THEN "OK" ELSE status,
                      {"SETUP", "TEARDOWN"})

mrcp_unirtsp_on_session_control(s) ==
    queue' = Answered(s, "OK", {"SETUP", "TEARDOWN", "ANNOUNCE", "DESCRIBE", "OPTIONS"})

mrcp_unirtsp_session_destroy(s) == objects' = objects \ {s}

mrcp_unirtsp_on_session_terminate(s) ==
    mrcp_unirtsp_session_destroy(s) /\ queue' = rtsp_server_session_terminate(queue, s)

mrcp_unirtsp_on_session_terminate_event(s) == queue' = rtsp_server_session_release(queue, s)

MrcpServes ==
    /\ mrcp # <<>> /\ Head(mrcp).session \in objects
    /\ mrcp' = Tail(mrcp)
    /\ LET m == Head(mrcp) IN
         \/ /\ m.type = "OFFER"
            /\ \E status \in {"OK", "NOT_FOUND"} : mrcp_unirtsp_on_session_answer(m.session, status)
            /\ UNCHANGED objects
         \/ m.type = "CONTROL" /\ mrcp_unirtsp_on_session_control(m.session) /\ UNCHANGED objects
         \/ m.type = "TERMINATE" /\ mrcp_unirtsp_on_session_terminate(m.session)
    /\ MrcpUnchanged /\ UNCHANGED events

(* An event of an engine, or the server asks to have the session released. *)
MrcpRaises(s) ==
    /\ events < MaxEvents /\ s \in objects
    /\ events' = events + 1
    /\ \/ \E n \in Names : queue' = rtsp_server_session_respond(queue, s, n, 0)
       \/ mrcp_unirtsp_on_session_terminate_event(s)
    /\ MrcpUnchanged /\ UNCHANGED <<mrcp, objects>>
-----------------------------------------------------------------------------
(* The client uses an identifier it has been told, and has no more than    *)
(* MaxPipelined requests unanswered.                                       *)
Known(r) == IF r.known THEN {q.session : q \in ToSet(responses)} \ {0} ELSE {0}

HasResponse(cseq) == \E r \in ToSet(responses) : r.type = "response" /\ r.cseq = cseq
Waiting == {cseq \in 1..asked : ~HasResponse(cseq)}

ClientSends ==
    /\ conn = "open" /\ asked < Len(client) /\ Cardinality(Waiting) < MaxPipelined
    /\ \E s \in Known(client[asked + 1]) :
         requests' = Append(requests, [method |-> client[asked + 1].method, session |-> s,
                                       resource |-> client[asked + 1].resource, cseq |-> asked + 1,
                                       good |-> client[asked + 1].good])
    /\ asked' = asked + 1
    /\ UNCHANGED <<online, conn, timer, sessions, queue, mrcp, objects, client, responses, events>>

RtspServerInit ==
    /\ online = TRUE /\ conn = "none" /\ timer = FALSE
    /\ sessions = [s \in SessionIds |-> NoSession]
    /\ queue = <<>> /\ mrcp = <<>> /\ objects = {} /\ requests = <<>>
    /\ client \in Requests /\ asked = 0
    /\ responses = <<>> /\ events = 0

PollerTask ==
    \/ rtsp_server_connection_accept \/ rtsp_server_message_handler \/ rtsp_server_task_msg_process
    \/ PeerDisconnected \/ rtsp_server_inactivity_timer_proc
    \/ rtsp_server_on_offline \/ rtsp_server_on_online

RtspServerNext == PollerTask \/ MrcpServes \/ (\E s \in SessionIds : MrcpRaises(s)) \/ ClientSends

(* Both tasks serve their queues.                                          *)
RtspServerFairness ==
    /\ WF_rtspServerVars(rtsp_server_message_handler) /\ WF_rtspServerVars(rtsp_server_task_msg_process)
    /\ WF_rtspServerVars(MrcpServes)
-----------------------------------------------------------------------------
(* A session of the RTSP server that was destroyed is in no table and no   *)
(* message of either task names it, and a session that lives has its       *)
(* connection: none of the handlers works on memory that was given back.   *)
(* Excepted is a session with a request that waited behind the active one  *)
(* when the session was told to terminate: it is handled all the same      *)
(* (rtsp_server_session_response_process), and what it makes of it reaches *)
(* the MRCP session after its end.                                         *)
ServerSessionsAlive ==
    /\ \A s \in SessionIds :
         /\ sessions[s].table \/ s \in objects => sessions[s].state = "alive"
         /\ sessions[s].state = "alive" => conn \in {"open", "closed"}
    /\ \A m \in ToSet(queue) : sessions[m.session].state = "alive" \/ sessions[m.session].late
    /\ \A m \in ToSet(mrcp) : m.session \in objects \/ sessions[m.session].late

(* No request of the client is answered twice, but for one the agent       *)
(* refused: it is answered at once and stays the active request, which     *)
(* rtsp_server_session_do_terminate answers again, and for the last time.  *)
ServerAnsweredOnce ==
    \A i, j \in DOMAIN responses :
        /\ i < j /\ responses[i].type = "response" /\ responses[j].type = "response"
        /\ responses[i].cseq = responses[j].cseq
        => /\ responses[i].status = "INTERNAL_SERVER_ERROR" /\ responses[j].status = "OK"
           /\ sessions[responses[j].session].state = "destroyed"

(* The MRCP task has come to a message for a session that is gone: what it *)
(* does with freed memory is not known.                                    *)
Dangling == mrcp # <<>> /\ Head(mrcp).session \notin objects

(* Request c waits in a session that does not come to it: the active       *)
(* request was refused and stays active, or the session is told to         *)
(* terminate, or has ended.                                                *)
Stuck(c) ==
    \E s \in SessionIds :
        /\ \E m \in ToSet(sessions[s].request_queue) : m.cseq = c
        /\ sessions[s].terminating \/ sessions[s].state = "destroyed" \/ HasResponse(sessions[s].active_request.cseq)

(* A connection that was closed is destroyed with all its sessions, and    *)
(* while it is open no request waits for ever, but for one that is Stuck   *)
(* and one that cannot be parsed; neither is claimed once the MRCP task    *)
(* has taken a message for a session that is gone.                         *)
ServerSettles ==
    /\ (conn = "closed") ~> (conn = "destroyed" \/ Dangling)
    /\ []<>(\/ conn # "open" \/ Dangling
           \/ \A c \in Waiting : Stuck(c) \/ client[c].method = "INVALID")
=============================================================================
