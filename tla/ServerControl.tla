---------------------------- MODULE ServerControl ----------------------------
(***************************************************************************)
(* How a server session (libs/mrcp-server/src/mrcp_server_session.c) feeds *)
(* the control requests of one channel to the channel's state machine, one *)
(* at a time, and how the state machine talks to its engine.               *)
(*                                                                         *)
(* Everything here runs on the server task, one task message at a time.    *)
(* Sending a response to the client makes the session dispatch its next    *)
(* queued request from inside the handler that is sending the response     *)
(* (state_machine_on_message_dispatch), so handlers nest.  The variable    *)
(* todo is the server task's call stack: the calls still to be made before *)
(* the task returns to its message queue.  No input is taken while todo is *)
(* not empty.                                                              *)
(***************************************************************************)
EXTENDS Naturals, Sequences

CONSTANTS
    MaxRequests,  \* bound: how many control requests the client sends
    Methods,      \* the methods the client uses
    Pipeline      \* may the client send a request before the last was answered?

ASSUME ControlAssumption ==
    /\ MaxRequests \in Nat
    /\ Pipeline \in BOOLEAN

VARIABLES
    sent,            \* the control requests the client has sent, by id
    answered,        \* answered[i]: responses the client has got to request i
    session_active,  \* session->active_request
    request_queue,   \* session->request_queue
    session_state,   \* session->state, TERMINATED once it is destroyed
    subrequest_count,\* session->subrequest_count
    media,           \* the engine channel's termination in the media context
    todo,            \* calls the server task still has to make, innermost first
    engine_in,       \* messages signalled to the engine's task
    engine_out       \* messages signalled to the server task by the engine
                     \* and, about this channel, by the media engine

controlVars == <<sent, answered, session_active, request_queue,
                 session_state, subrequest_count, media, todo, engine_in,
                 engine_out>>

(* What a session changes when it goes on with its termination.            *)
terminationVars == <<session_state, subrequest_count, media>>

(* What it changes when it takes a request or sends a response.            *)
requestVars == <<answered, session_active, request_queue>>

-----------------------------------------------------------------------------
(* The internal STOP that deactivates a state machine takes the id after   *)
(* that of the request it stops, hence one id more than the client uses.   *)
Ids == 1..(MaxRequests + 1)

(* A message pointer: sel is the active-request-id-list header (empty when *)
(* the header is absent), kill the kill-on-barge-in header.                *)
Message(id, method, sel, kill) ==
    [id |-> id, method |-> method, sel |-> sel, kill |-> kill]

NULL == Message(0, "NULL", {}, FALSE)

TERMINATE == Message(0, "TERMINATE", {}, FALSE)

CLOSE == Message(0, "CLOSE", {}, FALSE)

Request == [id : Ids, method : Methods \cup {"STOP"},
            sel : SUBSET Ids, kill : BOOLEAN]

(* What the server task is told: by the engine and the media engine.       *)
EngineMessage == [type : {"response", "event", "closed", "subtracted"}, id : Ids \cup {0},
                  method : STRING, state : {"INPROGRESS", "COMPLETE"},
                  ok : BOOLEAN]

ResponseTo(r, state, ok) ==
    [type |-> "response", id |-> r.id, method |-> r.method,
     state |-> state, ok |-> ok]

EventOf(id, method) ==
    [type |-> "event", id |-> id, method |-> method,
     state |-> "INPROGRESS", ok |-> TRUE]

Released(type) ==
    [type |-> type, id |-> 0, method |-> "NULL", state |-> "INPROGRESS", ok |-> TRUE]

(* Does the active-request-id-list of r, if it has one, name id?           *)
Selects(r, id) == r.sel = {} \/ id \in r.sel

(* The loop over a list of pending requests that removes the ones r        *)
(* selects: what it keeps.                                                 *)
Kept(pending, r) ==
    LET kept[n \in 0..Len(pending)] ==
          IF n = 0 THEN <<>>
          ELSE IF Selects(r, pending[n].id)
                 THEN kept[n - 1]
                 ELSE Append(kept[n - 1], pending[n])
    IN  kept[Len(pending)]

(* The two calls that are left on the stack of the server task: the        *)
(* dispatch of a request the session has just made active, and the rest of *)
(* a STOP response handler, which dispatches a pending request it popped.  *)
DispatchCall(r) == [call |-> "dispatch", req |-> r]

PendingCall(r) == [call |-> "pending", req |-> r]

(* The session's termination has been asked for.                           *)
TerminateReceived ==
    \/ session_state # "INITIALIZING"
    \/ session_active = TERMINATE
    \/ \E i \in DOMAIN request_queue : request_queue[i] = TERMINATE

-----------------------------------------------------------------------------
(* mrcp_server_signaling_message_process: keep the message for later when  *)
(* a request is in progress, else make it the active one and dispatch it.  *)
mrcp_server_signaling_message_process(msg) ==
    IF session_active # NULL
      THEN /\ request_queue' = Append(request_queue, msg)
           /\ UNCHANGED <<session_active, todo>>
      ELSE /\ session_active' = msg
           /\ todo' = <<DispatchCall(msg)>>
           /\ UNCHANGED request_queue

DispatchResponse_keeps_active(id, rest) ==
    /\ answered' = [answered EXCEPT ![id] = @ + 1]
    /\ IF request_queue = <<>>
         THEN /\ session_active' = NULL
              /\ todo' = rest
              /\ UNCHANGED request_queue
         ELSE /\ request_queue' = Tail(request_queue)
              /\ todo' = <<DispatchCall(Head(request_queue))>> \o rest
              /\ UNCHANGED session_active

(* state_machine_on_message_dispatch of a response: send it to the client, *)
(* then make the next queued request active and dispatch it, before the    *)
(* calls in rest are made.                                                 *)
DispatchResponse(id, rest) ==
    /\ answered' = [answered EXCEPT ![id] = @ + 1]
    /\ IF request_queue = <<>>
         THEN /\ session_active' = NULL
              /\ todo' = rest
              /\ UNCHANGED request_queue
         ELSE /\ session_active' = Head(request_queue)
              /\ request_queue' = Tail(request_queue)
              /\ todo' = <<DispatchCall(Head(request_queue))>> \o rest

terminate_process_counts(n) ==
    /\ session_state' = "TERMINATING"
    /\ subrequest_count' = n
    /\ media' = "SUBTRACTING"
    /\ engine_in' = Append(engine_in, CLOSE)

terminate_process_extra_request == terminate_process_counts(3)

(* mrcp_server_session_terminate_process: of the requests it makes, the    *)
(* ones about this channel: subtract its termination from the media        *)
(* context and close its engine channel.                                   *)
mrcp_server_session_terminate_process ==
    /\ session_state' = "TERMINATING"
    /\ subrequest_count' = 2
    /\ media' = "SUBTRACTING"
    /\ engine_in' = Append(engine_in, CLOSE)

(* mrcp_server_session_subrequest_remove; the last sub-request leads to    *)
(* mrcp_server_session_terminate_process, or to                            *)
(* mrcp_server_session_terminate_send, which destroys the session.         *)
mrcp_server_session_subrequest_remove ==
    \/ /\ subrequest_count = 0
       /\ UNCHANGED <<terminationVars, engine_in>>
    \/ /\ subrequest_count > 1
       /\ subrequest_count' = subrequest_count - 1
       /\ UNCHANGED <<session_state, media, engine_in>>
    \/ /\ subrequest_count = 1
       /\ \/ /\ session_state = "DEACTIVATING"
             /\ mrcp_server_session_terminate_process
          \/ /\ session_state = "TERMINATING"
             /\ session_state' = "TERMINATED"
             /\ subrequest_count' = 0
             /\ UNCHANGED <<media, engine_in>>

state_machine_on_deactivate == mrcp_server_session_subrequest_remove

-----------------------------------------------------------------------------
(* mrcp_server_on_channel_message: a control request of the client.  The   *)
(* client of this library waits for a response before its next request;    *)
(* other clients may not (Pipeline).                                       *)
mrcp_server_on_channel_message(r) ==
    /\ todo = <<>>
    /\ Len(sent) < MaxRequests
    /\ ~TerminateReceived
    /\ Pipeline \/ \A i \in DOMAIN sent : answered[i] # 0
    /\ r.id = Len(sent) + 1
    /\ mrcp_server_signaling_message_process(r)
    /\ sent' = Append(sent, r)
    /\ UNCHANGED <<answered, terminationVars, engine_in, engine_out>>

(* A terminate request of the client reaches the session.                  *)
SessionTerminateRequest ==
    /\ todo = <<>>
    /\ ~TerminateReceived
    /\ mrcp_server_signaling_message_process(TERMINATE)
    /\ UNCHANGED <<sent, answered, terminationVars, engine_in, engine_out>>

(* The server task takes the next message signalled to it.                 *)
Receiving(m) ==
    /\ todo = <<>>
    /\ session_state # "TERMINATED"
    /\ engine_out # <<>>
    /\ m = Head(engine_out)
    /\ engine_out' = Tail(engine_out)

(* mrcp_server_on_engine_channel_close, and mrcp_server_on_termination_    *)
(* subtract for the channel's termination: one sub-request less.           *)
mrcp_server_on_channel_released(m) ==
    /\ Receiving(m)
    /\ m.type \in {"closed", "subtracted"}
    /\ mrcp_server_session_subrequest_remove
    /\ UNCHANGED <<sent, requestVars, todo>>

(* The media engine subtracts the termination and answers.                 *)
MediaSubtract ==
    /\ media = "SUBTRACTING"
    /\ media' = "SUBTRACTED"
    /\ engine_out' = Append(engine_out, Released("subtracted"))
    /\ UNCHANGED <<sent, requestVars, session_state, subrequest_count, todo,
                   engine_in>>

(* The STOP a state machine makes up to stop its in-progress request when  *)
(* it is deactivated.                                                      *)
InternalStop(inProgress) == Message(inProgress.id + 1, "STOP", {}, FALSE)

(* mrcp_server_session_deactivate: wait for the state machine to stop its  *)
(* in-progress request, or terminate at once when it has none.             *)
mrcp_server_session_deactivate(stops) ==
    IF stops
      THEN /\ session_state' = "DEACTIVATING"
           /\ subrequest_count' = 1
           /\ UNCHANGED media
      ELSE mrcp_server_session_terminate_process

-----------------------------------------------------------------------------
(* What every engine does: it takes the requests in the order they were    *)
(* signalled to it and answers each one.                                   *)
EngineTakes(r) ==
    /\ engine_in # <<>>
    /\ r = Head(engine_in)
    /\ engine_in' = Tail(engine_in)

Answer(r, resp) ==
    /\ EngineTakes(r)
    /\ engine_out' = Append(engine_out, resp)

EngineLeaves == UNCHANGED <<sent, requestVars, terminationVars, todo>>

(* An established session: the offer/answer exchange is over and left the  *)
(* session in INITIALIZING with no sub-request in progress.                *)
ControlInit ==
    /\ sent = <<>>
    /\ answered = [i \in Ids |-> 0]
    /\ session_active = NULL
    /\ request_queue = <<>>
    /\ session_state = "INITIALIZING"
    /\ subrequest_count = 0
    /\ media = "ADDED"
    /\ todo = <<>>
    /\ engine_in = <<>>
    /\ engine_out = <<>>

-----------------------------------------------------------------------------
(* Properties of every kind of channel.                                    *)

(* The client never gets two responses to one request, however responses,  *)
(* pending SPEAK requests and the deactivation STOP interleave.            *)
AnsweredAtMostOnce == \A i \in Ids : answered[i] <= 1

(* A response leaves the state machine only for the request the session    *)
(* has made active, so the session never moves on to its next request      *)
(* while the current one is unanswered.                                    *)
ResponseForActive ==
    [][\A i \in Ids : answered'[i] # answered[i] => session_active.id = i]_controlVars

(* Every control request of the client is answered.                        *)
RequestsAnswered ==
    \A i \in 1..MaxRequests : (i \in DOMAIN sent) ~> (answered[i] = 1)

(* A session that was asked to terminate does terminate.                   *)
TerminateCompletes == TerminateReceived ~> (session_state = "TERMINATED")

=============================================================================
