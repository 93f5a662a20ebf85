----------------------------- MODULE Application -----------------------------
(***************************************************************************)
(* The interface of an application to the client stack (mrcp_application.c) *)
(* and, behind it, as much of the stack as an application can observe: the  *)
(* stack's task takes the commands of a session one by one, answers each,   *)
(* raises the events of a request in progress, and reports a lost server.   *)
(* How the stack gets to its answers is the subject of ClientSession.       *)
(***************************************************************************)
EXTENDS Integers, Sequences, FiniteSets

InProgressMethods == {"SPEAK", "RECOGNIZE", "RECORD", "VERIFY"}

\* mrcp_session_t as the application holds it: the commands signalled to the task
\* of the stack, the requests sent on the channel and how many of them the stack
\* has handled, the request in progress at the server and those queued behind it, the
\* channel's termination
\* being in the media context, the codec of its stream being known, the connection
\* being lost, and the termination being answered.
NoHandle ==
    [valid |-> FALSE, profile |-> "", commands |-> <<>>, sent |-> <<>>, handled |-> 0, active |-> 0, pending |-> <<>>,
     media |-> FALSE, descriptor |-> FALSE, lost |-> FALSE, over |-> FALSE]

mrcp_application_session_create_ex(application, profiles, profile) ==
    IF application /\ profile \in DOMAIN profiles
    THEN [NoHandle EXCEPT !.valid = TRUE, !.profile = profile] ELSE NoHandle

mrcp_app_signaling_task_msg_signal(handle, command) == [handle EXCEPT !.commands = Append(@, command)]

mrcp_application_session_terminate(handle) ==
    IF handle.valid THEN mrcp_app_signaling_task_msg_signal(handle, "SESSION_TERMINATE") ELSE handle

mrcp_application_session_destroy(handle) == [handle EXCEPT !.valid = FALSE]

\* A stream without capabilities gets linear PCM.
mrcp_application_audio_termination_create(codecs, lpcm) == IF codecs = {} THEN {lpcm} ELSE codecs

\* A channel needs a resource its profile knows, and either a termination, with a
\* media engine and RTP termination factory, or an RTP descriptor.
mrcp_application_channel_create(handle, profile, resource, termination, rtp_descriptor) ==
    /\ handle.valid /\ resource \in profile.resources
    /\ IF termination THEN profile.media ELSE rtp_descriptor

mrcp_application_channel_add(handle, channel) ==
    IF handle.valid /\ channel THEN mrcp_app_signaling_task_msg_signal(handle, "CHANNEL_ADD") ELSE handle

mrcp_application_channel_remove(handle, channel) ==
    IF handle.valid /\ channel THEN mrcp_app_signaling_task_msg_signal(handle, "CHANNEL_REMOVE") ELSE handle

mrcp_application_resource_discover(handle) ==
    IF handle.valid THEN mrcp_app_signaling_task_msg_signal(handle, "RESOURCE_DISCOVER") ELSE handle

\* A request: its method, where its grammar or text comes from, the header fields
\* it sets or asks for, and the request a STOP names.
mrcp_application_message_create(method, body, fields, active) ==
    [method |-> method, body |-> body, fields |-> fields, active |-> active]

mrcp_application_message_send(handle, channel, request) ==
    IF handle.valid /\ channel
    THEN [mrcp_app_signaling_task_msg_signal(handle, "MESSAGE") EXCEPT !.sent = Append(@, request)]
    ELSE handle

mrcp_application_source_descriptor_get(handle) == handle.descriptor

mrcp_application_sink_descriptor_get(handle) == handle.descriptor

\* mrcp_app_message_t.
SigResponse(command, status) ==
    [kind |-> "SIG", command |-> command, status |-> status, method |-> "", state |-> "", id |-> 0]

TerminateEvent == SigResponse("TERMINATE_EVENT", TRUE)

Control(kind, method, state, id) ==
    [kind |-> kind, command |-> "MESSAGE", status |-> TRUE, method |-> method, state |-> state, id |-> id]

Handlers ==
    [SESSION_UPDATE |-> "on_session_update", SESSION_TERMINATE |-> "on_session_terminate",
     CHANNEL_ADD |-> "on_channel_add", CHANNEL_REMOVE |-> "on_channel_remove",
     MESSAGE |-> "on_message_receive", TERMINATE_EVENT |-> "on_terminate_event",
     RESOURCE_DISCOVER |-> "on_resource_discover"]

\* The handler of the dispatcher that takes a message, "" for none.
mrcp_application_message_dispatch(dispatcher, message) ==
    IF Handlers[message.command] \in dispatcher THEN Handlers[message.command] ELSE ""

-----------------------------------------------------------------------------
\* The stack, external to the applications.

Outcome(handle, message) == [handle |-> handle, message |-> message]

SigOutcome(handle, command, status) == Outcome(handle, SigResponse(command, status))

Handled(handle) == [handle EXCEPT !.handled = @ + 1]

Idle(handle) == [handle EXCEPT !.active = 0, !.pending = <<>>]

\* A request in progress, or queued by the server behind the one that is.
Begun(handle, id) == [handle EXCEPT !.active = IF handle.lost THEN @ ELSE id]

Queued(handle, id) == [handle EXCEPT !.pending = IF handle.lost THEN @ ELSE Append(@, id)]

MessageAnswers(handle, id, method) ==
    IF method = "STOP"
    THEN {Outcome(Idle(handle), Control("RESPONSE", method, "COMPLETE", id))}
    ELSE {Outcome(handle, Control("RESPONSE", method, "COMPLETE", id)),
          Outcome(IF method \in InProgressMethods THEN Begun(handle, id) ELSE handle,
                  Control("RESPONSE", method, "INPROGRESS", id))}
         \cup (IF handle.active # 0 /\ method \in InProgressMethods
               THEN {Outcome(Queued(handle, id), Control("RESPONSE", method, "PENDING", id))} ELSE {})

\* A termination that was added stays in the media context, also when the offer is
\* refused, until the channel is removed or the session terminates. A codec is
\* chosen only if one is offered with a rate.
AnswersTo(handle, command, offered) ==
    CASE command = "SESSION_TERMINATE" ->
            {SigOutcome([Idle(handle) EXCEPT !.media = FALSE, !.over = TRUE], command, ok) : ok \in BOOLEAN}
      [] command = "CHANNEL_ADD" ->
            {SigOutcome([handle EXCEPT !.media = TRUE, !.descriptor = d], command, TRUE) : d \in {FALSE, offered}}
            \cup {SigOutcome([handle EXCEPT !.media = m], command, FALSE) : m \in BOOLEAN}
      [] command = "CHANNEL_REMOVE" ->
            {SigOutcome([Idle(handle) EXCEPT !.media = FALSE], command, ok) : ok \in BOOLEAN}
      [] command = "RESOURCE_DISCOVER" -> {SigOutcome(handle, command, ok) : ok \in BOOLEAN}
      [] command = "MESSAGE" ->
            MessageAnswers(Handled(handle), handle.handled + 1, handle.sent[handle.handled + 1].method)

Answers(handle, offered) ==
    AnswersTo([handle EXCEPT !.commands = Tail(@)], handle.commands[1], offered)

\* The events of the request in progress: an intermediate one, and the last.
InputStarted(handle) == Outcome(handle, Control("EVENT", "START-OF-INPUT", "INPROGRESS", handle.active))

\* The next of the queue is begun.
Completed(handle) ==
    Outcome(IF handle.pending = <<>> THEN [handle EXCEPT !.active = 0]
            ELSE [handle EXCEPT !.active = Head(handle.pending), !.pending = Tail(@)],
            Control("EVENT", handle.sent[handle.active].method, "COMPLETE", handle.active))

\* The server is gone: the application is told, and no event follows.
ServerLost(handle) == Outcome([Idle(handle) EXCEPT !.lost = TRUE], TerminateEvent)
=============================================================================
