---------------------------- MODULE DemoFramework ----------------------------
(***************************************************************************)
(* The demo client (unimrcp-client): a console thread, a consumer task that *)
(* runs the four demo applications, the client stack that posts its answers *)
(* and events to the task, and the media thread.                            *)
(***************************************************************************)
EXTENDS Application

CONSTANTS
    DemoProfiles,   \* profile name -> [resources, media]
    DemoRequests,   \* what the user may run: [name, profile]
    DemoFrames,     \* frames of silence sent when there is no input file (5 seconds)
    MaxDemoRuns, MaxDemoEvents, MaxDemoLosses

DemoIds == 1 .. MaxDemoRuns

VARIABLES
    demo_console,   \* "up", "exiting", "stopping" the stack, "down"; "crashed"
    demo_task,      \* framework->task: "running", "over", "none"
    demo_queue,     \* its messages
    demo_sessions,  \* the sessions that were created
    demo_left       \* runs, events and losses left to happen

demoVars == <<demo_console, demo_task, demo_queue, demo_sessions, demo_left>>

\* The channel object of an application; refused is history: the stack refused
\* the request.
NoDemoChannel == [exists |-> FALSE, file |-> FALSE, streaming |-> FALSE, time |-> 0, refused |-> FALSE]

NoDemoSession == [app |-> "", handle |-> NoHandle, chan |-> NoDemoChannel]

-----------------------------------------------------------------------------
\* The requests (demo_util.c). A file that cannot be read leaves the body empty.

demo_message_body_set(readable) == IF readable THEN "inline" ELSE "none"

demo_speak_message_create(readable) ==
    mrcp_application_message_create("SPEAK", demo_message_body_set(readable), {"content-type", "voice-age"}, 0)

demo_define_grammar_message_create(readable) ==
    mrcp_application_message_create("DEFINE-GRAMMAR", demo_message_body_set(readable),
                                    {"content-type", "content-id"}, 0)

demo_recognize_message_create(v2) ==
    mrcp_application_message_create("RECOGNIZE", "session",
        {"content-type", "no-input-timeout", "recognition-timeout", "start-input-timers",
         "confidence-threshold"} \cup (IF v2 THEN {"cancel-if-queue"} ELSE {}), 0)

Terminating(s) == [s EXCEPT !.handle = mrcp_application_session_terminate(@)]

Removing(s) == [s EXCEPT !.handle = mrcp_application_channel_remove(@, s.chan.exists)]

Sending(s, request) == [s EXCEPT !.handle = mrcp_application_message_send(@, s.chan.exists, request)]

Destroyed(s) == [s EXCEPT !.handle = mrcp_application_session_destroy(@)]

-----------------------------------------------------------------------------
\* The applications. Opened is the outcome of opening the audio file.

synth_application_on_channel_add(s, status, opened, readable) ==
    IF ~status \/ ~mrcp_application_sink_descriptor_get(s.handle) THEN Terminating(s)
    ELSE [Sending(s, demo_speak_message_create(readable)) EXCEPT !.chan.file = opened]

synth_application_on_channel_remove(s) == [Terminating(s) EXCEPT !.chan.file = FALSE]

synth_application_on_message_receive(s, message) ==
    IF message.kind = "RESPONSE" /\ message.method = "SPEAK" /\ message.state = "INPROGRESS" THEN s
    ELSE Removing(s)

synth_app_stream_write(s) == s

recog_application_on_channel_add(s, status, readable) ==
    IF status THEN Sending(s, demo_define_grammar_message_create(readable)) ELSE Terminating(s)

recog_application_on_channel_remove(s) == [Terminating(s) EXCEPT !.chan.file = FALSE]

recog_application_on_define_grammar(s, opened) ==
    IF ~mrcp_application_source_descriptor_get(s.handle) THEN Terminating(s)
    ELSE [Sending(s, demo_recognize_message_create(s.handle.profile = "uni2"))
            EXCEPT !.chan.file = opened, !.chan.time = IF opened THEN @ ELSE DemoFrames]

recog_on_response_ignores_refusal(s, message, opened) ==
    CASE message.method = "DEFINE-GRAMMAR" /\ message.state = "COMPLETE" ->
            recog_application_on_define_grammar(s, opened)
      [] message.method = "RECOGNIZE" /\ message.state = "INPROGRESS" -> [s EXCEPT !.chan.streaming = TRUE]
      [] OTHER -> s

recog_on_response(s, message, opened) ==
    CASE message.method = "DEFINE-GRAMMAR" /\ message.state = "COMPLETE" ->
            recog_application_on_define_grammar(s, opened)
      [] message.method = "RECOGNIZE" /\ message.state = "INPROGRESS" -> [s EXCEPT !.chan.streaming = TRUE]
      [] OTHER -> Removing(s)

recog_application_on_message_receive(s, message, opened) ==
    IF message.kind = "RESPONSE" THEN recog_on_response(s, message, opened)
    ELSE IF message.state = "COMPLETE" THEN Removing([s EXCEPT !.chan.streaming = FALSE]) ELSE s

\* A frame of the file, or of silence until its time is up.
recog_app_stream_read(s, over) ==
    IF ~s.chan.streaming THEN s
    ELSE IF s.chan.file THEN [s EXCEPT !.chan.streaming = ~over]
    ELSE IF s.chan.time > 0 THEN [s EXCEPT !.chan.time = @ - 1]
    ELSE [s EXCEPT !.chan.streaming = FALSE]

bypass_application_on_channel_add(s, status, readable) ==
    IF status THEN Sending(s, demo_speak_message_create(readable)) ELSE Terminating(s)

bypass_application_on_channel_remove(s) == Terminating(s)

\* The state in the response to SPEAK is not looked at.
bypass_application_on_message_receive(s, message) ==
    IF message.kind = "EVENT" /\ message.state = "COMPLETE" THEN Removing(s)
    ELSE [s EXCEPT !.chan.refused = message.state = "COMPLETE"]

discover_application_on_resource_discover(s) == Terminating(s)

demo_on_session_terminate(s) == Destroyed(s)

-----------------------------------------------------------------------------
\* Running an application: the session, its channel, and the first command.

Channel(handle, resource, termination) ==
    mrcp_application_channel_create(handle, DemoProfiles[handle.profile], resource, termination, ~termination)

synth_application_channel_create(handle) == Channel(handle, "synthesizer", TRUE)

recog_application_channel_create(handle) == Channel(handle, "recognizer", TRUE)

\* No termination: the application names the RTP endpoint itself.
bypass_application_channel_create(handle) == Channel(handle, "synthesizer", FALSE)

\* Without a channel the session is destroyed again.
RunOn(app, handle, channel) ==
    IF handle.valid /\ channel
    THEN [NoDemoSession EXCEPT !.app = app, !.chan.exists = TRUE, !.handle = mrcp_application_channel_add(handle, TRUE)]
    ELSE NoDemoSession

synth_application_run(handle) == RunOn("synth", handle, handle.valid /\ synth_application_channel_create(handle))

recog_application_run(handle) == RunOn("recog", handle, handle.valid /\ recog_application_channel_create(handle))

bypass_application_run(handle) == RunOn("bypass", handle, handle.valid /\ bypass_application_channel_create(handle))

discover_application_run(handle) ==
    IF handle.valid
    THEN [NoDemoSession EXCEPT !.app = "discover", !.handle = mrcp_application_resource_discover(handle)]
    ELSE NoDemoSession

demo_application_run(app, handle) ==
    CASE app = "synth" -> synth_application_run(handle)
      [] app = "recog" -> recog_application_run(handle)
      [] app = "bypass" -> bypass_application_run(handle)
      [] app = "discover" -> discover_application_run(handle)

-----------------------------------------------------------------------------
\* The framework.

\* demo_framework_create starts the task before the client stack.
DemoInit ==
    /\ demo_console = "up" /\ demo_task = "running" /\ demo_queue = <<>>
    /\ demo_sessions = [id \in DemoIds |-> NoDemoSession]
    /\ demo_left = [runs |-> MaxDemoRuns, events |-> MaxDemoEvents, losses |-> MaxDemoLosses]

DemoMsg(type, id, request, message) == [type |-> type, id |-> id, request |-> request, message |-> message]

NoDemoRequest == [name |-> "", profile |-> ""]

demo_framework_app_run ==
    /\ demo_console = "up" /\ demo_left.runs > 0
    /\ \E request \in DemoRequests :
            demo_queue' = Append(demo_queue, DemoMsg("CONSOLE", demo_left.runs, request, TerminateEvent))
    /\ demo_left' = [demo_left EXCEPT !.runs = @ - 1]
    /\ UNCHANGED <<demo_console, demo_task, demo_sessions>>

\* The console leaves its loop: the task is asked to terminate, joined, destroyed
\* and forgotten, and only then is the stack shut down.
demo_framework_destroy ==
    \/ /\ demo_console = "up" /\ demo_console' = "exiting"
       /\ demo_queue' = Append(demo_queue, DemoMsg("TERMINATE", 0, NoDemoRequest, TerminateEvent))
       /\ UNCHANGED <<demo_task, demo_sessions, demo_left>>
    \/ /\ demo_console = "exiting" /\ demo_task = "over"
       /\ demo_console' = "stopping" /\ demo_task' = "none" /\ demo_queue' = <<>>
       /\ UNCHANGED <<demo_sessions, demo_left>>
    \/ /\ demo_console = "stopping" /\ demo_console' = "down"
       /\ UNCHANGED <<demo_task, demo_queue, demo_sessions, demo_left>>

\* The dispatchers of the four applications; none has a handler for the event of
\* a lost server.
DemoDispatchers ==
    [synth |-> {"on_session_update", "on_session_terminate", "on_channel_add", "on_channel_remove", "on_message_receive"},
     recog |-> {"on_session_update", "on_session_terminate", "on_channel_add", "on_channel_remove", "on_message_receive"},
     bypass |-> {"on_session_update", "on_session_terminate", "on_channel_add", "on_channel_remove", "on_message_receive"},
     discover |-> {"on_session_terminate", "on_resource_discover"}]

\* An application that is not found is not run.
demo_framework_console_msg_process ==
    /\ demo_queue # <<>> /\ demo_queue[1].type = "CONSOLE"
    /\ LET request == demo_queue[1].request IN
        demo_sessions' = [demo_sessions EXCEPT ![demo_queue[1].id] =
            IF request.name \notin DOMAIN DemoDispatchers THEN @
            ELSE demo_application_run(request.name,
                    mrcp_application_session_create_ex(TRUE, DemoProfiles, request.profile))]
    /\ demo_queue' = Tail(demo_queue)

OnChannelAdded(s, status, opened, readable) ==
    CASE s.app = "synth" -> synth_application_on_channel_add(s, status, opened, readable)
      [] s.app = "recog" -> recog_application_on_channel_add(s, status, readable)
      [] s.app = "bypass" -> bypass_application_on_channel_add(s, status, readable)

OnChannelRemoved(s) ==
    CASE s.app = "synth" -> synth_application_on_channel_remove(s)
      [] s.app = "recog" -> recog_application_on_channel_remove(s)
      [] s.app = "bypass" -> bypass_application_on_channel_remove(s)

OnMessage(s, message, opened) ==
    CASE s.app = "synth" -> synth_application_on_message_receive(s, message)
      [] s.app = "recog" -> recog_application_on_message_receive(s, message, opened)
      [] s.app = "bypass" -> bypass_application_on_message_receive(s, message)

OnAppMessage(s, message, opened, readable) ==
    LET handler == mrcp_application_message_dispatch(DemoDispatchers[s.app], message) IN
    CASE handler = "on_session_terminate" -> demo_on_session_terminate(s)
      [] handler = "on_channel_add" -> OnChannelAdded(s, message.status, opened, readable)
      [] handler = "on_channel_remove" -> OnChannelRemoved(s)
      [] handler = "on_message_receive" -> OnMessage(s, message, opened)
      [] handler = "on_resource_discover" -> discover_application_on_resource_discover(s)
      [] OTHER -> s

demo_framework_app_msg_process ==
    /\ demo_queue # <<>> /\ demo_queue[1].type = "CLIENT"
    /\ \E opened, readable \in BOOLEAN :
            demo_sessions' = [demo_sessions EXCEPT ![demo_queue[1].id] =
                OnAppMessage(@, demo_queue[1].message, opened, readable)]
    /\ demo_queue' = Tail(demo_queue)

demo_framework_msg_process ==
    /\ demo_task = "running"
    /\ demo_framework_console_msg_process \/ demo_framework_app_msg_process
    /\ UNCHANGED <<demo_console, demo_task, demo_left>>

DemoTaskOver ==
    /\ demo_task = "running" /\ demo_queue # <<>> /\ demo_queue[1].type = "TERMINATE"
    /\ demo_task' = "over" /\ demo_queue' = Tail(demo_queue)
    /\ UNCHANGED <<demo_console, demo_sessions, demo_left>>

-----------------------------------------------------------------------------
\* The client stack and the media thread. The handler posts to the task; once the
\* task is forgotten it uses NULL, and the process crashes.

demo_framework_message_handler(id, outcome) ==
    /\ demo_sessions' = [demo_sessions EXCEPT ![id].handle = outcome.handle]
    /\ demo_queue' = IF demo_task = "none" THEN demo_queue
                     ELSE Append(demo_queue, DemoMsg("CLIENT", id, NoDemoRequest, outcome.message))
    /\ demo_console' = IF demo_task = "none" THEN "crashed" ELSE demo_console
    /\ UNCHANGED demo_task

InDemoStack(id) == demo_console \notin {"down", "crashed"} /\ demo_sessions[id].handle.valid /\ ~demo_sessions[id].handle.over

DemoAnswers(id) ==
    /\ InDemoStack(id) /\ demo_sessions[id].handle.commands # <<>>
    /\ \E outcome \in Answers(demo_sessions[id].handle, TRUE) : demo_framework_message_handler(id, outcome)
    /\ UNCHANGED demo_left

DemoCompletes(id) ==
    /\ InDemoStack(id) /\ demo_sessions[id].handle.active # 0
    /\ demo_framework_message_handler(id, Completed(demo_sessions[id].handle))
    /\ UNCHANGED demo_left

DemoInputStarted(id) ==
    /\ InDemoStack(id) /\ demo_sessions[id].app = "recog" /\ demo_sessions[id].handle.active # 0
    /\ demo_left.events > 0
    /\ demo_framework_message_handler(id, InputStarted(demo_sessions[id].handle))
    /\ demo_left' = [demo_left EXCEPT !.events = @ - 1]

DemoServerLost(id) ==
    /\ InDemoStack(id) /\ demo_sessions[id].handle.media /\ ~demo_sessions[id].handle.lost
    /\ demo_left.losses > 0
    /\ demo_framework_message_handler(id, ServerLost(demo_sessions[id].handle))
    /\ demo_left' = [demo_left EXCEPT !.losses = @ - 1]

DemoMedia(id) ==
    /\ demo_console \notin {"down", "crashed"} /\ demo_sessions[id].handle.media
    /\ \E over \in BOOLEAN :
            demo_sessions' = [demo_sessions EXCEPT ![id] =
                IF @.app = "recog" THEN recog_app_stream_read(@, over) ELSE synth_app_stream_write(@)]
    /\ UNCHANGED <<demo_console, demo_task, demo_queue, demo_left>>

DemoNext ==
    \/ demo_framework_app_run \/ demo_framework_destroy \/ demo_framework_msg_process \/ DemoTaskOver
    \/ \E id \in DemoIds :
        DemoAnswers(id) \/ DemoCompletes(id) \/ DemoInputStarted(id) \/ DemoServerLost(id) \/ DemoMedia(id)

DemoFairness ==
    /\ WF_demoVars(demo_framework_msg_process) /\ WF_demoVars(DemoTaskOver)
    /\ \A id \in DemoIds : WF_demoVars(DemoAnswers(id)) /\ WF_demoVars(DemoCompletes(id))

-----------------------------------------------------------------------------
\* A session is destroyed only after its last message was taken: none is on the
\* way for a destroyed one. Its audio file is open only while its termination may
\* be in the media context, and closed when it is destroyed
\* (on_channel_remove, on_session_terminate). A client that exits with a session
\* left open may crash: demo_framework_destroy sets the task to NULL before it shuts
\* the stack down, and demo_framework_message_handler uses it; with none left open
\* it does not.
DemoObjectsAlive ==
    /\ demo_console = "crashed" => \E id \in DemoIds : demo_sessions[id].handle.valid
    /\ \A id \in DemoIds :
        /\ \A i \in DOMAIN demo_queue :
            demo_queue[i].type = "CLIENT" /\ demo_queue[i].id = id => demo_sessions[id].handle.valid
        /\ ~demo_sessions[id].handle.valid => ~demo_sessions[id].chan.file
        /\ demo_sessions[id].chan.streaming => demo_sessions[id].chan.exists

\* A session ends, whatever the stack answers, unless its server is lost, as none of
\* the applications handles the event that says so, or the client exits, or a SPEAK
\* of the bypass application is refused, whose response it does not look at
\* (on_message_receive, on_channel_remove).
DemoSessionsEnd ==
    \A id \in DemoIds :
        []<>(\/ ~demo_sessions[id].handle.valid \/ demo_sessions[id].handle.lost
             \/ demo_sessions[id].chan.refused \/ demo_console # "up")
=============================================================================
