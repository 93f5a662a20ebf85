------------------------------ MODULE AsrEngine ------------------------------
(***************************************************************************)
(* The client library libasr (asr_engine.c) and the thread of asr-client    *)
(* that calls it: each call sends a request under the session's mutex and   *)
(* waits on its condition variable until the handler of the stack signals a *)
(* message. The handler keeps one message: the next one overwrites it.      *)
(***************************************************************************)
EXTENDS Application

CONSTANTS
    AsrProfiles,    \* profile name -> [resources, media]
    AsrLaunches,    \* what asr-client may launch: [profile, mode], mode "file" or "stream"
    MaxCalls,       \* recognitions per session
    MaxSpurious,    \* wake-ups without a signal
    MaxAsrEvents, MaxAsrLosses,
    BufferFrames    \* frames the media buffer holds

VARIABLES
    asr_engine,     \* the engine and its client stack are up
    asr,            \* asr_session_t, and the place of its thread
    asr_left        \* calls, spurious wake-ups, events and losses left to happen

asrVars == <<asr_engine, asr, asr_left>>

NoMessage == Control("", "", "", 0)

\* pc is "wait" while the thread is in one of the waits, for the message that
\* awaits names; woken: signalled, but the mutex not yet taken again. The field
\* request is the RECOGNIZE of the call, and reading says that the media thread is in
\* fread. Two are history: misled, the wait for the end of the session was ended by
\* something else, and closed, the file was closed while the media thread read it.
NoAsrSession ==
    [pc |-> "idle", mode |-> "", handle |-> NoHandle, message |-> NoMessage, awaits |-> "", woken |-> FALSE,
     request |-> 0, recog_complete |-> 0, result |-> 0, streaming |-> FALSE, audio_in |-> FALSE,
     reading |-> FALSE, buffered |-> 0, misled |-> FALSE, closed |-> FALSE]

\* asr_engine_create fails if the client stack cannot be created or started.
AsrInit ==
    /\ asr_engine \in BOOLEAN
    /\ asr = NoAsrSession
    /\ asr_left = [calls |-> MaxCalls, spurious |-> MaxSpurious, events |-> MaxAsrEvents, losses |-> MaxAsrLosses]

asr_engine_destroy ==
    /\ asr_engine
    /\ asr_engine' = FALSE
    /\ UNCHANGED <<asr, asr_left>>

-----------------------------------------------------------------------------
\* The steps of the calling thread, which take the session and return it.

Wait(s, awaits) == [s EXCEPT !.pc = "wait", !.awaits = awaits, !.woken = FALSE]

\* A call returns to the application.
Return(s) == [s EXCEPT !.pc = "created", !.awaits = "", !.woken = FALSE]

\* asr_session_destroy_ex: the termination is requested, and after one wake-up
\* the file, the mutex and the buffer go, and with them the session.
TerminateAndWait(s) ==
    Wait([s EXCEPT !.handle = mrcp_application_session_terminate(@)], "SESSION_TERMINATE")

\* fclose of the input file, if there is one.
Closed(s) == [s EXCEPT !.audio_in = FALSE, !.closed = @ \/ (s.audio_in /\ s.reading)]

asr_session_destroy_ex(s) ==
    [Closed(s) EXCEPT !.pc = "destroyed", !.awaits = "", !.woken = FALSE, !.buffered = 0,
                      !.handle = mrcp_application_session_destroy(@)]

sig_response_check(message) == message.kind = "SIG" /\ message.status

mrcp_response_check(message, state) == message.kind = "RESPONSE" /\ message.state = state

mrcp_event_get(message) == IF message.kind = "EVENT" THEN message ELSE NoMessage

asr_session_create(s, launch) ==
    LET handle == mrcp_application_session_create_ex(TRUE, AsrProfiles, launch.profile) IN
    IF handle.valid /\ mrcp_application_channel_create(handle, AsrProfiles[launch.profile], "recognizer", TRUE, FALSE)
    THEN Wait([s EXCEPT !.mode = launch.mode, !.handle = mrcp_application_channel_add(handle, TRUE)], "CHANNEL_ADD")
    ELSE [s EXCEPT !.pc = "destroyed"]

\* A grammar file that is found and cannot be read fails the call; one that is not
\* found leaves the body empty.
define_grammar_message_create(body) ==
    mrcp_application_message_create("DEFINE-GRAMMAR", body, {"content-type", "content-id"}, 0)

recognize_message_create(mode) ==
    mrcp_application_message_create("RECOGNIZE", "session",
        IF mode = "file" THEN {"no-input-timeout", "recognition-timeout", "start-input-timers"}
        ELSE {"multiple-mode", "start-input-timers"}, 0)

SendAndWait(s, request) ==
    Wait([s EXCEPT !.handle = mrcp_application_message_send(@, TRUE, request)], request.method)

DefineGrammar(s, readable, found) ==
    IF ~readable THEN Return(s)
    ELSE SendAndWait(s, define_grammar_message_create(IF found THEN "inline" ELSE "none"))

Recognize_keeps_result(s) ==
    [SendAndWait(s, recognize_message_create(s.mode)) EXCEPT !.request = Len(s.handle.sent) + 1]

\* The previous result is forgotten before the request is sent.
Recognize(s) ==
    [SendAndWait(s, recognize_message_create(s.mode)) EXCEPT !.request = Len(s.handle.sent) + 1, !.recog_complete = 0]

\* asr_session_file_recognize closes the file of the call before and opens it again,
\* while the media thread may still read it; asr_session_stream_recognize empties the
\* media buffer (FrameStreams has how that races with the media thread).
asr_input_file_open(s) == IF s.mode = "file" THEN [Closed(s) EXCEPT !.pc = "opening"] ELSE [s EXCEPT !.pc = "opening"]

StartStreaming(s, opened) ==
    IF s.mode = "stream" THEN [s EXCEPT !.pc = "loop", !.streaming = TRUE, !.buffered = 0]
    ELSE IF opened THEN [s EXCEPT !.pc = "loop", !.streaming = TRUE, !.audio_in = TRUE]
    ELSE Return(s)

\* One turn of the wait for events; nlsml_result_get takes the result.
EventTaken(s, event) ==
    LET complete == IF event.kind = "EVENT" /\ event.state = "COMPLETE" THEN event.id ELSE s.recog_complete IN
    IF complete = 0 THEN [s EXCEPT !.pc = "loop", !.awaits = "", !.woken = FALSE]
    ELSE Return([s EXCEPT !.recog_complete = complete, !.result = complete])

\* The thread has the mutex again, takes the message and leaves the wait.
WokenWith(s, message) ==
    CASE s.awaits = "CHANNEL_ADD" -> IF sig_response_check(message) THEN Return(s) ELSE TerminateAndWait(s)
      [] s.awaits = "DEFINE-GRAMMAR" ->
            IF mrcp_response_check(message, "COMPLETE") THEN [Return(s) EXCEPT !.pc = "defined"] ELSE Return(s)
      [] s.awaits = "RECOGNIZE" ->
            IF mrcp_response_check(message, "INPROGRESS") THEN [Return(s) EXCEPT !.pc = "started"] ELSE Return(s)
      [] s.awaits = "EVENT" -> EventTaken(s, mrcp_event_get(message))
      [] s.awaits = "SESSION_TERMINATE" -> asr_session_destroy_ex(s)

Leave(s) == WokenWith([s EXCEPT !.message = NoMessage], s.message)

-----------------------------------------------------------------------------
\* The thread that asr_session_launch starts: one session, recognitions on it,
\* and its destruction.

ThreadStep(s) == asr' = s /\ UNCHANGED asr_engine

asr_session_launch ==
    /\ asr.pc = "idle" /\ asr_engine
    /\ \E launch \in AsrLaunches : ThreadStep(asr_session_create(asr, launch))
    /\ UNCHANGED asr_left

asr_session_recognize ==
    /\ asr.pc = "created" /\ asr_left.calls > 0
    /\ \E readable, found \in BOOLEAN : ThreadStep(DefineGrammar([asr EXCEPT !.result = 0], readable, found))
    /\ asr_left' = [asr_left EXCEPT !.calls = @ - 1]

AsrRecognize == asr.pc = "defined" /\ ThreadStep(Recognize(asr)) /\ UNCHANGED asr_left

AsrOpen == asr.pc = "started" /\ ThreadStep(asr_input_file_open(asr)) /\ UNCHANGED asr_left

AsrStart ==
    /\ asr.pc = "opening"
    /\ \E opened \in BOOLEAN : ThreadStep(StartStreaming(asr, opened))
    /\ UNCHANGED asr_left

AsrAwaitEvent == asr.pc = "loop" /\ ThreadStep(Wait(asr, "EVENT")) /\ UNCHANGED asr_left

AsrWake == asr.pc = "wait" /\ asr.woken /\ ThreadStep(Leave(asr)) /\ UNCHANGED asr_left

AsrSpuriousWake ==
    /\ asr.pc = "wait" /\ ~asr.woken /\ asr_left.spurious > 0
    /\ ThreadStep([asr EXCEPT !.woken = TRUE, !.misled = @ \/ asr.awaits = "SESSION_TERMINATE"])
    /\ asr_left' = [asr_left EXCEPT !.spurious = @ - 1]

\* 60 seconds without a signal.
AsrTimeout ==
    /\ asr.pc = "wait" /\ asr.awaits = "EVENT" /\ ~asr.woken
    /\ ThreadStep(Return(asr))
    /\ UNCHANGED asr_left

asr_session_destroy == asr.pc = "created" /\ ThreadStep(TerminateAndWait(asr)) /\ UNCHANGED asr_left

-----------------------------------------------------------------------------
\* The other threads: the stack's, which calls the handler, the media thread, and
\* the one that writes the stream.

Misleading(s, message) ==
    s.pc = "wait" /\ ~s.woken /\ s.awaits = "SESSION_TERMINATE" /\ message.command # "SESSION_TERMINATE"

\* Responses of the signalling agent, and MRCP responses and events.
Handles(message) == message.command # "TERMINATE_EVENT"

app_message_handler(s, message) ==
    IF ~Handles(message) THEN s
    ELSE [s EXCEPT !.message = message, !.woken = s.pc = "wait", !.misled = @ \/ Misleading(s, message)]

\* A session destroyed too early is memory given back: what the stack then does
\* with it is not followed.
AsrInStack == asr_engine /\ asr.handle.valid /\ ~asr.handle.over

\* A termination leaves the media context between two frames.
AsrHandle(outcome) ==
    /\ asr' = app_message_handler(
                 [asr EXCEPT !.handle = outcome.handle, !.reading = @ /\ outcome.handle.media], outcome.message)
    /\ UNCHANGED asr_engine

AsrAnswers ==
    /\ AsrInStack /\ asr.handle.commands # <<>>
    /\ \E outcome \in Answers(asr.handle, TRUE) : AsrHandle(outcome)
    /\ UNCHANGED asr_left

AsrCompletes == AsrInStack /\ asr.handle.active # 0 /\ AsrHandle(Completed(asr.handle)) /\ UNCHANGED asr_left

AsrInputStarted ==
    /\ AsrInStack /\ asr.handle.active # 0 /\ asr_left.events > 0
    /\ AsrHandle(InputStarted(asr.handle))
    /\ asr_left' = [asr_left EXCEPT !.events = @ - 1]

AsrServerLost ==
    /\ AsrInStack /\ asr.handle.media /\ ~asr.handle.lost /\ asr_left.losses > 0
    /\ AsrHandle(ServerLost(asr.handle))
    /\ asr_left' = [asr_left EXCEPT !.losses = @ - 1]

\* The media thread looks at the file and then reads it, or reads the buffer.
asr_stream_read(s, over) ==
    IF s.reading THEN [s EXCEPT !.reading = FALSE, !.streaming = @ /\ ~over]
    ELSE IF s.mode = "file" THEN [s EXCEPT !.reading = s.streaming /\ s.audio_in]
    ELSE [s EXCEPT !.buffered = IF s.streaming /\ @ > 0 THEN @ - 1 ELSE @]

AsrMedia ==
    /\ AsrInStack /\ asr.handle.media
    /\ \E over \in BOOLEAN : asr' = asr_stream_read(asr, over)
    /\ UNCHANGED <<asr_engine, asr_left>>

\* A full buffer refuses the frame.
asr_session_stream_write ==
    /\ asr.mode = "stream" /\ asr.pc # "destroyed" /\ asr.streaming
    /\ asr' = [asr EXCEPT !.buffered = IF @ < BufferFrames THEN @ + 1 ELSE @]
    /\ UNCHANGED <<asr_engine, asr_left>>

AsrThread ==
    \/ asr_session_launch \/ AsrRecognize \/ AsrOpen \/ AsrStart \/ AsrAwaitEvent \/ AsrWake \/ AsrTimeout
    \/ asr_session_destroy

AsrNext ==
    \/ asr_engine_destroy \/ AsrThread \/ asr_session_recognize \/ AsrSpuriousWake
    \/ AsrAnswers \/ AsrCompletes \/ AsrInputStarted \/ AsrServerLost
    \/ AsrMedia \/ asr_session_stream_write

\* The thread goes on, the stack answers every command, and the 60 seconds end.
AsrFairness == WF_asrVars(AsrThread) /\ WF_asrVars(AsrAnswers)

-----------------------------------------------------------------------------
AsrTypeOK ==
    /\ asr.pc \in {"idle", "created", "defined", "started", "opening", "loop", "wait", "destroyed"}
    /\ asr.pc = "wait" <=> asr.awaits # ""
    /\ asr.buffered \in 0 .. BufferFrames

\* The session is destroyed after the stack has answered its termination, and its
\* file is closed when the media thread does not read it. Two cases are excepted. The
\* one wake-up of asr_session_destroy_ex is taken for the answer, also when it was
\* spurious or came of another message, a late RECOGNITION-COMPLETE for instance: the
\* session is then memory given back while the stack still uses it. And a second
\* recognition of the session closes the file of the first, which streams on when
\* that one was over before its file was.
AsrDestroysFinished ==
    /\ asr.pc = "destroyed" /\ asr.handle.commands # <<>> => asr.misled
    /\ asr.closed => asr.misled \/ asr_left.calls < MaxCalls - 1

\* A call returns no result but that of its own recognition, also after an earlier
\* one timed out or was given up while the server was still at it
\* (asr_session_file_recognize resets recog_complete before it sends RECOGNIZE).
AsrResultIsCurrent == asr.result # 0 => asr.result = asr.request

\* Every call returns, whatever comes in between the waits: none of the waits
\* without a timeout misses its message, as the request is sent under the mutex
\* that the wait gives up (asr_session_create, asr_session_destroy_ex).
AsrReturns == []<>(asr.pc \in {"idle", "created", "destroyed"} \/ ~asr_engine)
=============================================================================
