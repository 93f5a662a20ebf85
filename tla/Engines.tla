------------------------------- MODULE Engines -------------------------------
(***************************************************************************)
(* The engine plug-ins of plugins/, each under the same host, and what the *)
(* rules at the head of their sources demand of them ("One and only one    *)
(* response MUST be sent back to the received request").                   *)
(***************************************************************************)
EXTENDS Naturals, Sequences

(***************************************************************************)
(* What every engine plug-in of plugins/ lives in: a server that opens the *)
(* engine, opens one channel, sends it requests and closes it, and three   *)
(* threads that share the fields of the channel without a lock.  The task  *)
(* thread takes the messages signalled to the engine; the media thread     *)
(* calls the stream callback every 10 ms; the thread of a vendor's SDK     *)
(* makes call-backs.                                                       *)
(*                                                                         *)
(* The server is the resource state machine seen from the engine: one      *)
(* request at a time, a request that starts only when none is in progress, *)
(* a CLOSE only when nothing is in progress any more.                      *)
(***************************************************************************)

CONSTANT
    MaxRequests  \* bound: how many requests the server sends

ASSUME HostAssumption == MaxRequests \in Nat

VARIABLES
    plugin,      \* the plug-in this behaviour is about
    life,        \* of the engine and its channel
    sent,        \* methods of the requests sent so far, by id
    waiting,     \* the request the server waits for a response to, or NULL
    busy,        \* the request that is in progress for the server, or NULL
    engine_in,   \* messages signalled to the engine's task
    engine_out,  \* messages sent to the server's task
    responses,   \* responses[i]: responses the engine has sent to request i
    completes,   \* completes[i]: complete events it has sent about request i
    attached,    \* is the termination in a media context?
    ch,          \* the fields of the channel structure
    task,        \* where the task thread is in the handler of a request
    media,       \* where the media thread is in the stream call-back
    sdk,         \* what the vendor's SDK still has to call back
    crashed      \* a freed or NULL object was used

hostVars == <<plugin, life, sent, waiting, busy, attached>>

vars == <<hostVars, engine_in, engine_out, responses, completes, ch, task,
          media, sdk, crashed>>

NULL == 0

Ids == 1..MaxRequests

Starts == {"SPEAK", "RECOGNIZE", "RECORD", "VERIFY"}

Signal(type, id) == [type |-> type, id |-> id]

At(step, id) == [at |-> step, id |-> id]

Idle == At("idle", NULL)

-----------------------------------------------------------------------------
(* What an engine does with the server: respond, raise events.             *)

Send(type, id) == engine_out' = Append(engine_out, Signal(type, id))

Respond(type, id) ==
    /\ Send(type, id)
    /\ responses' = [responses EXCEPT ![id] = @ + 1]
    /\ UNCHANGED completes

Complete(id) ==
    /\ Send("complete", id)
    /\ completes' = [completes EXCEPT ![id] = @ + 1]
    /\ UNCHANGED responses

Silent == UNCHANGED <<engine_out, responses, completes>>

(* Bound: an event that changes nothing in the server is raised only when  *)
(* no message is on its way.                                               *)
Event(id) ==
    /\ IF engine_out = <<>> THEN Send("event", id) ELSE UNCHANGED engine_out
    /\ UNCHANGED <<responses, completes>>

(* The task takes the message at the head of its queue.                    *)
Takes(type, id) ==
    /\ task = Idle
    /\ engine_in # <<>>
    /\ Head(engine_in) = Signal(type, id)
    /\ engine_in' = Tail(engine_in)

TakesRequest(method, id) == id \in DOMAIN sent /\ sent[id] = method
                            /\ Takes("request", id)

TakesOneOf(methods, id) == id \in DOMAIN sent /\ sent[id] \in methods
                           /\ Takes("request", id)

(* mrcp_engine_channel_open_respond, mrcp_engine_channel_close_respond     *)
Reports(type) == Send(type, NULL) /\ UNCHANGED <<responses, completes>>

(* There is a channel for the SDK to call back.                            *)
HasChannel == ch # <<>>

(* The media engine calls the stream call-back.                            *)
Called == attached /\ media = Idle

Use(ok) == crashed' = ~ok

TaskFrame == UNCHANGED <<hostVars, media, sdk, crashed>>

MediaFrame == UNCHANGED <<hostVars, engine_in, task, sdk>>

ServerFrame == UNCHANGED <<plugin, engine_out, responses, completes, task, media,
                           sdk, crashed>>

-----------------------------------------------------------------------------
(* The calls of the server (libs/mrcp-engine/src/mrcp_engine_iface.c).     *)

(* mrcp_engine_virtual_open: an engine that returns FALSE without a        *)
(* response stays unopened.                                                *)
EngineOpen(ok) ==
    /\ life = "created"
    /\ life' = IF ok THEN "opened" ELSE "failed"
    /\ UNCHANGED <<sent, waiting, busy, attached, engine_in, ch>>
    /\ ServerFrame

(* mrcp_engine_channel_virtual_create and mrcp_engine_channel_virtual_open *)
ChannelOpen(fields) ==
    /\ life = "opened"
    /\ life' = "opening"
    /\ ch' = fields
    /\ engine_in' = <<Signal("open", NULL)>>
    /\ UNCHANGED <<sent, waiting, busy, attached>>
    /\ ServerFrame

(* mrcp_engine_channel_request_process: what the state machine lets pass   *)
(* in its state; the media starts with the first request.                  *)
ChannelRequest(method) ==
    /\ life = "open"
    /\ waiting = NULL
    /\ Len(sent) < MaxRequests
    /\ method \in Starts => busy = NULL
    /\ method \in {"STOP", "PAUSE", "RESUME", "START-INPUT-TIMERS"} => busy # NULL
    /\ sent' = Append(sent, method)
    /\ waiting' = Len(sent) + 1
    /\ engine_in' = Append(engine_in, Signal("request", Len(sent) + 1))
    /\ attached' = TRUE
    /\ UNCHANGED <<life, busy, ch>>
    /\ ServerFrame

(* mrcp_engine_channel_virtual_close, which the session calls once nothing *)
(* is in progress; the channel fields are as fields when the plug-in's own *)
(* code in it is done.                                                     *)
ChannelClose(fields) ==
    /\ life = "open"
    /\ waiting = NULL
    /\ busy = NULL
    /\ life' = "closing"
    /\ ch' = fields
    /\ engine_in' = Append(engine_in, Signal("close", NULL))
    /\ UNCHANGED <<sent, waiting, busy, attached>>
    /\ ServerFrame

(* mrcp_engine_virtual_close: the engine's task is terminated and joined.  *)
EngineClose ==
    /\ life = "closed"
    /\ ~attached
    /\ task = Idle
    /\ life' = "down"
    /\ UNCHANGED <<sent, waiting, busy, attached, engine_in, ch>>
    /\ ServerFrame

-----------------------------------------------------------------------------
(* The server task takes a message of the engine: the response it waits    *)
(* for, the end of the request in progress unless it crossed a STOP, the   *)
(* end of the channel.  Anything else changes nothing.  The recorder has   *)
(* no task of its own: its handlers run in the server task.                *)
ServerReceives ==
    /\ engine_out # <<>>
    /\ plugin = "mrcp-recorder" => task = Idle /\ engine_in = <<>>
    /\ engine_out' = Tail(engine_out)
    /\ LET m == Head(engine_out)
           answer == m.type \in {"INPROGRESS", "COMPLETE"} /\ m.id = waiting
           stopped == answer /\ sent[m.id] = "STOP"
           over == /\ m.type = "complete"
                   /\ m.id = busy
                   /\ waiting = NULL \/ sent[waiting] # "STOP"
       IN  /\ waiting' = IF answer THEN NULL ELSE waiting
           /\ busy' = IF answer /\ m.type = "INPROGRESS" THEN m.id
                      ELSE IF stopped \/ over THEN NULL
                      ELSE busy
           /\ life' = IF m.type \in {"open", "closed"} THEN m.type ELSE life
    /\ UNCHANGED <<plugin, sent, attached, engine_in, responses, completes, ch,
                   task, media, sdk, crashed>>

(* The media engine subtracts the termination, while the channel closes.   *)
MediaSubtracts ==
    /\ life \in {"closing", "closed"}
    /\ attached
    /\ media = Idle
    /\ attached' = FALSE
    /\ UNCHANGED <<plugin, life, sent, waiting, busy, engine_in, engine_out,
                   responses, completes, ch, task, media, sdk, crashed>>

HostInit ==
    /\ life = "created"
    /\ sent = <<>>
    /\ waiting = NULL
    /\ busy = NULL
    /\ engine_in = <<>>
    /\ engine_out = <<>>
    /\ responses = [i \in Ids |-> 0]
    /\ completes = [i \in Ids |-> 0]
    /\ attached = FALSE
    /\ ch = <<>>
    /\ task = Idle
    /\ media = Idle
    /\ sdk = <<>>
    /\ crashed = FALSE

-----------------------------------------------------------------------------
(***************************************************************************)
(* The plug-ins: the demo recognizer, the demo verifier and the recorder   *)
(* of the distribution, and the recognizers and synthesizers that call a   *)
(* vendor's speech SDK (xfyun, nls, nls2).                                 *)
(***************************************************************************)

(***************************************************************************)
(* The demo recognizer, plugins/demo-recog/src/demo_recog_engine.c.        *)
(***************************************************************************)

demo_recog_engine_open == EngineOpen(TRUE)

demo_recog_engine_close == EngineClose

(* timers_started is not initialized.                                      *)
demo_recog_engine_channel_create ==
    \E timers \in BOOLEAN :
        ChannelOpen([recog_request |-> NULL, stop_response |-> NULL,
                     timers_started |-> timers, audio_out |-> FALSE])

demo_recog_channel_close == ChannelClose(ch)

demo_recog_channel_request_process ==
    \E method \in {"RECOGNIZE", "STOP", "START-INPUT-TIMERS", "OTHER"} :
        ChannelRequest(method)

-----------------------------------------------------------------------------
(* The task.  The response to RECOGNIZE leaves before the request is       *)
(* stored: two steps.                                                      *)
demo_recog_channel_recognize(r) ==
    /\ TakesRequest("RECOGNIZE", r)
    /\ \/ Respond("COMPLETE", r) /\ UNCHANGED <<ch, task>>     \* no codec
       \/ \E timers \in BOOLEAN, opened \in BOOLEAN :
             /\ ch' = [ch EXCEPT !.timers_started = timers,
                                 !.audio_out = @ \/ opened]
             /\ Respond("INPROGRESS", r)
             /\ task' = At("store", r)
    /\ TaskFrame

DemoRecogRequestStored ==
    /\ task.at = "store"
    /\ ch' = [ch EXCEPT !.recog_request = task.id]
    /\ task' = Idle
    /\ UNCHANGED engine_in /\ Silent /\ TaskFrame

demo_recog_channel_stop(r) ==
    /\ TakesRequest("STOP", r)
    /\ ch' = [ch EXCEPT !.stop_response = r]
    /\ UNCHANGED task /\ Silent /\ TaskFrame

demo_recog_channel_timers_start(r) ==
    /\ TakesRequest("START-INPUT-TIMERS", r)
    /\ ch' = [ch EXCEPT !.timers_started = TRUE]
    /\ Respond("COMPLETE", r)
    /\ UNCHANGED task /\ TaskFrame

demo_recog_channel_request_dispatch(r) ==
    \/ demo_recog_channel_recognize(r)
    \/ demo_recog_channel_timers_start(r)
    \/ demo_recog_channel_stop(r)
    \/ /\ TakesRequest("OTHER", r)
       /\ Respond("COMPLETE", r)
       /\ UNCHANGED <<ch, task>> /\ TaskFrame

demo_recog_msg_process ==
    \/ Takes("open", NULL) /\ Reports("open") /\ UNCHANGED <<ch, task>> /\ TaskFrame
    \/ /\ Takes("close", NULL)
       /\ ch' = [ch EXCEPT !.audio_out = FALSE]
       /\ Reports("closed")
       /\ UNCHANGED task /\ TaskFrame
    \/ \E r \in Ids : demo_recog_channel_request_dispatch(r)

-----------------------------------------------------------------------------
(* The stream call-back, on the media thread.  The response to STOP leaves *)
(* before the requests are reset, and the frame is written to the file     *)
(* after the file pointer was tested: a step each.                         *)
demo_recog_start_of_input == Event(ch.recog_request) /\ UNCHANGED ch

demo_recog_recognition_complete_keeps_request ==
    Complete(ch.recog_request) /\ UNCHANGED ch

demo_recog_recognition_complete ==
    /\ Complete(ch.recog_request)
    /\ ch' = [ch EXCEPT !.recog_request = NULL]

(* mpf_activity_detector_process decides what this frame means.            *)
DemoRecogDetected ==
    \/ Silent /\ UNCHANGED ch
    \/ demo_recog_start_of_input
    \/ demo_recog_recognition_complete                         \* inactivity
    \/ ch.timers_started /\ demo_recog_recognition_complete    \* no input

demo_recog_stream_write ==
    \/ /\ Called
       /\ ch.stop_response # NULL
       /\ Respond("COMPLETE", ch.stop_response)
       /\ media' = At("reset", NULL)
       /\ UNCHANGED <<ch, crashed>> /\ MediaFrame
    \/ /\ media.at = "reset"
       /\ ch' = [ch EXCEPT !.stop_response = NULL, !.recog_request = NULL]
       /\ media' = Idle
       /\ UNCHANGED crashed /\ Silent /\ MediaFrame
    \/ /\ Called
       /\ ch.stop_response = NULL
       /\ ch.recog_request # NULL
       /\ DemoRecogDetected
       /\ media' = IF ch.audio_out THEN At("fwrite", NULL) ELSE Idle
       /\ UNCHANGED crashed /\ MediaFrame
    \/ /\ media.at = "fwrite"
       /\ Use(ch.audio_out)
       /\ media' = Idle
       /\ UNCHANGED ch /\ Silent /\ MediaFrame

-----------------------------------------------------------------------------

DemoRecogServer ==
    \/ demo_recog_engine_open
    \/ demo_recog_engine_channel_create
    \/ demo_recog_channel_request_process
    \/ demo_recog_channel_close
    \/ demo_recog_engine_close

DemoRecogTask == demo_recog_msg_process \/ DemoRecogRequestStored

DemoRecogMedia == demo_recog_stream_write

-----------------------------------------------------------------------------

(***************************************************************************)
(* The demo verifier, plugins/demo-verifier/src/demo_verifier_engine.c.    *)
(***************************************************************************)

demo_verifier_engine_open == EngineOpen(TRUE)

demo_verifier_engine_close == EngineClose

(* timers_started is not initialized.                                      *)
demo_verifier_engine_channel_create ==
    \E timers \in BOOLEAN :
        ChannelOpen([verifier_request |-> NULL, stop_response |-> NULL,
                     timers_started |-> timers, audio_out |-> FALSE])

demo_verifier_channel_close == ChannelClose(ch)

demo_verifier_channel_request_process ==
    \E method \in {"VERIFY", "STOP", "START-INPUT-TIMERS", "GET-INTERMEDIATE-RESULT",
                  "OTHER"} :
        ChannelRequest(method)

-----------------------------------------------------------------------------
(* The task.  The response to VERIFY leaves before the request is       *)
(* stored: two steps.                                                      *)
demo_verifier_channel_verify(r) ==
    /\ TakesRequest("VERIFY", r)
    /\ \/ Respond("COMPLETE", r) /\ UNCHANGED <<ch, task>>     \* no codec
       \/ \E timers \in BOOLEAN, opened \in BOOLEAN :
             /\ ch' = [ch EXCEPT !.timers_started = timers,
                                 !.audio_out = @ \/ opened]
             /\ Respond("INPROGRESS", r)
             /\ task' = At("store", r)
    /\ TaskFrame

DemoVerifierRequestStored ==
    /\ task.at = "store"
    /\ ch' = [ch EXCEPT !.verifier_request = task.id]
    /\ task' = Idle
    /\ UNCHANGED engine_in /\ Silent /\ TaskFrame

demo_verifier_channel_stop(r) ==
    /\ TakesRequest("STOP", r)
    /\ ch' = [ch EXCEPT !.stop_response = r]
    /\ UNCHANGED task /\ Silent /\ TaskFrame

demo_verifier_channel_timers_start(r) ==
    /\ TakesRequest("START-INPUT-TIMERS", r)
    /\ ch' = [ch EXCEPT !.timers_started = TRUE]
    /\ Respond("COMPLETE", r)
    /\ UNCHANGED task /\ TaskFrame

demo_verifier_channel_get_result(r) ==
    /\ TakesRequest("GET-INTERMEDIATE-RESULT", r)
    /\ Respond("COMPLETE", r)
    /\ UNCHANGED <<ch, task>> /\ TaskFrame

demo_verifier_channel_request_dispatch(r) ==
    \/ demo_verifier_channel_verify(r)
    \/ demo_verifier_channel_timers_start(r)
    \/ demo_verifier_channel_stop(r)
    \/ demo_verifier_channel_get_result(r)
    \/ /\ TakesRequest("OTHER", r)
       /\ Respond("COMPLETE", r)
       /\ UNCHANGED <<ch, task>> /\ TaskFrame

demo_verifier_msg_process ==
    \/ Takes("open", NULL) /\ Reports("open") /\ UNCHANGED <<ch, task>> /\ TaskFrame
    \/ /\ Takes("close", NULL)
       /\ ch' = [ch EXCEPT !.audio_out = FALSE]
       /\ Reports("closed")
       /\ UNCHANGED task /\ TaskFrame
    \/ \E r \in Ids : demo_verifier_channel_request_dispatch(r)

-----------------------------------------------------------------------------
(* The stream call-back, on the media thread.  The response to STOP leaves *)
(* before the requests are reset, and the frame is written to the file     *)
(* after the file pointer was tested: a step each.                         *)
demo_verifier_start_of_input == Event(ch.verifier_request) /\ UNCHANGED ch

demo_verifier_verification_complete ==
    /\ Complete(ch.verifier_request)
    /\ ch' = [ch EXCEPT !.verifier_request = NULL]

(* mpf_activity_detector_process decides what this frame means.            *)
DemoVerifierDetected ==
    \/ Silent /\ UNCHANGED ch
    \/ demo_verifier_start_of_input
    \/ demo_verifier_verification_complete                         \* inactivity
    \/ ch.timers_started /\ demo_verifier_verification_complete    \* no input

demo_verifier_stream_write ==
    \/ /\ Called
       /\ ch.stop_response # NULL
       /\ Respond("COMPLETE", ch.stop_response)
       /\ media' = At("reset", NULL)
       /\ UNCHANGED <<ch, crashed>> /\ MediaFrame
    \/ /\ media.at = "reset"
       /\ ch' = [ch EXCEPT !.stop_response = NULL, !.verifier_request = NULL]
       /\ media' = Idle
       /\ UNCHANGED crashed /\ Silent /\ MediaFrame
    \/ /\ Called
       /\ ch.stop_response = NULL
       /\ ch.verifier_request # NULL
       /\ DemoVerifierDetected
       /\ media' = IF ch.audio_out THEN At("fwrite", NULL) ELSE Idle
       /\ UNCHANGED crashed /\ MediaFrame
    \/ /\ media.at = "fwrite"
       /\ Use(ch.audio_out)
       /\ media' = Idle
       /\ UNCHANGED ch /\ Silent /\ MediaFrame

-----------------------------------------------------------------------------

DemoVerifierServer ==
    \/ demo_verifier_engine_open
    \/ demo_verifier_engine_channel_create
    \/ demo_verifier_channel_request_process
    \/ demo_verifier_channel_close
    \/ demo_verifier_engine_close

DemoVerifierTask == demo_verifier_msg_process \/ DemoVerifierRequestStored

DemoVerifierMedia == demo_verifier_stream_write

-----------------------------------------------------------------------------

(***************************************************************************)
(* The recorder, plugins/mrcp-recorder/src/mrcp_recorder_engine.c.  It has *)
(* no task of its own: its handlers run in the server task (EngineHost),   *)
(* against the media thread.                                               *)
(***************************************************************************)

recorder_engine_open == EngineOpen(TRUE)

recorder_engine_close == EngineClose

(* timers_started is not initialized; timed says that max_time is not 0.   *)
recorder_engine_channel_create ==
    \E timers \in BOOLEAN :
        ChannelOpen([record_request |-> NULL, stop_response |-> NULL,
                     timers_started |-> timers, timed |-> FALSE,
                     audio_out |-> FALSE])

-----------------------------------------------------------------------------
(* The handlers.  The file is opened, the response leaves, the request is  *)
(* stored: a step each.                                                    *)

recorder_channel_open ==
    Takes("open", NULL) /\ Reports("open") /\ UNCHANGED <<ch, task>> /\ TaskFrame

recorder_channel_close ==
    Takes("close", NULL) /\ Reports("closed") /\ UNCHANGED <<ch, task>> /\ TaskFrame

(* The file of the last recording is closed first.                         *)
recorder_file_open(ok) == ch' = [ch EXCEPT !.audio_out = ok]

recorder_channel_record(r) ==
    \/ /\ TakesRequest("RECORD", r)
       /\ \/ UNCHANGED ch /\ Respond("COMPLETE", r) /\ UNCHANGED task  \* no codec
          \/ recorder_file_open(FALSE) /\ Respond("COMPLETE", r) /\ UNCHANGED task
          \/ recorder_file_open(TRUE) /\ task' = At("respond", r) /\ Silent
       /\ TaskFrame
    \/ /\ task = At("respond", r)
       /\ \E timers \in BOOLEAN, timed \in BOOLEAN :
             ch' = [ch EXCEPT !.timers_started = timers, !.timed = timed]
       /\ Respond("INPROGRESS", r)
       /\ task' = At("store", r)
       /\ UNCHANGED engine_in /\ TaskFrame
    \/ /\ task = At("store", r)
       /\ ch' = [ch EXCEPT !.record_request = r]
       /\ task' = Idle
       /\ UNCHANGED engine_in /\ Silent /\ TaskFrame

recorder_channel_stop(r) ==
    /\ TakesRequest("STOP", r)
    /\ ch' = [ch EXCEPT !.stop_response = r]
    /\ UNCHANGED task /\ Silent /\ TaskFrame

recorder_channel_timers_start(r) ==
    /\ TakesRequest("START-INPUT-TIMERS", r)
    /\ ch' = [ch EXCEPT !.timers_started = TRUE]
    /\ Respond("COMPLETE", r)
    /\ UNCHANGED task /\ TaskFrame

recorder_channel_request_process(r) ==
    \/ recorder_channel_record(r)
    \/ recorder_channel_stop(r)
    \/ recorder_channel_timers_start(r)
    \/ /\ TakesRequest("OTHER", r)
       /\ Respond("COMPLETE", r)
       /\ UNCHANGED <<ch, task>> /\ TaskFrame

-----------------------------------------------------------------------------
(* The stream call-back: the file is closed before a response or an event  *)
(* leaves; the rest of the call tests the file pointer again.              *)

recorder_start_of_input == Event(ch.record_request) /\ UNCHANGED ch

recorder_record_complete_leaves_file ==
    IF ch.record_request = NULL
    THEN Use(FALSE) /\ Silent /\ UNCHANGED ch
    ELSE /\ ch' = [ch EXCEPT !.record_request = NULL]
         /\ Complete(ch.record_request)
         /\ UNCHANGED crashed

(* Without a request in the channel there is nothing to make an event of.  *)
recorder_record_complete ==
    IF ch.record_request = NULL
    THEN Use(FALSE) /\ Silent /\ UNCHANGED ch
    ELSE /\ ch' = [ch EXCEPT !.audio_out = FALSE, !.record_request = NULL]
         /\ Complete(ch.record_request)
         /\ UNCHANGED crashed

RecorderDetected ==
    \/ Silent /\ UNCHANGED <<ch, crashed>>
    \/ recorder_start_of_input /\ UNCHANGED crashed
    \/ recorder_record_complete                           \* inactivity
    \/ ch.timers_started /\ recorder_record_complete      \* no input

recorder_stream_write ==
    \/ /\ Called
       /\ ch.stop_response # NULL
       /\ ch' = [ch EXCEPT !.audio_out = FALSE]
       /\ Respond("COMPLETE", ch.stop_response)
       /\ media' = At("reset", NULL)
       /\ UNCHANGED crashed /\ MediaFrame
    \/ /\ media.at = "reset"
       /\ ch' = [ch EXCEPT !.stop_response = NULL, !.record_request = NULL]
       /\ media' = Idle
       /\ UNCHANGED crashed /\ Silent /\ MediaFrame
    \/ /\ Called
       /\ ch.stop_response = NULL
       /\ ch.record_request # NULL
       /\ RecorderDetected
       /\ media' = At("write", NULL)
       /\ MediaFrame
    \/ /\ media.at = "write"
       /\ \/ Silent /\ UNCHANGED <<ch, crashed>>
          \/ ch.audio_out /\ ch.timed /\ recorder_record_complete
       /\ media' = Idle
       /\ MediaFrame

-----------------------------------------------------------------------------

RecorderServer ==
    \/ recorder_engine_open
    \/ recorder_engine_channel_create
    \/ \E method \in {"RECORD", "STOP", "START-INPUT-TIMERS", "OTHER"} :
          ChannelRequest(method)
    \/ ChannelClose(ch)
    \/ recorder_engine_close

RecorderTask ==
    \/ recorder_channel_open
    \/ recorder_channel_close
    \/ \E r \in Ids : recorder_channel_request_process(r)

RecorderMedia == recorder_stream_write

-----------------------------------------------------------------------------

(***************************************************************************)
(* The iFLYTEK recognizer, plugins/xfyun-recog/src/xfyun_recog_engine.c.   *)
(* The vendor's session (QISRSessionBegin ... QISRSessionEnd) is used by   *)
(* the task and by the media thread.                                       *)
(***************************************************************************)

(* mrcp_plugin_create: without a login (xfyun_login) there is no engine.   *)
XfyunRecogmrcp_plugin_create == EngineOpen(FALSE)

xfyun_recog_engine_open == EngineOpen(TRUE)

xfyun_recog_engine_close == EngineClose

xfyun_recog_engine_channel_create ==
    \E timers \in BOOLEAN :
        ChannelOpen([recog_request |-> NULL, stop_response |-> NULL,
                     timers_started |-> timers, audio_out |-> FALSE,
                     session_id |-> FALSE])

xfyun_recog_channel_close == ChannelClose(ch)

xfyun_recog_channel_request_process ==
    \E method \in {"RECOGNIZE", "STOP", "START-INPUT-TIMERS", "OTHER"} :
        ChannelRequest(method)

-----------------------------------------------------------------------------
(* The task.  The IN-PROGRESS response leaves before the session begins;   *)
(* when it does not begin the dispatcher sends the response once more.     *)
xfyun_recog_channel_recognize(r) ==
    \/ /\ TakesRequest("RECOGNIZE", r)
       /\ \/ Respond("COMPLETE", r) /\ UNCHANGED <<ch, task>>     \* no codec
          \/ \E timers \in BOOLEAN, opened \in BOOLEAN :
                /\ ch' = [ch EXCEPT !.timers_started = timers,
                                    !.audio_out = @ \/ opened]
                /\ Respond("INPROGRESS", r)
                /\ task' = At("begin", r)
       /\ TaskFrame
    \/ /\ task = At("begin", r)
       /\ \/ /\ ch' = [ch EXCEPT !.session_id = FALSE]
             /\ Respond("INPROGRESS", r)
             /\ task' = Idle
          \/ /\ ch' = [ch EXCEPT !.session_id = TRUE]
             /\ task' = At("store", r)
             /\ Silent
       /\ UNCHANGED engine_in /\ TaskFrame
    \/ /\ task = At("store", r)
       /\ ch' = [ch EXCEPT !.recog_request = r]
       /\ task' = Idle
       /\ UNCHANGED engine_in /\ Silent /\ TaskFrame

(* xfyun_recog_end_session, after it has seen a session: no other thread   *)
(* may have ended it.                                                      *)
xfyun_recog_end_session ==
    /\ Use(ch.session_id)
    /\ ch' = [ch EXCEPT !.session_id = FALSE]

xfyun_recog_channel_stop(r) ==
    \/ /\ TakesRequest("STOP", r)
       /\ task' = At(IF ch.session_id THEN "end" ELSE "stop", r)
       /\ UNCHANGED ch /\ Silent /\ TaskFrame
    \/ /\ task = At("end", r)
       /\ xfyun_recog_end_session
       /\ task' = At("stop", r)
       /\ UNCHANGED <<hostVars, engine_in, media, sdk>> /\ Silent
    \/ /\ task = At("stop", r)
       /\ ch' = [ch EXCEPT !.stop_response = r]
       /\ task' = Idle
       /\ UNCHANGED engine_in /\ Silent /\ TaskFrame

xfyun_recog_channel_timers_start(r) ==
    /\ TakesRequest("START-INPUT-TIMERS", r)
    /\ ch' = [ch EXCEPT !.timers_started = TRUE]
    /\ Respond("COMPLETE", r)
    /\ UNCHANGED task /\ TaskFrame

xfyun_recog_channel_request_dispatch(r) ==
    \/ xfyun_recog_channel_recognize(r)
    \/ xfyun_recog_channel_timers_start(r)
    \/ xfyun_recog_channel_stop(r)
    \/ /\ TakesRequest("OTHER", r)
       /\ Respond("COMPLETE", r)
       /\ UNCHANGED <<ch, task>> /\ TaskFrame

xfyun_recog_msg_process ==
    \/ Takes("open", NULL) /\ Reports("open") /\ UNCHANGED <<ch, task>> /\ TaskFrame
    \/ /\ Takes("close", NULL)
       /\ ch' = [ch EXCEPT !.audio_out = FALSE]
       /\ Reports("closed")
       /\ UNCHANGED task /\ TaskFrame
    \/ \E r \in Ids : xfyun_recog_channel_request_dispatch(r)

-----------------------------------------------------------------------------
(* The media thread.                                                       *)

MediaAt(step) == media.at = step /\ MediaFrame

ToFile == media' = IF ch.audio_out THEN At("fwrite", NULL) ELSE Idle

xfyun_recog_start_of_input == Event(ch.recog_request)

(* The audio written to the session, and its results polled: the session   *)
(* was seen before, and is used until the call is over.                    *)
xfyun_recog_stream_recog ==
    /\ Use(ch.session_id)
    /\ UNCHANGED ch /\ Silent

(* xfyun_recog_recognition_complete: the last results, the end of the      *)
(* session and the event, in this order.                                   *)
xfyun_recog_recognition_complete ==
    \/ /\ MediaAt("last")
       /\ xfyun_recog_stream_recog
       /\ media' = At(IF ch.session_id THEN "end" ELSE "event", NULL)
    \/ /\ MediaAt("end")
       /\ xfyun_recog_end_session
       /\ media' = At("event", NULL)
       /\ Silent
    \/ /\ MediaAt("event")
       /\ Complete(ch.recog_request)
       /\ ch' = [ch EXCEPT !.recog_request = NULL]
       /\ ToFile
       /\ UNCHANGED crashed

Completing ==
    /\ media' = At(IF ch.session_id THEN "last" ELSE "event", NULL)
    /\ Silent

xfyun_recog_stream_write ==
    \/ /\ Called
       /\ ch.stop_response # NULL
       /\ Respond("COMPLETE", ch.stop_response)
       /\ media' = At("reset", NULL)
       /\ UNCHANGED <<ch, crashed>> /\ MediaFrame
    \/ /\ MediaAt("reset")
       /\ ch' = [ch EXCEPT !.stop_response = NULL, !.recog_request = NULL]
       /\ media' = Idle
       /\ UNCHANGED crashed /\ Silent
    \/ /\ Called
       /\ ch.stop_response = NULL
       /\ ch.session_id \/ ch.recog_request # NULL
       /\ media' = At(IF ch.session_id THEN "feed" ELSE "detect", NULL)
       /\ UNCHANGED <<ch, crashed>> /\ Silent /\ MediaFrame
    \/ /\ MediaAt("feed")
       /\ xfyun_recog_stream_recog
       /\ media' = At("detect", NULL)
    \/ /\ MediaAt("detect")
       /\ \/ ch.recog_request = NULL /\ media' = Idle /\ Silent
          \/ ch.recog_request # NULL /\ ToFile /\ Silent
          \/ ch.recog_request # NULL /\ ToFile /\ xfyun_recog_start_of_input
          \/ ch.recog_request # NULL /\ Completing                \* inactivity
          \/ ch.recog_request # NULL /\ ch.timers_started /\ Completing
       /\ UNCHANGED <<ch, crashed>>
    \/ xfyun_recog_recognition_complete
    \/ /\ MediaAt("fwrite")
       /\ Use(ch.audio_out)
       /\ media' = Idle
       /\ UNCHANGED ch /\ Silent

-----------------------------------------------------------------------------

XfyunRecogServer ==
    \/ XfyunRecogmrcp_plugin_create
    \/ xfyun_recog_engine_open
    \/ xfyun_recog_engine_channel_create
    \/ xfyun_recog_channel_request_process
    \/ xfyun_recog_channel_close
    \/ xfyun_recog_engine_close

XfyunRecogTask == xfyun_recog_msg_process

XfyunRecogMedia == xfyun_recog_stream_write

-----------------------------------------------------------------------------

(***************************************************************************)
(* The Alibaba recognizer, plugins/nls-recog/src/nls_recog_engine.cpp and  *)
(* nls_asr.cpp.  A RECOGNIZE has a session of the vendor's SDK, whose      *)
(* thread notes the status of the recognition in recog_sm under a mutex;   *)
(* the media thread reads it there.  timers_started is TRUE whenever it is *)
(* read and is left out.                                                   *)
(***************************************************************************)

(* nls_recog_sm_new: the status and the one seen last by the media thread. *)
nls_recog_sm_new == [status |-> "Feeding", prev |-> "Feeding"]

NoSm == [status |-> "none", prev |-> "none"]

(* NlsASR::GlobalInit fails on a bad configuration file: no response is    *)
(* sent then.                                                              *)
GlobalInit == {TRUE, FALSE}

nls_recog_engine_open == \E ok \in GlobalInit : EngineOpen(ok)

nls_recog_engine_close == EngineClose

nls_recog_engine_channel_create ==
    ChannelOpen([recog_request |-> NULL, stop_response |-> NULL,
                 audio_out |-> FALSE, asr_session |-> "none",
                 recog_sm |-> NoSm])

nls_recog_channel_close == ChannelClose(ch)

nls_recog_channel_request_process ==
    \E method \in {"RECOGNIZE", "STOP", "START-INPUT-TIMERS", "OTHER"} :
        ChannelRequest(method)

-----------------------------------------------------------------------------
(* The task.                                                               *)

(* NlsASRSession::Start: the session receives call-backs from now on, or   *)
(* has no request of the SDK.                                              *)
NlsRecogStart(ok) == ch' = [ch EXCEPT !.asr_session = IF ok THEN "Feeding" ELSE "stopped"]

(* NlsASR::CloseSession with NlsASRSession::Stop, of a session the thread  *)
(* has seen: no other thread may have deleted it.  The SDK makes no        *)
(* call-back for it any more.                                              *)
CloseSession ==
    /\ Use(ch.asr_session # "none")
    /\ ch' = [ch EXCEPT !.asr_session = "none"]

(* The response to RECOGNIZE leaves before the session starts; when it     *)
(* does not start the dispatcher sends the response once more.             *)
nls_recog_channel_recognize(r) ==
    \/ /\ TakesRequest("RECOGNIZE", r)
       /\ \/ Respond("COMPLETE", r) /\ UNCHANGED <<ch, task>>     \* no codec
          \/ /\ ch' = [ch EXCEPT !.recog_sm = NoSm]               \* no mutex
             /\ Respond("COMPLETE", r)
             /\ UNCHANGED task
          \/ \E opened \in BOOLEAN :
                /\ ch' = [ch EXCEPT !.recog_sm = nls_recog_sm_new,
                                    !.audio_out = @ \/ opened]
                /\ Respond("INPROGRESS", r)
                /\ task' = At("start", r)
       /\ TaskFrame
    \/ /\ task = At("start", r)
       /\ \/ NlsRecogStart(FALSE) /\ Respond("INPROGRESS", r) /\ task' = Idle
          \/ NlsRecogStart(TRUE) /\ task' = At("store", r) /\ Silent
       /\ UNCHANGED engine_in /\ TaskFrame
    \/ /\ task = At("store", r)
       /\ ch' = [ch EXCEPT !.recog_request = r]
       /\ task' = Idle
       /\ UNCHANGED engine_in /\ Silent /\ TaskFrame

nls_recog_sm_delete == [ch EXCEPT !.recog_sm = NoSm]

nls_recog_channel_stop(r) ==
    \/ /\ TakesRequest("STOP", r)
       /\ task' = At(IF ch.asr_session # "none" THEN "close" ELSE "delete", r)
       /\ UNCHANGED ch /\ Silent /\ TaskFrame
    \/ /\ task = At("close", r)
       /\ CloseSession
       /\ task' = At("delete", r)
       /\ UNCHANGED <<hostVars, engine_in, media, sdk>> /\ Silent
    \/ /\ task = At("delete", r)
       /\ ch' = nls_recog_sm_delete
       /\ task' = At("stop", r)
       /\ UNCHANGED engine_in /\ Silent /\ TaskFrame
    \/ /\ task = At("stop", r)
       /\ ch' = [ch EXCEPT !.stop_response = r]
       /\ task' = Idle
       /\ UNCHANGED engine_in /\ Silent /\ TaskFrame

nls_recog_channel_timers_start(r) ==
    /\ TakesRequest("START-INPUT-TIMERS", r)
    /\ Respond("COMPLETE", r)
    /\ UNCHANGED <<ch, task>> /\ TaskFrame

nls_recog_channel_request_dispatch(r) ==
    \/ nls_recog_channel_recognize(r)
    \/ nls_recog_channel_timers_start(r)
    \/ nls_recog_channel_stop(r)
    \/ /\ TakesRequest("OTHER", r)
       /\ Respond("COMPLETE", r)
       /\ UNCHANGED <<ch, task>> /\ TaskFrame

nls_recog_msg_process ==
    \/ Takes("open", NULL) /\ Reports("open") /\ UNCHANGED <<ch, task>> /\ TaskFrame
    \/ /\ Takes("close", NULL)
       /\ ch' = [ch EXCEPT !.audio_out = FALSE]
       /\ Reports("closed")
       /\ UNCHANGED task /\ TaskFrame
    \/ \E r \in Ids : nls_recog_channel_request_dispatch(r)

-----------------------------------------------------------------------------
(* The SDK's thread.                                                       *)

(* nls_recog_sm_on_notify                                                  *)
nls_recog_sm_on_notify(status) == [ch.recog_sm EXCEPT !.status = status]

(* NlsASRSession::OnNotify: a partial result counts once; a whole result   *)
(* ends the recognition; one that cannot be read, and a failure, are       *)
(* errors (OnResultReceiced, OnOperationFailed).                           *)
OnNotify ==
    /\ HasChannel
    /\ ch.asr_session \notin {"none", "stopped"}
    /\ \/ /\ ch.asr_session = "Feeding"
          /\ ch' = [ch EXCEPT !.asr_session = "Detecting",
                              !.recog_sm = nls_recog_sm_on_notify("Detecting")]
       \/ ch' = [ch EXCEPT !.asr_session = "Detected",
                           !.recog_sm = nls_recog_sm_on_notify("Detected")]
       \/ ch' = [ch EXCEPT !.recog_sm = nls_recog_sm_on_notify("Invalid")]
    /\ UNCHANGED <<hostVars, engine_in, task, media, sdk, crashed>> /\ Silent

-----------------------------------------------------------------------------
(* The media thread.                                                       *)

(* nls_recog_sm_get_status: what the status means now; whether a timeout   *)
(* has elapsed is left open.  A timeout leaves prev alone.                 *)
nls_recog_sm_get_status ==
    LET sm == ch.recog_sm
    IN  IF sm.status = "Feeding" THEN {"Ignore", "Timeout"}
        ELSE IF sm.status = sm.prev
             THEN {"Ignore"} \cup (IF sm.status = "Detecting" THEN {"Timeout"} ELSE {})
        ELSE IF sm.status = "Detecting" THEN {"Timeout", "BeginSpeaking"}
        ELSE {"Final"}

nls_recog_start_of_input == Event(ch.recog_request)

(* nls_recog_recognition_complete: the session is closed, then the event   *)
(* leaves.                                                                 *)
nls_recog_recognition_complete ==
    \/ /\ MediaAt("close")
       /\ CloseSession
       /\ media' = At("event", NULL)
       /\ Silent
    \/ /\ MediaAt("event")
       /\ Complete(ch.recog_request)
       /\ ch' = [ch EXCEPT !.recog_request = NULL]
       /\ ToFile
       /\ UNCHANGED crashed

OnStatus(event) ==
    /\ ch' = [ch EXCEPT !.recog_sm.prev =
                 IF event \in {"BeginSpeaking", "Final"} THEN ch.recog_sm.status ELSE @]
    /\ \/ event = "Ignore" /\ Silent /\ ToFile
       \/ event = "BeginSpeaking" /\ nls_recog_start_of_input /\ ToFile
       \/ /\ event \in {"Timeout", "Final"}
          /\ media' = At(IF ch.asr_session # "none" THEN "close" ELSE "event", NULL)
          /\ Silent

nls_recog_stream_write ==
    \/ /\ Called
       /\ ch.stop_response # NULL
       /\ Respond("COMPLETE", ch.stop_response)
       /\ media' = At("reset", NULL)
       /\ UNCHANGED <<ch, crashed>> /\ MediaFrame
    \/ /\ MediaAt("reset")
       /\ ch' = [ch EXCEPT !.stop_response = NULL, !.recog_request = NULL]
       /\ media' = Idle
       /\ UNCHANGED crashed /\ Silent
    \/ /\ Called
       /\ ch.stop_response = NULL
       /\ ch.recog_request # NULL
       /\ media' = At(IF ch.asr_session # "none" THEN "feed" ELSE "sm", NULL)
       /\ UNCHANGED <<ch, crashed>> /\ Silent /\ MediaFrame
    \/ /\ MediaAt("feed")
       /\ Use(ch.asr_session # "none")
       /\ media' = At("sm", NULL)
       /\ UNCHANGED ch /\ Silent
    \/ /\ MediaAt("sm")
       /\ IF ch.recog_sm # NoSm THEN media' = At("status", NULL) ELSE ToFile
       /\ UNCHANGED <<ch, crashed>> /\ Silent
    \/ /\ MediaAt("status")
       /\ ch.recog_sm # NoSm
       /\ \E event \in nls_recog_sm_get_status : OnStatus(event)
       /\ UNCHANGED crashed
    \/ /\ MediaAt("status")
       /\ ch.recog_sm = NoSm             \* its mutex is destroyed
       /\ Use(FALSE)
       /\ media' = Idle
       /\ UNCHANGED ch /\ Silent
    \/ nls_recog_recognition_complete
    \/ /\ MediaAt("fwrite")
       /\ Use(ch.audio_out)
       /\ media' = Idle
       /\ UNCHANGED ch /\ Silent

-----------------------------------------------------------------------------

NlsRecogServer ==
    \/ nls_recog_engine_open
    \/ nls_recog_engine_channel_create
    \/ nls_recog_channel_request_process
    \/ nls_recog_channel_close
    \/ nls_recog_engine_close

NlsRecogTask == nls_recog_msg_process

NlsRecogMedia == nls_recog_stream_write

NlsRecogSdk == OnNotify

-----------------------------------------------------------------------------

(***************************************************************************)
(* The second Alibaba recognizer, plugins/nls2-recog/src/                  *)
(* nls2_recog_engine.cpp and nls2_asr.cpp: the SDK's thread raises the     *)
(* events itself.  The session is closed by the task, by the media thread  *)
(* and by the server's thread.  Closing waits for a running call-back, and *)
(* none starts from then on (releaseRecognizerRequest, external).          *)
(***************************************************************************)

(* GlobalInit and the configuration file, as for the first plug-in.        *)
nls2_recog_engine_open == \E ok \in GlobalInit : EngineOpen(ok)

nls2_recog_engine_close == EngineClose

nls2_recog_engine_channel_create ==
    ChannelOpen([recog_request |-> NULL, stop_response |-> NULL,
                 timers_started |-> FALSE, audio_out |-> FALSE,
                 asr_session |-> "none", multiple_mode |-> FALSE])

(* The server's thread closes a session that is left.                      *)
nls2_recog_channel_close ==
    /\ HasChannel
    /\ ch.asr_session # "none" => sdk = <<>>
    /\ ChannelClose([ch EXCEPT !.asr_session = "none"])

nls2_recog_channel_request_process ==
    \E method \in {"RECOGNIZE", "STOP", "START-INPUT-TIMERS", "OTHER"} :
        ChannelRequest(method)

-----------------------------------------------------------------------------
(* The task.                                                               *)

(* OpenASRSession: of a type that depends on multiple_mode; a session that *)
(* was open is forgotten.                                                  *)
OpenASRSession(r, multiple, opened) ==
    ch' = [ch EXCEPT !.recog_request = r, !.asr_session = "opened",
                     !.multiple_mode = multiple, !.audio_out = @ \/ opened]

(* SpeechRecognizerSession::Start, SpeechTranscriberSession::Start: no     *)
(* token, no request object or no answer stop the session again.           *)
Nls2RecogStart(ok) == ch' = [ch EXCEPT !.asr_session = IF ok THEN "started" ELSE "stopped"]

(* CloseASRSession with Stop, of a session the thread has seen.            *)
CloseASRSession ==
    /\ sdk = <<>>
    /\ Use(ch.asr_session # "none")
    /\ ch' = [ch EXCEPT !.asr_session = "none"]

(* The request is stored first and the response leaves last.               *)
nls2_recog_channel_recognize(r) ==
    \/ /\ TakesRequest("RECOGNIZE", r)
       /\ \/ Respond("COMPLETE", r) /\ UNCHANGED <<ch, task>>     \* no codec
          \/ \E multiple \in BOOLEAN, opened \in BOOLEAN :
                /\ OpenASRSession(r, multiple, opened)
                /\ task' = At("start", r)
                /\ Silent
       /\ TaskFrame
    \/ /\ task = At("start", r)
       /\ \/ Nls2RecogStart(FALSE) /\ Respond("COMPLETE", r) /\ task' = Idle
          \/ Nls2RecogStart(TRUE) /\ Silent /\ task' = At("respond", r)
       /\ UNCHANGED engine_in /\ TaskFrame
    \/ /\ task = At("respond", r)
       /\ Respond("INPROGRESS", r)
       /\ task' = Idle
       /\ UNCHANGED <<ch, engine_in>> /\ TaskFrame

nls2_recog_channel_stop(r) ==
    \/ /\ TakesRequest("STOP", r)
       /\ task' = At(IF ch.asr_session # "none" THEN "close" ELSE "stop", r)
       /\ UNCHANGED ch /\ Silent /\ TaskFrame
    \/ /\ task = At("close", r)
       /\ CloseASRSession
       /\ task' = At("stop", r)
       /\ UNCHANGED <<hostVars, engine_in, media, sdk>> /\ Silent
    \/ /\ task = At("stop", r)
       /\ ch' = [ch EXCEPT !.stop_response = r]
       /\ task' = Idle
       /\ UNCHANGED engine_in /\ Silent /\ TaskFrame

nls2_recog_channel_timers_start(r) ==
    /\ TakesRequest("START-INPUT-TIMERS", r)
    /\ ch' = [ch EXCEPT !.timers_started = TRUE]
    /\ Respond("COMPLETE", r)
    /\ UNCHANGED task /\ TaskFrame

nls2_recog_channel_request_dispatch(r) ==
    \/ nls2_recog_channel_recognize(r)
    \/ nls2_recog_channel_timers_start(r)
    \/ nls2_recog_channel_stop(r)
    \/ /\ TakesRequest("OTHER", r)
       /\ Respond("COMPLETE", r)
       /\ UNCHANGED <<ch, task>> /\ TaskFrame

nls2_recog_msg_process ==
    \/ Takes("open", NULL) /\ Reports("open") /\ UNCHANGED <<ch, task>> /\ TaskFrame
    \/ /\ Takes("close", NULL)
       /\ ch' = [ch EXCEPT !.audio_out = FALSE]
       /\ Reports("closed")
       /\ UNCHANGED task /\ TaskFrame
    \/ \E r \in Ids : nls2_recog_channel_request_dispatch(r)

-----------------------------------------------------------------------------
(* An event about the request in the channel, or the use of none.          *)
OrCrashes(raise) ==
    IF ch.recog_request = NULL
    THEN Use(FALSE) /\ Silent /\ UNCHANGED ch
    ELSE raise /\ UNCHANGED crashed

nls2_recog_start_of_input == OrCrashes(Event(ch.recog_request) /\ UNCHANGED ch)

nls2_recog_recognition_notify == OrCrashes(Event(ch.recog_request) /\ UNCHANGED ch)

nls2_recog_recognition_complete ==
    OrCrashes(/\ Complete(ch.recog_request)
            /\ ch' = [ch EXCEPT !.recog_request = NULL])

(* The SDK's thread tests recog_request and then makes the event: a        *)
(* completion counts always (a failure and a closed connection do once the *)
(* timers run, to the same effect).  The transcriber raises                *)
(* RECOGNITION-NOTIFY as well.                                             *)
Notified(kind) ==
    /\ sdk = <<>>
    /\ task.at # "close" /\ media.at \notin {"close", "disconnected"}
    /\ ch.asr_session = "started"
    /\ ch.recog_request # NULL
    /\ sdk' = <<kind>>
    /\ UNCHANGED <<hostVars, engine_in, ch, task, media, crashed>> /\ Silent

nls2_recog_on_speechrecognizer_notify ==
    HasChannel /\ ~ch.multiple_mode /\ Notified("complete")

nls2_recog_on_speechtranscriber_notify ==
    /\ HasChannel
    /\ ch.multiple_mode
    /\ Notified("complete") \/ Notified("notify")

OnNotifyRaises ==
    /\ sdk # <<>>
    /\ IF Head(sdk) = "complete" THEN nls2_recog_recognition_complete
                                 ELSE nls2_recog_recognition_notify
    /\ sdk' = <<>>
    /\ UNCHANGED <<hostVars, engine_in, task, media>>

-----------------------------------------------------------------------------
(* The media thread.                                                       *)

Nls2RecogDetected ==
    \/ media' = At("feed", NULL) /\ UNCHANGED ch
    \/ media' = At("speech", NULL) /\ ch' = [ch EXCEPT !.timers_started = TRUE]
    \/ /\ ch.asr_session # "none"                                 \* inactivity
       /\ media' = At("close", NULL)
       /\ UNCHANGED ch
    \/ /\ ~ch.multiple_mode /\ ch.timers_started /\ ch.asr_session # "none"
       /\ media' = At("close", NULL)                              \* no input
       /\ UNCHANGED ch

(* FeedAudioData of a session seen before; without a connection it fails.  *)
FeedAudioData ==
    /\ Use(ch.asr_session # "none")
    /\ \/ media' = At("disconnected", NULL)
       \/ ch.asr_session = "started" /\ ToFile
    /\ UNCHANGED ch /\ Silent

nls2_recog_stream_write ==
    \/ /\ Called
       /\ ch.stop_response # NULL
       /\ Respond("COMPLETE", ch.stop_response)
       /\ media' = At("reset", NULL)
       /\ UNCHANGED <<ch, crashed>> /\ MediaFrame
    \/ /\ MediaAt("reset")
       /\ ch' = [ch EXCEPT !.stop_response = NULL, !.recog_request = NULL]
       /\ media' = Idle
       /\ UNCHANGED crashed /\ Silent
    \/ /\ Called
       /\ ch.stop_response = NULL
       /\ ch.recog_request # NULL
       /\ Nls2RecogDetected
       /\ UNCHANGED crashed /\ Silent /\ MediaFrame
    \/ /\ MediaAt("speech")
       /\ nls2_recog_start_of_input
       /\ media' = At("feed", NULL)
    \/ /\ MediaAt("close")
       /\ CloseASRSession
       /\ media' = At("feed", NULL)
       /\ Silent
    \/ /\ MediaAt("feed")
       /\ IF ch.recog_request # NULL /\ ch.timers_started /\ ch.asr_session # "none"
          THEN media' = At("send", NULL)
          ELSE ToFile
       /\ UNCHANGED <<ch, crashed>> /\ Silent
    \/ MediaAt("send") /\ FeedAudioData
    \/ /\ MediaAt("disconnected")
       /\ CloseASRSession
       /\ media' = Idle
       /\ Silent
    \/ /\ MediaAt("fwrite")
       /\ Use(ch.audio_out)
       /\ media' = Idle
       /\ UNCHANGED ch /\ Silent

-----------------------------------------------------------------------------

Nls2RecogServer ==
    \/ nls2_recog_engine_open
    \/ nls2_recog_engine_channel_create
    \/ nls2_recog_channel_request_process
    \/ nls2_recog_channel_close
    \/ nls2_recog_engine_close

Nls2RecogTask == nls2_recog_msg_process

Nls2RecogMedia == nls2_recog_stream_write

Nls2RecogSdk ==
    \/ nls2_recog_on_speechrecognizer_notify
    \/ nls2_recog_on_speechtranscriber_notify
    \/ OnNotifyRaises

-----------------------------------------------------------------------------

(***************************************************************************)
(* What the synthesizers of the vendors have in common: a buffer of audio  *)
(* that the synthesis fills and the media thread empties                   *)
(* (libs/mpf/src/mpf_buffer.c), with a frame of type EVENT at the end.     *)
(* A chunk is known by its type and by the SPEAK it was made for.          *)
(***************************************************************************)

CONSTANT
    MaxChunks    \* bound: chunks in the buffer when an SDK adds audio

ASSUME ChunksAssumption == MaxChunks \in Nat

Chunk(type, id) == [type |-> type, id |-> id]

Fields ==
    [speak_request |-> NULL, stop_response |-> NULL, paused |-> FALSE,
     audio_buffer |-> <<>>, tts_session |-> FALSE]

mpf_buffer_audio_write(id) ==
    ch' = [ch EXCEPT !.audio_buffer = Append(@, Chunk("audio", id))]

mpf_buffer_event_write(id) ==
    ch' = [ch EXCEPT !.audio_buffer = Append(@, Chunk("event", id))]

EventFirst == ch.audio_buffer # <<>> /\ Head(ch.audio_buffer).type = "event"

(* A frame takes what fits of the chunks, n of them to the end; it is an   *)
(* EVENT frame when one of them is.  A chunk of type EVENT is empty and    *)
(* does not stay in front.                                                 *)
mpf_buffer_frame_read(n) ==
    /\ n = 0 => ~EventFirst
    /\ ch' = [ch EXCEPT !.audio_buffer = SubSeq(@, n + 1, Len(@))]

EventRead(n) == \E k \in 1..n : ch.audio_buffer[k].type = "event"

-----------------------------------------------------------------------------
(* The steps of the task that the dispatchers share.                       *)

TaskStep(step, r) == task = At(step, r) /\ UNCHANGED engine_in

StopStored(r) ==
    /\ TakesOneOf({"STOP", "BARGE-IN-OCCURRED"}, r)
    /\ ch' = [ch EXCEPT !.stop_response = r]
    /\ UNCHANGED task /\ Silent /\ TaskFrame

Paused(method, paused, r) ==
    /\ TakesRequest(method, r)
    /\ ch' = [ch EXCEPT !.paused = paused]
    /\ Respond("COMPLETE", r)
    /\ UNCHANGED task /\ TaskFrame

Answered(r) ==
    /\ TakesRequest("OTHER", r)
    /\ Respond("COMPLETE", r)
    /\ UNCHANGED <<ch, task>> /\ TaskFrame

ChannelMessage ==
    /\ \/ Takes("open", NULL) /\ Reports("open")
       \/ Takes("close", NULL) /\ Reports("closed")
    /\ UNCHANGED <<ch, task>> /\ TaskFrame

(* The dispatcher sends a response that was sent already.                  *)
Again(type, r) ==
    /\ TaskStep("again", r)
    /\ Respond(type, r)
    /\ task' = Idle
    /\ UNCHANGED ch /\ TaskFrame

-----------------------------------------------------------------------------
(* The steps of the stream call-back that the plug-ins share.              *)

StopAnswered_only_speaking ==
    /\ Called
    /\ ch.stop_response # NULL /\ ch.speak_request # NULL
    /\ Respond("COMPLETE", ch.stop_response)
    /\ media' = At("reset", NULL)
    /\ UNCHANGED <<ch, crashed>> /\ MediaFrame

StopAnswered ==
    /\ Called
    /\ ch.stop_response # NULL
    /\ Respond("COMPLETE", ch.stop_response)
    /\ media' = At("reset", NULL)
    /\ UNCHANGED <<ch, crashed>> /\ MediaFrame

StopReset ==
    /\ media.at = "reset"
    /\ ch' = [ch EXCEPT !.stop_response = NULL, !.speak_request = NULL,
                        !.paused = FALSE]
    /\ media' = Idle
    /\ UNCHANGED crashed /\ Silent /\ MediaFrame

FrameRead ==
    /\ Called
    /\ ch.stop_response = NULL
    /\ ch.speak_request # NULL
    /\ ~ch.paused
    /\ \E n \in 0..Len(ch.audio_buffer) :
          /\ mpf_buffer_frame_read(n)
          /\ media' = IF EventRead(n) THEN At("complete", NULL) ELSE Idle
    /\ UNCHANGED crashed /\ Silent /\ MediaFrame

(* SPEAK-COMPLETE about the SPEAK in the channel.                          *)
SpeakComplete ==
    /\ Complete(ch.speak_request)
    /\ ch' = [ch EXCEPT !.speak_request = NULL]
    /\ UNCHANGED crashed

OrCrash ==
    IF ch.speak_request = NULL THEN Use(FALSE) /\ Silent /\ UNCHANGED ch
                               ELSE SpeakComplete

OrNothing ==
    IF ch.speak_request = NULL THEN UNCHANGED <<ch, crashed>> /\ Silent
                               ELSE SpeakComplete

Requests == {"SPEAK", "STOP", "BARGE-IN-OCCURRED", "PAUSE", "RESUME", "OTHER"}

-----------------------------------------------------------------------------

(***************************************************************************)
(* The iFLYTEK synthesizer, plugins/xfyun-synth/src/xfyun_synth_engine.c:  *)
(* the task synthesizes the text itself, and writes the end of the audio   *)
(* whether or not that worked.                                             *)
(***************************************************************************)

(* Without a login there is no engine.                                     *)
XfyunSynthmrcp_plugin_create == EngineOpen(FALSE)

xfyun_synth_engine_open == EngineOpen(TRUE)

xfyun_synth_engine_close == EngineClose

xfyun_synth_engine_channel_create == ChannelOpen(Fields)

xfyun_synth_channel_close == ChannelClose(ch)

xfyun_synth_channel_request_process == \E method \in Requests : ChannelRequest(method)

-----------------------------------------------------------------------------

(* The audio of the text in one chunk, or an error that the caller does    *)
(* not look at.                                                            *)
xfyun_synth_text_to_speech(r) == mpf_buffer_audio_write(r) \/ UNCHANGED ch

(* The request is stored first.  A SPEAK without a body is answered here   *)
(* and by the dispatcher.                                                  *)
xfyun_synth_channel_speak(r) ==
    \/ /\ TakesRequest("SPEAK", r)
       /\ \/ Respond("COMPLETE", r) /\ UNCHANGED <<ch, task>>     \* no codec
          \/ /\ ch' = [ch EXCEPT !.speak_request = NULL]          \* no body
             /\ Respond("COMPLETE", r)
             /\ task' = At("again", r)
          \/ /\ ch' = [ch EXCEPT !.speak_request = r]
             /\ task' = At("respond", r)
             /\ Silent
       /\ TaskFrame
    \/ Again("COMPLETE", r)
    \/ /\ TaskStep("respond", r)
       /\ Respond("INPROGRESS", r)
       /\ task' = At("speak", r)
       /\ UNCHANGED ch /\ TaskFrame
    \/ /\ TaskStep("speak", r)
       /\ xfyun_synth_text_to_speech(r)
       /\ task' = At("event", r)
       /\ Silent /\ TaskFrame
    \/ /\ TaskStep("event", r)
       /\ mpf_buffer_event_write(r)
       /\ task' = Idle
       /\ Silent /\ TaskFrame

xfyun_synth_channel_stop(r) == StopStored(r)

xfyun_synth_channel_pause(r) == Paused("PAUSE", TRUE, r)

xfyun_synth_channel_resume(r) == Paused("RESUME", FALSE, r)

(* SET-PARAMS, GET-PARAMS and what is not handled are answered at once.    *)
xfyun_synth_channel_request_dispatch(r) ==
    \/ xfyun_synth_channel_speak(r)
    \/ xfyun_synth_channel_stop(r)
    \/ xfyun_synth_channel_pause(r)
    \/ xfyun_synth_channel_resume(r)
    \/ Answered(r)

xfyun_synth_msg_process ==
    \/ ChannelMessage
    \/ \E r \in Ids : xfyun_synth_channel_request_dispatch(r)

-----------------------------------------------------------------------------

xfyun_synth_speak_complete_raise == OrNothing

xfyun_synth_stream_read ==
    \/ StopAnswered
    \/ StopReset
    \/ FrameRead
    \/ /\ media.at = "complete"
       /\ xfyun_synth_speak_complete_raise
       /\ media' = Idle
       /\ MediaFrame

XfyunSynthServer ==
    \/ XfyunSynthmrcp_plugin_create
    \/ xfyun_synth_engine_open
    \/ xfyun_synth_engine_channel_create
    \/ xfyun_synth_channel_request_process
    \/ xfyun_synth_channel_close
    \/ xfyun_synth_engine_close

XfyunSynthTask == xfyun_synth_msg_process

XfyunSynthMedia == xfyun_synth_stream_read

-----------------------------------------------------------------------------

(***************************************************************************)
(* The Alibaba synthesizer, plugins/nls-synth/src/nls_synth_engine.cpp and *)
(* nls_tts.cpp: the task waits for the whole synthesis, while the SDK's    *)
(* thread writes the audio to the buffer.                                  *)
(***************************************************************************)

(* NlsTTS::GlobalInit fails on a bad configuration file: no response is    *)
(* sent then.                                                              *)
nls_synth_engine_open == \E ok \in GlobalInit : EngineOpen(ok)

nls_synth_engine_close == EngineClose

nls_synth_engine_channel_create == ChannelOpen(Fields)

nls_synth_channel_close == ChannelClose(ch)

nls_synth_channel_request_process == \E method \in Requests : ChannelRequest(method)

-----------------------------------------------------------------------------

nls_synth_notify_completed == OrCrash

(* NlsTTSSession::OnBinaryDataReceived: the audio in one chunk.            *)
OnAudioDataReceived(r) == mpf_buffer_audio_write(r)

(* NlsTTSSession::Text2Audio: how the synthesis ends.                      *)
Text2Audio == {TRUE, FALSE}

(* After a failure the SPEAK is completed, and the dispatcher sends the    *)
(* IN-PROGRESS response once more.                                         *)
nls_synth_channel_speak(r) ==
    \/ /\ TakesRequest("SPEAK", r)
       /\ \/ Respond("COMPLETE", r) /\ UNCHANGED task      \* no codec or no text
          \/ Respond("INPROGRESS", r) /\ task' = At("store", r)
       /\ UNCHANGED ch /\ TaskFrame
    \/ /\ TaskStep("store", r)
       /\ ch' = [ch EXCEPT !.speak_request = r]
       /\ task' = At("speak", r)
       /\ Silent /\ TaskFrame
    \/ /\ TaskStep("speak", r)
       /\ OnAudioDataReceived(r) \/ UNCHANGED ch
       /\ \E ok \in Text2Audio : task' = At(IF ok THEN "event" ELSE "failed", r)
       /\ Silent /\ TaskFrame
    \/ /\ TaskStep("event", r)
       /\ mpf_buffer_event_write(r)
       /\ task' = Idle
       /\ Silent /\ TaskFrame
    \/ /\ TaskStep("failed", r)
       /\ nls_synth_notify_completed
       /\ task' = At("again", r)
       /\ UNCHANGED <<hostVars, media, sdk>>
    \/ Again("INPROGRESS", r)

nls_synth_channel_stop(r) == StopStored(r)

nls_synth_channel_pause(r) == Paused("PAUSE", TRUE, r)

nls_synth_channel_resume(r) == Paused("RESUME", FALSE, r)

(* SET-PARAMS, GET-PARAMS and what is not handled are answered at once.    *)
nls_synth_channel_request_dispatch(r) ==
    \/ nls_synth_channel_speak(r)
    \/ nls_synth_channel_stop(r)
    \/ nls_synth_channel_pause(r)
    \/ nls_synth_channel_resume(r)
    \/ Answered(r)

nls_synth_msg_process ==
    \/ ChannelMessage
    \/ \E r \in Ids : nls_synth_channel_request_dispatch(r)

-----------------------------------------------------------------------------

nls_synth_stream_read ==
    \/ StopAnswered
    \/ StopReset
    \/ FrameRead
    \/ /\ media.at = "complete"
       /\ nls_synth_notify_completed
       /\ media' = Idle
       /\ MediaFrame

NlsSynthServer ==
    \/ nls_synth_engine_open
    \/ nls_synth_engine_channel_create
    \/ nls_synth_channel_request_process
    \/ nls_synth_channel_close
    \/ nls_synth_engine_close

NlsSynthTask == nls_synth_msg_process

NlsSynthMedia == nls_synth_stream_read

-----------------------------------------------------------------------------

(***************************************************************************)
(* The second Alibaba synthesizer, plugins/nls2-synth/src/                 *)
(* nls2_synth_engine.cpp and nls2_tts.cpp: the synthesis goes on in the    *)
(* SDK after the handler, and its call-backs write to the buffer of the    *)
(* channel.  sdk is the sequence of the SPEAKs being synthesized; STOP     *)
(* does not end them.                                                      *)
(***************************************************************************)

(* The task is started before GlobalInit may fail.                         *)
nls2_synth_engine_open == \E ok \in GlobalInit : EngineOpen(ok)

nls2_synth_engine_close == EngineClose

nls2_synth_engine_channel_create == ChannelOpen(Fields)

nls2_synth_channel_close == ChannelClose(ch)

nls2_synth_channel_request_process == \E method \in Requests : ChannelRequest(method)

(* nls2_synth_channel_destroy, when the session of the server is freed:    *)
(* the synthesis opened last is closed, and its call-backs end.            *)
nls2_synth_channel_destroy ==
    /\ life = "closed"
    /\ ~attached
    /\ ch.tts_session
    /\ ch' = [ch EXCEPT !.tts_session = FALSE]
    /\ sdk' = IF sdk = <<>> THEN sdk ELSE SubSeq(sdk, 1, Len(sdk) - 1)
    /\ UNCHANGED <<hostVars, engine_in, task, media, crashed>> /\ Silent

-----------------------------------------------------------------------------

nls2_synth_notify_completed == OrCrash

(* Nls2TTSSession::Start                                                   *)
Nls2SynthStart == {TRUE, FALSE}

nls2_synth_channel_speak(r) ==
    \/ /\ TakesRequest("SPEAK", r)
       /\ \/ Respond("COMPLETE", r) /\ UNCHANGED <<ch, task>>     \* no codec
          \/ /\ ch' = [ch EXCEPT !.speak_request = NULL]          \* no body
             /\ Respond("COMPLETE", r)
             /\ task' = At("twice", r)
          \/ /\ ch' = [ch EXCEPT !.speak_request = r]
             /\ task' = At("respond", r)
             /\ Silent
       /\ TaskFrame
    \/ /\ TaskStep("twice", r)
       /\ Respond("COMPLETE", r)
       /\ task' = Idle
       /\ UNCHANGED ch /\ TaskFrame
    \/ /\ TaskStep("respond", r)
       /\ Respond("INPROGRESS", r)
       /\ task' = At("start", r)
       /\ UNCHANGED ch /\ TaskFrame
    \/ /\ TaskStep("start", r)
       /\ \E ok \in Nls2SynthStart :
             /\ ch' = [ch EXCEPT !.tts_session = ok]
             /\ sdk' = IF ok THEN Append(sdk, r) ELSE sdk
             /\ task' = IF ok THEN Idle ELSE At("failed", r)
       /\ UNCHANGED <<hostVars, media, crashed>> /\ Silent
    \/ /\ TaskStep("failed", r)
       /\ nls2_synth_notify_completed
       /\ task' = At("again", r)
       /\ UNCHANGED <<hostVars, media, sdk>>
    \/ Again("INPROGRESS", r)

nls2_synth_channel_stop(r) == StopStored(r)

nls2_synth_channel_pause(r) == Paused("PAUSE", TRUE, r)

nls2_synth_channel_resume(r) == Paused("RESUME", FALSE, r)

(* SET-PARAMS, GET-PARAMS and what is not handled are answered at once.    *)
nls2_synth_channel_request_dispatch(r) ==
    \/ nls2_synth_channel_speak(r)
    \/ nls2_synth_channel_stop(r)
    \/ nls2_synth_channel_pause(r)
    \/ nls2_synth_channel_resume(r)
    \/ Answered(r)

nls2_synth_msg_process ==
    \/ ChannelMessage
    \/ \E r \in Ids : nls2_synth_channel_request_dispatch(r)

-----------------------------------------------------------------------------
(* The SDK's thread: a call-back looks only at whether some SPEAK is in    *)
(* the channel, not at whose synthesis it is.                              *)

Without(k) == SubSeq(sdk, 1, k - 1) \o SubSeq(sdk, k + 1, Len(sdk))

nls2_synth_on_nls2tts_notify ==
    /\ \E k \in 1..Len(sdk) :
          \/ /\ ch.speak_request # NULL                           \* Binary
             /\ Len(ch.audio_buffer) < MaxChunks
             /\ mpf_buffer_audio_write(sdk[k])
             /\ UNCHANGED <<sdk, crashed>> /\ Silent
          \/ /\ IF ch.speak_request # NULL                        \* Completed
                THEN mpf_buffer_event_write(sdk[k])
                ELSE UNCHANGED ch
             /\ sdk' = Without(k)
             /\ UNCHANGED crashed /\ Silent
          \/ /\ IF ch.speak_request # NULL                        \* TaskFailed
                THEN nls2_synth_notify_completed
                ELSE UNCHANGED <<ch, crashed>> /\ Silent
             /\ sdk' = Without(k)
    /\ UNCHANGED <<hostVars, engine_in, task, media>>

nls2_synth_speak_complete_raise == OrNothing

nls2_synth_stream_read ==
    \/ StopAnswered
    \/ StopReset
    \/ FrameRead
    \/ /\ media.at = "complete"
       /\ nls2_synth_speak_complete_raise
       /\ media' = Idle
       /\ MediaFrame

Nls2SynthServer ==
    \/ nls2_synth_engine_open
    \/ nls2_synth_engine_channel_create
    \/ nls2_synth_channel_request_process
    \/ nls2_synth_channel_close
    \/ nls2_synth_channel_destroy
    \/ nls2_synth_engine_close

Nls2SynthTask == nls2_synth_msg_process

Nls2SynthMedia == nls2_synth_stream_read

Nls2SynthSdk == nls2_synth_on_nls2tts_notify

-----------------------------------------------------------------------------
Synths == {"xfyun-synth", "nls-synth", "nls2-synth"}

Plugins == Synths \cup {"demo-recog", "demo-verifier", "mrcp-recorder",
                        "xfyun-recog", "nls-recog", "nls2-recog"}

-----------------------------------------------------------------------------

Server ==
    \/ plugin = "demo-recog" /\ DemoRecogServer
    \/ plugin = "demo-verifier" /\ DemoVerifierServer
    \/ plugin = "mrcp-recorder" /\ RecorderServer
    \/ plugin = "xfyun-recog" /\ XfyunRecogServer
    \/ plugin = "nls-recog" /\ NlsRecogServer
    \/ plugin = "nls2-recog" /\ Nls2RecogServer
    \/ plugin = "xfyun-synth" /\ XfyunSynthServer
    \/ plugin = "nls-synth" /\ NlsSynthServer
    \/ plugin = "nls2-synth" /\ Nls2SynthServer

Task ==
    \/ plugin = "demo-recog" /\ DemoRecogTask
    \/ plugin = "demo-verifier" /\ DemoVerifierTask
    \/ plugin = "mrcp-recorder" /\ RecorderTask
    \/ plugin = "xfyun-recog" /\ XfyunRecogTask
    \/ plugin = "nls-recog" /\ NlsRecogTask
    \/ plugin = "nls2-recog" /\ Nls2RecogTask
    \/ plugin = "xfyun-synth" /\ XfyunSynthTask
    \/ plugin = "nls-synth" /\ NlsSynthTask
    \/ plugin = "nls2-synth" /\ Nls2SynthTask

Media ==
    \/ plugin = "demo-recog" /\ DemoRecogMedia
    \/ plugin = "demo-verifier" /\ DemoVerifierMedia
    \/ plugin = "mrcp-recorder" /\ RecorderMedia
    \/ plugin = "xfyun-recog" /\ XfyunRecogMedia
    \/ plugin = "nls-recog" /\ NlsRecogMedia
    \/ plugin = "nls2-recog" /\ Nls2RecogMedia
    \/ plugin = "xfyun-synth" /\ XfyunSynthMedia
    \/ plugin = "nls-synth" /\ NlsSynthMedia
    \/ plugin = "nls2-synth" /\ Nls2SynthMedia

Sdk ==
    \/ plugin = "nls-recog" /\ NlsRecogSdk
    \/ plugin = "nls2-recog" /\ Nls2RecogSdk
    \/ plugin = "nls2-synth" /\ Nls2SynthSdk

TakeServer == ~crashed /\ ServerReceives
TakeTask == ~crashed /\ Task
TakeMedia == ~crashed /\ Media
CallbackEnds == ~crashed /\ plugin = "nls2-recog" /\ OnNotifyRaises

Next ==
    \/ TakeServer
    \/ TakeTask
    \/ TakeMedia
    \/ ~crashed /\ Server
    \/ ~crashed /\ Sdk
    \/ ~crashed /\ MediaSubtracts

InitOf(plugins) == plugin \in plugins /\ HostInit

(* The threads of the server task, of the engine and of the media engine   *)
(* are scheduled, and a call-back that has begun ends; a client need not   *)
(* send requests, the vendor's SDK need not call back.                     *)
Fairness ==
    /\ WF_vars(TakeServer)
    /\ WF_vars(TakeTask)
    /\ WF_vars(TakeMedia)
    /\ WF_vars(CallbackEnds)

-----------------------------------------------------------------------------

(* Rule 3 of every plug-in: "One and only one response MUST be sent back   *)
(* to the received request", here that no request has two.                 *)
OneResponse == \A i \in Ids : responses[i] <= 1

(* Some plug-ins respond where they find an error and return FALSE to      *)
(* their dispatcher, which responds again.                                 *)
RespondAgain == Synths \cup {"xfyun-recog", "nls-recog"}

(* A request is completed by at most one complete event, whichever of the  *)
(* task, the media thread and the SDK's thread sends it; and the other     *)
(* plug-ins respond to each request at most once.                          *)
AtMostOnce ==
    /\ \A i \in Ids : completes[i] <= 1
    /\ plugin \notin RespondAgain => OneResponse

(* Some plug-ins store the request before they respond to it, and another  *)
(* thread may end it in between.                                           *)
StoreFirst == {"nls2-recog", "xfyun-synth", "nls2-synth"}

(* No complete event leaves before the response to its request, in the     *)
(* plug-ins that respond first: the state machine of the resource drops an *)
(* event about a request that is not in progress.                          *)
EventAfterResponse ==
    plugin \notin StoreFirst =>
        \A i \in Ids : completes[i] > 0 => responses[i] > 0

(* Nothing happens between the steps of one call of the media thread.      *)
Undivided == media # Idle => engine_in = <<>> /\ task = Idle /\ sdk = <<>>

(* The fields of a channel are shared without a lock; what may go wrong is *)
(* only that: when the task and the SDK do nothing while the stream        *)
(* call-back runs, no thread uses a session, a file or a request that is   *)
(* gone.                                                                   *)
UndividedIsSafe == []Undivided => []~crashed

(* Every request gets its response, if no request is under way to the      *)
(* engine while the media thread resets the channel after a STOP (it would *)
(* be reset as well) and no thread crashes.                                *)
AnsweredUndisturbed ==
    [](~crashed /\ (media.at = "reset" => task = Idle /\ engine_in = <<>>)) =>
        \A i \in Ids : (waiting = i) ~> (waiting # i)

-----------------------------------------------------------------------------

Init == InitOf(Plugins)

Spec == Init /\ [][Next]_vars /\ Fairness

(* What the host sees of a request: at most one complete event, after its  *)
(* response, and one response, save for the plug-ins that AtMostOnce and   *)
(* EventAfterResponse name (rule 3 at the head of every plug-in).          *)
ResponseThenEvent == AtMostOnce /\ EventAfterResponse

=============================================================================
