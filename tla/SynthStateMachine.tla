-------------------------- MODULE SynthStateMachine --------------------------
(***************************************************************************)
(* The synthesizer state machine of an MRCP server channel                 *)
(* (libs/mrcp-engine/src/mrcp_synth_state_machine.c), between the session  *)
(* that dispatches client requests to it (ServerControl) and an engine.    *)
(* SynthChannel composes it with the engine contract, DemoSynthChannel     *)
(* with the threads of the demo engine.                                    *)
(***************************************************************************)
EXTENDS ServerControl

CONSTANT
    QueueSpeaks  \* may the client send SPEAK while an earlier one is unfinished?

ASSUME SynthAssumption ==
    /\ Methods \subseteq {"SET-PARAMS", "GET-PARAMS", "SPEAK", "STOP", "PAUSE",
                          "RESUME", "BARGE-IN-OCCURRED", "CONTROL",
                          "DEFINE-LEXICON"}
    /\ QueueSpeaks \in BOOLEAN

VARIABLES
    active,          \* base.active
    state,           \* synthesizer state
    is_pending,
    active_request,
    speaker,         \* in-progress SPEAK request
    queue,           \* pending SPEAK requests
    crashed,         \* a NULL speaker or active_request was dereferenced
    ended            \* ended[i]: times the client was told SPEAK i is over

synthVars == <<active, state, is_pending, active_request, speaker, queue,
               crashed>>

serverVars == <<controlVars, synthVars, ended>>

-----------------------------------------------------------------------------
(* The helpers of the state machine.                                       *)

synth_request_dispatch(r) ==
    /\ active_request' = r
    /\ engine_in' = Append(engine_in, r)

(* synth_response_dispatch: a response before deactivation goes to the     *)
(* client; after it, it is taken for the answer to the internal STOP.      *)
synth_response_dispatch(id, rest) ==
    /\ active_request' = NULL
    /\ IF active
         THEN /\ DispatchResponse(id, rest)
              /\ UNCHANGED <<terminationVars, engine_in>>
         ELSE /\ state_machine_on_deactivate
              /\ todo' = rest
              /\ UNCHANGED requestVars

(* synth_state_change: going idle forgets the speaker.                     *)
synth_state_change_keeps_speaker(s) == state' = s /\ UNCHANGED speaker

synth_state_change(s) ==
    /\ state' = s
    /\ speaker' = IF s = "IDLE" THEN NULL ELSE speaker

(* synth_pending_requests_remove: what stays in the queue, and which ids   *)
(* are appended to the response's active-request-id-list.                  *)
Remaining_forgets_removal(r) == queue

Remaining(r) == Kept(queue, r)

RemovedIds(r) == {i \in Ids : \E k \in DOMAIN queue :
                                 queue[k].id = i /\ Selects(r, i)}

(* The client learns that the SPEAK requests in S are over.                *)
End(S) == ended' = [i \in Ids |-> IF i \in S THEN ended[i] + 1 ELSE ended[i]]

-----------------------------------------------------------------------------
(* Requests.  Each is the call at the top of the server task's stack.      *)

(* The session dispatches request r, of method m.                          *)
Dispatching(r, m) ==
    /\ todo # <<>>
    /\ Head(todo) = DispatchCall(r)
    /\ r.method = m

Respond(r) == synth_response_dispatch(r.id, Tail(todo))

ToEngine(r) ==
    /\ synth_request_dispatch(r)
    /\ todo' = Tail(todo)
    /\ UNCHANGED <<requestVars, terminationVars>>

synth_request_params(r) ==
    /\ Dispatching(r, "SET-PARAMS") \/ Dispatching(r, "GET-PARAMS")
    /\ ToEngine(r)
    /\ UNCHANGED <<state, is_pending, speaker, queue, ended>>

synth_request_speak(r) ==
    /\ Dispatching(r, "SPEAK")
    /\ IF speaker # NULL
         THEN /\ queue' = Append(queue, r)
              /\ Respond(r)
         ELSE /\ ToEngine(r)
              /\ UNCHANGED queue
    /\ UNCHANGED <<state, is_pending, speaker, ended>>

synth_request_stop(r) ==
    /\ Dispatching(r, "STOP")
    /\ IF speaker # NULL /\ Selects(r, speaker.id)
         THEN /\ ToEngine(r)
              /\ UNCHANGED <<queue, ended>>
         ELSE /\ queue' = Remaining(r)
              /\ Respond(r)
              /\ IF active THEN End(RemovedIds(r)) ELSE UNCHANGED ended
    /\ UNCHANGED <<state, is_pending, speaker>>

(* PAUSE is sent on only while speaking, RESUME only while paused.         *)
synth_request_pause_resume(r) ==
    /\ Dispatching(r, "PAUSE") \/ Dispatching(r, "RESUME")
    /\ IF speaker # NULL
          /\ state = (IF r.method = "PAUSE" THEN "SPEAKING" ELSE "PAUSED")
         THEN ToEngine(r)
         ELSE Respond(r)
    /\ UNCHANGED <<state, is_pending, speaker, queue, ended>>

synth_request_barge_in_occurred(r) ==
    /\ Dispatching(r, "BARGE-IN-OCCURRED")
    /\ IF speaker # NULL /\ r.kill THEN ToEngine(r) ELSE Respond(r)
    /\ UNCHANGED <<state, is_pending, speaker, queue, ended>>

synth_request_control(r) ==
    /\ Dispatching(r, "CONTROL")
    /\ IF state = "SPEAKING" THEN ToEngine(r) ELSE Respond(r)
    /\ UNCHANGED <<state, is_pending, speaker, queue, ended>>

synth_request_define_lexicon(r) ==
    /\ Dispatching(r, "DEFINE-LEXICON")
    /\ IF state = "IDLE" THEN ToEngine(r) ELSE Respond(r)
    /\ UNCHANGED <<state, is_pending, speaker, queue, ended>>

(* mrcp_server_session_deactivate with synth_state_deactivate: stop the    *)
(* in-progress SPEAK with an internal STOP, or terminate at once.          *)
synth_state_deactivate ==
    /\ Dispatching(TERMINATE, "TERMINATE")
    /\ active' = FALSE
    /\ IF speaker # NULL
         THEN synth_request_dispatch(InternalStop(speaker))
         ELSE UNCHANGED active_request
    /\ mrcp_server_session_deactivate(speaker # NULL)
    /\ todo' = Tail(todo)
    /\ UNCHANGED <<requestVars, state, is_pending, speaker, queue, ended>>

(* The end of synth_response_stop: the pending SPEAK it popped goes to the *)
(* engine, after whatever the session dispatched in the meantime.          *)
ProcessPending ==
    /\ todo # <<>>
    /\ Head(todo).call = "pending"
    /\ is_pending' = TRUE
    /\ synth_request_dispatch(Head(todo).req)
    /\ todo' = Tail(todo)
    /\ UNCHANGED <<requestVars, terminationVars, active, state, speaker, queue,
                   ended>>

-----------------------------------------------------------------------------
(* Responses.  The server task takes the next message of the engine.       *)

Awaited_any_id(m) == active_request # NULL

(* synth_response_state_update: only the response to active_request counts *)
Awaited(m) == active_request # NULL /\ active_request.id = m.id

Responding(m, method) ==
    /\ Receiving(m)
    /\ m.type = "response"
    /\ m.method = method
    /\ Awaited(m)

synth_response_unexpected(m) ==
    /\ Receiving(m)
    /\ m.type = "response"
    /\ ~Awaited(m)
    /\ UNCHANGED <<requestVars, terminationVars, todo, engine_in, synthVars,
                   ended>>

(* SET-PARAMS, GET-PARAMS and DEFINE-LEXICON responses just pass through.  *)
synth_response_plain(m) ==
    /\ \/ Responding(m, "SET-PARAMS")
       \/ Responding(m, "GET-PARAMS")
       \/ Responding(m, "DEFINE-LEXICON")
    /\ synth_response_dispatch(m.id, <<>>)
    /\ UNCHANGED <<active, state, is_pending, speaker, queue, crashed, ended>>

synth_response_speak(m) ==
    /\ Responding(m, "SPEAK")
    /\ IF m.state = "INPROGRESS"
         THEN /\ speaker' = active_request
              /\ state' = "SPEAKING"
         ELSE UNCHANGED <<speaker, state>>
    /\ IF is_pending
         THEN /\ is_pending' = FALSE
              /\ UNCHANGED <<requestVars, terminationVars, todo, engine_in,
                             active_request, ended>>
         ELSE /\ synth_response_dispatch(m.id, <<>>)
              /\ IF active /\ m.state = "COMPLETE" THEN End({m.id})
                                                   ELSE UNCHANGED ended
              /\ UNCHANGED is_pending
    /\ UNCHANGED <<active, queue, crashed>>

(* The handlers below read speaker->start_line.request_id.                 *)
NullSpeaker ==
    /\ speaker = NULL
    /\ crashed' = TRUE
    /\ UNCHANGED <<requestVars, terminationVars, todo, engine_in, active, state,
                   is_pending, active_request, speaker, queue, ended>>

synth_response_stop(m) ==
    /\ Responding(m, "STOP")
    /\ \/ NullSpeaker
       \/ /\ speaker # NULL
          /\ IF active THEN End({speaker.id} \cup RemovedIds(active_request))
                       ELSE UNCHANGED ended
          /\ synth_state_change("IDLE")
          /\ LET remaining == Remaining(active_request)
             IN  IF remaining = <<>>
                   THEN /\ queue' = <<>>
                        /\ synth_response_dispatch(m.id, <<>>)
                   ELSE /\ queue' = Tail(remaining)
                        /\ synth_response_dispatch(m.id,
                               <<PendingCall(Head(remaining))>>)
          /\ UNCHANGED <<active, is_pending, crashed>>

(* synth_response_pause and synth_response_resume                          *)
synth_response_pause_resume(m) ==
    /\ Responding(m, "PAUSE") \/ Responding(m, "RESUME")
    /\ \/ m.ok /\ NullSpeaker
       \/ /\ m.ok /\ speaker # NULL
          /\ synth_state_change(IF m.method = "PAUSE" THEN "PAUSED"
                                                     ELSE "SPEAKING")
          /\ synth_response_dispatch(m.id, <<>>)
          /\ UNCHANGED <<active, is_pending, queue, crashed, ended>>
       \/ /\ ~m.ok
          /\ synth_response_dispatch(m.id, <<>>)
          /\ UNCHANGED <<active, state, speaker, is_pending, queue, crashed,
                         ended>>

synth_response_barge_in_occurred(m) ==
    /\ Responding(m, "BARGE-IN-OCCURRED")
    /\ \/ NullSpeaker
       \/ /\ speaker # NULL
          /\ IF active THEN End({speaker.id} \cup RemovedIds(active_request))
                       ELSE UNCHANGED ended
          /\ queue' = Remaining(active_request)
          /\ synth_state_change("IDLE")
          /\ synth_response_dispatch(m.id, <<>>)
          /\ UNCHANGED <<active, is_pending, crashed>>

synth_response_control(m) ==
    /\ Responding(m, "CONTROL")
    /\ \/ NullSpeaker
       \/ /\ speaker # NULL
          /\ synth_response_dispatch(m.id, <<>>)
          /\ UNCHANGED <<active, state, is_pending, speaker, queue, crashed,
                         ended>>

-----------------------------------------------------------------------------
(* Events.                                                                 *)

ReceivingEvent(m, event) ==
    /\ Receiving(m)
    /\ m.type = "event"
    /\ m.method = event

(* synth_event_speech_marker passes the event on or drops it: neither      *)
(* changes the state machine.                                              *)
synth_event_speech_marker(m) ==
    /\ ReceivingEvent(m, "SPEECH-MARKER")
    /\ UNCHANGED <<requestVars, terminationVars, todo, engine_in, synthVars,
                   ended>>

IgnoresComplete_crossing_stop(m) == speaker = NULL \/ speaker.id # m.id

(* Is a SPEAK-COMPLETE for another request than the in-progress one, or    *)
(* one that crossed a STOP or BARGE-IN-OCCURRED?                           *)
IgnoresComplete(m) ==
    \/ speaker = NULL
    \/ speaker.id # m.id
    \/ active_request.method \in {"STOP", "BARGE-IN-OCCURRED"}

synth_event_speak_complete(m) ==
    /\ ReceivingEvent(m, "SPEAK-COMPLETE")
    /\ IF IgnoresComplete(m)
         THEN UNCHANGED <<engine_in, synthVars, ended>>
         ELSE /\ synth_state_change("IDLE")
              /\ IF active THEN End({m.id}) ELSE UNCHANGED ended
              /\ IF queue = <<>>
                   THEN UNCHANGED <<queue, is_pending, active_request, engine_in>>
                   ELSE /\ queue' = Tail(queue)
                        /\ is_pending' = TRUE
                        /\ synth_request_dispatch(Head(queue))
              /\ UNCHANGED <<active, crashed>>
    /\ UNCHANGED <<requestVars, terminationVars, todo>>

-----------------------------------------------------------------------------
(* The steps of the client and of the server task.                         *)

SynthInit ==
    /\ ControlInit
    /\ active = TRUE
    /\ state = "IDLE"
    /\ is_pending = FALSE
    /\ active_request = NULL
    /\ speaker = NULL
    /\ queue = <<>>
    /\ crashed = FALSE
    /\ ended = [i \in Ids |-> 0]

(* The requests of the client.  One that does not queue SPEAK requests     *)
(* waits until its last SPEAK is over; a STOP names no request or an       *)
(* earlier one.                                                            *)
ClientRequest ==
    /\ ~crashed
    /\ \E method \in Methods, sel \in {{}} \cup {{i} : i \in DOMAIN sent},
          kill \in BOOLEAN :
         /\ sel # {} => method = "STOP"
         /\ kill => method = "BARGE-IN-OCCURRED"
         /\ method = "SPEAK" /\ ~QueueSpeaks =>
               \A i \in DOMAIN sent : sent[i].method = "SPEAK" => ended[i] # 0
         /\ mrcp_server_on_channel_message(
                Message(Len(sent) + 1, method, sel, kill))
    /\ UNCHANGED <<synthVars, ended>>

ClientTerminate ==
    /\ ~crashed
    /\ SessionTerminateRequest
    /\ UNCHANGED <<synthVars, ended>>

(* The call at the top of the server task's stack.                         *)
ServerCall ==
    /\ ~crashed
    /\ todo # <<>>
    /\ \/ /\ LET r == Head(todo).req
             IN  \/ synth_request_params(r)
                 \/ synth_request_speak(r)
                 \/ synth_request_stop(r)
                 \/ synth_request_pause_resume(r)
                 \/ synth_request_barge_in_occurred(r)
                 \/ synth_request_control(r)
                 \/ synth_request_define_lexicon(r)
          /\ UNCHANGED active
       \/ synth_state_deactivate
       \/ ProcessPending
    /\ UNCHANGED <<sent, engine_out, crashed>>

(* The next message of the server task's queue.                            *)
ServerMessage ==
    /\ ~crashed
    /\ engine_out # <<>>
    /\ LET m == Head(engine_out)
       IN  \/ synth_response_unexpected(m)
           \/ synth_response_plain(m)
           \/ synth_response_speak(m)
           \/ synth_response_stop(m)
           \/ synth_response_pause_resume(m)
           \/ synth_response_barge_in_occurred(m)
           \/ synth_response_control(m)
           \/ synth_event_speech_marker(m)
           \/ synth_event_speak_complete(m)
           \/ /\ mrcp_server_on_channel_released(m)
              /\ UNCHANGED <<synthVars, ended>>
    /\ UNCHANGED sent

ServerStep == ServerCall \/ ServerMessage

MediaStep == ~crashed /\ MediaSubtract /\ UNCHANGED <<synthVars, ended>>

-----------------------------------------------------------------------------
(* Properties.                                                             *)

(* A speaker is set exactly while the synthesizer is speaking or paused.   *)
SpeakerMatchesState == (speaker = NULL) <=> (state = "IDLE")

(* A SPEAK is reported over at most once: by SPEAK-COMPLETE, by a failure  *)
(* response, or in the list of a STOP or BARGE-IN-OCCURRED response;       *)
(* afterwards it is neither the speaker nor queued.                        *)
EndedOnce ==
    \A i \in Ids :
        /\ ended[i] <= 1
        /\ ended[i] = 1 => /\ speaker.id # i
                           /\ \A k \in DOMAIN queue : queue[k].id # i

(* Pending SPEAK requests wait in the order they were sent.  The speaker   *)
(* need not be ahead of them: a SPEAK that arrives while the engine has    *)
(* not yet responded to the one taken from the queue finds no speaker, so  *)
(* synth_request_speak sends it on, past those that still wait.            *)
PendingInOrder ==
    \A j, k \in DOMAIN queue : j < k => queue[j].id < queue[k].id

(* A SPEAK is reported over once, by its response, SPEAK-COMPLETE or the   *)
(* list of a STOP or BARGE-IN-OCCURRED response, and those that wait keep  *)
(* the order they were sent in (synth_pending_requests_remove).            *)
SpeaksInOrder == EndedOnce /\ PendingInOrder

(* A response is one to the session's active request, and no request gets  *)
(* a second one (synth_response_state_update and the server session's      *)
(* state_machine_on_message_dispatch).                                     *)
AnswersActiveOnce == []AnsweredAtMostOnce /\ ResponseForActive

(* A SPEAK-COMPLETE that crossed a PAUSE, RESUME or CONTROL has reset the  *)
(* speaker whose id the handler of its response reads: the server is gone. *)
(* The responses to STOP and BARGE-IN-OCCURRED are not among them.         *)
SpeakerMissed == crashed /\ active_request.method \in {"PAUSE", "RESUME", "CONTROL"}

(* No SPEAK is queued behind another, and no completion is crossed in that *)
(* way.                                                                    *)
Undisturbed == [](queue = <<>> /\ ~SpeakerMissed)

(* Then every request is answered.                                         *)
AnsweredUndisturbed == Undisturbed => RequestsAnswered

(* Then a session that was asked to terminate does.                        *)
TerminatesUndisturbed == Undisturbed => TerminateCompletes

=============================================================================
