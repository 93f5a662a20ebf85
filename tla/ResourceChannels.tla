-------------------------- MODULE ResourceChannels --------------------------
(***************************************************************************)
(* A server channel of one of the resources whose state machines keep a    *)
(* single request in progress: the recognizer, the recorder or the         *)
(* verifier.  resource says which; it is chosen once.  The three share the *)
(* session that feeds them (ServerControl) and the variables of            *)
(* RequestFlow.  Only the recognizer has a queue of pending requests and   *)
(* sets is_pending.                                                        *)
(***************************************************************************)
EXTENDS InProgressMachines, FiniteSets

CONSTANTS
    RecogMethods,
    RecorderMethods,
    VerifierMethods,
    MaxRecogRequests,  \* bound: MaxRequests of a recognizer's client
    QueueRecognizes    \* may the client send RECOGNIZE while one is unfinished?

ASSUME ResourceAssumption ==
    /\ Methods = RecogMethods \cup RecorderMethods \cup VerifierMethods
    /\ RecogMethods \subseteq {"SET-PARAMS", "GET-PARAMS", "DEFINE-GRAMMAR",
                               "RECOGNIZE", "INTERPRET", "GET-RESULT",
                               "START-INPUT-TIMERS", "STOP"}
    /\ RecorderMethods \subseteq {"SET-PARAMS", "GET-PARAMS", "RECORD", "STOP",
                                  "START-INPUT-TIMERS"}
    /\ VerifierMethods \subseteq {"SET-PARAMS", "GET-PARAMS", "START-SESSION",
                                  "END-SESSION", "QUERY-VOICEPRINT",
                                  "DELETE-VOICEPRINT", "VERIFY",
                                  "VERIFY-FROM-BUFFER", "VERIFY-ROLLBACK",
                                  "STOP", "CLEAR-BUFFER", "START-INPUT-TIMERS",
                                  "GET-INTERMEDIATE-RESULT"}
    /\ QueueRecognizes \in BOOLEAN

resourceVars == <<controlVars, machineVars, working, recogVars, resource>>

(***************************************************************************)
(* The recorder state machine of a server channel                          *)
(* (libs/mrcp-engine/src/mrcp_recorder_state_machine.c).  current is its   *)
(* record.                                                                 *)
(***************************************************************************)

recorder_request_params(r) ==
    /\ Dispatching(r, {"SET-PARAMS", "GET-PARAMS"})
    /\ ToEngine(r)
    /\ UNCHANGED <<state, current, ended>>

recorder_request_record(r) ==
    /\ Dispatching(r, {"RECORD"})
    /\ OnlyIf(state # "RECORDING", r)
    /\ UNCHANGED <<state, current, ended>>

recorder_request_stop(r) ==
    /\ Dispatching(r, {"STOP"})
    /\ OnlyIf(state = "RECORDING", r)
    /\ UNCHANGED <<state, current, ended>>

recorder_request_start_timers(r) ==
    /\ Dispatching(r, {"START-INPUT-TIMERS"})
    /\ OnlyIf(state = "RECORDING", r)
    /\ UNCHANGED <<state, current, ended>>

recorder_state_deactivate == state_deactivate("RECORDING")

recorder_response_passed(m) ==
    response_passed(m, {"SET-PARAMS", "GET-PARAMS", "START-INPUT-TIMERS"})

recorder_response_record(m) ==
    /\ Responding(m, {"RECORD"})
    /\ IF m.state = "INPROGRESS"
         THEN state' = "RECORDING" /\ current' = active_request
         ELSE UNCHANGED <<state, current>>
    /\ IF m.state = "COMPLETE" THEN Ending({m.id}) ELSE UNCHANGED ended
    /\ response_dispatch(m.id, <<>>)
    /\ UNCHANGED <<active, crashed>>

recorder_response_stop(m) == response_stopped(m, "IDLE", NULL)

recorder_event_start_of_input(m) == StartOfInput(m)

recorder_event_record_complete_keeps_state(m) ==
    event_completed(m, "RECORD-COMPLETE", "RECORDING", NULL)

recorder_event_record_complete(m) == event_completed(m, "RECORD-COMPLETE", "IDLE", NULL)

-----------------------------------------------------------------------------

recorder_request_state_update ==
    /\ todo # <<>>
    /\ \/ /\ LET r == Head(todo).req
             IN  \/ recorder_request_params(r)
                 \/ recorder_request_record(r)
                 \/ recorder_request_stop(r)
                 \/ recorder_request_start_timers(r)
          /\ UNCHANGED active
       \/ recorder_state_deactivate
    /\ UNCHANGED <<sent, engine_out, crashed>>

recorder_state_update ==
    /\ engine_out # <<>>
    /\ LET m == Head(engine_out)
       IN  \/ Unexpected(m)
           \/ recorder_response_passed(m)
           \/ recorder_response_record(m)
           \/ recorder_response_stop(m)
           \/ recorder_event_start_of_input(m)
           \/ recorder_event_record_complete(m)
           \/ mrcp_server_on_channel_released(m) /\ UNCHANGED machineVars
    /\ UNCHANGED sent

RecorderServer == (recorder_request_state_update \/ recorder_state_update)
          /\ UNCHANGED working

-----------------------------------------------------------------------------

(***************************************************************************)
(* The verifier state machine of a server channel                          *)
(* (libs/mrcp-engine/src/mrcp_verifier_state_machine.c).  current is its   *)
(* verify, which is set when the request is taken, whatever the response   *)
(* will be, and kept until the verification session ends.                  *)
(***************************************************************************)

Keeps == UNCHANGED <<state, current, ended>>

verifier_request_plain(r) ==
    /\ Dispatching(r, {"SET-PARAMS", "GET-PARAMS", "VERIFY-ROLLBACK", "CLEAR-BUFFER"})
    /\ ToEngine(r)
    /\ Keeps

verifier_request_start_session(r) ==
    /\ Dispatching(r, {"START-SESSION"})
    /\ OnlyIf(state # "VERIFYING", r)
    /\ Keeps

verifier_request_end_session(r) ==
    /\ Dispatching(r, {"END-SESSION"})
    /\ OnlyIf(state # "IDLE", r)
    /\ Keeps

(* verifier_request_query_voiceprint, verifier_request_delete_voiceprint   *)
verifier_request_voiceprint(r) ==
    /\ Dispatching(r, {"QUERY-VOICEPRINT", "DELETE-VOICEPRINT"})
    /\ OnlyIf(state # "IDLE", r)
    /\ Keeps

(* verifier_request_verify, verifier_request_verify_from_buffer            *)
verifier_request_verify(r) ==
    /\ Dispatching(r, {"VERIFY", "VERIFY-FROM-BUFFER"})
    /\ OnlyIf(state = "OPENED", r)
    /\ current' = IF state = "OPENED" THEN r ELSE current
    /\ UNCHANGED <<state, ended>>

verifier_request_stop(r) ==
    /\ Dispatching(r, {"STOP"})
    /\ OnlyIf(state = "VERIFYING", r)
    /\ Keeps

verifier_request_start_input_timers(r) ==
    /\ Dispatching(r, {"START-INPUT-TIMERS"})
    /\ OnlyIf(state = "OPENED", r)
    /\ Keeps

verifier_request_get_intermidiate_result(r) ==
    /\ Dispatching(r, {"GET-INTERMEDIATE-RESULT"})
    /\ OnlyIf(state = "VERIFYING", r)
    /\ Keeps

verifier_state_deactivate == state_deactivate("VERIFYING")

-----------------------------------------------------------------------------

verifier_response_passed(m) ==
    response_passed(m, {"SET-PARAMS", "GET-PARAMS", "VERIFY-ROLLBACK", "CLEAR-BUFFER",
               "QUERY-VOICEPRINT", "DELETE-VOICEPRINT", "START-INPUT-TIMERS",
               "GET-INTERMEDIATE-RESULT"})

verifier_response_start_session(m) ==
    /\ Responding(m, {"START-SESSION"})
    /\ state' = "OPENED"
    /\ response_dispatch(m.id, <<>>)
    /\ UNCHANGED <<active, current, crashed, ended>>

verifier_response_end_session(m) ==
    /\ Responding(m, {"END-SESSION"})
    /\ state' = "IDLE"
    /\ current' = NULL
    /\ response_dispatch(m.id, <<>>)
    /\ UNCHANGED <<active, crashed, ended>>

(* verifier_response_verify, verifier_response_verify_from_buffer          *)
verifier_response_verify(m) ==
    /\ Responding(m, {"VERIFY", "VERIFY-FROM-BUFFER"})
    /\ state' = "VERIFYING"
    /\ response_dispatch(m.id, <<>>)
    /\ UNCHANGED <<active, current, crashed, ended>>

verifier_response_stop(m) == response_stopped(m, "OPENED", current)

verifier_event_start_of_input(m) == StartOfInput(m)

verifier_event_verification_complete_ignores_id(m) ==
    /\ Receiving(m)
    /\ m.type = "event"
    /\ m.method = "VERIFICATION-COMPLETE"
    /\ IF current = NULL
         THEN UNCHANGED machineVars
         ELSE /\ state' = "OPENED"
              /\ Ending({current.id})
              /\ UNCHANGED <<active, active_request, current, crashed>>
    /\ UNCHANGED <<requestVars, terminationVars, todo, engine_in>>

verifier_event_verification_complete(m) ==
    event_completed(m, "VERIFICATION-COMPLETE", "OPENED", current)

-----------------------------------------------------------------------------

verifier_request_state_update ==
    /\ todo # <<>>
    /\ \/ /\ LET r == Head(todo).req
             IN  \/ verifier_request_plain(r)
                 \/ verifier_request_start_session(r)
                 \/ verifier_request_end_session(r)
                 \/ verifier_request_voiceprint(r)
                 \/ verifier_request_verify(r)
                 \/ verifier_request_stop(r)
                 \/ verifier_request_start_input_timers(r)
                 \/ verifier_request_get_intermidiate_result(r)
          /\ UNCHANGED active
       \/ verifier_state_deactivate
    /\ UNCHANGED <<sent, engine_out, crashed>>

verifier_state_update ==
    /\ engine_out # <<>>
    /\ LET m == Head(engine_out)
       IN  \/ Unexpected(m)
           \/ verifier_response_passed(m)
           \/ verifier_response_start_session(m)
           \/ verifier_response_end_session(m)
           \/ verifier_response_verify(m)
           \/ verifier_response_stop(m)
           \/ verifier_event_start_of_input(m)
           \/ verifier_event_verification_complete(m)
           \/ mrcp_server_on_channel_released(m) /\ UNCHANGED machineVars
    /\ UNCHANGED sent

VerifierServer == (verifier_request_state_update \/ verifier_state_update)
          /\ UNCHANGED working

-----------------------------------------------------------------------------

(***************************************************************************)
(* The recognizer state machine of an MRCP server channel                  *)
(* (libs/mrcp-engine/src/mrcp_recog_state_machine.c), between the session  *)
(* that dispatches client requests to it (ServerControl) and an engine.    *)
(* It differs from the synthesizer's in that a finished RECOGNIZE stays    *)
(* the recog request, in the state RECOGNIZED, until the next one.         *)
(***************************************************************************)

(* recog_state_change: going idle forgets the recog request.               *)
recog_state_change(s) ==
    /\ state' = s
    /\ current' = IF s = "IDLE" THEN NULL ELSE current

(* recog_pending_requests_remove: what stays in the queue; the ids of the  *)
(* others are appended to the response's active-request-id-list.           *)
Remaining(r) == Kept(queue, r)

-----------------------------------------------------------------------------
(* Requests.  Each is the call at the top of the server task's stack.      *)

(* recog_request_set_params, recog_request_get_params,                     *)
(* recog_request_interpret                                                 *)
recog_request_plain(r) ==
    /\ Dispatching(r, {"SET-PARAMS", "GET-PARAMS", "INTERPRET"})
    /\ ToEngine(r)
    /\ UNCHANGED <<state, current, ended, recogVars>>

(* A grammar is not accepted while recognizing; it ends RECOGNIZED.        *)
recog_request_define_grammar(r) ==
    /\ Dispatching(r, {"DEFINE-GRAMMAR"})
    /\ IF state = "RECOGNIZING"
         THEN Respond(r) /\ UNCHANGED <<state, current>>
         ELSE ToEngine(r) /\ recog_state_change("IDLE")
    /\ UNCHANGED <<ended, recogVars>>

recog_request_recognize(r) ==
    /\ Dispatching(r, {"RECOGNIZE"})
    /\ OnlyIf(state # "RECOGNIZING", r)
    /\ queue' = IF state = "RECOGNIZING" THEN Append(queue, r) ELSE queue
    /\ UNCHANGED <<state, is_pending, current, ended>>

recog_request_get_result(r) ==
    /\ Dispatching(r, {"GET-RESULT"})
    /\ OnlyIf(state = "RECOGNIZED", r)
    /\ UNCHANGED <<state, current, ended, recogVars>>

recog_request_recognition_start_timers(r) ==
    /\ Dispatching(r, {"START-INPUT-TIMERS"})
    /\ OnlyIf(state = "RECOGNIZING", r)
    /\ UNCHANGED <<state, current, ended, recogVars>>

recog_request_stop(r) ==
    /\ Dispatching(r, {"STOP"})
    /\ IF state = "RECOGNIZING" /\ Selects(r, current.id)
         THEN /\ ToEngine(r)
              /\ UNCHANGED <<state, current, queue, ended>>
         ELSE /\ IF state = "RECOGNIZED" THEN recog_state_change("IDLE")
                                         ELSE UNCHANGED <<state, current>>
              /\ queue' = Remaining(r)
              /\ Respond(r)
              /\ Ending(Removed(r))
    /\ UNCHANGED is_pending

(* mrcp_server_session_deactivate with recog_state_deactivate.             *)
recog_state_deactivate == state_deactivate("RECOGNIZING") /\ UNCHANGED recogVars

-----------------------------------------------------------------------------
(* Responses and events of the engine.                                     *)

recog_response_unexpected(m) == Unexpected(m) /\ UNCHANGED recogVars

(* The responses that just pass through.                                   *)
recog_response_plain(m) ==
    /\ response_passed(m, {"SET-PARAMS", "GET-PARAMS", "DEFINE-GRAMMAR", "INTERPRET",
                  "GET-RESULT", "START-INPUT-TIMERS"})
    /\ UNCHANGED recogVars

recog_response_recognize(m) ==
    /\ Responding(m, {"RECOGNIZE"})
    /\ IF m.state = "INPROGRESS"
         THEN /\ current' = active_request
              /\ state' = "RECOGNIZING"
         ELSE UNCHANGED <<current, state>>
    /\ IF is_pending
         THEN /\ is_pending' = FALSE
              /\ UNCHANGED <<requestVars, terminationVars, todo, engine_in,
                             active_request, ended>>
         ELSE /\ response_dispatch(m.id, <<>>)
              /\ IF m.state = "COMPLETE" THEN Ending({m.id}) ELSE UNCHANGED ended
              /\ UNCHANGED is_pending
    /\ UNCHANGED <<active, queue, crashed>>

(* recog_response_stop reads recog->start_line.request_id.                 *)
NullRecog ==
    /\ current = NULL
    /\ crashed' = TRUE
    /\ UNCHANGED <<requestVars, terminationVars, todo, engine_in, active, state,
                   active_request, current, ended, recogVars>>

recog_response_stop(m) ==
    /\ Responding(m, {"STOP"})
    /\ \/ NullRecog
       \/ /\ current # NULL
          /\ Ending({current.id} \cup Removed(active_request))
          /\ recog_state_change("IDLE")
          /\ LET remaining == Remaining(active_request)
             IN  IF remaining = <<>>
                   THEN /\ queue' = <<>>
                        /\ response_dispatch(m.id, <<>>)
                   ELSE /\ queue' = Tail(remaining)
                        /\ response_dispatch(m.id, <<PendingCall(Head(remaining))>>)
          /\ UNCHANGED <<active, is_pending, crashed>>

(* recog_event_start_of_input, recog_event_recognition_notify and          *)
(* recog_event_interpretation_complete pass the event on or drop it.       *)
recog_event_plain(m) == StartOfInput(m) /\ UNCHANGED recogVars

(* Is a RECOGNITION-COMPLETE for another request than the recog one, or    *)
(* one that crossed a STOP?                                                *)
IgnoresComplete(m) ==
    \/ current = NULL
    \/ current.id # m.id
    \/ active_request.method = "STOP"

recog_event_recognition_complete(m) ==
    /\ Receiving(m)
    /\ m.type = "event"
    /\ m.method = "RECOGNITION-COMPLETE"
    /\ IF IgnoresComplete(m)
         THEN UNCHANGED <<engine_in, machineVars, recogVars>>
         ELSE /\ recog_state_change("RECOGNIZED")
              /\ Ending({m.id})
              /\ IF queue = <<>>
                   THEN UNCHANGED <<recogVars, active_request, engine_in>>
                   ELSE /\ queue' = Tail(queue)
                        /\ is_pending' = TRUE
                        /\ request_dispatch(Head(queue))
              /\ UNCHANGED <<active, crashed>>
    /\ UNCHANGED <<requestVars, terminationVars, todo>>

recog_request_state_update ==
    /\ todo # <<>>
    /\ \/ /\ LET r == Head(todo).req
             IN  \/ recog_request_plain(r)
                 \/ recog_request_define_grammar(r)
                 \/ recog_request_recognize(r)
                 \/ recog_request_get_result(r)
                 \/ recog_request_recognition_start_timers(r)
                 \/ recog_request_stop(r)
          /\ UNCHANGED active
       \/ recog_state_deactivate
       \/ ProcessPending
    /\ UNCHANGED <<sent, engine_out, crashed>>

recog_state_update ==
    /\ engine_out # <<>>
    /\ LET m == Head(engine_out)
       IN  \/ recog_response_unexpected(m)
           \/ recog_response_plain(m)
           \/ recog_response_recognize(m)
           \/ recog_response_stop(m)
           \/ recog_event_plain(m)
           \/ recog_event_recognition_complete(m)
           \/ mrcp_server_on_channel_released(m) /\ UNCHANGED <<machineVars, recogVars>>
    /\ UNCHANGED sent

RecogServer == (recog_request_state_update \/ recog_state_update)
          /\ UNCHANGED working

-----------------------------------------------------------------------------
(* The client.                                                             *)

(* A client that does not queue RECOGNIZE requests waits until its last    *)
(* one is over; a STOP names no request or an earlier one.                 *)
RecogClient ==
    /\ \E method \in RecogMethods, sel \in {{}} \cup {{i} : i \in DOMAIN sent} :
         /\ sel # {} => method = "STOP"
         /\ method = "RECOGNIZE" /\ ~QueueRecognizes =>
               \A i \in DOMAIN sent : sent[i].method = "RECOGNIZE" => ended[i] # 0
         /\ mrcp_server_on_channel_message(
                Message(Len(sent) + 1, method, sel, FALSE))
    /\ Len(sent') <= MaxRecogRequests

(* Clients of a recorder or a verifier send any method at any time.        *)
PlainClient(methods) ==
    \E method \in methods :
        mrcp_server_on_channel_message(Message(Len(sent) + 1, method, {}, FALSE))

-----------------------------------------------------------------------------
(* The steps of each task.                                                 *)

ResourceInit ==
    /\ ControlInit
    /\ resource \in {"recog", "recorder", "verifier"}
    /\ active = TRUE
    /\ state = "IDLE"
    /\ is_pending = FALSE
    /\ active_request = NULL
    /\ current = NULL
    /\ queue = <<>>
    /\ crashed = FALSE
    /\ ended = [i \in Ids |-> 0]
    /\ working = {}

ResourceClient ==
    /\ ~crashed
    /\ \/ resource = "recog" /\ RecogClient
       \/ resource = "recorder" /\ PlainClient(RecorderMethods)
       \/ resource = "verifier" /\ PlainClient(VerifierMethods)
       \/ SessionTerminateRequest
    /\ UNCHANGED <<machineVars, working, recogVars, resource>>

ResourceServer ==
    /\ ~crashed
    /\ \/ resource = "recog" /\ RecogServer
       \/ resource = "recorder" /\ RecorderServer /\ UNCHANGED recogVars
       \/ resource = "verifier" /\ VerifierServer /\ UNCHANGED recogVars
    /\ UNCHANGED resource

ResourceMedia ==
    /\ ~crashed
    /\ MediaSubtract
    /\ UNCHANGED <<machineVars, working, recogVars, resource>>

ResourceEngine ==
    /\ ~crashed
    /\ \/ resource = "recog" /\ EngineRequest({"RECOGNIZE"})
       \/ resource = "recorder" /\ EngineRequest({"RECORD"})
       \/ resource = "verifier" /\ EngineRequest({"VERIFY", "VERIFY-FROM-BUFFER"})
    /\ UNCHANGED <<machineVars, recogVars, resource>>

ResourceEvent ==
    /\ ~crashed
    /\ \/ resource = "recog" /\ EngineEvent("RECOGNITION-COMPLETE")
       \/ resource = "recorder" /\ EngineEvent("RECORD-COMPLETE")
       \/ resource = "verifier" /\ EngineEvent("VERIFICATION-COMPLETE")
    /\ UNCHANGED <<machineVars, recogVars, resource>>

ResourceNext ==
    ResourceClient \/ ResourceServer \/ ResourceMedia \/ ResourceEngine \/ ResourceEvent

(* The server task, the media engine and the engine's task run.            *)
ResourceFairness ==
    /\ WF_resourceVars(ResourceServer)
    /\ WF_resourceVars(ResourceMedia)
    /\ WF_resourceVars(ResourceEngine)

ResourceSpec == ResourceInit /\ [][ResourceNext]_resourceVars /\ ResourceFairness

-----------------------------------------------------------------------------
(* Properties.                                                             *)

(* No RECOGNIZE is queued behind another.                                  *)
Undisturbed == [](queue = <<>>)

(* A request is answered at most once, and the client is told at most once *)
(* that a request in progress is over: by its -COMPLETE event, in the list *)
(* of a STOP response or, except by the verifier, by a failure response;   *)
(* afterwards the request is neither in progress nor queued.               *)
ReportedOnce ==
    /\ AnsweredAtMostOnce
    /\ \A i \in Ids :
         /\ ended[i] <= 1
         /\ ended[i] = 1 =>
              /\ state \in {"RECOGNIZING", "RECORDING", "VERIFYING"} => current.id # i
              /\ \A k \in DOMAIN queue : queue[k].id # i

(* With no RECOGNIZE queued behind another, every request is answered and  *)
(* a session that was asked to terminate does, whatever the resource.      *)
ServedUndisturbed == Undisturbed => (RequestsAnswered /\ TerminateCompletes)

-----------------------------------------------------------------------------

AllRecogMethods == {"SET-PARAMS", "GET-PARAMS", "DEFINE-GRAMMAR", "RECOGNIZE",
                    "INTERPRET", "GET-RESULT", "START-INPUT-TIMERS", "STOP"}

AllRecorderMethods == {"SET-PARAMS", "RECORD", "STOP", "START-INPUT-TIMERS"}

AllVerifierMethods == {"GET-PARAMS", "START-SESSION", "END-SESSION", "VERIFY",
                       "QUERY-VOICEPRINT", "STOP", "START-INPUT-TIMERS",
                       "GET-INTERMEDIATE-RESULT"}

AllMethods == AllRecogMethods \cup AllRecorderMethods \cup AllVerifierMethods

=============================================================================
