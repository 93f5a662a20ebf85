---------------------------- MODULE ResourceProofs ----------------------------
(***************************************************************************)
(* Proofs about ResourceChannels.  Each step of a channel is brought into  *)
(* the form it has in ResourceSteps (StepMachine); there it is shown to be *)
(* a step of RequestFlow and to keep the state machine in order.  What     *)
(* RequestFlow contributes are its own invariants, which FlowProofs shows  *)
(* every step to keep, and the two facts Stays and Fresh about its steps.  *)
(***************************************************************************)
EXTENDS ResourceChannels, ResourceSteps, FlowProofs

-----------------------------------------------------------------------------
(***************************************************************************)
(* The requests.                                                           *)
(***************************************************************************)

(* recog_request_state_update is one of the intermediate steps: a call, a  *)
(* deactivation or a resumption.                                           *)
LEMMA RecogCalls ==
  ASSUME StateInv, resource = "recog", recog_request_state_update, UNCHANGED working
  PROVE  (\E r : Calls(r)) \/ Deactivates \/ Resumes
<1>1. UNCHANGED <<sent, engine_out, working>>
  BY DEF recog_request_state_update
<1>2. state \in {"IDLE", "RECOGNIZING", "RECOGNIZED"}
  BY DEF StateInv
<1>3. ASSUME NEW r, UNCHANGED active,
             \/ recog_request_plain(r)
             \/ recog_request_define_grammar(r)
             \/ recog_request_recognize(r)
             \/ recog_request_get_result(r)
             \/ recog_request_recognition_start_timers(r)
             \/ recog_request_stop(r)
      PROVE  Calls(r)
  <2>1. todo # <<>> /\ Head(todo) = DispatchCall(r) /\ r.method # "TERMINATE"
        /\ UNCHANGED is_pending
    BY <1>3 DEF recog_request_plain, recog_request_define_grammar, recog_request_recognize,
       recog_request_get_result, recog_request_recognition_start_timers, recog_request_stop,
       Dispatching, recogVars
  <2> SUFFICES Sends(r) \/ Settles(r)
    BY ZenonT(60), <1>1, <1>3, <2>1 DEF Calls
  <2>2. CASE recog_request_plain(r)
    BY <2>2 DEF recog_request_plain, Dispatching, Sends, recogVars
  <2>3. CASE recog_request_define_grammar(r)
    BY ZenonT(60), <1>2, <2>3 DEF recog_request_define_grammar, recog_state_change, Dispatching, Sends, Settles,
       Busy, recogVars
  <2>4. CASE recog_request_recognize(r)
    BY <2>4 DEF recog_request_recognize, Dispatching, OnlyIf, Sends, Settles
  <2>5. CASE recog_request_get_result(r) \/ recog_request_recognition_start_timers(r)
    BY <2>5 DEF recog_request_get_result, recog_request_recognition_start_timers, Dispatching,
       OnlyIf, Sends, Settles, recogVars
  <2>6. CASE recog_request_stop(r)
    BY ZenonT(60), <1>2, <2>6 DEF recog_request_stop, recog_state_change, Dispatching, Remaining, Sends,
       Settles, Busy
  <2> QED
    BY ZenonT(60), <1>3, <2>2, <2>3, <2>4, <2>5, <2>6
<1>4. CASE recog_state_deactivate
  BY <1>1, <1>4 DEF recog_state_deactivate, Deactivates, Busy
<1>5. CASE ProcessPending
  BY <1>1, <1>5 DEF Resumes
<1> QED
  BY ZenonT(60), <1>3, <1>4, <1>5 DEF recog_request_state_update

(* recorder_request_state_update is one of the intermediate steps.         *)
LEMMA RecorderCalls ==
  ASSUME resource = "recorder", recorder_request_state_update, UNCHANGED <<working, recogVars>>
  PROVE  (\E r : Calls(r)) \/ Deactivates
<1>1. UNCHANGED <<sent, engine_out, working, is_pending, queue>>
  BY DEF recorder_request_state_update, recogVars
<1>2. ASSUME NEW r, UNCHANGED active,
             \/ recorder_request_params(r)
             \/ recorder_request_record(r)
             \/ recorder_request_stop(r)
             \/ recorder_request_start_timers(r)
      PROVE  Calls(r)
  BY <1>1, <1>2 DEF recorder_request_params, recorder_request_record, recorder_request_stop,
     recorder_request_start_timers, Dispatching, OnlyIf, Calls, Sends, Settles, Busy
<1>3. CASE recorder_state_deactivate
  BY ZenonT(60), <1>1, <1>3 DEF recorder_state_deactivate, Deactivates, Busy
<1> QED
  BY <1>2, <1>3 DEF recorder_request_state_update

(* VERIFY makes current the request before it is in progress.              *)
LEMMA VerifierCalls ==
  ASSUME resource = "verifier", verifier_request_state_update, UNCHANGED <<working, recogVars>>
  PROVE  (\E r : Calls(r)) \/ Deactivates
<1>1. UNCHANGED <<sent, engine_out, working, is_pending, queue>>
  BY DEF verifier_request_state_update, recogVars
<1>2. ASSUME NEW r, UNCHANGED active,
             \/ verifier_request_plain(r)
             \/ verifier_request_start_session(r)
             \/ verifier_request_end_session(r)
             \/ verifier_request_voiceprint(r)
             \/ verifier_request_verify(r)
             \/ verifier_request_stop(r)
             \/ verifier_request_start_input_timers(r)
             \/ verifier_request_get_intermidiate_result(r)
      PROVE  Calls(r)
  <2>1. \/ verifier_request_plain(r) \/ verifier_request_start_session(r)
        \/ verifier_request_end_session(r) \/ verifier_request_voiceprint(r)
        => Calls(r)
    BY ZenonT(60), <1>1, <1>2 DEF verifier_request_plain, verifier_request_start_session,
       verifier_request_end_session, verifier_request_voiceprint, Dispatching, OnlyIf, Keeps,
       VerifyMethods, Calls, Sends, Settles
  <2>2. verifier_request_verify(r) \/ verifier_request_stop(r) => Calls(r)
    BY ZenonT(60), <1>1, <1>2 DEF verifier_request_verify, verifier_request_stop, Dispatching, OnlyIf, Keeps,
       VerifyMethods, Busy, Calls, Sends, Settles
  <2>3. \/ verifier_request_start_input_timers(r)
        \/ verifier_request_get_intermidiate_result(r)
        => Calls(r)
    BY ZenonT(60), <1>1, <1>2 DEF verifier_request_start_input_timers,
       verifier_request_get_intermidiate_result, Dispatching, OnlyIf, Keeps, VerifyMethods, Calls,
       Sends, Settles
  <2> QED
    BY ZenonT(60), <1>2, <2>1, <2>2, <2>3
<1>3. CASE verifier_state_deactivate
  BY ZenonT(60), <1>1, <1>3 DEF verifier_state_deactivate, Deactivates, Busy, recogVars
<1> QED
  BY ZenonT(60), <1>2, <1>3 DEF verifier_request_state_update

-----------------------------------------------------------------------------
(***************************************************************************)
(* The messages of the engine.                                             *)
(***************************************************************************)

(* What all three machines do in the same way.                             *)
LEMMA SharedMessages ==
  ASSUME NEW m, UNCHANGED <<sent, working, recogVars>>,
         \/ Unexpected(m)
         \/ StartOfInput(m)
         \/ \E methods : response_passed(m, methods) /\ methods \cap Starts = {}
         \/ mrcp_server_on_channel_released(m) /\ UNCHANGED machineVars
  PROVE  Hears(m)
<1>1. UNCHANGED <<is_pending, queue>>
  BY DEF recogVars
<1>2. CASE Unexpected(m) \/ StartOfInput(m)
  BY ZenonT(60), <1>1, <1>2 DEF Unexpected, StartOfInput, machineVars, Hears, Ignores, MayClose
<1>3. CASE \E methods : response_passed(m, methods) /\ methods \cap Starts = {}
  BY ZenonT(60), <1>1, <1>3 DEF response_passed, Responding, Hears, PassesOn
<1>4. CASE mrcp_server_on_channel_released(m) /\ UNCHANGED machineVars
  BY ZenonT(60), <1>1, <1>4, RemoveMayClose DEF mrcp_server_on_channel_released, machineVars, Hears, Ignores
<1> QED
  BY ZenonT(60), <1>2, <1>3, <1>4

(* recog_state_update takes a message.                                     *)
LEMMA RecogHears ==
  ASSUME resource = "recog", recog_state_update, UNCHANGED working
  PROVE  \E m : Hears(m)
<1>1. PICK m : m = Head(engine_out)
  OBVIOUS
<1> SUFFICES Hears(m)
  OBVIOUS
<1>2. UNCHANGED <<sent, working>>
  BY DEF recog_state_update
<1>3. CASE \/ recog_response_unexpected(m) \/ recog_response_plain(m) \/ recog_event_plain(m)
           \/ mrcp_server_on_channel_released(m) /\ UNCHANGED <<machineVars, recogVars>>
  <2>1. {"SET-PARAMS", "GET-PARAMS", "DEFINE-GRAMMAR", "INTERPRET", "GET-RESULT",
         "START-INPUT-TIMERS"} \cap Starts = {}
    BY DEF Starts, VerifyMethods
  <2> QED
    BY ZenonT(60), <1>2, <1>3, <2>1, SharedMessages DEF recog_response_unexpected, recog_response_plain,
       recog_event_plain
<1>4. CASE recog_response_recognize(m)
  BY ZenonT(60), <1>2, <1>4 DEF recog_response_recognize, Responding, Hears, BeginsWork
<1>5. CASE recog_response_stop(m)
  <2>1. CASE NullRecog
    BY ZenonT(60), <1>2, <1>5, <2>1 DEF recog_response_stop, NullRecog, Responding, recogVars, Hears, Ignores,
       MayClose
  <2>2. CASE current # NULL
    <3>1. PICK kept : kept = Kept(queue, active_request)
      OBVIOUS
    <3>2. /\ Ending({current.id} \cup Removed(active_request))
          /\ state' = "IDLE" /\ current' = NULL /\ UNCHANGED <<active, is_pending>>
          /\ IF kept = <<>>
               THEN queue' = kept /\ response_dispatch(m.id, <<>>)
               ELSE /\ queue' = Tail(kept)
                    /\ response_dispatch(m.id, <<PendingCall(Head(kept))>>)
      BY ZenonT(60), <1>5, <2>2, <3>1 DEF recog_response_stop, NullRecog, Remaining, recog_state_change
    <3>3. Receiving(m) /\ m.type = "response" /\ Awaited(m) /\ m.method = "STOP"
      BY ZenonT(60), <1>5 DEF recog_response_stop, Responding
    <3> QED
      BY ZenonT(60), <1>2, <2>2, <3>1, <3>2, <3>3 DEF Hears, Stops
  <2> QED
    BY ZenonT(60), <1>5, <2>1, <2>2 DEF recog_response_stop
<1>6. CASE recog_event_recognition_complete(m)
  <2>1. CASE IgnoresComplete(m)
    BY ZenonT(60), <1>2, <1>6, <2>1 DEF recog_event_recognition_complete, machineVars, recogVars, Hears,
       Ignores, MayClose
  <2>2. CASE ~IgnoresComplete(m)
    BY ZenonT(60), <1>2, <1>6, <2>2 DEF recog_event_recognition_complete, IgnoresComplete, recog_state_change,
       request_dispatch, recogVars, Hears, Finishes, Completes, Completions
  <2> QED
    BY ZenonT(60), <2>1, <2>2
<1> QED
  BY ZenonT(60), <1>1, <1>3, <1>4, <1>5, <1>6 DEF recog_state_update

(* Without a queue, STOP and the -COMPLETE event.                          *)
LEMMA PlainHears ==
  ASSUME PlainInv, NEW m, UNCHANGED <<sent, working, recogVars>>,
         \/ /\ resource = "recorder"
            /\ response_stopped(m, "IDLE", NULL) \/ event_completed(m, "RECORD-COMPLETE", "IDLE", NULL)
         \/ /\ resource = "verifier"
            /\ \/ response_stopped(m, "OPENED", current)
               \/ event_completed(m, "VERIFICATION-COMPLETE", "OPENED", current)
  PROVE  Hears(m)
<1>1. /\ UNCHANGED <<is_pending, queue>> /\ queue = <<>>
      /\ Kept(queue, active_request) = <<>> /\ Removed(active_request) = {}
  BY DEF recogVars, PlainInv, Removed
<1>2. ASSUME NEW idle, NEW next, response_stopped(m, idle, next),
             \/ resource = "recorder" /\ idle = "IDLE" /\ next = NULL
             \/ resource = "verifier" /\ idle = "OPENED" /\ next = current
      PROVE  Hears(m)
  <2>1. CASE current = NULL
    BY ZenonT(60), <1>1, <1>2, <2>1 DEF response_stopped, Responding, Hears, Ignores, MayClose
  <2>2. CASE current # NULL
    <3>1. /\ Receiving(m) /\ m.type = "response" /\ Awaited(m) /\ m.method = "STOP"
          /\ Ending({current.id}) /\ state' = idle /\ current' = next
          /\ response_dispatch(m.id, <<>>) /\ UNCHANGED active
      BY ZenonT(60), <1>2, <2>2 DEF response_stopped, Responding
    <3>2. {current.id} \cup Removed(active_request) = {current.id}
      BY ZenonT(60), <1>1
    <3>3. Stops(m)
      BY ZenonT(60), <1>1, <1>2, <2>2, <3>1, <3>2 DEF Stops
    <3> QED
      BY ZenonT(60), <3>1, <3>3 DEF Hears
  <2> QED
    BY ZenonT(60), <2>1, <2>2
<1>3. ASSUME NEW method, NEW idle, NEW next, event_completed(m, method, idle, next),
             \/ /\ resource = "recorder" /\ idle = "IDLE" /\ next = NULL
                /\ method = "RECORD-COMPLETE"
             \/ /\ resource = "verifier" /\ idle = "OPENED" /\ next = current
                /\ method = "VERIFICATION-COMPLETE"
      PROVE  Hears(m)
  <2>1. CASE current = NULL \/ current.id # m.id \/ active_request.method = "STOP"
    BY ZenonT(60), <1>1, <1>3, <2>1 DEF event_completed, machineVars, Hears, Ignores, MayClose
  <2>2. CASE ~(current = NULL \/ current.id # m.id \/ active_request.method = "STOP")
    BY ZenonT(60), <1>1, <1>3, <2>2 DEF event_completed, Hears, Finishes, Completes, Completions
  <2> QED
    BY ZenonT(60), <2>1, <2>2
<1> QED
  BY ZenonT(60), <1>2, <1>3

(* recorder_state_update takes a message.                                  *)
LEMMA RecorderHears ==
  ASSUME PlainInv, resource = "recorder", recorder_state_update,
         UNCHANGED <<working, recogVars>>
  PROVE  \E m : Hears(m)
<1>1. PICK m : m = Head(engine_out)
  OBVIOUS
<1> SUFFICES Hears(m)
  OBVIOUS
<1>2. UNCHANGED <<sent, working, recogVars>> /\ UNCHANGED <<is_pending, queue>>
      /\ is_pending = FALSE
  BY DEF recorder_state_update, recogVars, PlainInv
<1>3. CASE \/ Unexpected(m) \/ recorder_response_passed(m) \/ recorder_event_start_of_input(m)
           \/ mrcp_server_on_channel_released(m) /\ UNCHANGED machineVars
  <2>1. {"SET-PARAMS", "GET-PARAMS", "START-INPUT-TIMERS"} \cap Starts = {}
    BY ZenonT(60) DEF Starts, VerifyMethods
  <2> QED
    BY ZenonT(60), <1>2, <1>3, <2>1, SharedMessages DEF recorder_response_passed,
       recorder_event_start_of_input
<1>4. CASE recorder_response_record(m)
  BY ZenonT(60), <1>2, <1>4 DEF recorder_response_record, Responding, Hears, BeginsWork
<1>5. CASE recorder_response_stop(m) \/ recorder_event_record_complete(m)
  BY ZenonT(60), <1>2, <1>5, PlainHears DEF recorder_response_stop, recorder_event_record_complete
<1> QED
  BY ZenonT(60), <1>1, <1>3, <1>4, <1>5 DEF recorder_state_update

(* verifier_state_update takes a message.                                  *)
LEMMA VerifierHears ==
  ASSUME PlainInv, resource = "verifier", verifier_state_update,
         UNCHANGED <<working, recogVars>>
  PROVE  \E m : Hears(m)
<1>1. PICK m : m = Head(engine_out)
  OBVIOUS
<1> SUFFICES Hears(m)
  OBVIOUS
<1>2. UNCHANGED <<sent, working, recogVars>> /\ UNCHANGED <<is_pending, queue>>
  BY DEF verifier_state_update, recogVars
<1>3. CASE \/ Unexpected(m) \/ verifier_response_passed(m) \/ verifier_event_start_of_input(m)
           \/ mrcp_server_on_channel_released(m) /\ UNCHANGED machineVars
  <2>1. {"SET-PARAMS", "GET-PARAMS", "VERIFY-ROLLBACK", "CLEAR-BUFFER", "QUERY-VOICEPRINT",
         "DELETE-VOICEPRINT", "START-INPUT-TIMERS", "GET-INTERMEDIATE-RESULT"}
        \cap Starts = {}
    BY DEF Starts, VerifyMethods
  <2> QED
    BY ZenonT(60), <1>2, <1>3, <2>1, SharedMessages DEF verifier_response_passed,
       verifier_event_start_of_input
<1>4. CASE verifier_response_start_session(m) \/ verifier_response_end_session(m)
  BY ZenonT(60), <1>2, <1>4 DEF verifier_response_start_session, verifier_response_end_session, Responding,
     Starts, VerifyMethods, Hears, PassesOn
<1>5. CASE verifier_response_verify(m)
  BY ZenonT(60), <1>2, <1>5 DEF verifier_response_verify, Responding, VerifyMethods, Hears, Verifies
<1>6. CASE verifier_response_stop(m) \/ verifier_event_verification_complete(m)
  BY ZenonT(60), <1>2, <1>6, PlainHears DEF verifier_response_stop, verifier_event_verification_complete
<1> QED
  BY ZenonT(60), <1>1, <1>3, <1>4, <1>5, <1>6 DEF verifier_state_update

(* Everything a server channel does.                                       *)
LEMMA ServerDoes ==
  ASSUME StateInv, PlainInv, ResourceServer
  PROVE  ServerDone
<1>1. CASE resource = "recog"
  BY ZenonT(60), <1>1, RecogCalls, RecogHears DEF ServerDone, ResourceServer, RecogServer
<1>2. CASE resource = "recorder"
  BY ZenonT(60), <1>2, RecorderCalls, RecorderHears DEF ServerDone, ResourceServer, RecorderServer
<1>3. CASE resource = "verifier"
  BY ZenonT(60), <1>3, VerifierCalls, VerifierHears DEF ServerDone, ResourceServer, VerifierServer
<1> QED
  BY ZenonT(60), <1>1, <1>2, <1>3 DEF ResourceServer

-----------------------------------------------------------------------------
(* The client and the engine.                                              *)

(* What the client does is a request or the termination of RequestFlow.    *)
LEMMA ClientAsks ==
  ASSUME FlowTypeOK, ResourceClient
  PROVE  (Ask \/ AskTerminate) /\ Waiting
<1>1. ~TerminateReceived => NoTerminate
  BY DEF TerminateReceived, NoTerminate
<1>2. Waiting
  BY ZenonT(60) DEF Waiting, ResourceClient, RecogClient, PlainClient, mrcp_server_on_channel_message,
     SessionTerminateRequest
<1>3. UNCHANGED <<active, is_pending, active_request, Serving, queue, ended, working>>
  BY ZenonT(60), <1>2 DEF Waiting, machineVars, recogVars, Serving
<1>4. ASSUME NEW method \in Methods, NEW sel \in {{}} \cup {{i} : i \in DOMAIN sent},
             mrcp_server_on_channel_message(Message(Len(sent) + 1, method, sel, FALSE))
      PROVE  Ask
  <2>1. PICK r : r = Message(Len(sent) + 1, method, sel, FALSE)
    BY ZenonT(60)
  <2>2. /\ todo = <<>> /\ Len(sent) < MaxRequests /\ ~TerminateReceived /\ r.id = Len(sent) + 1
        /\ mrcp_server_signaling_message_process(r)
        /\ sent' = Append(sent, r)
        /\ UNCHANGED <<answered, engine_in, engine_out>>
    BY ZenonT(60), <1>4, <2>1 DEF mrcp_server_on_channel_message
  <2>3. Len(sent) \in Nat /\ DOMAIN sent = 1..Len(sent)
    BY DEF FlowTypeOK
  <2>4. sel \subseteq Ids /\ Len(sent) + 1 \in Ids
    BY <2>2, <2>3, ControlAssumption DEF Ids
  <2>5. r \in Request
    BY ZenonT(60), <2>1, <2>4 DEF Request, Message
  <2>6. Process(r)
    BY ZenonT(60), <1>1, <1>3, <2>2
       DEF Process, mrcp_server_signaling_message_process
  <2> QED
    BY ZenonT(60), <2>2, <2>5, <2>6 DEF Ask
<1>5. CASE SessionTerminateRequest
  <2>1. PICK r : r = TERMINATE
    OBVIOUS
  <2>2. /\ todo = <<>> /\ ~TerminateReceived /\ mrcp_server_signaling_message_process(r)
        /\ UNCHANGED <<sent, answered, engine_in, engine_out>>
    BY ZenonT(60), <1>5, <2>1 DEF SessionTerminateRequest
  <2>3. Process(r)
    BY ZenonT(60), <1>1, <1>3, <2>2
       DEF Process, mrcp_server_signaling_message_process
  <2>4. AskTerminate
    BY ZenonT(60), <2>1, <2>2, <2>3 DEF AskTerminate
  <2> QED
    BY ZenonT(60), <1>2, <2>4
<1>6. CASE RecogClient
  <2>1. PICK method \in RecogMethods, sel \in {{}} \cup {{i} : i \in DOMAIN sent} :
          mrcp_server_on_channel_message(Message(Len(sent) + 1, method, sel, FALSE))
    BY ZenonT(60), <1>6 DEF RecogClient
  <2>2. method \in Methods
    BY ResourceAssumption
  <2> QED
    BY ZenonT(60), <1>2, <1>4, <2>1, <2>2
<1>7. ASSUME NEW methods \in {RecorderMethods, VerifierMethods}, PlainClient(methods)
      PROVE  Ask
  <2>1. PICK method \in methods :
          mrcp_server_on_channel_message(Message(Len(sent) + 1, method, {}, FALSE))
    BY ZenonT(60), <1>7 DEF PlainClient
  <2>2. method \in Methods
    BY ResourceAssumption
  <2>3. {} \in {{}} \cup {{i} : i \in DOMAIN sent}
    OBVIOUS
  <2> QED
    BY ZenonT(60), <1>4, <2>1, <2>2, <2>3
<1> QED
  BY ZenonT(60), <1>2, <1>5, <1>6, <1>7 DEF ResourceClient

(* The request handlers of the engine take one request each.               *)
LEMMA EngineTakesOne ==
  ASSUME ResourceEngine
  PROVE  EngineTook
<1>1. PICK starts \in {{"RECOGNIZE"}, {"RECORD"}, VerifyMethods} : EngineRequest(starts)
  BY ZenonT(60) DEF ResourceEngine, VerifyMethods
<1>2. Rests /\ engine_in # <<>>
  BY <1>1 DEF ResourceEngine, EngineRequest, EngineLeaves, Rests
<1>3. PICK r : r = Head(engine_in)
  OBVIOUS
<1>4. starts \subseteq Starts /\ "STOP" \notin Starts /\ CLOSE.method = "CLOSE"
      /\ "CLOSE" \notin Starts /\ "CLOSE" \notin Methods
  BY ZenonT(60), RequestFacts, ResourceAssumption DEF Starts, VerifyMethods
<1>5. \/ /\ r.method \in starts
         /\ \/ /\ Answer(r, ResponseTo(r, "INPROGRESS", TRUE))
               /\ working' = working \cup {r.id}
            \/ /\ Answer(r, ResponseTo(r, "COMPLETE", FALSE))
               /\ UNCHANGED working
      \/ /\ r.method = "STOP"
         /\ Answer(r, ResponseTo(r, "COMPLETE", TRUE))
         /\ working' = {}
      \/ /\ r = CLOSE
         /\ Answer(r, Released("closed"))
         /\ working' = {}
      \/ /\ r.method \in Methods \ (starts \cup {"STOP"})
         /\ Answer(r, ResponseTo(r, "COMPLETE", TRUE))
         /\ UNCHANGED working
  BY ZenonT(60), <1>1, <1>3 DEF EngineRequest
<1>6. CASE r = CLOSE
  <2>1. Answer(r, Released("closed")) /\ working' = {}
    BY ZenonT(60), <1>4, <1>5, <1>6
  <2>2. Took(r)
    BY ZenonT(60), <1>6, <2>1 DEF Answer, EngineTakes, Took
  <2> QED
    BY ZenonT(60), <1>2, <1>3, <2>2 DEF EngineTook
<1>7. CASE r # CLOSE
  <2>1. ASSUME NEW s \in {"INPROGRESS", "COMPLETE"}, NEW ok \in BOOLEAN,
               Answer(r, ResponseTo(r, s, ok)),
               \/ working' = working /\ r.method # "STOP"
               \/ working' = {}
               \/ /\ working' = working \cup {r.id} /\ r.method \in Starts
                  /\ s = "INPROGRESS"
        PROVE  Took(r)
    BY ZenonT(60), <1>4, <1>7, <2>1 DEF Answer, EngineTakes, Took
  <2>2. Took(r)
    BY ZenonT(60), <1>4, <1>5, <1>7, <2>1
  <2> QED
    BY ZenonT(60), <1>2, <1>3, <2>2 DEF EngineTook
<1> QED
  BY ZenonT(60), <1>6, <1>7

(* The events of the engine.                                               *)
LEMMA EngineTells ==
  ASSUME ResourceEvent
  PROVE  EngineTold
<1>1. PICK complete \in {"RECOGNITION-COMPLETE", "RECORD-COMPLETE", "VERIFICATION-COMPLETE"} :
        EngineEvent(complete)
  BY DEF ResourceEvent
<1>2. Rests /\ UNCHANGED engine_in
  BY <1>1 DEF ResourceEvent, EngineEvent, EngineLeaves, Rests
<1>3. \E i \in working : Tells(i)
  BY <1>1 DEF EngineEvent, Tells
<1> QED
  BY ZenonT(60), <1>2, <1>3 DEF EngineTold

(* The events of the engine's media thread.                                *)
LEMMA MediaTells ==
  ASSUME ResourceMedia
  PROVE  MediaTold
BY DEF ResourceMedia, MediaSubtract, MediaTold, Rests

(* Every step of a channel has the form of ResourceSteps.                  *)
LEMMA StepMachine ==
  ASSUME FlowTypeOK, StateInv, PlainInv, [ResourceNext]_resourceVars
  PROVE  MachineNext
<1>1. CASE UNCHANGED resourceVars
  BY <1>1 DEF resourceVars, controlVars, requestVars, machineVars, recogVars, Waiting, MachineNext
<1>2. CASE ResourceClient
  BY <1>2, ClientAsks DEF MachineNext
<1>3. CASE ResourceServer
  BY ZenonT(60), <1>3, ServerDoes DEF MachineNext
<1>4. CASE ResourceMedia \/ ResourceEngine \/ ResourceEvent
  BY ZenonT(60), <1>4, EngineTakesOne, EngineTells, MediaTells DEF MachineNext
<1> QED
  BY ZenonT(60), <1>1, <1>2, <1>3, <1>4 DEF ResourceNext

-----------------------------------------------------------------------------
(***************************************************************************)
(* The invariant and the theorems.                                         *)
(***************************************************************************)


(* A STOP keeps nothing of an empty queue.                                 *)
LEMMA KeptEmpty == \A r : Kept(<<>>, r) = <<>>
<1> SUFFICES ASSUME NEW r PROVE Kept(<<>>, r) = <<>>
  OBVIOUS
<1>1. PICK S, q : S = {} /\ q = <<>> /\ q \in Seq(S)
  <2>1. <<>> \in Seq({})
    OBVIOUS
  <2> QED
    BY ZenonT(60), <2>1
<1>2. Kept(q, r) \in Seq(S)
  BY ZenonT(60), <1>1, KeptFacts
<1> QED
  BY <1>1, <1>2

(* A new channel satisfies the invariant.                                  *)
LEMMA ResourceInitially == ResourceInit => ResourceInv
<1> SUFFICES ASSUME ResourceInit PROVE ResourceInv
  OBVIOUS
<1>1. resource \in {"recog", "recorder", "verifier"}
  BY DEF ResourceInit
<1>2. /\ active = TRUE /\ state = "IDLE" /\ is_pending = FALSE /\ active_request = NULL
      /\ current = NULL /\ queue = <<>> /\ ended = [i \in Ids |-> 0] /\ working = {}
      /\ engine_in = <<>> /\ engine_out = <<>> /\ ControlInit
  BY DEF ResourceInit, ControlInit
<1>3. Serving = NULL
  BY ZenonT(60), <1>2 DEF Serving, Busy
<1>4. FlowInit
  BY ZenonT(60), <1>2, <1>3 DEF FlowInit
<1>5. FlowInv /\ ResponseFirst /\ OneAtATime
  BY ZenonT(60), <1>4, FlowInitially, ResponseFirstInitially
<1>6. StateInv /\ PlainInv /\ InProgressMatchesState
  BY ZenonT(60), <1>1, <1>2, KeptEmpty DEF StateInv, PlainInv, InProgressMatchesState
<1>7. NULL.method = "NULL" /\ DOMAIN engine_out = {} /\ DOMAIN engine_in = {}
  BY <1>2, RequestFacts
<1>8. StopInv /\ DoneInv /\ ClearInv /\ OpenInv /\ VerifyInv
  BY ZenonT(60), <1>2, <1>7 DEF StopInv, DoneInv, ClearInv, OpenInv, VerifyInv, VerifyMethods
<1> QED
  BY ZenonT(60), <1>5, <1>6, <1>8 DEF ResourceInv, OneInv

(* Every step of a channel keeps the invariant.  What concerns RequestFlow *)
(* is kept because the step is one of RequestFlow, the rest by MachineStep.*)
LEMMA ResourceStep ==
  ASSUME ResourceInv, [ResourceNext]_resourceVars
  PROVE  ResourceInv'
<1>1. FlowInv /\ ResponseFirst /\ PlainInv /\ OneInv
  BY DEF ResourceInv
<1>2. MachineNext /\ [FlowNext]_flowVars
  BY ZenonT(60), StepMachine, StepFlows DEF ResourceInv, FlowInv
<1>3. FlowInv'
  BY ZenonT(60), <1>1, <1>2, FlowStep
<1>4. Stays
  <2>1. ASSUME NEW i \in Ids, ended[i] = 1, ~Begun(i)
        PROVE  ended'[i] = 1 /\ ~Begun(i)'
    BY ZenonT(60), <1>1, <1>2, <1>3, <2>1, OverStays
  <2> QED
    BY ZenonT(60), <2>1 DEF Stays
<1>5. Fresh
  <2>1. ASSUME NEW r, r # TERMINATE, Taking(r)
        PROVE  /\ active /\ r \in Request
               /\ resource # "recog" => \A i \in Ids : ~InEngine(i) /\ ~Responded(i)
    <3>1. /\ active /\ r \in Request
          /\ OneAtATime /\ is_pending = FALSE => \A i \in Ids : ~InEngine(i) /\ ~Responded(i)
      BY ZenonT(60), <1>1, <2>1, TakingNew
    <3>2. resource # "recog" => OneAtATime /\ is_pending = FALSE
      BY ZenonT(60), <1>1 DEF PlainInv, OneInv
    <3> QED
      BY ZenonT(60), <3>1, <3>2
  <2> QED
    BY ZenonT(60), <2>1 DEF Fresh
<1>6. /\ MachineInv' /\ (active' => active) /\ UNCHANGED resource
      /\ resource # "recog" => UNCHANGED recogVars
  BY ZenonT(60), <1>2, <1>3, <1>4, <1>5, MachineStep
<1>7. ResponseFirst'
  BY ZenonT(60), <1>1, <1>2, <1>6, ResponseFirstStep
<1>8. PlainInv'
  BY ZenonT(60), <1>1, <1>6, KeptEmpty DEF PlainInv, recogVars
<1>9. OneInv'
  <2>1. CASE resource # "recog"
    <3>1. is_pending = FALSE /\ is_pending' = FALSE /\ OneAtATime
      BY ZenonT(60), <1>1, <1>6, <2>1 DEF PlainInv, recogVars, OneInv
    <3>2. OneAtATime'
      BY ZenonT(60), <1>1, <1>2, <3>1, OneAtATimeStep
    <3> QED
      BY ZenonT(60), <3>2 DEF OneInv
  <2>2. CASE resource = "recog"
    BY ZenonT(60), <1>6, <2>2 DEF OneInv
  <2> QED
    BY ZenonT(60), <2>1, <2>2
<1> QED
  BY ZenonT(60), <1>3, <1>6, <1>7, <1>8, <1>9 DEF ResourceInv, MachineInv

(* The invariant, for every number of requests and every set of methods.   *)
THEOREM ResourceInvariant == ResourceSpec => []ResourceInv
<1>1. ResourceInv /\ [ResourceNext]_resourceVars => ResourceInv'
  BY ResourceStep
<1> QED
  BY <1>1, ResourceInitially, PTL DEF ResourceSpec

(* A recognizer, a recorder and a verifier have a request in progress      *)
(* exactly when their state machine is in the state that says so.          *)
THEOREM InProgressMatchesStateInvariant == ResourceSpec => []InProgressMatchesState
<1>1. ResourceInv => InProgressMatchesState
  BY DEF ResourceInv
<1> QED
  BY <1>1, ResourceInvariant, PTL

(* Their clients get at most one response to each request and are told at  *)
(* most once that it is over, when it is neither in progress nor queued.   *)
THEOREM ReportedOnceInvariant == ResourceSpec => []ReportedOnce
<1>1. ResourceInv => ReportedOnce
  <2> SUFFICES ASSUME ResourceInv PROVE ReportedOnce
    OBVIOUS
  <2>1. AnswerInv /\ EndInv /\ StateInv
    BY ZenonT(60) DEF ResourceInv, FlowInv
  <2>2. AnsweredAtMostOnce
    BY ZenonT(60), <2>1 DEF AnswerInv, AnsweredAtMostOnce
  <2>3. ASSUME NEW i \in Ids, ended[i] = 1, state \in Busy PROVE current.id # i
    <3>1. CASE current.id = 0
      BY ZenonT(60), <3>1, RequestFacts
    <3>2. CASE current.id # 0
      <4>1. ended[current.id] = 0
        BY ZenonT(60), <2>1, <2>3, <3>2 DEF EndInv, Serving
      <4> QED
        BY <2>3, <4>1
    <3> QED
      BY <3>1, <3>2
  <2>4. ASSUME NEW i \in Ids, ended[i] = 1, NEW k \in DOMAIN queue PROVE queue[k].id # i
    <3>1. queue[k].id = i => Waits(i)
      BY ZenonT(60) DEF Waits
    <3>2. Waits(i) => ended[i] = 0
      BY ZenonT(60), <2>1 DEF EndInv
    <3> QED
      BY <2>4, <3>1, <3>2
  <2>5. \A i \in Ids : ended[i] <= 1
    BY <2>1 DEF EndInv
  <2> QED
    BY ZenonT(60), <2>2, <2>3, <2>4, <2>5 DEF ReportedOnce, Busy
<1> QED
  BY <1>1, ResourceInvariant, PTL
=============================================================================
