----------------------------- MODULE SynthProofs -----------------------------
(* Proofs about SynthChannel.                                              *)
EXTENDS SynthChannel, TLAPS

(* Every step of the synthesizer state machine keeps the speaker and the   *)
(* state in agreement: only synth_state_change and an IN-PROGRESS SPEAK    *)
(* response write them, and they write both.                               *)
THEOREM SpeakerMatchesStateInvariant == Spec => []SpeakerMatchesState
<1>1. Init => SpeakerMatchesState
  BY DEF Init, SynthInit, SpeakerMatchesState
<1>2. SpeakerMatchesState /\ [Next]_vars => SpeakerMatchesState'
  <2> SUFFICES ASSUME SpeakerMatchesState, [Next]_vars
               PROVE  SpeakerMatchesState'
    OBVIOUS
  <2> USE DEF SpeakerMatchesState
  <2>1. CASE Client
    BY <2>1 DEF Client, ClientRequest, ClientTerminate, synthVars
  <2>2. CASE ServerCall
    BY <2>2 DEF ServerCall, synth_request_params, synth_request_speak,
       synth_request_stop, synth_request_pause_resume,
       synth_request_barge_in_occurred, synth_request_control,
       synth_request_define_lexicon, synth_state_deactivate, ProcessPending
  <2>3. CASE ServerMessage
    <3> DEFINE m == Head(engine_out)
    <3>1. CASE synth_response_speak(m)
      BY <3>1 DEF synth_response_speak, Responding, Awaited
    <3>2. CASE synth_response_stop(m)
      BY <3>2 DEF synth_response_stop, synth_state_change, NullSpeaker
    <3>3. CASE synth_response_pause_resume(m)
      BY <3>3 DEF synth_response_pause_resume, synth_state_change, NullSpeaker
    <3>4. CASE synth_response_barge_in_occurred(m)
      BY <3>4 DEF synth_response_barge_in_occurred, synth_state_change, NullSpeaker
    <3>5. CASE synth_response_control(m)
      BY <3>5 DEF synth_response_control, NullSpeaker
    <3>6. CASE synth_event_speak_complete(m)
      BY <3>6 DEF synth_event_speak_complete, synth_state_change, synthVars
    <3> QED
      BY <2>3, <3>1, <3>2, <3>3, <3>4, <3>5, <3>6
         DEF ServerMessage, synth_response_unexpected, synth_response_plain,
             synth_event_speech_marker, synthVars
  <2>4. CASE Media \/ Engine \/ EngineSpontaneous
    BY <2>4 DEF Media, MediaStep, Engine, EngineSpontaneous, synthVars
  <2>5. CASE UNCHANGED vars
    BY <2>5 DEF vars, serverVars, synthVars
  <2> QED
    BY <2>1, <2>2, <2>3, <2>4, <2>5 DEF Next, Server, ServerStep
<1> QED
  BY <1>1, <1>2, PTL DEF Spec

(***************************************************************************)
(* A synthesizer channel takes the steps of RequestFlow, with its speaker  *)
(* as the request in progress: what FlowProofs shows of requests holds of  *)
(* it.  A speaker is in progress whenever there is one, so the state adds  *)
(* nothing to it, and the one of RequestFlow is that of a busy channel.    *)
(***************************************************************************)
Flow == INSTANCE RequestFlow
          WITH current <- speaker, state <- "SPEAKING", working <- engine_speaks

(* The instance and SynthChannel share the definitions of ServerControl.   *)
LEMMA Same ==
  /\ Flow!Ids = Ids /\ Flow!NULL = NULL /\ Flow!TERMINATE = TERMINATE /\ Flow!CLOSE = CLOSE
  /\ Flow!Request = Request
  /\ \A r : /\ Flow!DispatchCall(r) = DispatchCall(r) /\ Flow!PendingCall(r) = PendingCall(r)
            /\ Flow!InternalStop(r) = InternalStop(r)
            /\ Flow!Kept(queue, r) = Kept(queue, r)
  /\ \A r, i : Flow!Selects(r, i) = Selects(r, i)
  /\ \A r, s, ok : Flow!ResponseTo(r, s, ok) = ResponseTo(r, s, ok)
  /\ \A i, m : Flow!EventOf(i, m) = EventOf(i, m)
  /\ \A t : Flow!Released(t) = Released(t)
  /\ Flow!Serving = speaker /\ Flow!Serving' = speaker'
<1>1. /\ Flow!Ids = Ids /\ Flow!NULL = NULL /\ Flow!TERMINATE = TERMINATE /\ Flow!CLOSE = CLOSE
      /\ Flow!Request = Request
  BY DEF Flow!Ids, Ids, Flow!NULL, NULL, Flow!TERMINATE, TERMINATE, Flow!CLOSE, CLOSE,
         Flow!Request, Request, Flow!Message, Message
<1>2. \A r : /\ Flow!DispatchCall(r) = DispatchCall(r) /\ Flow!PendingCall(r) = PendingCall(r)
             /\ Flow!InternalStop(r) = InternalStop(r)
  BY DEF Flow!DispatchCall, DispatchCall, Flow!PendingCall, PendingCall, Flow!InternalStop,
         InternalStop, Flow!Message, Message
<1>3. ASSUME NEW r PROVE Flow!Kept(queue, r) = Kept(queue, r)
  BY DEF Flow!Kept, Kept, Flow!Selects, Selects
<1>4. \A r, i : Flow!Selects(r, i) = Selects(r, i)
  BY DEF Flow!Selects, Selects
<1>5. /\ \A r, s, ok : Flow!ResponseTo(r, s, ok) = ResponseTo(r, s, ok)
      /\ \A i, m : Flow!EventOf(i, m) = EventOf(i, m)
      /\ \A t : Flow!Released(t) = Released(t)
  BY DEF Flow!ResponseTo, ResponseTo, Flow!EventOf, EventOf, Flow!Released, Released
<1>6. Flow!Serving = speaker /\ Flow!Serving' = speaker'
  BY DEF Flow!Serving, Flow!Busy
<1> QED
  BY <1>1, <1>2, <1>3, <1>4, <1>5, <1>6

(* A sub-request that is over sends the engine nothing or closes it.       *)
LEMMA RemoveMayClose ==
  ASSUME mrcp_server_session_subrequest_remove
  PROVE  Flow!MayClose
BY Same DEF mrcp_server_session_subrequest_remove, mrcp_server_session_terminate_process,
            Flow!MayClose, terminationVars

(* synth_response_dispatch is a reply of RequestFlow.                      *)
LEMMA RespondReplies ==
  ASSUME NEW id, NEW rest, synth_response_dispatch(id, rest)
  PROVE  Flow!Reply(id, rest) /\ Flow!MayClose /\ active_request' = NULL
<1>1. CASE active
  BY <1>1, Same DEF synth_response_dispatch, Flow!Reply, DispatchResponse, Flow!DispatchResponse,
     Flow!MayClose
<1>2. CASE ~active
  BY <1>2, RemoveMayClose DEF synth_response_dispatch, Flow!Reply, requestVars,
     Flow!requestVars, state_machine_on_deactivate
<1> QED
  BY ZenonT(60), <1>1, <1>2 DEF synth_response_dispatch

(* The requests a step ends are the ones RequestFlow ends.                 *)
LEMMA EndEnds ==
  ASSUME Flow!FlowTypeOK, NEW S, IF active THEN End(S) ELSE UNCHANGED ended
  PROVE  Flow!Ending(S)
<1>1. ended \in [Ids -> Nat]
  BY Same DEF Flow!FlowTypeOK
<1>2. CASE active
  BY <1>2, Same DEF End, Flow!Ending
<1>3. CASE ~active
  <2>1. ended' = [i \in Ids |-> ended[i]]
    BY <1>1, <1>3
  <2> QED
    BY <1>3, <2>1, Same DEF Flow!Ending
<1> QED
  BY <1>2, <1>3

(* The requests a STOP removes are the same in both specifications.        *)
LEMMA RemovedSame == \A r : Flow!Removed(r) = RemovedIds(r)
BY Same DEF Flow!Removed, RemovedIds

-----------------------------------------------------------------------------
(* The steps, one lemma for each part of the channel.                      *)

(* A client's request is given to the session.                             *)
LEMMA ClientAsks ==
  ASSUME Flow!FlowTypeOK, Client
  PROVE  Flow!Ask \/ Flow!AskTerminate
<1>1. ~TerminateReceived => Flow!NoTerminate
  BY Same DEF TerminateReceived, Flow!NoTerminate
<1>2. CASE ClientRequest
  <2>1. PICK method \in Methods, sel \in {{}} \cup {{i} : i \in DOMAIN sent}, kill \in BOOLEAN :
          mrcp_server_on_channel_message(Message(Len(sent) + 1, method, sel, kill))
    BY <1>2 DEF ClientRequest
  <2>2. PICK r : r = Message(Len(sent) + 1, method, sel, kill)
    BY ZenonT(60)
  <2>3. /\ todo = <<>> /\ Len(sent) < MaxRequests /\ ~TerminateReceived /\ r.id = Len(sent) + 1
        /\ mrcp_server_signaling_message_process(r)
        /\ sent' = Append(sent, r)
        /\ UNCHANGED <<answered, engine_in, engine_out>>
    BY ZenonT(60), <2>1, <2>2 DEF mrcp_server_on_channel_message
  <2>4. /\ Len(sent) \in Nat /\ DOMAIN sent = 1..Len(sent)
    BY DEF Flow!FlowTypeOK
  <2>5. sel \subseteq Ids /\ Len(sent) + 1 \in Ids
    BY <2>3, <2>4, ControlAssumption DEF Ids
  <2>6. r \in Request
    BY ZenonT(60), <2>2, <2>5 DEF Request, Message
  <2>7. Flow!Process(r)
    BY ZenonT(60), <1>1, <1>2, <2>3, Same
       DEF Flow!Process, mrcp_server_signaling_message_process,
           Flow!mrcp_server_signaling_message_process, ClientRequest, synthVars, Client
  <2> QED
    BY ZenonT(60), <2>3, <2>6, <2>7, Same DEF Flow!Ask
<1>3. CASE ClientTerminate
  BY ZenonT(60), <1>1, <1>3, Same
     DEF ClientTerminate, SessionTerminateRequest, Flow!AskTerminate, Flow!Process,
         mrcp_server_signaling_message_process, Flow!mrcp_server_signaling_message_process,
         synthVars, Client
<1> QED
  BY <1>2, <1>3 DEF Client

(* The state machine sends a request to the engine, or answers it.         *)
LEMMA CallForwards ==
  ASSUME NEW r, NEW method, Dispatching(r, method), method # "TERMINATE", ToEngine(r),
         UNCHANGED <<sent, engine_out, is_pending, speaker, engine_speaks, active, queue, ended>>
  PROVE  Flow!Forward(r)
<1>1. r # TERMINATE /\ todo # <<>> /\ Head(todo) = DispatchCall(r)
  BY DEF Dispatching, TERMINATE, Message
<1>2. Flow!Taking(r)
  BY ZenonT(60), <1>1, Same DEF Flow!Taking
<1> QED
  BY ZenonT(60), <1>1, <1>2, Same DEF Flow!Forward, ToEngine, synth_request_dispatch, requestVars,
     Flow!requestVars

(* A request answered without the engine is settled as in RequestFlow.     *)
LEMMA CallSettles ==
  ASSUME NEW r, NEW method, Dispatching(r, method), method # "TERMINATE", Respond(r),
         UNCHANGED <<sent, engine_out, is_pending, speaker, engine_speaks, active>>,
         \/ UNCHANGED <<queue, ended>>
         \/ method = "SPEAK" /\ queue' = Append(queue, r) /\ UNCHANGED ended
         \/ queue' = Kept(queue, r) /\ Flow!Ending(RemovedIds(r))
  PROVE  Flow!Settle(r)
<1>1. r # TERMINATE /\ todo # <<>> /\ Head(todo) = DispatchCall(r) /\ r.method = method
  BY DEF Dispatching, TERMINATE, Message
<1>2. Flow!Taking(r)
  BY ZenonT(60), <1>1, Same DEF Flow!Taking
<1>3. Flow!Reply(r.id, Tail(todo)) /\ Flow!MayClose /\ active_request' = NULL
  <2>1. PICK id, rest : id = r.id /\ rest = Tail(todo)
    BY ZenonT(60)
  <2>2. synth_response_dispatch(id, rest)
    BY <2>1 DEF Respond
  <2>3. Flow!Reply(id, rest) /\ Flow!MayClose /\ active_request' = NULL
    BY <2>2, RespondReplies
  <2> QED
    BY ZenonT(60), <2>1, <2>3
<1>4. \/ UNCHANGED <<queue, ended>>
      \/ r.method \in Flow!Starts /\ queue' = Append(queue, r) /\ UNCHANGED ended
      \/ queue' = Flow!Kept(queue, r) /\ Flow!Ending(Flow!Removed(r))
  BY <1>1, Same, RemovedSame DEF Flow!Starts
<1> QED
  BY ZenonT(60), <1>1, <1>2, <1>3, <1>4, Same DEF Flow!Settle

(* A call of the session is one of RequestFlow's.                          *)
LEMMA ServerCallFlows ==
  ASSUME Flow!FlowTypeOK, ServerCall, UNCHANGED engine_speaks
  PROVE  Flow!TakeCall \/ Flow!Deactivate \/ Flow!Resubmit
<1>1. UNCHANGED <<sent, engine_out, engine_speaks>> /\ todo # <<>>
  BY DEF ServerCall
<1>2. ASSUME NEW r, UNCHANGED active, Head(todo).req = r,
             \/ synth_request_params(r)
             \/ synth_request_speak(r)
             \/ synth_request_stop(r)
             \/ synth_request_pause_resume(r)
             \/ synth_request_barge_in_occurred(r)
             \/ synth_request_control(r)
             \/ synth_request_define_lexicon(r)
      PROVE  Flow!TakeCall
  <2>1. CASE synth_request_params(r)
    BY <1>1, <1>2, <2>1, CallForwards DEF synth_request_params, Flow!TakeCall
  <2>2. CASE synth_request_speak(r)
    <3>1. CASE speaker # NULL
      BY ZenonT(60), <1>1, <1>2, <2>2, <3>1, CallSettles DEF synth_request_speak, Flow!TakeCall
    <3>2. CASE speaker = NULL
      BY ZenonT(60), <1>1, <1>2, <2>2, <3>2, CallForwards DEF synth_request_speak, Flow!TakeCall
    <3> QED
      BY ZenonT(60), <3>1, <3>2
  <2>3. CASE synth_request_stop(r)
    <3>1. CASE speaker # NULL /\ Selects(r, speaker.id)
      BY ZenonT(60), <1>1, <1>2, <2>3, <3>1, CallForwards DEF synth_request_stop, Flow!TakeCall
    <3>2. CASE ~(speaker # NULL /\ Selects(r, speaker.id))
      <4>1. /\ Dispatching(r, "STOP") /\ queue' = Kept(queue, r) /\ Respond(r)
            /\ UNCHANGED <<is_pending, speaker>>
            /\ IF active THEN End(RemovedIds(r)) ELSE UNCHANGED ended
        BY <2>3, <3>2 DEF synth_request_stop, Remaining
      <4>2. Flow!Ending(RemovedIds(r))
        BY ZenonT(60), <4>1, EndEnds
      <4>3. Flow!Settle(r)
        BY ZenonT(60), <1>1, <1>2, <4>1, <4>2, CallSettles
      <4> QED
        BY <1>1, <1>2, <4>3 DEF Flow!TakeCall
    <3> QED
      BY ZenonT(60), <3>1, <3>2
  <2>4. CASE synth_request_pause_resume(r)
    BY ZenonT(60), <1>1, <1>2, <2>4, CallForwards, CallSettles DEF synth_request_pause_resume, Flow!TakeCall
  <2>5. CASE synth_request_barge_in_occurred(r)
    BY ZenonT(60), <1>1, <1>2, <2>5, CallForwards, CallSettles DEF synth_request_barge_in_occurred, Flow!TakeCall
  <2>6. CASE synth_request_control(r)
    BY ZenonT(60), <1>1, <1>2, <2>6, CallForwards, CallSettles DEF synth_request_control, Flow!TakeCall
  <2>7. CASE synth_request_define_lexicon(r)
    BY ZenonT(60), <1>1, <1>2, <2>7, CallForwards, CallSettles DEF synth_request_define_lexicon, Flow!TakeCall
  <2> QED
    BY ZenonT(60), <1>2, <2>1, <2>2, <2>3, <2>4, <2>5, <2>6, <2>7
<1>3. CASE synth_state_deactivate
  <2>1. Flow!Taking(TERMINATE)
    BY ZenonT(60), <1>1, <1>3, Same DEF Flow!Taking, synth_state_deactivate, Dispatching
  <2> QED
    BY ZenonT(60), <1>1, <1>3, <2>1, Same DEF synth_state_deactivate, Flow!Deactivate, synth_request_dispatch,
       mrcp_server_session_deactivate, mrcp_server_session_terminate_process, requestVars,
       Flow!requestVars
<1>4. CASE ProcessPending
  BY ZenonT(60), <1>1, <1>4, Same DEF ProcessPending, Flow!Resubmit, synth_request_dispatch, requestVars,
     Flow!requestVars
<1> QED
  BY <1>2, <1>3, <1>4 DEF ServerCall

(* The state machine takes a message.                                      *)
LEMMA ServerMessageFlows ==
  ASSUME Flow!FlowTypeOK, ServerMessage, UNCHANGED engine_speaks
  PROVE  Flow!TakeMessage
<1>1. PICK m : m = Head(engine_out)
  OBVIOUS
<1>2. engine_out # <<>> /\ UNCHANGED <<sent, engine_speaks>>
  BY DEF ServerMessage
<1>3. SUFFICES \/ Flow!Dropped(m) \/ Flow!Passed(m) \/ Flow!Started(m) \/ Flow!Stopped(m)
               \/ Flow!Completed(m)
  BY <1>1, <1>2 DEF Flow!TakeMessage
<1>4. ASSUME Receiving(m), UNCHANGED active PROVE Flow!Hearing(m)
  BY ZenonT(60), <1>2, <1>4 DEF Receiving, Flow!Hearing
<1>5. ASSUME Receiving(m), Flow!MayClose,
             UNCHANGED <<requestVars, todo, active, is_pending, active_request, speaker, queue, ended>>
      PROVE  Flow!Dropped(m)
  BY ZenonT(60), <1>4, <1>5, Same DEF Flow!Dropped, requestVars, Flow!requestVars
<1>6. ASSUME Receiving(m), UNCHANGED engine_in,
             UNCHANGED <<requestVars, todo, active, is_pending, active_request, speaker, queue, ended>>
      PROVE  Flow!Dropped(m)
  BY ZenonT(60), <1>5, <1>6 DEF Flow!MayClose
<1>7. ASSUME NEW method, Responding(m, method), UNCHANGED active
      PROVE  Flow!HearingResponse(m) /\ m.method = method
  BY ZenonT(60), <1>4, <1>7, Same DEF Responding, Flow!HearingResponse, Awaited
<1>8. ASSUME NEW method, Responding(m, method), NullSpeaker PROVE Flow!Dropped(m)
  BY ZenonT(60), <1>6, <1>8 DEF Responding, NullSpeaker
<1>9. ASSUME NEW method, Responding(m, method), method \notin Flow!Starts,
             synth_response_dispatch(m.id, <<>>),
             UNCHANGED <<active, is_pending, speaker, queue, ended>>
      PROVE  Flow!Passed(m)
  <2>1. Flow!Reply(m.id, <<>>) /\ Flow!MayClose /\ active_request' = NULL
    <3>1. PICK id, rest : id = m.id /\ rest = <<>>
      OBVIOUS
    <3> QED
      BY ZenonT(60), <1>9, <3>1, RespondReplies
  <2> QED
    BY ZenonT(60), <1>7, <1>9, <2>1, Same DEF Flow!Passed
<1>10. CASE synth_response_unexpected(m)
  BY ZenonT(60), <1>6, <1>10 DEF synth_response_unexpected, synthVars
<1>11. CASE synth_response_plain(m)
  BY <1>9, <1>11 DEF synth_response_plain, Flow!Starts
<1>12. CASE synth_response_speak(m)
  <2>1. /\ Responding(m, "SPEAK") /\ UNCHANGED <<active, queue>>
        /\ speaker' \in {active_request, speaker}
    BY <1>12 DEF synth_response_speak
  <2>2. Flow!HearingResponse(m) /\ m.method \in Flow!Starts
    BY ZenonT(60), <1>7, <2>1 DEF Flow!Starts
  <2>3. CASE is_pending
    BY ZenonT(60), <1>12, <2>1, <2>2, <2>3, Same DEF synth_response_speak, Flow!Started, requestVars,
       Flow!requestVars
  <2>4. CASE ~is_pending
    <3>1. /\ synth_response_dispatch(m.id, <<>>) /\ UNCHANGED is_pending
          /\ IF active /\ m.state = "COMPLETE" THEN End({m.id}) ELSE UNCHANGED ended
      BY <1>12, <2>4 DEF synth_response_speak
    <3>2. Flow!Reply(m.id, <<>>) /\ Flow!MayClose /\ active_request' = NULL
      <4>1. PICK id, rest : id = m.id /\ rest = <<>>
        OBVIOUS
      <4> QED
        BY <3>1, <4>1, RespondReplies
    <3>3. UNCHANGED ended \/ (UNCHANGED speaker /\ Flow!Ending({m.id}))
      <4>1. CASE active /\ m.state = "COMPLETE"
        <5>1. Flow!Ending({m.id})
          BY ZenonT(60), <3>1, <4>1, EndEnds
        <5> QED
          BY ZenonT(60), <1>12, <4>1, <5>1 DEF synth_response_speak
      <4> QED
        BY ZenonT(60), <3>1, <4>1
    <3> QED
      BY ZenonT(60), <2>1, <2>2, <2>4, <3>1, <3>2, <3>3, Same DEF Flow!Started
  <2> QED
    BY <2>3, <2>4
<1>13. ASSUME NEW method, Responding(m, method), method \notin Flow!Starts, speaker # NULL,
              IF active THEN End({speaker.id} \cup RemovedIds(active_request)) ELSE UNCHANGED ended,
              synth_state_change("IDLE"),
              UNCHANGED <<active, is_pending>>,
              NEW kept, kept = Kept(queue, active_request),
              \/ queue' = kept /\ synth_response_dispatch(m.id, <<>>)
              \/ /\ kept # <<>>
                 /\ queue' = Tail(kept)
                 /\ synth_response_dispatch(m.id, <<PendingCall(Head(kept))>>)
       PROVE  Flow!Stopped(m)
  <2>1. Flow!HearingResponse(m) /\ m.method \notin Flow!Starts
    BY ZenonT(60), <1>7, <1>13
  <2>2. Flow!Ending({speaker.id} \cup Flow!Removed(active_request))
    BY ZenonT(60), <1>13, EndEnds, RemovedSame
  <2>3. speaker' = NULL
    BY <1>13 DEF synth_state_change
  <2>4. /\ active_request' = NULL /\ Flow!MayClose
        /\ \/ queue' = kept /\ Flow!Reply(m.id, <<>>)
           \/ /\ kept # <<>>
              /\ queue' = Tail(kept)
              /\ Flow!Reply(m.id, <<PendingCall(Head(kept))>>)
    <3>1. PICK id, r1, r2 : id = m.id /\ r1 = <<>> /\ r2 = <<PendingCall(Head(kept))>>
      BY ZenonT(60)
    <3> QED
      BY <1>13, <3>1, RespondReplies
  <2>5. kept = Flow!Kept(queue, active_request) /\ PendingCall(Head(kept)) = Flow!PendingCall(Head(kept))
    BY <1>13, Same
  <2> QED
    BY ZenonT(60), <1>13, <2>1, <2>2, <2>3, <2>4, <2>5, Same DEF Flow!Stopped
<1>14. CASE synth_response_stop(m)
  <2>1. CASE NullSpeaker
    BY <1>8, <1>14, <2>1 DEF synth_response_stop
  <2>2. CASE speaker # NULL
    <3>1. PICK kept : kept = Kept(queue, active_request)
      BY ZenonT(60)
    <3>2. /\ Responding(m, "STOP")
          /\ IF active THEN End({speaker.id} \cup RemovedIds(active_request)) ELSE UNCHANGED ended
          /\ synth_state_change("IDLE")
          /\ UNCHANGED <<active, is_pending>>
          /\ IF kept = <<>>
               THEN queue' = <<>> /\ synth_response_dispatch(m.id, <<>>)
               ELSE /\ queue' = Tail(kept)
                    /\ synth_response_dispatch(m.id, <<PendingCall(Head(kept))>>)
      BY ZenonT(60), <1>14, <2>2, <3>1 DEF synth_response_stop, NullSpeaker, Remaining
    <3> QED
      BY <1>13, <2>2, <3>1, <3>2 DEF Flow!Starts
  <2> QED
    BY <1>14, <2>1, <2>2 DEF synth_response_stop
<1>15. CASE synth_response_pause_resume(m)
  <2>1. CASE NullSpeaker
    BY ZenonT(60), <1>8, <1>15, <2>1 DEF synth_response_pause_resume
  <2>2. CASE ~NullSpeaker
    <3>1. PICK method \in {"PAUSE", "RESUME"} : Responding(m, method)
      BY ZenonT(60), <1>15 DEF synth_response_pause_resume
    <3>2. /\ synth_response_dispatch(m.id, <<>>)
          /\ UNCHANGED <<active, is_pending, speaker, queue, ended>>
      BY ZenonT(60), <1>15, <2>2 DEF synth_response_pause_resume, synth_state_change
    <3> QED
      BY ZenonT(60), <1>9, <3>1, <3>2 DEF Flow!Starts
  <2> QED
    BY ZenonT(60), <2>1, <2>2
<1>16. CASE synth_response_barge_in_occurred(m)
  <2>1. CASE NullSpeaker
    BY ZenonT(60), <1>8, <1>16, <2>1 DEF synth_response_barge_in_occurred
  <2>2. CASE speaker # NULL
    <3>1. PICK kept : kept = Kept(queue, active_request)
      OBVIOUS
    <3>2. /\ Responding(m, "BARGE-IN-OCCURRED")
          /\ IF active THEN End({speaker.id} \cup RemovedIds(active_request)) ELSE UNCHANGED ended
          /\ synth_state_change("IDLE")
          /\ UNCHANGED <<active, is_pending>>
          /\ queue' = kept /\ synth_response_dispatch(m.id, <<>>)
      BY <1>16, <2>2, <3>1 DEF synth_response_barge_in_occurred, NullSpeaker, Remaining
    <3> QED
      BY ZenonT(60), <1>13, <2>2, <3>1, <3>2 DEF Flow!Starts
  <2> QED
    BY ZenonT(60), <1>16, <2>1, <2>2 DEF synth_response_barge_in_occurred
<1>17. CASE synth_response_control(m)
  BY <1>8, <1>9, <1>17 DEF synth_response_control, Flow!Starts
<1>18. CASE synth_event_speech_marker(m)
  BY <1>6, <1>18 DEF synth_event_speech_marker, ReceivingEvent, synthVars
<1>19. CASE synth_event_speak_complete(m)
  <2>1. CASE IgnoresComplete(m)
    BY ZenonT(60), <1>6, <1>19, <2>1 DEF synth_event_speak_complete, ReceivingEvent, synthVars
  <2>2. CASE ~IgnoresComplete(m)
    <3>1. /\ Receiving(m) /\ m.type = "event" /\ speaker # NULL /\ speaker.id = m.id
          /\ speaker' = NULL
          /\ IF active THEN End({m.id}) ELSE UNCHANGED ended
          /\ IF queue = <<>>
               THEN UNCHANGED <<queue, is_pending, active_request, engine_in>>
               ELSE /\ queue' = Tail(queue)
                    /\ is_pending' = TRUE
                    /\ active_request' = Head(queue)
                    /\ engine_in' = Append(engine_in, Head(queue))
          /\ UNCHANGED <<requestVars, todo, active>>
      BY ZenonT(60), <1>19, <2>2 DEF synth_event_speak_complete, ReceivingEvent, IgnoresComplete,
         synth_state_change, synth_request_dispatch
    <3>2. Flow!Ending({m.id})
      BY ZenonT(60), <3>1, EndEnds
    <3> QED
      BY ZenonT(60), <1>4, <3>1, <3>2, Same DEF Flow!Completed, requestVars, Flow!requestVars
  <2> QED
    BY ZenonT(60), <2>1, <2>2
<1>20. CASE mrcp_server_on_channel_released(m) /\ UNCHANGED <<synthVars, ended>>
  BY <1>5, <1>20, RemoveMayClose DEF mrcp_server_on_channel_released, synthVars
<1> QED
  BY ZenonT(60), <1>1, <1>10, <1>11, <1>12, <1>14, <1>15, <1>16, <1>17, <1>18, <1>19, <1>20 DEF ServerMessage

(* The engine and the media engine.                                        *)
LEMMA EngineFlows ==
  ASSUME Flow!FlowTypeOK, Media \/ Engine \/ EngineSpontaneous
  PROVE  Flow!EngineAnswers \/ Flow!EngineCloses \/ Flow!EngineCompletes \/ Flow!EngineSignals
<1>1. CASE Media
  <2>1. ~Flow!Completes(Released("subtracted"))
    BY DEF Released, Flow!Completes, Flow!Completions
  <2> QED
    BY <1>1, <2>1, Same DEF Media, MediaStep, MediaSubtract, Flow!EngineSignals, Flow!EngineStep,
       synthVars, requestVars, Flow!requestVars
<1>2. CASE Engine
  <2>1. Flow!EngineStep /\ engine_in # <<>>
    BY ZenonT(60), <1>2, Same DEF Engine, EngineRequest, EngineLeaves, Flow!EngineStep, requestVars,
       Flow!requestVars, synthVars
  <2>2. PICK r : /\ r = Head(engine_in) /\ engine_in' = Tail(engine_in)
                 /\ \/ engine_speak(r)
                    \/ engine_stop(r)
                    \/ engine_pause_resume(r)
                    \/ engine_other(r)
                    \/ engine_close(r)
    BY ZenonT(60), <1>2 DEF Engine, EngineRequest, engine_speak, engine_stop, engine_pause_resume, engine_other,
       engine_close, Answer, EngineTakes
  <2>3. CASE r = CLOSE
    <3>1. r.method = "CLOSE"
      BY <2>3 DEF CLOSE, Message
    <3>2. engine_close(r)
      BY ZenonT(60), <2>2, <3>1 DEF engine_speak, engine_stop, engine_pause_resume, engine_other
    <3>3. engine_out' = Append(engine_out, Released("closed")) /\ engine_speaks' \subseteq engine_speaks
      BY <3>2 DEF engine_close, Answer
    <3> QED
      BY <2>1, <2>2, <2>3, <3>3, Same DEF Flow!EngineCloses
  <2>4. CASE r # CLOSE
    <3>1. PICK s \in {"INPROGRESS", "COMPLETE"}, ok \in BOOLEAN :
            /\ engine_out' = Append(engine_out, ResponseTo(r, s, ok))
            /\ engine_speaks' \subseteq engine_speaks \cup
                 (IF r.method \in Flow!Starts /\ s = "INPROGRESS" THEN {r.id} ELSE {})
      <4>1. CASE engine_speak(r)
        BY ZenonT(60), <4>1 DEF engine_speak, Answer, Flow!Starts
      <4>2. CASE engine_stop(r)
        BY ZenonT(60), <4>2 DEF engine_stop, Answer
      <4>3. CASE engine_pause_resume(r)
        BY <4>3 DEF engine_pause_resume, Answer
      <4>4. CASE engine_other(r)
        BY ZenonT(60), <4>4 DEF engine_other, Answer
      <4> QED
        BY <2>2, <2>4, <4>1, <4>2, <4>3, <4>4 DEF engine_close
    <3> QED
      BY <2>1, <2>2, <2>4, <3>1, Same DEF Flow!EngineAnswers
  <2> QED
    BY ZenonT(60), <2>3, <2>4
<1>3. CASE EngineSpontaneous
  <2>1. Flow!EngineStep
    BY <1>3, Same DEF EngineSpontaneous, EngineEvent, EngineLeaves, Flow!EngineStep, requestVars,
       Flow!requestVars, synthVars
  <2>2. CASE engine_complete
    BY <2>1, <2>2, Same DEF engine_complete, Flow!EngineCompletes, Flow!Completions
  <2>3. CASE engine_marker
    <3>1. PICK i \in engine_speaks : engine_out' = Append(engine_out, EventOf(i, "SPEECH-MARKER"))
      BY ZenonT(60), <2>3 DEF engine_marker
    <3>2. ~Flow!Completes(EventOf(i, "SPEECH-MARKER"))
      BY ZenonT(60) DEF EventOf, Flow!Completes, Flow!Completions
    <3>3. i \in Ids
      BY Same DEF Flow!FlowTypeOK
    <3> QED
      BY <2>1, <2>3, <3>1, <3>2, <3>3, Same DEF engine_marker, Flow!EngineSignals, Flow!Signals
  <2> QED
    BY <1>3, <2>2, <2>3 DEF EngineSpontaneous, EngineEvent
<1> QED
  BY ZenonT(60), <1>1, <1>2, <1>3

(* Every step of the channel is one of RequestFlow, or changes none of its *)
(* variables.                                                              *)
LEMMA StepFlows ==
  ASSUME Flow!FlowTypeOK, [Next]_vars
  PROVE  [Flow!FlowNext]_Flow!flowVars
<1>1. CASE UNCHANGED vars
  BY <1>1, Same DEF vars, serverVars, controlVars, synthVars, Flow!flowVars
<1>2. CASE Next
  BY ZenonT(60), <1>2, ClientAsks, ServerCallFlows, ServerMessageFlows, EngineFlows
     DEF Next, Server, ServerStep, Flow!FlowNext
<1> QED
  BY ZenonT(60), <1>1, <1>2

Proofs == INSTANCE FlowProofs
            WITH current <- speaker, state <- "SPEAKING", working <- engine_speaks

(* The proofs of FlowProofs are about the same system: the definitions     *)
(* they share with the instance Flow of RequestFlow are the same.          *)
LEMMA SameFlow ==
  /\ Proofs!FlowTypeOK <=> Flow!FlowTypeOK
  /\ [Flow!FlowNext]_Flow!flowVars => [Proofs!FlowNext]_Proofs!flowVars
  /\ Proofs!Ids = Ids /\ Proofs!NULL = NULL /\ Proofs!Serving = speaker
<1>1. Proofs!FlowTypeOK <=> Flow!FlowTypeOK
  BY ZenonT(60) DEF Flow!Serving, Proofs!Serving, Flow!Busy, Proofs!Busy, Flow!Starts, Proofs!Starts,
         Flow!Completions, Proofs!Completions, Flow!Signals, Proofs!Signals, Flow!CLOSE, Proofs!CLOSE, Flow!Call, Proofs!Call, Flow!FlowTypeOK, Proofs!FlowTypeOK,
         Flow!Heard, Proofs!Heard, Flow!Ids, Proofs!Ids, Flow!Message, Proofs!Message, Flow!NULL,
         Proofs!NULL, Flow!Request, Proofs!Request, Flow!StartRequest, Proofs!StartRequest,
         Flow!TERMINATE, Proofs!TERMINATE
<1>2. /\ Proofs!Ask <=> Flow!Ask
      /\ Proofs!AskTerminate <=> Flow!AskTerminate
      /\ Proofs!Resubmit <=> Flow!Resubmit
      /\ Proofs!Deactivate <=> Flow!Deactivate
  BY ZenonT(60) DEF Flow!Serving, Proofs!Serving, Flow!Busy, Proofs!Busy, Flow!Starts, Proofs!Starts,
         Flow!Completions, Proofs!Completions, Flow!Signals, Proofs!Signals, Flow!Ask, Proofs!Ask, Flow!AskTerminate, Proofs!AskTerminate, Flow!CLOSE,
               Proofs!CLOSE, Flow!Deactivate, Proofs!Deactivate, Flow!DispatchCall,
               Proofs!DispatchCall, Flow!Ids, Proofs!Ids, Flow!InternalStop, Proofs!InternalStop,
               Flow!Message, Proofs!Message, Flow!NULL, Proofs!NULL, Flow!NoTerminate,
               Proofs!NoTerminate, Flow!Process, Proofs!Process, Flow!Request, Proofs!Request,
               Flow!Resubmit, Proofs!Resubmit, Flow!TERMINATE, Proofs!TERMINATE, Flow!Taking,
               Proofs!Taking, Flow!mrcp_server_signaling_message_process,
               Proofs!mrcp_server_signaling_message_process, Flow!requestVars, Proofs!requestVars
<1>3. Proofs!TakeCall <=> Flow!TakeCall
  BY ZenonT(60) DEF Flow!Serving, Proofs!Serving, Flow!Busy, Proofs!Busy, Flow!Starts, Proofs!Starts,
         Flow!Completions, Proofs!Completions, Flow!Signals, Proofs!Signals, Flow!CLOSE, Proofs!CLOSE, Flow!DispatchCall, Proofs!DispatchCall,
               Flow!DispatchResponse, Proofs!DispatchResponse, Flow!Ending, Proofs!Ending,
               Flow!Forward, Proofs!Forward, Flow!Ids, Proofs!Ids, Flow!Kept, Proofs!Kept,
               Flow!MayClose, Proofs!MayClose, Flow!Message, Proofs!Message, Flow!NULL, Proofs!NULL,
               Flow!Removed, Proofs!Removed, Flow!Reply, Proofs!Reply, Flow!Selects, Proofs!Selects,
               Flow!Settle, Proofs!Settle, Flow!TERMINATE, Proofs!TERMINATE, Flow!TakeCall,
               Proofs!TakeCall, Flow!Taking, Proofs!Taking, Flow!requestVars, Proofs!requestVars
<1>4. Proofs!TakeMessage <=> Flow!TakeMessage
  BY ZenonT(60) DEF Flow!Serving, Proofs!Serving, Flow!Busy, Proofs!Busy, Flow!Starts, Proofs!Starts,
         Flow!Completions, Proofs!Completions, Flow!Signals, Proofs!Signals, Flow!CLOSE, Proofs!CLOSE, Flow!Completed, Proofs!Completed, Flow!DispatchCall,
               Proofs!DispatchCall, Flow!DispatchResponse, Proofs!DispatchResponse, Flow!Dropped,
               Proofs!Dropped, Flow!Ending, Proofs!Ending, Flow!Hearing, Proofs!Hearing,
               Flow!HearingResponse, Proofs!HearingResponse, Flow!Ids, Proofs!Ids, Flow!Kept,
               Proofs!Kept, Flow!MayClose, Proofs!MayClose, Flow!Message, Proofs!Message, Flow!NULL,
               Proofs!NULL, Flow!Passed, Proofs!Passed, Flow!PendingCall, Proofs!PendingCall,
               Flow!Removed, Proofs!Removed, Flow!Reply, Proofs!Reply, Flow!Selects, Proofs!Selects,
               Flow!Started, Proofs!Started, Flow!Stopped, Proofs!Stopped, Flow!TakeMessage,
               Proofs!TakeMessage, Flow!requestVars, Proofs!requestVars
<1>5. /\ Proofs!EngineAnswers <=> Flow!EngineAnswers
      /\ Proofs!EngineCloses <=> Flow!EngineCloses
      /\ Proofs!EngineCompletes <=> Flow!EngineCompletes
  BY ZenonT(60) DEF Flow!Serving, Proofs!Serving, Flow!Busy, Proofs!Busy, Flow!Starts, Proofs!Starts,
         Flow!Completions, Proofs!Completions, Flow!Signals, Proofs!Signals, Flow!CLOSE, Proofs!CLOSE, Flow!EngineAnswers, Proofs!EngineAnswers,
               Flow!EngineCloses, Proofs!EngineCloses, Flow!EngineCompletes, Proofs!EngineCompletes,
               Flow!EngineStep, Proofs!EngineStep, Flow!EventOf, Proofs!EventOf, Flow!Message,
               Proofs!Message, Flow!NULL, Proofs!NULL, Flow!Released, Proofs!Released,
               Flow!ResponseTo, Proofs!ResponseTo, Flow!requestVars, Proofs!requestVars
<1>6. Proofs!EngineSignals <=> Flow!EngineSignals
  BY DEF Flow!Serving, Proofs!Serving, Flow!Busy, Proofs!Busy, Flow!Starts, Proofs!Starts,
         Flow!Completions, Proofs!Completions, Flow!Signals, Proofs!Signals, Flow!Completes, Proofs!Completes, Flow!EngineSignals, Proofs!EngineSignals,
         Flow!EngineStep, Proofs!EngineStep, Flow!EventOf, Proofs!EventOf, Flow!Ids, Proofs!Ids,
         Flow!Message, Proofs!Message, Flow!NULL, Proofs!NULL, Flow!Released, Proofs!Released,
         Flow!requestVars, Proofs!requestVars
<1>7. Flow!FlowNext => Proofs!FlowNext
  BY ZenonT(60), <1>2, <1>3, <1>4, <1>5, <1>6 DEF Flow!FlowNext, Proofs!FlowNext
<1>8. UNCHANGED Flow!flowVars => UNCHANGED Proofs!flowVars
  BY ZenonT(60) DEF Flow!Serving, Proofs!Serving, Flow!Busy, Proofs!Busy, Flow!Starts, Proofs!Starts,
         Flow!Completions, Proofs!Completions, Flow!Signals, Proofs!Signals, Flow!flowVars, Proofs!flowVars, Flow!requestVars, Proofs!requestVars
<1>9. Proofs!Ids = Ids /\ Proofs!NULL = NULL /\ Proofs!Serving = speaker
  BY ZenonT(60) DEF Proofs!Ids, Ids, Proofs!NULL, NULL, Proofs!Message, Message, Proofs!Serving, Proofs!Busy
<1> QED
  BY ZenonT(60), <1>1, <1>7, <1>8, <1>9

(* Initially, and therefore always, the invariant of RequestFlow holds.    *)
THEOREM RequestsFlow == Spec => [](Proofs!FlowInv /\ Proofs!QueueOrdered)
<1>1. Init => Proofs!FlowInit
  BY ZenonT(60), SameFlow DEF Init, SynthInit, ControlInit, Proofs!FlowInit, Proofs!ControlInit
<1>3. ASSUME Proofs!FlowInv /\ Proofs!QueueOrdered, [Next]_vars
      PROVE  (Proofs!FlowInv /\ Proofs!QueueOrdered)'
  <2>1. [Proofs!FlowNext]_Proofs!flowVars
    BY ZenonT(60), <1>3, StepFlows, SameFlow DEF Proofs!FlowInv
  <2> QED
    BY ZenonT(60), <1>3, <2>1, ControlAssumption, Proofs!FlowStep, Proofs!OrderStep
<1>4. Init => Proofs!FlowInv /\ Proofs!QueueOrdered
  BY ZenonT(60), <1>1, ControlAssumption, Proofs!FlowInitially, Proofs!OrderInitially
<1> QED
  BY <1>3, <1>4, PTL DEF Spec

(* A SPEAK is reported over at most once, whatever the engine answers and  *)
(* however SPEAK-COMPLETE, STOP, BARGE-IN-OCCURRED and the deactivation    *)
(* STOP cross; the requests in the queue keep the order they were sent in. *)
THEOREM SpeaksInOrderInvariant == Spec => []SpeaksInOrder
<1>1. ASSUME Proofs!FlowInv, Proofs!QueueOrdered PROVE SpeaksInOrder
  <2>1. ASSUME NEW i \in Ids PROVE /\ ended[i] <= 1
                                   /\ ended[i] = 1 => /\ speaker.id # i
                                                      /\ \A k \in DOMAIN queue : queue[k].id # i
    <3>1. /\ ended[i] <= 1
          /\ speaker.id # 0 => ended[speaker.id] = 0
          /\ Proofs!Waits(i) => ended[i] = 0
      BY ZenonT(60), <1>1, SameFlow DEF Proofs!FlowInv, Proofs!EndInv
    <3>2. i # 0
      BY DEF Ids
    <3> QED
      BY <3>1, <3>2 DEF Proofs!Waits
  <2> QED
    BY ZenonT(60), <1>1, <2>1 DEF SpeaksInOrder, EndedOnce, PendingInOrder, Proofs!QueueOrdered
<1> QED
  BY <1>1, RequestsFlow, PTL

(* A response leaves for the request the session has made active, and no   *)
(* request gets a second one.                                              *)
THEOREM AnswersActiveOnceHolds == Spec => AnswersActiveOnce
<1>1. Proofs!FlowInv => AnsweredAtMostOnce
  BY ZenonT(60), SameFlow DEF Proofs!FlowInv, Proofs!AnswerInv, AnsweredAtMostOnce
<1>2. Proofs!FlowInv /\ [Next]_vars =>
         [\A i \in Ids : answered'[i] # answered[i] => session_active.id = i]_controlVars
  <2> SUFFICES ASSUME Proofs!FlowInv, [Next]_vars
               PROVE  \A i \in Ids : answered'[i] # answered[i] => session_active.id = i
    BY ZenonT(60)
  <2>1. [Proofs!FlowNext]_Proofs!flowVars
    BY ZenonT(60), StepFlows, SameFlow DEF Proofs!FlowInv
  <2>2. Proofs!OnlyActiveAnswered
    BY ZenonT(60), <2>1, ControlAssumption, Proofs!FlowAnswersActive
  <2> QED
    BY ZenonT(60), <2>2, SameFlow DEF Proofs!OnlyActiveAnswered
<1> QED
  BY <1>1, <1>2, RequestsFlow, PTL DEF Spec, AnswersActiveOnce, ResponseForActive
=============================================================================
