---------------------------- MODULE ResourceSteps -----------------------------
(***************************************************************************)
(* What a channel of a recognizer, a recorder or a verifier does, in one   *)
(* form for the three (MachineNext), between ResourceChannels, which is    *)
(* shown to take these steps in ResourceProofs, and RequestFlow, whose     *)
(* steps they are (StepFlows) with Serving, current while the state says   *)
(* so, as the request in progress.  Then what the steps keep of the state  *)
(* machine (MachineStep).                                                  *)
(***************************************************************************)
EXTENDS InProgressMachines, TLAPS

VerifyMethods == {"VERIFY", "VERIFY-FROM-BUFFER"}

(* The requests of a client are no TERMINATE, no CLOSE and not NULL.       *)
LEMMA RequestFacts ==
  /\ NULL.id = 0 /\ NULL.method = "NULL" /\ TERMINATE.id = 0 /\ CLOSE.id = 0
  /\ TERMINATE.method = "TERMINATE" /\ CLOSE.method = "CLOSE"
  /\ Ids \subseteq Nat /\ 0 \notin Ids
  /\ \A r \in Request : r.id \in Ids /\ r # NULL /\ r # CLOSE /\ r # TERMINATE
<1>1. /\ NULL.id = 0 /\ NULL.method = "NULL" /\ TERMINATE.id = 0 /\ CLOSE.id = 0
      /\ TERMINATE.method = "TERMINATE" /\ CLOSE.method = "CLOSE"
  BY DEF NULL, TERMINATE, CLOSE, Message
<1>2. Ids \subseteq Nat /\ 0 \notin Ids
  BY ControlAssumption DEF Ids
<1> QED
  BY <1>1, <1>2 DEF Request

(* A sub-request that is over sends the engine nothing or closes it.       *)
LEMMA RemoveMayClose ==
  ASSUME mrcp_server_session_subrequest_remove
  PROVE  MayClose
BY DEF mrcp_server_session_subrequest_remove, mrcp_server_session_terminate_process,
            MayClose, terminationVars

(* Before deactivation a response goes to the client.                      *)
LEMMA RespondReplies ==
  ASSUME NEW id, NEW rest, response_dispatch(id, rest)
  PROVE  Reply(id, rest) /\ MayClose /\ active_request' = NULL
<1>1. CASE active
  BY <1>1 DEF response_dispatch, Reply, DispatchResponse, MayClose
<1>2. CASE ~active
  BY <1>2, RemoveMayClose DEF response_dispatch, Reply, requestVars, state_machine_on_deactivate
<1> QED
  BY <1>1, <1>2 DEF response_dispatch

(* A client that is gone is told nothing.                                  *)
LEMMA EndingNone == \A S, T : Ending(S) /\ ~active => Ending(T)
BY DEF Ending

-----------------------------------------------------------------------------
(***************************************************************************)
(* The inductive invariant adds to FlowInv how the state, current and *)
(* the engine agree.                                                       *)
(***************************************************************************)

StateInv ==
    /\ resource \in {"recog", "recorder", "verifier"}
    /\ resource = "recog" => state \in {"IDLE", "RECOGNIZING", "RECOGNIZED"}
    /\ resource = "recorder" => state \in {"IDLE", "RECORDING"}
    /\ resource = "verifier" => state \in {"IDLE", "OPENED", "VERIFYING"}
    /\ current \in Request \cup {NULL}

(* Only the recognizer queues; a STOP keeps nothing of an empty queue.     *)
PlainInv ==
    /\ resource # "recog" => queue = <<>> /\ is_pending = FALSE
    /\ queue = <<>> => \A r : Kept(queue, r) = <<>>

(* A STOP is with the engine only while there is a request to stop.        *)
StopInv == active /\ active_request.method = "STOP" => state \in Busy

(* A recorder and a verifier give their engine one request at a time.      *)
OneInv == resource # "recog" => OneAtATime

(* A request that current keeps and that is not in progress is over, or it *)
(* is the VERIFY that the engine has not answered.                         *)
DoneInv ==
    active /\ current # NULL /\ state \notin Busy =>
        \/ ended[current.id] = 1 /\ ~Begun(current.id)
        \/ /\ resource = "verifier" /\ current = active_request
           /\ current.method \in VerifyMethods
           /\ InEngine(current.id) \/ Responded(current.id)

(* A verifier's engine that has answered STOP works on nothing.            *)
ClearInv ==
    active /\ resource = "verifier" => \A k \in DOMAIN engine_out :
        engine_out[k].type = "response" /\ engine_out[k].method = "STOP" =>
            /\ working = {}
            /\ \A j \in DOMAIN engine_out : k < j => ~Completes(engine_out[j])

(* No verification starts while one is in progress.                        *)
OpenInv ==
    /\ active /\ resource = "verifier"
    /\ active_request.method \in {"START-SESSION"} \cup VerifyMethods
    => state # "VERIFYING"

(* The VERIFY that the state machine waits for is the one current keeps.   *)
VerifyInv ==
    resource = "verifier" /\ active_request # NULL =>
        /\ \A k \in DOMAIN engine_in :
             engine_in[k].method \in VerifyMethods /\ engine_in[k].id = active_request.id =>
                 current = active_request
        /\ \A k \in DOMAIN engine_out :
             /\ engine_out[k].type = "response" /\ engine_out[k].method \in VerifyMethods
             /\ engine_out[k].id = active_request.id
             => current = active_request

ResourceInv ==
    /\ FlowInv /\ ResponseFirst
    /\ StateInv /\ PlainInv /\ StopInv /\ OneInv /\ DoneInv /\ ClearInv /\ OpenInv
    /\ VerifyInv /\ InProgressMatchesState

-----------------------------------------------------------------------------
(***************************************************************************)
(* What the state machines do with a request, one of three things.         *)
(***************************************************************************)

(* It goes to the engine.                                                  *)
Sends(r) ==
    /\ ToEngine(r)
    /\ r.method = "STOP" => state \in Busy
    /\ resource = "verifier" /\ r.method = "START-SESSION" => state # "VERIFYING"
    /\ \/ /\ resource = "verifier" => r.method \notin VerifyMethods
          /\ UNCHANGED <<state, current>>
       \/ /\ resource = "verifier" /\ r.method \in VerifyMethods /\ state = "OPENED"
          /\ UNCHANGED state /\ current' = r
       \/ /\ resource = "recog" /\ r.method # "STOP" /\ state \notin Busy
          /\ state' = "IDLE" /\ current' = NULL
    /\ UNCHANGED <<queue, ended>>

(* The state machine answers it.                                           *)
Settles(r) ==
    /\ Respond(r)
    /\ \/ UNCHANGED <<state, current>>
       \/ resource = "recog" /\ state = "RECOGNIZED" /\ state' = "IDLE" /\ current' = NULL
    /\ \/ UNCHANGED <<queue, ended>>
       \/ r.method = "RECOGNIZE" /\ queue' = Append(queue, r) /\ UNCHANGED ended
       \/ queue' = Kept(queue, r) /\ Ending(Removed(r))

Calls(r) ==
    /\ todo # <<>> /\ Head(todo) = DispatchCall(r) /\ r.method # "TERMINATE"
    /\ Sends(r) \/ Settles(r)
    /\ UNCHANGED <<sent, engine_out, working, active, is_pending>>

Deactivates ==
    /\ \E busy \in Busy : state_deactivate(busy)
    /\ UNCHANGED <<sent, engine_out, working, recogVars>>

Resumes ==
    /\ resource = "recog" /\ ProcessPending
    /\ UNCHANGED <<sent, engine_out, working>>

-----------------------------------------------------------------------------
(***************************************************************************)
(* What they do with a message of the engine, one of six things.           *)
(***************************************************************************)

(* Nothing, but the session may go on with its termination; a STOP that    *)
(* finds no request to stop crashes.                                       *)
Ignores(m) ==
    /\ m.type = "response" => ~Awaited(m) \/ current = NULL
    /\ MayClose
    /\ UNCHANGED <<requestVars, todo, state, active_request, current, ended, is_pending, queue>>

(* A response that is only passed on; the verifier's session may begin or  *)
(* end with it.                                                            *)
PassesOn(m) ==
    /\ m.type = "response" /\ Awaited(m) /\ m.method \notin Starts
    /\ response_dispatch(m.id, <<>>)
    /\ \/ UNCHANGED <<state, current>>
       \/ /\ resource = "verifier" /\ m.method = "START-SESSION"
          /\ state' = "OPENED" /\ UNCHANGED current
       \/ resource = "verifier" /\ state' = "IDLE" /\ current' = NULL
    /\ UNCHANGED <<ended, is_pending, queue>>

(* The response to RECOGNIZE or RECORD.                                    *)
BeginsWork(m) ==
    /\ m.type = "response" /\ Awaited(m) /\ m.method \in {"RECOGNIZE", "RECORD"}
    /\ resource # "verifier"
    /\ IF m.state = "INPROGRESS"
         THEN /\ state' = (IF resource = "recog" THEN "RECOGNIZING" ELSE "RECORDING")
              /\ current' = active_request
         ELSE UNCHANGED <<state, current>>
    /\ IF is_pending
         THEN /\ is_pending' = FALSE
              /\ UNCHANGED <<requestVars, todo, engine_in, active_request, ended>>
         ELSE /\ response_dispatch(m.id, <<>>)
              /\ IF m.state = "COMPLETE" THEN Ending({m.id}) ELSE UNCHANGED ended
              /\ UNCHANGED is_pending
    /\ UNCHANGED queue

(* The response to VERIFY.                                                 *)
Verifies(m) ==
    /\ m.type = "response" /\ Awaited(m) /\ m.method \in VerifyMethods
    /\ resource = "verifier"
    /\ response_dispatch(m.id, <<>>)
    /\ state' = "VERIFYING"
    /\ UNCHANGED <<current, ended, is_pending, queue>>

(* The response to STOP.                                                   *)
Stops(m) ==
    /\ m.type = "response" /\ Awaited(m) /\ m.method = "STOP" /\ current # NULL
    /\ Ending({current.id} \cup Removed(active_request))
    /\ IF resource = "verifier"
         THEN state' = "OPENED" /\ UNCHANGED current
         ELSE state' = "IDLE" /\ current' = NULL
    /\ \E kept : /\ kept = Kept(queue, active_request)
                 /\ \/ queue' = kept /\ response_dispatch(m.id, <<>>)
                    \/ /\ kept # <<>> /\ queue' = Tail(kept)
                       /\ response_dispatch(m.id, <<PendingCall(Head(kept))>>)
    /\ UNCHANGED is_pending

(* The event that ends the request that current is.                        *)
Finishes(m) ==
    /\ Completes(m) /\ current # NULL /\ current.id = m.id
    /\ active_request.method # "STOP"
    /\ Ending({m.id})
    /\ state' = (IF resource = "recog" THEN "RECOGNIZED"
                 ELSE IF resource = "recorder" THEN "IDLE" ELSE "OPENED")
    /\ current' = (IF resource = "recorder" THEN NULL ELSE current)
    /\ IF queue = <<>>
         THEN UNCHANGED <<queue, is_pending, active_request, engine_in>>
         ELSE /\ queue' = Tail(queue) /\ is_pending' = TRUE
              /\ active_request' = Head(queue) /\ engine_in' = Append(engine_in, Head(queue))
    /\ UNCHANGED <<requestVars, todo>>

Hears(m) ==
    /\ Receiving(m) /\ UNCHANGED <<sent, active, working>>
    /\ Ignores(m) \/ PassesOn(m) \/ BeginsWork(m) \/ Verifies(m) \/ Stops(m) \/ Finishes(m)

-----------------------------------------------------------------------------
(***************************************************************************)
(* The steps of the engine, the media engine and the client.               *)
(***************************************************************************)

(* What an engine does with the next request.                              *)
Took(r) ==
    /\ engine_in' = Tail(engine_in)
    /\ \/ /\ r = CLOSE
          /\ engine_out' = Append(engine_out, Released("closed"))
          /\ working' = {}
       \/ /\ r # CLOSE
          /\ \E s \in {"INPROGRESS", "COMPLETE"}, ok \in BOOLEAN :
               /\ engine_out' = Append(engine_out, ResponseTo(r, s, ok))
               /\ working' \subseteq working \cup
                    (IF r.method \in Starts /\ s = "INPROGRESS" THEN {r.id} ELSE {})
          /\ r.method = "STOP" => working' = {}

(* The machine is not involved.                                            *)
Rests == UNCHANGED <<sent, requestVars, todo, machineVars, recogVars, resource>>

(* The events of an engine.                                                *)
Tells(i) ==
    \/ /\ \E method \in {"RECOGNITION-COMPLETE", "RECORD-COMPLETE", "VERIFICATION-COMPLETE"} :
            engine_out' = Append(engine_out, EventOf(i, method))
       /\ working' = working \ {i}
    \/ /\ engine_out' = Append(engine_out, EventOf(i, "START-OF-INPUT"))
       /\ UNCHANGED working

EngineTook == Rests /\ engine_in # <<>> /\ Took(Head(engine_in))

EngineTold == Rests /\ UNCHANGED engine_in /\ \E i \in working : Tells(i)

MediaTold ==
    /\ Rests /\ UNCHANGED <<engine_in, working>>
    /\ engine_out' = Append(engine_out, Released("subtracted"))

(* Only the session and the termination go on.                             *)
Waiting == UNCHANGED <<engine_in, engine_out, working, machineVars, recogVars, resource>>

ServerDone ==
    /\ (\E r : Calls(r)) \/ Deactivates \/ Resumes \/ (\E m : Hears(m))
    /\ UNCHANGED resource
    /\ resource # "recog" => UNCHANGED recogVars

MachineNext ==
    \/ (Ask \/ AskTerminate) /\ Waiting
    \/ ServerDone
    \/ EngineTook \/ EngineTold \/ MediaTold
    \/ UNCHANGED <<sent, requestVars, todo>> /\ Waiting

-----------------------------------------------------------------------------
(***************************************************************************)
(* The steps are those of RequestFlow.                                     *)
(***************************************************************************)

(* A request that goes to the engine is forwarded, another is settled.     *)
LEMMA CallFlows ==
  ASSUME NEW r, Calls(r)
  PROVE  TakeCall /\ Taking(r)
<1>1. r # TERMINATE /\ Head(todo).req = r /\ todo # <<>>
  BY RequestFacts DEF Calls, DispatchCall
<1>2. UNCHANGED Serving
  BY DEF Calls, Sends, Settles, Serving, Busy
<1>3. Taking(r)
  BY <1>2 DEF Calls, Taking
<1>4. CASE Sends(r)
  <2>1. Forward(r)
    BY <1>1, <1>3, <1>4 DEF Calls, Sends, Forward, ToEngine, request_dispatch, requestVars
  <2> QED
    BY <1>1, <1>3, <2>1 DEF TakeCall
<1>5. CASE Settles(r)
  <2>1. PICK id, rest : id = r.id /\ rest = Tail(todo)
    BY ZenonT(60)
  <2>2. response_dispatch(id, rest)
    BY <1>5, <2>1 DEF Settles, Respond
  <2>3. Reply(id, rest) /\ MayClose /\ active_request' = NULL
    BY <2>2, RespondReplies
  <2>4. \/ UNCHANGED <<queue, ended>>
        \/ r.method \in Starts /\ queue' = Append(queue, r) /\ UNCHANGED ended
        \/ queue' = Kept(queue, r) /\ Ending(Removed(r))
    BY <1>5, EndingNone DEF Settles, Starts
  <2>5. Settle(r)
    BY <1>1, <1>3, <2>1, <2>3, <2>4 DEF Calls, Settle
  <2> QED
    BY <1>1, <1>3, <2>5 DEF TakeCall
<1> QED
  BY <1>4, <1>5 DEF Calls

(* A deactivation is the one of RequestFlow.                               *)
LEMMA DeactivateFlows ==
  ASSUME Deactivates
  PROVE  Deactivate
<1>1. PICK busy \in Busy : state_deactivate(busy)
  BY DEF Deactivates
<1>2. PICK stops \in BOOLEAN : stops <=> (state = busy /\ current # NULL)
  BY ZenonT(60)
<1>3. /\ todo # <<>> /\ Head(todo) = DispatchCall(TERMINATE) /\ todo' = Tail(todo)
      /\ active' = FALSE
      /\ UNCHANGED <<sent, engine_out, working, requestVars, state, is_pending, current, queue,
                     ended>>
      /\ stops => request_dispatch(InternalStop(current))
      /\ ~stops => UNCHANGED active_request /\ engine_in' = Append(engine_in, CLOSE)
  BY <1>1, <1>2 DEF Deactivates, state_deactivate, Dispatching, mrcp_server_session_deactivate,
     mrcp_server_session_terminate_process, recogVars
<1>4. UNCHANGED Serving /\ (stops => Serving = current /\ current # NULL)
  BY <1>2, <1>3 DEF Serving
<1>5. Taking(TERMINATE)
  BY <1>3, <1>4 DEF Taking
<1> QED
  BY <1>3, <1>4, <1>5 DEF Deactivate, request_dispatch, requestVars

(* The request taken from the recognizer's queue goes to the engine as in  *)
(* RequestFlow.                                                            *)
LEMMA ResumeFlows ==
  ASSUME Resumes
  PROVE  Resubmit
<1>1. UNCHANGED Serving
  BY DEF Resumes, ProcessPending, Serving
<1> QED
  BY <1>1 DEF Resumes, ProcessPending, Resubmit, request_dispatch, requestVars

-----------------------------------------------------------------------------
(* The messages.                                                           *)

(* The response to active_request has its method: before deactivation the  *)
(* engine answers only what the client sent.                               *)
LEMMA AwaitedMethod ==
  ASSUME FlowInv, active, NEW m, Receiving(m), m.type = "response", Awaited(m)
  PROVE  m.method = active_request.method /\ m.id \in Ids
<1>1. engine_out \in Seq(Heard) /\ active_request \in Request
  BY DEF FlowInv, FlowTypeOK, Awaited
<1>2. 1 \in DOMAIN engine_out /\ engine_out[1] = m
  BY <1>1 DEF Receiving
<1>3. EngineInv /\ ActiveInv
  BY DEF FlowInv, PlaceInv
<1>4. active_request.id \in Ids /\ active_request.id # 0
  BY <1>1, RequestFacts
<1>5. m.method = sent[m.id].method
  BY <1>2, <1>3 DEF EngineInv
<1>6. sent[active_request.id] = active_request
  BY <1>3, <1>4 DEF ActiveInv, Known
<1> QED
  BY <1>4, <1>5, <1>6 DEF Awaited

(* A completion of the request that current keeps finds it in progress.    *)
LEMMA CompletedBusy ==
  ASSUME FlowInv, ResponseFirst, StateInv, DoneInv, active,
         NEW m, Receiving(m), Completes(m), current # NULL, current.id = m.id
  PROVE  state \in Busy
<1>1. engine_out \in Seq(Heard)
  BY DEF FlowInv, FlowTypeOK
<1>2. 1 \in DOMAIN engine_out /\ engine_out[1] = m /\ DOMAIN engine_out \subseteq Nat
      /\ \A k \in DOMAIN engine_out : k # 1 => 1 < k
  BY <1>1 DEF Receiving
<1>3. current.id \in Ids /\ m.type = "event"
  BY RequestFacts DEF StateInv, Completes
<1>4. Begun(current.id)
  BY <1>2 DEF Begun
<1>5. ~InEngine(current.id)
  BY <1>3, <1>4 DEF FlowInv, PlaceInv, WorkInv
<1>6. ~Responded(current.id)
  BY <1>2, <1>3 DEF ResponseFirst, Responded
<1> QED
  BY <1>4, <1>5, <1>6 DEF DoneInv

(* The VERIFY whose response comes is the one current keeps.               *)
LEMMA VerifyMethod ==
  ASSUME FlowTypeOK, VerifyInv, resource = "verifier",
         NEW m, Receiving(m), m.type = "response", Awaited(m), m.method \in VerifyMethods
  PROVE  current = active_request
<1>1. engine_out \in Seq(Heard)
  BY DEF FlowTypeOK
<1>2. 1 \in DOMAIN engine_out /\ engine_out[1] = m
  BY <1>1 DEF Receiving
<1> QED
  BY <1>2 DEF VerifyInv, Awaited

(* A message of the engine is taken as in RequestFlow, by each of the      *)
(* three state machines.                                                   *)
LEMMA MessageFlows ==
  ASSUME FlowInv, ResponseFirst, StateInv, PlainInv, StopInv, DoneInv, VerifyInv,
         NEW m, Hears(m)
  PROVE  TakeMessage
<1>1. /\ Receiving(m) /\ UNCHANGED <<sent, active, working>> /\ Hearing(m)
      /\ engine_out # <<>> /\ m = Head(engine_out) /\ FlowTypeOK
  BY DEF Hears, Receiving, Hearing, FlowInv
<1> SUFFICES \/ Dropped(m) \/ Passed(m) \/ Started(m) \/ Stopped(m)
             \/ Completed(m)
  BY <1>1 DEF TakeMessage
<1>2. m.type = "response" /\ Awaited(m) => HearingResponse(m)
  BY <1>1 DEF HearingResponse, Awaited
<1>3. ASSUME NEW rest, response_dispatch(m.id, rest)
      PROVE  Reply(m.id, rest) /\ MayClose /\ active_request' = NULL
  <2>1. PICK id : id = m.id
    OBVIOUS
  <2> QED
    BY <1>3, <2>1, RespondReplies
<1>4. CASE Ignores(m)
  <2>1. UNCHANGED Serving
    BY <1>4 DEF Ignores, Serving
  <2> QED
    BY <1>1, <1>4, <2>1 DEF Ignores, Dropped, requestVars
<1>5. CASE PassesOn(m)
  <2>1. Serving' \in {Serving, NULL}
    BY <1>5 DEF PassesOn, Serving, Busy
  <2> QED
    BY <1>2, <1>3, <1>5, <2>1 DEF PassesOn, Passed
<1>6. CASE BeginsWork(m)
  <2>1. /\ Serving' \in {active_request, Serving} /\ m.method \in Starts
        /\ m.state # "INPROGRESS" => UNCHANGED Serving
    BY <1>6 DEF BeginsWork, Serving, Busy, Starts
  <2>2. CASE is_pending
    BY ZenonT(60), <1>2, <1>6, <2>1, <2>2 DEF BeginsWork, Started, requestVars
  <2>3. CASE ~is_pending
    <3>1. UNCHANGED ended \/ (UNCHANGED Serving /\ Ending({m.id}))
      BY <1>6, <2>1, <2>3, EndingNone DEF BeginsWork
    <3> QED
      BY <1>2, <1>3, <1>6, <2>1, <2>3, <3>1 DEF BeginsWork, Started
  <2> QED
    BY <2>2, <2>3
<1>7. CASE Verifies(m)
  <2>1. current = active_request
    BY <1>1, <1>7, VerifyMethod DEF Verifies
  <2>2. Serving' = active_request /\ m.method \in Starts /\ is_pending = FALSE
    BY ZenonT(60), <1>7, <2>1 DEF Verifies, VerifyMethods, Serving, Busy, Starts, PlainInv
  <2> QED
    BY <1>2, <1>3, <1>7, <2>2 DEF Verifies, Started
<1>8. CASE Stops(m)
  <2>1. active => Serving = current
    BY <1>1, <1>8, AwaitedMethod DEF Stops, StopInv, Serving
  <2>2. Ending({Serving.id} \cup Removed(active_request))
    BY ZenonT(60), <1>8, <2>1, EndingNone DEF Stops
  <2>3. Serving' = NULL /\ m.method \notin Starts
    BY <1>8 DEF Stops, Serving, Busy, Starts, VerifyMethods
  <2>4. PICK kept :
          /\ kept = Kept(queue, active_request)
          /\ \/ queue' = kept /\ response_dispatch(m.id, <<>>)
             \/ /\ kept # <<>> /\ queue' = Tail(kept)
                /\ response_dispatch(m.id, <<PendingCall(Head(kept))>>)
    BY ZenonT(60), <1>8 DEF Stops
  <2>5. /\ active_request' = NULL /\ MayClose
        /\ \/ queue' = kept /\ Reply(m.id, <<>>)
           \/ /\ kept # <<>> /\ queue' = Tail(kept)
              /\ Reply(m.id, <<PendingCall(Head(kept))>>)
    BY <1>3, <2>4
  <2>6. kept = Kept(queue, active_request)
    BY <2>4
  <2> QED
    BY ZenonT(60), <1>2, <1>8, <2>1, <2>2, <2>3, <2>5, <2>6 DEF Stops, Stopped
<1>9. CASE Finishes(m)
  <2>1. active => Serving = current
    BY ZenonT(60), <1>1, <1>9, CompletedBusy DEF Finishes, Serving
  <2>2. Serving' = NULL
    BY ZenonT(60), <1>9 DEF Finishes, Serving, Busy
  <2>3. Ending({m.id}) /\ m.type = "event"
    BY <1>9, EndingNone DEF Finishes, Completes
  <2> QED
    BY ZenonT(60), <1>1, <1>9, <2>1, <2>2, <2>3 DEF Finishes, Completed, requestVars
<1> QED
  BY <1>4, <1>5, <1>6, <1>7, <1>8, <1>9 DEF Hears

-----------------------------------------------------------------------------
(* The engine.                                                             *)

(* A step of the engine is one of RequestFlow.                             *)
LEMMA EngineFlows ==
  ASSUME FlowTypeOK, EngineTook \/ EngineTold \/ MediaTold
  PROVE  EngineAnswers \/ EngineCloses \/ EngineCompletes \/ EngineSignals
<1>1. Rests => EngineStep
  BY DEF Rests, machineVars, recogVars, EngineStep, Serving, requestVars
<1>2. CASE MediaTold
  <2>1. ~Completes(Released("subtracted"))
    BY DEF Released, Completes
  <2> QED
    BY <1>1, <1>2, <2>1 DEF MediaTold, EngineSignals
<1>3. CASE EngineTook
  <2>1. PICK r \in {Head(engine_in)} : Took(r) /\ engine_in # <<>> /\ EngineStep
    BY <1>1, <1>3 DEF EngineTook
  <2>2. CASE r = CLOSE
    BY <2>1, <2>2 DEF Took, EngineCloses
  <2>3. CASE r # CLOSE
    BY <2>1, <2>3 DEF Took, EngineAnswers
  <2> QED
    BY <2>2, <2>3
<1>4. CASE EngineTold
  <2>1. PICK i \in working : Tells(i) /\ UNCHANGED engine_in /\ EngineStep
    BY <1>1, <1>4 DEF EngineTold
  <2>2. i \in Ids
    BY DEF FlowTypeOK
  <2>3. ~Completes(EventOf(i, "START-OF-INPUT"))
    BY DEF EventOf, Completes, Completions
  <2>4. CASE UNCHANGED working /\ engine_out' = Append(engine_out, EventOf(i, "START-OF-INPUT"))
    BY <2>1, <2>2, <2>3, <2>4 DEF EngineSignals, Signals
  <2>5. CASE /\ \E method \in {"RECOGNITION-COMPLETE", "RECORD-COMPLETE", "VERIFICATION-COMPLETE"} :
                  engine_out' = Append(engine_out, EventOf(i, method))
             /\ working' = working \ {i}
    BY <2>1, <2>5 DEF EngineCompletes, Completions
  <2> QED
    BY <2>1, <2>4, <2>5 DEF Tells
<1> QED
  BY <1>2, <1>3, <1>4

(* Every step of a channel is one of RequestFlow, or changes none of its   *)
(* variables.                                                              *)
LEMMA StepFlows ==
  ASSUME ResourceInv, MachineNext
  PROVE  [FlowNext]_flowVars
<1>1. /\ FlowInv /\ FlowTypeOK /\ ResponseFirst /\ StateInv /\ PlainInv /\ StopInv
      /\ DoneInv /\ VerifyInv
  BY ZenonT(60) DEF ResourceInv, FlowInv
<1>2. CASE UNCHANGED <<sent, requestVars, todo>> /\ Waiting
  BY <1>2 DEF Waiting, machineVars, recogVars, requestVars, flowVars, Serving
<1>3. CASE Ask \/ AskTerminate
  BY <1>3 DEF FlowNext
<1>4. CASE ServerDone
  <2>1. TakeCall \/ Deactivate \/ Resubmit \/ TakeMessage
    BY <1>1, <1>4, CallFlows, DeactivateFlows, ResumeFlows, MessageFlows DEF ServerDone
  <2> QED
    BY <2>1 DEF FlowNext
<1>5. CASE EngineTook \/ EngineTold \/ MediaTold
  BY <1>1, <1>5, EngineFlows DEF FlowNext
<1> QED
  BY <1>2, <1>3, <1>4, <1>5 DEF MachineNext

-----------------------------------------------------------------------------
(***************************************************************************)
(* What the steps keep of the state machine.                               *)
(***************************************************************************)

(* A request that is over and that the engine has done with stays so.      *)
Stays ==
    \A i \in Ids : ended[i] = 1 /\ ~Begun(i) => ended'[i] = 1 /\ ~Begun(i)'

(* When a recorder or a verifier takes a request the engine has no other.  *)
Fresh ==
    \A r : r # TERMINATE /\ Taking(r) =>
        /\ active /\ r \in Request
        /\ resource # "recog" => \A i \in Ids : ~InEngine(i) /\ ~Responded(i)

(* What ResourceInv says of the state machine.                             *)
MachineInv ==
    /\ StateInv /\ StopInv /\ DoneInv /\ ClearInv /\ OpenInv /\ VerifyInv
    /\ InProgressMatchesState

(* What the proofs below use of the types.                                 *)
LEMMA Types ==
  ASSUME ResourceInv
  PROVE  /\ FlowInv /\ FlowTypeOK /\ MachineInv
         /\ engine_in \in Seq(Request \cup {CLOSE}) /\ engine_out \in Seq(Heard)
         /\ active_request \in Request \cup {NULL}
         /\ current # NULL => current.id \in Ids
         /\ NULL.method = "NULL" /\ NULL.id = 0
BY ZenonT(60), RequestFacts DEF ResourceInv, MachineInv, FlowInv, FlowTypeOK, StateInv

(* The requests of the client are numbered.                                *)
LEMMA SentIds ==
  ASSUME FlowTypeOK
  PROVE  DOMAIN sent \subseteq Ids
<1>1. PICK n : n \in Nat /\ n <= MaxRequests /\ DOMAIN sent = 1..n
  <2>1. sent \in Seq(Request) /\ Len(sent) <= MaxRequests
    BY DEF FlowTypeOK
  <2> QED
    BY <2>1
<1> QED
  BY <1>1, ControlAssumption DEF Ids

(* DoneInv in the next state.                                              *)
LEMMA DoneNext ==
  ASSUME active' /\ current' # NULL /\ state' \notin Busy =>
           \E i : /\ i = current'.id
                  /\ \/ ended'[i] = 1 /\ ~Begun(i)'
                     \/ /\ resource' = "verifier" /\ current' = active_request'
                        /\ current'.method \in VerifyMethods
                        /\ InEngine(i)' \/ Responded(i)'
  PROVE  DoneInv'
BY DEF DoneInv, Begun, InEngine, Responded

(* A recognizer or a recorder that keeps a finished request keeps it so.   *)
LEMMA DoneStays ==
  ASSUME ResourceInv, Stays, active, current # NULL, state \notin Busy, UNCHANGED current,
         \/ resource # "verifier"
         \/ current # active_request
         \/ current.method \notin VerifyMethods
         \/ ~InEngine(current.id) /\ ~Responded(current.id)
  PROVE  \E i : i = current'.id /\ ended'[i] = 1 /\ ~Begun(i)'
<1>1. PICK i : i = current.id
  OBVIOUS
<1>2. i \in Ids /\ ended[i] = 1 /\ ~Begun(i)
  BY <1>1, Types DEF MachineInv, DoneInv
<1> QED
  BY <1>1, <1>2 DEF Stays

(* The sequence t is s with e at its end.                                  *)
Grown(s, t, e) ==
    \E n \in DOMAIN t :
        /\ t[n] = e /\ n \in Nat
        /\ \A k \in DOMAIN t : (k \in DOMAIN s /\ t[k] = s[k]) \/ (k = n /\ t[k] = e)
        /\ \A k \in DOMAIN s : k \in DOMAIN t /\ t[k] = s[k] /\ k \in Nat /\ k < n

(* A message added to a queue leaves the others as they are.               *)
LEMMA Appended ==
  ASSUME ResourceInv, NEW e
  PROVE  /\ engine_in' = Append(engine_in, e) => Grown(engine_in, engine_in', e)
         /\ engine_out' = Append(engine_out, e) => Grown(engine_out, engine_out', e)
<1>1. ASSUME NEW S, NEW s \in Seq(S), NEW t, t = Append(s, e)
      PROVE  Grown(s, t, e)
  <2>1. PICK n : n = Len(s) + 1
    OBVIOUS
  <2>2. n \in DOMAIN t /\ t[n] = e /\ n \in Nat
    BY <1>1, <2>1
  <2>3. \A k \in DOMAIN t : (k \in DOMAIN s /\ t[k] = s[k]) \/ (k = n /\ t[k] = e)
    BY <1>1, <2>1
  <2>4. \A k \in DOMAIN s : k \in DOMAIN t /\ t[k] = s[k] /\ k \in Nat /\ k < n
    BY <1>1, <2>1
  <2> QED
    BY ZenonT(60), <2>2, <2>3, <2>4 DEF Grown
<1>2. engine_in \in Seq(Request \cup {CLOSE}) /\ engine_out \in Seq(Heard)
  BY ZenonT(60), Types
<1> QED
  BY ZenonT(60), <1>1, <1>2

(* What a sequence that lost its head keeps.                               *)
LEMMA Tailed ==
  ASSUME NEW S, NEW s \in Seq(S), s # <<>>
  PROVE  /\ 1 \in DOMAIN s /\ s[1] = Head(s)
         /\ \A k \in DOMAIN Tail(s) : /\ k + 1 \in DOMAIN s /\ Tail(s)[k] = s[k + 1]
                                      /\ k \in Nat /\ k + 1 # 1
         /\ \A k \in DOMAIN s : k # 1 => \E j \in DOMAIN Tail(s) : Tail(s)[j] = s[k]
<1>1. 1 \in DOMAIN s /\ s[1] = Head(s)
  OBVIOUS
<1>2. \A k \in DOMAIN Tail(s) : /\ k + 1 \in DOMAIN s /\ Tail(s)[k] = s[k + 1]
                                /\ k \in Nat /\ k + 1 # 1
  OBVIOUS
<1>3. ASSUME NEW k \in DOMAIN s, k # 1
      PROVE  \E j \in DOMAIN Tail(s) : Tail(s)[j] = s[k]
  <2>1. k - 1 \in DOMAIN Tail(s) /\ Tail(s)[k - 1] = s[k]
    BY <1>3
  <2> QED
    BY <2>1
<1> QED
  BY <1>1, <1>2, <1>3

-----------------------------------------------------------------------------
(* A request that is taken: sent to the engine, or answered.               *)
LEMMA CallKeeps ==
  ASSUME ResourceInv, Stays, Fresh, UNCHANGED resource, NEW r, Calls(r)
  PROVE  MachineInv'
<1>1. /\ active /\ active' = active /\ r \in Request /\ r # NULL /\ r.id \in Ids
      /\ resource # "recog" => \A i \in Ids : ~InEngine(i) /\ ~Responded(i)
  <2>1. r # TERMINATE /\ Taking(r) /\ UNCHANGED active
    BY CallFlows, RequestFacts DEF Calls
  <2>2. /\ active /\ r \in Request
        /\ resource # "recog" => \A i \in Ids : ~InEngine(i) /\ ~Responded(i)
    BY <2>1 DEF Fresh
  <2> QED
    BY <2>1, <2>2, RequestFacts
<1>2. UNCHANGED <<engine_out, working>>
  BY DEF Calls
<1>3. ClearInv'
  BY <1>2, Types DEF Calls, MachineInv, ClearInv, Completes
<1>4. ASSUME UNCHANGED <<state, current>> PROVE StateInv' /\ InProgressMatchesState'
  BY ZenonT(60), <1>4, Types DEF MachineInv, StateInv, InProgressMatchesState
<1>5. ASSUME UNCHANGED <<state, current>> PROVE DoneInv'
  BY <1>1, <1>4, <1>5, DoneStays, DoneNext, Types DEF MachineInv, StateInv
<1>6. ASSUME resource = "recog", state' = "IDLE", current' = NULL
      PROVE  StateInv' /\ InProgressMatchesState' /\ DoneInv'
  BY <1>6 DEF StateInv, InProgressMatchesState, DoneInv
<1>7. CASE Sends(r)
  <2>1. active_request' = r /\ engine_in' = Append(engine_in, r)
    BY <1>7 DEF Sends, ToEngine, request_dispatch
  <2>2. StopInv' /\ OpenInv'
    BY <1>7, <2>1 DEF Sends, StopInv, OpenInv, VerifyMethods, Busy
  <2>3. /\ \A k \in DOMAIN engine_in' :
             engine_in'[k] = r \/ (k \in DOMAIN engine_in /\ engine_in'[k] = engine_in[k])
        /\ \E k \in DOMAIN engine_in' : engine_in'[k] = r
    BY ZenonT(60), <2>1, Appended DEF Grown
  <2>4. VerifyInv'
    <3> SUFFICES ASSUME resource = "verifier" PROVE VerifyInv'
      BY DEF VerifyInv
    <3>1. \A k \in DOMAIN engine_in' : engine_in'[k].id = r.id => engine_in'[k] = r
      BY <1>1, <2>3 DEF InEngine
    <3>2. \A k \in DOMAIN engine_out' : engine_out'[k].type = "response" => engine_out'[k].id # r.id
      BY <1>1, <1>2 DEF Responded
    <3>3. r.method \in VerifyMethods => current' = r
      BY <1>7 DEF Sends
    <3> QED
      BY <2>1, <3>1, <3>2, <3>3 DEF VerifyInv
  <2>5. CASE UNCHANGED <<state, current>>
    BY <1>3, <1>4, <1>5, <2>2, <2>4, <2>5 DEF MachineInv
  <2>6. CASE resource = "recog" /\ state' = "IDLE" /\ current' = NULL
    BY ZenonT(60), <1>3, <1>6, <2>2, <2>4, <2>6 DEF MachineInv
  <2>7. CASE /\ resource = "verifier" /\ r.method \in VerifyMethods /\ state = "OPENED"
             /\ UNCHANGED state /\ current' = r
    <3>1. StateInv' /\ InProgressMatchesState'
      BY <1>1, <2>7 DEF StateInv, InProgressMatchesState
    <3>2. PICK i : i = current'.id
      OBVIOUS
    <3>3. InEngine(i)'
      BY <2>3, <2>7, <3>2 DEF InEngine
    <3>4. DoneInv'
      BY <2>1, <2>7, <3>2, <3>3, DoneNext
    <3> QED
      BY <1>3, <2>2, <2>4, <3>1, <3>4 DEF MachineInv
  <2> QED
    BY <1>7, <2>5, <2>6, <2>7 DEF Sends
<1>8. CASE Settles(r)
  <2>1. active_request' = NULL
    BY <1>8 DEF Settles, Respond, response_dispatch
  <2>2. StopInv' /\ OpenInv' /\ VerifyInv'
    BY <2>1, RequestFacts DEF StopInv, OpenInv, VerifyInv, VerifyMethods
  <2>3. StateInv' /\ InProgressMatchesState' /\ DoneInv'
    BY <1>4, <1>5, <1>6, <1>8 DEF Settles
  <2> QED
    BY <1>3, <2>2, <2>3 DEF MachineInv
<1> QED
  BY <1>7, <1>8 DEF Calls

(* While a verification is in progress no other VERIFY is with the engine. *)
LEMMA OneVerify ==
  ASSUME ResourceInv, active, resource = "verifier", state = "VERIFYING"
  PROVE  /\ \A k \in DOMAIN engine_in : engine_in[k].method \notin VerifyMethods
         /\ \A k \in DOMAIN engine_out :
              engine_out[k].type = "response" => engine_out[k].method \notin VerifyMethods
<1>1. /\ EngineInv /\ ActiveInv /\ OneAtATime /\ OpenInv
      /\ sent \in Seq(Request)
  BY DEF ResourceInv, FlowInv, PlaceInv, OneInv, FlowTypeOK
<1>2. active_request.method \notin VerifyMethods
  BY <1>1 DEF OpenInv
<1>3. ASSUME NEW i \in Ids, InEngine(i) \/ Responded(i)
      PROVE  sent[i].method \notin VerifyMethods
  <2>1. i = active_request.id /\ active_request.id # 0
    BY <1>1, <1>3, RequestFacts DEF OneAtATime
  <2> QED
    BY <1>1, <1>2, <2>1 DEF ActiveInv, Known
<1>4. ASSUME NEW k \in DOMAIN engine_in, engine_in[k].method \in VerifyMethods
      PROVE  FALSE
  <2>1. engine_in[k] \in Request
    BY <1>4, Types, RequestFacts DEF VerifyMethods
  <2>2. engine_in[k].id \in Ids /\ engine_in[k].id # 0
    BY <2>1, RequestFacts
  <2>3. sent[engine_in[k].id] = engine_in[k]
    BY <1>1, <2>2 DEF EngineInv, Known
  <2>4. InEngine(engine_in[k].id)
    BY DEF InEngine
  <2> QED
    BY <1>3, <1>4, <2>2, <2>3, <2>4
<1>5. ASSUME NEW k \in DOMAIN engine_out, engine_out[k].type = "response"
      PROVE  engine_out[k].method \notin VerifyMethods
  <2>1. engine_out[k].id \in DOMAIN sent /\ engine_out[k].method = sent[engine_out[k].id].method
    BY <1>1, <1>5 DEF EngineInv
  <2>2. engine_out[k].id \in Ids
    <3>1. DOMAIN sent \subseteq Ids
      BY Types, SentIds
    <3> QED
      BY <2>1, <3>1
  <2>3. Responded(engine_out[k].id)
    BY <1>5 DEF Responded
  <2> QED
    BY ZenonT(60), <1>3, <2>1, <2>2, <2>3
<1> QED
  BY <1>4, <1>5

(* Deactivation keeps the invariant of the machines.                       *)
LEMMA DeactivateKeeps ==
  ASSUME ResourceInv, UNCHANGED resource, Deactivates
  PROVE  MachineInv' /\ active' = FALSE
<1>1. PICK busy \in Busy : state_deactivate(busy)
  BY DEF Deactivates
<1>2. /\ active' = FALSE /\ UNCHANGED <<state, current, engine_out>>
      /\ Head(todo) = DispatchCall(TERMINATE) /\ todo # <<>>
  BY <1>1 DEF Deactivates, state_deactivate, Dispatching
<1>3. StateInv' /\ InProgressMatchesState'
  BY ZenonT(60), <1>2, Types DEF MachineInv, StateInv, InProgressMatchesState
<1>4. StopInv' /\ DoneInv' /\ ClearInv' /\ OpenInv'
  BY <1>2 DEF StopInv, DoneInv, ClearInv, OpenInv
<1>5. active
  <2>1. Head(todo) = todo[1] /\ 1 \in DOMAIN todo /\ Head(todo).call = "dispatch"
    <3>1. todo \in Seq(Call)
      BY ZenonT(60), Types DEF FlowTypeOK
    <3> QED
      BY <1>2, <3>1 DEF DispatchCall
  <2> QED
    BY ZenonT(60), <2>1, Types DEF FlowInv, TodoInv
<1>6. VerifyInv'
  <2> SUFFICES ASSUME resource = "verifier" PROVE VerifyInv'
    BY DEF VerifyInv
  <2>1. VerifyInv
    BY ZenonT(60), Types DEF MachineInv
  <2>2. ASSUME NEW c, engine_in' = Append(engine_in, c), c.method \notin VerifyMethods
        PROVE  \A k \in DOMAIN engine_in' : engine_in'[k].method \in VerifyMethods =>
                 k \in DOMAIN engine_in /\ engine_in'[k] = engine_in[k]
    BY ZenonT(60), <2>2, Appended DEF Grown
  <2>3. CASE engine_in' = Append(engine_in, CLOSE) /\ UNCHANGED active_request
    <3>1. CLOSE.method \notin VerifyMethods
      BY RequestFacts DEF VerifyMethods
    <3> QED
      BY <1>2, <2>1, <2>2, <2>3, <3>1 DEF VerifyInv
  <2>4. CASE /\ engine_in' = Append(engine_in, InternalStop(current))
             /\ state = busy
    <3>1. InternalStop(current).method \notin VerifyMethods
      BY DEF InternalStop, Message, VerifyMethods
    <3>2. state = "VERIFYING"
      BY <2>4, Types DEF MachineInv, StateInv, Busy
    <3>3. \A k \in DOMAIN engine_in' : engine_in'[k].method \notin VerifyMethods
      BY ZenonT(60), <1>5, <2>2, <2>4, <3>1, <3>2, OneVerify
    <3> QED
      BY ZenonT(60), <1>2, <1>5, <3>2, <3>3, OneVerify DEF VerifyInv
  <2> QED
    BY ZenonT(60), <1>1, <2>3, <2>4 DEF state_deactivate, request_dispatch, mrcp_server_session_deactivate,
       mrcp_server_session_terminate_process
<1> QED
  BY <1>2, <1>3, <1>4, <1>6 DEF MachineInv

(* A pending RECOGNIZE goes to the engine.                                 *)
LEMMA ResumeKeeps ==
  ASSUME ResourceInv, Stays, UNCHANGED resource, Resumes
  PROVE  MachineInv' /\ (active' => active)
<1>1. /\ resource = "recog" /\ UNCHANGED <<active, state, current>>
      /\ todo # <<>> /\ Head(todo).call = "pending" /\ active_request' = Head(todo).req
  BY DEF Resumes, ProcessPending, request_dispatch
<1>2. active_request'.method # "STOP"
  <2>1. Head(todo) \in Call
    BY <1>1, Types DEF FlowTypeOK
  <2>2. Head(todo).req \in StartRequest
    BY ZenonT(60), <1>1, <2>1 DEF Call
  <2> QED
    BY ZenonT(60), <1>1, <2>2 DEF StartRequest, Starts, VerifyMethods
<1>3. StateInv' /\ InProgressMatchesState' /\ StopInv'
  BY ZenonT(60), <1>1, <1>2, Types DEF MachineInv, StateInv, InProgressMatchesState, StopInv
<1>4. ClearInv' /\ OpenInv' /\ VerifyInv'
  BY ZenonT(60), <1>1 DEF ClearInv, OpenInv, VerifyInv
<1>5. DoneInv'
  BY <1>1, DoneStays, DoneNext, Types
<1>6. active' => active
  BY <1>1
<1> QED
  BY ZenonT(60), <1>3, <1>4, <1>5, <1>6 DEF MachineInv

-----------------------------------------------------------------------------
(* A message that is taken.                                                *)

(* A request in progress of which the client is told that it is over is    *)
(* told so once.                                                           *)
LEMMA EndedOnce ==
  ASSUME ResourceInv, FlowInv', active, NEW S, NEW i \in S, i \in Ids, Ending(S)
  PROVE  ended'[i] = 1
<1>1. ended \in [Ids -> Nat] /\ ended'[i] <= 1
  BY ZenonT(60), Types DEF FlowInv, FlowTypeOK, EndInv
<1>2. ended'[i] = ended[i] + 1 /\ ended[i] \in Nat
  BY <1>1 DEF Ending
<1>3. \A a, b : a \in Nat /\ b = a + 1 /\ b <= 1 => b = 1
  OBVIOUS
<1> QED
  BY ZenonT(60), <1>1, <1>2, <1>3

(* What is left of the engine's messages.                                  *)
LEMMA Left ==
  ASSUME ResourceInv, NEW m, Receiving(m)
  PROVE  /\ 1 \in DOMAIN engine_out /\ engine_out[1] = m /\ m \in Heard
         /\ \A k \in DOMAIN engine_out' : /\ k + 1 \in DOMAIN engine_out
                                          /\ engine_out'[k] = engine_out[k + 1]
                                          /\ k \in Nat /\ k + 1 # 1
         /\ \A k \in DOMAIN engine_out : k # 1 =>
              \E j \in DOMAIN engine_out' : engine_out'[j] = engine_out[k]
<1>1. engine_out \in Seq(Heard) /\ engine_out # <<>> /\ engine_out' = Tail(engine_out)
      /\ m = Head(engine_out)
  BY Types DEF Receiving
<1>2. m \in Heard
  BY <1>1
<1> QED
  BY <1>1, <1>2, Tailed

(* What a message does to active_request.                                  *)
LEMMA ActiveNext ==
  ASSUME ResourceInv, NEW m, Hears(m)
  PROVE  \/ active_request' = NULL
         \/ Ignores(m) /\ active_request' = active_request
         \/ /\ BeginsWork(m) /\ active_request' = active_request
            /\ active => active_request.method # "STOP"
         \/ /\ Finishes(m) /\ active_request'.method # "STOP"
            /\ resource # "recog" => UNCHANGED <<active_request, engine_in>>
<1>1. ASSUME NEW rest, response_dispatch(m.id, rest) PROVE active_request' = NULL
  BY <1>1 DEF response_dispatch
<1>2. CASE PassesOn(m) \/ Verifies(m)
  BY <1>1, <1>2 DEF PassesOn, Verifies
<1>3. CASE Stops(m)
  BY ZenonT(60), <1>1, <1>3 DEF Stops
<1>4. CASE BeginsWork(m)
  <2>1. active => active_request.method # "STOP"
    <3>1. active => m.method = active_request.method
      BY ZenonT(60), <1>4, Types, AwaitedMethod DEF Hears, BeginsWork
    <3> QED
      BY ZenonT(60), <1>4, <3>1 DEF BeginsWork
  <2> QED
    BY <1>1, <1>4, <2>1 DEF BeginsWork
<1>5. CASE Finishes(m)
  <2>1. CASE queue = <<>>
    BY ZenonT(60), <1>5, <2>1 DEF Finishes
  <2>2. CASE queue # <<>>
    <3>1. Head(queue) \in StartRequest
      BY <2>2, Types DEF FlowTypeOK
    <3>2. Head(queue).method # "STOP"
      BY <3>1 DEF StartRequest, Starts, VerifyMethods
    <3> QED
      BY ZenonT(60), <1>5, <2>2, <3>2 DEF Finishes, ResourceInv, PlainInv
  <2> QED
    BY ZenonT(60), <2>1, <2>2
<1>6. CASE Ignores(m)
  BY <1>6 DEF Ignores
<1> QED
  BY <1>2, <1>3, <1>4, <1>5, <1>6 DEF Hears

(* Taking a message keeps the state in agreement with the request in       *)
(* progress.                                                               *)
LEMMA MessageKeepsState ==
  ASSUME ResourceInv, UNCHANGED resource, NEW m, Hears(m)
  PROVE  StateInv' /\ StopInv' /\ InProgressMatchesState'
<1>1. StateInv /\ StopInv /\ InProgressMatchesState /\ Receiving(m) /\ UNCHANGED active
  BY Types DEF MachineInv, Hears
<1>2. m.type = "response" /\ Awaited(m) => active_request \in Request
  BY ZenonT(60), Types DEF Awaited
<1>3. StateInv'
  BY ZenonT(60), <1>1, <1>2 DEF Hears, Ignores, PassesOn, BeginsWork, Verifies, Stops, Finishes, StateInv
<1>4. StopInv'
  <2>1. CASE Ignores(m) /\ active_request' = active_request
    BY <1>1, <2>1 DEF Ignores, StopInv
  <2> QED
    BY <1>1, <2>1, ActiveNext, RequestFacts DEF StopInv
<1>5. InProgressMatchesState'
  <2>1. CASE Ignores(m)
    BY <1>1, <2>1 DEF Ignores, InProgressMatchesState
  <2>2. CASE PassesOn(m)
    BY ZenonT(60), <1>1, <2>2 DEF PassesOn, InProgressMatchesState
  <2>3. CASE BeginsWork(m)
    <3>1. active_request # NULL
      BY <2>3 DEF BeginsWork, Awaited
    <3> QED
      BY ZenonT(60), <1>1, <2>3, <3>1 DEF BeginsWork, InProgressMatchesState
  <2>4. CASE Verifies(m)
    <3>1. current # NULL
      BY ZenonT(60), <1>1, <2>4, Types, VerifyMethod DEF Verifies, Awaited, MachineInv
    <3> QED
      BY ZenonT(60), <2>4, <3>1 DEF Verifies, InProgressMatchesState
  <2>5. CASE Stops(m)
    BY ZenonT(60), <2>5 DEF Stops, InProgressMatchesState
  <2>6. CASE Finishes(m)
    BY <1>1, <2>6 DEF Finishes, InProgressMatchesState, StateInv
  <2> QED
    BY ZenonT(60), <2>1, <2>2, <2>3, <2>4, <2>5, <2>6 DEF Hears
<1> QED
  BY ZenonT(60), <1>3, <1>4, <1>5

(* Taking a message keeps what holds of the buffer and the session of a    *)
(* verifier.                                                               *)
LEMMA MessageKeepsVerifier ==
  ASSUME ResourceInv, UNCHANGED resource, NEW m, Hears(m)
  PROVE  ClearInv' /\ OpenInv' /\ VerifyInv'
<1> SUFFICES ASSUME resource = "verifier" PROVE ClearInv' /\ OpenInv' /\ VerifyInv'
  BY DEF ClearInv, OpenInv, VerifyInv
<1>1. /\ ClearInv /\ OpenInv /\ VerifyInv /\ Receiving(m) /\ UNCHANGED <<active, working>>
      /\ PlainInv /\ NULL.method \notin {"START-SESSION"} \cup VerifyMethods
  BY ZenonT(60), Types DEF MachineInv, Hears, ResourceInv, VerifyMethods
<1>2. ClearInv'
  <2>1. \A k \in DOMAIN engine_out' : /\ k + 1 \in DOMAIN engine_out
                                      /\ engine_out'[k] = engine_out[k + 1] /\ k \in Nat
    BY <1>1, Left
  <2>2. \A j, k \in Nat : k < j => k + 1 < j + 1
    OBVIOUS
  <2> SUFFICES ASSUME active', NEW k \in DOMAIN engine_out', engine_out'[k].type = "response",
                      engine_out'[k].method = "STOP"
               PROVE  /\ working' = {}
                      /\ \A j \in DOMAIN engine_out' : k < j => ~Completes(engine_out'[j])
    BY ZenonT(60) DEF ClearInv, Completes
  <2>3. /\ working = {}
        /\ \A j \in DOMAIN engine_out : k + 1 < j => ~Completes(engine_out[j])
    BY ZenonT(60), <1>1, <2>1 DEF ClearInv
  <2>4. ASSUME NEW j \in DOMAIN engine_out', k < j PROVE ~Completes(engine_out'[j])
    BY ZenonT(60), <2>1, <2>2, <2>3, <2>4
  <2> QED
    BY ZenonT(60), <1>1, <2>3, <2>4
<1>3. \/ active_request' = NULL
      \/ /\ UNCHANGED <<active_request, current>> /\ MayClose
         /\ state' = state \/ state' = "OPENED"
  <2>1. CASE Ignores(m)
    BY ZenonT(60), <2>1 DEF Ignores
  <2>2. CASE Finishes(m)
    BY <1>1, <2>2 DEF Finishes, PlainInv, MayClose
  <2> QED
    BY ZenonT(60), <2>1, <2>2, ActiveNext DEF BeginsWork
<1>4. OpenInv'
  BY <1>1, <1>3 DEF OpenInv
<1>5. VerifyInv'
  <2>1. CASE active_request' = NULL
    BY ZenonT(60), <2>1 DEF VerifyInv
  <2>2. CASE UNCHANGED <<active_request, current>> /\ MayClose
    <3>1. CLOSE.method \notin VerifyMethods
      BY ZenonT(60), RequestFacts DEF VerifyMethods
    <3>2. \A k \in DOMAIN engine_in' : engine_in'[k].method \in VerifyMethods =>
            k \in DOMAIN engine_in /\ engine_in'[k] = engine_in[k]
      BY ZenonT(60), <2>2, <3>1, Appended DEF MayClose, Grown
    <3>3. \A k \in DOMAIN engine_out' : \E j \in DOMAIN engine_out : engine_out'[k] = engine_out[j]
      BY ZenonT(60), <1>1, Left
    <3> QED
      BY <1>1, <2>2, <3>2, <3>3 DEF VerifyInv
  <2> QED
    BY ZenonT(60), <1>3, <2>1, <2>2
<1> QED
  BY ZenonT(60), <1>2, <1>4, <1>5

(* Taking a message reports no request over that has been reported before. *)
LEMMA MessageKeepsDone ==
  ASSUME ResourceInv, FlowInv', Stays, UNCHANGED resource, NEW m, Hears(m)
  PROVE  DoneInv'
<1>1. /\ StateInv /\ StopInv /\ DoneInv /\ ClearInv /\ OpenInv /\ Receiving(m)
      /\ UNCHANGED <<active, working>> /\ FlowInv
  BY ZenonT(60), Types DEF MachineInv, Hears
<1> SUFFICES ASSUME active, active', current' # NULL, state' \notin Busy
             PROVE  \E i : /\ i = current'.id
                           /\ \/ ended'[i] = 1 /\ ~Begun(i)'
                              \/ /\ resource' = "verifier" /\ current' = active_request'
                                 /\ current'.method \in VerifyMethods
                                 /\ InEngine(i)' \/ Responded(i)'
  BY ZenonT(60), <1>1, DoneNext
<1>2. m.type = "response" /\ Awaited(m) => m.method = active_request.method
  BY ZenonT(60), <1>1, AwaitedMethod
<1>3. CASE Ignores(m)
  <2>1. /\ UNCHANGED <<state, current, active_request>> /\ MayClose
        /\ current # NULL /\ state \notin Busy
        /\ m.type = "response" => ~Awaited(m)
    BY <1>3 DEF Ignores
  <2>2. PICK i : i = current.id
    BY ZenonT(60)
  <2>3. CASE /\ resource = "verifier" /\ current = active_request
             /\ current.method \in VerifyMethods
             /\ InEngine(i) \/ Responded(i)
    <3>1. CASE InEngine(i)
      <4>1. \A k \in DOMAIN engine_in : \E j \in DOMAIN engine_in' : engine_in'[j] = engine_in[k]
        BY ZenonT(60), <2>1, Appended DEF MayClose, Grown
      <4>2. InEngine(i)'
        BY <3>1, <4>1 DEF InEngine
      <4> QED
        BY ZenonT(60), <2>1, <2>2, <2>3, <4>2
    <3>2. CASE Responded(i)
      <4>1. m.type = "response" => m.id # i
        BY ZenonT(60), <2>1, <2>2, <2>3 DEF Awaited
      <4>2. Responded(i)'
        BY ZenonT(60), <1>1, <3>2, <4>1, Left DEF Responded
      <4> QED
        BY ZenonT(60), <2>1, <2>2, <2>3, <4>2
    <3> QED
      BY ZenonT(60), <2>3, <3>1, <3>2
  <2>4. CASE ~(/\ resource = "verifier" /\ current = active_request
               /\ current.method \in VerifyMethods
               /\ InEngine(i) \/ Responded(i))
    BY ZenonT(60), <2>1, <2>2, <2>4, DoneStays
  <2> QED
    BY <2>3, <2>4
<1>4. CASE PassesOn(m)
  <2>1. UNCHANGED current /\ current # NULL /\ active_request.method \notin VerifyMethods
    BY ZenonT(60), <1>2, <1>4 DEF PassesOn, Starts, VerifyMethods
  <2>2. state \notin Busy
    BY ZenonT(60), <1>1, <1>2, <1>4, <2>1 DEF PassesOn, OpenInv, StateInv, Busy, VerifyMethods
  <2> QED
    BY ZenonT(60), <2>1, <2>2, DoneStays
<1>5. CASE BeginsWork(m)
  <2>1. UNCHANGED <<state, current>> /\ resource # "verifier"
    BY ZenonT(60), <1>5 DEF BeginsWork, Busy
  <2> QED
    BY ZenonT(60), <2>1, DoneStays
<1>6. CASE Stops(m)
  <2>1. resource = "verifier" /\ UNCHANGED current /\ m.type = "response" /\ m.method = "STOP"
        /\ Ending({current.id} \cup Removed(active_request))
    BY <1>6, EndingNone DEF Stops
  <2>2. PICK i : i = current.id
    OBVIOUS
  <2>3. ended'[i] = 1
    BY ZenonT(60), <2>1, <2>2, Types, EndedOnce
  <2>4. /\ working = {}
        /\ \A j \in DOMAIN engine_out : 1 < j => ~Completes(engine_out[j])
    BY ZenonT(60), <1>1, <2>1, Left DEF ClearInv
  <2>5. ASSUME NEW k \in DOMAIN engine_out' PROVE ~Completes(engine_out'[k])
    <3>1. 1 < k + 1 /\ k + 1 \in DOMAIN engine_out /\ engine_out'[k] = engine_out[k + 1]
      BY <1>1, Left
    <3> QED
      BY ZenonT(60), <2>4, <3>1
  <2>6. ~Begun(i)'
    BY ZenonT(60), <1>1, <2>4, <2>5 DEF Begun, Completes
  <2> QED
    BY ZenonT(60), <2>1, <2>2, <2>3, <2>6
<1>7. CASE Finishes(m)
  <2>1. /\ UNCHANGED current /\ current.id = m.id /\ Completes(m) /\ current # NULL
        /\ Ending({m.id})
    BY <1>7, EndingNone DEF Finishes
  <2>2. PICK i : i = m.id
    OBVIOUS
  <2>3. ended'[i] = 1
    BY ZenonT(60), <2>1, <2>2, Types, EndedOnce
  <2>4. i \notin working
        /\ \A j \in DOMAIN engine_out : j # 1 /\ Completes(engine_out[j]) => engine_out[j].id # i
    <3>1. WorkInv /\ 1 \in DOMAIN engine_out /\ engine_out[1] = m
      BY ZenonT(60), <1>1, Left DEF FlowInv, PlaceInv
    <3> QED
      BY ZenonT(60), <2>1, <2>2, <3>1 DEF WorkInv
  <2>5. ASSUME NEW k \in DOMAIN engine_out', Completes(engine_out'[k])
        PROVE  engine_out'[k].id # i
    BY ZenonT(60), <1>1, <2>4, <2>5, Left
  <2>6. ~Begun(i)'
    BY ZenonT(60), <1>1, <2>4, <2>5 DEF Begun, Completes
  <2> QED
    BY ZenonT(60), <2>1, <2>2, <2>3, <2>6
<1>8. CASE Verifies(m)
  BY ZenonT(60), <1>8 DEF Verifies, Busy
<1> QED
  BY ZenonT(60), <1>3, <1>4, <1>5, <1>6, <1>7, <1>8 DEF Hears

-----------------------------------------------------------------------------
(* The engine answers a request or raises an event; the media engine       *)
(* answers.                                                                *)

(* What the engine adds to its messages keeps the invariant of the         *)
(* machines, if it takes at most one request for it.                       *)
LEMMA EngineKeeps ==
  ASSUME ResourceInv, Stays, Rests, NEW e, engine_out' = Append(engine_out, e),
         \A k \in DOMAIN engine_in' : \E j \in DOMAIN engine_in : engine_in'[k] = engine_in[j],
         \A k \in DOMAIN engine_in :
           \/ engine_in[k] = CLOSE
           \/ \E j \in DOMAIN engine_in' : engine_in'[j] = engine_in[k]
           \/ e.type = "response" /\ e.id = engine_in[k].id,
         e.type = "response" => \E k \in DOMAIN engine_in :
                                  e.id = engine_in[k].id /\ e.method = engine_in[k].method
  PROVE  StateInv' /\ StopInv' /\ InProgressMatchesState' /\ OpenInv' /\ VerifyInv' /\ DoneInv'
<1>1. UNCHANGED <<active, state, active_request, current, resource, ended>>
  BY ZenonT(60) DEF Rests, machineVars
<1>2. StateInv' /\ StopInv' /\ InProgressMatchesState' /\ OpenInv'
  BY <1>1, Types DEF MachineInv, StateInv, StopInv, InProgressMatchesState, OpenInv
<1>3. /\ \A k \in DOMAIN engine_out' :
           (\E j \in DOMAIN engine_out : engine_out'[k] = engine_out[j]) \/ engine_out'[k] = e
      /\ \A k \in DOMAIN engine_out : \E j \in DOMAIN engine_out' : engine_out'[j] = engine_out[k]
      /\ \E j \in DOMAIN engine_out' : engine_out'[j] = e
  BY ZenonT(60), Appended DEF Grown
<1>4. VerifyInv'
  BY <1>1, <1>3, Types DEF MachineInv, VerifyInv
<1>5. DoneInv'
  <2> SUFFICES ASSUME active, current # NULL, state \notin Busy
               PROVE  \E i : /\ i = current.id
                             /\ \/ ended'[i] = 1 /\ ~Begun(i)'
                                \/ /\ resource = "verifier" /\ current = active_request
                                   /\ current.method \in VerifyMethods
                                   /\ InEngine(i)' \/ Responded(i)'
    BY ZenonT(60), <1>1, DoneNext
  <2>1. PICK i : i = current.id
    BY ZenonT(60)
  <2>2. CASE /\ resource = "verifier" /\ current = active_request
             /\ current.method \in VerifyMethods
             /\ InEngine(i) \/ Responded(i)
    <3>1. InEngine(i) => InEngine(i)' \/ Responded(i)'
      <4>1. CLOSE.id # i
        BY ZenonT(60), <2>1, Types, RequestFacts
      <4> QED
        BY <1>3, <4>1 DEF InEngine, Responded
    <3>2. Responded(i) => Responded(i)'
      BY <1>3 DEF Responded
    <3> QED
      BY ZenonT(60), <2>1, <2>2, <3>1, <3>2
  <2>3. CASE ~(/\ resource = "verifier" /\ current = active_request
               /\ current.method \in VerifyMethods
               /\ InEngine(i) \/ Responded(i))
    <3>1. UNCHANGED current
      BY ZenonT(60), <1>1
    <3>2. \E j : j = current'.id /\ ended'[j] = 1 /\ ~Begun(j)'
      BY ZenonT(60), <2>1, <2>3, <3>1, DoneStays
    <3> QED
      BY ZenonT(60), <3>1, <3>2
  <2> QED
    BY ZenonT(60), <2>2, <2>3
<1> QED
  BY ZenonT(60), <1>2, <1>4, <1>5

(* While a response is on its way the engine has no other request.         *)
LEMMA NoneWaits ==
  ASSUME ResourceInv, active, resource = "verifier",
         NEW k \in DOMAIN engine_out, engine_out[k].type = "response",
         NEW j \in DOMAIN engine_in
  PROVE  engine_in[j] = CLOSE
<1>1. EngineInv /\ OneAtATime /\ DOMAIN sent \subseteq Ids
  BY ZenonT(60), Types, SentIds DEF ResourceInv, FlowInv, PlaceInv, OneInv
<1>2. PICK i : i = engine_out[k].id
  BY ZenonT(60)
<1>3. i \in Ids /\ Responded(i)
  BY ZenonT(60), <1>1, <1>2 DEF EngineInv, Responded
<1>4. CASE engine_in[j] # CLOSE
  <2>1. engine_in[j].id \in Ids /\ engine_in[j].id # 0
    BY <1>4, Types, RequestFacts
  <2>2. InEngine(engine_in[j].id) /\ ~Responded(engine_in[j].id)
    BY ZenonT(60), <1>1, <2>1 DEF InEngine, EngineInv
  <2>3. engine_in[j].id = active_request.id /\ i = active_request.id
    BY ZenonT(60), <1>1, <1>3, <2>1, <2>2 DEF OneAtATime
  <2> QED
    BY ZenonT(60), <1>3, <2>2, <2>3
<1> QED
  BY ZenonT(60), <1>4

(* ClearInv when the engine is told e.                                     *)
LEMMA ClearNext ==
  ASSUME ResourceInv, Rests, NEW e, engine_out' = Append(engine_out, e),
         resource = "verifier" /\ active /\ e.type = "response" /\ e.method = "STOP" =>
           working' = {},
         \A k \in DOMAIN engine_out :
           /\ resource = "verifier" /\ active
           /\ engine_out[k].type = "response" /\ engine_out[k].method = "STOP"
           /\ working = {}
           => working' = {} /\ ~Completes(e)
  PROVE  ClearInv'
<1>1. UNCHANGED <<active, resource>> /\ ClearInv
  BY ZenonT(60), Types DEF Rests, machineVars, MachineInv
<1> SUFFICES ASSUME active, resource = "verifier", NEW k \in DOMAIN engine_out',
                    engine_out'[k].type = "response", engine_out'[k].method = "STOP"
             PROVE  /\ working' = {}
                    /\ \A j \in DOMAIN engine_out' : k < j => ~Completes(engine_out'[j])
  BY ZenonT(60), <1>1 DEF ClearInv, Completes
<1>2. PICK n \in DOMAIN engine_out' :
        /\ engine_out'[n] = e /\ n \in Nat
        /\ \A l \in DOMAIN engine_out' : \/ l \in DOMAIN engine_out /\ engine_out'[l] = engine_out[l]
                                         \/ l = n /\ engine_out'[l] = e
        /\ \A l \in DOMAIN engine_out : l \in Nat /\ l < n
  BY ZenonT(60), Appended DEF Grown
<1>3. \A j \in DOMAIN engine_out' : ~(n < j)
  <2>1. \A j \in DOMAIN engine_out : ~(n < j)
    BY <1>2
  <2> QED
    BY <1>2, <2>1
<1>4. CASE k \in DOMAIN engine_out /\ engine_out'[k] = engine_out[k]
  <2>1. /\ working = {}
        /\ \A j \in DOMAIN engine_out : k < j => ~Completes(engine_out[j])
    BY ZenonT(60), <1>1, <1>4 DEF ClearInv
  <2>2. working' = {} /\ ~Completes(e)
    BY ZenonT(60), <1>4, <2>1
  <2> QED
    BY ZenonT(60), <1>2, <2>1, <2>2
<1>5. CASE k = n /\ engine_out'[k] = e
  BY ZenonT(60), <1>3, <1>5
<1> QED
  BY ZenonT(60), <1>2, <1>4, <1>5

(* The engine taking a request keeps the invariant of the machines.        *)
LEMMA EngineTakesKeeps ==
  ASSUME ResourceInv, Stays, EngineTook
  PROVE  MachineInv'
<1>1. Rests /\ engine_in # <<>>
  BY DEF EngineTook
<1>2. PICK r : r = Head(engine_in) /\ Took(r)
  BY ZenonT(60) DEF EngineTook
<1>3. /\ engine_in' = Tail(engine_in) /\ 1 \in DOMAIN engine_in /\ engine_in[1] = r
      /\ \A k \in DOMAIN engine_in' : \E j \in DOMAIN engine_in : engine_in'[k] = engine_in[j]
      /\ \A k \in DOMAIN engine_in : k # 1 =>
           \E j \in DOMAIN engine_in' : engine_in'[j] = engine_in[k]
  BY ZenonT(60), <1>1, <1>2, Types, Tailed DEF Took
<1>4. CASE r = CLOSE
  <2>1. PICK e : e = Released("closed")
    BY ZenonT(60)
  <2>2. /\ engine_out' = Append(engine_out, e) /\ e.type # "response" /\ ~Completes(e)
        /\ working' = {}
    BY ZenonT(60), <1>2, <1>4, <2>1, RequestFacts DEF Took, Released, Completes
  <2>3. ClearInv'
    BY ZenonT(60), <1>1, <2>2, ClearNext
  <2> QED
    BY ZenonT(60), <1>1, <1>3, <1>4, <2>2, <2>3, EngineKeeps DEF MachineInv
<1>5. CASE r # CLOSE
  <2>1. PICK s \in {"INPROGRESS", "COMPLETE"}, ok \in BOOLEAN :
          engine_out' = Append(engine_out, ResponseTo(r, s, ok))
    BY <1>2, <1>5 DEF Took
  <2>2. PICK e : e = ResponseTo(r, s, ok)
    BY ZenonT(60)
  <2>3. /\ engine_out' = Append(engine_out, e) /\ e.type = "response" /\ e.id = r.id
        /\ e.method = r.method
    BY ZenonT(60), <2>1, <2>2 DEF ResponseTo
  <2>4. r.method = "STOP" => working' = {}
    BY ZenonT(60), <1>2, <1>5 DEF Took
  <2>5. active /\ resource = "verifier" =>
          \A k \in DOMAIN engine_out : engine_out[k].type # "response"
    BY ZenonT(60), <1>3, <1>5, NoneWaits
  <2>6. ClearInv'
    BY ZenonT(60), <1>1, <2>3, <2>4, <2>5, ClearNext
  <2> QED
    BY ZenonT(60), <1>1, <1>3, <2>3, <2>6, EngineKeeps DEF MachineInv
<1> QED
  BY <1>4, <1>5

(* An event of the engine, or of its media thread, keeps the invariant of  *)
(* the machines.                                                           *)
LEMMA EngineTellsKeeps ==
  ASSUME ResourceInv, Stays, EngineTold \/ MediaTold
  PROVE  MachineInv'
<1>1. ASSUME Rests, UNCHANGED engine_in, NEW e, engine_out' = Append(engine_out, e),
             e.type # "response",
             working = {} => working' = {} /\ ~Completes(e)
      PROVE  MachineInv'
  <2>1. ClearInv'
    BY ZenonT(60), <1>1, ClearNext
  <2> QED
    BY ZenonT(60), <1>1, <2>1, EngineKeeps DEF MachineInv
<1>2. CASE MediaTold
  <2>1. PICK e : e = Released("subtracted")
    BY ZenonT(60)
  <2>2. e.type # "response" /\ ~Completes(e)
    BY ZenonT(60), <2>1 DEF Released, Completes
  <2> QED
    BY <1>1, <1>2, <2>1, <2>2 DEF MediaTold
<1>3. CASE EngineTold
  <2>1. PICK i \in working : Tells(i)
    BY <1>3 DEF EngineTold
  <2>2. PICK method : engine_out' = Append(engine_out, EventOf(i, method))
    BY <2>1 DEF Tells
  <2>3. PICK e : e = EventOf(i, method)
    BY ZenonT(60)
  <2>4. e.type # "response"
    BY ZenonT(60), <2>3 DEF EventOf
  <2> QED
    BY ZenonT(60), <1>1, <1>3, <2>1, <2>2, <2>3, <2>4 DEF EngineTold, Tells
<1> QED
  BY ZenonT(60), <1>2, <1>3

(* The client and steps that change nothing.                               *)
LEMMA OthersKeep ==
  ASSUME ResourceInv,
         UNCHANGED <<engine_in, engine_out, working, machineVars, recogVars, resource>>
  PROVE  MachineInv'
<1>1. UNCHANGED <<active, state, active_request, current, resource, ended>>
  BY ZenonT(60) DEF machineVars
<1>2. StateInv' /\ StopInv' /\ InProgressMatchesState' /\ OpenInv' /\ VerifyInv'
  BY ZenonT(60), <1>1, Types DEF MachineInv, StateInv, StopInv, InProgressMatchesState, OpenInv, VerifyInv
<1>3. ClearInv'
  BY SMTT(90), <1>1, Types DEF MachineInv, ClearInv, Completes
<1>4. DoneInv'
  BY ZenonT(60), <1>1, Types DEF MachineInv, DoneInv, Begun, InEngine, Responded, Completes
<1> QED
  BY ZenonT(60), <1>2, <1>3, <1>4 DEF MachineInv

(* Every step.                                                             *)
LEMMA MachineStep ==
  ASSUME ResourceInv, MachineNext, Stays, Fresh, FlowInv'
  PROVE  /\ MachineInv' /\ (active' => active) /\ UNCHANGED resource
         /\ resource # "recog" => UNCHANGED recogVars
<1>1. CASE Waiting
  BY ZenonT(60), <1>1, OthersKeep DEF Waiting, machineVars
<1>2. CASE ServerDone
  <2>1. /\ (\E r : Calls(r)) \/ Deactivates \/ Resumes \/ (\E m : Hears(m))
        /\ UNCHANGED resource /\ (resource # "recog" => UNCHANGED recogVars)
    BY ZenonT(60), <1>2 DEF ServerDone
  <2>2. CASE \E r : Calls(r)
    BY <2>1, <2>2, CallKeeps DEF Calls
  <2>3. CASE Deactivates
    BY ZenonT(60), <2>1, <2>3, DeactivateKeeps
  <2>4. CASE Resumes
    BY ZenonT(60), <2>1, <2>4, ResumeKeeps
  <2>5. CASE \E m : Hears(m)
    BY <2>1, <2>5, MessageKeepsState, MessageKeepsVerifier, MessageKeepsDone DEF MachineInv, Hears
  <2> QED
    BY ZenonT(60), <2>1, <2>2, <2>3, <2>4, <2>5
<1>3. CASE EngineTook
  BY ZenonT(60), <1>3, EngineTakesKeeps DEF EngineTook, Rests, machineVars
<1>4. CASE EngineTold \/ MediaTold
  BY <1>4, EngineTellsKeeps DEF EngineTold, MediaTold, Rests, machineVars
<1> QED
  BY ZenonT(60), <1>1, <1>2, <1>3, <1>4 DEF MachineNext
=============================================================================
