-------------------------- MODULE InProgressMachines --------------------------
(***************************************************************************)
(* What the state machines of the recorder, the verifier and the           *)
(* recognizer have in common (libs/mrcp-engine/src:                        *)
(* mrcp_recorder_state_machine.c, mrcp_verifier_state_machine.c and        *)
(* mrcp_recog_state_machine.c, the same code up to names): one request may *)
(* be in progress.  ResourceChannels adds what differs.  The variables are *)
(* those of RequestFlow; current is the recog, the record or the verify.   *)
(*                                                                         *)
(* The engine takes its requests in order and answers each one once; a     *)
(* request it accepted ends with its -COMPLETE event unless it is stopped  *)
(* first.                                                                  *)
(***************************************************************************)
EXTENDS RequestFlow

VARIABLES
    resource,        \* which of the three the channel has
    crashed          \* a NULL current was dereferenced

machineVars == <<active, state, active_request, current, crashed, ended>>

(* What only the recognizer has.                                           *)
recogVars == <<is_pending, queue>>

request_dispatch(r) ==
    /\ active_request' = r
    /\ engine_in' = Append(engine_in, r)

(* A response after deactivation is taken for the answer to the internal   *)
(* STOP.                                                                   *)
response_dispatch(id, rest) ==
    /\ active_request' = NULL
    /\ IF active
         THEN /\ DispatchResponse(id, rest)
              /\ UNCHANGED <<terminationVars, engine_in>>
         ELSE /\ state_machine_on_deactivate
              /\ todo' = rest
              /\ UNCHANGED requestVars

-----------------------------------------------------------------------------
(* Requests: the call at the top of the server task's stack.               *)

Dispatching(r, methods) ==
    /\ todo # <<>>
    /\ Head(todo) = DispatchCall(r)
    /\ r.method \in methods

Respond(r) == response_dispatch(r.id, Tail(todo))

ToEngine(r) ==
    /\ request_dispatch(r)
    /\ todo' = Tail(todo)
    /\ UNCHANGED <<requestVars, terminationVars>>

(* A method that is valid in some states only.                             *)
OnlyIf(valid, r) == IF valid THEN ToEngine(r) ELSE Respond(r)

(* Deactivation stops the request in progress with an internal STOP.       *)
state_deactivate(busy) ==
    /\ Dispatching(TERMINATE, {"TERMINATE"})
    /\ active' = FALSE
    /\ LET stops == state = busy /\ current # NULL
       IN  /\ IF stops THEN request_dispatch(InternalStop(current))
                       ELSE UNCHANGED active_request
           /\ mrcp_server_session_deactivate(stops)
    /\ todo' = Tail(todo)
    /\ UNCHANGED <<requestVars, state, current, ended>>

(* The end of recog_response_stop: the pending RECOGNIZE it popped goes to *)
(* the engine, after whatever the session dispatched in the meantime.      *)
ProcessPending ==
    /\ todo # <<>>
    /\ Head(todo).call = "pending"
    /\ is_pending' = TRUE
    /\ request_dispatch(Head(todo).req)
    /\ todo' = Tail(todo)
    /\ UNCHANGED <<requestVars, terminationVars, active, state, current, queue,
                   ended>>

-----------------------------------------------------------------------------
(* Responses and events.                                                   *)

Awaited(m) == active_request # NULL /\ active_request.id = m.id

Responding(m, methods) ==
    /\ Receiving(m)
    /\ m.type = "response"
    /\ m.method \in methods
    /\ Awaited(m)

Unexpected(m) ==
    /\ Receiving(m)
    /\ m.type = "response"
    /\ ~Awaited(m)
    /\ UNCHANGED <<requestVars, terminationVars, todo, engine_in, machineVars>>

response_passed(m, methods) ==
    /\ Responding(m, methods)
    /\ response_dispatch(m.id, <<>>)
    /\ UNCHANGED <<active, state, current, crashed, ended>>

(* The response to STOP names the request in progress.                     *)
response_stopped(m, idle, next) ==
    /\ Responding(m, {"STOP"})
    /\ IF current = NULL
         THEN /\ crashed' = TRUE
              /\ UNCHANGED <<requestVars, terminationVars, todo, engine_in, active,
                             state, active_request, current, ended>>
         ELSE /\ Ending({current.id})
              /\ state' = idle
              /\ current' = next
              /\ response_dispatch(m.id, <<>>)
              /\ UNCHANGED <<active, crashed>>

(* Dropped: an event about another request, or one that crossed a STOP.    *)
event_completed(m, method, idle, next) ==
    /\ Receiving(m)
    /\ m.type = "event"
    /\ m.method = method
    /\ IF current = NULL \/ current.id # m.id \/ active_request.method = "STOP"
         THEN UNCHANGED machineVars
         ELSE /\ state' = idle
              /\ current' = next
              /\ Ending({m.id})
              /\ UNCHANGED <<active, active_request, crashed>>
    /\ UNCHANGED <<requestVars, terminationVars, todo, engine_in>>

StartOfInput(m) ==
    /\ Receiving(m)
    /\ m.type = "event"
    /\ m.method = "START-OF-INPUT"
    /\ UNCHANGED <<requestVars, terminationVars, todo, engine_in, machineVars>>

-----------------------------------------------------------------------------
(* The engine.                                                             *)

EngineRequest(starts) ==
    /\ engine_in # <<>>
    /\ LET r == Head(engine_in)
       IN  \/ /\ r.method \in starts
              /\ \/ /\ Answer(r, ResponseTo(r, "INPROGRESS", TRUE))
                    /\ working' = working \cup {r.id}
                 \/ /\ Answer(r, ResponseTo(r, "COMPLETE", FALSE))
                    /\ UNCHANGED working
           \/ /\ r.method = "STOP"
              /\ Answer(r, ResponseTo(r, "COMPLETE", TRUE))
              /\ working' = {}
           \/ /\ r = CLOSE
              /\ Answer(r, Released("closed"))
              /\ working' = {}
           \/ /\ r.method \in Methods \ (starts \cup {"STOP"})
              /\ Answer(r, ResponseTo(r, "COMPLETE", TRUE))
              /\ UNCHANGED working
    /\ EngineLeaves

(* Bound: START-OF-INPUT is raised only when no message is on its way.     *)
EngineEvent(complete) ==
    /\ \E i \in working :
         \/ /\ working' = working \ {i}
            /\ engine_out' = Append(engine_out, EventOf(i, complete))
         \/ /\ engine_out = <<>>
            /\ engine_out' = Append(engine_out, EventOf(i, "START-OF-INPUT"))
            /\ UNCHANGED working
    /\ UNCHANGED engine_in
    /\ EngineLeaves

-----------------------------------------------------------------------------
(* Properties.                                                             *)

(* A request is in progress exactly when the state says so.  The verifier  *)
(* keeps its verify after the verification, until END-SESSION.             *)
InProgressMatchesState ==
    IF resource = "verifier"
      THEN state = "VERIFYING" => current # NULL
      ELSE (current = NULL) <=> (state = "IDLE")

=============================================================================
