----------------------------- MODULE RequestFlow -----------------------------
(***************************************************************************)
(* The way of a control request through a server channel, whatever its     *)
(* resource: from the session (ServerControl) to the state machine, to the *)
(* engine and back, or into the queue of a state machine that has another  *)
(* request in progress.  Of a state machine only what moves requests is    *)
(* kept; SynthChannel and ResourceChannels are shown to take no other      *)
(* steps.                                                                  *)
(***************************************************************************)
EXTENDS ServerControl

VARIABLES
    active,          \* base.active
    state,
    is_pending,
    active_request,
    current,         \* the last request in progress: speaker, recog, record, verify
    queue,           \* pending requests
    ended,           \* ended[i]: times the client was told request i is over
    working          \* ids of the requests the engine has not finished

(* The methods of the requests that may be in progress, the events that    *)
(* end them, and the other events.                                         *)
Starts == {"SPEAK", "RECOGNIZE", "RECORD", "VERIFY", "VERIFY-FROM-BUFFER"}

Completions == {"SPEAK-COMPLETE", "RECOGNITION-COMPLETE", "RECORD-COMPLETE",
                "VERIFICATION-COMPLETE"}

Signals == {"SPEECH-MARKER", "START-OF-INPUT"}

(* The states in which a request is in progress, and that request.         *)
Busy == {"SPEAKING", "PAUSED", "RECOGNIZING", "RECORDING", "VERIFYING"}

Serving == IF state \in Busy THEN current ELSE NULL

flowVars == <<sent, answered, session_active, request_queue, todo, engine_in,
              engine_out, active, is_pending, active_request, Serving, queue,
              ended, working>>

FlowInit ==
    /\ ControlInit
    /\ active = TRUE
    /\ is_pending = FALSE
    /\ active_request = NULL
    /\ Serving = NULL
    /\ queue = <<>>
    /\ ended = [i \in Ids |-> 0]
    /\ working = {}

-----------------------------------------------------------------------------
(* The session.                                                            *)

NoTerminate ==
    /\ session_active # TERMINATE
    /\ \A k \in DOMAIN request_queue : request_queue[k] # TERMINATE

Process(msg) ==
    /\ todo = <<>>
    /\ NoTerminate
    /\ mrcp_server_signaling_message_process(msg)
    /\ UNCHANGED <<answered, engine_in, engine_out, active, is_pending,
                   active_request, Serving, queue, ended, working>>

Ask ==
    /\ Len(sent) < MaxRequests
    /\ \E r \in Request :
         /\ r.id = Len(sent) + 1
         /\ Process(r)
         /\ sent' = Append(sent, r)

AskTerminate == Process(TERMINATE) /\ UNCHANGED sent

(* A response is for the client only before deactivation.                  *)
Reply(id, rest) ==
    IF active
      THEN DispatchResponse(id, rest)
      ELSE todo' = rest /\ UNCHANGED requestVars

(* The client learns that the requests in S are over.                      *)
Ending(S) ==
    ended' = [i \in Ids |-> IF active /\ i \in S THEN ended[i] + 1 ELSE ended[i]]

Removed(r) ==
    {i \in Ids : \E k \in DOMAIN queue : queue[k].id = i /\ Selects(r, i)}

(* Nothing more is sent to the engine, or its channel is closed.           *)
MayClose == engine_in' = engine_in \/ engine_in' = Append(engine_in, CLOSE)

-----------------------------------------------------------------------------
(* The state machine takes the request at the top of the task's stack.     *)

Taking(r) ==
    /\ todo # <<>>
    /\ Head(todo) = DispatchCall(r)
    /\ UNCHANGED <<sent, engine_out, is_pending, Serving, working>>

Forward(r) ==
    /\ Taking(r) /\ r # TERMINATE
    /\ active_request' = r
    /\ engine_in' = Append(engine_in, r)
    /\ todo' = Tail(todo)
    /\ UNCHANGED <<requestVars, active, queue, ended>>

(* It answers it itself, queues it or removes others from the queue.       *)
Settle(r) ==
    /\ Taking(r) /\ r # TERMINATE
    /\ active_request' = NULL
    /\ Reply(r.id, Tail(todo))
    /\ MayClose
    /\ \/ UNCHANGED <<queue, ended>>
       \/ r.method \in Starts /\ queue' = Append(queue, r) /\ UNCHANGED ended
       \/ queue' = Kept(queue, r) /\ Ending(Removed(r))
    /\ UNCHANGED active

(* Deactivation.                                                           *)
Deactivate ==
    /\ Taking(TERMINATE)
    /\ active' = FALSE
    /\ todo' = Tail(todo)
    /\ \/ /\ engine_in' = Append(engine_in, CLOSE)
          /\ UNCHANGED active_request
       \/ /\ Serving # NULL
          /\ active_request' = InternalStop(Serving)
          /\ engine_in' = Append(engine_in, InternalStop(Serving))
    /\ UNCHANGED <<requestVars, queue, ended>>

(* A request that was taken from the queue goes to the engine.             *)
Resubmit ==
    /\ todo # <<>>
    /\ Head(todo).call = "pending"
    /\ is_pending' = TRUE
    /\ active_request' = Head(todo).req
    /\ engine_in' = Append(engine_in, Head(todo).req)
    /\ todo' = Tail(todo)
    /\ UNCHANGED <<sent, requestVars, engine_out, active, Serving, queue, ended,
                   working>>

-----------------------------------------------------------------------------
(* The state machine takes the next message of the engine.                 *)

Hearing(m) ==
    /\ todo = <<>>
    /\ engine_out # <<>>
    /\ m = Head(engine_out)
    /\ engine_out' = Tail(engine_out)
    /\ UNCHANGED <<sent, active, working>>

Dropped(m) ==
    /\ Hearing(m)
    /\ MayClose
    /\ UNCHANGED <<requestVars, todo, is_pending, active_request, Serving, queue,
                   ended>>

HearingResponse(m) ==
    /\ Hearing(m)
    /\ m.type = "response"
    /\ active_request # NULL /\ active_request.id = m.id

(* END-SESSION also forgets the request in progress.                       *)
Passed(m) ==
    /\ HearingResponse(m) /\ m.method \notin Starts
    /\ active_request' = NULL
    /\ Reply(m.id, <<>>)
    /\ MayClose
    /\ Serving' \in {Serving, NULL}
    /\ UNCHANGED <<is_pending, queue, ended>>

(* The response to a request that may now be in progress.                  *)
Started(m) ==
    /\ HearingResponse(m) /\ m.method \in Starts
    /\ Serving' \in {active_request, Serving}
    /\ IF is_pending
         THEN /\ is_pending' = FALSE
              /\ UNCHANGED <<requestVars, todo, engine_in, active_request, ended>>
         ELSE /\ active_request' = NULL
              /\ Reply(m.id, <<>>)
              /\ MayClose
              /\ \/ UNCHANGED ended
                 \/ UNCHANGED Serving /\ Ending({m.id})
              /\ UNCHANGED is_pending
    /\ UNCHANGED queue

(* The request in progress was stopped, with the ones in the queue that    *)
(* the stopping request selects; the first that stays follows, or none.    *)
Stopped(m) ==
    /\ HearingResponse(m) /\ m.method \notin Starts
    /\ active => Serving # NULL
    /\ Ending({Serving.id} \cup Removed(active_request))
    /\ Serving' = NULL
    /\ active_request' = NULL
    /\ LET kept == Kept(queue, active_request)
       IN  \/ /\ queue' = kept
              /\ Reply(m.id, <<>>)
           \/ /\ kept # <<>>
              /\ queue' = Tail(kept)
              /\ Reply(m.id, <<PendingCall(Head(kept))>>)
    /\ MayClose
    /\ UNCHANGED is_pending

(* The request in progress is over; the first one in the queue follows.    *)
Completed(m) ==
    /\ Hearing(m)
    /\ m.type = "event"
    /\ active => Serving # NULL /\ Serving.id = m.id
    /\ Serving' = NULL
    /\ Ending({m.id})
    /\ IF queue = <<>>
         THEN UNCHANGED <<queue, is_pending, active_request, engine_in>>
         ELSE /\ queue' = Tail(queue)
              /\ is_pending' = TRUE
              /\ active_request' = Head(queue)
              /\ engine_in' = Append(engine_in, Head(queue))
    /\ UNCHANGED <<requestVars, todo>>

-----------------------------------------------------------------------------
(* The engine.                                                             *)

EngineStep ==
    UNCHANGED <<sent, requestVars, todo, active, is_pending, active_request,
                Serving, queue, ended>>

EngineAnswers ==
    /\ engine_in # <<>>
    /\ \E r \in {Head(engine_in)}, s \in {"INPROGRESS", "COMPLETE"}, ok \in BOOLEAN :
         /\ r # CLOSE
         /\ engine_in' = Tail(engine_in)
         /\ engine_out' = Append(engine_out, ResponseTo(r, s, ok))
         /\ working' \subseteq working \cup
               (IF r.method \in Starts /\ s = "INPROGRESS" THEN {r.id} ELSE {})
    /\ EngineStep

EngineCloses ==
    /\ engine_in # <<>> /\ Head(engine_in) = CLOSE
    /\ engine_in' = Tail(engine_in)
    /\ engine_out' = Append(engine_out, Released("closed"))
    /\ working' \subseteq working
    /\ EngineStep

(* A request is completed once, by an event.                               *)
EngineCompletes ==
    /\ \E i \in working, method \in Completions :
         /\ engine_out' = Append(engine_out, EventOf(i, method))
         /\ working' = working \ {i}
    /\ UNCHANGED engine_in
    /\ EngineStep

Completes(m) == m.type = "event" /\ m.method \in Completions

(* Another event, or the media engine's answer.                            *)
EngineSignals ==
    /\ \E m \in {Released("subtracted")} \cup {EventOf(i, method) : i \in Ids, method \in Signals} :
         /\ ~Completes(m)
         /\ engine_out' = Append(engine_out, m)
    /\ UNCHANGED <<engine_in, working>>
    /\ EngineStep

-----------------------------------------------------------------------------

TakeCall ==
    /\ todo # <<>>
    /\ \E r \in {Head(todo).req} : Forward(r) \/ Settle(r)

TakeMessage ==
    /\ engine_out # <<>>
    /\ \E m \in {Head(engine_out)} :
         Dropped(m) \/ Passed(m) \/ Started(m) \/ Stopped(m) \/ Completed(m)

FlowNext ==
    \/ Ask \/ AskTerminate
    \/ TakeCall \/ Deactivate \/ Resubmit
    \/ TakeMessage
    \/ EngineAnswers \/ EngineCloses \/ EngineCompletes \/ EngineSignals

FlowSpec == FlowInit /\ [][FlowNext]_flowVars

-----------------------------------------------------------------------------
(* The inductive invariant.                                                *)

StartRequest == {r \in Request : r.method \in Starts}

Call == [call : {"dispatch"}, req : Request \cup {TERMINATE}]
        \cup [call : {"pending"}, req : StartRequest]

Heard == [type : {"response", "event", "closed", "subtracted"}, id : Ids \cup {0},
          method : Methods \cup {"STOP", "NULL"} \cup Completions \cup Signals,
          state : {"INPROGRESS", "COMPLETE"}, ok : BOOLEAN]

FlowTypeOK ==
    /\ sent \in Seq(Request) /\ Len(sent) <= MaxRequests
    /\ answered \in [Ids -> Nat]
    /\ session_active \in Request \cup {NULL, TERMINATE}
    /\ request_queue \in Seq(Request \cup {TERMINATE})
    /\ todo \in Seq(Call)
    /\ engine_in \in Seq(Request \cup {CLOSE})
    /\ engine_out \in Seq(Heard)
    /\ active \in BOOLEAN /\ is_pending \in BOOLEAN
    /\ active_request \in Request \cup {NULL}
    /\ Serving \in Request \cup {NULL}
    /\ queue \in Seq(StartRequest)
    /\ ended \in [Ids -> Nat]
    /\ working \subseteq Ids

Known(r) == r.id \in DOMAIN sent /\ sent[r.id] = r

(* The session has not given request i to the state machine.               *)
Undispatched(i) ==
    \/ i > Len(sent)
    \/ /\ session_active.id # 0
       /\ \/ i > session_active.id
          \/ /\ i = session_active.id
             /\ \E k \in DOMAIN todo : todo[k].call = "dispatch"

(* The session has got the response to request i.                          *)
Past(i) == i <= Len(sent) /\ (session_active.id # 0 => i < session_active.id)

(* Requests wait in the order they were sent, behind the active one.       *)
SessionInv ==
    /\ \A i \in DOMAIN sent : sent[i].id = i
    /\ session_active.id # 0 => Known(session_active)
    /\ session_active.id = 0 => request_queue = <<>>
    /\ \A k \in DOMAIN request_queue : request_queue[k].id # 0 =>
          Known(request_queue[k]) /\ session_active.id < request_queue[k].id
    /\ \A j, k \in DOMAIN request_queue : j < k =>
          /\ request_queue[j].id # 0
          /\ request_queue[k].id # 0 => request_queue[j].id < request_queue[k].id

AnswerInv ==
    \A i \in Ids : answered[i] <= 1 /\ (~Past(i) => answered[i] = 0)

(* The stack holds one dispatch, that of the session's active request, and *)
(* under it one pending request; nothing is dispatched after deactivation. *)
TodoInv ==
    /\ \A k \in DOMAIN todo :
         /\ todo[k].call = "pending" => k = Len(todo)
         /\ todo[k].call = "dispatch" =>
               k = 1 /\ active /\ todo[k].req = session_active
    /\ ~active => session_active = TERMINATE

InEngine(i) == \E k \in DOMAIN engine_in : engine_in[k].id = i

Responded(i) ==
    \E k \in DOMAIN engine_out : engine_out[k].type = "response" /\ engine_out[k].id = i

Waits(i) ==
    \/ \E k \in DOMAIN queue : queue[k].id = i
    \/ \E k \in DOMAIN todo : todo[k].call = "pending" /\ todo[k].req.id = i

(* Before deactivation the engine has every request at most once, with its *)
(* response on the way back or not.                                        *)
EngineInv ==
    /\ \A k \in DOMAIN engine_in : engine_in[k].id # 0 =>
         /\ Known(engine_in[k]) /\ ~Undispatched(engine_in[k].id)
         /\ ~Responded(engine_in[k].id)
    /\ \A j, k \in DOMAIN engine_in :
         j # k /\ engine_in[j].id # 0 => engine_in[j].id # engine_in[k].id
    /\ \A k \in DOMAIN engine_out : engine_out[k].type = "response" =>
         /\ engine_out[k].id \in DOMAIN sent
         /\ engine_out[k].method = sent[engine_out[k].id].method
         /\ ~Undispatched(engine_out[k].id)
    /\ \A j, k \in DOMAIN engine_out :
         j # k /\ engine_out[j].type = "response" /\ engine_out[k].type = "response" =>
             engine_out[j].id # engine_out[k].id

(* Requests wait in the order they were sent, and only when the session    *)
(* and the engine are done with them.                                      *)
QueueInv ==
    /\ \A k \in DOMAIN queue : Known(queue[k])
    /\ \A j, k \in DOMAIN queue : j < k => queue[j].id < queue[k].id
    /\ \A k \in DOMAIN todo : todo[k].call = "pending" =>
         /\ Known(todo[k].req)
         /\ \A j \in DOMAIN queue : todo[k].req.id < queue[j].id
    /\ \A i \in Ids : Waits(i) => Past(i) /\ ~InEngine(i) /\ ~Responded(i)

(* The request in progress is nowhere else.                                *)
CurrentInv ==
    Serving.id # 0 =>
        /\ Known(Serving) /\ ~Undispatched(Serving.id)
        /\ ~InEngine(Serving.id) /\ ~Responded(Serving.id) /\ ~Waits(Serving.id)

(* A response to active_request is for the session's active request, or is *)
(* taken for that of a pending one.                                        *)
ActiveInv ==
    active_request.id # 0 =>
        /\ Known(active_request)
        /\ InEngine(active_request.id) \/ Responded(active_request.id) =>
             \/ active_request.id = session_active.id
             \/ is_pending /\ active_request.method \in Starts

(* What the engine works on, or has completed.                             *)
Begun(i) ==
    i \in working \/ \E k \in DOMAIN engine_out : Completes(engine_out[k]) /\ engine_out[k].id = i

WorkInv ==
    /\ \A i \in Ids : Begun(i) => ~Undispatched(i) /\ ~InEngine(i) /\ ~Waits(i)
    /\ \A k \in DOMAIN engine_out : Completes(engine_out[k]) =>
         /\ engine_out[k].id \in Ids \ working
         /\ \A j \in DOMAIN engine_out : j # k /\ Completes(engine_out[j]) =>
              engine_out[j].id # engine_out[k].id

PlaceInv == active => EngineInv /\ QueueInv /\ CurrentInv /\ ActiveInv /\ WorkInv

(* No request that is in progress, waits or is with the engine is over.    *)
EndInv ==
    /\ \A i \in Ids : ended[i] <= 1
    /\ Serving.id # 0 => ended[Serving.id] = 0
    /\ \A i \in Ids : Waits(i) \/ (active /\ Undispatched(i)) => ended[i] = 0
    /\ \A k \in DOMAIN engine_in :
         engine_in[k].id # 0 /\ engine_in[k].method \in Starts => ended[engine_in[k].id] = 0
    /\ \A k \in DOMAIN engine_out :
         /\ engine_out[k].type = "response" /\ engine_out[k].id # 0
         /\ engine_out[k].method \in Starts
         => ended[engine_out[k].id] = 0

(* Also after deactivation the requests in the queue keep their order.     *)
QueueOrdered == \A j, k \in DOMAIN queue : j < k => queue[j].id < queue[k].id

(* A request completes after its response.                                 *)
ResponseFirst ==
    active => \A j, k \in DOMAIN engine_out :
        j < k /\ Completes(engine_out[j]) /\ engine_out[k].type = "response" =>
            engine_out[j].id # engine_out[k].id

(* While no request is taken from the queue the engine has one at a time.  *)
OneAtATime ==
    active => \A i \in Ids : InEngine(i) \/ Responded(i) => i = active_request.id

FlowInv == FlowTypeOK /\ SessionInv /\ AnswerInv /\ TodoInv /\ PlaceInv /\ EndInv

=============================================================================
