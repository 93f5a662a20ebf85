------------------------------ MODULE FlowEnds ------------------------------
(***************************************************************************)
(* Proofs about RequestFlow, the two ends of a channel: what the client's  *)
(* session and the engine do keeps FlowInv, and so does what the session   *)
(* makes of a response.                                                    *)
(***************************************************************************)
EXTENDS RequestFlow, TLAPS

-----------------------------------------------------------------------------
(* Facts about messages.                                                   *)

USE ControlAssumption

(* The special messages are no requests, and differ from each other.       *)
LEMMA MessageFacts ==
  /\ NULL.id = 0 /\ TERMINATE.id = 0 /\ CLOSE.id = 0
  /\ NULL.method = "NULL" /\ TERMINATE.method = "TERMINATE" /\ CLOSE.method = "CLOSE"
  /\ NULL # TERMINATE /\ NULL # CLOSE /\ TERMINATE # CLOSE
  /\ \A r \in Request : r.id \in Nat /\ r.id # 0 /\ r.id \in Ids /\ r # NULL
  /\ \A r \in Request : r # TERMINATE /\ r # CLOSE
  /\ Ids \subseteq Nat /\ 0 \notin Ids
BY DEF NULL, TERMINATE, CLOSE, Message, Request, Ids

(* The two calls a session has still to make.                              *)
LEMMA CallFacts ==
  ASSUME NEW r
  PROVE  /\ DispatchCall(r).call = "dispatch" /\ DispatchCall(r).req = r
         /\ PendingCall(r).call = "pending" /\ PendingCall(r).req = r
         /\ r \in Request \cup {TERMINATE} => DispatchCall(r) \in Call
         /\ r \in StartRequest => PendingCall(r) \in Call
         /\ DOMAIN <<DispatchCall(r)>> = {1} /\ <<DispatchCall(r)>>[1] = DispatchCall(r)
         /\ Len(<<DispatchCall(r)>>) = 1
BY DEF Call, DispatchCall, PendingCall

(* Appending to a sequence and taking its first element.                   *)
LEMMA AppendFacts ==
  ASSUME NEW S, NEW s \in Seq(S), NEW e \in S
  PROVE  /\ Append(s, e) \in Seq(S)
         /\ Len(s) \in Nat /\ DOMAIN s = 1..Len(s)
         /\ Len(Append(s, e)) = Len(s) + 1 /\ DOMAIN Append(s, e) = 1..(Len(s) + 1)
         /\ \A k \in DOMAIN s : k \in DOMAIN Append(s, e) /\ Append(s, e)[k] = s[k]
         /\ Append(s, e)[Len(s) + 1] = e
OBVIOUS

(* The head and the tail of a sequence that is not empty.                  *)
LEMMA TailFacts ==
  ASSUME NEW S, NEW s \in Seq(S), s # <<>>
  PROVE  /\ Head(s) \in S /\ Head(s) = s[1] /\ 1 \in DOMAIN s
         /\ Tail(s) \in Seq(S)
         /\ Len(s) \in Nat /\ DOMAIN s = 1..Len(s)
         /\ Len(Tail(s)) = Len(s) - 1 /\ DOMAIN Tail(s) = 1..(Len(s) - 1)
         /\ \A k \in DOMAIN Tail(s) : k + 1 \in DOMAIN s /\ Tail(s)[k] = s[k + 1]
OBVIOUS

(* The elements of a concatenation.                                        *)
LEMMA ConcatFacts ==
  ASSUME NEW S, NEW s \in Seq(S), NEW t \in Seq(S)
  PROVE  /\ s \o t \in Seq(S) /\ Len(s \o t) = Len(s) + Len(t)
         /\ \A k \in 1..(Len(s) + Len(t)) :
              (s \o t)[k] = IF k <= Len(s) THEN s[k] ELSE t[k - Len(s)]
OBVIOUS

(* A sequence is empty when its length is 0.                               *)
LEMMA EmptyFacts ==
  ASSUME NEW S, NEW s \in Seq(S)
  PROVE  s = <<>> <=> Len(s) = 0
OBVIOUS

(* Two sequences with the same elements are the same.                      *)
LEMMA SameElements ==
  ASSUME NEW S, NEW s \in Seq(S), NEW t \in Seq(S), Len(s) = Len(t),
         \A k \in 1..Len(s) : s[k] = t[k]
  PROVE  s = t
OBVIOUS

-----------------------------------------------------------------------------
(* The session's steps.                                                    *)

(* A new channel satisfies the invariant.                                  *)
LEMMA FlowInitially == FlowInit => FlowInv
<1> SUFFICES ASSUME FlowInit PROVE FlowInv
  OBVIOUS
<1> USE MessageFacts DEF FlowInit, ControlInit
<1>1. FlowTypeOK
  <2>1. \A S : <<>> \in Seq(S)
    OBVIOUS
  <2>2. /\ sent \in Seq(Request)
        /\ request_queue \in Seq(Request \cup {TERMINATE})
        /\ todo \in Seq(Call)
        /\ engine_in \in Seq(Request \cup {CLOSE})
        /\ engine_out \in Seq(Heard)
        /\ queue \in Seq(StartRequest)
    BY ZenonT(60), <2>1
  <2>3. Len(sent) <= MaxRequests
    OBVIOUS
  <2> QED
    BY ZenonT(60), <2>2, <2>3 DEF FlowTypeOK
<1>2. SessionInv
  BY DEF SessionInv, Known
<1>3. AnswerInv
  BY DEF AnswerInv, Past
<1>4. TodoInv
  BY DEF TodoInv
<1>5. PlaceInv
  BY DEF PlaceInv, EngineInv, QueueInv, CurrentInv, ActiveInv, WorkInv, Waits, Begun
<1>6. EndInv
  BY DEF EndInv, Waits, Undispatched
<1> QED
  BY <1>1, <1>2, <1>3, <1>4, <1>5, <1>6 DEF FlowInv

(* The requests sent are numbered from 1 and are no more than the bound.   *)
LEMMA SentFacts ==
  ASSUME FlowTypeOK
  PROVE  /\ Len(sent) \in Nat /\ Len(sent) <= MaxRequests
         /\ DOMAIN sent = 1..Len(sent) /\ DOMAIN sent \subseteq Ids
<1>1. sent \in Seq(Request) /\ Len(sent) <= MaxRequests
  BY DEF FlowTypeOK
<1> QED
  BY <1>1 DEF Ids

(* A step that leaves the state machine and the engine alone.              *)
LEMMA SessionStep ==
  ASSUME FlowInv, FlowTypeOK',
         UNCHANGED <<engine_in, engine_out, active, is_pending, active_request, Serving,
                     queue, ended, working>>,
         \A i \in DOMAIN sent : i \in DOMAIN sent' /\ sent'[i] = sent[i],
         \A i \in Ids : Undispatched(i)' => Undispatched(i),
         \A i \in Ids : Past(i) => Past(i)',
         \A i \in Ids : Waits(i)' = Waits(i),
         \A k \in DOMAIN todo' : todo'[k].call # "pending",
         session_active.id # 0 => session_active' = session_active
  PROVE  PlaceInv' /\ EndInv'
<1> USE MessageFacts
<1>1. FlowTypeOK /\ PlaceInv /\ EndInv
  BY DEF FlowInv
<1>2. \A i : InEngine(i)' = InEngine(i) /\ Responded(i)' = Responded(i) /\ Begun(i)' = Begun(i)
  BY ZenonT(60) DEF InEngine, Responded, Begun
<1>3. ASSUME active PROVE EngineInv'
  <2>1. \A k \in DOMAIN engine_in : engine_in[k].id # 0 => engine_in[k].id \in Ids
    BY SMTT(90), <1>1 DEF FlowTypeOK
  <2>2. DOMAIN sent \subseteq Ids
    BY <1>1, SentFacts
  <2>3. EngineInv
    BY ZenonT(60), <1>1, <1>3 DEF PlaceInv
  <2>4. \A k \in DOMAIN engine_in : engine_in[k].id # 0 =>
          /\ engine_in[k].id \in DOMAIN sent' /\ sent'[engine_in[k].id] = engine_in[k]
          /\ ~Undispatched(engine_in[k].id)' /\ ~Responded(engine_in[k].id)'
    BY ZenonT(60), <1>2, <2>1, <2>3 DEF EngineInv, Known
  <2>5. \A k \in DOMAIN engine_out : engine_out[k].type = "response" =>
          /\ engine_out[k].id \in DOMAIN sent'
          /\ engine_out[k].method = sent'[engine_out[k].id].method
          /\ ~Undispatched(engine_out[k].id)'
    BY ZenonT(60), <2>2, <2>3 DEF EngineInv
  <2> QED
    BY ZenonT(60), <2>3, <2>4, <2>5 DEF EngineInv, Known
<1>4. ASSUME active PROVE QueueInv'
  BY ZenonT(60), <1>1, <1>2, <1>4 DEF PlaceInv, QueueInv, Known, FlowTypeOK, StartRequest
<1>5. ASSUME active PROVE CurrentInv'
  BY ZenonT(60), <1>1, <1>2, <1>5 DEF PlaceInv, CurrentInv, Known, FlowTypeOK
<1>6. ASSUME active PROVE ActiveInv'
  BY ZenonT(60), <1>1, <1>2, <1>6 DEF PlaceInv, ActiveInv, Known, FlowTypeOK
<1>7. ASSUME active PROVE WorkInv'
  BY ZenonT(60), <1>1, <1>2, <1>7 DEF PlaceInv, WorkInv, Known, FlowTypeOK, Completes
<1>8. EndInv'
  BY <1>1, <1>2 DEF EndInv, FlowTypeOK
<1> QED
  BY <1>3, <1>4, <1>5, <1>6, <1>7, <1>8 DEF PlaceInv

(* A request of the client keeps the invariant, whether it is dispatched   *)
(* at once or queued.                                                      *)
LEMMA AskStep == FlowInv /\ Ask => FlowInv'
<1> SUFFICES ASSUME FlowInv, Ask PROVE FlowInv'
  OBVIOUS
<1> USE MessageFacts
<1>1. PICK r \in Request : /\ Len(sent) < MaxRequests
                          /\ r.id = Len(sent) + 1
                          /\ Process(r)
                          /\ sent' = Append(sent, r)
  BY DEF Ask
<1>2. FlowTypeOK /\ SessionInv /\ AnswerInv /\ TodoInv /\ PlaceInv /\ EndInv
  BY ZenonT(60) DEF FlowInv
<1>3. /\ session_active # TERMINATE /\ active
      /\ todo = <<>> /\ \A k \in DOMAIN request_queue : request_queue[k] # TERMINATE
  BY <1>1, <1>2 DEF Process, NoTerminate, TodoInv, FlowTypeOK
<1>4. /\ sent' \in Seq(Request) /\ Len(sent') = Len(sent) + 1 /\ Len(sent) \in Nat
      /\ DOMAIN sent = 1..Len(sent) /\ DOMAIN sent' = 1..(Len(sent) + 1)
      /\ \A i \in DOMAIN sent : i \in DOMAIN sent' /\ sent'[i] = sent[i]
      /\ sent'[Len(sent) + 1] = r
  BY <1>1, <1>2, AppendFacts DEF FlowTypeOK
<1>5. CASE session_active # NULL
  <2>1. /\ request_queue' = Append(request_queue, r)
        /\ session_active' = session_active /\ todo' = todo
        /\ session_active \in Request
    BY <1>1, <1>2, <1>3, <1>5 DEF Process, mrcp_server_signaling_message_process, FlowTypeOK
  <2>0. /\ request_queue' \in Seq(Request \cup {TERMINATE})
        /\ DOMAIN request_queue = 1..Len(request_queue) /\ Len(request_queue) \in Nat
        /\ DOMAIN request_queue' = 1..(Len(request_queue) + 1)
        /\ \A k \in DOMAIN request_queue : request_queue'[k] = request_queue[k]
        /\ request_queue'[Len(request_queue) + 1] = r
    BY <1>2, <2>1, AppendFacts DEF FlowTypeOK
  <2>9. FlowTypeOK'
    BY SMTT(90), <1>1, <1>2, <1>4, <2>0, <2>1 DEF FlowTypeOK, Process
  <2>2. SessionInv'
    <3>1. \A i \in DOMAIN sent' : sent'[i].id = i
      BY <1>1, <1>2, <1>4 DEF SessionInv
    <3>2. Known(session_active)'
      BY ZenonT(60), <1>2, <1>4, <2>1 DEF SessionInv, Known
    <3>3. \A k \in DOMAIN request_queue :
            /\ Known(request_queue[k])
            /\ session_active.id < request_queue[k].id
            /\ request_queue[k].id # 0 /\ request_queue[k].id \in 1..Len(sent)
      BY SMTT(90), <1>2, <1>3, <1>4 DEF SessionInv, Known, FlowTypeOK
    <3>4. \A k \in DOMAIN request_queue' :
            Known(request_queue[k])' /\ session_active.id < request_queue'[k].id
      BY SMTT(90), <1>1, <1>2, <1>4, <2>0, <2>1, <3>3 DEF SessionInv, Known
    <3>5. \A j, k \in DOMAIN request_queue' : j < k =>
            request_queue'[j].id # 0 /\ request_queue'[j].id < request_queue'[k].id
      BY SMTT(90), <1>1, <1>2, <2>0, <3>3 DEF SessionInv
    <3> QED
      BY <2>1, <3>1, <3>2, <3>4, <3>5 DEF SessionInv
  <2>3. \A i \in Ids : Past(i) => Past(i)'
    BY <1>4, <2>1 DEF Past
  <2>4. \A i \in Ids : Undispatched(i)' => Undispatched(i)
    BY <1>4, <2>1 DEF Undispatched
  <2>5. \A i \in Ids : Waits(i)' = Waits(i)
    BY <1>1, <2>1 DEF Waits, Process
  <2>6. AnswerInv'
    BY <1>1, <1>2, <2>3 DEF AnswerInv, Process
  <2>7. TodoInv'
    BY <1>1, <1>2, <2>1 DEF TodoInv, Process
  <2>8. PlaceInv' /\ EndInv'
    BY <1>1, <1>3, <1>4, <2>1, <2>3, <2>4, <2>5, <2>9, SessionStep DEF Process
  <2> QED
    BY <2>2, <2>6, <2>7, <2>8, <2>9 DEF FlowInv
<1>6. CASE session_active = NULL
  <2>1. /\ request_queue' = request_queue
        /\ session_active' = r /\ todo' = <<DispatchCall(r)>>
        /\ request_queue = <<>>
    BY SMTT(90), <1>1, <1>2, <1>3, <1>6 DEF Process, mrcp_server_signaling_message_process, SessionInv
  <2>0. /\ DOMAIN todo' = {1} /\ Len(todo') = 1
        /\ todo'[1].call = "dispatch" /\ todo'[1].req = r
    BY ZenonT(60), <2>1, CallFacts
  <2>9. FlowTypeOK'
    <3>1. todo' \in Seq(Call)
      BY <2>1, CallFacts
    <3> QED
      BY SMTT(90), <1>1, <1>2, <1>4, <2>1, <3>1 DEF FlowTypeOK, Process
  <2>2. SessionInv'
    <3>1. \A i \in DOMAIN sent' : sent'[i].id = i
      BY SMTT(90), <1>1, <1>2, <1>4 DEF SessionInv
    <3>2. Known(session_active)'
      BY <1>1, <1>4, <2>1 DEF Known
    <3> QED
      BY <1>1, <2>1, <3>1, <3>2 DEF SessionInv
  <2>10. session_active'.id = Len(sent) + 1 /\ session_active.id = 0
    BY SMTT(90), <1>1, <1>6, <2>1
  <2>3. \A i \in Ids : Past(i) => Past(i)'
    BY <1>4, <2>10 DEF Past, Ids
  <2>4. \A i \in Ids : Undispatched(i)' => Undispatched(i)
    BY <1>4, <2>10 DEF Undispatched, Ids
  <2>5. \A i \in Ids : Waits(i)' = Waits(i)
    BY <1>1, <1>3, <2>0 DEF Waits, Process
  <2>6. AnswerInv'
    BY ZenonT(60), <1>1, <1>2, <2>3 DEF AnswerInv, Process
  <2>7. TodoInv'
    BY ZenonT(60), <1>1, <1>2, <1>3, <2>0, <2>1 DEF TodoInv, Process
  <2>8. PlaceInv' /\ EndInv'
    BY <1>1, <1>3, <1>4, <1>6, <2>0, <2>1, <2>3, <2>4, <2>5, <2>9, SessionStep DEF Process
  <2> QED
    BY ZenonT(60), <2>2, <2>6, <2>7, <2>8, <2>9 DEF FlowInv
<1> QED
  BY <1>5, <1>6

(* The termination of the session keeps the invariant.                     *)
LEMMA AskTerminateStep == FlowInv /\ AskTerminate => FlowInv'
<1> SUFFICES ASSUME FlowInv, AskTerminate PROVE FlowInv'
  OBVIOUS
<1> USE MessageFacts
<1>1. Process(TERMINATE) /\ sent' = sent
  BY DEF AskTerminate
<1>2. FlowTypeOK /\ SessionInv /\ AnswerInv /\ TodoInv /\ PlaceInv /\ EndInv
  BY ZenonT(60) DEF FlowInv
<1>3. /\ session_active # TERMINATE /\ active
      /\ todo = <<>> /\ \A k \in DOMAIN request_queue : request_queue[k] # TERMINATE
  BY <1>1, <1>2 DEF Process, NoTerminate, TodoInv, FlowTypeOK
<1>4. CASE session_active # NULL
  <2>1. /\ request_queue' = Append(request_queue, TERMINATE)
        /\ session_active' = session_active /\ todo' = todo
        /\ session_active \in Request
    BY ZenonT(60), <1>1, <1>2, <1>3, <1>4 DEF Process, mrcp_server_signaling_message_process, FlowTypeOK
  <2>2. /\ request_queue' \in Seq(Request \cup {TERMINATE})
        /\ DOMAIN request_queue = 1..Len(request_queue) /\ Len(request_queue) \in Nat
        /\ DOMAIN request_queue' = 1..(Len(request_queue) + 1)
        /\ \A k \in DOMAIN request_queue : request_queue'[k] = request_queue[k]
        /\ request_queue'[Len(request_queue) + 1] = TERMINATE
    BY SMTT(90), <1>2, <2>1, AppendFacts DEF FlowTypeOK
  <2>3. FlowTypeOK'
    BY ZenonT(60), <1>1, <1>2, <2>1, <2>2 DEF FlowTypeOK, Process
  <2>4. SessionInv'
    <3>1. \A k \in DOMAIN request_queue :
            Known(request_queue[k]) /\ session_active.id < request_queue[k].id
            /\ request_queue[k].id # 0
      BY SMTT(90), <1>2, <1>3 DEF SessionInv, FlowTypeOK
    <3>2. \A j, k \in DOMAIN request_queue' : j < k =>
            /\ request_queue'[j].id # 0
            /\ request_queue'[k].id # 0 => request_queue'[j].id < request_queue'[k].id
      BY SMTT(90), <1>2, <2>2, <3>1 DEF SessionInv
    <3>3. \A k \in DOMAIN request_queue' : request_queue'[k].id # 0 =>
            Known(request_queue[k])' /\ session_active.id < request_queue'[k].id
      BY <1>1, <2>2, <3>1 DEF Known
    <3> QED
      BY ZenonT(60), <1>1, <1>2, <2>1, <3>2, <3>3 DEF SessionInv, Known
  <2>5. \A i \in Ids : Past(i) = Past(i)' /\ Undispatched(i)' = Undispatched(i) /\ Waits(i)' = Waits(i)
    BY ZenonT(60), <1>1, <2>1 DEF Past, Undispatched, Waits, Process
  <2>6. AnswerInv' /\ TodoInv'
    BY ZenonT(60), <1>1, <1>2, <2>1, <2>5 DEF AnswerInv, TodoInv, Process
  <2>7. PlaceInv' /\ EndInv'
    <3>1. \A i \in Ids : (Undispatched(i)' => Undispatched(i)) /\ (Past(i) => Past(i)')
      BY <2>5
    <3>2. \A k \in DOMAIN todo' : todo'[k].call # "pending"
      BY <1>3, <2>1
    <3>3. \A i \in DOMAIN sent : i \in DOMAIN sent' /\ sent'[i] = sent[i]
      BY <1>1
    <3>4. UNCHANGED <<engine_in, engine_out, active, is_pending, active_request, Serving,
                      queue, ended, working>>
      BY <1>1 DEF Process
    <3>5. (\A i \in Ids : Waits(i)' = Waits(i)) /\ session_active' = session_active
      BY ZenonT(60), <2>1, <2>5
    <3> QED
      BY ZenonT(60), <2>3, <3>1, <3>2, <3>3, <3>4, <3>5, SessionStep
  <2> QED
    BY ZenonT(60), <2>3, <2>4, <2>6, <2>7 DEF FlowInv
<1>5. CASE session_active = NULL
  <2>1. /\ request_queue' = request_queue
        /\ session_active' = TERMINATE /\ todo' = <<DispatchCall(TERMINATE)>>
        /\ request_queue = <<>>
    BY <1>1, <1>2, <1>3, <1>5 DEF Process, mrcp_server_signaling_message_process, SessionInv
  <2>2. /\ DOMAIN todo' = {1} /\ Len(todo') = 1
        /\ todo'[1].call = "dispatch" /\ todo'[1].req = TERMINATE
    BY ZenonT(60), <2>1, CallFacts
  <2>3. FlowTypeOK'
    <3>1. todo' \in Seq(Call)
      BY SMTT(90), <2>1, CallFacts
    <3> QED
      BY <1>1, <1>2, <2>1, <3>1 DEF FlowTypeOK, Process
  <2>4. SessionInv'
    BY SMTT(90), <1>1, <1>2, <2>1 DEF SessionInv
  <2>5. \A i \in Ids : Past(i)' = Past(i) /\ Undispatched(i)' = Undispatched(i) /\ Waits(i)' = Waits(i)
    BY SMTT(90), <1>1, <1>3, <1>5, <2>1, <2>2 DEF Past, Undispatched, Waits, Process
  <2>6. AnswerInv' /\ TodoInv'
    BY ZenonT(60), <1>1, <1>2, <1>3, <2>1, <2>2, <2>5 DEF AnswerInv, TodoInv, Process
  <2>7. PlaceInv' /\ EndInv'
    BY ZenonT(60), <1>1, <1>3, <1>5, <2>1, <2>2, <2>3, <2>5, SessionStep DEF Process
  <2> QED
    BY ZenonT(60), <2>3, <2>4, <2>6, <2>7 DEF FlowInv
<1> QED
  BY <1>4, <1>5

(* Deactivation of the state machine keeps the invariant.                  *)
LEMMA DeactivateStep == FlowInv /\ Deactivate => FlowInv'
<1> SUFFICES ASSUME FlowInv, Deactivate PROVE FlowInv'
  OBVIOUS
<1> USE MessageFacts
<1>1. FlowTypeOK /\ SessionInv /\ AnswerInv /\ TodoInv /\ PlaceInv /\ EndInv
  BY DEF FlowInv
<1>2. /\ todo # <<>> /\ Head(todo) = DispatchCall(TERMINATE) /\ todo' = Tail(todo)
      /\ active' = FALSE
  BY ZenonT(60) DEF Deactivate, Taking
<1>3. /\ todo[1] = DispatchCall(TERMINATE) /\ 1 \in DOMAIN todo
      /\ todo' \in Seq(Call) /\ Len(todo) \in Nat /\ Len(todo') = Len(todo) - 1
      /\ \A k \in DOMAIN todo' : k + 1 \in DOMAIN todo /\ todo'[k] = todo[k + 1] /\ k \in 1..Len(todo')
  BY SMTT(90), <1>1, <1>2, TailFacts DEF FlowTypeOK
<1>4. active /\ session_active = TERMINATE
  BY SMTT(90), <1>1, <1>3, CallFacts DEF TodoInv
<1>5. UNCHANGED <<sent, engine_out, is_pending, Serving, working, requestVars, queue, ended>>
  BY SMTT(90) DEF Deactivate, Taking
<1>6. PICK e \in Request \cup {CLOSE} :
        /\ engine_in' = Append(engine_in, e)
        /\ e.id # 0 => e.method = "STOP"
        /\ active_request' \in {active_request, e}
        /\ e = CLOSE => active_request' = active_request
  <2>1. CASE engine_in' = Append(engine_in, CLOSE) /\ UNCHANGED active_request
    BY SMTT(90), <2>1
  <2>2. CASE /\ Serving # NULL
             /\ active_request' = InternalStop(Serving)
             /\ engine_in' = Append(engine_in, InternalStop(Serving))
    <3>1. Serving \in Request /\ Serving.id \in 1..Len(sent) /\ Len(sent) <= MaxRequests /\ Len(sent) \in Nat
      BY SMTT(90), <1>1, <1>4, <2>2 DEF FlowTypeOK, PlaceInv, CurrentInv, Known
    <3>2. InternalStop(Serving) \in Request /\ InternalStop(Serving).method = "STOP"
      BY <3>1 DEF InternalStop, Message, Request, Ids
    <3> QED
      BY ZenonT(60), <2>2, <3>2
  <2> QED
    BY <2>1, <2>2 DEF Deactivate
<1>7. FlowTypeOK'
  <2>1. engine_in' \in Seq(Request \cup {CLOSE})
    BY SMTT(90), <1>1, <1>6, AppendFacts DEF FlowTypeOK
  <2>2. active_request' \in Request \cup {NULL}
    BY ZenonT(60), <1>1, <1>6 DEF FlowTypeOK
  <2> QED
    BY ZenonT(60), <1>1, <1>2, <1>3, <1>5, <2>1, <2>2 DEF FlowTypeOK, requestVars
<1>8. SessionInv' /\ AnswerInv'
  BY ZenonT(60), <1>1, <1>5 DEF SessionInv, AnswerInv, Known, Past, requestVars
<1>9. TodoInv'
  BY <1>1, <1>2, <1>3, <1>4, <1>5 DEF TodoInv, requestVars
<1>10. PlaceInv'
  BY ZenonT(60), <1>2 DEF PlaceInv
<1>11. EndInv'
  <2>1. \A i \in Ids : Waits(i)' => Waits(i)
    BY ZenonT(60), <1>3, <1>5 DEF Waits
  <2>2. /\ DOMAIN engine_in' = 1..(Len(engine_in) + 1) /\ DOMAIN engine_in = 1..Len(engine_in)
        /\ Len(engine_in) \in Nat
        /\ \A k \in DOMAIN engine_in : engine_in'[k] = engine_in[k]
        /\ engine_in'[Len(engine_in) + 1] = e
    BY SMTT(90), <1>1, <1>6, AppendFacts DEF FlowTypeOK
  <2>3. \A k \in DOMAIN engine_in' :
          engine_in'[k].id # 0 /\ engine_in'[k].method \in Starts => ended[engine_in'[k].id] = 0
    BY <1>1, <1>6, <2>2 DEF EndInv, Starts
  <2> QED
    BY ZenonT(60), <1>1, <1>2, <1>5, <2>1, <2>3 DEF EndInv
<1> QED
  BY <1>7, <1>8, <1>9, <1>10, <1>11 DEF FlowInv

(* A request the session has the response to was dispatched.               *)
LEMMA PastDispatched ==
  ASSUME FlowTypeOK, NEW i \in Ids, Past(i)
  PROVE  ~Undispatched(i)
<1>1. i \in Nat /\ session_active.id \in Nat
  BY SMTT(90), MessageFacts DEF FlowTypeOK
<1> QED
  BY <1>1, SentFacts DEF Past, Undispatched

(* Dispatching a request that was pending keeps the invariant.             *)
LEMMA ResubmitStep == FlowInv /\ Resubmit => FlowInv'
<1> SUFFICES ASSUME FlowInv, Resubmit PROVE FlowInv'
  OBVIOUS
<1> USE MessageFacts
<1>1. FlowTypeOK /\ SessionInv /\ AnswerInv /\ TodoInv /\ PlaceInv /\ EndInv
  BY ZenonT(60) DEF FlowInv
<1> DEFINE p == Head(todo).req
<1>2. /\ todo # <<>> /\ Head(todo).call = "pending"
      /\ is_pending' = TRUE /\ active_request' = p
      /\ engine_in' = Append(engine_in, p) /\ todo' = Tail(todo)
      /\ UNCHANGED <<sent, requestVars, engine_out, active, Serving, queue, ended, working>>
  BY ZenonT(60) DEF Resubmit
<1>3. /\ Head(todo) \in Call /\ Head(todo) = todo[1] /\ 1 \in DOMAIN todo
      /\ Len(todo') = Len(todo) - 1 /\ DOMAIN todo' = 1..(Len(todo) - 1) /\ Len(todo) \in Nat
      /\ DOMAIN todo = 1..Len(todo) /\ todo' \in Seq(Call)
  BY ZenonT(60), <1>1, <1>2, TailFacts DEF FlowTypeOK
<1>4. Len(todo) = 1 /\ DOMAIN todo = {1} /\ DOMAIN todo' = {}
  BY SMTT(90), <1>1, <1>2, <1>3 DEF TodoInv
<1>5. p \in StartRequest /\ p \in Request /\ p.method \in Starts /\ p.id \in Ids
  BY ZenonT(60), <1>2, <1>3 DEF Call, StartRequest
<1>6. Waits(p.id)
  BY ZenonT(60), <1>2, <1>3 DEF Waits
<1> HIDE DEF p
<1>7. /\ engine_in' \in Seq(Request \cup {CLOSE})
      /\ DOMAIN engine_in' = 1..(Len(engine_in) + 1) /\ DOMAIN engine_in = 1..Len(engine_in)
      /\ Len(engine_in) \in Nat
      /\ \A k \in DOMAIN engine_in : k \in DOMAIN engine_in' /\ engine_in'[k] = engine_in[k]
      /\ engine_in'[Len(engine_in) + 1] = p
  BY SMTT(90), <1>1, <1>2, <1>5, AppendFacts DEF FlowTypeOK
<1>8. FlowTypeOK'
  BY ZenonT(60), <1>1, <1>2, <1>3, <1>5, <1>7 DEF FlowTypeOK, requestVars
<1>9. SessionInv' /\ AnswerInv'
  BY ZenonT(60), <1>1, <1>2 DEF SessionInv, AnswerInv, Known, Past, requestVars
<1>10. TodoInv'
  BY ZenonT(60), <1>1, <1>2, <1>4 DEF TodoInv, requestVars
<1>11. \A i : /\ Past(i)' = Past(i) /\ Undispatched(i)' = Undispatched(i)
              /\ Responded(i)' = Responded(i) /\ Begun(i)' = Begun(i)
  BY ZenonT(60), <1>2, <1>3, <1>4 DEF Past, Undispatched, Responded, Begun, requestVars
<1>12. \A i \in Ids : Waits(i)' => Waits(i)
  BY ZenonT(60), <1>2, <1>4 DEF Waits
<1>13. \A i : InEngine(i)' => InEngine(i) \/ i = p.id
  BY SMTT(90), <1>7 DEF InEngine
<1>14. ASSUME active PROVE PlaceInv'
  <2>1. EngineInv /\ QueueInv /\ CurrentInv /\ ActiveInv /\ WorkInv
    BY ZenonT(60), <1>1, <1>14 DEF PlaceInv
  <2>2. Known(p) /\ \A j \in DOMAIN queue : p.id < queue[j].id
    BY ZenonT(60), <1>2, <1>3, <2>1 DEF QueueInv, p
  <2>3. Past(p.id) /\ ~InEngine(p.id) /\ ~Responded(p.id) /\ ~Undispatched(p.id)
    BY ZenonT(60), <1>1, <1>5, <1>6, <2>1, PastDispatched DEF QueueInv
  <2>4. \A i \in Ids : Waits(i)' => i # p.id
    BY <1>2, <1>4, <1>5, <2>2 DEF Waits
  <2>5. EngineInv'
    <3>1. \A k \in DOMAIN engine_in' : engine_in'[k].id # 0 =>
            /\ Known(engine_in[k])' /\ ~Undispatched(engine_in'[k].id)
            /\ ~Responded(engine_in'[k].id)
      <4>1. \A k \in DOMAIN engine_in' :
              engine_in'[k] = p \/ (k \in DOMAIN engine_in /\ engine_in'[k] = engine_in[k])
        BY <1>7
      <4> QED
        BY ZenonT(60), <1>2, <2>1, <2>2, <2>3, <4>1 DEF EngineInv, Known
    <3>2. \A j, k \in DOMAIN engine_in' :
             j # k /\ engine_in'[j].id # 0 => engine_in'[j].id # engine_in'[k].id
      BY SMTT(90), <1>5, <1>7, <2>1, <2>3 DEF EngineInv, InEngine
    <3> QED
      BY ZenonT(60), <1>2, <1>11, <2>1, <3>1, <3>2 DEF EngineInv
  <2>6. QueueInv'
    BY ZenonT(60), <1>2, <1>4, <1>11, <1>12, <1>13, <2>1, <2>4 DEF QueueInv, Known
  <2>7. CurrentInv'
    BY ZenonT(60), <1>1, <1>2, <1>6, <1>11, <1>12, <1>13, <2>1 DEF CurrentInv, Known, FlowTypeOK
  <2>8. ActiveInv'
    BY ZenonT(60), <1>2, <1>5, <2>2 DEF ActiveInv, Known
  <2>9. WorkInv'
    BY <1>2, <1>5, <1>6, <1>11, <1>12, <1>13, <2>1 DEF WorkInv
  <2> QED
    BY SMTT(90), <2>5, <2>6, <2>7, <2>8, <2>9 DEF PlaceInv
<1>15. EndInv'
  <2>1. \A k \in DOMAIN engine_in' :
          engine_in'[k] = p \/ (k \in DOMAIN engine_in /\ engine_in'[k] = engine_in[k])
    BY <1>7
  <2>2. ended[p.id] = 0
    BY ZenonT(60), <1>1, <1>5, <1>6 DEF EndInv
  <2>3. \A k \in DOMAIN engine_in' :
          engine_in'[k].id # 0 /\ engine_in'[k].method \in Starts => ended[engine_in'[k].id] = 0
    BY ZenonT(60), <1>1, <2>1, <2>2 DEF EndInv
  <2> QED
    BY ZenonT(60), <1>1, <1>2, <1>11, <1>12, <2>3 DEF EndInv
<1> QED
  BY <1>2, <1>8, <1>9, <1>10, <1>14, <1>15 DEF FlowInv, PlaceInv

-----------------------------------------------------------------------------
(* The engine's steps.                                                     *)

(* The answers of the engine to a close and to a subtraction.              *)
LEMMA ReleasedFacts ==
  ASSUME NEW type \in {"closed", "subtracted"}
  PROVE  Released(type) \in Heard /\ Released(type).type = type
BY DEF Released, Heard

(* A message of the engine that is neither a response nor a completion.    *)
LEMMA SignalStep ==
  ASSUME FlowInv, EngineStep, NEW m \in Heard,
         engine_out' = Append(engine_out, m), m.type # "response",
         \/ ~Completes(m) /\ working' \subseteq working
         \/ m.id \in working /\ working' = working \ {m.id},
         \/ engine_in' = engine_in
         \/ engine_in # <<>> /\ engine_in' = Tail(engine_in)
  PROVE  FlowInv'
<1> USE MessageFacts
<1>1. FlowTypeOK /\ SessionInv /\ AnswerInv /\ TodoInv /\ PlaceInv /\ EndInv
  BY ZenonT(60) DEF FlowInv
<1>2. UNCHANGED <<sent, requestVars, todo, active, is_pending, active_request, Serving, queue, ended>>
  BY ZenonT(60) DEF EngineStep
<1>3. /\ engine_out' \in Seq(Heard) /\ Len(engine_out) \in Nat
      /\ DOMAIN engine_out = 1..Len(engine_out) /\ DOMAIN engine_out' = 1..(Len(engine_out) + 1)
      /\ \A k \in DOMAIN engine_out : k \in DOMAIN engine_out' /\ engine_out'[k] = engine_out[k]
      /\ engine_out'[Len(engine_out) + 1] = m
  BY SMTT(90), <1>1, AppendFacts DEF FlowTypeOK
<1>4. /\ engine_in' \in Seq(Request \cup {CLOSE})
      /\ \E d \in {0, 1} : \A k \in DOMAIN engine_in' :
           k \in Nat /\ k + d \in DOMAIN engine_in /\ engine_in'[k] = engine_in[k + d]
  <2>1. engine_in \in Seq(Request \cup {CLOSE})
    BY SMTT(90), <1>1 DEF FlowTypeOK
  <2>2. CASE engine_in' = engine_in
    BY SMTT(90), <2>1, <2>2
  <2>3. CASE engine_in # <<>> /\ engine_in' = Tail(engine_in)
    BY SMTT(90), <2>1, <2>3, TailFacts
  <2> QED
    BY ZenonT(60), <2>2, <2>3
<1>5. PICK d \in {0, 1} : \A k \in DOMAIN engine_in' :
           k \in Nat /\ k + d \in DOMAIN engine_in /\ engine_in'[k] = engine_in[k + d]
  BY ZenonT(60), <1>4
<1>6. working \subseteq Ids /\ working' \subseteq working
  BY ZenonT(60), <1>1 DEF FlowTypeOK
<1>7. \A i : /\ Past(i)' = Past(i) /\ Undispatched(i)' = Undispatched(i) /\ Waits(i)' = Waits(i)
             /\ InEngine(i)' => InEngine(i)
             /\ Responded(i)' = Responded(i)
  BY SMTT(90), <1>2, <1>3, <1>5 DEF Past, Undispatched, Waits, InEngine, Responded, requestVars
<1>8. \A i : Begun(i)' => Begun(i)
  <2> SUFFICES ASSUME NEW i, Begun(i)' PROVE Begun(i)
    BY ZenonT(60)
  <2>1. CASE i \in working'
    BY ZenonT(60), <1>6, <2>1 DEF Begun
  <2>2. CASE \E k \in DOMAIN engine_out' : Completes(engine_out'[k]) /\ engine_out'[k].id = i
    <3>1. PICK k \in DOMAIN engine_out' : Completes(engine_out'[k]) /\ engine_out'[k].id = i
      BY ZenonT(60), <2>2
    <3>2. CASE k \in DOMAIN engine_out
      BY ZenonT(60), <1>3, <3>1, <3>2 DEF Begun
    <3>3. CASE k = Len(engine_out) + 1
      BY ZenonT(60), <1>3, <3>1, <3>3 DEF Begun
    <3> QED
      BY SMTT(90), <1>3, <3>2, <3>3
  <2> QED
    BY <2>1, <2>2 DEF Begun, Completes
<1>9. FlowTypeOK'
  BY ZenonT(60), <1>1, <1>2, <1>3, <1>4, <1>6 DEF FlowTypeOK, requestVars
<1>10. SessionInv' /\ AnswerInv' /\ TodoInv'
  BY ZenonT(60), <1>1, <1>2 DEF SessionInv, AnswerInv, TodoInv, Known, Past, requestVars
<1>11. ASSUME active PROVE PlaceInv'
  <2>1. EngineInv /\ QueueInv /\ CurrentInv /\ ActiveInv /\ WorkInv
    BY <1>1, <1>11 DEF PlaceInv
  <2>2. EngineInv'
    <3>1. \A k \in DOMAIN engine_in' : engine_in'[k].id # 0 =>
            /\ Known(engine_in[k])' /\ ~Undispatched(engine_in'[k].id)
            /\ ~Responded(engine_in'[k].id)
      BY ZenonT(60), <1>2, <1>5, <2>1 DEF EngineInv, Known
    <3>2. \A j, k \in DOMAIN engine_in' :
             j # k /\ engine_in'[j].id # 0 => engine_in'[j].id # engine_in'[k].id
      BY <1>5, <2>1 DEF EngineInv
    <3>3. \A k \in DOMAIN engine_out' : engine_out'[k].type = "response" =>
            k \in DOMAIN engine_out /\ engine_out'[k] = engine_out[k]
      BY <1>3
    <3>4. \A k \in DOMAIN engine_in' : engine_in'[k].id # 0 =>
            /\ Known(engine_in[k])' /\ ~Undispatched(engine_in[k].id)'
            /\ ~Responded(engine_in[k].id)'
      BY ZenonT(60), <1>7, <3>1
    <3>5. \A k \in DOMAIN engine_out' : engine_out'[k].type = "response" =>
            /\ engine_out'[k].id \in DOMAIN sent'
            /\ engine_out'[k].method = sent'[engine_out'[k].id].method
            /\ ~Undispatched(engine_out[k].id)'
      BY ZenonT(60), <1>2, <1>7, <2>1, <3>3 DEF EngineInv
    <3>6. \A j, k \in DOMAIN engine_out' :
             j # k /\ engine_out'[j].type = "response" /\ engine_out'[k].type = "response" =>
                 engine_out'[j].id # engine_out'[k].id
      BY <2>1, <3>3 DEF EngineInv
    <3> QED
      BY ZenonT(60), <3>2, <3>4, <3>5, <3>6 DEF EngineInv
  <2>3. QueueInv'
    BY ZenonT(60), <1>2, <1>7, <2>1 DEF QueueInv, Known
  <2>4. CurrentInv'
    BY ZenonT(60), <1>2, <1>7, <2>1 DEF CurrentInv, Known
  <2>5. ActiveInv'
    BY ZenonT(60), <1>2, <1>7, <2>1 DEF ActiveInv, Known, requestVars
  <2>6. WorkInv'
    <3>1. \A k \in DOMAIN engine_out' : Completes(engine_out'[k]) =>
            /\ engine_out'[k].id \in Ids \ working'
            /\ \A j \in DOMAIN engine_out' : j # k /\ Completes(engine_out'[j]) =>
                 engine_out'[j].id # engine_out'[k].id
      <4>1. \A k \in DOMAIN engine_out : Completes(engine_out[k]) => engine_out[k].id \in Ids \ working
        BY ZenonT(60), <2>1 DEF WorkInv
      <4>2. Completes(m) => m.id \in working /\ working' = working \ {m.id}
        OBVIOUS
      <4> TAKE k \in DOMAIN engine_out'
      <4> HAVE Completes(engine_out'[k])
      <4>3. CASE k = Len(engine_out) + 1
        <5>1. engine_out'[k] = m /\ m.id \in working /\ m.id \notin working' /\ m.id \in Ids
          BY ZenonT(60), <1>3, <1>6, <4>2, <4>3
        <5>2. ASSUME NEW j \in DOMAIN engine_out', j # k, Completes(engine_out'[j])
              PROVE  engine_out'[j].id # m.id
          <6>1. j \in DOMAIN engine_out /\ engine_out'[j] = engine_out[j]
            BY <1>3, <4>3, <5>2
          <6> QED
            BY ZenonT(60), <4>1, <5>1, <5>2, <6>1
        <5> QED
          BY <5>1, <5>2
      <4>4. CASE k \in DOMAIN engine_out
        <5>1. engine_out'[k] = engine_out[k] /\ engine_out[k].id \in Ids \ working
          BY ZenonT(60), <1>3, <4>1, <4>4
        <5>2. ASSUME NEW j \in DOMAIN engine_out', j # k, Completes(engine_out'[j])
              PROVE  engine_out'[j].id # engine_out[k].id
          <6>1. CASE j \in DOMAIN engine_out
            <7>1. engine_out'[j] = engine_out[j]
              BY ZenonT(60), <1>3, <6>1
            <7> QED
              BY ZenonT(60), <2>1, <4>4, <5>1, <5>2, <6>1, <7>1 DEF WorkInv
          <6>2. CASE j = Len(engine_out) + 1
            BY ZenonT(60), <1>3, <4>2, <5>1, <5>2, <6>2
          <6> QED
            BY SMTT(90), <1>3, <6>1, <6>2
        <5> QED
          BY ZenonT(60), <1>6, <5>1, <5>2
      <4> QED
        BY SMTT(90), <1>3, <4>3, <4>4
    <3> QED
      BY ZenonT(60), <1>2, <1>7, <1>8, <2>1, <3>1 DEF WorkInv, Completes
  <2> QED
    BY ZenonT(60), <2>2, <2>3, <2>4, <2>5, <2>6 DEF PlaceInv
<1>12. EndInv'
  <2>1. \A k \in DOMAIN engine_out' : engine_out'[k].type = "response" => k \in DOMAIN engine_out
    BY SMTT(90), <1>3
  <2>2. \A k \in DOMAIN engine_in' :
          engine_in'[k].id # 0 /\ engine_in'[k].method \in Starts => ended[engine_in'[k].id] = 0
    BY ZenonT(60), <1>1, <1>5 DEF EndInv
  <2>3. \A k \in DOMAIN engine_out' :
          /\ engine_out'[k].type = "response" /\ engine_out'[k].id # 0
          /\ engine_out'[k].method \in Starts
          => ended[engine_out'[k].id] = 0
    BY <1>1, <1>3, <2>1 DEF EndInv
  <2> QED
    BY ZenonT(60), <1>1, <1>2, <1>7, <2>2, <2>3 DEF EndInv
<1> QED
  BY ZenonT(60), <1>2, <1>9, <1>10, <1>11, <1>12 DEF FlowInv, PlaceInv

(* The engine's answer to a close keeps the invariant.                     *)
LEMMA EngineClosesStep == FlowInv /\ EngineCloses => FlowInv'
<1>1. Released("closed") \in Heard /\ Released("closed").type = "closed"
  BY ReleasedFacts
<1> QED
  BY <1>1, SignalStep DEF EngineCloses, Completes

(* An event of the engine that ends nothing keeps the invariant.           *)
LEMMA EngineSignalsStep == FlowInv /\ EngineSignals => FlowInv'
<1> SUFFICES ASSUME FlowInv, EngineSignals PROVE FlowInv'
  OBVIOUS
<1>1. PICK m \in {Released("subtracted")} \cup {EventOf(i, method) : i \in Ids, method \in Signals} :
         ~Completes(m) /\ engine_out' = Append(engine_out, m)
  BY DEF EngineSignals
<1>2. m \in Heard /\ m.type # "response"
  <2>0. Released("subtracted") \in Heard /\ Released("subtracted").type = "subtracted"
    BY ReleasedFacts
  <2>1. CASE m = Released("subtracted")
    BY SMTT(90), <2>0, <2>1
  <2>2. ASSUME NEW i \in Ids, NEW method \in Signals, m = EventOf(i, method)
        PROVE  m \in Heard /\ m.type # "response"
    BY <2>2 DEF EventOf, Heard
  <2> QED
    BY <1>1, <2>1, <2>2
<1> QED
  BY <1>1, <1>2, SignalStep DEF EngineSignals

(* The event that ends the request in progress keeps the invariant.        *)
LEMMA EngineCompletesStep == FlowInv /\ EngineCompletes => FlowInv'
<1> SUFFICES ASSUME FlowInv, EngineCompletes PROVE FlowInv'
  OBVIOUS
<1>1. PICK i \in working, method \in Completions :
         engine_out' = Append(engine_out, EventOf(i, method)) /\ working' = working \ {i}
  BY DEF EngineCompletes
<1>2. i \in Ids
  BY ZenonT(60) DEF FlowInv, FlowTypeOK
<1>3. EventOf(i, method) \in Heard /\ EventOf(i, method).type = "event" /\ EventOf(i, method).id = i
  BY ZenonT(60), <1>2 DEF EventOf, Heard
<1> QED
  BY <1>1, <1>3, SignalStep DEF EngineCompletes

(* The response of the engine keeps the invariant.                         *)
LEMMA EngineAnswersStep == FlowInv /\ EngineAnswers => FlowInv'
<1> SUFFICES ASSUME FlowInv, EngineAnswers PROVE FlowInv'
  OBVIOUS
<1> USE MessageFacts
<1>1. FlowTypeOK /\ SessionInv /\ AnswerInv /\ TodoInv /\ PlaceInv /\ EndInv
  BY ZenonT(60) DEF FlowInv
<1>2. UNCHANGED <<sent, requestVars, todo, active, is_pending, active_request, Serving, queue, ended>>
  BY ZenonT(60) DEF EngineAnswers, EngineStep
<1>3. PICK r \in {Head(engine_in)}, s \in {"INPROGRESS", "COMPLETE"}, ok \in BOOLEAN :
         /\ engine_in # <<>> /\ r # CLOSE
         /\ engine_in' = Tail(engine_in)
         /\ engine_out' = Append(engine_out, ResponseTo(r, s, ok))
         /\ working' \subseteq working \cup {r.id}
  BY ZenonT(60) DEF EngineAnswers
<1> DEFINE m == ResponseTo(r, s, ok)
<1>4. /\ engine_in' \in Seq(Request \cup {CLOSE})
      /\ r \in Request /\ r = engine_in[1] /\ 1 \in DOMAIN engine_in
      /\ \A k \in DOMAIN engine_in' :
           k \in Nat /\ k # 0 /\ k + 1 \in DOMAIN engine_in /\ engine_in'[k] = engine_in[k + 1]
  <2>1. engine_in \in Seq(Request \cup {CLOSE}) /\ engine_in # <<>>
    BY ZenonT(60), <1>1, <1>3 DEF FlowTypeOK
  <2> QED
    BY SMTT(90), <1>3, <2>1, TailFacts
<1>5. m \in Heard /\ m.type = "response" /\ m.id = r.id /\ m.method = r.method
  BY ZenonT(60), <1>4 DEF ResponseTo, Heard, Request
<1>6. /\ engine_out' \in Seq(Heard) /\ Len(engine_out) \in Nat
      /\ DOMAIN engine_out = 1..Len(engine_out) /\ DOMAIN engine_out' = 1..(Len(engine_out) + 1)
      /\ \A k \in DOMAIN engine_out : k \in DOMAIN engine_out' /\ engine_out'[k] = engine_out[k]
      /\ engine_out'[Len(engine_out) + 1] = m
      /\ \A k \in DOMAIN engine_out' : (k \in DOMAIN engine_out /\ engine_out'[k] = engine_out[k])
                                       \/ engine_out'[k] = m
  <2>1. engine_out \in Seq(Heard)
    BY ZenonT(60), <1>1 DEF FlowTypeOK
  <2> QED
    BY SMTT(90), <1>3, <1>5, <2>1, AppendFacts
<1> HIDE DEF m
<1>7. InEngine(r.id)
  BY <1>4 DEF InEngine
<1>8. \A i : /\ Past(i)' = Past(i) /\ Undispatched(i)' = Undispatched(i) /\ Waits(i)' = Waits(i)
             /\ InEngine(i)' => InEngine(i)
             /\ Responded(i)' => Responded(i) \/ i = r.id
  BY ZenonT(60), <1>2, <1>4, <1>5, <1>6 DEF Past, Undispatched, Waits, InEngine, Responded, requestVars
<1>9. \A i : Begun(i)' => Begun(i) \/ i = r.id
  <2>1. \A k \in DOMAIN engine_out' : Completes(engine_out'[k]) =>
          k \in DOMAIN engine_out /\ engine_out'[k] = engine_out[k]
    BY <1>5, <1>6 DEF Completes
  <2> QED
    BY ZenonT(60), <1>3, <2>1 DEF Begun, Completes
<1>10. FlowTypeOK'
  <2>1. working' \subseteq Ids
    BY ZenonT(60), <1>1, <1>3, <1>4 DEF FlowTypeOK
  <2> QED
    BY ZenonT(60), <1>1, <1>2, <1>4, <1>6, <2>1 DEF FlowTypeOK, requestVars
<1>11. SessionInv' /\ AnswerInv' /\ TodoInv'
  BY ZenonT(60), <1>1, <1>2 DEF SessionInv, AnswerInv, TodoInv, Known, Past, requestVars
<1>12. ASSUME active PROVE PlaceInv'
  <2>1. EngineInv /\ QueueInv /\ CurrentInv /\ ActiveInv /\ WorkInv
    BY ZenonT(60), <1>1, <1>12 DEF PlaceInv
  <2>2. ~InEngine(r.id)'
    BY SMTT(90), <1>4, <2>1 DEF InEngine, EngineInv
  <2>3. EngineInv'
    <3>1. \A k \in DOMAIN engine_in' : engine_in'[k].id # 0 =>
            /\ Known(engine_in[k])' /\ ~Undispatched(engine_in'[k].id)
            /\ ~Responded(engine_in[k].id)'
      <4>1. \A k \in DOMAIN engine_in' :
              /\ \E j \in DOMAIN engine_in : engine_in'[k] = engine_in[j]
              /\ engine_in'[k].id # r.id
        BY ZenonT(60), <1>4, <2>2 DEF InEngine
      <4>2. ASSUME NEW k \in DOMAIN engine_in', engine_in'[k].id # 0
            PROVE  /\ Known(engine_in[k])' /\ ~Undispatched(engine_in'[k].id)
                   /\ ~Responded(engine_in[k].id)'
        <5>1. PICK j \in DOMAIN engine_in : engine_in'[k] = engine_in[j] /\ engine_in[j].id # r.id
          BY ZenonT(60), <4>1
        <5>2. PICK i : i = engine_in[j].id
          BY ZenonT(60)
        <5>3. Known(engine_in[j]) /\ ~Undispatched(i) /\ ~Responded(i)
          BY ZenonT(60), <2>1, <4>2, <5>1, <5>2 DEF EngineInv
        <5>4. ~Responded(i)'
          BY ZenonT(60), <1>8, <5>1, <5>2, <5>3
        <5> QED
          BY ZenonT(60), <1>2, <5>1, <5>2, <5>3, <5>4 DEF Known, Responded
      <4> QED
        BY ZenonT(60), <4>2
    <3>2. \A j, k \in DOMAIN engine_in' :
             j # k /\ engine_in'[j].id # 0 => engine_in'[j].id # engine_in'[k].id
      BY SMTT(90), <1>4, <2>1 DEF EngineInv
    <3>3. \A k \in DOMAIN engine_out' : engine_out'[k].type = "response" =>
             /\ engine_out'[k].id \in DOMAIN sent
             /\ engine_out'[k].method = sent[engine_out'[k].id].method
             /\ ~Undispatched(engine_out'[k].id)
      BY ZenonT(60), <1>4, <1>5, <1>6, <2>1 DEF EngineInv, Known
    <3>4. ~Responded(r.id)
      BY ZenonT(60), <1>4, <2>1 DEF EngineInv
    <3>5. \A j, k \in DOMAIN engine_out' :
         j # k /\ engine_out'[j].type = "response" /\ engine_out'[k].type = "response" =>
             engine_out'[j].id # engine_out'[k].id
      BY SMTT(90), <1>5, <1>6, <2>1, <3>4 DEF EngineInv, Responded
    <3> QED
      BY ZenonT(60), <1>2, <1>8, <3>1, <3>2, <3>3, <3>5 DEF EngineInv
  <2>4. QueueInv'
    BY ZenonT(60), <1>2, <1>7, <1>8, <2>1 DEF QueueInv, Known
  <2>5. CurrentInv'
    BY ZenonT(60), <1>2, <1>7, <1>8, <2>1 DEF CurrentInv, Known
  <2>6. ActiveInv'
    BY ZenonT(60), <1>2, <1>7, <1>8, <2>1 DEF ActiveInv, Known, requestVars
  <2>7. WorkInv'
    <3>1. ~Undispatched(r.id) /\ ~Waits(r.id)
      BY ZenonT(60), <1>4, <1>7, <2>1 DEF EngineInv, QueueInv
    <3>2. \A i \in Ids : Begun(i)' => ~Undispatched(i)' /\ ~InEngine(i)' /\ ~Waits(i)'
      BY ZenonT(60), <1>8, <1>9, <2>1, <2>2, <3>1 DEF WorkInv
    <3>3. \A k \in DOMAIN engine_out' : Completes(engine_out'[k]) =>
            k \in DOMAIN engine_out /\ engine_out'[k] = engine_out[k]
      BY <1>5, <1>6 DEF Completes
    <3>4. \A k \in DOMAIN engine_out : Completes(engine_out[k]) =>
            engine_out[k].id \in Ids \ working /\ engine_out[k].id # r.id
      BY ZenonT(60), <1>7, <2>1 DEF WorkInv, Begun
    <3>5. \A k \in DOMAIN engine_out' : Completes(engine_out'[k]) =>
            engine_out'[k].id \in Ids \ working'
      BY ZenonT(60), <1>3, <3>3, <3>4
    <3>6. \A j, k \in DOMAIN engine_out' :
            j # k /\ Completes(engine_out'[j]) /\ Completes(engine_out'[k]) =>
                engine_out'[j].id # engine_out'[k].id
      BY ZenonT(60), <2>1, <3>3 DEF WorkInv
    <3> QED
      BY ZenonT(60), <3>2, <3>5, <3>6 DEF WorkInv, Completes
  <2> QED
    BY ZenonT(60), <2>3, <2>4, <2>5, <2>6, <2>7 DEF PlaceInv
<1>13. EndInv'
  <2>1. \A k \in DOMAIN engine_in' :
          engine_in'[k].id # 0 /\ engine_in'[k].method \in Starts => ended[engine_in'[k].id] = 0
    BY SMTT(90), <1>1, <1>4 DEF EndInv
  <2>2. \A k \in DOMAIN engine_out' :
          /\ engine_out'[k].type = "response" /\ engine_out'[k].id # 0
          /\ engine_out'[k].method \in Starts
          => ended[engine_out'[k].id] = 0
    BY ZenonT(60), <1>1, <1>4, <1>5, <1>6 DEF EndInv
  <2> QED
    BY ZenonT(60), <1>1, <1>2, <1>8, <2>1, <2>2 DEF EndInv
<1> QED
  BY <1>2, <1>10, <1>11, <1>12, <1>13 DEF FlowInv, PlaceInv

-----------------------------------------------------------------------------
(* A response to the client, and what the session makes of it.             *)

(* What may be left to do after a response: one pending request.           *)
Rest(rest) == rest = <<>> \/ \E p \in StartRequest : rest = <<PendingCall(p)>>

(* What is left to do is at most the pending request.                      *)
LEMMA RestFacts ==
  ASSUME NEW rest, Rest(rest)
  PROVE  /\ rest \in Seq(Call) /\ Len(rest) \in {0, 1} /\ DOMAIN rest = 1..Len(rest)
         /\ \A k \in DOMAIN rest : k = Len(rest) /\ k = 1 /\ rest[k].call = "pending"
<1>1. CASE rest = <<>>
  BY <1>1
<1>2. ASSUME NEW p \in StartRequest, rest = <<PendingCall(p)>>
      PROVE  /\ rest \in Seq(Call) /\ Len(rest) = 1 /\ DOMAIN rest = 1..Len(rest)
             /\ rest[1].call = "pending"
  BY <1>2, CallFacts
<1>3. ASSUME rest # <<>>
      PROVE  /\ rest \in Seq(Call) /\ Len(rest) = 1 /\ DOMAIN rest = 1..Len(rest)
             /\ rest[1].call = "pending"
  BY ZenonT(60), <1>2, <1>3 DEF Rest
<1>4. CASE rest # <<>>
  <2>1. \A k \in DOMAIN rest : k = 1
    BY <1>3, <1>4
  <2> QED
    BY ZenonT(60), <1>3, <1>4, <2>1
<1> QED
  BY <1>1, <1>4

Push(r, rest) == <<DispatchCall(r)>> \o rest

(* A dispatch put before what is left to do.                               *)
LEMMA PushFacts ==
  ASSUME NEW rest, Rest(rest), NEW r \in Request \cup {TERMINATE}
  PROVE  /\ Push(r, rest) \in Seq(Call)
         /\ DOMAIN Push(r, rest) = 1..Len(Push(r, rest))
         /\ 1 \in DOMAIN Push(r, rest) /\ Push(r, rest)[1] = DispatchCall(r)
         /\ \A k \in DOMAIN Push(r, rest) : k # 1 =>
               k = Len(Push(r, rest)) /\ 1 \in DOMAIN rest /\ Push(r, rest)[k] = rest[1]
<1>0. PICK t : t = Push(r, rest)
  OBVIOUS
<1> DEFINE d == <<DispatchCall(r)>>
<1>1. d \in Seq(Call) /\ Len(d) = 1 /\ d[1] = DispatchCall(r)
  BY CallFacts
<1>2. rest \in Seq(Call) /\ Len(rest) \in {0, 1} /\ DOMAIN rest = 1..Len(rest)
  BY RestFacts
<1> HIDE DEF d
<1>3. /\ d \o rest \in Seq(Call) /\ Len(d \o rest) = Len(d) + Len(rest)
      /\ \A k \in 1..(Len(d) + Len(rest)) :
           (d \o rest)[k] = IF k <= Len(d) THEN d[k] ELSE rest[k - Len(d)]
  BY ZenonT(60), <1>1, <1>2, ConcatFacts
<1>4. t \in Seq(Call) /\ Len(t) = 1 + Len(rest) /\ DOMAIN t = 1..Len(t)
  BY <1>0, <1>1, <1>3 DEF d, Push
<1>5. t[1] = DispatchCall(r)
  BY <1>0, <1>1, <1>2, <1>3 DEF d, Push
<1>6. ASSUME NEW k \in DOMAIN t, k # 1
      PROVE  k = 2 /\ k = Len(t) /\ 1 \in DOMAIN rest /\ t[k] = rest[1]
  <2>0. k \in 1..(1 + Len(rest)) /\ k # 1
    BY <1>2, <1>4, <1>6
  <2>1. k = 2 /\ Len(rest) = 1
    <3>1. CASE Len(rest) = 0
      BY <2>0, <3>1
    <3>2. CASE Len(rest) = 1
      BY <2>0, <3>2
    <3> QED
      BY <1>2, <3>1, <3>2
  <2>2. t = d \o rest
    BY <1>0 DEF d, Push
  <2>3. (d \o rest)[2] = rest[2 - 1]
    BY <1>1, <1>3, <2>1
  <2> QED
    BY <1>2, <1>4, <2>1, <2>2, <2>3
<1> QED
  BY <1>0, <1>2, <1>4, <1>5, <1>6

(* The session takes the response to its active request and goes on with   *)
(* the next request of its queue.                                          *)
LEMMA ReplyActive ==
  ASSUME FlowInv, active, UNCHANGED <<sent, active>>,
         NEW rest, Rest(rest), NEW id, id = session_active.id, id # 0,
         DispatchResponse(id, rest)
  PROVE  /\ SessionInv' /\ AnswerInv' /\ TodoInv'
         /\ answered' \in [Ids -> Nat]
         /\ session_active' \in Request \cup {NULL, TERMINATE}
         /\ request_queue' \in Seq(Request \cup {TERMINATE})
         /\ todo' \in Seq(Call)
         /\ \A i \in Ids : Past(i) \/ i = id => Past(i)'
         /\ \A i \in Ids : Undispatched(i)' => Undispatched(i)
         /\ \A k \in DOMAIN todo' : todo'[k].call = "pending" => 1 \in DOMAIN rest /\ todo'[k] = rest[1]
<1> USE MessageFacts
<1>1. FlowTypeOK /\ SessionInv /\ AnswerInv /\ TodoInv
  BY DEF FlowInv
<1>2. id \in DOMAIN sent /\ id \in Ids /\ sent[id] = session_active
  BY <1>1, SentFacts DEF SessionInv, Known
<1>3. answered \in [Ids -> Nat] /\ answered' = [answered EXCEPT ![id] = @ + 1]
  BY <1>1 DEF FlowTypeOK, DispatchResponse
<1>4. answered[id] = 0
  <2>1. id \in Nat
    BY ZenonT(60), <1>2
  <2>2. ~Past(id)
    BY <2>1 DEF Past
  <2> QED
    BY ZenonT(60), <1>1, <1>2, <2>2 DEF AnswerInv
<1>5. answered' \in [Ids -> Nat] /\ answered'[id] = 1 /\ \A i \in Ids \ {id} : answered'[i] = answered[i]
  BY <1>2, <1>3, <1>4
<1>6. /\ session_active' \in Request \cup {NULL, TERMINATE}
      /\ request_queue' \in Seq(Request \cup {TERMINATE})
      /\ todo' \in Seq(Call)
      /\ session_active'.id # 0 => id < session_active'.id
      /\ SessionInv' /\ TodoInv'
      /\ \A k \in DOMAIN todo' : todo'[k].call = "pending" => 1 \in DOMAIN rest /\ todo'[k] = rest[1]
  <2>1. CASE request_queue = <<>>
    <3>1. session_active' = NULL /\ todo' = rest /\ request_queue' = request_queue
      BY <2>1 DEF DispatchResponse
    <3>2. SessionInv'
      BY <1>1, <2>1, <3>1 DEF SessionInv
    <3>3. TodoInv'
      BY <3>1, RestFacts DEF TodoInv
    <3> QED
      BY ZenonT(60), <1>1, <3>1, <3>2, <3>3, RestFacts DEF FlowTypeOK
  <2>2. CASE request_queue # <<>>
    <3> DEFINE h == Head(request_queue)
    <3>1. /\ session_active' = h /\ todo' = <<DispatchCall(h)>> \o rest
          /\ request_queue' = Tail(request_queue)
      BY <2>2 DEF DispatchResponse
    <3>2. /\ h \in Request \cup {TERMINATE} /\ h = request_queue[1]
          /\ request_queue' \in Seq(Request \cup {TERMINATE})
          /\ 1 \in DOMAIN request_queue /\ Len(request_queue) \in Nat
          /\ DOMAIN request_queue = 1..Len(request_queue)
          /\ DOMAIN request_queue' = 1..(Len(request_queue) - 1)
          /\ Len(request_queue') = Len(request_queue) - 1
          /\ \A k \in DOMAIN request_queue' : k + 1 \in DOMAIN request_queue /\ request_queue'[k] = request_queue[k + 1]
      BY SMTT(90), <1>1, <2>2, <3>1, TailFacts DEF FlowTypeOK
    <3> HIDE DEF h
    <3>3. /\ todo' \in Seq(Call) /\ DOMAIN todo' = 1..Len(todo')
          /\ 1 \in DOMAIN todo' /\ todo'[1] = DispatchCall(h)
          /\ \A k \in DOMAIN todo' : k # 1 => k = Len(todo') /\ 1 \in DOMAIN rest /\ todo'[k] = rest[1]
      <4>1. h \in Request \cup {TERMINATE} /\ todo' = Push(h, rest)
        BY ZenonT(60), <3>1, <3>2 DEF Push
      <4> QED
        BY ZenonT(60), <4>1, PushFacts
    <3>10. \A k \in DOMAIN request_queue : request_queue[k].id # 0 =>
             id < request_queue[k].id /\ Known(request_queue[k])
      BY <1>1 DEF SessionInv
    <3>11. \A j, k \in DOMAIN request_queue : j < k =>
              /\ request_queue[j].id # 0
              /\ request_queue[k].id # 0 => request_queue[j].id < request_queue[k].id
      BY ZenonT(60), <1>1 DEF SessionInv
    <3>4. h.id # 0 => id < h.id /\ Known(h)
      BY <3>2, <3>10
    <3>5. h.id = 0 => request_queue' = <<>>
      <4>1. h.id = 0 => Len(request_queue) = 1
        <5>1. h.id = 0 => ~(2 \in DOMAIN request_queue)
          BY SMTT(90), <3>2, <3>11
        <5> QED
          BY SMTT(90), <3>2, <5>1
      <4>2. request_queue' \in Seq(Request \cup {TERMINATE}) /\ (h.id = 0 => Len(request_queue') = 0)
        BY SMTT(90), <3>2, <4>1
      <4> QED
        BY <4>2, EmptyFacts
    <3>6. SessionInv'
      <4>1. \A k \in DOMAIN request_queue' : request_queue'[k].id # 0 =>
              Known(request_queue[k])' /\ session_active'.id < request_queue'[k].id
        <5> SUFFICES ASSUME NEW k \in DOMAIN request_queue', request_queue'[k].id # 0
                     PROVE  Known(request_queue[k])' /\ session_active'.id < request_queue'[k].id
          OBVIOUS
        <5>1. k + 1 \in DOMAIN request_queue /\ request_queue'[k] = request_queue[k + 1] /\ 1 < k + 1
          BY <3>2
        <5>2. Known(request_queue[k + 1]) /\ h.id < request_queue[k + 1].id
          BY ZenonT(60), <3>2, <3>10, <3>11, <5>1
        <5> QED
          BY <3>1, <5>1, <5>2 DEF Known
      <4>2. \A j, k \in DOMAIN request_queue' : j < k =>
              /\ request_queue'[j].id # 0
              /\ request_queue'[k].id # 0 => request_queue'[j].id < request_queue'[k].id
        <5> SUFFICES ASSUME NEW j \in DOMAIN request_queue', NEW k \in DOMAIN request_queue', j < k
                     PROVE  /\ request_queue'[j].id # 0
                            /\ request_queue'[k].id # 0 => request_queue'[j].id < request_queue'[k].id
          OBVIOUS
        <5>1. j + 1 < k + 1
          BY <3>2
        <5> QED
          BY ZenonT(60), <3>2, <3>11, <5>1
      <4> QED
        BY <1>1, <3>1, <3>4, <3>5, <4>1, <4>2 DEF SessionInv, Known
    <3>7. TodoInv'
      <4>1. \A k \in DOMAIN todo' : k # 1 => todo'[k].call = "pending"
        BY ZenonT(60), <3>3, RestFacts
      <4>2. todo'[1].call = "dispatch" /\ todo'[1].req = h
        BY <3>3, CallFacts
      <4> QED
        BY ZenonT(60), <3>1, <3>3, <4>1, <4>2 DEF TodoInv
    <3>8. \A k \in DOMAIN todo' : todo'[k].call = "pending" => 1 \in DOMAIN rest /\ todo'[k] = rest[1]
      BY SMTT(90), <3>3, CallFacts
    <3> QED
      BY ZenonT(60), <3>1, <3>2, <3>3, <3>4, <3>6, <3>7, <3>8 DEF Known
  <2> QED
    BY <2>1, <2>2
<1>7. id \in Nat /\ Len(sent) \in Nat /\ id <= Len(sent) /\ session_active'.id \in Nat
  BY SMTT(90), <1>1, <1>2, <1>6, SentFacts
<1>8. \A i \in Ids : Past(i) \/ i = id => Past(i)'
  BY SMTT(90), <1>6, <1>7 DEF Past
<1>9. \A i \in Ids : Undispatched(i)' => Undispatched(i)
  BY <1>6, <1>7 DEF Undispatched
<1>10. AnswerInv'
  BY <1>1, <1>5, <1>8 DEF AnswerInv
<1> QED
  BY <1>5, <1>6, <1>8, <1>9, <1>10

=============================================================================
