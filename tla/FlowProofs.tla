----------------------------- MODULE FlowProofs -----------------------------
(***************************************************************************)
(* Proofs about RequestFlow: FlowInv is an invariant, and no request is    *)
(* answered twice, answered out of turn or reported over twice.            *)
(***************************************************************************)
EXTENDS FlowCalls

-----------------------------------------------------------------------------
(* The event that ends the request in progress, after which the next of    *)
(* the queue is dispatched, keeps the invariant.                           *)
LEMMA CompletedStep ==
  ASSUME FlowInv, NEW m, Completed(m)
  PROVE  FlowInv'
<1> USE MessageFacts
<1>1. FlowTypeOK /\ SessionInv /\ AnswerInv /\ TodoInv /\ PlaceInv /\ EndInv
  BY ZenonT(60) DEF FlowInv
<1>2. /\ Hearing(m) /\ m.type = "event" /\ Serving' = NULL /\ Ending({m.id})
      /\ active => Serving # NULL /\ Serving.id = m.id
      /\ UNCHANGED <<sent, active, working, requestVars, todo>>
  BY DEF Completed, Hearing
<1>3. todo = <<>> /\ todo' = <<>> /\ Fewer
  BY ZenonT(60), <1>2, HearingFacts
<1>4. SessionInv' /\ AnswerInv' /\ TodoInv'
  BY ZenonT(60), <1>1, <1>2 DEF SessionInv, AnswerInv, TodoInv, Known, Past, requestVars
<1>5. \A i : Past(i)' = Past(i) /\ Undispatched(i)' = Undispatched(i)
  BY ZenonT(60), <1>2 DEF Past, Undispatched, requestVars
<1>6. /\ ended \in [Ids -> Nat] /\ ended' \in [Ids -> Nat]
      /\ \A i \in Ids : ended'[i] = ended[i] \/ (active /\ ended'[i] = ended[i] + 1 /\ i = Serving.id)
  <2>1. ended' = [i \in Ids |-> IF active /\ i \in {m.id} THEN ended[i] + 1 ELSE ended[i]]
    BY ZenonT(60), <1>2 DEF Ending
  <2>2. ended \in [Ids -> Nat]
    BY ZenonT(60), <1>1 DEF FlowTypeOK
  <2> QED
    BY <1>2, <2>1, <2>2
<1>7. active => ~Waits(Serving.id) /\ Serving.id # 0 /\ Serving \in Request
  BY <1>1, <1>2 DEF PlaceInv, CurrentInv, FlowTypeOK
<1>8. CASE queue = <<>>
  <2>1. UNCHANGED <<queue, is_pending, active_request, engine_in>>
    BY <1>8 DEF Completed
  <2>2. FlowTypeOK'
    BY ZenonT(60), <1>1, <1>2, <1>3, <1>6, <2>1, FewerFacts DEF FlowTypeOK, requestVars
  <2>3. \A i \in Ids : ~Waits(i)'
    BY SMTT(90), <1>3, <1>8, <2>1 DEF Waits
  <2>4. MayClose
    BY <2>1 DEF MayClose
  <2>5. active => ActiveInv'
    <3>1. \A i : Responded(i)' => Responded(i)
      BY ZenonT(60), <1>1, <1>3, FewerFacts DEF Responded
    <3> QED
      BY ZenonT(60), <1>1, <1>2, <2>1, <3>1 DEF PlaceInv, ActiveInv, Known, InEngine, requestVars
  <2>6. DOMAIN queue' = {} /\ DOMAIN todo' = {}
    BY SMTT(90), <1>3, <1>8, <2>1
  <2>7. \A i \in Ids : \/ ended'[i] = ended[i]
                       \/ /\ active /\ ended'[i] = ended[i] + 1 /\ ~Waits(i)' /\ i # Serving'.id
                          /\ Waits(i) \/ i = Serving.id \/ (i = m.id /\ Begins(m))
    BY ZenonT(60), <1>2, <1>6, <1>7, <2>3
  <2> HIDE MessageFacts
  <2> QED
    BY ZenonT(60), <1>2, <1>4, <1>5, <2>2, <2>3, <2>4, <2>5, <2>6, <2>7, MessageStep
<1>9. CASE queue # <<>>
  <2>1. PICK p : /\ p = Head(queue) /\ queue' = Tail(queue) /\ is_pending' = TRUE
                 /\ active_request' = p /\ engine_in' = Append(engine_in, p)
    BY ZenonT(60), <1>9 DEF Completed
  <2>2. /\ p \in StartRequest /\ p = queue[1] /\ 1 \in DOMAIN queue
        /\ queue' \in Seq(StartRequest)
        /\ Len(queue) \in Nat /\ DOMAIN queue' = 1..(Len(queue) - 1)
        /\ \A k \in DOMAIN queue' : k + 1 \in DOMAIN queue /\ queue'[k] = queue[k + 1]
    BY ZenonT(60), <1>1, <1>9, <2>1, TailFacts DEF FlowTypeOK
  <2>3. p \in Request /\ p.method \in Starts /\ p.id \in Ids /\ Waits(p.id)
    BY ZenonT(60), <2>2 DEF StartRequest, Waits
  <2>4. /\ engine_in' \in Seq(Request \cup {CLOSE})
        /\ DOMAIN engine_in' = 1..(Len(engine_in) + 1) /\ DOMAIN engine_in = 1..Len(engine_in)
        /\ Len(engine_in) \in Nat
        /\ \A k \in DOMAIN engine_in : k \in DOMAIN engine_in' /\ engine_in'[k] = engine_in[k]
        /\ engine_in'[Len(engine_in) + 1] = p
    BY SMTT(90), <1>1, <2>1, <2>3, AppendFacts DEF FlowTypeOK
  <2>5. FlowTypeOK'
    BY ZenonT(60), <1>1, <1>2, <1>3, <1>6, <2>1, <2>2, <2>3, <2>4, FewerFacts DEF FlowTypeOK, requestVars
  <2>6. \A i \in Ids : Waits(i)' => Waits(i)
    BY ZenonT(60), <1>3, <2>2 DEF Waits
  <2>7. \A i : InEngine(i)' => InEngine(i) \/ i = p.id
    BY SMTT(90), <2>4 DEF InEngine
  <2>8. PICK d \in {0, 1} : \A k \in DOMAIN engine_out' :
           k \in Nat /\ k # 0 /\ k + d \in DOMAIN engine_out /\ engine_out'[k] = engine_out[k + d]
    BY ZenonT(60), <1>1, <1>3, FewerFacts
  <2>9. \A i : Responded(i)' => Responded(i)
    BY <2>8 DEF Responded
  <2>10. \A i : Begun(i)' => Begun(i)
    <3>1. \A i : (\E k \in DOMAIN engine_out' : Completes(engine_out'[k]) /\ engine_out'[k].id = i)
                => \E k \in DOMAIN engine_out : Completes(engine_out[k]) /\ engine_out[k].id = i
      BY ZenonT(60), <2>8
    <3> QED
      BY ZenonT(60), <1>2, <3>1 DEF Begun, Completes
  <2>11. ASSUME active PROVE PlaceInv' /\ \A i \in Ids : ended'[i] = ended[i] \/ Over(i)
    <3>1. EngineInv /\ QueueInv /\ CurrentInv /\ ActiveInv /\ WorkInv
      BY <1>1, <2>11 DEF PlaceInv
    <3>2. /\ Known(p)
          /\ \A j, k \in DOMAIN queue : j < k => queue[j].id < queue[k].id
          /\ \A k \in DOMAIN queue : Known(queue[k])
          /\ \A i \in Ids : Waits(i) => Past(i) /\ ~InEngine(i) /\ ~Responded(i)
      BY ZenonT(60), <2>2, <3>1 DEF QueueInv
    <3>3. Past(p.id) /\ ~InEngine(p.id) /\ ~Responded(p.id) /\ ~Undispatched(p.id)
      BY ZenonT(60), <1>1, <2>3, <3>2, PastDispatched
    <3>4. \A k \in DOMAIN queue' : p.id < queue'[k].id
      <4>1. \A k \in DOMAIN queue' : 1 < k + 1
        BY SMTT(90), <2>2
      <4> QED
        BY ZenonT(60), <2>2, <3>2, <4>1
    <3>5. \A i \in Ids : Waits(i)' => i # p.id
      BY <1>3, <2>3, <3>4 DEF Waits
    <3>6. EngineInv'
      <4>1. \A k \in DOMAIN engine_in' : engine_in'[k].id # 0 =>
              /\ Known(engine_in[k])' /\ ~Undispatched(engine_in'[k].id)
              /\ ~Responded(engine_in'[k].id)
        BY SMTT(90), <1>2, <2>4, <3>1, <3>2, <3>3 DEF EngineInv, Known
      <4>2. \A j, k \in DOMAIN engine_in' :
               j # k /\ engine_in'[j].id # 0 => engine_in'[j].id # engine_in'[k].id
        BY SMTT(90), <2>3, <2>4, <3>1, <3>3 DEF EngineInv, InEngine
      <4>3. \A k \in DOMAIN engine_out' : engine_out'[k].type = "response" =>
                /\ engine_out'[k].id \in DOMAIN sent
                /\ engine_out'[k].method = sent[engine_out'[k].id].method
                /\ ~Undispatched(engine_out'[k].id)
        BY ZenonT(60), <2>8, <3>1 DEF EngineInv
      <4>4. \A j, k \in DOMAIN engine_out' :
               j # k /\ engine_out'[j].type = "response" /\ engine_out'[k].type = "response" =>
                   engine_out'[j].id # engine_out'[k].id
        BY SMTT(90), <2>8, <3>1 DEF EngineInv
      <4>5. /\ \A k \in DOMAIN engine_in' : engine_in'[k].id # 0 =>
                 /\ Known(engine_in[k])' /\ ~Undispatched(engine_in[k].id)'
                 /\ ~Responded(engine_in[k].id)'
            /\ \A k \in DOMAIN engine_out' : engine_out'[k].type = "response" =>
                 /\ engine_out'[k].id \in DOMAIN sent
                 /\ engine_out'[k].method = sent[engine_out'[k].id].method
                 /\ ~Undispatched(engine_out[k].id)'
        BY ZenonT(60), <1>5, <2>9, <4>1, <4>3
      <4> QED
        BY ZenonT(60), <1>2, <4>2, <4>4, <4>5 DEF EngineInv
    <3>7. QueueInv'
      <4>1. \A j, k \in DOMAIN queue' : j < k => queue'[j].id < queue'[k].id
        <5>1. \A j, k \in DOMAIN queue' : j < k => j + 1 < k + 1
          BY <2>2
        <5> HIDE MessageFacts
        <5> QED
          BY ZenonT(60), <2>2, <3>2, <5>1
      <4>2. \A k \in DOMAIN queue' : Known(queue[k])'
        BY ZenonT(60), <1>2, <2>2, <3>2 DEF Known
      <4>3. \A i \in Ids : Waits(i)' => Past(i)' /\ ~InEngine(i)' /\ ~Responded(i)'
        BY ZenonT(60), <1>5, <2>6, <2>7, <2>9, <3>2, <3>5
      <4>4. DOMAIN todo' = {}
        BY SMTT(90), <1>3
      <4> QED
        BY ZenonT(60), <4>1, <4>2, <4>3, <4>4 DEF QueueInv
    <3>8. CurrentInv'
      BY <1>2 DEF CurrentInv
    <3>9. ActiveInv'
      BY ZenonT(60), <1>2, <2>1, <2>3, <3>2 DEF ActiveInv, Known
    <3>10. WorkInv'
      <4>1. \A i \in Ids : Begun(i)' => ~Undispatched(i)' /\ ~InEngine(i)' /\ ~Waits(i)'
        BY ZenonT(60), <1>5, <2>3, <2>6, <2>7, <2>10, <3>1 DEF WorkInv
      <4>2. \A k \in DOMAIN engine_out' : Completes(engine_out'[k]) =>
                /\ engine_out'[k].id \in Ids \ working
                /\ \A j \in DOMAIN engine_out' : j # k /\ Completes(engine_out'[j]) =>
                     engine_out'[j].id # engine_out'[k].id
        BY SMTT(90), <2>8, <3>1 DEF WorkInv
      <4> QED
        BY ZenonT(60), <1>2, <4>1, <4>2 DEF WorkInv, Completes
    <3>11. ASSUME NEW i \in Ids, ended'[i] # ended[i] PROVE Over(i)
      <4>1. ended'[i] = ended[i] + 1 /\ i = Serving.id /\ i # 0 /\ ~Waits(i)
        BY <1>6, <1>7, <3>11
      <4>2. ended[i] = 0
        BY ZenonT(60), <1>1, <4>1 DEF EndInv
      <4>3. ~Undispatched(i) /\ ~InEngine(i) /\ ~Responded(i) /\ i # p.id
        BY <2>3, <3>1, <4>1 DEF CurrentInv
      <4>4. ~Waits(i)' /\ ~InEngine(i)' /\ ~Responded(i)' /\ i # Serving'.id
        BY ZenonT(60), <1>2, <2>6, <2>7, <2>9, <4>1, <4>3
      <4> QED
        BY SMTT(90), <2>11, <4>1, <4>2, <4>3, <4>4 DEF Over
    <3> QED
      BY ZenonT(60), <3>6, <3>7, <3>8, <3>9, <3>10, <3>11 DEF PlaceInv
  <2>12. \A i \in Ids : ended'[i] = ended[i] \/ Over(i)
    BY ZenonT(60), <1>6, <2>11
  <2>13. ended[p.id] = 0
    BY <1>1, <2>3 DEF EndInv
  <2>14. EndInv'
    BY ZenonT(60), <1>2, <1>3, <1>5, <2>1, <2>2, <2>5, <2>6, <2>12, <2>13, EndFrame
  <2> QED
    BY ZenonT(60), <1>2, <1>4, <2>5, <2>11, <2>14 DEF FlowInv, PlaceInv
<1> QED
  BY ZenonT(60), <1>8, <1>9

-----------------------------------------------------------------------------
(* Every step.                                                             *)

(* Every step keeps the invariant, given what Kept does to the queue.      *)
LEMMA FlowStepOrdered ==
  ASSUME KeepsOrder, FlowInv, [FlowNext]_flowVars
  PROVE  FlowInv'
<1>1. CASE UNCHANGED flowVars
  <2>1. FlowTypeOK' /\ SessionInv' /\ AnswerInv' /\ TodoInv' /\ EndInv'
    BY ZenonT(60), <1>1 DEF FlowInv, flowVars, FlowTypeOK, SessionInv, AnswerInv, TodoInv, EndInv, Known,
                Past, Waits, Undispatched
  <2>2. PlaceInv'
    <3>1. \A i : /\ Undispatched(i)' = Undispatched(i) /\ InEngine(i)' = InEngine(i)
                 /\ Responded(i)' = Responded(i) /\ Waits(i)' = Waits(i)
                 /\ Past(i)' = Past(i) /\ Begun(i)' = Begun(i)
      BY ZenonT(60), <1>1 DEF flowVars, Undispatched, InEngine, Responded, Waits, Past, Begun
    <3>2. active => EngineInv /\ QueueInv /\ CurrentInv /\ ActiveInv /\ WorkInv
      BY DEF FlowInv, PlaceInv
    <3>3. active => EngineInv' /\ QueueInv'
      BY ZenonT(60), <1>1, <3>1, <3>2 DEF flowVars, EngineInv, QueueInv, Known
    <3>4. active => CurrentInv' /\ ActiveInv'
      BY ZenonT(60), <1>1, <3>1, <3>2 DEF flowVars, CurrentInv, ActiveInv, Known
    <3>5. active => WorkInv'
      BY ZenonT(60), <1>1, <3>1, <3>2 DEF flowVars, WorkInv, Completes
    <3> QED
      BY <1>1, <3>3, <3>4, <3>5 DEF PlaceInv, flowVars
  <2> QED
    BY ZenonT(60), <2>1, <2>2 DEF FlowInv
<1>2. CASE TakeCall
  BY <1>2, ForwardStep, SettleStep DEF TakeCall
<1>3. CASE TakeMessage
  BY <1>3, DroppedStep, PassedStep, StartedStep, StoppedStep, CompletedStep DEF TakeMessage
<1> QED
  BY <1>1, <1>2, <1>3, AskStep, AskTerminateStep, DeactivateStep, ResubmitStep, EngineAnswersStep,
     EngineClosesStep, EngineCompletesStep, EngineSignalsStep DEF FlowNext

(* The queue is empty at first, hence in order.                            *)
LEMMA OrderInitially == FlowInit => QueueOrdered
BY DEF FlowInit, QueueOrdered

(* Requests leave the queue from its front, or where a request selects     *)
(* them; before deactivation FlowInv says that they keep their order.      *)
LEMMA OrderStepOrdered ==
  ASSUME KeepsOrder, FlowInv, QueueOrdered, [FlowNext]_flowVars
  PROVE  QueueOrdered'
<1>1. FlowTypeOK /\ TodoInv
  BY DEF FlowInv
<1>2. CASE active'
  BY ZenonT(60), <1>2, FlowStepOrdered DEF FlowInv, PlaceInv, QueueInv, QueueOrdered
<1>3. CASE UNCHANGED queue
  BY <1>3 DEF QueueOrdered
<1>4. ASSUME NEW q, q \in Seq(StartRequest), q # <<>>,
             \A j, k \in DOMAIN q : j < k => q[j].id < q[k].id, queue' = Tail(q)
      PROVE  QueueOrdered'
  <2>1. /\ Len(q) \in Nat /\ DOMAIN queue' = 1..(Len(q) - 1)
        /\ \A k \in DOMAIN queue' : k + 1 \in DOMAIN q /\ queue'[k] = q[k + 1]
    BY <1>4, TailFacts
  <2>2. \A j, k \in DOMAIN queue' : j < k => j + 1 < k + 1
    BY <2>1
  <2> QED
    BY <1>4, <2>1, <2>2 DEF QueueOrdered
<1>5. CASE TakeCall /\ ~active'
  <2>1. PICK r : Forward(r) \/ Settle(r)
    BY <1>5 DEF TakeCall
  <2>2. r # TERMINATE /\ Taking(r) /\ UNCHANGED active
    BY <2>1 DEF Forward, Settle
  <2>3. active
    <3>1. PICK rest : rest = Tail(todo)
      BY ZenonT(60)
    <3> QED
      BY <2>2, <3>1, TakingFacts
  <2> QED
    BY <1>5, <2>2, <2>3
<1>6. CASE TakeMessage
  <2>1. PICK m : Dropped(m) \/ Passed(m) \/ Started(m) \/ Stopped(m) \/ Completed(m)
    BY <1>6 DEF TakeMessage
  <2>2. CASE Dropped(m) \/ Passed(m) \/ Started(m)
    BY <1>3, <2>2 DEF Dropped, Passed, Started
  <2>3. CASE Stopped(m)
    <3>1. PICK kept : kept = Kept(queue, active_request)
      OBVIOUS
    <3>2. queue' = kept \/ (kept # <<>> /\ queue' = Tail(kept))
      BY <2>3, <3>1 DEF Stopped
    <3>3. /\ kept \in Seq(StartRequest)
          /\ \A a, b \in DOMAIN kept : a < b =>
               \E j, k \in DOMAIN queue : j < k /\ kept[a] = queue[j] /\ kept[b] = queue[k]
      BY SMTT(90), <1>1, <3>1, KeptQueue
    <3>4. \A j, k \in DOMAIN kept : j < k => kept[j].id < kept[k].id
      BY <3>3 DEF QueueOrdered
    <3> QED
      BY ZenonT(60), <1>4, <3>2, <3>3, <3>4 DEF QueueOrdered
  <2>4. CASE Completed(m)
    <3>1. queue' = queue \/ (queue # <<>> /\ queue' = Tail(queue))
      BY <2>4 DEF Completed
    <3>2. queue \in Seq(StartRequest)
      BY <1>1 DEF FlowTypeOK
    <3> QED
      BY <1>3, <1>4, <3>1, <3>2 DEF QueueOrdered
  <2> QED
    BY <2>1, <2>2, <2>3, <2>4
<1> QED
  BY SMTT(90), <1>2, <1>3, <1>5, <1>6
     DEF FlowNext, flowVars, Ask, AskTerminate, Process, Deactivate, Resubmit, EngineAnswers,
         EngineCloses, EngineCompletes, EngineSignals, EngineStep

(* What a step may do to the responses the client has got.                 *)
OnlyActiveAnswered ==
    \A i \in Ids : answered'[i] # answered[i] => session_active.id = i

(* Only the active request of the session is answered.                     *)
LEMMA ReplyActiveOnly ==
  ASSUME FlowTypeOK, NEW id, active => id = session_active.id, NEW rest, Reply(id, rest)
  PROVE  OnlyActiveAnswered
<1>1. answered \in [Ids -> Nat]
  BY DEF FlowTypeOK
<1>2. CASE active
  BY <1>1, <1>2 DEF Reply, DispatchResponse, OnlyActiveAnswered
<1>3. CASE ~active
  BY ZenonT(60), <1>3 DEF Reply, requestVars, OnlyActiveAnswered
<1> QED
  BY <1>2, <1>3

(* Every response goes out for the request the session has made active:    *)
(* the state machine answers the request it is given, or passes on the     *)
(* engine's response to its active_request.                                *)
LEMMA FlowAnswersActive ==
  ASSUME FlowInv, [FlowNext]_flowVars
  PROVE  OnlyActiveAnswered
<1>1. FlowTypeOK
  BY DEF FlowInv
<1>2. CASE UNCHANGED answered
  BY <1>2 DEF OnlyActiveAnswered
<1>3. CASE TakeCall
  <2>1. PICK r : Forward(r) \/ Settle(r)
    BY <1>3 DEF TakeCall
  <2>2. CASE Forward(r)
    BY <1>2, <2>2 DEF Forward, requestVars
  <2>3. CASE Settle(r)
    <3>1. PICK rest : rest = Tail(todo)
      BY ZenonT(60)
    <3>2. r # TERMINATE /\ Taking(r) /\ Reply(r.id, rest)
      BY ZenonT(60), <2>3, <3>1 DEF Settle
    <3>3. r = session_active
      BY <3>1, <3>2, TakingFacts
    <3> QED
      BY <1>1, <3>2, <3>3, ReplyActiveOnly
  <2> QED
    BY <2>1, <2>2, <2>3
<1>4. CASE TakeMessage
  <2>1. PICK m : Dropped(m) \/ Passed(m) \/ Started(m) \/ Stopped(m) \/ Completed(m)
    BY <1>4 DEF TakeMessage
  <2>2. CASE Dropped(m) \/ Completed(m)
    BY <1>2, <2>2 DEF Dropped, Completed, requestVars
  <2>3. CASE Passed(m) \/ Started(m) \/ Stopped(m)
    <3>1. CASE UNCHANGED requestVars
      BY <1>2, <3>1 DEF requestVars
    <3>2. CASE /\ HearingResponse(m)
               /\ m.method \notin Starts \/ ~is_pending
               /\ \E rest : Reply(m.id, rest)
      <4>1. active => m.id = session_active.id
        BY <3>2, ResponseFacts
      <4> QED
        BY SMTT(90), <1>1, <3>2, <4>1, ReplyActiveOnly
    <3>3. CASE Passed(m)
      BY <3>2, <3>3 DEF Passed
    <3>4. CASE Stopped(m)
      <4>1. \E rest : Reply(m.id, rest)
        BY <3>4 DEF Stopped
      <4> QED
        BY SMTT(90), <3>2, <3>4, <4>1 DEF Stopped
    <3>5. CASE Started(m)
      BY <3>1, <3>2, <3>5 DEF Started
    <3> QED
      BY SMTT(90), <2>3, <3>3, <3>4, <3>5
  <2> QED
    BY <2>1, <2>2, <2>3
<1> QED
  BY SMTT(90), <1>2, <1>3, <1>4
     DEF FlowNext, flowVars, Ask, AskTerminate, Process, Deactivate, Resubmit, EngineAnswers,
         EngineCloses, EngineCompletes, EngineSignals, EngineStep, requestVars

-----------------------------------------------------------------------------
(* Other facts of the engine's messages.                                   *)

(* Nothing is under way at first.                                          *)
LEMMA ResponseFirstInitially == FlowInit => ResponseFirst /\ OneAtATime
BY DEF FlowInit, ControlInit, ResponseFirst, OneAtATime, InEngine, Responded

(* What an engine's step adds to engine_out.                               *)
LEMMA SaidFacts ==
  ASSUME FlowTypeOK, NEW m \in Heard, engine_out' = Append(engine_out, m)
  PROVE  /\ Len(engine_out) \in Nat /\ DOMAIN engine_out = 1..Len(engine_out)
         /\ DOMAIN engine_out' = 1..(Len(engine_out) + 1)
         /\ \A k \in DOMAIN engine_out : engine_out'[k] = engine_out[k]
         /\ engine_out'[Len(engine_out) + 1] = m
<1>1. engine_out \in Seq(Heard)
  BY DEF FlowTypeOK
<1> QED
  BY <1>1, AppendFacts

(* The four kinds of step: engine_out is left alone, loses its head, or    *)
(* gets a response or another message.                                     *)
LEMMA OutChanges ==
  ASSUME FlowInv, [FlowNext]_flowVars
  PROVE  \/ Fewer /\ working' \subseteq working
         \/ \E r \in {Head(engine_in)}, s \in {"INPROGRESS", "COMPLETE"}, ok \in BOOLEAN :
              /\ engine_in # <<>> /\ r \in Request /\ InEngine(r.id) /\ ResponseTo(r, s, ok) \in Heard
              /\ engine_in' = Tail(engine_in)
              /\ engine_out' = Append(engine_out, ResponseTo(r, s, ok))
              /\ working' \subseteq working \cup
                   (IF r.method \in Starts /\ s = "INPROGRESS" THEN {r.id} ELSE {})
              /\ EngineStep
         \/ \E m \in Heard : /\ m.type # "response"
                             /\ engine_out' = Append(engine_out, m)
                             /\ Completes(m) => m.id \in working
                             /\ working' \subseteq working
                             /\ EngineStep
<1>1. FlowTypeOK
  BY DEF FlowInv
<1>2. CASE UNCHANGED <<engine_out, working>>
  BY ZenonT(60), <1>2 DEF Fewer
<1>3. CASE TakeMessage
  BY ZenonT(60), <1>3 DEF TakeMessage, Dropped, Passed, Started, Stopped, Completed, HearingResponse, Hearing,
     Fewer
<1>4. CASE EngineAnswers
  <2>1. PICK r \in {Head(engine_in)}, s \in {"INPROGRESS", "COMPLETE"}, ok \in BOOLEAN :
         /\ engine_in # <<>> /\ r # CLOSE
         /\ engine_in' = Tail(engine_in)
         /\ engine_out' = Append(engine_out, ResponseTo(r, s, ok))
         /\ working' \subseteq working \cup
               (IF r.method \in Starts /\ s = "INPROGRESS" THEN {r.id} ELSE {})
         /\ EngineStep
    BY <1>4 DEF EngineAnswers
  <2>2. engine_in \in Seq(Request \cup {CLOSE}) /\ engine_in # <<>>
    BY SMTT(90), <1>1, <2>1 DEF FlowTypeOK
  <2>3. /\ r \in Request \cup {CLOSE} /\ r = engine_in[1] /\ 1 \in DOMAIN engine_in
    BY SMTT(90), <2>1, <2>2, TailFacts
  <2>4. r \in Request /\ InEngine(r.id)
    BY ZenonT(60), <2>1, <2>3 DEF InEngine
  <2>5. ResponseTo(r, s, ok) \in Heard
    BY <2>4 DEF ResponseTo, Heard, Request
  <2> QED
    BY ZenonT(60), <2>1, <2>4, <2>5
<1>5. CASE EngineCloses
  <2>1. Released("closed") \in Heard /\ Released("closed").type = "closed"
    BY ReleasedFacts
  <2> QED
    BY ZenonT(60), <1>5, <2>1 DEF EngineCloses, Completes
<1>6. CASE EngineCompletes
  <2>1. PICK i \in working, method \in Completions :
          /\ engine_out' = Append(engine_out, EventOf(i, method))
          /\ working' = working \ {i}
    BY ZenonT(60), <1>6 DEF EngineCompletes
  <2>2. i \in Ids
    BY <1>1 DEF FlowTypeOK
  <2>3. PICK m : m = EventOf(i, method)
    OBVIOUS
  <2>4. m \in Heard /\ m.type = "event" /\ m.id = i
    BY ZenonT(60), <2>2, <2>3 DEF EventOf, Heard
  <2> QED
    BY ZenonT(60), <1>6, <2>1, <2>3, <2>4 DEF EngineCompletes
<1>7. CASE EngineSignals
  <2>1. PICK m \in {Released("subtracted")} \cup {EventOf(i, method) : i \in Ids, method \in Signals} :
          /\ ~Completes(m) /\ engine_out' = Append(engine_out, m) /\ UNCHANGED working /\ EngineStep
    BY <1>7 DEF EngineSignals
  <2>2. m \in Heard /\ m.type # "response"
    <3>1. CASE m = Released("subtracted")
      BY SMTT(90), <3>1, ReleasedFacts
    <3>2. ASSUME NEW i \in Ids, NEW method \in Signals, m = EventOf(i, method)
          PROVE  m \in Heard /\ m.type # "response"
      BY SMTT(90), <3>2 DEF EventOf, Heard
    <3> QED
      BY <3>1, <3>2
  <2> QED
    BY SMTT(90), <2>1, <2>2
<1> QED
  BY ZenonT(60), <1>2, <1>3, <1>4, <1>5, <1>6, <1>7
     DEF FlowNext, flowVars, Ask, AskTerminate, Process, Deactivate, Resubmit, TakeCall, Forward,
         Settle, Taking

(* A response is appended only for a request the engine has, and such a    *)
(* request has not completed.                                              *)
LEMMA ResponseFirstStep ==
  ASSUME FlowInv, ResponseFirst, [FlowNext]_flowVars, active' => active
  PROVE  ResponseFirst'
<1>1. FlowTypeOK /\ PlaceInv
  BY DEF FlowInv
<1>2. SUFFICES ASSUME active'
               PROVE  \A j, k \in DOMAIN engine_out' :
                        j < k /\ Completes(engine_out'[j]) /\ engine_out'[k].type = "response" =>
                            engine_out'[j].id # engine_out'[k].id
  BY DEF ResponseFirst, Completes
<1>3. /\ active /\ EngineInv /\ WorkInv
      /\ \A j, k \in DOMAIN engine_out :
           j < k /\ Completes(engine_out[j]) /\ engine_out[k].type = "response" =>
               engine_out[j].id # engine_out[k].id
  BY ZenonT(60), <1>1, <1>2 DEF PlaceInv, ResponseFirst
<1>4. CASE Fewer
  <2>1. PICK d \in {0, 1} : \A k \in DOMAIN engine_out' :
           k \in Nat /\ k # 0 /\ k + d \in DOMAIN engine_out /\ engine_out'[k] = engine_out[k + d]
    BY ZenonT(60), <1>1, <1>4, FewerFacts
  <2>2. \A j, k \in DOMAIN engine_out' : j < k => j + d < k + d
    BY SMTT(90), <2>1
  <2> QED
    BY <1>3, <2>1, <2>2
<1>5. ASSUME NEW m \in Heard, engine_out' = Append(engine_out, m),
             m.type = "response" =>
                \A j \in DOMAIN engine_out : Completes(engine_out[j]) => engine_out[j].id # m.id
      PROVE  \A j, k \in DOMAIN engine_out' :
               j < k /\ Completes(engine_out'[j]) /\ engine_out'[k].type = "response" =>
                   engine_out'[j].id # engine_out'[k].id
  <2>1. /\ Len(engine_out) \in Nat /\ DOMAIN engine_out = 1..Len(engine_out)
        /\ DOMAIN engine_out' = 1..(Len(engine_out) + 1)
        /\ \A k \in DOMAIN engine_out : engine_out'[k] = engine_out[k]
        /\ engine_out'[Len(engine_out) + 1] = m
    BY ZenonT(60), <1>1, <1>5, SaidFacts
  <2>2. ASSUME NEW j \in DOMAIN engine_out', NEW k \in DOMAIN engine_out', j < k
        PROVE  j \in DOMAIN engine_out /\ (k \in DOMAIN engine_out \/ k = Len(engine_out) + 1)
    BY <2>1, <2>2
  <2> QED
    BY SMTT(90), <1>3, <1>5, <2>1, <2>2
<1>6. ASSUME NEW r, NEW s, NEW ok, r \in Request, InEngine(r.id), ResponseTo(r, s, ok) \in Heard,
             engine_out' = Append(engine_out, ResponseTo(r, s, ok))
      PROVE  \A j, k \in DOMAIN engine_out' :
               j < k /\ Completes(engine_out'[j]) /\ engine_out'[k].type = "response" =>
                   engine_out'[j].id # engine_out'[k].id
  <2>1. r.id \in Ids /\ ~Begun(r.id)
    BY ZenonT(60), <1>3, <1>6, MessageFacts DEF WorkInv
  <2>2. PICK m : m = ResponseTo(r, s, ok)
    OBVIOUS
  <2>3. m.id = r.id
    BY <2>2 DEF ResponseTo
  <2>4. \A j \in DOMAIN engine_out : Completes(engine_out[j]) => engine_out[j].id # m.id
    BY <2>1, <2>3 DEF Begun
  <2> QED
    BY ZenonT(60), <1>5, <1>6, <2>2, <2>4
<1>7. \/ Fewer
      \/ \E r, s, ok : /\ r \in Request /\ InEngine(r.id) /\ ResponseTo(r, s, ok) \in Heard
                       /\ engine_out' = Append(engine_out, ResponseTo(r, s, ok))
      \/ \E m \in Heard : m.type # "response" /\ engine_out' = Append(engine_out, m)
  BY ZenonT(60), OutChanges
<1> QED
  BY ZenonT(60), <1>4, <1>5, <1>6, <1>7

(* A request that is over is not begun again: the engine starts only what  *)
(* the client has not been told to be over.                                *)
LEMMA OverStays ==
  ASSUME FlowInv, FlowInv', [FlowNext]_flowVars, NEW i \in Ids, ended[i] = 1, ~Begun(i)
  PROVE  ended'[i] = 1 /\ ~Begun(i)'
<1>1. FlowTypeOK /\ EndInv
  BY DEF FlowInv
<1>2. ended'[i] = 1
  <2>1. /\ ended \in [Ids -> Nat] /\ ended' \in [Ids -> Nat] /\ ended'[i] <= 1
    BY ZenonT(60) DEF FlowInv, FlowTypeOK, EndInv
  <2>2. ended'[i] >= ended[i]
    <3>1. CASE UNCHANGED ended
      BY <2>1, <3>1
    <3>2. ASSUME NEW S, Ending(S) PROVE ended'[i] >= ended[i]
      BY <2>1, <3>2 DEF Ending
    <3>3. CASE TakeCall
      BY ZenonT(60), <3>1, <3>2, <3>3 DEF TakeCall, Forward, Settle
    <3>4. CASE TakeMessage
      BY ZenonT(60), <3>1, <3>2, <3>4 DEF TakeMessage, Dropped, Passed, Started, Stopped, Completed
    <3> QED
      BY <3>1, <3>3, <3>4
         DEF FlowNext, flowVars, Ask, AskTerminate, Process, Deactivate, Resubmit, EngineAnswers,
             EngineCloses, EngineCompletes, EngineSignals, EngineStep
  <2> QED
    BY SMTT(90), <2>1, <2>2
<1>3. i \notin working /\ \A k \in DOMAIN engine_out : Completes(engine_out[k]) => engine_out[k].id # i
  BY ZenonT(60) DEF Begun
<1>4. SUFFICES /\ i \notin working'
               /\ \A k \in DOMAIN engine_out' : Completes(engine_out'[k]) => engine_out'[k].id # i
  BY ZenonT(60), <1>2 DEF Begun, Completes
<1>5. CASE Fewer /\ working' \subseteq working
  BY ZenonT(60), <1>1, <1>3, <1>5, FewerFacts
<1>6. ASSUME NEW m \in Heard, engine_out' = Append(engine_out, m), Completes(m) => m.id # i
      PROVE  \A k \in DOMAIN engine_out' : Completes(engine_out'[k]) => engine_out'[k].id # i
  <2>1. /\ Len(engine_out) \in Nat /\ DOMAIN engine_out = 1..Len(engine_out)
        /\ DOMAIN engine_out' = 1..(Len(engine_out) + 1)
        /\ \A k \in DOMAIN engine_out : engine_out'[k] = engine_out[k]
        /\ engine_out'[Len(engine_out) + 1] = m
    BY ZenonT(60), <1>1, <1>6, SaidFacts
  <2>2. \A k \in DOMAIN engine_out' : k \in DOMAIN engine_out \/ k = Len(engine_out) + 1
    BY SMTT(90), <2>1
  <2> QED
    BY ZenonT(60), <1>3, <1>6, <2>1, <2>2
<1>7. ASSUME NEW m \in Heard, engine_out' = Append(engine_out, m), working' \subseteq working,
             Completes(m) => m.id \in working
      PROVE  /\ i \notin working'
             /\ \A k \in DOMAIN engine_out' : Completes(engine_out'[k]) => engine_out'[k].id # i
  BY ZenonT(60), <1>3, <1>6, <1>7
<1>8. ASSUME NEW r \in {Head(engine_in)}, NEW s, NEW ok, engine_in # <<>>, r \in Request,
             ResponseTo(r, s, ok) \in Heard, engine_out' = Append(engine_out, ResponseTo(r, s, ok)),
             working' \subseteq working \cup
                   (IF r.method \in Starts /\ s = "INPROGRESS" THEN {r.id} ELSE {})
      PROVE  /\ i \notin working'
             /\ \A k \in DOMAIN engine_out' : Completes(engine_out'[k]) => engine_out'[k].id # i
  <2>1. engine_in \in Seq(Request \cup {CLOSE})
    BY ZenonT(60), <1>1 DEF FlowTypeOK
  <2>2. r = engine_in[1] /\ 1 \in DOMAIN engine_in /\ r.id # 0
    BY ZenonT(60), <1>8, <2>1, TailFacts, MessageFacts
  <2>3. r.method \in Starts => r.id # i
    BY <1>1, <2>2 DEF EndInv
  <2>4. PICK m : m = ResponseTo(r, s, ok)
    BY SMTT(90)
  <2>5. ~Completes(m)
    BY <2>4 DEF ResponseTo, Completes
  <2> QED
    BY ZenonT(60), <1>3, <1>6, <1>8, <2>3, <2>4, <2>5
<1> QED
  BY ZenonT(60), <1>5, <1>7, <1>8, OutChanges

(* A request that is being dispatched is new to the engine.  When the      *)
(* engine has one request at a time it then has none: its request would be *)
(* the session's active one, which is the one being dispatched.            *)
LEMMA TakingNew ==
  ASSUME FlowInv, NEW r, r # TERMINATE, Taking(r)
  PROVE  /\ active /\ r = session_active /\ r \in Request /\ Undispatched(r.id)
         /\ ~InEngine(r.id) /\ ~Responded(r.id)
         /\ OneAtATime /\ is_pending = FALSE => \A i \in Ids : ~InEngine(i) /\ ~Responded(i)
<1>1. PICK rest : rest = Tail(todo)
  BY ZenonT(60)
<1>2. active /\ r = session_active /\ r \in Request /\ Undispatched(r.id)
  BY <1>1, TakingFacts
<1>3. EngineInv /\ ActiveInv
  BY SMTT(90), <1>2 DEF FlowInv, PlaceInv
<1>4. r.id # 0 /\ r.id \in Ids
  BY ZenonT(60), <1>2, MessageFacts
<1>5. ~InEngine(r.id) /\ ~Responded(r.id)
  BY <1>2, <1>3, <1>4 DEF EngineInv, InEngine, Responded
<1>6. ASSUME OneAtATime, is_pending = FALSE, NEW i \in Ids, InEngine(i) \/ Responded(i)
      PROVE  FALSE
  <2>1. i = active_request.id /\ i # 0
    BY SMTT(90), <1>2, <1>6, MessageFacts DEF OneAtATime
  <2>2. i = session_active.id
    BY ZenonT(60), <1>3, <1>6, <2>1 DEF ActiveInv
  <2> QED
    BY ZenonT(60), <1>2, <1>5, <1>6, <2>2
<1> QED
  BY ZenonT(60), <1>2, <1>5, <1>6

(* A request reaches the engine, and its response the server task, only    *)
(* from where it was.                                                      *)
LEMMA EngineAnswersFacts ==
  ASSUME FlowTypeOK, engine_in # <<>>, engine_in' = Tail(engine_in),
         NEW m \in Heard, engine_out' = Append(engine_out, m),
         m.type = "response" => m.id = Head(engine_in).id
  PROVE  \A i : InEngine(i)' \/ Responded(i)' => InEngine(i) \/ Responded(i)
<1>1. engine_in \in Seq(Request \cup {CLOSE})
  BY SMTT(90) DEF FlowTypeOK
<1>2. Head(engine_in) = engine_in[1] /\ 1 \in DOMAIN engine_in
      /\ \A k \in DOMAIN engine_in' : k + 1 \in DOMAIN engine_in /\ engine_in'[k] = engine_in[k + 1]
  BY SMTT(90), <1>1, TailFacts
<1>3. /\ \A k \in DOMAIN engine_out : engine_out'[k] = engine_out[k]
      /\ engine_out'[Len(engine_out) + 1] = m
      /\ \A k \in DOMAIN engine_out' : k \in DOMAIN engine_out \/ k = Len(engine_out) + 1
  BY SMTT(90), SaidFacts
<1> QED
  BY SMTT(90), <1>2, <1>3 DEF InEngine, Responded

(* The engine keeps having one request at a time as long as no request is  *)
(* taken from the queue.                                                   *)
LEMMA OneAtATimeStep ==
  ASSUME FlowInv, OneAtATime, [FlowNext]_flowVars, is_pending = FALSE, is_pending' = FALSE
  PROVE  OneAtATime'
<1>1. FlowTypeOK
  BY DEF FlowInv
<1>2. ASSUME UNCHANGED <<active, active_request>>,
             \A i \in Ids : InEngine(i)' \/ Responded(i)' => InEngine(i) \/ Responded(i)
      PROVE  OneAtATime'
  BY <1>2 DEF OneAtATime, Ids
<1>3. CASE active' = FALSE
  BY SMTT(90), <1>3 DEF OneAtATime
<1>4. CASE UNCHANGED <<active, active_request, engine_in, engine_out>>
  BY ZenonT(60), <1>2, <1>4 DEF InEngine, Responded
<1>5. ASSUME MayClose, Fewer
      PROVE  \A i \in Ids : InEngine(i)' \/ Responded(i)' => InEngine(i) \/ Responded(i)
  <2>1. \A k \in DOMAIN engine_in' : engine_in'[k].id # 0 =>
          k \in DOMAIN engine_in /\ engine_in'[k] = engine_in[k]
    BY ZenonT(60), <1>1, <1>5, MayCloseFacts
  <2>2. PICK d \in {0, 1} : \A k \in DOMAIN engine_out' :
          k + d \in DOMAIN engine_out /\ engine_out'[k] = engine_out[k + d]
    BY ZenonT(60), <1>1, <1>5, FewerFacts
  <2> QED
    BY ZenonT(60), <2>1, <2>2, MessageFacts DEF InEngine, Responded
<1>6. ASSUME NEW r, Forward(r) PROVE OneAtATime'
  <2>1. /\ \A i \in Ids : ~InEngine(i) /\ ~Responded(i)
        /\ r \in Request
    BY ZenonT(60), <1>6, TakingNew DEF Forward
  <2>2. engine_in \in Seq(Request \cup {CLOSE}) /\ engine_in' = Append(engine_in, r)
    BY ZenonT(60), <1>1, <1>6 DEF FlowTypeOK, Forward
  <2>3. \A k \in DOMAIN engine_in' :
          (k \in DOMAIN engine_in /\ engine_in'[k] = engine_in[k]) \/ engine_in'[k] = r
    BY <2>1, <2>2, AppendFacts
  <2> QED
    BY ZenonT(60), <1>6, <2>1, <2>3 DEF OneAtATime, InEngine, Responded, Forward, Taking, Ids
<1>7. ASSUME NEW r, Settle(r) PROVE OneAtATime'
  <2>1. \A i \in Ids : ~InEngine(i) /\ ~Responded(i)
    BY ZenonT(60), <1>7, TakingNew DEF Settle
  <2>2. \A i \in Ids : ~InEngine(i)' /\ ~Responded(i)'
    BY <1>5, <1>7, <2>1 DEF Settle, Taking, Fewer
  <2> QED
    BY <2>2 DEF OneAtATime, Ids
<1>8. ASSUME NEW m, HearingResponse(m), MayClose
      PROVE  OneAtATime'
  <2>1. CASE ~active
    BY <1>8, <2>1 DEF OneAtATime, HearingResponse, Hearing
  <2>2. CASE active
    <3>1. Hearing(m) /\ m.type = "response" /\ m.id = active_request.id
      BY SMTT(90), <1>8 DEF HearingResponse
    <3>2. ~Responded(m.id)' /\ ~InEngine(m.id) /\ Fewer
      BY SMTT(90), <2>2, <3>1, HearingFacts
    <3>3. \A i \in Ids : ~InEngine(i) \/ i = m.id
      BY SMTT(90), <2>2, <3>1 DEF OneAtATime
    <3>4. \A i \in Ids : ~Responded(i) \/ i = m.id
      BY SMTT(90), <2>2, <3>1 DEF OneAtATime
    <3>5. \A k \in DOMAIN engine_in' : engine_in'[k].id # 0 =>
            k \in DOMAIN engine_in /\ engine_in'[k] = engine_in[k]
      BY ZenonT(60), <1>1, <1>8, MayCloseFacts
    <3>6. \A i \in Ids : InEngine(i)' => InEngine(i)
      BY SMTT(90), <3>5, MessageFacts DEF InEngine
    <3>7. \A i \in Ids : Responded(i)' => Responded(i)
      <4>1. PICK d \in {0, 1} : \A k \in DOMAIN engine_out' :
              k + d \in DOMAIN engine_out /\ engine_out'[k] = engine_out[k + d]
        BY <1>1, <3>2, FewerFacts
      <4> QED
        BY SMTT(90), <4>1 DEF Responded
    <3> QED
      BY ZenonT(60), <3>2, <3>3, <3>4, <3>6, <3>7 DEF OneAtATime, Ids
  <2> QED
    BY ZenonT(60), <1>1, <2>1, <2>2 DEF FlowTypeOK
<1>9. CASE TakeMessage
  <2>1. PICK m : Dropped(m) \/ Passed(m) \/ Started(m) \/ Stopped(m) \/ Completed(m)
    BY SMTT(90), <1>9 DEF TakeMessage
  <2>2. CASE Dropped(m)
    BY ZenonT(60), <1>2, <1>5, <2>2 DEF Dropped, Hearing, Fewer
  <2>3. CASE Passed(m) \/ Started(m) \/ Stopped(m)
    BY ZenonT(60), <1>8, <2>3 DEF Passed, Started, Stopped
  <2>4. CASE Completed(m)
    BY ZenonT(60), <1>2, <1>5, <2>4 DEF Completed, Hearing, Fewer, MayClose
  <2> QED
    BY SMTT(90), <2>1, <2>2, <2>3, <2>4
<1>10. CASE EngineAnswers \/ EngineCloses
  <2>1. PICK m \in Heard : /\ engine_in # <<>> /\ engine_in' = Tail(engine_in)
                           /\ engine_out' = Append(engine_out, m)
                           /\ m.type = "response" => m.id = Head(engine_in).id
    <3>1. CASE EngineCloses
      BY ZenonT(60), <3>1, ReleasedFacts DEF EngineCloses
    <3>2. CASE EngineAnswers
      <4>1. PICK s \in {"INPROGRESS", "COMPLETE"}, ok \in BOOLEAN, r \in {Head(engine_in)} :
             /\ engine_in # <<>> /\ r # CLOSE /\ engine_in' = Tail(engine_in)
             /\ engine_out' = Append(engine_out, ResponseTo(r, s, ok))
        BY SMTT(90), <3>2 DEF EngineAnswers
      <4>2. engine_in \in Seq(Request \cup {CLOSE})
        BY <1>1 DEF FlowTypeOK
      <4>3. r \in Request
        BY SMTT(90), <4>1, <4>2, TailFacts
      <4>4. ResponseTo(r, s, ok) \in Heard /\ ResponseTo(r, s, ok).id = r.id
        BY ZenonT(60), <4>3 DEF ResponseTo, Heard, Request
      <4> QED
        BY SMTT(90), <4>1, <4>4
    <3> QED
      BY ZenonT(60), <1>10, <3>1, <3>2
  <2>2. \A i : InEngine(i)' \/ Responded(i)' => InEngine(i) \/ Responded(i)
    BY SMTT(90), <1>1, <2>1, EngineAnswersFacts
  <2> QED
    BY <1>2, <1>10, <2>2 DEF EngineAnswers, EngineCloses, EngineStep
<1>11. ASSUME EngineStep, UNCHANGED engine_in, NEW m \in Heard, m.type # "response",
              engine_out' = Append(engine_out, m)
       PROVE  OneAtATime'
  <2>1. /\ \A k \in DOMAIN engine_out : engine_out'[k] = engine_out[k]
        /\ engine_out'[Len(engine_out) + 1] = m
        /\ \A k \in DOMAIN engine_out' : k \in DOMAIN engine_out \/ k = Len(engine_out) + 1
    BY SMTT(90), <1>1, <1>11, SaidFacts
  <2> QED
    BY ZenonT(60), <1>2, <1>11, <2>1 DEF InEngine, Responded, EngineStep
<1>12. CASE EngineCompletes
  <2>1. PICK i \in working, method \in Completions : engine_out' = Append(engine_out, EventOf(i, method))
    BY ZenonT(60), <1>12 DEF EngineCompletes
  <2>2. i \in Ids
    BY <1>1 DEF FlowTypeOK
  <2>3. PICK m : m = EventOf(i, method)
    BY ZenonT(60)
  <2>4. m \in Heard /\ m.type = "event"
    BY ZenonT(60), <2>2, <2>3 DEF EventOf, Heard
  <2> QED
    BY ZenonT(60), <1>11, <1>12, <2>1, <2>3, <2>4 DEF EngineCompletes
<1>13. CASE EngineSignals
  <2>1. PICK m \in {Released("subtracted")} \cup {EventOf(i, method) : i \in Ids, method \in Signals} :
          engine_out' = Append(engine_out, m)
    BY <1>13 DEF EngineSignals
  <2>2. m \in Heard /\ m.type # "response"
    <3>1. CASE m = Released("subtracted")
      BY SMTT(90), <3>1, ReleasedFacts
    <3>2. ASSUME NEW i \in Ids, NEW method \in Signals, m = EventOf(i, method)
          PROVE  m \in Heard /\ m.type # "response"
      BY <3>2 DEF EventOf, Heard
    <3> QED
      BY <3>1, <3>2
  <2> QED
    BY SMTT(90), <1>11, <1>13, <2>1, <2>2 DEF EngineSignals
<1>14. ~Resubmit
  BY DEF Resubmit
<1> QED
  BY ZenonT(60), <1>3, <1>4, <1>6, <1>7, <1>9, <1>10, <1>12, <1>13, <1>14
     DEF FlowNext, flowVars, Ask, AskTerminate, Process, Deactivate, TakeCall

-----------------------------------------------------------------------------
(* The induction over the queue.                                           *)

LOCAL WellFounded == INSTANCE WellFoundedInduction

(* Every non-empty set of naturals has a least element.                    *)
LEMMA LeastNatural ==
  ASSUME NEW T, T \subseteq Nat, T # {}
  PROVE  \E x \in T : \A y \in T : x <= y
<1> DEFINE R == {ss \in Nat \X Nat : ss[1] < ss[2]}
<1>1. WellFounded!OpToRel(<, Nat) = R
  BY ZenonT(60) DEF WellFounded!OpToRel
<1>2. WellFounded!IsWellFoundedOn(R, Nat)
  BY ZenonT(60), <1>1, WellFounded!NatLessThanWellFounded
<1> HIDE DEF R
<1>3. \E x \in T : \A y \in T : ~ (<<y, x>> \in R)
  BY ZenonT(60), <1>2, WellFounded!WFMin
<1>4. PICK x \in T : \A y \in T : ~ (<<y, x>> \in R)
  BY <1>3
<1>5. ASSUME NEW y \in T PROVE x <= y
  <2>1. ~ (<<y, x>> \in R)
    BY <1>4
  <2>2. <<y, x>> \in Nat \X Nat
    OBVIOUS
  <2>3. ~ (y < x)
    BY <2>1, <2>2 DEF R
  <2> QED
    BY <2>3
<1> QED
  BY <1>5

(* Induction over the naturals, with a set for the predicate.              *)
LEMMA SetInduction ==
  ASSUME NEW T, 0 \in T, \A n \in Nat : n \in T => n + 1 \in T
  PROVE  Nat \subseteq T
<1> DEFINE U == Nat \ T
<1>1. CASE U # {}
  <2>1. PICK x \in U : \A y \in U : x <= y
    BY ZenonT(60), <1>1, LeastNatural
  <2>2. x # 0 /\ x - 1 \in Nat
    OBVIOUS
  <2>3. x - 1 \in T
    BY <2>1, <2>2
  <2> QED
    BY <2>2, <2>3
<1> QED
  BY SMTT(90), <1>1

-----------------------------------------------------------------------------
(* Kept, the loop over a list of pending requests.                         *)

(* The loop over the first n elements computes something.                  *)
LoopUpTo(q, r, n, f) ==
    /\ DOMAIN f = 0..n
    /\ f[0] = <<>>
    /\ \A k \in 1..n : f[k] = IF Selects(r, q[k].id) THEN f[k - 1]
                              ELSE Append(f[k - 1], q[k])

(* The loop that removes requests from the queue computes something.       *)
LEMMA LoopExists ==
  ASSUME NEW q, NEW r, NEW n \in Nat
  PROVE  \E f : LoopUpTo(q, r, n, f)
<1> DEFINE T == {m \in Nat : \E f : LoopUpTo(q, r, m, f)}
<1>1. 0 \in T
  <2> DEFINE f == [m \in 0..0 |-> <<>>]
  <2>1. LoopUpTo(q, r, 0, f)
    BY DEF LoopUpTo
  <2> QED
    BY <2>1
<1>2. ASSUME NEW m \in Nat, m \in T PROVE m + 1 \in T
  <2>1. PICK f : LoopUpTo(q, r, m, f)
    BY ZenonT(60), <1>2
  <2> DEFINE g == [k \in 0..(m + 1) |->
                     IF k <= m THEN f[k]
                     ELSE IF Selects(r, q[m + 1].id) THEN f[m] ELSE Append(f[m], q[m + 1])]
  <2>2. DOMAIN g = 0..(m + 1) /\ g[0] = <<>>
    BY SMTT(90), <2>1 DEF LoopUpTo
  <2>3. ASSUME NEW k \in 1..(m + 1)
        PROVE  g[k] = IF Selects(r, q[k].id) THEN g[k - 1] ELSE Append(g[k - 1], q[k])
    <3>1. CASE k <= m
      <4>1. k \in 1..m /\ g[k] = f[k] /\ g[k - 1] = f[k - 1]
        BY SMTT(90), <3>1
      <4> QED
        BY ZenonT(60), <4>1, <2>1 DEF LoopUpTo
    <3>2. CASE k = m + 1
      <4>1. g[k - 1] = f[m]
        BY SMTT(90), <3>2
      <4> QED
        BY SMTT(90), <3>2, <4>1
    <3> QED
      BY SMTT(90), <3>1, <3>2
  <2> HIDE DEF g
  <2>4. LoopUpTo(q, r, m + 1, g)
    BY ZenonT(60), <2>2, <2>3 DEF LoopUpTo
  <2> QED
    BY <2>4
<1> HIDE DEF T
<1>3. Nat \subseteq T
  BY ZenonT(60), <1>1, <1>2, SetInduction
<1> QED
  BY <1>3 DEF T

(* Kept is what the loop computes at the end of the queue.                 *)
LEMMA KeptIsLoop ==
  ASSUME NEW S, NEW q \in Seq(S), NEW r
  PROVE  \E f : LoopUpTo(q, r, Len(q), f) /\ Kept(q, r) = f[Len(q)]
<1> DEFINE N == Len(q)
           Step(f, n) == IF n = 0 THEN <<>>
                         ELSE IF Selects(r, q[n].id) THEN f[n - 1] ELSE Append(f[n - 1], q[n])
           Loop(f) == f = [n \in 0..N |-> Step(f, n)]
           h == CHOOSE f : Loop(f)
<1>0. N \in Nat
  OBVIOUS
<1>1. PICK g : LoopUpTo(q, r, N, g)
  BY ZenonT(60), <1>0, LoopExists
<1>2. \E f : Loop(f)
  <2> DEFINE f == [n \in 0..N |-> g[n]]
  <2>1. ASSUME NEW n \in 0..N PROVE g[n] = Step(f, n)
    <3>1. CASE n = 0
      BY <1>1, <3>1 DEF LoopUpTo
    <3>2. CASE n # 0
      <4>1. n \in 1..N /\ f[n - 1] = g[n - 1]
        BY <1>0, <3>2
      <4> QED
        BY ZenonT(60), <1>1, <4>1, <3>2 DEF LoopUpTo
    <3> QED
      BY ZenonT(60), <3>1, <3>2
  <2> HIDE DEF Step
  <2>2. Loop(f)
    BY <2>1
  <2> QED
    BY ZenonT(60), <2>2
<1>3. Loop(h)
  BY ZenonT(60), <1>2
<1>4. Kept(q, r) = h[N]
  BY ZenonT(60) DEF Kept
<1> HIDE DEF h
<1>5. /\ DOMAIN h = 0..N
      /\ \A n \in 0..N : h[n] = Step(h, n)
  <2> HIDE DEF Step
  <2> QED
    BY ZenonT(60), <1>3
<1> HIDE DEF N
<1>6. h[0] = <<>>
  BY SMTT(90), <1>0, <1>5
<1>7. ASSUME NEW k \in 1..N
      PROVE  h[k] = IF Selects(r, q[k].id) THEN h[k - 1] ELSE Append(h[k - 1], q[k])
  <2>1. k \in 0..N /\ k # 0
    BY SMTT(90), <1>0
  <2> QED
    BY <1>5, <2>1
<1>8. LoopUpTo(q, r, N, h)
  BY ZenonT(60), <1>5, <1>6, <1>7 DEF LoopUpTo
<1> QED
  BY ZenonT(60), <1>4, <1>8 DEF N

(* Kept returns the elements that are not selected, in their order.        *)
LEMMA KeptFacts ==
  ASSUME NEW S, NEW q \in Seq(S), NEW r
  PROVE  Kept(q, r) \in Seq(S) /\ KeptFrom(q, r, DOMAIN q, Kept(q, r))
<1> DEFINE N == Len(q)
<1>0. N \in Nat /\ \A j \in 1..N : q[j] \in S
  OBVIOUS
<1>1. PICK f : LoopUpTo(q, r, N, f) /\ Kept(q, r) = f[N]
  BY KeptIsLoop
<1> HIDE DEF N
<1> DEFINE Good(n) == f[n] \in Seq(S) /\ KeptFrom(q, r, 1..n, f[n])
           T == {n \in Nat : n <= N => Good(n)}
<1>2. 0 \in T
  <2>1. f[0] = <<>>
    BY ZenonT(60), <1>0, <1>1 DEF LoopUpTo
  <2>2. <<>> \in Seq(S) /\ DOMAIN <<>> = {}
    OBVIOUS
  <2>3. KeptFrom(q, r, 1..0, <<>>)
    BY ZenonT(60), <2>2 DEF KeptFrom
  <2> QED
    BY ZenonT(60), <2>1, <2>2, <2>3
<1>3. ASSUME NEW n \in Nat, n \in T PROVE n + 1 \in T
  <2> SUFFICES ASSUME n + 1 <= N PROVE Good(n + 1)
    OBVIOUS
  <2>1. Good(n)
    BY SMTT(90), <1>0, <1>3
  <2> DEFINE s == f[n]
             e == q[n + 1]
  <2>2. f[n + 1] = IF Selects(r, e.id) THEN s ELSE Append(s, e)
    <3>1. n + 1 \in 1..N /\ (n + 1) - 1 = n
      BY <1>0
    <3> QED
      BY ZenonT(60), <1>1, <3>1 DEF LoopUpTo
  <2>3. e \in S
    BY <1>0
  <2>4. s \in Seq(S) /\ KeptFrom(q, r, 1..n, s)
    BY <2>1
  <2> HIDE DEF s
  <2>5. 1..n \subseteq 1..(n + 1) /\ n + 1 \in 1..(n + 1)
    OBVIOUS
  <2>6. CASE Selects(r, e.id)
    <3>1. KeptFrom(q, r, 1..(n + 1), s)
      BY SMTT(90), <2>4, <2>5 DEF KeptFrom
    <3> QED
      BY ZenonT(60), <2>2, <2>4, <2>6, <3>1
  <2>7. CASE ~Selects(r, e.id)
    <3> DEFINE t == Append(s, e)
    <3>1. /\ t \in Seq(S) /\ DOMAIN t = 1..(Len(s) + 1) /\ Len(s) \in Nat
          /\ DOMAIN s = 1..Len(s)
          /\ t[Len(s) + 1] = e
          /\ \A a \in 1..Len(s) : t[a] = s[a]
      BY SMTT(90), <2>3, <2>4, AppendFacts
    <3> HIDE DEF t, e
    <3>2. \A a \in DOMAIN t : \E j \in 1..(n + 1) : t[a] = q[j] /\ ~Selects(r, q[j].id)
      <4> TAKE a \in DOMAIN t
      <4>1. CASE a = Len(s) + 1
        BY ZenonT(60), <2>5, <2>7, <3>1, <4>1 DEF e
      <4>2. CASE a \in 1..Len(s)
        BY SMTT(90), <2>4, <2>5, <3>1, <4>2 DEF KeptFrom
      <4> QED
        BY SMTT(90), <3>1, <4>1, <4>2
    <3>3. \A a, b \in DOMAIN t : a < b =>
            \E j, k \in 1..(n + 1) : j < k /\ t[a] = q[j] /\ t[b] = q[k]
      <4> TAKE a, b \in DOMAIN t
      <4> HAVE a < b
      <4>0. a \in 1..Len(s)
        BY SMTT(90), <3>1
      <4>1. CASE b = Len(s) + 1
        <5>1. PICK j \in 1..n : t[a] = q[j]
          BY SMTT(90), <2>4, <3>1, <4>0 DEF KeptFrom
        <5>2. j \in 1..(n + 1) /\ j < n + 1 /\ t[b] = q[n + 1]
          BY SMTT(90), <3>1, <4>1 DEF e
        <5> QED
          BY ZenonT(60), <2>5, <5>1, <5>2
      <4>2. CASE b \in 1..Len(s)
        <5>0. a \in DOMAIN s /\ b \in DOMAIN s
          BY ZenonT(60), <3>1, <4>0, <4>2
        <5>1. PICK j, k \in 1..n : j < k /\ s[a] = q[j] /\ s[b] = q[k]
          BY ZenonT(60), <2>4, <5>0 DEF KeptFrom
        <5>2. j \in 1..(n + 1) /\ k \in 1..(n + 1) /\ t[a] = s[a] /\ t[b] = s[b]
          BY ZenonT(60), <2>5, <3>1, <4>0, <4>2
        <5> QED
          BY ZenonT(60), <5>1, <5>2
      <4> QED
        BY SMTT(90), <3>1, <4>1, <4>2
    <3>4. KeptFrom(q, r, 1..(n + 1), t)
      BY ZenonT(60), <3>2, <3>3 DEF KeptFrom
    <3> QED
      BY ZenonT(60), <2>2, <2>7, <3>1, <3>4 DEF t
  <2> QED
    BY ZenonT(60), <2>6, <2>7
<1> HIDE DEF T
<1>4. Nat \subseteq T
  BY ZenonT(60), <1>2, <1>3, SetInduction
<1>5. Good(N)
  BY <1>0, <1>4 DEF T
<1>6. DOMAIN q = 1..N
  BY SMTT(90) DEF N
<1> QED
  BY ZenonT(60), <1>1, <1>5, <1>6

(* Hence a STOP keeps the order of the queue.                              *)
LEMMA QueueKept == FlowTypeOK => KeepsOrder
BY ZenonT(60), KeptFacts DEF FlowTypeOK, KeepsOrder

-----------------------------------------------------------------------------

(* Every step keeps the invariant.                                         *)
LEMMA FlowStep ==
  ASSUME FlowInv, [FlowNext]_flowVars
  PROVE  FlowInv'
BY ZenonT(60), QueueKept, FlowStepOrdered DEF FlowInv

(* Every step keeps the queue in order.                                    *)
LEMMA OrderStep ==
  ASSUME FlowInv, QueueOrdered, [FlowNext]_flowVars
  PROVE  QueueOrdered'
BY ZenonT(60), QueueKept, OrderStepOrdered DEF FlowInv

(* Every behaviour of a channel keeps FlowInv: a request is in one place   *)
(* at a time, is answered at most once (AnswerInv) and its end is reported *)
(* at most once (EndInv), whatever the state machine, the engine and the   *)
(* deactivation do in between.                                             *)
THEOREM FlowSafety == FlowSpec => []FlowInv
<1>1. FlowInv /\ [FlowNext]_flowVars => FlowInv'
  BY FlowStep
<1> QED
  BY <1>1, FlowInitially, PTL DEF FlowSpec

=============================================================================
