------------------------------ MODULE FlowCalls ------------------------------
(***************************************************************************)
(* Proofs about RequestFlow, the state machine: a request that is          *)
(* forwarded to the engine or settled without it keeps FlowInv, and so     *)
(* does taking a response or an event of the engine.                       *)
(***************************************************************************)
EXTENDS FlowEnds

-----------------------------------------------------------------------------
(* What the state machine's steps have in common.                          *)

(* s is taken from the elements J of q, in their order, without the ones   *)
(* r selects.                                                              *)
KeptFrom(q, r, J, s) ==
    /\ \A a \in DOMAIN s : \E j \in J : s[a] = q[j] /\ ~Selects(r, q[j].id)
    /\ \A a, b \in DOMAIN s : a < b => \E j, k \in J : j < k /\ s[a] = q[j] /\ s[b] = q[k]

(* What a request removes from the queue leaves the rest in its order.     *)
(* Shown last, as it takes an induction.                                   *)
KeepsOrder ==
    \A r : /\ Kept(queue, r) \in Seq(StartRequest)
           /\ KeptFrom(queue, r, DOMAIN queue, Kept(queue, r))

(* The queue after a STOP has the requests it does not select, in their    *)
(* order.                                                                  *)
LEMMA KeptQueue ==
  ASSUME KeepsOrder, NEW r, NEW q, q = Kept(queue, r)
  PROVE  /\ q \in Seq(StartRequest) /\ Len(q) \in Nat /\ DOMAIN q = 1..Len(q)
         /\ \A k \in DOMAIN q : \E j \in DOMAIN queue : q[k] = queue[j] /\ ~Selects(r, queue[j].id)
         /\ \A a, b \in DOMAIN q : a < b =>
               \E j, k \in DOMAIN queue : j < k /\ q[a] = queue[j] /\ q[b] = queue[k]
<1>2. q \in Seq(StartRequest) /\ KeptFrom(queue, r, DOMAIN queue, q)
  BY DEF KeepsOrder
<1>3. Len(q) \in Nat /\ DOMAIN q = 1..Len(q)
  BY <1>2
<1> QED
  BY ZenonT(60), <1>2, <1>3 DEF KeptFrom

(* A state machine that sends at most a close to its engine sends no       *)
(* request to it.                                                          *)
LEMMA MayCloseFacts ==
  ASSUME FlowTypeOK, MayClose
  PROVE  /\ engine_in' \in Seq(Request \cup {CLOSE})
         /\ \A k \in DOMAIN engine_in' : engine_in'[k].id # 0 =>
               k \in DOMAIN engine_in /\ engine_in'[k] = engine_in[k]
<1> USE MessageFacts
<1>1. engine_in \in Seq(Request \cup {CLOSE})
  BY DEF FlowTypeOK
<1>2. CASE engine_in' = engine_in
  BY <1>1, <1>2
<1>3. CASE engine_in' = Append(engine_in, CLOSE)
  <2>1. /\ engine_in' \in Seq(Request \cup {CLOSE}) /\ Len(engine_in) \in Nat
        /\ DOMAIN engine_in = 1..Len(engine_in) /\ DOMAIN engine_in' = 1..(Len(engine_in) + 1)
        /\ \A k \in DOMAIN engine_in : engine_in'[k] = engine_in[k]
        /\ engine_in'[Len(engine_in) + 1] = CLOSE
    BY <1>1, <1>3, AppendFacts
  <2> QED
    BY <2>1
<1> QED
  BY <1>2, <1>3 DEF MayClose

(* The messages of the engine that are left are some of those there were.  *)
Fewer == engine_out' = engine_out \/ (engine_out # <<>> /\ engine_out' = Tail(engine_out))

(* The messages of the engine that are left when one has been taken, or    *)
(* none.                                                                   *)
LEMMA FewerFacts ==
  ASSUME FlowTypeOK, Fewer
  PROVE  /\ engine_out' \in Seq(Heard)
         /\ \E d \in {0, 1} : \A k \in DOMAIN engine_out' :
              k \in Nat /\ k # 0 /\ k + d \in DOMAIN engine_out /\ engine_out'[k] = engine_out[k + d]
<1>1. engine_out \in Seq(Heard)
  BY DEF FlowTypeOK
<1>2. CASE engine_out' = engine_out
  BY <1>1, <1>2
<1>3. CASE engine_out # <<>> /\ engine_out' = Tail(engine_out)
  BY SMTT(90), <1>1, <1>3, TailFacts
<1> QED
  BY <1>2, <1>3 DEF Fewer

(* A step that sends the engine at most a close, and takes at most one     *)
(* message of it, keeps what the invariant says of the engine.             *)
LEMMA EngineFrame ==
  ASSUME FlowInv, active, UNCHANGED <<sent, working>>, MayClose, Fewer,
         \A i \in Ids : Undispatched(i)' => Undispatched(i),
         \A i \in Ids : Waits(i)' => Waits(i) \/ Undispatched(i)
  PROVE  /\ EngineInv' /\ WorkInv'
         /\ \A i \in Ids : InEngine(i)' => InEngine(i)
         /\ \A i : Responded(i)' => Responded(i)
<1> USE MessageFacts
<1>1. FlowTypeOK /\ EngineInv /\ WorkInv
  BY DEF FlowInv, PlaceInv
<1>2. \A k \in DOMAIN engine_in' : engine_in'[k].id # 0 =>
         k \in DOMAIN engine_in /\ engine_in'[k] = engine_in[k] /\ engine_in[k].id \in Ids
  <2>1. \A k \in DOMAIN engine_in : engine_in[k] \in Request \cup {CLOSE}
    BY <1>1 DEF FlowTypeOK
  <2> QED
    BY ZenonT(60), <1>1, <2>1, MayCloseFacts
<1>3. PICK d \in {0, 1} : \A k \in DOMAIN engine_out' :
         k \in Nat /\ k # 0 /\ k + d \in DOMAIN engine_out /\ engine_out'[k] = engine_out[k + d]
  BY ZenonT(60), <1>1, FewerFacts
<1>4. \A i \in Ids : InEngine(i)' => InEngine(i)
  BY ZenonT(60), <1>2 DEF InEngine
<1>5. \A i : Responded(i)' => Responded(i)
  BY ZenonT(60), <1>3 DEF Responded
<1>6. \A i : Begun(i)' => Begun(i)
  <2>1. \A i : (\E k \in DOMAIN engine_out' : Completes(engine_out'[k]) /\ engine_out'[k].id = i)
              => \E k \in DOMAIN engine_out : Completes(engine_out[k]) /\ engine_out[k].id = i
    BY <1>3
  <2> QED
    BY ZenonT(60), <2>1 DEF Begun, Completes
<1>7. EngineInv'
  <2>1. \A k \in DOMAIN engine_in' : engine_in'[k].id # 0 =>
          /\ Known(engine_in[k])' /\ ~Undispatched(engine_in[k].id)'
          /\ ~Responded(engine_in[k].id)'
    BY ZenonT(60), <1>1, <1>2, <1>5 DEF EngineInv, Known
  <2>2. \A j, k \in DOMAIN engine_in' :
           j # k /\ engine_in'[j].id # 0 => engine_in'[j].id # engine_in'[k].id
    BY <1>1, <1>2 DEF EngineInv
  <2>3. \A k \in DOMAIN engine_out' : engine_out'[k].type = "response" =>
             /\ engine_out'[k].id \in DOMAIN sent
             /\ engine_out'[k].method = sent[engine_out'[k].id].method
             /\ ~Undispatched(engine_out[k].id)'
    <3>1. DOMAIN sent \subseteq Ids
      BY <1>1, SentFacts
    <3>2. \A k \in DOMAIN engine_out : engine_out[k].type = "response" =>
             /\ engine_out[k].id \in DOMAIN sent
             /\ engine_out[k].method = sent[engine_out[k].id].method
             /\ ~Undispatched(engine_out[k].id)
      BY <1>1 DEF EngineInv
    <3> QED
      BY ZenonT(60), <1>3, <3>1, <3>2
  <2>4. \A j, k \in DOMAIN engine_out' :
         j # k /\ engine_out'[j].type = "response" /\ engine_out'[k].type = "response" =>
             engine_out'[j].id # engine_out'[k].id
    BY <1>1, <1>3 DEF EngineInv
  <2> QED
    BY ZenonT(60), <2>1, <2>2, <2>3, <2>4 DEF EngineInv
<1>8. WorkInv'
  <2>1. \A i \in Ids : Begun(i)' => ~Undispatched(i)' /\ ~InEngine(i)' /\ ~Waits(i)'
    BY ZenonT(60), <1>1, <1>4, <1>6 DEF WorkInv
  <2>2. \A k \in DOMAIN engine_out' : Completes(engine_out'[k]) =>
            /\ engine_out'[k].id \in Ids \ working
            /\ \A j \in DOMAIN engine_out' : j # k /\ Completes(engine_out'[j]) =>
                 engine_out'[j].id # engine_out'[k].id
    BY SMTT(90), <1>1, <1>3 DEF WorkInv
  <2> QED
    BY <2>1, <2>2 DEF WorkInv, Completes
<1> QED
  BY <1>4, <1>5, <1>7, <1>8

(* The client is told that request i is over, and nothing is left of it.   *)
Over(i) ==
    /\ active /\ ended[i] = 0 /\ ended'[i] = 1
    /\ ~Undispatched(i) /\ ~InEngine(i)' /\ ~Responded(i)' /\ ~Waits(i)' /\ i # Serving'.id

(* A step that ends only requests that are over keeps what the invariant   *)
(* says of the ends of requests.                                           *)
LEMMA EndFrame ==
  ASSUME FlowInv, FlowTypeOK', Fewer, active' = active,
         \/ MayClose
         \/ \E p \in StartRequest : ended[p.id] = 0 /\ engine_in' = Append(engine_in, p),
         Serving'.id # 0 => ended[Serving'.id] = 0,
         \A i \in Ids : Waits(i)' => Waits(i) \/ (active /\ Undispatched(i)),
         \A i \in Ids : active /\ Undispatched(i)' => Undispatched(i),
         \A i \in Ids : ended'[i] = ended[i] \/ Over(i)
  PROVE  EndInv'
<1> USE MessageFacts
<1>1. FlowTypeOK /\ EndInv
  BY DEF FlowInv
<1>2. \A k \in DOMAIN engine_in' : engine_in'[k].id # 0 /\ engine_in'[k].method \in Starts =>
         engine_in'[k].id \in Ids /\ ended[engine_in'[k].id] = 0
  <2>1. \A k \in DOMAIN engine_in' : engine_in'[k] \in Request \cup {CLOSE}
    BY SMTT(90) DEF FlowTypeOK
  <2>2. CASE MayClose
    BY ZenonT(60), <1>1, <2>1, <2>2, MayCloseFacts DEF EndInv
  <2>3. ASSUME NEW p \in StartRequest, ended[p.id] = 0, engine_in' = Append(engine_in, p)
        PROVE  \A k \in DOMAIN engine_in' : engine_in'[k].id # 0 /\ engine_in'[k].method \in Starts =>
                  engine_in'[k].id \in Ids /\ ended[engine_in'[k].id] = 0
    <3>1. p \in Request \cup {CLOSE} /\ engine_in \in Seq(Request \cup {CLOSE})
      BY ZenonT(60), <1>1 DEF StartRequest, FlowTypeOK
    <3>2. /\ Len(engine_in) \in Nat
          /\ DOMAIN engine_in = 1..Len(engine_in) /\ DOMAIN engine_in' = 1..(Len(engine_in) + 1)
          /\ \A k \in DOMAIN engine_in : engine_in'[k] = engine_in[k]
          /\ engine_in'[Len(engine_in) + 1] = p
      BY SMTT(90), <2>3, <3>1, AppendFacts
    <3> QED
      BY SMTT(90), <1>1, <2>1, <2>3, <3>2 DEF EndInv
  <2> QED
    BY ZenonT(60), <2>2, <2>3
<1>3. \A k \in DOMAIN engine_out' :
         /\ engine_out'[k].type = "response" /\ engine_out'[k].id # 0
         /\ engine_out'[k].method \in Starts
         => engine_out'[k].id \in Ids /\ ended[engine_out'[k].id] = 0
  <2>1. \A k \in DOMAIN engine_out' : engine_out'[k].id \in Ids \cup {0}
    <3>1. \A h \in Heard : h.id \in Ids \cup {0}
      BY DEF Heard
    <3>2. engine_out' \in Seq(Heard)
      BY ZenonT(60) DEF FlowTypeOK
    <3> QED
      BY <3>1, <3>2
  <2>2. PICK d \in {0, 1} : \A k \in DOMAIN engine_out' :
           k \in Nat /\ k # 0 /\ k + d \in DOMAIN engine_out /\ engine_out'[k] = engine_out[k + d]
    BY ZenonT(60), <1>1, FewerFacts
  <2> QED
    BY SMTT(90), <1>1, <2>1, <2>2 DEF EndInv
<1>4. \A i \in Ids : ended'[i] <= 1
  BY SMTT(90), <1>1 DEF EndInv, Over
<1>5. Serving'.id # 0 => ended'[Serving'.id] = 0
  <2>1. Serving' \in Request \cup {NULL}
    BY DEF FlowTypeOK
  <2> QED
    BY <2>1 DEF Over
<1>6. \A i \in Ids : Waits(i)' \/ (active' /\ Undispatched(i)') => ended'[i] = 0
  BY ZenonT(60), <1>1 DEF EndInv, Over
<1>7. \A k \in DOMAIN engine_in' : engine_in'[k].id # 0 /\ engine_in'[k].method \in Starts =>
         ended'[engine_in'[k].id] = 0
  BY ZenonT(60), <1>2 DEF Over, InEngine
<1>8. \A k \in DOMAIN engine_out' :
         /\ engine_out'[k].type = "response" /\ engine_out'[k].id # 0
         /\ engine_out'[k].method \in Starts
         => ended'[engine_out'[k].id] = 0
  BY ZenonT(60), <1>3 DEF Over, Responded
<1> QED
  BY ZenonT(60), <1>4, <1>5, <1>6, <1>7, <1>8 DEF EndInv

-----------------------------------------------------------------------------
(* The state machine takes a request.                                      *)

(* A request that the state machine takes is the active one of its         *)
(* session, and new to the engine.                                         *)
LEMMA TakingFacts ==
  ASSUME FlowInv, NEW r, r # TERMINATE, Taking(r), NEW rest, rest = Tail(todo)
  PROVE  /\ active /\ r = session_active /\ r \in Request /\ Known(r) /\ Undispatched(r.id)
         /\ Rest(rest)
         /\ \A k \in DOMAIN rest : k + 1 \in DOMAIN todo /\ rest[k] = todo[k + 1]
<1> USE MessageFacts
<1>1. FlowTypeOK /\ SessionInv /\ TodoInv
  BY DEF FlowInv
<1>2. todo # <<>> /\ Head(todo) = DispatchCall(r)
  BY ZenonT(60) DEF Taking
<1>3. /\ Head(todo) = todo[1] /\ 1 \in DOMAIN todo
      /\ DOMAIN todo = 1..Len(todo) /\ Len(todo) \in Nat
      /\ rest \in Seq(Call) /\ Len(rest) = Len(todo) - 1 /\ DOMAIN rest = 1..(Len(todo) - 1)
      /\ \A k \in DOMAIN rest : k + 1 \in DOMAIN todo /\ rest[k] = todo[k + 1]
  BY ZenonT(60), <1>1, <1>2, TailFacts DEF FlowTypeOK
<1>4. todo[1].call = "dispatch" /\ todo[1].req = r
  BY SMTT(90), <1>2, <1>3, CallFacts
<1>5. active /\ r = session_active
  BY ZenonT(60), <1>1, <1>3, <1>4 DEF TodoInv
<1>6. todo[1] \in Call
  BY SMTT(90), <1>1, <1>3 DEF FlowTypeOK
<1>7. r \in Request
  BY ZenonT(60), <1>4, <1>6 DEF Call
<1>8. Known(r)
  BY ZenonT(60), <1>1, <1>5, <1>7 DEF SessionInv
<1>9. Undispatched(r.id)
  BY <1>3, <1>4, <1>5, <1>7 DEF Undispatched
<1>12. \A k \in DOMAIN todo : todo[k] \in Call
  <2>1. todo \in Seq(Call)
    BY <1>1 DEF FlowTypeOK
  <2> QED
    BY SMTT(90), <2>1
<1>10. ASSUME NEW k \in DOMAIN rest PROVE k = 1 /\ Len(rest) = 1 /\ rest[k].call = "pending"
  <2>1. k + 1 \in DOMAIN todo /\ k + 1 # 1 /\ rest[k] = todo[k + 1] /\ todo[k + 1] \in Call
    BY SMTT(90), <1>1, <1>3 DEF FlowTypeOK
  <2>2. todo[k + 1].call = "pending"
    BY ZenonT(60), <1>1, <2>1 DEF TodoInv, Call
  <2>3. k + 1 = Len(todo)
    BY ZenonT(60), <1>1, <2>1, <2>2 DEF TodoInv
  <2>4. Len(rest) = k
    BY SMTT(90), <1>3, <2>3
  <2>5. CASE k # 1
    <3>0. 2 \in DOMAIN todo /\ 2 # Len(todo)
      <4>1. k \in 1..(Len(todo) - 1)
        BY <1>3
      <4>2. Len(todo) >= 3
        BY <1>3, <2>3, <2>5, <4>1
      <4> QED
        BY SMTT(90), <1>3, <4>2
    <3>1. todo[2] \in Call
      BY <1>12, <3>0
    <3>2. todo[2].call # "pending" /\ todo[2].call # "dispatch"
      <4>1. 2 # 1
        OBVIOUS
      <4>2. /\ todo[2].call = "pending" => 2 = Len(todo)
            /\ todo[2].call = "dispatch" => 2 = 1
        BY ZenonT(60), <1>1, <3>0 DEF TodoInv
      <4> QED
        BY <3>0, <4>1, <4>2
    <3> QED
      BY ZenonT(60), <3>1, <3>2 DEF Call
  <2> QED
    BY ZenonT(60), <2>1, <2>2, <2>4, <2>5
<1>11. Rest(rest)
  <2>1. CASE rest = <<>>
    BY <2>1 DEF Rest
  <2>2. CASE rest # <<>>
    <3>1. Len(rest) = 1 /\ 1 \in DOMAIN rest /\ rest[1].call = "pending"
      BY SMTT(90), <1>3, <1>10, <2>2, EmptyFacts
    <3>2. rest[1] \in Call
      BY SMTT(90), <1>3, <3>1
    <3>3. PICK p \in StartRequest : rest[1] = PendingCall(p)
      BY <3>1, <3>2 DEF Call, PendingCall
    <3>4. rest = <<PendingCall(p)>>
      <4>1. PICK t : t = <<PendingCall(p)>>
        BY ZenonT(60)
      <4>2. t \in Seq(Call) /\ Len(t) = 1 /\ t[1] = PendingCall(p)
        BY SMTT(90), <4>1, CallFacts
      <4>3. rest \in Seq(Call) /\ Len(rest) = Len(t) /\ \A k \in 1..Len(rest) : rest[k] = t[k]
        BY <1>3, <3>1, <3>3, <4>2
      <4> QED
        BY ZenonT(60), <4>1, <4>2, <4>3, SameElements
    <3> QED
      BY ZenonT(60), <3>4 DEF Rest
  <2> QED
    BY ZenonT(60), <2>1, <2>2
<1> QED
  BY ZenonT(60), <1>3, <1>5, <1>7, <1>8, <1>9, <1>11

(* Forwarding a request to the engine keeps the invariant.                 *)
LEMMA ForwardStep ==
  ASSUME FlowInv, NEW r, Forward(r)
  PROVE  FlowInv'
<1> USE MessageFacts
<1>0. PICK rest : rest = Tail(todo)
  BY ZenonT(60)
<1>1. FlowTypeOK /\ SessionInv /\ AnswerInv /\ TodoInv /\ PlaceInv /\ EndInv
  BY ZenonT(60) DEF FlowInv
<1>2. /\ Taking(r) /\ r # TERMINATE /\ active_request' = r
      /\ engine_in' = Append(engine_in, r) /\ todo' = rest
      /\ UNCHANGED <<sent, engine_out, is_pending, Serving, working, requestVars, active, queue, ended>>
  BY <1>0 DEF Forward, Taking
<1>3. /\ active /\ r = session_active /\ r \in Request /\ Known(r) /\ Undispatched(r.id)
      /\ Rest(rest)
      /\ \A k \in DOMAIN rest : k + 1 \in DOMAIN todo /\ rest[k] = todo[k + 1]
  BY ZenonT(60), <1>0, <1>2, TakingFacts
<1>4. /\ todo' \in Seq(Call)
      /\ \A k \in DOMAIN todo' : k = Len(todo') /\ todo'[k].call = "pending"
  BY ZenonT(60), <1>2, <1>3, RestFacts
<1>5. /\ engine_in' \in Seq(Request \cup {CLOSE})
      /\ DOMAIN engine_in' = 1..(Len(engine_in) + 1) /\ DOMAIN engine_in = 1..Len(engine_in)
      /\ Len(engine_in) \in Nat
      /\ \A k \in DOMAIN engine_in : k \in DOMAIN engine_in' /\ engine_in'[k] = engine_in[k]
      /\ engine_in'[Len(engine_in) + 1] = r
  BY SMTT(90), <1>1, <1>2, <1>3, AppendFacts DEF FlowTypeOK
<1>6. FlowTypeOK'
  BY ZenonT(60), <1>1, <1>2, <1>3, <1>4, <1>5 DEF FlowTypeOK, requestVars
<1>7. SessionInv' /\ AnswerInv'
  BY ZenonT(60), <1>1, <1>2 DEF SessionInv, AnswerInv, Known, Past, requestVars
<1>8. TodoInv'
  BY ZenonT(60), <1>1, <1>2, <1>3, <1>4 DEF TodoInv, requestVars
<1>9. \A i \in Ids : /\ Past(i)' = Past(i) /\ (Undispatched(i)' => Undispatched(i) /\ i # r.id)
                     /\ Responded(i)' = Responded(i) /\ Begun(i)' = Begun(i)
  <2>1. r.id \in Nat /\ r.id <= Len(sent) /\ Len(sent) \in Nat
    BY SMTT(90), <1>1, <1>3, SentFacts DEF Known
  <2>2. \A i \in Ids : Undispatched(i)' => i > Len(sent) \/ i > r.id
    BY ZenonT(60), <1>2, <1>3, <1>4 DEF Undispatched, requestVars
  <2>3. \A i \in Ids : i > Len(sent) \/ i > r.id => Undispatched(i) /\ i # r.id
    BY SMTT(90), <1>3, <2>1 DEF Undispatched
  <2> QED
    BY ZenonT(60), <1>2, <2>2, <2>3 DEF Past, Responded, Begun, requestVars
<1>10. \A i : Waits(i)' => Waits(i)
  BY ZenonT(60), <1>2, <1>3 DEF Waits
<1>11. \A i : InEngine(i)' => InEngine(i) \/ i = r.id
  BY SMTT(90), <1>5 DEF InEngine
<1>12. PlaceInv'
  <2>1. EngineInv /\ QueueInv /\ CurrentInv /\ ActiveInv /\ WorkInv
    BY ZenonT(60), <1>1, <1>3 DEF PlaceInv
  <2>2. ~InEngine(r.id) /\ ~Responded(r.id) /\ r.id \in Ids /\ ~Past(r.id)
    BY SMTT(90), <1>3, <2>1 DEF EngineInv, InEngine, Responded, Past
  <2>3. EngineInv'
    <3>1. \A k \in DOMAIN engine_in : engine_in[k].id # 0 => engine_in[k].id \in Ids
      BY SMTT(90), <1>1 DEF FlowTypeOK
    <3>2. \A k \in DOMAIN engine_in' : engine_in'[k].id # 0 =>
            /\ Known(engine_in[k])' /\ ~Undispatched(engine_in[k].id)'
            /\ ~Responded(engine_in[k].id)'
      BY SMTT(90), <1>2, <1>3, <1>5, <1>9, <2>1, <2>2, <3>1 DEF EngineInv, Known
    <3>3. \A j, k \in DOMAIN engine_in' :
             j # k /\ engine_in'[j].id # 0 => engine_in'[j].id # engine_in'[k].id
      BY SMTT(90), <1>3, <1>5, <2>1, <2>2 DEF EngineInv, InEngine
    <3>4. DOMAIN sent \subseteq Ids
      BY <1>1, SentFacts
    <3> QED
      BY ZenonT(60), <1>2, <1>9, <2>1, <3>2, <3>3, <3>4 DEF EngineInv
  <2>4. QueueInv'
    <3>1. \A k \in DOMAIN todo' : todo'[k].call = "pending" =>
            Known(todo[k].req)' /\ \A j \in DOMAIN queue : todo'[k].req.id < queue[j].id
      BY SMTT(90), <1>2, <1>3, <2>1 DEF QueueInv, Known
    <3>2. \A i \in Ids : Waits(i)' => Past(i)' /\ ~InEngine(i)' /\ ~Responded(i)'
      BY ZenonT(60), <1>9, <1>10, <1>11, <2>1, <2>2 DEF QueueInv
    <3> QED
      BY ZenonT(60), <1>2, <2>1, <3>1, <3>2 DEF QueueInv, Known
  <2>5. CurrentInv'
    <3>1. Serving.id # 0 => Serving.id \in Ids
      BY <1>1 DEF FlowTypeOK
    <3> QED
      BY ZenonT(60), <1>2, <1>3, <1>9, <1>10, <1>11, <2>1, <3>1 DEF CurrentInv, Known
  <2>6. ActiveInv'
    BY ZenonT(60), <1>2, <1>3 DEF ActiveInv, Known, requestVars
  <2>7. WorkInv'
    BY ZenonT(60), <1>2, <1>3, <1>9, <1>10, <1>11, <2>1 DEF WorkInv
  <2> QED
    BY <2>3, <2>4, <2>5, <2>6, <2>7 DEF PlaceInv
<1>13. EndInv'
  <2>1. ended[r.id] = 0
    BY ZenonT(60), <1>1, <1>3 DEF EndInv
  <2>2. \A k \in DOMAIN engine_in' : engine_in'[k].id # 0 /\ engine_in'[k].method \in Starts =>
           ended[engine_in'[k].id] = 0
    <3>1. \A k \in DOMAIN engine_in' :
            engine_in'[k] = r \/ (k \in DOMAIN engine_in /\ engine_in'[k] = engine_in[k])
      BY <1>5
    <3> QED
      BY ZenonT(60), <1>1, <2>1, <3>1 DEF EndInv
  <2> QED
    BY ZenonT(60), <1>1, <1>2, <1>9, <1>10, <2>2 DEF EndInv
<1> QED
  BY ZenonT(60), <1>6, <1>7, <1>8, <1>12, <1>13 DEF FlowInv

(* Answering a request without the engine (a request the state does not    *)
(* allow, one that is queued, a STOP that only empties the queue) keeps    *)
(* the invariant.                                                          *)
LEMMA SettleStep ==
  ASSUME FlowInv, KeepsOrder, NEW r, Settle(r)
  PROVE  FlowInv'
<1> USE MessageFacts
<1>0. PICK rest : rest = Tail(todo)
  BY ZenonT(60)
<1>1. FlowTypeOK /\ SessionInv /\ AnswerInv /\ TodoInv /\ PlaceInv /\ EndInv
  BY ZenonT(60) DEF FlowInv
<1>2. /\ Taking(r) /\ r # TERMINATE /\ active_request' = NULL
      /\ Reply(r.id, rest) /\ MayClose
      /\ UNCHANGED <<sent, engine_out, is_pending, Serving, working, active>>
      /\ \/ UNCHANGED <<queue, ended>>
         \/ r.method \in Starts /\ queue' = Append(queue, r) /\ UNCHANGED ended
         \/ queue' = Kept(queue, r) /\ Ending(Removed(r))
  BY <1>0 DEF Settle, Taking
<1>3. /\ active /\ r = session_active /\ r \in Request /\ Known(r) /\ Undispatched(r.id)
      /\ Rest(rest)
      /\ \A k \in DOMAIN rest : k + 1 \in DOMAIN todo /\ rest[k] = todo[k + 1]
  BY ZenonT(60), <1>0, <1>2, TakingFacts
<1>4. EngineInv /\ QueueInv /\ CurrentInv /\ ActiveInv /\ WorkInv
  BY ZenonT(60), <1>1, <1>3 DEF PlaceInv
<1>5. /\ SessionInv' /\ AnswerInv' /\ TodoInv'
      /\ answered' \in [Ids -> Nat]
      /\ session_active' \in Request \cup {NULL, TERMINATE}
      /\ request_queue' \in Seq(Request \cup {TERMINATE})
      /\ todo' \in Seq(Call)
      /\ \A i \in Ids : Past(i) \/ i = r.id => Past(i)'
      /\ \A i \in Ids : Undispatched(i)' => Undispatched(i)
      /\ \A k \in DOMAIN todo' : todo'[k].call = "pending" => 1 \in DOMAIN rest /\ todo'[k] = rest[1]
  <2>1. DispatchResponse(r.id, rest)
    BY ZenonT(60), <1>2, <1>3 DEF Reply
  <2>2. PICK id : id = r.id
    OBVIOUS
  <2>3. id = session_active.id /\ id # 0 /\ DispatchResponse(id, rest) /\ active /\ UNCHANGED <<sent, active>>
    BY ZenonT(60), <1>2, <1>3, <2>1, <2>2
  <2> QED
    BY ZenonT(60), <1>3, <2>2, <2>3, ReplyActive
<1>6. /\ r.id \in Ids /\ r.id \in Nat /\ ~Past(r.id) /\ ~InEngine(r.id) /\ ~Responded(r.id)
      /\ \A i \in Ids : Past(i) => i < r.id
  BY SMTT(90), <1>3, <1>4 DEF EngineInv, InEngine, Responded, Past
<1>7. /\ \A k \in DOMAIN queue : Known(queue[k]) /\ queue[k].id \in Ids /\ Waits(queue[k].id)
      /\ \A j, k \in DOMAIN queue : j < k => queue[j].id < queue[k].id
      /\ \A i \in Ids : Waits(i) => Past(i) /\ ~InEngine(i) /\ ~Responded(i)
  <2>1. \A k \in DOMAIN queue : queue[k] \in Request
    BY SMTT(90), <1>1 DEF FlowTypeOK, StartRequest
  <2> QED
    BY ZenonT(60), <1>4, <2>1 DEF QueueInv, Waits
<1>8. /\ queue' \in Seq(StartRequest)
      /\ \A k \in DOMAIN queue' : queue'[k] = r \/ \E j \in DOMAIN queue : queue'[k] = queue[j]
      /\ \A j, k \in DOMAIN queue' : j < k => queue'[j].id < queue'[k].id
      /\ ended' \in [Ids -> Nat]
      /\ \A i \in Ids : ended'[i] = ended[i] \/
            /\ i \in Removed(r) /\ ended'[i] = ended[i] + 1
            /\ \A k \in DOMAIN queue' : queue'[k].id # i
  <2>0. queue \in Seq(StartRequest) /\ ended \in [Ids -> Nat]
    BY <1>1 DEF FlowTypeOK
  <2>1. CASE UNCHANGED <<queue, ended>>
    <3>1. queue' = queue /\ ended' = ended
      BY <2>1
    <3>2. \A k \in DOMAIN queue' : \E j \in DOMAIN queue : queue'[k] = queue[j]
      BY <3>1
    <3>3. \A i \in Ids : ended'[i] = ended[i]
      BY ZenonT(60), <3>1
    <3> QED
      BY ZenonT(60), <1>7, <2>0, <3>1, <3>2, <3>3
  <2>2. CASE r.method \in Starts /\ queue' = Append(queue, r) /\ UNCHANGED ended
    <3>1. r \in StartRequest
      BY ZenonT(60), <1>3, <2>2 DEF StartRequest
    <3>2. /\ queue' \in Seq(StartRequest) /\ Len(queue) \in Nat
          /\ DOMAIN queue = 1..Len(queue) /\ DOMAIN queue' = 1..(Len(queue) + 1)
          /\ \A k \in DOMAIN queue : queue'[k] = queue[k]
          /\ queue'[Len(queue) + 1] = r
      BY <2>0, <2>2, <3>1, AppendFacts
    <3>3. \A k \in DOMAIN queue : queue[k].id < r.id
      BY ZenonT(60), <1>6, <1>7
    <3>4. \A k \in DOMAIN queue' : queue'[k] = r \/ \E j \in DOMAIN queue : queue'[k] = queue[j]
      BY SMTT(90), <3>2
    <3>5. \A j, k \in DOMAIN queue' : j < k => queue'[j].id < queue'[k].id
      BY <1>7, <3>2, <3>3
    <3>6. ended' \in [Ids -> Nat] /\ \A i \in Ids : ended'[i] = ended[i]
      BY <2>0, <2>2
    <3> QED
      BY <3>2, <3>4, <3>5, <3>6
  <2>3. CASE queue' = Kept(queue, r) /\ Ending(Removed(r))
    <3>1. /\ queue' \in Seq(StartRequest)
          /\ \A k \in DOMAIN queue' : \E j \in DOMAIN queue : queue'[k] = queue[j] /\ ~Selects(r, queue[j].id)
          /\ \A a, b \in DOMAIN queue' : a < b =>
               \E j, k \in DOMAIN queue : j < k /\ queue'[a] = queue[j] /\ queue'[b] = queue[k]
      BY SMTT(90), <1>1, <2>3, KeptQueue
    <3>2. \A j, k \in DOMAIN queue' : j < k => queue'[j].id < queue'[k].id
      BY ZenonT(60), <1>7, <3>1
    <3>3. /\ ended' \in [Ids -> Nat]
          /\ \A i \in Ids : ended'[i] = ended[i] \/ (i \in Removed(r) /\ ended'[i] = ended[i] + 1)
      <4>1. ended' = [i \in Ids |-> IF i \in Removed(r) THEN ended[i] + 1 ELSE ended[i]]
        BY ZenonT(60), <1>3, <2>3 DEF Ending
      <4> QED
        BY <2>0, <4>1
    <3>4. \A i \in Removed(r) : Selects(r, i)
      BY DEF Removed
    <3>5. \A i \in Removed(r), k \in DOMAIN queue' : queue'[k].id # i
      BY ZenonT(60), <3>1, <3>4
    <3> QED
      BY ZenonT(60), <3>1, <3>2, <3>3, <3>5
  <2> QED
    BY ZenonT(60), <1>2, <2>1, <2>2, <2>3
<1>9. \A k \in DOMAIN todo' : todo'[k].call = "pending" =>
        /\ todo'[k].req \in Request /\ Known(todo'[k].req) /\ Waits(todo'[k].req.id)
        /\ \A j \in DOMAIN queue : todo'[k].req.id < queue[j].id
  <2>1. \A k \in DOMAIN todo' : todo'[k] \in Call
    BY SMTT(90), <1>5
  <2>2. \A c \in Call : c.call = "pending" => c.req \in Request
    BY DEF Call, StartRequest
  <2> QED
    BY ZenonT(60), <1>3, <1>4, <1>5, <2>1, <2>2 DEF QueueInv, Waits
<1>10. \A i \in Ids : Waits(i)' => Waits(i) \/ i = r.id
  <2>1. \A i, k : k \in DOMAIN queue' /\ queue'[k].id = i => Waits(i) \/ i = r.id
    BY SMTT(90), <1>7, <1>8
  <2> QED
    BY SMTT(90), <1>9, <2>1 DEF Waits
<1>11. FlowTypeOK'
  BY ZenonT(60), <1>1, <1>2, <1>5, <1>8, MayCloseFacts DEF FlowTypeOK
<1>12. Fewer
  BY <1>2 DEF Fewer
<1>13. /\ EngineInv' /\ WorkInv'
       /\ \A i \in Ids : InEngine(i)' => InEngine(i)
       /\ \A i : Responded(i)' => Responded(i)
  BY ZenonT(60), <1>2, <1>3, <1>5, <1>10, <1>12, EngineFrame
<1>14. QueueInv'
  <2>1. \A k \in DOMAIN queue' : Known(queue[k])'
    BY SMTT(90), <1>2, <1>3, <1>7, <1>8 DEF Known
  <2>2. \A k \in DOMAIN todo' : todo'[k].call = "pending" =>
           Known(todo[k].req)' /\ \A j \in DOMAIN queue' : todo'[k].req.id < queue'[j].id
    BY ZenonT(60), <1>2, <1>6, <1>7, <1>8, <1>9 DEF Known
  <2>3. \A i \in Ids : Waits(i)' => Past(i)' /\ ~InEngine(i)' /\ ~Responded(i)'
    BY ZenonT(60), <1>5, <1>6, <1>7, <1>10, <1>13
  <2> QED
    BY ZenonT(60), <1>8, <2>1, <2>2, <2>3 DEF QueueInv
<1>15. CurrentInv'
  <2>1. Serving.id # 0 => Serving.id \in Ids
    BY ZenonT(60), <1>1 DEF FlowTypeOK
  <2> QED
    BY ZenonT(60), <1>2, <1>3, <1>4, <1>5, <1>10, <1>13, <2>1 DEF CurrentInv, Known
<1>16. ActiveInv'
  BY ZenonT(60), <1>2 DEF ActiveInv
<1>17. \A i \in Ids : ended'[i] = ended[i] \/ Over(i)
  <2> SUFFICES ASSUME NEW i \in Ids, ended'[i] # ended[i] PROVE Over(i)
    BY ZenonT(60)
  <2>1. /\ i \in Removed(r) /\ ended'[i] = ended[i] + 1
        /\ \A k \in DOMAIN queue' : queue'[k].id # i
    BY <1>8
  <2>2. Waits(i) /\ \E j \in DOMAIN queue : queue[j].id = i
    BY ZenonT(60), <2>1 DEF Removed, Waits
  <2>3. ended[i] = 0
    BY ZenonT(60), <1>1, <2>2 DEF EndInv
  <2>4. ~Undispatched(i) /\ ~InEngine(i)' /\ ~Responded(i)'
    BY ZenonT(60), <1>1, <1>7, <1>13, <2>2, PastDispatched
  <2>5. ~Waits(i)'
    <3>1. \A k \in DOMAIN todo' : todo'[k].call = "pending" => todo'[k].req.id # i
      BY <1>9, <2>2
    <3> QED
      BY ZenonT(60), <2>1, <3>1 DEF Waits
  <2>6. i # Serving'.id
    BY ZenonT(60), <1>2, <1>4, <2>2 DEF CurrentInv
  <2> QED
    BY SMTT(90), <1>3, <2>1, <2>3, <2>4, <2>5, <2>6 DEF Over
<1>18. EndInv'
  <2>1. Serving'.id # 0 => ended[Serving'.id] = 0
    BY ZenonT(60), <1>1, <1>2 DEF EndInv
  <2> QED
    BY ZenonT(60), <1>2, <1>3, <1>5, <1>10, <1>11, <1>12, <1>17, <2>1, EndFrame
<1> QED
  BY ZenonT(60), <1>5, <1>11, <1>13, <1>14, <1>15, <1>16, <1>18 DEF FlowInv, PlaceInv

-----------------------------------------------------------------------------
(* The state machine takes a message of the engine.                        *)

(* The message the state machine takes is the oldest of the engine; a      *)
(* response is to a request the engine has taken.                          *)
LEMMA HearingFacts ==
  ASSUME FlowInv, NEW m, Hearing(m)
  PROVE  /\ todo = <<>> /\ m \in Heard /\ 1 \in DOMAIN engine_out /\ m = engine_out[1] /\ Fewer
         /\ m.id \in Ids \cup {0}
         /\ m.type = "response" => Responded(m.id)
         /\ active /\ m.type = "response" =>
              ~Responded(m.id)' /\ ~InEngine(m.id) /\ ~Undispatched(m.id) /\ m.id \in Ids
<1> USE MessageFacts
<1>1. FlowTypeOK /\ PlaceInv
  BY DEF FlowInv
<1>2. /\ todo = <<>> /\ engine_out # <<>> /\ m = Head(engine_out) /\ engine_out' = Tail(engine_out)
  BY DEF Hearing
<1>3. /\ 1 \in DOMAIN engine_out /\ m = engine_out[1] /\ m \in Heard
      /\ DOMAIN engine_out' = 1..(Len(engine_out) - 1) /\ Len(engine_out) \in Nat
      /\ \A k \in DOMAIN engine_out' : k + 1 \in DOMAIN engine_out /\ engine_out'[k] = engine_out[k + 1]
  BY <1>1, <1>2, TailFacts DEF FlowTypeOK
<1>4. m.type = "response" => Responded(m.id)
  BY <1>3 DEF Responded
<1>5. Fewer
  BY <1>2 DEF Fewer
<1>6. m.id \in Ids \cup {0}
  BY <1>3 DEF Heard
<1>7. ASSUME active, m.type = "response"
      PROVE  ~Responded(m.id)' /\ ~InEngine(m.id) /\ ~Undispatched(m.id) /\ m.id \in Ids
  <2>1. EngineInv
    BY <1>1, <1>7 DEF PlaceInv
  <2>2. m.id \in DOMAIN sent /\ ~Undispatched(m.id)
    BY ZenonT(60), <1>3, <1>7, <2>1 DEF EngineInv
  <2>3. m.id \in Ids
    BY <1>1, <2>2, SentFacts
  <2>4. ~InEngine(m.id)
    BY ZenonT(60), <1>4, <1>7, <2>1, <2>3 DEF EngineInv, InEngine
  <2>5. ASSUME NEW k \in DOMAIN engine_out', engine_out'[k].type = "response" PROVE engine_out'[k].id # m.id
    <3>1. k + 1 # 1 /\ k + 1 \in DOMAIN engine_out /\ engine_out'[k] = engine_out[k + 1]
      BY <1>3
    <3> QED
      BY ZenonT(60), <1>3, <1>7, <2>1, <2>5, <3>1 DEF EngineInv
  <2> QED
    BY <2>2, <2>3, <2>4, <2>5 DEF Responded
<1> QED
  BY <1>2, <1>3, <1>4, <1>5, <1>6, <1>7

(* m is the response to a request that may be in progress.                 *)
Begins(m) == m.type = "response" /\ m.method \in Starts /\ m.id # 0

(* What has to be shown of a step that takes a message of the engine.      *)
LEMMA MessageStep ==
  ASSUME FlowInv, FlowTypeOK', NEW m, Hearing(m), MayClose,
         SessionInv', AnswerInv', TodoInv', active => ActiveInv',
         \A i \in Ids : active /\ Past(i) => Past(i)',
         \A i \in Ids : active /\ Undispatched(i)' => Undispatched(i),
         \A i \in Ids : Waits(i)' => Waits(i),
         active => \A k \in DOMAIN queue' : \E j \in DOMAIN queue : queue'[k] = queue[j],
         active => \A j, k \in DOMAIN queue' : j < k => queue'[j].id < queue'[k].id,
         active => \A k \in DOMAIN todo' : todo'[k].call = "pending" =>
                      Known(todo'[k].req) /\ \A j \in DOMAIN queue' : todo'[k].req.id < queue'[j].id,
         \/ Serving' \in {Serving, NULL}
         \/ Serving' = active_request /\ active_request.id = m.id /\ Begins(m),
         \A i \in Ids : \/ ended'[i] = ended[i]
                        \/ /\ active /\ ended'[i] = ended[i] + 1 /\ ~Waits(i)' /\ i # Serving'.id
                           /\ Waits(i) \/ i = Serving.id \/ (i = m.id /\ Begins(m))
  PROVE  FlowInv'
<1> USE MessageFacts
<1>1. FlowTypeOK /\ PlaceInv /\ EndInv
  BY ZenonT(60) DEF FlowInv
<1>2. UNCHANGED <<sent, active, working>>
  BY ZenonT(60) DEF Hearing
<1>3. /\ m \in Heard /\ 1 \in DOMAIN engine_out /\ m = engine_out[1] /\ Fewer
      /\ m.type = "response" => Responded(m.id)
      /\ active /\ m.type = "response" =>
           ~Responded(m.id)' /\ ~InEngine(m.id) /\ ~Undispatched(m.id) /\ m.id \in Ids
  BY ZenonT(60), HearingFacts
<1>4. Serving.id # 0 => Serving.id \in Ids
  BY ZenonT(60), <1>1 DEF FlowTypeOK
<1>5. Begins(m) => m.id \in Ids /\ ended[m.id] = 0
  BY ZenonT(60), <1>1, <1>3, HearingFacts DEF EndInv, Begins
<1>6. ASSUME active PROVE PlaceInv' /\ \A i \in Ids : ended'[i] = ended[i] \/ Over(i)
  <2>1. EngineInv /\ QueueInv /\ CurrentInv /\ ActiveInv /\ WorkInv
    BY ZenonT(60), <1>1, <1>6 DEF PlaceInv
  <2>2. /\ EngineInv' /\ WorkInv'
        /\ \A i \in Ids : InEngine(i)' => InEngine(i)
        /\ \A i : Responded(i)' => Responded(i)
    BY ZenonT(60), <1>2, <1>3, <1>6, EngineFrame
  <2>3. \A i \in Ids : Waits(i) => Past(i) /\ ~InEngine(i) /\ ~Responded(i) /\ ~Undispatched(i)
    BY ZenonT(60), <1>1, <2>1, PastDispatched DEF QueueInv
  <2>4. QueueInv'
    <3>1. \A k \in DOMAIN queue' : Known(queue[k])'
      BY SMTT(90), <1>2, <1>6, <2>1 DEF QueueInv, Known
    <3>2. \A k \in DOMAIN todo' : todo'[k].call = "pending" =>
            Known(todo[k].req)' /\ \A j \in DOMAIN queue' : todo'[k].req.id < queue'[j].id
      BY ZenonT(60), <1>2, <1>6 DEF Known
    <3>3. \A i \in Ids : Waits(i)' => Past(i)' /\ ~InEngine(i)' /\ ~Responded(i)'
      BY ZenonT(60), <1>6, <2>2, <2>3
    <3> QED
      BY ZenonT(60), <1>6, <3>1, <3>2, <3>3 DEF QueueInv
  <2>5. CurrentInv'
    <3>1. CASE Serving' = Serving
      BY ZenonT(60), <1>2, <1>4, <1>6, <2>1, <2>2, <3>1 DEF CurrentInv, Known
    <3>2. CASE Serving' = NULL
      BY ZenonT(60), <3>2 DEF CurrentInv
    <3>3. CASE Serving' = active_request /\ active_request.id = m.id /\ Begins(m)
      <4>1. Known(active_request) /\ m.id \in Ids /\ ~Waits(m.id)
        BY ZenonT(60), <1>3, <1>5, <2>1, <2>3, <3>3 DEF ActiveInv, Begins
      <4>2. ~Undispatched(m.id)' /\ ~InEngine(m.id)' /\ ~Responded(m.id)' /\ ~Waits(m.id)'
        BY ZenonT(60), <1>3, <1>6, <2>2, <3>3, <4>1 DEF Begins
      <4> QED
        BY ZenonT(60), <1>2, <3>3, <4>1, <4>2 DEF CurrentInv, Known
    <3> QED
      BY <3>1, <3>2, <3>3
  <2>6. ASSUME NEW i \in Ids, ended'[i] # ended[i] PROVE Over(i)
    <3>1. /\ ended'[i] = ended[i] + 1 /\ ~Waits(i)' /\ i # Serving'.id
          /\ Waits(i) \/ i = Serving.id \/ (i = m.id /\ Begins(m))
      BY ZenonT(60), <2>6
    <3>2. CASE Waits(i)
      <4>1. ended[i] = 0
        BY ZenonT(60), <1>1, <3>2 DEF EndInv
      <4> QED
        BY SMTT(90), <1>6, <2>2, <2>3, <3>1, <3>2, <4>1 DEF Over
    <3>3. CASE i = Serving.id
      <4>1. ended[i] = 0 /\ i # 0
        BY ZenonT(60), <1>1, <3>3 DEF EndInv
      <4>2. ~Undispatched(i) /\ ~InEngine(i) /\ ~Responded(i)
        BY ZenonT(60), <2>1, <3>3, <4>1 DEF CurrentInv
      <4> QED
        BY SMTT(90), <1>6, <2>2, <3>1, <4>1, <4>2 DEF Over
    <3>4. CASE i = m.id /\ Begins(m)
      <4>1. ended[i] = 0
        BY ZenonT(60), <1>5, <3>4
      <4>2. ~Undispatched(i) /\ ~InEngine(i) /\ ~Responded(i)'
        BY ZenonT(60), <1>3, <1>6, <3>4 DEF Begins
      <4> QED
        BY SMTT(90), <1>6, <2>2, <3>1, <4>1, <4>2 DEF Over
    <3> QED
      BY ZenonT(60), <3>1, <3>2, <3>3, <3>4
  <2> QED
    BY ZenonT(60), <1>6, <2>2, <2>4, <2>5, <2>6 DEF PlaceInv
<1>7. \A i \in Ids : ended'[i] = ended[i] \/ Over(i)
  BY ZenonT(60), <1>6
<1>8. Serving'.id # 0 => ended[Serving'.id] = 0
  BY ZenonT(60), <1>1, <1>5 DEF EndInv
<1>9. EndInv'
  BY ZenonT(60), <1>2, <1>3, <1>7, <1>8, EndFrame
<1> QED
  BY ZenonT(60), <1>2, <1>6, <1>9 DEF FlowInv, PlaceInv

(* A response to the client of an active or a deactivated channel.         *)
LEMMA ReplyEffect ==
  ASSUME FlowInv, UNCHANGED <<sent, active>>, NEW rest, Rest(rest),
         NEW id, active => id = session_active.id /\ id # 0, Reply(id, rest)
  PROVE  /\ SessionInv' /\ AnswerInv' /\ TodoInv'
         /\ answered' \in [Ids -> Nat]
         /\ session_active' \in Request \cup {NULL, TERMINATE}
         /\ request_queue' \in Seq(Request \cup {TERMINATE})
         /\ todo' \in Seq(Call)
         /\ \A i \in Ids : active /\ Past(i) => Past(i)'
         /\ \A i \in Ids : active /\ Undispatched(i)' => Undispatched(i)
         /\ \A k \in DOMAIN todo' : todo'[k].call = "pending" => 1 \in DOMAIN rest /\ todo'[k] = rest[1]
<1>1. CASE active
  <2>1. DispatchResponse(id, rest)
    BY <1>1 DEF Reply
  <2> QED
    BY ZenonT(60), <1>1, <2>1, ReplyActive
<1>2. CASE ~active
  <2>1. FlowTypeOK /\ SessionInv /\ AnswerInv /\ TodoInv
    BY DEF FlowInv
  <2>2. todo' = rest /\ UNCHANGED requestVars
    BY <1>2 DEF Reply
  <2>3. /\ rest \in Seq(Call)
        /\ \A k \in DOMAIN rest : k = Len(rest) /\ k = 1 /\ rest[k].call = "pending"
    BY RestFacts
  <2>4. SessionInv' /\ AnswerInv'
    BY ZenonT(60), <2>1, <2>2 DEF SessionInv, AnswerInv, Known, Past, requestVars
  <2>5. TodoInv'
    BY ZenonT(60), <1>2, <2>1, <2>2, <2>3 DEF TodoInv, requestVars
  <2> QED
    BY ZenonT(60), <1>2, <2>1, <2>2, <2>3, <2>4, <2>5 DEF FlowTypeOK, requestVars
<1> QED
  BY ZenonT(60), <1>1, <1>2

(* A response that is not dropped is to the active request of the state    *)
(* machine.                                                                *)
LEMMA ResponseFacts ==
  ASSUME FlowInv, NEW m, HearingResponse(m)
  PROVE  /\ active_request \in Request /\ m.id = active_request.id /\ m.id \in Ids /\ m.id # 0
         /\ m.method \notin Starts \/ ~is_pending => (active => m.id = session_active.id)
<1> USE MessageFacts
<1>1. FlowTypeOK /\ PlaceInv
  BY DEF FlowInv
<1>2. Hearing(m) /\ m.type = "response" /\ active_request # NULL /\ active_request.id = m.id
  BY DEF HearingResponse
<1>3. active_request \in Request
  BY <1>1, <1>2 DEF FlowTypeOK
<1>4. ASSUME active, m.method \notin Starts \/ ~is_pending PROVE m.id = session_active.id
  <2>1. EngineInv /\ ActiveInv
    BY <1>1, <1>4 DEF PlaceInv
  <2>2. Responded(m.id) /\ 1 \in DOMAIN engine_out /\ m = engine_out[1]
    BY ZenonT(60), <1>2, HearingFacts
  <2>3. m.method = sent[m.id].method /\ Known(active_request)
    BY ZenonT(60), <1>2, <1>3, <2>1, <2>2 DEF EngineInv, ActiveInv
  <2>4. m.method = active_request.method
    BY <1>2, <2>3 DEF Known
  <2> QED
    BY ZenonT(60), <1>2, <1>3, <1>4, <2>1, <2>2, <2>4 DEF ActiveInv
<1> QED
  BY <1>2, <1>3, <1>4

(* Dropping a response or an event keeps the invariant.                    *)
LEMMA DroppedStep ==
  ASSUME FlowInv, NEW m, Dropped(m)
  PROVE  FlowInv'
<1>1. FlowTypeOK /\ SessionInv /\ AnswerInv /\ TodoInv /\ PlaceInv
  BY DEF FlowInv
<1>2. /\ Hearing(m) /\ MayClose
      /\ UNCHANGED <<sent, active, working, requestVars, todo, is_pending, active_request, Serving, queue, ended>>
  BY DEF Dropped, Hearing
<1>3. todo = <<>> /\ Fewer
  BY ZenonT(60), <1>2, HearingFacts
<1>4. FlowTypeOK'
  BY ZenonT(60), <1>1, <1>2, <1>3, MayCloseFacts, FewerFacts DEF FlowTypeOK, requestVars
<1>5. SessionInv' /\ AnswerInv' /\ TodoInv'
  BY ZenonT(60), <1>1, <1>2 DEF SessionInv, AnswerInv, TodoInv, Known, Past, requestVars
<1>6. \A i \in Ids : Past(i)' = Past(i) /\ Undispatched(i)' = Undispatched(i) /\ Waits(i)' = Waits(i)
  BY ZenonT(60), <1>2 DEF Past, Undispatched, Waits, requestVars
<1>7. ASSUME active PROVE ActiveInv' /\ \A j, k \in DOMAIN queue' : j < k => queue'[j].id < queue'[k].id
  <2>1. QueueInv /\ ActiveInv
    BY <1>1, <1>7 DEF PlaceInv
  <2>2. /\ \A i \in Ids : InEngine(i)' => InEngine(i)
        /\ \A i : Responded(i)' => Responded(i)
    BY SMTT(90), <1>2, <1>3, <1>6, <1>7, EngineFrame
  <2>3. active_request.id # 0 => active_request.id \in Ids
    BY <1>1, MessageFacts DEF FlowTypeOK
  <2>4. ActiveInv'
    BY ZenonT(60), <1>2, <2>1, <2>2, <2>3 DEF ActiveInv, Known, requestVars
  <2> QED
    BY <1>2, <2>1, <2>4 DEF QueueInv
<1>8. DOMAIN todo' = {} /\ queue' = queue /\ ended' = ended /\ Serving' = Serving
  BY <1>2, <1>3
<1>9. \A k \in DOMAIN queue' : \E j \in DOMAIN queue : queue'[k] = queue[j]
  BY <1>8
<1> QED
  BY ZenonT(60), <1>2, <1>4, <1>5, <1>6, <1>7, <1>8, <1>9, MessageStep

(* Passing on a message that changes no state keeps the invariant.         *)
LEMMA PassedStep ==
  ASSUME FlowInv, NEW m, Passed(m)
  PROVE  FlowInv'
<1>1. FlowTypeOK /\ SessionInv /\ AnswerInv /\ TodoInv /\ PlaceInv
  BY DEF FlowInv
<1>2. /\ HearingResponse(m) /\ Hearing(m) /\ MayClose /\ m.method \notin Starts
      /\ active_request' = NULL /\ Reply(m.id, <<>>) /\ Serving' \in {Serving, NULL}
      /\ UNCHANGED <<sent, active, working, is_pending, queue, ended>>
  BY ZenonT(60) DEF Passed, HearingResponse, Hearing
<1>3. todo = <<>> /\ Fewer
  BY ZenonT(60), <1>2, HearingFacts
<1>4. m.id \in Ids /\ m.id # 0 /\ (active => m.id = session_active.id)
  BY <1>2, ResponseFacts
<1>5. PICK rest, id : rest = <<>> /\ id = m.id
  OBVIOUS
<1>6. Rest(rest) /\ DOMAIN rest = {}
  BY <1>5 DEF Rest
<1>7. /\ SessionInv' /\ AnswerInv' /\ TodoInv'
      /\ answered' \in [Ids -> Nat]
      /\ session_active' \in Request \cup {NULL, TERMINATE}
      /\ request_queue' \in Seq(Request \cup {TERMINATE})
      /\ todo' \in Seq(Call)
      /\ \A i \in Ids : active /\ Past(i) => Past(i)'
      /\ \A i \in Ids : active /\ Undispatched(i)' => Undispatched(i)
      /\ \A k \in DOMAIN todo' : todo'[k].call = "pending" => 1 \in DOMAIN rest /\ todo'[k] = rest[1]
  BY ZenonT(60), <1>2, <1>4, <1>5, <1>6, ReplyEffect
<1>8. FlowTypeOK'
  BY ZenonT(60), <1>1, <1>2, <1>3, <1>7, MayCloseFacts, FewerFacts, MessageFacts DEF FlowTypeOK
<1>9. \A k \in DOMAIN todo' : todo'[k].call # "pending"
  BY ZenonT(60), <1>6, <1>7
<1>10. \A i \in Ids : Waits(i)' => Waits(i)
  BY <1>2, <1>9 DEF Waits
<1>11. ActiveInv'
  BY <1>2, MessageFacts DEF ActiveInv
<1>12. ASSUME active PROVE \A j, k \in DOMAIN queue' : j < k => queue'[j].id < queue'[k].id
  BY ZenonT(60), <1>1, <1>2, <1>12 DEF PlaceInv, QueueInv
<1>13. queue' = queue /\ ended' = ended
  BY <1>2
<1>14. \A k \in DOMAIN queue' : \E j \in DOMAIN queue : queue'[k] = queue[j]
  BY <1>13
<1> QED
  BY ZenonT(60), <1>2, <1>7, <1>8, <1>9, <1>10, <1>11, <1>12, <1>13, <1>14, MessageStep

(* The response that begins a SPEAK, RECOGNIZE, RECORD or VERIFY keeps the *)
(* invariant.                                                              *)
LEMMA StartedStep ==
  ASSUME FlowInv, NEW m, Started(m)
  PROVE  FlowInv'
<1>1. FlowTypeOK /\ SessionInv /\ AnswerInv /\ TodoInv /\ PlaceInv
  BY DEF FlowInv
<1>2. /\ HearingResponse(m) /\ Hearing(m) /\ m.type = "response" /\ m.method \in Starts
      /\ Serving' \in {active_request, Serving}
      /\ UNCHANGED <<sent, active, working, queue>>
  BY ZenonT(60) DEF Started, HearingResponse, Hearing
<1>3. todo = <<>> /\ Fewer /\ Responded(m.id)
  BY ZenonT(60), <1>2, HearingFacts
<1>4. /\ active_request \in Request /\ m.id = active_request.id /\ m.id \in Ids /\ m.id # 0
      /\ ~is_pending => (active => m.id = session_active.id)
  BY ZenonT(60), <1>2, ResponseFacts
<1>5. /\ Serving' \in {Serving, NULL} \/ (Serving' = active_request /\ active_request.id = m.id /\ Begins(m))
      /\ Begins(m) /\ Serving' \in Request \cup {NULL}
  BY ZenonT(60), <1>1, <1>2, <1>4 DEF Begins, FlowTypeOK
<1>6. /\ \A k \in DOMAIN queue' : \E j \in DOMAIN queue : queue'[k] = queue[j]
      /\ queue' = queue
  BY <1>2
<1>7. ASSUME active PROVE \A j, k \in DOMAIN queue' : j < k => queue'[j].id < queue'[k].id
  BY ZenonT(60), <1>1, <1>2, <1>7 DEF PlaceInv, QueueInv
<1>8. CASE is_pending
  <2>1. /\ is_pending' = FALSE
        /\ UNCHANGED <<requestVars, todo, engine_in, active_request, ended>>
    BY <1>8 DEF Started
  <2>2. MayClose
    BY <2>1 DEF MayClose
  <2>3. FlowTypeOK'
    BY ZenonT(60), <1>1, <1>2, <1>3, <1>5, <2>1, FewerFacts DEF FlowTypeOK, requestVars
  <2>4. SessionInv' /\ AnswerInv' /\ TodoInv'
    BY ZenonT(60), <1>1, <1>2, <2>1 DEF SessionInv, AnswerInv, TodoInv, Known, Past, requestVars
  <2>5. \A i \in Ids : Past(i)' = Past(i) /\ Undispatched(i)' = Undispatched(i) /\ Waits(i)' = Waits(i)
    BY ZenonT(60), <1>2, <2>1 DEF Past, Undispatched, Waits, requestVars
  <2>6. ASSUME active PROVE ActiveInv'
    <3>1. ~Responded(m.id)' /\ ~InEngine(m.id)
      BY ZenonT(60), <1>2, <2>6, HearingFacts
    <3>2. ~InEngine(m.id)'
      BY <2>1, <3>1 DEF InEngine
    <3>3. Known(active_request)
      BY <1>1, <1>4, <2>6 DEF PlaceInv, ActiveInv
    <3> QED
      BY ZenonT(60), <1>2, <1>4, <2>1, <3>1, <3>2, <3>3 DEF ActiveInv, Known
  <2>7. DOMAIN todo' = {} /\ ended' = ended
    BY <1>3, <2>1
  <2> QED
    BY ZenonT(60), <1>2, <1>5, <1>6, <1>7, <2>2, <2>3, <2>4, <2>5, <2>6, <2>7, MessageStep
<1>9. CASE ~is_pending
  <2>1. /\ active_request' = NULL /\ Reply(m.id, <<>>) /\ MayClose
        /\ UNCHANGED ended \/ (UNCHANGED Serving /\ Ending({m.id}))
        /\ UNCHANGED is_pending
    BY <1>9 DEF Started
  <2>2. PICK rest, id : rest = <<>> /\ id = m.id
    OBVIOUS
  <2>3. Rest(rest) /\ DOMAIN rest = {}
    BY <2>2 DEF Rest
  <2>4. /\ SessionInv' /\ AnswerInv' /\ TodoInv'
        /\ answered' \in [Ids -> Nat]
        /\ session_active' \in Request \cup {NULL, TERMINATE}
        /\ request_queue' \in Seq(Request \cup {TERMINATE})
        /\ todo' \in Seq(Call)
        /\ \A i \in Ids : active /\ Past(i) => Past(i)'
        /\ \A i \in Ids : active /\ Undispatched(i)' => Undispatched(i)
        /\ \A k \in DOMAIN todo' : todo'[k].call = "pending" => 1 \in DOMAIN rest /\ todo'[k] = rest[1]
    BY ZenonT(60), <1>2, <1>4, <1>9, <2>1, <2>2, <2>3, ReplyEffect
  <2>5. \A k \in DOMAIN todo' : todo'[k].call # "pending"
    BY ZenonT(60), <2>3, <2>4
  <2>6. \A i \in Ids : Waits(i)' => Waits(i)
    BY ZenonT(60), <1>2, <2>5 DEF Waits
  <2>7. ActiveInv'
    BY <2>1, MessageFacts DEF ActiveInv
  <2>8. /\ ended' \in [Ids -> Nat]
        /\ \A i \in Ids : \/ ended'[i] = ended[i]
                          \/ active /\ i = m.id /\ ended'[i] = ended[i] + 1 /\ Serving' = Serving
    <3>1. ended \in [Ids -> Nat] /\ active \in BOOLEAN
      BY <1>1 DEF FlowTypeOK
    <3>2. CASE UNCHANGED ended
      BY <3>1, <3>2
    <3>3. CASE UNCHANGED Serving /\ Ending({m.id})
      <4>1. ended' = [i \in Ids |-> IF active /\ i \in {m.id} THEN ended[i] + 1 ELSE ended[i]]
        BY <3>3 DEF Ending
      <4> QED
        BY <3>1, <3>3, <4>1
    <3> QED
      BY <2>1, <3>2, <3>3
  <2>9. \A i \in Ids : \/ ended'[i] = ended[i]
                       \/ /\ active /\ ended'[i] = ended[i] + 1 /\ ~Waits(i)' /\ i # Serving'.id
                          /\ i = m.id /\ Begins(m)
    <3>1. active => ~Waits(m.id) /\ m.id # Serving.id
      BY ZenonT(60), <1>1, <1>3, <1>4 DEF PlaceInv, QueueInv, CurrentInv
    <3> QED
      BY <1>4, <1>5, <2>6, <2>8, <3>1
  <2>10. FlowTypeOK'
    BY ZenonT(60), <1>1, <1>2, <1>3, <1>5, <2>1, <2>4, <2>8, MayCloseFacts, FewerFacts DEF FlowTypeOK
  <2> QED
    BY ZenonT(60), <1>2, <1>5, <1>6, <1>7, <2>1, <2>4, <2>5, <2>6, <2>7, <2>9, <2>10, MessageStep
<1> QED
  BY <1>8, <1>9

(* The response to a STOP, which ends the request in progress and those of *)
(* the queue it selects, keeps the invariant.                              *)
LEMMA StoppedStep ==
  ASSUME FlowInv, KeepsOrder, NEW m, Stopped(m)
  PROVE  FlowInv'
<1> USE MessageFacts
<1>1. FlowTypeOK /\ SessionInv /\ AnswerInv /\ TodoInv /\ PlaceInv
  BY DEF FlowInv
<1>2. PICK a, kept : a = active_request /\ kept = Kept(queue, a)
  OBVIOUS
<1>3. /\ HearingResponse(m) /\ Hearing(m) /\ MayClose /\ m.method \notin Starts
      /\ active => Serving # NULL
      /\ Ending({Serving.id} \cup Removed(active_request))
      /\ Serving' = NULL /\ active_request' = NULL
      /\ UNCHANGED <<sent, active, working, is_pending>>
  BY DEF Stopped, HearingResponse, Hearing
<1>4. todo = <<>> /\ Fewer
  BY ZenonT(60), <1>3, HearingFacts
<1>5. m.id \in Ids /\ m.id # 0 /\ (active => m.id = session_active.id)
  BY ZenonT(60), <1>3, ResponseFacts
<1>6. /\ kept \in Seq(StartRequest) /\ Len(kept) \in Nat /\ DOMAIN kept = 1..Len(kept)
      /\ \A k \in DOMAIN kept : \E j \in DOMAIN queue : kept[k] = queue[j] /\ ~Selects(a, queue[j].id)
      /\ \A b, c \in DOMAIN kept : b < c =>
           \E j, k \in DOMAIN queue : j < k /\ kept[b] = queue[j] /\ kept[c] = queue[k]
  BY SMTT(90), <1>1, <1>2, KeptQueue
<1>7. PICK rest : /\ Reply(m.id, rest)
                  /\ \/ rest = <<>> /\ queue' = kept
                     \/ kept # <<>> /\ rest = <<PendingCall(Head(kept))>> /\ queue' = Tail(kept)
  <2>1. \/ queue' = kept /\ Reply(m.id, <<>>)
        \/ /\ kept # <<>>
           /\ queue' = Tail(kept)
           /\ Reply(m.id, <<PendingCall(Head(kept))>>)
    BY <1>2 DEF Stopped
  <2>2. PICK r1, r2 : r1 = <<>> /\ r2 = <<PendingCall(Head(kept))>>
    BY ZenonT(60)
  <2>3. CASE queue' = kept /\ Reply(m.id, <<>>)
    BY <2>2, <2>3
  <2>4. CASE kept # <<>> /\ queue' = Tail(kept) /\ Reply(m.id, <<PendingCall(Head(kept))>>)
    BY ZenonT(60), <2>2, <2>4
  <2> QED
    BY ZenonT(60), <2>1, <2>3, <2>4
<1>8. /\ Rest(rest) /\ queue' \in Seq(StartRequest)
      /\ \E d \in {0, 1} : \A k \in DOMAIN queue' :
            k \in Nat /\ k # 0 /\ k + d \in DOMAIN kept /\ queue'[k] = kept[k + d]
            /\ (1 \in DOMAIN rest => d = 1)
      /\ 1 \in DOMAIN rest => 1 \in DOMAIN kept /\ rest[1] = PendingCall(kept[1])
  <2>1. CASE rest = <<>> /\ queue' = kept
    <3>1. Rest(rest) /\ ~(1 \in DOMAIN rest)
      BY <2>1 DEF Rest
    <3>2. \A k \in DOMAIN queue' :
            k \in Nat /\ k # 0 /\ k + 0 \in DOMAIN kept /\ queue'[k] = kept[k + 0]
      BY SMTT(90), <1>6, <2>1
    <3> QED
      BY ZenonT(60), <1>6, <2>1, <3>1, <3>2
  <2>2. CASE kept # <<>> /\ rest = <<PendingCall(Head(kept))>> /\ queue' = Tail(kept)
    <3>1. /\ Head(kept) \in StartRequest /\ Head(kept) = kept[1] /\ 1 \in DOMAIN kept
          /\ queue' \in Seq(StartRequest)
          /\ DOMAIN queue' = 1..(Len(kept) - 1)
          /\ \A k \in DOMAIN queue' : k + 1 \in DOMAIN kept /\ queue'[k] = kept[k + 1]
      BY SMTT(90), <1>6, <2>2, TailFacts
    <3>2. Rest(rest) /\ rest[1] = PendingCall(kept[1])
      BY ZenonT(60), <2>2, <3>1 DEF Rest
    <3>3. \A k \in DOMAIN queue' :
            k \in Nat /\ k # 0 /\ k + 1 \in DOMAIN kept /\ queue'[k] = kept[k + 1]
      BY SMTT(90), <1>6, <3>1
    <3> QED
      BY ZenonT(60), <3>1, <3>2, <3>3
  <2> QED
    BY <1>7, <2>1, <2>2
<1>9. PICK d \in {0, 1} : \A k \in DOMAIN queue' :
            k \in Nat /\ k # 0 /\ k + d \in DOMAIN kept /\ queue'[k] = kept[k + d]
            /\ (1 \in DOMAIN rest => d = 1)
  BY ZenonT(60), <1>8
<1>10. PICK id : id = m.id
  BY SMTT(90)
<1>11. /\ SessionInv' /\ AnswerInv' /\ TodoInv'
       /\ answered' \in [Ids -> Nat]
       /\ session_active' \in Request \cup {NULL, TERMINATE}
       /\ request_queue' \in Seq(Request \cup {TERMINATE})
       /\ todo' \in Seq(Call)
       /\ \A i \in Ids : active /\ Past(i) => Past(i)'
       /\ \A i \in Ids : active /\ Undispatched(i)' => Undispatched(i)
       /\ \A k \in DOMAIN todo' : todo'[k].call = "pending" => 1 \in DOMAIN rest /\ todo'[k] = rest[1]
  BY ZenonT(60), <1>3, <1>5, <1>7, <1>8, <1>10, ReplyEffect
<1>12. \A k \in DOMAIN todo' : todo'[k].call = "pending" => 1 \in DOMAIN rest /\ 1 \in DOMAIN kept /\ todo'[k].req = kept[1]
  <2>1. PICK x : x = kept[1]
    OBVIOUS
  <2>2. PendingCall(x).req = x
    BY ZenonT(60), CallFacts
  <2> QED
    BY ZenonT(60), <1>8, <1>11, <2>1, <2>2
<1>13. \A k \in DOMAIN queue' : \E j \in DOMAIN queue : queue'[k] = queue[j] /\ ~Selects(a, queue[j].id)
  BY SMTT(90), <1>6, <1>9
<1>14. \A i \in Ids : Waits(i)' => \E j \in DOMAIN queue : queue[j].id = i /\ ~Selects(a, i)
  BY SMTT(90), <1>6, <1>12, <1>13 DEF Waits
<1>15. \A i \in Ids : Waits(i)' => Waits(i)
  BY ZenonT(60), <1>14 DEF Waits
<1>16. ASSUME active
       PROVE  /\ \A j, k \in DOMAIN queue' : j < k => queue'[j].id < queue'[k].id
              /\ \A k \in DOMAIN todo' : todo'[k].call = "pending" =>
                    Known(todo'[k].req) /\ \A j \in DOMAIN queue' : todo'[k].req.id < queue'[j].id
  <2>1. /\ \A k \in DOMAIN queue : Known(queue[k])
        /\ \A j, k \in DOMAIN queue : j < k => queue[j].id < queue[k].id
    BY ZenonT(60), <1>1, <1>16 DEF PlaceInv, QueueInv
  <2>2. /\ \A k \in DOMAIN kept : Known(kept[k])
        /\ \A j, k \in DOMAIN kept : j < k => kept[j].id < kept[k].id
    BY ZenonT(60), <1>6, <2>1
  <2>3. \A j, k \in DOMAIN queue' : j < k => queue'[j].id < queue'[k].id
    BY SMTT(90), <1>9, <2>2
  <2> QED
    BY <1>9, <1>12, <2>2, <2>3
<1>17. ActiveInv'
  BY <1>3 DEF ActiveInv
<1>18. ended' \in [Ids -> Nat] /\ \A i \in Ids :
         \/ ended'[i] = ended[i]
         \/ active /\ ended'[i] = ended[i] + 1 /\ (i = Serving.id \/ i \in Removed(a))
  <2>1. ended' = [i \in Ids |-> IF active /\ i \in {Serving.id} \cup Removed(a) THEN ended[i] + 1 ELSE ended[i]]
    BY ZenonT(60), <1>2, <1>3 DEF Ending
  <2>2. ended \in [Ids -> Nat]
    BY ZenonT(60), <1>1 DEF FlowTypeOK
  <2> QED
    BY <2>1, <2>2
<1>19. \A i \in Ids :
         \/ ended'[i] = ended[i]
         \/ /\ active /\ ended'[i] = ended[i] + 1 /\ ~Waits(i)' /\ i # Serving'.id
            /\ Waits(i) \/ i = Serving.id \/ (i = m.id /\ Begins(m))
  <2> SUFFICES ASSUME NEW i \in Ids, ended'[i] # ended[i]
               PROVE  ~Waits(i)' /\ i # Serving'.id /\ (Waits(i) \/ i = Serving.id)
    BY ZenonT(60), <1>18
  <2>1. active /\ i # 0
    BY <1>18
  <2>2. CASE i = Serving.id
    <3>1. ~Waits(i)
      BY ZenonT(60), <1>1, <2>1, <2>2 DEF PlaceInv, CurrentInv
    <3> QED
      BY ZenonT(60), <1>3, <1>15, <2>1, <2>2, <3>1
  <2>3. CASE i \in Removed(a)
    <3>1. Waits(i) /\ Selects(a, i)
      BY <2>3 DEF Removed, Waits
    <3> QED
      BY ZenonT(60), <1>3, <1>14, <2>1, <3>1
  <2> QED
    BY ZenonT(60), <1>18, <2>2, <2>3
<1>20. FlowTypeOK'
  BY ZenonT(60), <1>1, <1>3, <1>4, <1>8, <1>11, <1>18, MayCloseFacts, FewerFacts DEF FlowTypeOK
<1>21. \A k \in DOMAIN queue' : \E j \in DOMAIN queue : queue'[k] = queue[j]
  BY ZenonT(60), <1>13
<1> HIDE MessageFacts
<1> QED
  BY ZenonT(60), <1>15, <1>17, <1>19, <1>20, <1>21, <1>3, <1>11, <1>16, MessageStep

=============================================================================
