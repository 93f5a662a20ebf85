----------------------------- MODULE AnswerProofs -----------------------------
(***************************************************************************)
(* Proofs about ControlConnection, the answers to requests: for any number *)
(* of channels, connections and requests, a request is answered to the     *)
(* session of the client at most once.                                     *)
(***************************************************************************)
EXTENDS ControlConnection, TLAPS

-----------------------------------------------------------------------------
(* The answers to requests.                                                *)

Actives == [Channels -> [request : Ids \cup {0}, timer : BOOLEAN]]

AnswerTypes ==
    /\ requests \in Seq(Channels) /\ Len(requests) <= MaxRequests
    /\ answered \in [Ids -> Nat] /\ active \in Actives
    /\ up \in [Conns -> Seq(Ids)] /\ down \in [Conns -> Seq(Ids)]
    /\ rx \in [Conns -> Seq(Ids)] /\ work \in [Channels -> Seq(Ids)]

(* The active request of a channel is one of its own that nobody has       *)
(* answered; whoever answers it makes it inactive.                         *)
Outstanding(sent, act, ans) ==
    /\ \A i \in Ids : ans[i] <= 1 /\ (i > Len(sent) => ans[i] = 0)
    /\ \A ch \in Channels : act[ch].request # 0 =>
         /\ act[ch].request \in DOMAIN sent /\ sent[act[ch].request] = ch
         /\ ans[act[ch].request] = 0

Cleared(act, a, act2) == act2 = [act EXCEPT ![a] = NoRequest]

Counted(ans, i, ans2) == ans2 = [ans EXCEPT ![i] = @ + 1]

AnswerInv == AnswerTypes /\ Outstanding(requests, active, answered)

(* One answer.                                                             *)
LEMMA AnswerOne ==
    ASSUME NEW sent \in Seq(Channels), NEW act \in Actives, NEW ans \in [Ids -> Nat],
           Outstanding(sent, act, ans),
           NEW a \in Channels, NEW i, i = act[a].request, i # 0,
           NEW act2, Cleared(act, a, act2), NEW ans2, Counted(ans, i, ans2)
    PROVE  act2 \in Actives /\ ans2 \in [Ids -> Nat] /\ Outstanding(sent, act2, ans2)
<1>1. i \in Ids /\ i \in DOMAIN sent /\ sent[i] = a /\ ans[i] = 0
  BY DEF Actives, Outstanding
<1>2. act2 \in Actives
  BY DEF Actives, NoRequest, Cleared
<1>3. ans2 \in [Ids -> Nat] /\ ans2[i] = 1 /\ \A j \in Ids : j # i => ans2[j] = ans[j]
  BY <1>1 DEF Counted
<1>4. act2[a].request = 0 /\ \A ch \in Channels : ch # a => act2[ch] = act[ch]
  BY DEF Actives, NoRequest, Cleared
<1>5. ASSUME NEW j \in Ids PROVE ans2[j] <= 1 /\ (j > Len(sent) => ans2[j] = 0)
  BY <1>1, <1>3 DEF Outstanding
<1>6. ASSUME NEW ch \in Channels, act2[ch].request # 0
      PROVE  /\ act2[ch].request \in DOMAIN sent /\ sent[act2[ch].request] = ch
             /\ ans2[act2[ch].request] = 0
  <2>1. ch # a /\ act2[ch] = act[ch]
    BY <1>4, <1>6
  <2>2. /\ act[ch].request \in DOMAIN sent /\ sent[act[ch].request] = ch
        /\ ans[act[ch].request] = 0
    BY <1>6, <2>1 DEF Outstanding
  <2>3. act[ch].request # i /\ act[ch].request \in Ids
    BY <1>1, <1>6, <2>1, <2>2 DEF Actives
  <2> QED
    BY <1>3, <2>1, <2>2, <2>3
<1> QED
  BY <1>2, <1>3, <1>5, <1>6 DEF Outstanding

(* What mrcp_client_message_handler keeps.                                 *)
Handling(acc) ==
    /\ acc \in [active : Actives, answered : [Ids -> Nat], channels : SUBSET Channels,
               read : Seq(Ids), stopped : BOOLEAN]
    /\ Outstanding(requests, acc.active, acc.answered)

(* Every branch of mrcp_client_message_handler keeps the outstanding       *)
(* requests unanswered, and answers a request only when it is the active   *)
(* one.                                                                    *)
LEMMA HandlerKeeps ==
    ASSUME requests \in Seq(Channels), NEW acc, Handling(acc), NEW id \in Ids
    PROVE  Handling(mrcp_client_message_handler(acc, id))
<1> DEFINE Acc(act, ans, cs, rd, st) ==
             [active |-> act, answered |-> ans, channels |-> cs, read |-> rd, stopped |-> st]
<1>1. PICK act, ans, cs, rd, st : acc = Acc(act, ans, cs, rd, st)
  BY DEF Handling
<1>2. /\ act \in Actives /\ ans \in [Ids -> Nat] /\ cs \in SUBSET Channels
      /\ rd \in Seq(Ids) /\ st \in BOOLEAN
      /\ Outstanding(requests, act, ans)
  BY <1>1 DEF Handling
<1>3. ASSUME NEW act2 \in Actives, NEW ans2 \in [Ids -> Nat], NEW rd2 \in Seq(Ids),
             NEW st2 \in BOOLEAN, Outstanding(requests, act2, ans2)
      PROVE  Handling(Acc(act2, ans2, cs, rd2, st2))
  BY <1>2, <1>3 DEF Handling
<1>4. PICK ch, rd2, act2, ans2 : /\ ch = requests[id] /\ rd2 = Append(rd, id)
                                 /\ Cleared(act, ch, act2) /\ Counted(ans, id, ans2)
  BY ZenonT(60) DEF Cleared, Counted
<1>5. rd2 \in Seq(Ids)
  BY <1>2, <1>4
<1>6. mrcp_client_message_handler(acc, id) =
        IF st THEN acc
        ELSE IF ch \notin cs THEN Acc(act, ans, cs, rd2, st)
        ELSE IF act[ch].request # id THEN Acc(act, ans, cs, rd2, TRUE)
        ELSE Acc(act2, ans2, cs, rd2, st)
  <2>1. PICK a : a = [acc EXCEPT !.read = Append(@, id)]
    BY ZenonT(60)
  <2>2. a = Acc(act, ans, cs, rd2, st)
    BY ZenonT(60), <1>1, <1>4, <2>1
  <2>3. [a EXCEPT !.stopped = TRUE] = Acc(act, ans, cs, rd2, TRUE)
    <3>1. PICK x : x = TRUE
      BY Zenon
    <3>2. [a EXCEPT !.stopped = x] = Acc(act, ans, cs, rd2, x)
      BY <2>2
    <3> QED
      BY <3>1, <3>2
  <2>4. [a EXCEPT !.answered[id] = @ + 1, !.active[ch] = NoRequest] = Acc(act2, ans2, cs, rd2, st)
    <3>1. PICK b : b = [a EXCEPT !.answered = ans2]
      BY Zenon
    <3>2. b = Acc(act, ans2, cs, rd2, st)
      BY <2>2, <3>1
    <3>3. [b EXCEPT !.active = act2] = Acc(act2, ans2, cs, rd2, st)
      BY <3>2
    <3>4. b.active = act /\ a.answered = ans
      BY <2>2, <3>2
    <3> HIDE DEF Acc
    <3>5. [a EXCEPT !.answered[id] = @ + 1] = b
      BY Zenon, <1>4, <3>1, <3>4 DEF Counted
    <3>6. [b EXCEPT !.active[ch] = NoRequest] = [b EXCEPT !.active = act2]
      BY Zenon, <1>4, <3>4 DEF Cleared
    <3>7. [a EXCEPT !.answered[id] = @ + 1, !.active[ch] = NoRequest] = [b EXCEPT !.active[ch] = NoRequest]
      BY Zenon, <3>5
    <3> QED
      BY Zenon, <3>3, <3>6, <3>7
  <2>5. acc.stopped = st /\ acc.channels = cs /\ acc.active = act
    BY <1>1
  <2> HIDE DEF Acc
  <2> QED
    BY Zenon, <1>4, <2>1, <2>2, <2>3, <2>4, <2>5 DEF mrcp_client_message_handler
<1>7. Handling(Acc(act, ans, cs, rd2, st)) /\ Handling(Acc(act, ans, cs, rd2, TRUE))
  BY ZenonT(60), <1>2, <1>3, <1>5
<1>8. ASSUME ch \in cs, act[ch].request = id
      PROVE  Handling(Acc(act2, ans2, cs, rd2, st))
  <2>1. ch \in Channels /\ id = act[ch].request /\ id # 0
    BY <1>2, <1>8 DEF Ids
  <2>2. act2 \in Actives /\ ans2 \in [Ids -> Nat] /\ Outstanding(requests, act2, ans2)
    BY ZenonT(60), <1>2, <1>4, <2>1, AnswerOne
  <2> QED
    BY ZenonT(60), <1>2, <1>3, <1>5, <2>2
<1> HIDE DEF Acc
<1> QED
  BY ZenonT(60), <1>6, <1>7, <1>8

-----------------------------------------------------------------------------
(* The loop of mrcp_client_poller_signal_process.  The induction over the  *)
(* messages goes through the least element of a set of numbers.            *)

LOCAL WellFounded == INSTANCE WellFoundedInduction

(* Every non-empty set of naturals has a least element.                    *)
LEMMA LeastNatural ==
  ASSUME NEW T, T \subseteq Nat, T # {}
  PROVE  \E x \in T : \A y \in T : x <= y
<1> DEFINE R == {ss \in Nat \X Nat : ss[1] < ss[2]}
<1>1. WellFounded!OpToRel(<, Nat) = R
  BY ZenonT(60) DEF WellFounded!OpToRel
<1>2. WellFounded!IsWellFoundedOn(R, Nat)
  BY ZenonT(60), <1>1, WellFounded!NatLessThanWellFounded
<1> HIDE DEF R
<1>3. \E x \in T : \A y \in T : ~ (<<y, x>> \in R)
  BY ZenonT(60), <1>2, WellFounded!WFMin
<1>4. PICK x \in T : \A y \in T : ~ (<<y, x>> \in R)
  BY <1>3
<1>5. ASSUME NEW y \in T PROVE x <= y
  <2>1. ~ (<<y, x>> \in R)
    BY <1>4
  <2>2. <<y, x>> \in Nat \X Nat
    OBVIOUS
  <2>3. ~ (y < x)
    BY <2>1, <2>2 DEF R
  <2> QED
    BY <2>3
<1> QED
  BY <1>5

(* Induction over the naturals, with a set for the predicate.              *)
LEMMA SetInduction ==
  ASSUME NEW T, 0 \in T, \A n \in Nat : n \in T => n + 1 \in T
  PROVE  Nat \subseteq T
<1> DEFINE U == Nat \ T
<1>1. CASE U # {}
  <2>1. PICK x \in U : \A y \in U : x <= y
    BY ZenonT(60), <1>1, LeastNatural
  <2>2. x # 0 /\ x - 1 \in Nat
    OBVIOUS
  <2>3. x - 1 \in T
    BY <2>1, <2>2
  <2> QED
    BY <2>2, <2>3
<1> QED
  BY SMTT(90), <1>1

LoopUpTo(acc, stream, n, f) ==
    f = [i \in 0..n |-> IF i = 0 THEN acc
                        ELSE mrcp_client_message_handler(f[i - 1], stream[i])]

(* The loop computes something.                                            *)
LEMMA LoopExists ==
    ASSUME NEW acc, NEW stream, NEW n \in Nat
    PROVE  \E f : LoopUpTo(acc, stream, n, f)
<1> DEFINE T == {m \in Nat : \E f : LoopUpTo(acc, stream, m, f)}
<1>1. 0 \in T
  <2>1. PICK f : f = [i \in 0..0 |-> acc]
    BY ZenonT(60)
  <2>2. LoopUpTo(acc, stream, 0, f)
    BY <2>1 DEF LoopUpTo
  <2> QED
    BY <2>2
<1>2. ASSUME NEW m \in Nat, m \in T PROVE m + 1 \in T
  <2>1. PICK f : LoopUpTo(acc, stream, m, f)
    BY <1>2
  <2>2. PICK g : g = [i \in 0..(m + 1) |-> IF i <= m THEN f[i]
                        ELSE mrcp_client_message_handler(f[m], stream[m + 1])]
    BY ZenonT(60)
  <2>3. ASSUME NEW i \in 0..(m + 1)
        PROVE  g[i] = IF i = 0 THEN acc ELSE mrcp_client_message_handler(g[i - 1], stream[i])
    <3>1. CASE i <= m
      <4>1. i \in 0..m /\ g[i] = f[i] /\ (i # 0 => g[i - 1] = f[i - 1])
        BY <2>2, <3>1
      <4>2. f[i] = IF i = 0 THEN acc ELSE mrcp_client_message_handler(f[i - 1], stream[i])
        BY <2>1, <4>1 DEF LoopUpTo
      <4> QED
        BY <4>1, <4>2
    <3>2. CASE i = m + 1
      <4>1. g[i - 1] = f[m] /\ i # 0 /\ ~(i <= m)
        BY <2>2, <3>2
      <4>2. g[i] = mrcp_client_message_handler(f[m], stream[m + 1])
        BY <2>2, <3>2, <4>1
      <4> QED
        BY <3>2, <4>1, <4>2
    <3> QED
      BY <3>1, <3>2
  <2>4. LoopUpTo(acc, stream, m + 1, g)
    BY <2>2, <2>3 DEF LoopUpTo
  <2> QED
    BY <2>4
<1> HIDE DEF T
<1>3. Nat \subseteq T
  BY <1>1, <1>2, SetInduction
<1> QED
  BY <1>3 DEF T

(* The loop keeps it too, whatever number of messages the buffer holds.    *)
LEMMA HandledKeeps ==
    ASSUME requests \in Seq(Channels), NEW acc, Handling(acc), NEW stream \in Seq(Ids)
    PROVE  Handling(Handled(acc, stream))
<1>1. PICK n \in Nat : n = Len(stream)
  OBVIOUS
<1>2. PICK after : LoopUpTo(acc, stream, n, after) /\ Handled(acc, stream) = after[n]
  <2>1. \E f : LoopUpTo(acc, stream, n, f)
    BY ZenonT(60), LoopExists
  <2> QED
    BY ZenonT(60), <1>1, <2>1 DEF LoopUpTo, Handled
<1> DEFINE T == {m \in Nat : m <= n => Handling(after[m])}
<1>3. 0 \in T
  BY <1>2 DEF LoopUpTo
<1>4. ASSUME NEW m \in Nat, m \in T PROVE m + 1 \in T
  <2>1. CASE m + 1 <= n
    <3>1. Handling(after[m])
      BY <1>4, <2>1
    <3>2. after[m + 1] = mrcp_client_message_handler(after[m], stream[m + 1])
      BY <1>2, <2>1 DEF LoopUpTo
    <3>3. stream[m + 1] \in Ids
      BY <1>1, <2>1
    <3> QED
      BY <3>1, <3>2, <3>3, HandlerKeeps
  <2>2. CASE ~(m + 1 <= n)
    BY <2>2
  <2> QED
    BY <2>1, <2>2
<1> HIDE DEF T
<1>5. n \in T
  BY <1>3, <1>4, SetInduction
<1> QED
  BY <1>2, <1>5 DEF T

(* The types of the data in flight.                                        *)
Flight ==
    /\ up \in [Conns -> Seq(Ids)] /\ down \in [Conns -> Seq(Ids)]
    /\ rx \in [Conns -> Seq(Ids)] /\ work \in [Channels -> Seq(Ids)]

answers == <<requests, answered, active>>

(* A step that answers nothing and sends no request.                       *)
LEMMA AnswersStutter ==
    ASSUME AnswerInv, UNCHANGED answers, Flight'
    PROVE  AnswerInv'
BY DEF AnswerInv, AnswerTypes, Flight, answers, Outstanding, Actives

(* Queues with a message added, and with all of them dropped.              *)
Queued(f, k, id, g) == g = [f EXCEPT ![k] = Append(@, id)]

Reset(f, k, g) == g = f \/ g = [f EXCEPT ![k] = <<>>]

(* A queue stays a queue of requests when one is added.                    *)
LEMMA AppendTyped ==
    ASSUME NEW D, NEW f \in [D -> Seq(Ids)], NEW k, NEW id \in Ids, NEW g, Queued(f, k, id, g)
    PROVE  g \in [D -> Seq(Ids)]
<1>1. CASE k \in D
  BY <1>1 DEF Queued
<1>2. CASE k \notin D
  BY ZenonT(60), <1>2 DEF Queued
<1> QED
  BY <1>1, <1>2

(* A queue stays a queue of requests when it is emptied.                   *)
LEMMA ResetTyped ==
    ASSUME NEW D, NEW f \in [D -> Seq(Ids)], NEW k, NEW g, Reset(f, k, g)
    PROVE  g \in [D -> Seq(Ids)]
<1>1. CASE g = f
  BY <1>1
<1>2. CASE g = [f EXCEPT ![k] = <<>>] /\ k \in D
  BY <1>2
<1>3. CASE g = [f EXCEPT ![k] = <<>>] /\ k \notin D
  BY ZenonT(60), <1>3
<1> QED
  BY Zenon, <1>1, <1>2, <1>3 DEF Reset

(* mrcp_client_agent_messsage_send: the request is new.                    *)
LEMMA SendAnswers ==
    ASSUME AnswerInv, NEW ch \in Channels, mrcp_client_agent_messsage_send(ch)
    PROVE  AnswerInv'
<1>1. PICK id, c : id = Len(requests) + 1 /\ c = cchan[ch].connection
  BY Zenon
<1>2. /\ requests \in Seq(Channels) /\ answered \in [Ids -> Nat] /\ active \in Actives
      /\ Outstanding(requests, active, answered) /\ Flight
  BY ZenonT(60) DEF AnswerInv, AnswerTypes, Flight
<1>3. id \in Ids /\ id # 0
  BY <1>1, <1>2 DEF mrcp_client_agent_messsage_send, Ids
<1>4. requests' \in Seq(Channels) /\ Len(requests') = id /\ requests'[id] = ch
  BY <1>1, <1>2 DEF mrcp_client_agent_messsage_send
<1>5. id \in DOMAIN requests' /\ \A i \in DOMAIN requests : i \in DOMAIN requests' /\ requests'[i] = requests[i] /\ i # id
  BY <1>1, <1>2 DEF mrcp_client_agent_messsage_send
<1>6. UNCHANGED <<down, rx, work>>
  BY ZenonT(60) DEF mrcp_client_agent_messsage_send, serverVars
<1>7. CASE /\ up' = IF PeerGone(sconn[c], c) THEN up ELSE [up EXCEPT ![c] = Append(@, id)]
           /\ active' = [active EXCEPT ![ch] = [request |-> id, timer |-> RequestTimeout]]
           /\ answered' = answered
  <2>1. up' \in [Conns -> Seq(Ids)]
    <3>1. CASE up' = up
      BY <1>2, <3>1 DEF Flight
    <3>2. CASE Queued(up, c, id, up')
      BY ZenonT(60), <1>2, <1>3, <3>2, AppendTyped DEF Flight
    <3> QED
      BY Zenon, <1>7, <3>1, <3>2 DEF Queued
  <2>2. active' \in Actives
    <3>1. PICK t \in BOOLEAN : t = RequestTimeout
      BY Zenon, ConnectionAssumption
    <3>2. active' = [active EXCEPT ![ch] = [request |-> id, timer |-> t]]
      BY Zenon, <1>7, <3>1
    <3> QED
      BY <1>2, <1>3, <3>2 DEF Actives
  <2>3. active'[ch].request = id /\ \A x \in Channels : x # ch => active'[x] = active[x]
    BY <1>2, <1>7 DEF Actives
  <2>4. answered[id] = 0
    BY <1>1, <1>2, <1>3 DEF Outstanding
  <2>5. Outstanding(requests', active', answered')
    <3>1. ASSUME NEW i \in Ids PROVE answered'[i] <= 1 /\ (i > Len(requests') => answered'[i] = 0)
      BY <1>1, <1>2, <1>4, <1>7, <3>1 DEF Outstanding, Ids
    <3>2. ASSUME NEW x \in Channels, active'[x].request # 0
          PROVE  /\ active'[x].request \in DOMAIN requests' /\ requests'[active'[x].request] = x
                 /\ answered'[active'[x].request] = 0
      <4>1. CASE x = ch
        BY ZenonT(60), <1>4, <1>5, <1>7, <2>3, <2>4, <4>1
      <4>2. CASE x # ch
        BY <1>2, <1>5, <1>7, <2>3, <3>2, <4>2 DEF Outstanding
      <4> QED
        BY ZenonT(60), <4>1, <4>2
    <3> QED
      BY ZenonT(60), <3>1, <3>2 DEF Outstanding
  <2> QED
    BY <1>2, <1>3, <1>4, <1>6, <1>7, <2>1, <2>2, <2>5 DEF AnswerInv, AnswerTypes, Flight, Ids
<1>8. CASE answered' = [answered EXCEPT ![id] = @ + 1] /\ UNCHANGED <<active, up>>
  <2>1. answered[id] = 0
    BY <1>1, <1>2, <1>3 DEF Outstanding
  <2>2. answered' \in [Ids -> Nat] /\ answered'[id] = 1 /\ \A i \in Ids : i # id => answered'[i] = answered[i]
    BY <1>2, <1>3, <1>8, <2>1
  <2>3. Outstanding(requests', active', answered')
    <3>1. ASSUME NEW i \in Ids PROVE answered'[i] <= 1 /\ (i > Len(requests') => answered'[i] = 0)
      BY <1>1, <1>2, <1>4, <2>2, <3>1 DEF Outstanding, Ids
    <3>2. ASSUME NEW x \in Channels, active'[x].request # 0
          PROVE  /\ active'[x].request \in DOMAIN requests' /\ requests'[active'[x].request] = x
                 /\ answered'[active'[x].request] = 0
      <4>1. /\ active[x].request \in DOMAIN requests /\ requests[active[x].request] = x
            /\ answered[active[x].request] = 0 /\ active' = active
        BY <1>2, <1>8, <3>2 DEF Outstanding
      <4>2. active[x].request \in Ids
        BY <1>2, <1>8, <3>2 DEF Actives
      <4> QED
        BY ZenonT(60), <1>5, <2>2, <4>1, <4>2
    <3> QED
      BY <3>1, <3>2 DEF Outstanding
  <2> QED
    BY <1>2, <1>3, <1>4, <1>6, <1>8, <2>2, <2>3 DEF AnswerInv, AnswerTypes, Flight, Ids
<1> QED
  BY <1>1, <1>7, <1>8 DEF mrcp_client_agent_messsage_send

(* mrcp_client_timer_proc: the active request is cancelled.                *)
LEMMA TimerAnswers ==
    ASSUME AnswerInv, NEW ch \in Channels, mrcp_client_timer_proc(ch)
    PROVE  AnswerInv'
<1>1. /\ requests \in Seq(Channels) /\ answered \in [Ids -> Nat] /\ active \in Actives
      /\ Outstanding(requests, active, answered)
  BY DEF AnswerInv, AnswerTypes
<1>2. UNCHANGED <<requests, up, down, rx, work>>
  BY DEF mrcp_client_timer_proc, serverVars, wire
<1>3. Cleared(active, ch, active')
  BY ZenonT(60) DEF mrcp_client_timer_proc, Cleared
<1>4. CASE active[ch].request = 0
  <2>1. answered' = answered
    BY <1>4 DEF mrcp_client_timer_proc
  <2>2. /\ active' \in Actives /\ active'[ch].request = 0
        /\ \A x \in Channels : x # ch => active'[x] = active[x]
    BY ZenonT(60), <1>1, <1>3 DEF Cleared, Actives, NoRequest
  <2>3. Outstanding(requests', active', answered')
    BY ZenonT(60), <1>1, <1>2, <2>1, <2>2 DEF Outstanding
  <2> QED
    BY <1>2, <2>1, <2>2, <2>3 DEF AnswerInv, AnswerTypes
<1>5. CASE active[ch].request # 0
  <2>1. PICK i : i = active[ch].request
    BY Zenon
  <2>2. Counted(answered, i, answered')
    BY <1>5, <2>1 DEF mrcp_client_timer_proc, Counted
  <2>3. active' \in Actives /\ answered' \in [Ids -> Nat] /\ Outstanding(requests, active', answered')
    BY ZenonT(60), <1>1, <1>3, <1>5, <2>1, <2>2, AnswerOne
  <2> QED
    BY <1>2, <2>3 DEF AnswerInv, AnswerTypes
<1> QED
  BY <1>4, <1>5

(* mrcp_client_poller_signal_process: every message read is handled.       *)
LEMMA PollerAnswers ==
    ASSUME AnswerInv, NEW c \in Conns, cconn[c].channels \subseteq Channels,
           mrcp_client_poller_signal_process(c)
    PROVE  AnswerInv'
<1> DEFINE start == [active |-> active, answered |-> answered, channels |-> cconn[c].channels,
                    read |-> <<>>, stopped |-> FALSE]
           Step(n, acc) ==
             /\ active' = acc.active /\ answered' = acc.answered
             /\ rx' = [rx EXCEPT ![c] = IF acc.stopped THEN acc.read ELSE <<>>]
             /\ down' = [down EXCEPT ![c] = SubSeq(@, n + 1, Len(@))]
             /\ UNCHANGED <<requests, work, up>>
<1>a. PICK n \in 1..Len(down[c]) : Step(n, Handled(start, rx[c] \o SubSeq(down[c], 1, n)))
  BY Zenon DEF mrcp_client_poller_signal_process, serverVars
<1>b. PICK first, stream, acc :
        /\ first = start /\ stream = rx[c] \o SubSeq(down[c], 1, n)
        /\ acc = Handled(first, stream)
  BY Zenon
<1>1. Step(n, acc)
  BY ZenonT(60), <1>a, <1>b
<1>2. /\ requests \in Seq(Channels) /\ answered \in [Ids -> Nat] /\ active \in Actives
      /\ Outstanding(requests, active, answered) /\ Flight
  BY DEF AnswerInv, AnswerTypes, Flight
<1>3. PICK d \in Seq(Ids), r \in Seq(Ids) : d = down[c] /\ r = rx[c]
  BY <1>2 DEF Flight
<1>4. stream \in Seq(Ids)
  <2>1. SubSeq(d, 1, n) \in Seq(Ids)
    BY <1>3
  <2> QED
    BY <1>b, <1>3, <2>1
<1>5. SubSeq(d, n + 1, Len(d)) \in Seq(Ids)
  BY <1>1, <1>3
<1>6. PICK cs \in SUBSET Channels : cs = cconn[c].channels
  BY Zenon
<1>7. Handling(first)
  <2>0. <<>> \in Seq(Ids) /\ FALSE \in BOOLEAN
    OBVIOUS
  <2>1. PICK none \in Seq(Ids), no \in BOOLEAN : none = <<>> /\ no = FALSE
    BY Zenon, <2>0
  <2>2. first = [active |-> active, answered |-> answered, channels |-> cs, read |-> none, stopped |-> no]
    BY Zenon, <1>b, <1>6, <2>1
  <2> QED
    BY <1>2, <2>2 DEF Handling
<1>8. Handling(acc)
  BY ZenonT(60), <1>b, <1>2, <1>4, <1>7, HandledKeeps
<1>9. active' \in Actives /\ answered' \in [Ids -> Nat] /\ Outstanding(requests, active', answered')
  BY <1>1, <1>8 DEF Handling
<1>10. PICK left \in Seq(Ids) : left = IF acc.stopped THEN acc.read ELSE <<>>
  <2>1. acc.read \in Seq(Ids) /\ <<>> \in Seq(Ids)
    BY <1>8 DEF Handling
  <2> QED
    BY Zenon, <2>1
<1>11. rx' \in [Conns -> Seq(Ids)] /\ down' \in [Conns -> Seq(Ids)]
  BY ZenonT(60), <1>1, <1>2, <1>3, <1>5, <1>10 DEF Flight
<1> QED
  BY ZenonT(60), <1>1, <1>2, <1>9, <1>11 DEF AnswerInv, AnswerTypes, Flight

(* How Cardinality counts the subsets of S.                                *)
CountsUp(S, f) == f = [T \in SUBSET S |-> IF T = {} THEN 0 ELSE 1 + f[T \ {CHOOSE x : x \in T}]]

(* Counting a set with at most one element.                                *)
LEMMA AtMostOne ==
  ASSUME NEW a, NEW S, S = {} \/ S = {a}
  PROVE Cardinality(S) = IF S = {} THEN 0 ELSE 1
<1>1. PICK f : CountsUp(S, f) /\ Cardinality(S) = f[S]
  <2>1. PICK f : f = [T \in SUBSET S |-> IF T = {} THEN 0 ELSE 1]
    BY Zenon
  <2>2. ASSUME NEW T \in SUBSET S, T # {} PROVE T \ {CHOOSE x : x \in T} = {}
    <3>1. T = {a}
      BY <2>2
    <3>2. (CHOOSE x : x \in T) = a
      BY <3>1
    <3> QED
      BY <3>1, <3>2
  <2>3. ASSUME NEW T \in SUBSET S PROVE f[T] = IF T = {} THEN 0 ELSE 1 + f[T \ {CHOOSE x : x \in T}]
    <3>1. CASE T = {}
      BY <2>1, <3>1
    <3>2. CASE T # {}
      <4>1. f[T] = 1 /\ f[{}] = 0 /\ {} \in SUBSET S
        BY <2>1, <3>2
      <4>2. T \ {CHOOSE x : x \in T} = {}
        BY <2>2, <3>2
      <4> QED
        BY <3>2, <4>1, <4>2
    <3> QED
      BY <3>1, <3>2
  <2>4. CountsUp(S, f)
    BY <2>1, <2>3 DEF CountsUp
  <2> QED
    BY Zenon, <2>4 DEF CountsUp, Cardinality
<1>2. f[{}] = 0
  BY <1>1 DEF CountsUp
<1>3. CASE S = {}
  BY <1>1, <1>2, <1>3
<1>4. CASE S # {}
  <2>1. S = {a} /\ S \in SUBSET S
    BY <1>4
  <2>2. S \ {CHOOSE x : x \in S} = {}
    BY <2>1
  <2>3. f[S] = 1 + f[S \ {CHOOSE x : x \in S}]
    BY ZenonT(60), <1>1, <1>4, <2>1 DEF CountsUp
  <2> QED
    BY <1>1, <1>2, <1>4, <2>2, <2>3
<1> QED
  BY <1>3, <1>4

(* mrcp_client_agent_disconnect_raise: the requests of the channels of the *)
(* connection are cancelled; no two of them are the same request.          *)
LEMMA DisconnectAnswers ==
    ASSUME AnswerInv, NEW c \in Conns, cconn[c].channels \subseteq Channels,
           mrcp_client_agent_disconnect_raise(c)
    PROVE  AnswerInv'
<1> DEFINE Of(i, cs) == {ch \in cs : active[ch].request = i}
<1>1. PICK cancelled : cancelled = {ch \in cconn[c].channels : active[ch].request # 0}
  BY Zenon
<1>2. /\ active' = [ch \in Channels |-> IF ch \in cancelled THEN NoRequest ELSE active[ch]]
      /\ answered' = [i \in Ids |-> answered[i] + Cardinality(Of(i, cancelled))]
      /\ rx' = [rx EXCEPT ![c] = <<>>]
      /\ UNCHANGED <<requests, up, down, work>>
  BY Zenon, <1>1 DEF mrcp_client_agent_disconnect_raise, serverVars, wire
<1>3. /\ requests \in Seq(Channels) /\ answered \in [Ids -> Nat] /\ active \in Actives
      /\ Outstanding(requests, active, answered) /\ Flight
  BY ZenonT(60) DEF AnswerInv, AnswerTypes, Flight
<1>4. cancelled \subseteq Channels /\ \A ch \in cancelled : active[ch].request # 0
  BY ZenonT(60), <1>1
<1>5. active' \in Actives
  BY ZenonT(60), <1>2, <1>3 DEF Actives, NoRequest
<1>6. /\ \A ch \in cancelled : active'[ch].request = 0
      /\ \A ch \in Channels : ch \notin cancelled => active'[ch] = active[ch]
  BY ZenonT(60), <1>2, <1>4 DEF NoRequest
<1>7. ASSUME NEW i \in Ids
      PROVE  \/ /\ answered'[i] = answered[i]
                /\ \A ch \in cancelled : active[ch].request # i
             \/ /\ answered[i] = 0 /\ answered'[i] = 1 /\ i \in DOMAIN requests
                /\ requests[i] \in cancelled /\ active[requests[i]].request = i
  <2>1. CASE \A ch \in cancelled : active[ch].request # i
    <3>1. Of(i, cancelled) = {}
      BY <2>1
    <3>2. Cardinality(Of(i, cancelled)) = 0
      BY ZenonT(60), <3>1, AtMostOne
    <3> HIDE DEF Of
    <3> QED
      BY <1>2, <1>3, <2>1, <3>2
  <2>2. CASE \E ch \in cancelled : active[ch].request = i
    <3>1. PICK ch \in cancelled : active[ch].request = i
      BY ZenonT(60), <2>2
    <3>2. ASSUME NEW x \in cancelled, active[x].request = i
          PROVE  i \in DOMAIN requests /\ requests[i] = x /\ answered[i] = 0
      BY ZenonT(60), <1>3, <1>4, <3>2 DEF Outstanding
    <3>3. Of(i, cancelled) = {ch}
      BY ZenonT(60), <3>1, <3>2
    <3>4. Cardinality(Of(i, cancelled)) = 1
      BY ZenonT(60), <3>1, <3>3, AtMostOne
    <3> HIDE DEF Of
    <3> QED
      BY <1>2, <3>1, <3>2, <3>4
  <2> QED
    BY ZenonT(60), <2>1, <2>2
<1>8. answered' \in [Ids -> Nat]
  <2>1. \A i \in Ids : answered'[i] \in Nat
    BY <1>3, <1>7
  <2>2. answered' = [i \in Ids |-> answered'[i]]
    BY <1>2
  <2> QED
    BY <2>1, <2>2
<1>9. ASSUME NEW i \in Ids PROVE answered'[i] <= 1 /\ (i > Len(requests) => answered'[i] = 0)
  BY <1>3, <1>7 DEF Outstanding
<1>10. ASSUME NEW ch \in Channels, active'[ch].request # 0
       PROVE  /\ active'[ch].request \in DOMAIN requests /\ requests[active'[ch].request] = ch
              /\ answered'[active'[ch].request] = 0
  <2>1. ch \notin cancelled /\ active'[ch] = active[ch]
    BY <1>6, <1>10
  <2>2. PICK i : i = active[ch].request
    BY Zenon
  <2>3. i \in Ids /\ i \in DOMAIN requests /\ requests[i] = ch /\ answered[i] = 0
    BY ZenonT(60), <1>3, <1>10, <2>1, <2>2 DEF Outstanding, Actives
  <2>4. answered'[i] = 0
    BY ZenonT(60), <1>7, <2>1, <2>3
  <2> QED
    BY <2>1, <2>2, <2>3, <2>4
<1>11. Outstanding(requests, active', answered')
  BY ZenonT(60), <1>9, <1>10 DEF Outstanding
<1>12. rx' \in [Conns -> Seq(Ids)]
  BY <1>2, <1>3 DEF Flight
<1> QED
  BY ZenonT(60), <1>2, <1>3, <1>5, <1>8, <1>11, <1>12 DEF AnswerInv, AnswerTypes, Flight

(* The server side only moves requests and responses.                      *)
LEMMA ServerMessageAnswers ==
    ASSUME AnswerInv, NEW c \in Conns, mrcp_server_message_handler(c)
    PROVE  AnswerInv'
<1>1. Flight
  BY ZenonT(60) DEF AnswerInv, AnswerTypes, Flight
<1>2. UNCHANGED answers /\ UNCHANGED <<down, rx>>
  BY DEF mrcp_server_message_handler, answers, clientVars
<1>3. PICK u \in Seq(Ids) : u = up[c]
  BY <1>1 DEF Flight
<1>a. PICK id, ch : id = Head(u) /\ ch = requests[id]
  BY Zenon
<1>4. u # <<>> /\ up' = [up EXCEPT ![c] = Tail(u)]
  BY <1>3 DEF mrcp_server_message_handler
<1>5. id \in Ids /\ Tail(u) \in Seq(Ids)
  BY <1>3, <1>4, <1>a
<1>6. up' \in [Conns -> Seq(Ids)]
  BY <1>1, <1>4, <1>5 DEF Flight
<1>7. work' = work \/ work' = [work EXCEPT ![ch] = Append(@, id)]
  BY Zenon, <1>3, <1>a DEF mrcp_server_message_handler
<1>8. work' \in [Channels -> Seq(Ids)]
  <2>1. CASE work' = work
    BY <1>1, <2>1 DEF Flight
  <2>2. CASE work' = [work EXCEPT ![ch] = Append(@, id)]
    BY ZenonT(60), <1>1, <1>5, <2>2, AppendTyped DEF Flight, Queued
  <2> QED
    BY <1>7, <2>1, <2>2
<1> QED
  BY ZenonT(60), <1>1, <1>2, <1>6, <1>8, AnswersStutter DEF Flight

(* mrcp_server_agent_messsage_send moves a response from the session to    *)
(* the wire, or loses it.                                                  *)
LEMMA ServerSendAnswers ==
    ASSUME AnswerInv, NEW ch \in Channels, mrcp_server_agent_messsage_send(ch)
    PROVE  AnswerInv'
<1>1. Flight
  BY DEF AnswerInv, AnswerTypes, Flight
<1>2. UNCHANGED answers /\ UNCHANGED <<up, rx>>
  BY DEF mrcp_server_agent_messsage_send, answers, clientVars
<1>3. PICK w \in Seq(Ids) : w = work[ch]
  BY <1>1 DEF Flight
<1>a. PICK id, c : id = Head(w) /\ c = schan[ch].connection
  BY Zenon
<1>4. w # <<>> /\ work' = [work EXCEPT ![ch] = Tail(w)]
  BY <1>3 DEF mrcp_server_agent_messsage_send
<1>5. id \in Ids /\ Tail(w) \in Seq(Ids)
  BY <1>3, <1>4, <1>a
<1>6. work' \in [Channels -> Seq(Ids)]
  BY <1>1, <1>4, <1>5 DEF Flight
<1>7. down' = down \/ down' = [down EXCEPT ![c] = Append(@, id)]
  BY Zenon, <1>3, <1>a DEF mrcp_server_agent_messsage_send
<1>8. down' \in [Conns -> Seq(Ids)]
  <2>1. CASE down' = down
    BY <1>1, <2>1 DEF Flight
  <2>2. CASE down' = [down EXCEPT ![c] = Append(@, id)]
    BY ZenonT(60), <1>1, <1>5, <2>2, AppendTyped DEF Flight, Queued
  <2> QED
    BY <1>7, <2>1, <2>2
<1> QED
  BY <1>1, <1>2, <1>6, <1>8, AnswersStutter DEF Flight

(* A step that at most forgets what is in flight on a connection.          *)
LEMMA FlightLost ==
    ASSUME AnswerInv, UNCHANGED answers, work' = work, NEW c,
           up' = up \/ up' = [up EXCEPT ![c] = <<>>],
           down' = down \/ down' = [down EXCEPT ![c] = <<>>],
           rx' = rx \/ rx' = [rx EXCEPT ![c] = <<>>]
    PROVE  AnswerInv'
<1>1. Flight
  BY DEF AnswerInv, AnswerTypes, Flight
<1>2. up' \in [Conns -> Seq(Ids)]
  BY ZenonT(60), <1>1, ResetTyped DEF Flight, Reset
<1>3. down' \in [Conns -> Seq(Ids)]
  BY ZenonT(60), <1>1, ResetTyped DEF Flight, Reset
<1>4. rx' \in [Conns -> Seq(Ids)]
  BY ZenonT(60), <1>1, ResetTyped DEF Flight, Reset
<1> QED
  BY <1>1, <1>2, <1>3, <1>4, AnswersStutter DEF Flight

(* mrcp_client_agent_channel_remove answers nothing; with the connection   *)
(* goes what is in flight on it.                                           *)
LEMMA ClientRemoveAnswers ==
    ASSUME AnswerInv, NEW ch \in Channels, mrcp_client_agent_channel_remove(ch)
    PROVE  AnswerInv'
<1>1. UNCHANGED answers /\ UNCHANGED <<work, up>>
  BY ZenonT(60) DEF mrcp_client_agent_channel_remove, answers, serverVars
<1>2. CASE UNCHANGED <<rx, down>>
  BY <1>1, <1>2, AnswersStutter DEF AnswerInv, AnswerTypes, Flight
<1>3. CASE ~UNCHANGED <<rx, down>>
  <2>1. PICK c : c = cchan[ch].connection
    BY Zenon
  <2>2. rx' = [rx EXCEPT ![c] = <<>>] /\ down' = [down EXCEPT ![c] = <<>>]
    BY Zenon, <1>3, <2>1 DEF mrcp_client_agent_channel_remove
  <2> QED
    BY Zenon, <1>1, <2>2, FlightLost
<1> QED
  BY Zenon, <1>2, <1>3

(* The tables of the client's connections hold channels.                   *)
Tables == cconn \in [Conns -> [state : States, channels : SUBSET Channels]]

(* Every step keeps the channel tables of the client's connections tables  *)
(* of channels.                                                            *)
LEMMA TablesKept == Tables /\ [Next]_vars => Tables'
<1> SUFFICES ASSUME Tables, [Next]_vars PROVE Tables'
  OBVIOUS
<1>1. ASSUME UNCHANGED cconn PROVE Tables'
  BY Zenon, <1>1 DEF Tables
<1>2. ASSUME NEW ch \in Channels, mrcp_client_agent_channel_modify(ch) PROVE Tables'
  <2>1. CASE UNCHANGED cconn
    BY <1>1, <2>1
  <2>2. CASE \E c \in Conns : cconn' = [cconn EXCEPT ![c].channels = @ \cup {ch}]
    BY <2>2 DEF Tables
  <2>3. CASE \E c \in Conns : cconn' = [cconn EXCEPT ![c] = [state |-> "OPEN", channels |-> {ch}]]
    BY <2>3 DEF Tables, States
  <2> QED
    BY ZenonT(60), <1>2, <2>1, <2>2, <2>3
       DEF mrcp_client_agent_channel_modify, mrcp_client_agent_connection_create
<1>3. ASSUME NEW ch \in Channels, mrcp_client_agent_channel_remove(ch) PROVE Tables'
  <2>1. PICK c : c = cchan[ch].connection
    BY Zenon
  <2>2. CASE UNCHANGED cconn
    BY <1>1, <2>2
  <2>3. CASE cconn' = [cconn EXCEPT ![c].channels = @ \ {ch}]
    BY ZenonT(60), <2>3 DEF Tables
  <2>4. CASE cconn' = [cconn EXCEPT ![c] = [state |-> "CLOSED", channels |-> {}]]
    BY ZenonT(60), <2>4 DEF Tables, States
  <2> QED
    BY ZenonT(60), <1>3, <2>1, <2>2, <2>3, <2>4 DEF mrcp_client_agent_channel_remove
<1>4. ASSUME NEW ch \in Channels, mrcp_client_control_channel_destroy(ch) PROVE Tables'
  <2>1. PICK c : c = cchan[ch].connection
    BY Zenon
  <2>2. CASE UNCHANGED cconn
    BY <1>1, <2>2
  <2>3. CASE cconn' = [cconn EXCEPT ![c].state = "DESTROYED"]
    BY ZenonT(60), <2>3 DEF Tables, States
  <2> QED
    BY Zenon, <1>4, <2>1, <2>2, <2>3 DEF mrcp_client_control_channel_destroy
<1>5. ASSUME NEW c \in Conns, mrcp_client_agent_disconnect_raise(c) PROVE Tables'
  <2>1. cconn' = [cconn EXCEPT ![c].state = "CLOSED"]
    BY Zenon, <1>5 DEF mrcp_client_agent_disconnect_raise
  <2> QED
    BY <2>1 DEF Tables, States
<1>6. CASE UNCHANGED vars
  BY Zenon, <1>1, <1>6 DEF vars, clientVars
<1>7. ASSUME NEW ch \in Channels,
             \/ mrcp_client_agent_channel_add(ch) \/ mrcp_client_agent_messsage_send(ch)
             \/ mrcp_client_timer_proc(ch) \/ mrcp_server_agent_channel_add(ch)
             \/ mrcp_server_agent_channel_remove(ch) \/ mrcp_server_control_channel_destroy(ch)
             \/ mrcp_server_agent_messsage_send(ch) \/ CallEnds(ch)
      PROVE  Tables'
  <2>1. UNCHANGED cconn
    BY ZenonT(60), <1>7
       DEF mrcp_client_agent_channel_add, mrcp_client_agent_messsage_send, mrcp_client_timer_proc,
           mrcp_server_agent_channel_add, mrcp_server_agent_channel_remove,
           mrcp_server_control_channel_destroy, mrcp_server_agent_messsage_send, CallEnds, clientVars
  <2> QED
    BY <1>1, <2>1
<1>8. ASSUME NEW c \in Conns,
             \/ mrcp_client_poller_signal_process(c) \/ mrcp_server_agent_connection_accept(c)
             \/ mrcp_server_message_handler(c) \/ mrcp_server_peer_disconnected(c)
             \/ mrcp_server_inactivity_timer_proc(c) \/ mrcp_server_termination_timer_proc(c)
             \/ LinkFails(c)
      PROVE  Tables'
  <2>1. UNCHANGED cconn
    BY ZenonT(60), <1>8
       DEF mrcp_client_poller_signal_process, mrcp_server_agent_connection_accept,
           mrcp_server_message_handler, mrcp_server_peer_disconnected,
           mrcp_server_inactivity_timer_proc, mrcp_server_termination_timer_proc, LinkFails, clientVars
  <2> QED
    BY <1>1, <2>1
<1> QED
  BY ZenonT(60), <1>2, <1>3, <1>4, <1>5, <1>6, <1>7, <1>8 DEF Next, ClientAgent, ServerAgent

(* Every step keeps the invariant on answers.                              *)
LEMMA NextAnswers == Tables /\ AnswerInv /\ [Next]_vars => AnswerInv'
<1> SUFFICES ASSUME Tables, AnswerInv, [Next]_vars PROVE AnswerInv'
  OBVIOUS
<1>0. Flight
  BY DEF AnswerInv, AnswerTypes, Flight
<1>t. \A c \in Conns : cconn[c].channels \subseteq Channels
  BY DEF Tables
<1>s. ASSUME UNCHANGED <<answers, up, down, rx, work>> PROVE AnswerInv'
  BY <1>0, <1>s, AnswersStutter DEF Flight
<1>1. ASSUME NEW ch \in Channels, mrcp_client_agent_channel_add(ch) PROVE AnswerInv'
  BY Zenon, <1>s, <1>1 DEF mrcp_client_agent_channel_add, answers, serverVars, wire
<1>2. ASSUME NEW ch \in Channels, mrcp_client_agent_channel_modify(ch) PROVE AnswerInv'
  BY Zenon, <1>s, <1>2 DEF mrcp_client_agent_channel_modify, answers, wire
<1>3. ASSUME NEW ch \in Channels, mrcp_client_agent_channel_remove(ch) PROVE AnswerInv'
  BY ZenonT(60), <1>3, ClientRemoveAnswers
<1>4. ASSUME NEW ch \in Channels, mrcp_client_control_channel_destroy(ch) PROVE AnswerInv'
  BY Zenon, <1>s, <1>4 DEF mrcp_client_control_channel_destroy, answers, serverVars, wire
<1>5. ASSUME NEW ch \in Channels, mrcp_client_agent_messsage_send(ch) PROVE AnswerInv'
  BY Zenon, <1>5, SendAnswers
<1>6. ASSUME NEW ch \in Channels, mrcp_client_timer_proc(ch) PROVE AnswerInv'
  BY ZenonT(60), <1>6, TimerAnswers
<1>7. ASSUME NEW c \in Conns, mrcp_client_poller_signal_process(c) PROVE AnswerInv'
  BY ZenonT(60), <1>7, <1>t, PollerAnswers
<1>8. ASSUME NEW c \in Conns, mrcp_client_agent_disconnect_raise(c) PROVE AnswerInv'
  BY ZenonT(60), <1>8, <1>t, DisconnectAnswers
<1>9. ASSUME NEW ch \in Channels, mrcp_server_agent_channel_add(ch) PROVE AnswerInv'
  BY Zenon, <1>s, <1>9 DEF mrcp_server_agent_channel_add, answers, clientVars, wire
<1>10. ASSUME NEW ch \in Channels, mrcp_server_agent_channel_remove(ch) PROVE AnswerInv'
  BY Zenon, <1>s, <1>10 DEF mrcp_server_agent_channel_remove, answers, clientVars, wire
<1>11. ASSUME NEW ch \in Channels, mrcp_server_control_channel_destroy(ch) PROVE AnswerInv'
  BY Zenon, <1>s, <1>11 DEF mrcp_server_control_channel_destroy, answers, clientVars, wire
<1>12. ASSUME NEW ch \in Channels, mrcp_server_agent_messsage_send(ch) PROVE AnswerInv'
  BY Zenon, <1>12, ServerSendAnswers
<1>13. ASSUME NEW c \in Conns, mrcp_server_agent_connection_accept(c) PROVE AnswerInv'
  BY Zenon, <1>s, <1>13 DEF mrcp_server_agent_connection_accept, answers, clientVars, wire
<1>14. ASSUME NEW c \in Conns, mrcp_server_message_handler(c) PROVE AnswerInv'
  BY Zenon, <1>14, ServerMessageAnswers
<1>15. ASSUME NEW c \in Conns, mrcp_server_peer_disconnected(c) PROVE AnswerInv'
  <2>1. UNCHANGED <<answers, down, rx, work>> /\ up' = [up EXCEPT ![c] = <<>>]
    BY Zenon, <1>15 DEF mrcp_server_peer_disconnected, mrcp_server_agent_connection_close,
                        Close, answers, clientVars
  <2> QED
    BY Zenon, <2>1, FlightLost
<1>16. ASSUME NEW c \in Conns, mrcp_server_inactivity_timer_proc(c) PROVE AnswerInv'
  <2>1. UNCHANGED <<answers, down, rx, work>> /\ up' = [up EXCEPT ![c] = <<>>]
    BY Zenon, <1>16 DEF mrcp_server_inactivity_timer_proc, mrcp_server_agent_connection_close,
                        Close, answers, clientVars
  <2> QED
    BY Zenon, <2>1, FlightLost
<1>17. ASSUME NEW c \in Conns, mrcp_server_termination_timer_proc(c) PROVE AnswerInv'
  BY Zenon, <1>s, <1>17 DEF mrcp_server_termination_timer_proc, answers, clientVars, wire
<1>18. ASSUME NEW ch \in Channels, CallEnds(ch) PROVE AnswerInv'
  BY Zenon, <1>s, <1>18 DEF CallEnds, answers, clientVars, serverVars, wire
<1>19. ASSUME NEW c \in Conns, LinkFails(c) PROVE AnswerInv'
  <2>1. /\ UNCHANGED <<answers, rx, work>> /\ up' = [up EXCEPT ![c] = <<>>]
        /\ down' = [down EXCEPT ![c] = <<>>]
    BY Zenon, <1>19 DEF LinkFails, answers, clientVars, serverVars
  <2> QED
    BY Zenon, <2>1, FlightLost
<1>20. CASE UNCHANGED vars
  BY ZenonT(60), <1>s, <1>20 DEF vars, clientVars, serverVars, wire, answers
<1> QED
  BY SMTT(90), <1>1, <1>2, <1>3, <1>4, <1>5, <1>6, <1>7, <1>8, <1>9, <1>10, <1>11, <1>12,
     <1>13, <1>14, <1>15, <1>16, <1>17, <1>18, <1>19, <1>20
     DEF Next, ClientAgent, ServerAgent

(* Nothing has been sent or answered at first.                             *)
LEMMA InitAnswers == Init => Tables /\ AnswerInv
<1> SUFFICES ASSUME Init PROVE Tables /\ AnswerInv
  BY ZenonT(60)
<1>0. Tables
  BY DEF Init, Tables, States
<1>1. AnswerTypes
  <2>1. requests \in Seq(Channels) /\ Len(requests) <= MaxRequests
    BY ConnectionAssumption DEF Init
  <2>2. answered \in [Ids -> Nat]
    BY ZenonT(60) DEF Init
  <2>3. active \in Actives
    BY ZenonT(60) DEF Init, Actives, NoRequest
  <2>4. up \in [Conns -> Seq(Ids)] /\ down \in [Conns -> Seq(Ids)]
    BY DEF Init
  <2>5. rx \in [Conns -> Seq(Ids)] /\ work \in [Channels -> Seq(Ids)]
    BY DEF Init
  <2> QED
    BY ZenonT(60), <2>1, <2>2, <2>3, <2>4, <2>5 DEF AnswerTypes
<1>2. Outstanding(requests, active, answered)
  BY DEF Init, Outstanding, NoRequest
<1> QED
  BY <1>0, <1>1, <1>2 DEF AnswerInv

(* A request is answered to the session of the client at most once, by the *)
(* server's response (mrcp_client_message_handler), by the request timer   *)
(* (mrcp_client_timer_proc), when the connection is lost                   *)
(* (mrcp_client_agent_disconnect_raise) or when it cannot be sent, however *)
(* these race, for any number of channels, connections and requests.       *)
THEOREM AnsweredAtMostOnceInvariant == Spec => []AnsweredAtMostOnce
<1>1. Spec => [](Tables /\ AnswerInv)
  BY InitAnswers, TablesKept, NextAnswers, PTL DEF Spec
<1>2. Tables /\ AnswerInv => AnsweredAtMostOnce
  BY DEF AnswerInv, Outstanding, AnsweredAtMostOnce
<1> QED
  BY <1>1, <1>2, PTL

=============================================================================
