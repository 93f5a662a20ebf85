-------------------------- MODULE ControlConnection --------------------------
(***************************************************************************)
(* The connection agents of an MRCPv2 client (libs/mrcpv2-transport/src/   *)
(* mrcp_client_connection.c) and of an MRCPv2 server                       *)
(* (mrcp_server_connection.c), with TCP between them.                      *)
(*                                                                         *)
(* Control channels share TCP connections.  The client agent opens a       *)
(* connection for a channel, or reuses one; the server agent keeps a       *)
(* channel pending until its first message comes in, on whatever           *)
(* connection.  A connection is destroyed with the last channel of it, by  *)
(* the session that owns that channel, in another task.  Every request of  *)
(* a client session is to be answered once: by the server, or by the       *)
(* client agent itself on a timeout or when the connection is lost.        *)
(*                                                                         *)
(* A step is one handler of an agent's task.  The queues in front of these *)
(* tasks only delay the handlers, since a session waits for each answer.   *)
(***************************************************************************)
EXTENDS Naturals, Sequences, FiniteSets

CONSTANTS
    Channels,        \* control channels, each of a session of its own
    MaxConnections,  \* bound: how many connections the client opens
    MaxRequests,     \* bound: how many requests the client sends
    MaxSharedUse,    \* max_shared_use_count of the server agent, 0 for no limit
    OfferNew,        \* offer_new_connection of the client agent
    ForceNew,        \* force_new_connection of the server agent
    RequestTimeout,  \* whether request_timeout of the client agent is set
    TerminationTimeout \* whether termination_timeout of the server agent is set

ASSUME ConnectionAssumption ==
    /\ MaxConnections \in Nat \ {0} /\ MaxRequests \in Nat
    /\ MaxSharedUse \in Nat /\ {OfferNew, ForceNew} \subseteq BOOLEAN
    /\ {RequestTimeout, TerminationTimeout} \subseteq BOOLEAN

Conns == 1..MaxConnections
NULL == 0

VARIABLES
    ended,      \* channels whose call is over
    lost,       \* channels the server agent raised a disconnect event for
    requests,   \* the channel of each request sent
    answered,   \* how often each request was answered to the client session
    type,       \* connection type in the descriptor offered or answered last
    cchan,      \* the channels of the client
    cconn,      \* the connections of the client
    active,     \* active_request and request_timer of the client's channels
    clist,      \* connection_list of the client agent
    rx,         \* messages in the receive buffer before stream->pos
    schan,      \* the channels of the server
    sconn,      \* the connections of the server
    slist,      \* connection_list of the server agent
    pending,    \* pending_channel_table
    terminating,  \* connections whose termination_timer runs
    work,       \* requests each server session has to answer
    broken,     \* connections whose TCP link has failed
    up,         \* data on its way to the server
    down        \* data on its way to the client

clientVars == <<cchan, cconn, clist, active, rx>>
serverVars == <<schan, sconn, slist, pending, terminating, work>>
wire == <<broken, up, down>>
vars == <<ended, lost, requests, answered, type, clientVars, serverVars, wire>>

Ids == 1..MaxRequests

(* connection_list: connections are numbered, and appended to the lists, in *)
(* the order in which they are made.                                        *)
First(list, c) == c \in list /\ \A d \in list : c <= d

(* The state of a connection: OPEN while it has a socket.  A server has the *)
(* connection in its BACKLOG before it accepts it.                          *)
HasSocket(connection) == connection.state \in {"BACKLOG", "OPEN"}

(* The two ends as TCP sees them: each reads the end of the stream after    *)
(* the other one has closed, or after the link has broken.                  *)
PeerGone(peer, c) == ~HasSocket(peer) \/ c \in broken

-----------------------------------------------------------------------------
(* The client agent.                                                       *)

(* mrcp_client_agent_channel_add: offer a new connection if there is none. *)
mrcp_client_agent_channel_add(ch) ==
    /\ cchan[ch].phase = "NONE"
    /\ cchan' = [cchan EXCEPT ![ch].phase = "OFFERED"]
    /\ type' = [type EXCEPT ![ch] = IF OfferNew \/ clist = {} THEN "NEW"
                                                             ELSE "EXISTING"]
    /\ UNCHANGED <<ended, lost, requests, answered, cconn, clist, active, rx,
                   serverVars, wire>>

(* mrcp_client_agent_connection_find does not look at the socket.          *)
Found(ch) == type[ch] = "EXISTING" /\ clist # {}

Attach(ch, c) ==
    /\ cchan' = [cchan EXCEPT ![ch] = [phase |-> "UP", connection |-> c]]
    /\ type' = [type EXCEPT ![ch] = "EXISTING"]

(* A new connection, listed by the client, with ch as its only channel.    *)
mrcp_client_agent_connection_create(ch, c) ==
    /\ First({d \in Conns : cconn[d].state = "NONE"}, c)
    /\ cconn' = [cconn EXCEPT ![c] = [state |-> "OPEN", channels |-> {ch}]]
    /\ clist' = clist \cup {c}
    /\ sconn' = [sconn EXCEPT ![c].state = "BACKLOG"]

(* mrcp_client_agent_channel_modify, with the answer of the server: use an *)
(* existing connection or make one, which may fail.                        *)
mrcp_client_agent_channel_modify(ch) ==
    /\ cchan[ch].phase = "OFFERED" /\ schan[ch].phase # "NONE"
    /\ \/ /\ Found(ch)
          /\ \E c \in Conns :
               /\ First(clist, c)
               /\ Attach(ch, c)
               /\ cconn' = [cconn EXCEPT ![c].channels = @ \cup {ch}]
          /\ UNCHANGED <<clist, sconn>>
       \/ /\ ~Found(ch)
          /\ \E c \in Conns :
               /\ Attach(ch, c)
               /\ mrcp_client_agent_connection_create(ch, c)
       \/ /\ ~Found(ch)
          /\ cchan' = [cchan EXCEPT ![ch].phase = "FAILED"]
          /\ UNCHANGED <<type, cconn, clist, sconn>>
    /\ UNCHANGED <<ended, lost, requests, answered, active, rx, schan, slist,
                   pending, terminating, work, wire>>

(* The session of a channel has one request outstanding at a time,        *)
(* its removal and its termination included (session->active_request).     *)
Idle(ch) == \A i \in DOMAIN requests : requests[i] = ch => answered[i] > 0

(* mrcp_client_agent_channel_remove: the connection goes with its last     *)
(* channel.  A channel that is removed and still refers to a connection    *)
(* (channel->removed) is to destroy it.                                    *)
mrcp_client_agent_channel_remove(ch) ==
    LET c == cchan[ch].connection
    IN  /\ cchan[ch].phase \in {"UP", "FAILED"} /\ ch \in ended
        /\ Idle(ch)
        /\ \/ /\ c = NULL
              /\ cchan' = [cchan EXCEPT ![ch].phase = "REMOVED"]
              /\ UNCHANGED <<cconn, clist, rx, down>>
           \/ /\ c # NULL /\ cconn[c].channels # {ch}
              /\ cchan' = [cchan EXCEPT ![ch] = [phase |-> "REMOVED",
                                                connection |-> NULL]]
              /\ cconn' = [cconn EXCEPT ![c].channels = @ \ {ch}]
              /\ UNCHANGED <<clist, rx, down>>
           \/ /\ c # NULL /\ cconn[c].channels = {ch}
              /\ cchan' = [cchan EXCEPT ![ch].phase = "REMOVED"]
              /\ cconn' = [cconn EXCEPT ![c] = [state |-> "CLOSED", channels |-> {}]]
              /\ clist' = clist \ {c}
              /\ rx' = [rx EXCEPT ![c] = <<>>]
              /\ down' = [down EXCEPT ![c] = <<>>]
        /\ UNCHANGED <<type, ended, lost, requests, answered, active, serverVars,
                       broken, up>>

(* mrcp_client_control_channel_destroy, by the task of the session.        *)
mrcp_client_control_channel_destroy(ch) ==
    LET c == cchan[ch].connection
    IN  /\ cchan[ch].phase = "REMOVED"
        /\ cchan' = [cchan EXCEPT ![ch] = [phase |-> "DESTROYED", connection |-> NULL]]
        /\ \/ c = NULL /\ UNCHANGED cconn
           \/ c # NULL /\ cconn' = [cconn EXCEPT ![c].state = "DESTROYED"]
        /\ UNCHANGED <<type, ended, lost, requests, answered, clist, active, rx,
                       serverVars, wire>>

(* The session sends a request when the previous one has been answered;    *)
(* mrcp_client_agent_messsage_send cancels it if it cannot be sent.        *)
mrcp_client_agent_messsage_send(ch) ==
    LET id == Len(requests) + 1
        c == cchan[ch].connection
    IN  /\ cchan[ch].phase = "UP" /\ ch \notin ended
        /\ id <= MaxRequests
        /\ Idle(ch)
        /\ requests' = Append(requests, ch)
        /\ \/ /\ HasSocket(cconn[c])
              /\ up' = IF PeerGone(sconn[c], c) THEN up
                       ELSE [up EXCEPT ![c] = Append(@, id)]
              /\ active' = [active EXCEPT ![ch] = [request |-> id,
                                                   timer |-> RequestTimeout]]
              /\ UNCHANGED answered
           \/ /\ ~HasSocket(cconn[c]) \/ PeerGone(sconn[c], c)
              /\ answered' = [answered EXCEPT ![id] = @ + 1]
              /\ UNCHANGED <<active, up>>
        /\ UNCHANGED <<type, ended, lost, cchan, cconn, clist, rx, serverVars,
                       broken, down>>

(* mrcp_client_message_handler, for one message of the buffer.  The rest   *)
(* of the buffer is not handled after an unexpected response.              *)
NoRequest == [request |-> 0, timer |-> FALSE]

mrcp_client_message_handler_expects_any(acc, id) ==
    LET ch == requests[id]
    IN  IF ch \notin acc.channels THEN acc
        ELSE [acc EXCEPT !.answered[id] = @ + 1,
                         !.active[ch] = NoRequest]

mrcp_client_message_handler(acc, id) ==
    LET ch == requests[id]
        a == [acc EXCEPT !.read = Append(@, id)]
    IN  IF acc.stopped THEN acc
        ELSE IF ch \notin acc.channels THEN a
        ELSE IF acc.active[ch].request # id THEN [a EXCEPT !.stopped = TRUE]
        ELSE [a EXCEPT !.answered[id] = @ + 1,
                       !.active[ch] = NoRequest]

(* The loop over the messages of the buffer.                               *)
Handled(acc, stream) ==
    LET after[i \in 0..Len(stream)] ==
            IF i = 0 THEN acc
            ELSE mrcp_client_message_handler(after[i - 1], stream[i])
    IN  after[Len(stream)]

(* mrcp_client_poller_signal_process: the data received, one message or    *)
(* several, is put behind what stream->pos says was left.  After an        *)
(* unexpected response pos is left behind that response.                   *)
mrcp_client_poller_signal_process(c) ==
    \E n \in 1..Len(down[c]) :
        LET acc == Handled([active |-> active, answered |-> answered,
                            channels |-> cconn[c].channels,
                            read |-> <<>>, stopped |-> FALSE],
                           rx[c] \o SubSeq(down[c], 1, n))
        IN  /\ HasSocket(cconn[c])
            /\ active' = acc.active
            /\ answered' = acc.answered
            /\ rx' = [rx EXCEPT ![c] = IF acc.stopped THEN acc.read ELSE <<>>]
            /\ down' = [down EXCEPT ![c] = SubSeq(@, n + 1, Len(@))]
            /\ UNCHANGED <<type, ended, lost, requests, cchan, cconn, clist,
                           serverVars, broken, up>>

mrcp_client_agent_disconnect_raise_forgets(c) ==
    /\ HasSocket(cconn[c]) /\ PeerGone(sconn[c], c)
    /\ down[c] = <<>>
    /\ cconn' = [cconn EXCEPT ![c].state = "CLOSED"]
    /\ rx' = [rx EXCEPT ![c] = <<>>]
    /\ UNCHANGED <<type, ended, lost, requests, answered, cchan, clist, active,
                   serverVars, wire>>

(* mrcp_client_agent_disconnect_raise, when the peer has closed the        *)
(* connection: cancel the active requests.  The connection stays in the    *)
(* list, but its buffer is not read again.                                 *)
mrcp_client_agent_disconnect_raise(c) ==
    LET cancelled == {ch \in cconn[c].channels : active[ch].request # 0}
    IN  /\ HasSocket(cconn[c]) /\ PeerGone(sconn[c], c)
        /\ down[c] = <<>>
        /\ cconn' = [cconn EXCEPT ![c].state = "CLOSED"]
        /\ rx' = [rx EXCEPT ![c] = <<>>]
        /\ active' = [ch \in Channels |->
                        IF ch \in cancelled THEN NoRequest ELSE active[ch]]
        /\ answered' = [i \in Ids |->
               answered[i] + Cardinality({ch \in cancelled : active[ch].request = i})]
        /\ UNCHANGED <<type, ended, lost, requests, cchan, clist, serverVars, wire>>

(* mrcp_client_timer_proc: a request that has timed out is cancelled.      *)
mrcp_client_timer_proc(ch) ==
    /\ active[ch].timer
    /\ active' = [active EXCEPT ![ch] = NoRequest]
    /\ answered' = IF active[ch].request # 0
                     THEN [answered EXCEPT ![active[ch].request] = @ + 1]
                     ELSE answered
    /\ UNCHANGED <<type, ended, lost, requests, cchan, cconn, clist, rx,
                   serverVars, wire>>

(* mrcp_client_session_terminate_event_process and the application: a call *)
(* is ended by the client, or by the server session that was told that its *)
(* connection is lost.                                                     *)
CallEnds(ch) ==
    /\ ch \notin ended
    /\ \/ cchan[ch].phase \in {"UP", "FAILED"} /\ Idle(ch)
       \/ ch \in lost
    /\ ended' = ended \cup {ch}
    /\ UNCHANGED <<type, lost, requests, answered, clientVars, serverVars, wire>>

-----------------------------------------------------------------------------
(* The server agent.                                                       *)

(* mrcp_server_agent_channel_add: the channel is pending, and the client   *)
(* may be told to make a new connection.                                   *)
mrcp_server_agent_channel_add(ch) ==
    LET shared == /\ type[ch] = "EXISTING" /\ ~ForceNew
                  /\ \E c \in Conns :
                       /\ First(slist, c)
                       /\ MaxSharedUse # 0 => sconn[c].use_count < MaxSharedUse
    IN  /\ cchan[ch].phase = "OFFERED" /\ schan[ch].phase = "NONE"
        /\ schan' = [schan EXCEPT ![ch].phase = "UP"]
        /\ type' = [type EXCEPT ![ch] = IF shared THEN "EXISTING" ELSE "NEW"]
        /\ pending' = pending \cup {ch}
        /\ UNCHANGED <<ended, lost, requests, answered, clientVars, sconn, slist,
                       terminating, work, wire>>

(* mrcp_server_agent_connection_accept: a connection nobody is waiting for *)
(* is rejected.                                                            *)
mrcp_server_agent_connection_accept(c) ==
    /\ First({d \in Conns : sconn[d].state = "BACKLOG"}, c)
    /\ IF pending = {}
         THEN /\ sconn' = [sconn EXCEPT ![c].state = "DESTROYED"]
              /\ UNCHANGED slist
         ELSE /\ sconn' = [sconn EXCEPT ![c].state = "OPEN"]
              /\ slist' = slist \cup {c}
    /\ UNCHANGED <<type, ended, lost, requests, answered, clientVars, schan, pending,
                   terminating, work, wire>>

(* mrcp_connection_channel_associate: the first message of a channel takes *)
(* the channel out of the pending table.                                   *)
Associates(c, ch) == ch \notin sconn[c].channels /\ ch \in pending

(* mrcp_server_message_handler: a message for an unknown channel is        *)
(* dropped.                                                                *)
mrcp_server_message_handler(c) ==
    LET id == Head(up[c])
        ch == requests[id]
        new == Associates(c, ch)
    IN  /\ sconn[c].state = "OPEN" /\ up[c] # <<>>
        /\ up' = [up EXCEPT ![c] = Tail(@)]
        /\ sconn' = IF new THEN [sconn EXCEPT ![c].channels = @ \cup {ch},
                                              ![c].use_count = @ + 1]
                           ELSE sconn
        /\ schan' = IF new THEN [schan EXCEPT ![ch].connection = c] ELSE schan
        /\ pending' = IF new THEN pending \ {ch} ELSE pending
        /\ work' = IF ch \in sconn'[c].channels
                     THEN [work EXCEPT ![ch] = Append(@, id)] ELSE work
        /\ UNCHANGED <<type, ended, lost, requests, answered, clientVars, slist,
                       terminating, broken, down>>

Close(c) ==
    /\ \/ /\ sconn[c].channels = {}
          /\ sconn' = [sconn EXCEPT ![c].state = "DESTROYED"]
       \/ /\ sconn[c].channels # {}
          /\ sconn' = [sconn EXCEPT ![c].state = "CLOSED"]
    /\ slist' = slist \ {c}
    /\ up' = [up EXCEPT ![c] = <<>>]

(* mrcp_server_agent_connection_close: sessions are told at once that the  *)
(* connection is lost after an inactivity timeout, and after the           *)
(* termination timeout if it is the peer that has disconnected.            *)
mrcp_server_agent_connection_close(c, timedout) ==
    /\ Close(c)
    /\ lost' = IF timedout THEN lost \cup sconn[c].channels ELSE lost
    /\ terminating' = IF sconn[c].channels # {} /\ ~timedout /\ TerminationTimeout
                        THEN terminating \cup {c} ELSE terminating

(* mrcp_server_poller_signal_process, at the end of the stream.            *)
mrcp_server_peer_disconnected(c) ==
    /\ sconn[c].state = "OPEN" /\ up[c] = <<>> /\ PeerGone(cconn[c], c)
    /\ mrcp_server_agent_connection_close(c, FALSE)
    /\ UNCHANGED <<type, ended, requests, answered, clientVars, schan, pending, work,
                   broken, down>>

mrcp_server_inactivity_timer_proc(c) ==
    /\ sconn[c].state = "OPEN"
    /\ mrcp_server_agent_connection_close(c, TRUE)
    /\ UNCHANGED <<type, ended, requests, answered, clientVars, schan, pending, work,
                   broken, down>>

mrcp_server_termination_timer_proc(c) ==
    /\ c \in terminating
    /\ lost' = lost \cup sconn[c].channels
    /\ terminating' = terminating \ {c}
    /\ UNCHANGED <<type, ended, requests, answered, clientVars, schan, sconn, slist,
                   pending, work, wire>>

(* mrcp_connection_channel_remove, of a channel that is not to destroy its *)
(* connection.                                                             *)
Detach(ch, c) ==
    /\ schan' = [schan EXCEPT ![ch] = [phase |-> "REMOVED", connection |-> NULL]]
    /\ sconn' = [sconn EXCEPT ![c].channels = @ \ {ch}]

mrcp_server_agent_channel_remove_unmarked(ch) ==
    LET c == schan[ch].connection
    IN  /\ schan[ch].phase = "UP" /\ ch \in ended
        /\ \/ /\ c = NULL
              /\ schan' = [schan EXCEPT ![ch].phase = "REMOVED"]
              /\ pending' = pending \ {ch}
              /\ UNCHANGED <<sconn, terminating>>
           \/ /\ c # NULL
              /\ Detach(ch, c)
              /\ terminating' = terminating \ {c}
              /\ UNCHANGED pending
        /\ UNCHANGED <<type, ended, lost, requests, answered, clientVars, slist,
                       work, wire>>

mrcp_server_agent_channel_remove_keeps_timer(ch) ==
    LET c == schan[ch].connection
    IN  /\ schan[ch].phase = "UP" /\ ch \in ended
        /\ c # NULL
        /\ schan' = [schan EXCEPT ![ch].phase = "REMOVED"]
        /\ sconn' = [sconn EXCEPT ![c].channels = @ \ {ch}]
        /\ UNCHANGED <<type, ended, lost, requests, answered, clientVars, slist,
                       pending, terminating, work, wire>>

(* mrcp_server_agent_channel_remove: the last channel of a connection that *)
(* is closed is to destroy the connection.                                 *)
mrcp_server_agent_channel_remove(ch) ==
    LET c == schan[ch].connection
        IsLast == sconn[c].channels = {ch} /\ sconn[c].state = "CLOSED"
    IN  /\ schan[ch].phase = "UP" /\ ch \in ended
        /\ \/ /\ c = NULL
              /\ schan' = [schan EXCEPT ![ch].phase = "REMOVED"]
              /\ pending' = pending \ {ch}
              /\ UNCHANGED <<sconn, terminating>>
           \/ /\ c # NULL /\ ~IsLast
              /\ Detach(ch, c)
              /\ UNCHANGED <<pending, terminating>>
           \/ /\ c # NULL /\ IsLast
              /\ schan' = [schan EXCEPT ![ch].phase = "REMOVED"]
              /\ sconn' = [sconn EXCEPT ![c].channels = {}]
              /\ terminating' = terminating \ {c}
              /\ UNCHANGED pending
        /\ UNCHANGED <<type, ended, lost, requests, answered, clientVars, slist,
                       work, wire>>

(* mrcp_server_control_channel_destroy, by the task of the session.        *)
mrcp_server_control_channel_destroy(ch) ==
    LET c == schan[ch].connection
    IN  /\ schan[ch].phase = "REMOVED"
        /\ schan' = [schan EXCEPT ![ch] = [phase |-> "DESTROYED", connection |-> NULL]]
        /\ \/ c = NULL /\ UNCHANGED sconn
           \/ c # NULL /\ sconn' = [sconn EXCEPT ![c].state = "DESTROYED"]
        /\ UNCHANGED <<type, ended, lost, requests, answered, clientVars, slist,
                       pending, terminating, work, wire>>

(* mrcp_server_agent_messsage_send, with the response of the session.  It  *)
(* is lost if there is no connection any more.                             *)
mrcp_server_agent_messsage_send(ch) ==
    LET c == schan[ch].connection
    IN  /\ schan[ch].phase = "UP" /\ work[ch] # <<>>
        /\ work' = [work EXCEPT ![ch] = Tail(@)]
        /\ down' = IF HasSocket(sconn[c]) /\ ~PeerGone(cconn[c], c)
                     THEN [down EXCEPT ![c] = Append(@, Head(work[ch]))]
                     ELSE down
        /\ UNCHANGED <<type, ended, lost, requests, answered, clientVars, schan, sconn,
                       slist, pending, terminating, broken, up>>

-----------------------------------------------------------------------------
(* The TCP link of a connection fails; what is on its way is lost.         *)
LinkFails(c) ==
    /\ c \notin broken /\ HasSocket(cconn[c]) /\ sconn[c].state = "OPEN"
    /\ broken' = broken \cup {c}
    /\ up' = [up EXCEPT ![c] = <<>>]
    /\ down' = [down EXCEPT ![c] = <<>>]
    /\ UNCHANGED <<type, ended, lost, requests, answered, clientVars, serverVars>>

Init ==
    /\ ended = {} /\ lost = {} /\ broken = {}
    /\ requests = <<>> /\ answered = [i \in Ids |-> 0]
    /\ cchan = [ch \in Channels |-> [phase |-> "NONE",
                                     connection |-> NULL]]
    /\ active = [ch \in Channels |-> NoRequest]
    /\ cconn = [c \in Conns |-> [state |-> "NONE", channels |-> {}]]
    /\ type = [ch \in Channels |-> "NEW"]
    /\ clist = {} /\ rx = [c \in Conns |-> <<>>]
    /\ schan = [ch \in Channels |-> [phase |-> "NONE",
                                     connection |-> NULL]]
    /\ sconn = [c \in Conns |-> [state |-> "NONE", channels |-> {}, use_count |-> 0]]
    /\ slist = {} /\ pending = {} /\ terminating = {}
    /\ work = [ch \in Channels |-> <<>>]
    /\ up = [c \in Conns |-> <<>>] /\ down = [c \in Conns |-> <<>>]

ClientAgent ==
    \/ \E ch \in Channels : \/ mrcp_client_agent_channel_add(ch)
                           \/ mrcp_client_agent_channel_modify(ch)
                           \/ mrcp_client_agent_channel_remove(ch)
                           \/ mrcp_client_control_channel_destroy(ch)
                           \/ mrcp_client_agent_messsage_send(ch)
                           \/ mrcp_client_timer_proc(ch)
    \/ \E c \in Conns : \/ mrcp_client_poller_signal_process(c)
                       \/ mrcp_client_agent_disconnect_raise(c)

ServerAgent ==
    \/ \E ch \in Channels : \/ mrcp_server_agent_channel_add(ch)
                           \/ mrcp_server_agent_channel_remove(ch)
                           \/ mrcp_server_control_channel_destroy(ch)
                           \/ mrcp_server_agent_messsage_send(ch)
    \/ \E c \in Conns : \/ mrcp_server_agent_connection_accept(c)
                       \/ mrcp_server_message_handler(c)
                       \/ mrcp_server_peer_disconnected(c)
                       \/ mrcp_server_inactivity_timer_proc(c)
                       \/ mrcp_server_termination_timer_proc(c)

Next ==
    \/ ClientAgent
    \/ ServerAgent
    \/ \E ch \in Channels : CallEnds(ch)
    \/ \E c \in Conns : LinkFails(c)

Spec == Init /\ [][Next]_vars

(* What the two tasks still have to do for a session, and on a connection. *)
ClientSteps(ch) ==
    \/ mrcp_client_agent_channel_modify(ch) \/ mrcp_client_agent_channel_remove(ch)
    \/ mrcp_client_control_channel_destroy(ch) \/ mrcp_client_timer_proc(ch)

ServerSteps(ch) ==
    \/ mrcp_server_agent_channel_add(ch) \/ mrcp_server_agent_channel_remove(ch)
    \/ mrcp_server_control_channel_destroy(ch) \/ mrcp_server_agent_messsage_send(ch)

ClientSocketSteps(c) == mrcp_client_poller_signal_process(c) \/ mrcp_client_agent_disconnect_raise(c)

ServerSocketSteps(c) ==
    \/ mrcp_server_agent_connection_accept(c) \/ mrcp_server_message_handler(c)
    \/ mrcp_server_peer_disconnected(c) \/ mrcp_server_termination_timer_proc(c)

(* Both tasks keep handling their signals and timers, and sessions go on   *)
(* with what they have begun.  Nothing makes an application send a request *)
(* or end a call, an idle connection time out, or a link fail.             *)
Fairness ==
    /\ \A ch \in Channels : WF_vars(ClientSteps(ch)) /\ WF_vars(ServerSteps(ch))
    /\ \A c \in Conns : WF_vars(ClientSocketSteps(c)) /\ WF_vars(ServerSocketSteps(c))

FairSpec == Spec /\ Fairness

-----------------------------------------------------------------------------
(* Properties.                                                             *)

Phases == {"NONE", "OFFERED", "UP", "FAILED", "REMOVED", "DESTROYED"}
Types == {"NEW", "EXISTING"}
States == {"NONE", "BACKLOG", "OPEN", "CLOSED", "DESTROYED"}
Requests == UNION {[1..n -> Ids] : n \in 0..MaxRequests}

(* The variables have their types.                                         *)
TypeOK ==
    /\ ended \subseteq Channels /\ lost \subseteq Channels
    /\ pending \subseteq Channels /\ broken \subseteq Conns
    /\ requests \in UNION {[1..n -> Channels] : n \in 0..MaxRequests}
    /\ answered \in [Ids -> Nat] /\ type \in [Channels -> Types]
    /\ cchan \in [Channels -> [phase : Phases,
                               connection : Conns \cup {NULL}]]
    /\ active \in [Channels -> [request : Ids \cup {0}, timer : BOOLEAN]]
    /\ cconn \in [Conns -> [state : States, channels : SUBSET Channels]]
    /\ schan \in [Channels -> [phase : Phases,
                               connection : Conns \cup {NULL}]]
    /\ sconn \in [Conns -> [state : States, channels : SUBSET Channels,
                            use_count : Nat]]
    /\ clist \subseteq Conns /\ slist \subseteq Conns /\ terminating \subseteq Conns
    /\ work \in [Channels -> Requests]
    /\ {up, down, rx} \subseteq [Conns -> Requests]

(* No agent reaches a connection that a session has destroyed with the     *)
(* last channel of it (mrcp_connection_destroy frees its memory, timers    *)
(* included, in the task of the session): neither through its list, nor    *)
(* through a channel, nor when a termination timer fires.                  *)
NoUseAfterDestroy ==
    \A c \in Conns :
        /\ cconn[c].state = "DESTROYED" =>
             /\ c \notin clist /\ cconn[c].channels = {}
             /\ \A ch \in Channels : cchan[ch].connection # c
        /\ sconn[c].state = "DESTROYED" =>
             /\ c \notin slist /\ sconn[c].channels = {}
             /\ \A ch \in Channels : schan[ch].connection # c
             /\ c \notin terminating

(* A connection is not leaked: somebody is left who destroys it.  On the   *)
(* client that is a channel of it, or the channel removed last.  On the    *)
(* server it can also be the poller, as long as the socket is open.        *)
NoLeak ==
    \A c \in Conns :
        /\ cconn[c].state \in {"OPEN", "CLOSED"} =>
             \E ch \in Channels : cchan[ch].connection = c
        /\ sconn[c].state = "CLOSED" =>
             \E ch \in Channels : schan[ch].connection = c

(* A request is answered to the session at most once: the response of the  *)
(* server, the cancellation by the request timer and the cancellation when *)
(* the connection is lost exclude each other, however late the first is.   *)
AnsweredAtMostOnce == \A i \in Ids : answered[i] <= 1

(* Every request a session has sent is answered in the end, if by nobody   *)
(* else then by the agent itself (mrcp_client_agent_request_cancel).       *)
RequestsAnswered == \A i \in Ids : (i <= Len(requests)) ~> (answered[i] > 0)

(* A server session whose connection is closed is told so, or is over      *)
(* before (mrcp_server_agent_connection_close and the termination timer):  *)
(* no session is left behind a connection that is gone.                    *)
LossIsNoticed ==
    TerminationTimeout =>
        \A c \in Conns, ch \in Channels :
            (ch \in sconn[c].channels /\ sconn[c].state = "CLOSED")
                ~> (ch \in lost \/ schan[ch].phase # "UP")

(* What stays in the receive buffer of the client from one receive to the  *)
(* next has not been handled: "calculate offset remaining from the         *)
(* previous receive" (mrcp_client_poller_signal_process).                  *)
RemainingIsUnhandled ==
    \A c \in Conns : \A i \in DOMAIN rx[c] : answered[rx[c][i]] = 0

-----------------------------------------------------------------------------

(* Every request is answered in the end, by the server or, when the        *)
(* connection is lost, by the client's agent (mrcp_client_agent_request_   *)
(* cancel); and a server session whose connection is closed is told so or  *)
(* is over before (mrcp_server_agent_connection_close and its timer).      *)
ConnectionSettles == RequestsAnswered /\ LossIsNoticed

=============================================================================
