---------------------------- MODULE ServerLifecycle ----------------------------
(***************************************************************************)
(* The life of the server program: started, taken offline and online from  *)
(* the console, and shut down while calls come and go and engines open and *)
(* close in their own time (libs/mrcp-server/src/mrcp_server.c,            *)
(* platforms/unimrcp-server, modules/mrcp-sofiasip).                       *)
(*                                                                         *)
(* The server is a task with a queue; its children are the signaling agent *)
(* and the tasks of media and connections.  What a session does between    *)
(* its offer and its end is the subject of ServerSession.                  *)
(***************************************************************************)
EXTENDS Naturals, Sequences, FiniteSets

CONSTANTS
    Sip,            \* the signaling agent's task
    Others,         \* the other children: media engine, connection agent
    EngineIds,
    MaxInputs,      \* bound: calls, and offline and online commands, together
    MaxBacklog      \* bound: messages the server lags behind when a command or a call comes

VARIABLES
    console,        \* the program: created, running, shutdown, joined, destroyed
    server,         \* mrcp_server_t and the task it is
    child,          \* the children of the task
    engine,         \* mrcp_engine_t, and what has become of the engine itself
    call,           \* the sessions of the SIP agent
    commands,       \* offline and online commands given
    hasty,          \* the shutdown was requested before everything had started
    early           \* the server terminated while the agent took calls

lifeVars == <<console, server, child, engine, call, commands, hasty, early>>

Calls == 1 .. MaxInputs

Taken == {s \in Calls : call[s].state # "none"}

Children == {Sip} \cup Others

Msg(type, who) == [type |-> type, who |-> who]

LifeInit ==
    /\ console = "created"
    /\ server = [thread |-> "none", queue |-> <<>>, shutdown_requested |-> FALSE, sessions |-> {},
                 start |-> 0, off |-> 0, on |-> 0, term |-> 0, join |-> {}]
    /\ child = [c \in Children |-> [thread |-> "none", online |-> TRUE, queue |-> <<>>, ending |-> FALSE]]
    /\ engine = [e \in EngineIds |-> [is_open |-> FALSE, is |-> "idle"]]
    /\ call = [s \in Calls |-> [state |-> "none", up |-> FALSE, bye |-> FALSE]]
    /\ commands = 0
    /\ hasty = FALSE
    /\ early = FALSE

Abreast == Len(server.queue) < MaxBacklog

MayInput == Abreast /\ commands + Cardinality(Taken) < MaxInputs

Post(sv, type, who) == [sv EXCEPT !.queue = Append(@, Msg(type, who))]

-----------------------------------------------------------------------------
(* The program: command line or daemon.                                    *)

unimrcp_server_start ==
    /\ console = "created"
    /\ console' = "running"
    /\ server' = [server EXCEPT !.thread = "created"]
    /\ UNCHANGED <<child, engine, call, commands, hasty, early>>

\* mrcp_server_offline, mrcp_server_online
cmdline_process(command) ==
    /\ console = "running" /\ MayInput
    /\ commands' = commands + 1
    /\ server' = Post(server, command, Sip)
    /\ UNCHANGED <<console, child, engine, call, hasty, early>>

Started ==
    /\ server.thread = "loop" /\ server.start = 0
    /\ \A c \in Children : child[c].thread # "created"

\* "exit", or SIGTERM: apt_task_terminate, which waits for the thread.
mrcp_server_shutdown ==
    /\ console = "running" /\ Abreast
    /\ console' = "shutdown"
    /\ hasty' = ~Started
    /\ server' = Post(server, "TERMINATE", Sip)
    /\ UNCHANGED <<child, engine, call, commands, early>>

Joined ==
    /\ console = "shutdown" /\ server.thread = "ended"
    /\ console' = "joined"
    /\ server' = [server EXCEPT !.sessions = {}]
    /\ UNCHANGED <<child, engine, call, commands, hasty, early>>

mrcp_engine_factory_destroy == [e \in EngineIds |-> [engine[e] EXCEPT !.is = "destroyed"]]

\* The engines go first; then apt_task_destroy waits for the threads that have not
\* ended.
mrcp_server_destroy ==
    \/ /\ console = "joined" /\ console' = "destroying"
       /\ engine' = mrcp_engine_factory_destroy
       /\ UNCHANGED <<server, child, call, commands, hasty, early>>
    \/ /\ console = "destroying" /\ console' = "destroyed"
       /\ \A c \in Children : child[c].thread \in {"none", "ended"}
       /\ UNCHANGED <<server, child, engine, call, commands, hasty, early>>

-----------------------------------------------------------------------------
(* The server's task.                                                      *)

mrcp_engine_virtual_open(e, taken) ==
    IF ~e.is_open /\ taken THEN [e EXCEPT !.is = "opening"] ELSE e

\* apt_task_run with the opening of the engines, some of which refuse at once.
mrcp_server_start_request_process ==
    /\ server.thread = "created"
    /\ \E taken \in SUBSET EngineIds :
            /\ engine' = [e \in EngineIds |-> mrcp_engine_virtual_open(engine[e], e \in taken)]
            /\ server' = [server EXCEPT !.thread = "loop", !.start = Cardinality(taken) + Cardinality(Children)]
    /\ child' = [c \in Children |-> [child[c] EXCEPT !.thread = "created"]]
    /\ UNCHANGED <<console, call, commands, hasty, early>>

\* The engine is closed only if its opening has been reported.
mrcp_engine_virtual_close(e) ==
    IF e.is_open THEN [is_open |-> FALSE, is |-> "closing"] ELSE e

\* The children apt_task_terminate waits for: without a NUA the SIP agent has
\* nothing to shut down, and is not waited for.
ToJoin == {c \in Children : child[c].thread = "run" \/ (child[c].thread = "created" /\ c # Sip)}

TakesCalls ==
    child[Sip].thread = "created" \/ (child[Sip].thread = "run" /\ (child[Sip].online \/ child[Sip].queue # <<>>))

mrcp_server_do_terminate(sv) ==
    /\ engine' = [e \in EngineIds |-> mrcp_engine_virtual_close(engine[e])]
    /\ child' = [c \in Children |-> [child[c] EXCEPT !.ending = c \in ToJoin]]
    /\ server' = [sv EXCEPT !.shutdown_requested = FALSE, !.join = ToJoin, !.thread = "joining",
                            !.term = Cardinality({e \in EngineIds : engine[e].is_open})]
    /\ early' = (TakesCalls \/ sv.off # 0)

\* apt_task_terminate_process_internal: the children are joined one by one; with
\* no engine to wait for the loop ends.
JoinChildren ==
    /\ server.thread = "joining"
    /\ \A c \in server.join : child[c].thread = "ended"
    /\ server' = [server EXCEPT !.thread = IF server.term = 0 THEN "ended" ELSE "loop"]
    /\ UNCHANGED <<console, child, engine, call, commands, hasty, early>>

mrcp_server_session_idle_test(sv) ==
    IF sv.shutdown_requested /\ sv.sessions = {}
    THEN mrcp_server_do_terminate(sv)
    ELSE server' = sv /\ UNCHANGED <<child, engine, early>>

\* The sessions that are not ending already are told to.
mrcp_server_sessions_release(sv) ==
    call' = [s \in Calls |-> [call[s] EXCEPT !.bye = @ \/ (s \in sv.sessions /\ call[s].state = "active")]]

mrcp_server_on_offline_complete(sv) ==
    /\ IF sv.shutdown_requested THEN mrcp_server_sessions_release(sv) ELSE UNCHANGED call
    /\ mrcp_server_session_idle_test(sv)

\* mrcp_sofia_task_msg_signal fails when the agent has ended; a poller's queue
\* takes messages all the same.
Signalled == {c \in Children : c # Sip \/ child[c].thread = "run"}

Forward(type) ==
    child' = [c \in Children |-> IF c \in Signalled THEN [child[c] EXCEPT !.queue = Append(@, type)] ELSE child[c]]

\* apt_core_task_msg_process: the requests and their completions are counted.
CoreMessage(m, sv) ==
    \/ /\ m.type = "START-COMPLETE"
       /\ server' = [sv EXCEPT !.start = @ - 1]
       /\ UNCHANGED <<child, engine, call, early>>
    \/ /\ m.type = "OFFLINE"
       /\ IF sv.off + Cardinality(Signalled) = 0
          THEN mrcp_server_on_offline_complete(sv)
          ELSE /\ server' = [sv EXCEPT !.off = @ + Cardinality(Signalled)]
               /\ Forward("OFFLINE")
               /\ UNCHANGED <<engine, call, early>>
    \/ /\ m.type = "ONLINE"
       /\ server' = [sv EXCEPT !.on = @ + Cardinality(Signalled)]
       /\ Forward("ONLINE")
       /\ UNCHANGED <<engine, call, early>>
    \/ /\ m.type = "OFFLINE-COMPLETE"
       /\ IF sv.off = 1
          THEN mrcp_server_on_offline_complete([sv EXCEPT !.off = 0])
          ELSE server' = [sv EXCEPT !.off = @ - 1] /\ UNCHANGED <<child, engine, call, early>>
    \/ /\ m.type = "ONLINE-COMPLETE"
       /\ server' = [sv EXCEPT !.on = @ - 1]
       /\ UNCHANGED <<child, engine, call, early>>

\* The agents are taken offline first: the request goes through the server's own queue.
mrcp_server_terminate_request_process(m, sv) ==
    /\ m.type = "TERMINATE"
    /\ server' = Post([sv EXCEPT !.shutdown_requested = TRUE], "OFFLINE", Sip)
    /\ UNCHANGED <<child, engine, call, early>>

\* apt_task_start_request_remove, apt_task_terminate_request_remove
EngineMessage(m, sv) ==
    \/ /\ m.type \in {"OPENED", "OPEN-FAILED"}
       /\ engine' = [engine EXCEPT ![m.who].is_open = m.type = "OPENED"]
       /\ server' = [sv EXCEPT !.start = @ - 1]
       /\ UNCHANGED <<child, call, early>>
    \/ /\ m.type = "CLOSED"
       /\ engine' = [engine EXCEPT ![m.who].is_open = FALSE]
       /\ server' = [sv EXCEPT !.term = @ - 1, !.thread = IF sv.term = 1 THEN "ended" ELSE @]
       /\ UNCHANGED <<child, call, early>>

\* mrcp_server_session_add with the first offer, mrcp_server_session_remove at the end
SessionMessage(m, sv) ==
    \/ /\ m.type = "OFFER"
       /\ server' = [sv EXCEPT !.sessions = @ \cup {m.who}]
       /\ call' = [call EXCEPT ![m.who].state = "active"]
       /\ UNCHANGED <<child, engine, early>>
    \/ /\ m.type = "END"
       /\ server' = sv
       /\ call' = [call EXCEPT ![m.who].state = "deactivating"]
       /\ UNCHANGED <<child, engine, early>>
    \/ /\ m.type = "DEACTIVATED"
       /\ call' = [call EXCEPT ![m.who].state = "gone"]
       /\ mrcp_server_session_idle_test([sv EXCEPT !.sessions = @ \ {m.who}])

mrcp_server_msg_process ==
    /\ server.thread = "loop" /\ server.queue # <<>>
    /\ \E m \in {Head(server.queue)}, sv \in {[server EXCEPT !.queue = Tail(@)]} :
            \/ CoreMessage(m, sv)
            \/ mrcp_server_terminate_request_process(m, sv)
            \/ EngineMessage(m, sv)
            \/ SessionMessage(m, sv)
    /\ UNCHANGED <<console, commands, hasty>>

-----------------------------------------------------------------------------
(* Engines answer in their own time.                                       *)

EngineOpens(e) ==
    /\ engine[e].is = "opening"
    /\ \E ok \in BOOLEAN :
            /\ engine' = [engine EXCEPT ![e].is = IF ok THEN "opened" ELSE "failed"]
            /\ server' = Post(server, IF ok THEN "OPENED" ELSE "OPEN-FAILED", e)
    /\ UNCHANGED <<console, child, call, commands, hasty, early>>

EngineCloses(e) ==
    /\ engine[e].is = "closing"
    /\ engine' = [engine EXCEPT ![e].is = "closed"]
    /\ server' = Post(server, "CLOSED", e)
    /\ UNCHANGED <<console, child, call, commands, hasty, early>>

-----------------------------------------------------------------------------
(* The children, and the calls of the SIP agent.                           *)

\* mrcp_sofia_task_initialize: an agent without a NUA has started, and its thread
\* ends (mrcp_sofia_task_run).
ChildRun(c) ==
    /\ child[c].thread = "created"
    /\ \E nua \in BOOLEAN :
            /\ c # Sip => nua
            /\ child' = [child EXCEPT ![c].thread = IF nua THEN "run" ELSE "ended"]
    /\ server' = Post(server, "START-COMPLETE", c)
    /\ UNCHANGED <<console, engine, call, commands, hasty, early>>

\* mrcp_sofia_task_on_offline, mrcp_sofia_task_on_online
ChildMessage(c) ==
    /\ child[c].thread = "run" /\ child[c].queue # <<>>
    /\ \E m \in {Head(child[c].queue)} :
            /\ child' = [child EXCEPT ![c].queue = Tail(@), ![c].online = m = "ONLINE"]
            /\ server' = Post(server, IF m = "ONLINE" THEN "ONLINE-COMPLETE" ELSE "OFFLINE-COMPLETE", c)
    /\ UNCHANGED <<console, engine, call, commands, hasty, early>>

\* nua_shutdown has ended the agent's loop (mrcp_sofia_task_break), or a poller has
\* come to the request in its queue.
ChildEnds(c) ==
    /\ child[c].thread = "run" /\ child[c].ending
    /\ c # Sip => child[c].queue = <<>>
    /\ child' = [child EXCEPT ![c].thread = "ended"]
    /\ UNCHANGED <<console, server, engine, call, commands, hasty, early>>

\* An INVITE: mrcp_sofia_on_invite creates the session for one with an
\* Accept-Contact header, mrcp_sofia_on_call_receive for the others.
mrcp_sofia_on_call_receive_always(s, contact, parsed) ==
    /\ call' = [call EXCEPT ![s] = [state |-> IF parsed THEN "offered" ELSE "invited", up |-> TRUE, bye |-> ~parsed]]
    /\ server' = IF parsed THEN Post(server, "OFFER", s) ELSE server

\* Offline, or with a description it cannot read, the agent refuses the call, which
\* ends it.
mrcp_sofia_on_call_receive(s, contact, parsed) ==
    LET taken == child[Sip].online /\ parsed
    IN  /\ child[Sip].online \/ contact
        /\ call' = [call EXCEPT ![s] = [state |-> IF taken THEN "offered" ELSE "invited", up |-> TRUE, bye |-> ~taken]]
        /\ server' = IF taken THEN Post(server, "OFFER", s) ELSE server

mrcp_sofia_on_invite(s) ==
    /\ child[Sip].thread = "run" /\ s = Cardinality(Taken) + 1 /\ MayInput
    /\ \E contact, parsed \in BOOLEAN : mrcp_sofia_on_call_receive(s, contact, parsed)
    /\ UNCHANGED <<console, child, engine, commands, hasty, early>>

\* The peer hangs up, or the BYE or the refusal of the agent is through.
mrcp_sofia_on_call_terminate(s) ==
    /\ child[Sip].thread = "run" /\ call[s].up
    /\ call' = [call EXCEPT ![s].up = FALSE]
    /\ server' = Post(server, "END", s)
    /\ UNCHANGED <<console, child, engine, commands, hasty, early>>

CallOver(s) == call[s].bye /\ mrcp_sofia_on_call_terminate(s)

\* The session's channels and terminations are gone (ServerSession): the tasks of
\* media and connections have answered.
Deactivate(s) ==
    /\ call[s].state = "deactivating"
    /\ \A c \in Others : child[c].thread = "run"
    /\ call' = [call EXCEPT ![s].state = "deactivated"]
    /\ server' = Post(server, "DEACTIVATED", s)
    /\ UNCHANGED <<console, child, engine, commands, hasty, early>>

-----------------------------------------------------------------------------
LifeNext ==
    \/ unimrcp_server_start \/ cmdline_process("OFFLINE") \/ cmdline_process("ONLINE")
    \/ mrcp_server_shutdown \/ Joined \/ mrcp_server_destroy
    \/ mrcp_server_start_request_process \/ mrcp_server_msg_process \/ JoinChildren
    \/ \E e \in EngineIds : EngineOpens(e) \/ EngineCloses(e)
    \/ \E c \in Children : ChildRun(c) \/ ChildMessage(c) \/ ChildEnds(c)
    \/ \E s \in Calls : mrcp_sofia_on_invite(s) \/ mrcp_sofia_on_call_terminate(s) \/ Deactivate(s)

\* Threads run, engines answer, a call that is to end ends, sessions deactivate.
LifeStep ==
    \/ Joined \/ mrcp_server_destroy
    \/ mrcp_server_start_request_process \/ mrcp_server_msg_process \/ JoinChildren
    \/ \E e \in EngineIds : EngineOpens(e) \/ EngineCloses(e)
    \/ \E c \in Children : ChildRun(c) \/ ChildMessage(c) \/ ChildEnds(c)
    \/ \E s \in Calls : CallOver(s) \/ Deactivate(s)

LifeFairness == WF_lifeVars(LifeStep)

LifeTypeOK ==
    /\ server.sessions \subseteq Calls
    /\ server.start \in 0 .. Cardinality(EngineIds \cup Children) /\ server.term \in 0 .. Cardinality(EngineIds)
    /\ \A e \in EngineIds : engine[e].is_open => engine[e].is = "opened"

\* The server's thread ends after every engine that was opened has been closed,
\* whatever the order in which the engines open, close and fail to, and the engines
\* are destroyed when no child runs any more that could use them
\* (mrcp_server_start_request_process, mrcp_server_do_terminate, mrcp_server_destroy);
\* unless the shutdown was requested before everything had started: it does not wait
\* for an engine that is still opening, nor for an agent that has no NUA yet.
EnginesClosedFirst ==
    ~hasty =>
        /\ server.thread = "ended" =>
               \A e \in EngineIds : engine[e].is \in {"idle", "failed", "closed", "destroyed"}
        /\ \A e \in EngineIds, c \in Children : engine[e].is = "destroyed" => child[c].thread = "ended"

\* No call is left behind: when the server ends, every session it was offered has
\* been removed, since the agent's offers precede its report of being offline in the
\* server's queue (mrcp_server_on_offline_complete); unless the server terminated
\* before the agent was offline, because the last session ended in between
\* (mrcp_server_session_idle_test does not ask whether it is) or a former offline
\* request completed: then the offer of a call may stay unread.
NobodyLeft ==
    server.thread = "ended" /\ console = "shutdown" /\ ~early =>
        server.sessions = {} /\ \A i \in DOMAIN server.queue : server.queue[i].type # "OFFER"

\* A shutdown that is requested once everything has started completes: the calls are
\* ended, the engines closed, the children joined (mrcp_server_terminate_request_process).
\* One requested earlier may wait for ever, for an agent it did not tell to end.
ShutdownCompletes == (console = "shutdown" /\ ~hasty) ~> (console = "destroyed")
=============================================================================
