--------------------------------- MODULE Task ---------------------------------
(***************************************************************************)
(* A tree of tasks (libs/apr-toolkit/src/apt_task.c): a consumer task, as  *)
(* of the server or the client, and the poller tasks it starts, takes      *)
(* offline, brings online and terminates.  Each task is a thread with a    *)
(* message queue; the program that owns the tree is the controller.        *)
(*                                                                         *)
(* The consumer's queue is an apr_queue whose push blocks when it is full; *)
(* a poller's queue grows.  ENABLE_SIMULT_TASK_TERMINATION is not defined, *)
(* so a task joins its children one by one.                                *)
(***************************************************************************)
EXTENDS Naturals, Sequences, FiniteSets, SequencesExt

CONSTANTS
    Root,          \* the consumer task
    Children,      \* the sequence of its children, poller tasks
    QueueSize,     \* of the consumer's queue
    MaxCalls,      \* bound: offline and online requests of the controller
    MaxEvents      \* bound: messages the children send to the root

VARIABLES
    state, running, pending, msg_queue,
    thread,        \* where the task's thread is: none, created, loop, post, exited
    call,          \* the apt_task_terminate a thread is in
    control,       \* what the controller has done
    destroyed,     \* tasks whose lock is destroyed
    calls, events, \* counters of the bounds
    late           \* a thread set RUNNING over TERMINATE_REQUESTED before the
                   \* caller of apt_task_terminate read the state again

taskVars == <<state, running, pending, msg_queue, thread, call, control,
              destroyed, calls, events, late>>

Controller == "controller"

Tasks == {Root} \cup ToSet(Children)

ChildrenOf(t) == IF t = Root THEN Children ELSE <<>>

NoCall == [at |-> "none", i |-> 0]

(* The tasks a caller terminates, in order.                                *)
Callees(c) == IF c = Controller THEN <<Root>> ELSE ChildrenOf(c)

CalleeOf(c) == Callees(c)[call[c].i]

apt_task_create ==
    /\ state = [t \in Tasks |-> "IDLE"]
    /\ running = [t \in Tasks |-> FALSE]
    /\ pending = [t \in Tasks |-> [start |-> 0, off |-> 0, on |-> 0]]
    /\ msg_queue = [t \in Tasks |-> <<>>]
    /\ thread = [t \in Tasks |-> "none"]
    /\ call = [c \in Tasks \cup {Controller} |-> NoCall]
    /\ control = "created"
    /\ destroyed = {}
    /\ calls = 0
    /\ events = 0
    /\ late = FALSE

-----------------------------------------------------------------------------
(* Messages.                                                               *)

HasRoom(t) == t = Root => Len(msg_queue[t]) < QueueSize

(* The queues after m was sent to each task of ts.                         *)
apt_task_msg_signal(queues, ts, m) ==
    [t \in Tasks |-> IF t \in ts THEN Append(queues[t], m) ELSE queues[t]]

(* *_complete_raise: the parent is told; the root has none.                *)
Raise(queues, t, m) ==
    IF t = Root THEN queues ELSE apt_task_msg_signal(queues, {Root}, m)

-----------------------------------------------------------------------------
(* Start.                                                                  *)

(* apt_task_start of the tasks in ts, of which those in failed get no      *)
(* thread.                                                                 *)
apt_task_start(ts, failed) ==
    LET started == {t \in ts : state[t] = "IDLE"} \ failed
    IN  /\ state' = [t \in Tasks |-> IF t \in started THEN "START_REQUESTED" ELSE state[t]]
        /\ thread' = [t \in Tasks |-> IF t \in started THEN "created" ELSE thread[t]]

(* The head of apt_task_run with apt_task_start_process_internal.          *)
apt_task_run(t) ==
    /\ thread[t] = "created"
    /\ late' = (late \/ \E c \in DOMAIN call : call[c].at = "check" /\ CalleeOf(c) = t)
    /\ running' = [running EXCEPT ![t] = TRUE]
    /\ \E failed \in SUBSET ToSet(ChildrenOf(t)) :
         LET started == ToSet(ChildrenOf(t)) \ failed
         IN  /\ state' = [u \in Tasks |-> CASE u = t -> "RUNNING"
                                            [] u \in started -> "START_REQUESTED"
                                            [] OTHER -> state[u]]
             /\ thread' = [u \in Tasks |-> CASE u = t -> "loop"
                                             [] u \in started -> "created"
                                             [] OTHER -> thread[u]]
             /\ pending' = [pending EXCEPT ![t].start = @ + Cardinality(started)]
             /\ IF started = {} THEN HasRoom(Root) /\ msg_queue' = Raise(msg_queue, t, "START-COMPLETE")
                                ELSE UNCHANGED msg_queue
    /\ UNCHANGED <<call, control, destroyed, calls, events>>

(* The tail of apt_task_run.  A poller has emptied its queue first.        *)
apt_task_run_end(t) ==
    /\ thread[t] = "loop"
    /\ ~running[t]
    /\ t # Root => msg_queue[t] = <<>>
    /\ state' = [state EXCEPT ![t] = "IDLE"]
    /\ thread' = [thread EXCEPT ![t] = "post"]
    /\ UNCHANGED <<running, pending, msg_queue, call, control, destroyed, calls, events, late>>

(* on_post_run and apr_thread_exit                                         *)
apt_task_exit(t) ==
    /\ thread[t] = "post"
    /\ thread' = [thread EXCEPT ![t] = "exited"]
    /\ UNCHANGED <<state, running, pending, msg_queue, call, control, destroyed, calls, events, late>>

-----------------------------------------------------------------------------
(* The messages a task processes.                                          *)

(* apt_task_start_request_remove, apt_task_offline_request_complete,       *)
(* apt_task_online_request_complete                                        *)
request_complete(t, kind, m, rest) ==
    /\ pending' = [pending EXCEPT ![t][kind] = IF @ = 0 THEN 0 ELSE @ - 1]
    /\ msg_queue' = IF pending[t][kind] = 1 THEN Raise(rest, t, m) ELSE rest

(* apt_task_offline_request_process, apt_task_online_request_process       *)
request_process(t, kind, request, complete, rest) ==
    LET children == ToSet(ChildrenOf(t))
    IN  /\ pending' = [pending EXCEPT ![t][kind] = @ + Cardinality(children)]
        /\ msg_queue' = IF pending[t][kind] + Cardinality(children) = 0
                          THEN Raise(rest, t, complete)
                          ELSE apt_task_msg_signal(rest, children, request)

apt_core_task_msg_process(t, m, rest) ==
    \/ /\ m = "START-COMPLETE"
       /\ request_complete(t, "start", m, rest)
       /\ UNCHANGED call
    \/ /\ m = "OFFLINE-COMPLETE"
       /\ request_complete(t, "off", m, rest)
       /\ UNCHANGED call
    \/ /\ m = "ONLINE-COMPLETE"
       /\ request_complete(t, "on", m, rest)
       /\ UNCHANGED call
    \/ /\ m = "OFFLINE"
       /\ request_process(t, "off", m, "OFFLINE-COMPLETE", rest)
       /\ UNCHANGED call
    \/ /\ m = "ONLINE"
       /\ request_process(t, "on", m, "ONLINE-COMPLETE", rest)
       /\ UNCHANGED call
    \/ /\ m = "TERMINATE"
       /\ call' = [call EXCEPT ![t] = [at |-> "lock", i |-> 1]]
       /\ msg_queue' = rest
       /\ UNCHANGED pending

(* apt_task_msg_process, from the loop of a consumer or a poller.  What a  *)
(* message of the application (EVENT) does is not a matter of the task.    *)
apt_task_msg_process(t) ==
    /\ thread[t] = "loop"
    /\ t = Root => running[t]
    /\ call[t] = NoCall
    /\ msg_queue[t] # <<>>
    /\ LET m == Head(msg_queue[t])
           rest == [msg_queue EXCEPT ![t] = Tail(@)]
       IN  \/ /\ m # "EVENT"
              /\ t = Root \/ HasRoom(Root)
              /\ apt_core_task_msg_process(t, m, rest)
           \/ /\ m = "EVENT"
              /\ msg_queue' = rest
              /\ UNCHANGED <<pending, call>>
    /\ UNCHANGED <<state, running, thread, control, destroyed, calls, events, late>>

(* A poller has something to tell its parent (apt_task_msg_parent_signal). *)
apt_task_msg_parent_signal(t) ==
    /\ t # Root
    /\ thread[t] = "loop"
    /\ events < MaxEvents
    /\ HasRoom(Root)
    /\ events' = events + 1
    /\ msg_queue' = apt_task_msg_signal(msg_queue, {Root}, "EVENT")
    /\ UNCHANGED <<state, running, pending, thread, call, control, destroyed, calls, late>>

-----------------------------------------------------------------------------
(* apt_task_terminate of the i-th callee of c: the state is set with the   *)
(* lock held and read again without it; then c waits for the thread.       *)

NextCallee(c) == [at |-> "lock", i |-> call[c].i + 1]

apt_task_terminate_lock(c) ==
    /\ call[c].at = "lock"
    /\ call[c].i <= Len(Callees(c))
    /\ LET t == CalleeOf(c)
       IN  state' = IF state[t] \in {"START_REQUESTED", "RUNNING"}
                      THEN [state EXCEPT ![t] = "TERMINATE_REQUESTED"]
                      ELSE state
    /\ call' = [call EXCEPT ![c].at = "check"]
    /\ UNCHANGED <<running, pending, msg_queue, thread, control, destroyed, calls, events, late>>

apt_task_terminate_check_no_wait(c) ==
    /\ call[c].at = "check"
    /\ LET t == CalleeOf(c)
       IN  /\ IF state[t] = "TERMINATE_REQUESTED"
                THEN msg_queue' = apt_task_msg_signal(msg_queue, {t}, "TERMINATE")
                ELSE UNCHANGED msg_queue
           /\ call' = [call EXCEPT ![c] = NextCallee(c)]
    /\ UNCHANGED <<state, running, pending, thread, control, destroyed, calls, events, late>>

apt_task_terminate_check(c) ==
    /\ call[c].at = "check"
    /\ LET t == CalleeOf(c)
       IN  IF state[t] = "TERMINATE_REQUESTED"
             THEN /\ HasRoom(t)
                  /\ msg_queue' = apt_task_msg_signal(msg_queue, {t}, "TERMINATE")
                  /\ call' = [call EXCEPT ![c].at = "join"]
             ELSE /\ call' = [call EXCEPT ![c] = NextCallee(c)]
                  /\ UNCHANGED msg_queue
    /\ UNCHANGED <<state, running, pending, thread, control, destroyed, calls, events, late>>

apt_task_wait_till_complete(c) ==
    /\ call[c].at = "join"
    /\ thread[CalleeOf(c)] = "exited"
    /\ call' = [call EXCEPT ![c] = NextCallee(c)]
    /\ UNCHANGED <<state, running, pending, msg_queue, thread, control, destroyed, calls, events, late>>

(* The end of apt_task_terminate_process_internal.                         *)
apt_task_terminate_process_internal(t) ==
    /\ call[t].at = "lock"
    /\ call[t].i > Len(Callees(t))
    /\ call' = [call EXCEPT ![t] = NoCall]
    /\ running' = [running EXCEPT ![t] = FALSE]
    /\ UNCHANGED <<state, pending, msg_queue, thread, control, destroyed, calls, events, late>>

-----------------------------------------------------------------------------
(* The controller.                                                         *)

ControllerStarts ==
    /\ control = "created"
    /\ apt_task_start({Root}, {})
    /\ control' = "started"
    /\ UNCHANGED <<running, pending, msg_queue, call, destroyed, calls, events, late>>

(* apt_task_offline, apt_task_online                                       *)
ControllerAsks ==
    /\ control = "started"
    /\ calls < MaxCalls
    /\ HasRoom(Root)
    /\ calls' = calls + 1
    /\ \E m \in {"OFFLINE", "ONLINE"} :
         msg_queue' = apt_task_msg_signal(msg_queue, {Root}, m)
    /\ UNCHANGED <<state, running, pending, thread, call, control, destroyed, events, late>>

ControllerTerminates ==
    /\ control = "started"
    /\ control' = "terminating"
    /\ call' = [call EXCEPT ![Controller] = [at |-> "lock", i |-> 1]]
    /\ UNCHANGED <<state, running, pending, msg_queue, thread, destroyed, calls, events, late>>

(* apt_task_destroy, children first: waits for a thread unless IDLE.       *)
apt_task_destroy(t) ==
    /\ control = "terminating"
    /\ call[Controller] = [at |-> "lock", i |-> 2]
    /\ t \notin destroyed
    /\ ToSet(ChildrenOf(t)) \subseteq destroyed
    /\ state[t] # "IDLE" => thread[t] = "exited"
    /\ destroyed' = destroyed \cup {t}
    /\ UNCHANGED <<state, running, pending, msg_queue, thread, call, control, calls, events, late>>

-----------------------------------------------------------------------------

TaskThread(t) ==
    \/ apt_task_run(t)
    \/ apt_task_run_end(t)
    \/ apt_task_exit(t)
    \/ apt_task_msg_process(t)
    \/ apt_task_terminate_process_internal(t)

Calling(c) ==
    \/ apt_task_terminate_lock(c)
    \/ apt_task_terminate_check(c)
    \/ apt_task_wait_till_complete(c)

TaskNext ==
    \/ \E t \in Tasks : TaskThread(t) \/ apt_task_msg_parent_signal(t) \/ apt_task_destroy(t)
    \/ \E c \in Tasks \cup {Controller} : Calling(c)
    \/ ControllerStarts \/ ControllerAsks \/ ControllerTerminates

(* Every thread runs; only the controller's requests are its own affair.   *)
TaskFairness ==
    /\ \A t \in Tasks : WF_taskVars(TaskThread(t)) /\ WF_taskVars(apt_task_destroy(t))
    /\ \A c \in Tasks \cup {Controller} : WF_taskVars(Calling(c))

-----------------------------------------------------------------------------
(* Properties.                                                             *)

Count(t, m) == Cardinality({k \in DOMAIN msg_queue[t] : msg_queue[t][k] = m})

SumOver(S, m) == MapThenSumSet(LAMBDA t : Count(t, m), S)

(* While the tree runs, a task's count of pending offline (online)         *)
(* requests is the number of its children that have not reported back,     *)
(* whose request or report is in a queue: pending_off reaches zero, and    *)
(* on_offline_complete is called, exactly when the last child is offline.  *)
PendingMatchesQueues ==
    LET children == ToSet(Children)
        loops(t) == thread[t] \in {"created", "loop"}
    IN  control = "started" /\ (\A t \in children : loops(t)) =>
          /\ pending[Root].off = SumOver(children, "OFFLINE") + Count(Root, "OFFLINE-COMPLETE")
          /\ pending[Root].on = SumOver(children, "ONLINE") + Count(Root, "ONLINE-COMPLETE")

(* apt_task_destroy never destroys the lock of a task whose thread is      *)
(* still to use it.                                                        *)
DestroyedAfterExit == \A t \in destroyed : thread[t] \in {"none", "exited"}

(* The two cases in which the tree need not terminate: the request came    *)
(* before the thread ran, which then sets RUNNING over it, and a child     *)
(* waits for room in the queue of the parent that waits for the child.     *)
TreeUndisturbed == []~late /\ [](Len(msg_queue[Root]) < QueueSize)

(* Otherwise a tree that is told to terminate is destroyed in the end.     *)
TreeTerminates ==
    TreeUndisturbed => ((control = "terminating") ~> (destroyed = Tasks))

=============================================================================
