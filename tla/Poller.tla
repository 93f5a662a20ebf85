-------------------------------- MODULE Poller --------------------------------
(***************************************************************************)
(* A poller task (libs/apr-toolkit/src/apt_poller_task.c) with its pollset *)
(* (apt_pollset.c): one thread that waits for descriptors and for messages *)
(* other threads signal through a queue and a pipe.  Connections stand for *)
(* what the descriptors' client_data point to; both the messages and the   *)
(* handlers of descriptors remove and destroy connections.                 *)
(***************************************************************************)
EXTENDS Naturals, Sequences, SequencesExt

(***************************************************************************)
(* The growing ring buffer of libs/apr-toolkit/src/apt_cyclic_queue.c, as  *)
(* functions from queue to queue.  It is the message queue of a poller and *)
(* the request queue of every session.                                     *)
(***************************************************************************)

(* What is in a slot that was never written, and no object.                *)
Empty == <<>>

apt_cyclic_queue_create(size) ==
    [data |-> [i \in 0..(size - 1) |-> Empty], max_size |-> size,
     actual_size |-> 0, head |-> 0, tail |-> 0]

(* The queue is full: the oldest entry is at head.                         *)
apt_cyclic_queue_resize(q) ==
    LET size == q.max_size + q.max_size \div 2
    IN  [q EXCEPT !.data = [i \in 0..(size - 1) |->
                              IF i < q.max_size
                                THEN q.data[(q.head + i) % q.max_size]
                                ELSE Empty],
                  !.tail = 0, !.head = q.max_size, !.max_size = size]

apt_cyclic_queue_push(queue, obj) ==
    LET q == IF queue.actual_size >= queue.max_size
               THEN apt_cyclic_queue_resize(queue) ELSE queue
    IN  [q EXCEPT !.data[q.head] = obj,
                  !.head = (q.head + 1) % q.max_size,
                  !.actual_size = @ + 1]

(* The object popped, or NULL, and the queue that is left.                 *)
apt_cyclic_queue_pop(q) ==
    IF q.actual_size = 0
      THEN [obj |-> Empty, queue |-> q]
      ELSE [obj |-> q.data[q.tail],
            queue |-> [q EXCEPT !.tail = (q.tail + 1) % q.max_size,
                                !.actual_size = @ - 1]]

(* What the queue stands for.                                              *)
Contents(q) == [i \in 1..q.actual_size |-> q.data[(q.tail + i - 1) % q.max_size]]

-----------------------------------------------------------------------------

CONSTANTS
    Connections,
    QueueStart,   \* CYCLIC_QUEUE_DEFAULT_SIZE
    ReadSize,     \* size of the buffer the pipe is read into
    MaxSignals    \* bound: messages signalled

VARIABLES
    msg_queue,
    pipe,         \* bytes in the wake-up pipe
    waking,       \* signals that have pushed and not yet written to the pipe
    pollset,      \* connections whose descriptors are polled
    readable,     \* connections with something to receive
    alive,        \* connections that exist
    pc, desc_arr, desc_index,
    signalled, processed,  \* messages pushed, messages popped
    stale         \* a handler was called with a destroyed connection

pollerVars == <<msg_queue, pipe, waking, pollset, readable, alive, pc, desc_arr,
                desc_index, signalled, processed, stale>>

WAKEUP == "wakeup"
NULL == "NULL"

apt_poller_task_create ==
    /\ msg_queue = apt_cyclic_queue_create(QueueStart)
    /\ pipe = 0
    /\ waking = 0
    /\ pollset = Connections
    /\ readable = {}
    /\ alive = Connections
    /\ pc = "poll"
    /\ desc_arr = <<>>
    /\ desc_index = 0
    /\ signalled = <<>>
    /\ processed = <<>>
    /\ stale = FALSE

-----------------------------------------------------------------------------
(* Other threads.                                                          *)

(* apt_poller_task_msg_signal: the push, with the guard held.  A message   *)
(* asks for the removal of a connection, which may be gone.                *)
apt_poller_task_msg_signal ==
    /\ Len(signalled) < MaxSignals
    /\ \E c \in Connections :
         LET m == <<Len(signalled), c>>
         IN  /\ msg_queue' = apt_cyclic_queue_push(msg_queue, m)
             /\ signalled' = Append(signalled, m)
    /\ waking' = waking + 1
    /\ UNCHANGED <<pipe, pollset, readable, alive, pc, desc_arr, desc_index, processed, stale>>

apt_pollset_wakeup_unwritten ==
    /\ waking > 0
    /\ waking' = waking - 1
    /\ UNCHANGED <<msg_queue, pipe, pollset, readable, alive, pc, desc_arr, desc_index,
                   signalled, processed, stale>>

apt_pollset_wakeup ==
    /\ waking > 0
    /\ waking' = waking - 1
    /\ pipe' = pipe + 1
    /\ UNCHANGED <<msg_queue, pollset, readable, alive, pc, desc_arr, desc_index,
                   signalled, processed, stale>>

PeerSends ==
    /\ \E c \in pollset \ readable : readable' = readable \cup {c}
    /\ UNCHANGED <<msg_queue, pipe, waking, pollset, alive, pc, desc_arr, desc_index,
                   signalled, processed, stale>>

-----------------------------------------------------------------------------
(* The poller's thread.                                                    *)

(* The signalled descriptors come in any order.                            *)
apt_pollset_poll ==
    /\ pc = "poll"
    /\ LET signals == readable \cup (IF pipe > 0 THEN {WAKEUP} ELSE {})
       IN  /\ signals # {}
           /\ desc_arr' \in SetToSeqs(signals)
    /\ desc_index' = 1
    /\ pc' = "desc"
    /\ UNCHANGED <<msg_queue, pipe, waking, pollset, readable, alive, signalled, processed, stale>>

apt_poller_task_descriptor_remove_only(c) ==
    /\ pollset' = pollset \ {c}
    /\ readable' = readable \ {c}
    /\ alive' = alive \ {c}
    /\ UNCHANGED desc_arr

(* apt_poller_task_descriptor_remove, before the connection is destroyed:  *)
(* those signalled in this turn and not handled yet are made NULL.         *)
apt_poller_task_descriptor_remove(c) ==
    /\ pollset' = pollset \ {c}
    /\ readable' = readable \ {c}
    /\ alive' = alive \ {c}
    /\ desc_arr' = [k \in DOMAIN desc_arr |->
                      IF k > desc_index /\ desc_arr[k] = c THEN NULL ELSE desc_arr[k]]

AtDescriptor == pc = "desc" /\ desc_index <= Len(desc_arr)

(* signal_handler: receives, and may find that the peer has gone or that   *)
(* some connection is to be closed.                                        *)
SignalHandler ==
    /\ AtDescriptor
    /\ LET d == desc_arr[desc_index]
       IN  /\ d # WAKEUP
           /\ stale' = (stale \/ (d # NULL /\ d \notin alive))
           /\ \/ /\ readable' = readable \ {d}
                 /\ UNCHANGED <<pollset, alive, desc_arr>>
              \/ /\ d # NULL
                 /\ \E c \in alive : apt_poller_task_descriptor_remove(c)
    /\ desc_index' = desc_index + 1
    /\ UNCHANGED <<msg_queue, pipe, waking, pc, signalled, processed>>

(* apt_pollset_is_wakeup reads the pipe until a read does not fill its     *)
(* buffer.  The pipe is blocking.                                          *)
apt_pollset_is_wakeup ==
    /\ \/ AtDescriptor /\ desc_arr[desc_index] = WAKEUP
       \/ pc = "read"
    /\ pipe > 0
    /\ LET n == IF pipe < ReadSize THEN pipe ELSE ReadSize
       IN  /\ pipe' = pipe - n
           /\ pc' = IF n = ReadSize THEN "read" ELSE "wakeup"
    /\ UNCHANGED <<msg_queue, waking, pollset, readable, alive, desc_arr, desc_index,
                   signalled, processed, stale>>

(* One turn of apt_poller_task_wakeup_process.                             *)
apt_poller_task_wakeup_process ==
    /\ pc = "wakeup"
    /\ LET popped == apt_cyclic_queue_pop(msg_queue)
           m == popped.obj
       IN  IF m = Empty
             THEN /\ pc' = "desc"
                  /\ desc_index' = desc_index + 1
                  /\ UNCHANGED <<msg_queue, processed, pollset, readable, alive, desc_arr>>
             ELSE /\ msg_queue' = popped.queue
                  /\ processed' = Append(processed, m)
                  /\ IF m[2] \in alive
                       THEN apt_poller_task_descriptor_remove(m[2])
                       ELSE UNCHANGED <<pollset, readable, alive, desc_arr>>
                  /\ UNCHANGED <<pc, desc_index>>
    /\ UNCHANGED <<pipe, waking, signalled, stale>>

(* The end of a turn of apt_poller_task_run; its timers are in TimerQueue. *)
TurnEnds ==
    /\ pc = "desc"
    /\ desc_index > Len(desc_arr)
    /\ pc' = "poll"
    /\ desc_arr' = <<>>
    /\ desc_index' = 0
    /\ UNCHANGED <<msg_queue, pipe, waking, pollset, readable, alive, signalled, processed, stale>>

apt_poller_task_run ==
    \/ apt_pollset_poll
    \/ SignalHandler
    \/ apt_pollset_is_wakeup
    \/ apt_poller_task_wakeup_process
    \/ TurnEnds

PollerNext == apt_poller_task_msg_signal \/ apt_pollset_wakeup \/ PeerSends \/ apt_poller_task_run

(* The poller's thread and the threads that signal it run.                 *)
PollerFairness == WF_pollerVars(apt_poller_task_run) /\ WF_pollerVars(apt_pollset_wakeup)

-----------------------------------------------------------------------------
(* Properties.                                                             *)

(* Messages are processed in the order in which they were signalled, none  *)
(* twice and none lost, however the ring buffer wraps and grows.           *)
MessagesInOrder == processed \o Contents(msg_queue) = signalled

(* No handler is called for a connection that a message or another handler *)
(* of the same turn has destroyed.                                         *)
NoStaleDescriptor == ~stale

(* The poller waits in the read of a pipe that held a multiple of ReadSize *)
(* bytes.                                                                  *)
Blocked == pc = "read" /\ pipe = 0

(* Unless it does, every message is processed: a poller that is signalled  *)
(* time and again catches up time and again.                               *)
MessagesProcessed == []~Blocked => []<>(processed = signalled)

=============================================================================
