------------------------------ MODULE TimerQueue ------------------------------
(***************************************************************************)
(* The timers of a task (libs/apr-toolkit/src/apt_timer_queue.c), driven   *)
(* by the loop of apt_poller_task_run and apt_consumer_task_run: ask for   *)
(* the timeout, wait, handle what came in, advance the timers.             *)
(*                                                                         *)
(* Times are unsigned 32-bit numbers, here modulo Modulus, and are rebased *)
(* when they reach Limit (0xFFFF).                                         *)
(***************************************************************************)
EXTENDS Integers, Sequences, SequencesExt

CONSTANTS
    Timers,
    Timeouts,   \* the timeouts handlers use
    Modulus,    \* 2^32
    Limit,      \* 0xFFFF
    Jitter      \* bound: how much longer than asked for a wait takes

VARIABLES
    ring,           \* the timers that are set, soonest first
    scheduled_time, elapsed_time, reset,
    phase,          \* where the loop is
    timed,          \* the loop found a timeout
    since,          \* time since time_last
    left,           \* left[t]: time until t is due, at least -1
    overrun         \* a timer was due when the times were rebased

timerVars == <<ring, scheduled_time, elapsed_time, reset, phase, timed, since, left, overrun>>

apt_timer_queue_create ==
    /\ ring = <<>>
    /\ scheduled_time = [t \in Timers |-> 0]
    /\ elapsed_time = 0
    /\ reset = FALSE
    /\ phase = "get"
    /\ timed = FALSE
    /\ since = 0
    /\ left = [t \in Timers |-> 0]
    /\ overrun = FALSE

-----------------------------------------------------------------------------
(* The loop.                                                               *)

(* Cut: what follows a timer that was lost is not explored.                *)
apt_timer_queue_timeout_get ==
    /\ phase = "get"
    /\ ~overrun
    /\ reset' = FALSE
    /\ timed' = (ring # <<>>)
    /\ since' = 0
    /\ phase' = "wait"
    /\ UNCHANGED <<ring, scheduled_time, elapsed_time, left, overrun>>

(* The wait ends with a message or a signalled descriptor, or after the    *)
(* timeout.                                                                *)
Wait ==
    /\ phase = "wait"
    /\ \E d \in 0..(Limit + Jitter) :
         /\ timed => d <= ((scheduled_time[Head(ring)] - elapsed_time) % Modulus) + Jitter
         /\ ~timed => d = 0
         /\ since' = d
         /\ left' = [t \in Timers |-> IF t \notin ToSet(ring) THEN 0
                                      ELSE IF left[t] - d < -1 THEN -1
                                      ELSE left[t] - d]
    /\ phase' = "work"
    /\ UNCHANGED <<ring, scheduled_time, elapsed_time, reset, timed, overrun>>

-----------------------------------------------------------------------------
(* Timers.                                                                 *)

(* After the last timer that is not later than t.                          *)
apt_timer_insert(r, t, time) ==
    LET notLater == {k \in DOMAIN r : scheduled_time[r[k]] <= time}
        at == IF notLater = {} THEN 0 ELSE CHOOSE k \in notLater : \A j \in notLater : j <= k
    IN  InsertAt(r, at + 1, t)

Removed(t) == SelectSeq(ring, LAMBDA u : u # t)

(* apt_timer_set, which first removes a timer that is set: if it was the   *)
(* only one, elapsed_time is reset.                                        *)
apt_timer_set(t, timeout) ==
    LET r == Removed(t)
        resets == scheduled_time[t] # 0 /\ r = <<>>
        elapsed == IF resets THEN 0 ELSE elapsed_time
        time == (elapsed + timeout) % Modulus
    IN  /\ ring' = apt_timer_insert(r, t, time)
        /\ scheduled_time' = [scheduled_time EXCEPT ![t] = time]
        /\ elapsed_time' = elapsed
        /\ reset' = (reset \/ resets)
        /\ left' = [left EXCEPT ![t] = timeout]

apt_timer_kill(t) ==
    /\ scheduled_time[t] # 0
    /\ ring' = Removed(t)
    /\ scheduled_time' = [scheduled_time EXCEPT ![t] = 0]
    /\ elapsed_time' = IF Removed(t) = <<>> THEN 0 ELSE elapsed_time
    /\ reset' = (reset \/ Removed(t) = <<>>)
    /\ UNCHANGED left

(* A handler sets or kills timers.                                         *)
Work ==
    /\ phase = "work"
    /\ \E t \in Timers : (\E x \in Timeouts : apt_timer_set(t, x)) \/ apt_timer_kill(t)
    /\ UNCHANGED <<phase, timed, since, overrun>>

(* apt_timers_reschedule                                                   *)
Rescheduled(elapsed) ==
    [t \in Timers |-> IF t \in ToSet(ring) THEN (scheduled_time[t] - elapsed) % Modulus
                                           ELSE scheduled_time[t]]

(* The head of apt_timer_queue_advance.                                    *)
apt_timer_queue_advance ==
    /\ phase = "work"
    /\ IF ~timed \/ since = 0 \/ ring = <<>> \/ reset
         THEN phase' = "get" /\ UNCHANGED <<elapsed_time, scheduled_time, overrun>>
         ELSE LET elapsed == elapsed_time + since
                  rebase == elapsed >= Limit
              IN  /\ phase' = "fire"
                  /\ elapsed_time' = IF rebase THEN 0 ELSE elapsed
                  /\ scheduled_time' = IF rebase THEN Rescheduled(elapsed) ELSE scheduled_time
                  /\ overrun' = (overrun \/ (rebase /\ \E t \in ToSet(ring) : scheduled_time[t] < elapsed))
    /\ UNCHANGED <<ring, reset, timed, since, left>>

(* One turn of its loop; the timer's procedure may set the timer again.    *)
Fire ==
    /\ phase = "fire"
    /\ ring # <<>>
    /\ scheduled_time[Head(ring)] <= elapsed_time
    /\ LET t == Head(ring)
       IN  \/ /\ ring' = Tail(ring)
              /\ scheduled_time' = [scheduled_time EXCEPT ![t] = 0]
              /\ UNCHANGED left
           \/ \E x \in Timeouts :
                /\ ring' = apt_timer_insert(Tail(ring), t, (elapsed_time + x) % Modulus)
                /\ scheduled_time' = [scheduled_time EXCEPT ![t] = (elapsed_time + x) % Modulus]
                /\ left' = [left EXCEPT ![t] = x]
    /\ UNCHANGED <<elapsed_time, reset, phase, timed, since, overrun>>

FireEnds ==
    /\ phase = "fire"
    /\ ring # <<>> => scheduled_time[Head(ring)] > elapsed_time
    /\ phase' = "get"
    /\ since' = 0
    /\ UNCHANGED <<ring, scheduled_time, elapsed_time, reset, timed, left, overrun>>

TimerNext ==
    apt_timer_queue_timeout_get \/ Wait \/ Work \/ apt_timer_queue_advance \/ Fire \/ FireEnds

-----------------------------------------------------------------------------
(* Properties.                                                             *)

(* apt_timer_queue_advance leaves its loop because "scheduled time is not  *)
(* elapsed yet": no timer that is due stays set.                           *)
NoDueTimerLeft ==
    phase = "get" /\ timed /\ ~reset => \A t \in ToSet(ring) : left[t] > 0

(* So it is unless a timer was due at the moment the times were rebased.   *)
DueTimersFire == ~overrun => NoDueTimerLeft

=============================================================================
