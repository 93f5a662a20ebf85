----------------------------- MODULE FrameStreams -----------------------------
(***************************************************************************)
(* Small parts of the media framework that run on its clock: the frame     *)
(* buffer between an application thread and the media thread               *)
(* (mpf_frame_buffer.c), the audio file stream (mpf_audio_file_stream.c,   *)
(* mpf_file_termination_factory.c) and the scheduler thread that drives    *)
(* both (mpf_scheduler.c).  Frames are numbered, and a file or the buffer   *)
(* takes whole frames; time is counted in units of the resolutions.        *)
(***************************************************************************)
EXTENDS Integers, SequencesExt

CONSTANTS
    FrameCount,       \* frames the buffer holds
    WriteSizes,       \* frames the application writes at once
    FileFrames,       \* frames a file has
    MaxWriteSize,     \* frames a file may take, 0: any number
    MediaResolution, TimerResolution,     \* periods of the media and the timer clock
    Rates,            \* how much faster than real time the scheduler may be set to run
    Delays,           \* by how much a tick's work and its sleep may take longer
    MaxTicks          \* bound: ticks

VARIABLES
    buffer,           \* mpf_frame_buffer_t: [frames, write_pos, read_pos]
    written, received,       \* the last frame written, the frames read from the buffer
    restart,          \* a restart of the buffer, as far as it has got
    file,             \* the termination's mpf_audio_file_stream_t, <<>> before it is added
    events,           \* events the file stream has raised since it was modified
    clock             \* the scheduler thread

vars == <<buffer, written, received, restart, file, events, clock>>

mpf_frame_buffer_create ==
    [frames |-> [i \in 0..(FrameCount - 1) |-> 0], write_pos |-> 0, read_pos |-> 0]

mpf_frame_buffer_frame_get(b, pos) == b.frames[pos % FrameCount]

Put(b, frame) == [b EXCEPT !.frames[b.write_pos % FrameCount] = frame, !.write_pos = @ + 1]

\* One frame more than there is room for is taken.
Fits_off_by_one(b) == b.write_pos - b.read_pos \in 0..FrameCount

(* The difference is unsigned: below zero there is no room either. *)
Fits(b) == b.write_pos - b.read_pos \in 0..(FrameCount - 1)

(* A restart takes no lock: it loads read_pos and stores it as write_pos.  *)
(* pos is the position loaded, -1 when no restart is at work.  The rest is *)
(* remembered for the properties: the last frame written before the        *)
(* restart, and whether a read or a write came between its load and store. *)
NoRestart == [pos |-> -1, floor |-> 0, torn |-> FALSE, crossed |-> FALSE]

(* The frames that fit are taken, in order; the rest is dropped. *)
Take(b, frames) == FoldLeft(LAMBDA c, i : IF Fits(c) THEN Put(c, i) ELSE c, b, frames)

Numbers(first, last) == [i \in 1..(last - first + 1) |-> first + i - 1]

mpf_frame_buffer_write(n) ==
    /\ written + n <= MaxTicks
    /\ buffer' = Take(buffer, Numbers(written + 1, written + n))
    /\ written' = written + n
    /\ UNCHANGED <<received, restart, file, events, clock>>

(* The store of a restart falls between the copy of the k-th frame and the *)
(* increment of write_pos, which then counts from the position stored.     *)
WriteCrossed(n, k) ==
    /\ restart.pos >= 0 /\ written + n <= MaxTicks
    /\ \E b \in {Take(buffer, Numbers(written + 1, written + k - 1))} :
           /\ Fits(b)
           /\ buffer' = Take([Put(b, written + k) EXCEPT !.write_pos = restart.pos + 1],
                             Numbers(written + k + 1, written + n))
    /\ written' = written + n
    /\ restart' = [restart EXCEPT !.pos = -1, !.crossed = TRUE]
    /\ UNCHANGED <<received, file, events, clock>>

mpf_frame_buffer_restart ==
    /\ restart.pos = -1
    /\ restart' = [NoRestart EXCEPT !.pos = buffer.read_pos, !.floor = written]
    /\ UNCHANGED <<buffer, written, received, file, events, clock>>

RestartStores ==
    /\ restart.pos >= 0
    /\ buffer' = [buffer EXCEPT !.write_pos = restart.pos]
    /\ restart' = [restart EXCEPT !.pos = -1]
    /\ UNCHANGED <<written, received, file, events, clock>>

mpf_frame_buffer_read(b) ==
    IF b.write_pos > b.read_pos
    THEN [frame |-> mpf_frame_buffer_frame_get(b, b.read_pos),
          buffer |-> [b EXCEPT !.frames[b.read_pos % FrameCount] = 0, !.read_pos = @ + 1]]
    ELSE [frame |-> 0, buffer |-> b]

-----------------------------------------------------------------------------
(* The file stream: a reader raises one event at the end of its file, a    *)
(* writer one when the size limit is reached.                              *)
mpf_file_stream_create == [read |-> FALSE, left |-> 0, eof |-> FALSE, write |-> FALSE, size |-> 0]

mpf_file_stream_modify(f, mask) ==
    [f EXCEPT !.read  = @ \/ "READER" \in mask,
              !.left  = IF "READER" \in mask THEN FileFrames ELSE @,
              !.eof   = @ /\ "READER" \notin mask,
              !.write = @ \/ "WRITER" \in mask,
              !.size  = IF "WRITER" \in mask THEN 0 ELSE @]

Modified(streams, mask) ==
    /\ mask # {}
    /\ file' = <<mpf_file_stream_modify(streams[1], mask)>>
    /\ events' = [reader |-> IF "READER" \in mask THEN 0 ELSE events.reader,
                  writer |-> IF "WRITER" \in mask THEN 0 ELSE events.writer]
    /\ UNCHANGED <<buffer, written, received, restart, clock>>

(* Adding a termination again keeps its stream. *)
mpf_file_termination_add(mask) ==
    Modified(IF file = <<>> THEN <<mpf_file_stream_create>> ELSE file, mask)

mpf_file_termination_modify(mask) == file # <<>> /\ Modified(file, mask)

mpf_audio_file_frame_read(f) ==
    IF f.read /\ ~f.eof
    THEN IF f.left > 0 THEN [f EXCEPT !.left = @ - 1] ELSE [f EXCEPT !.eof = TRUE]
    ELSE f

MayWrite(f) == f.write /\ (MaxWriteSize = 0 \/ f.size < MaxWriteSize)

mpf_audio_file_frame_write(f) == IF MayWrite(f) THEN [f EXCEPT !.size = @ + 1] ELSE f

-----------------------------------------------------------------------------
(* The scheduler: work, then a sleep shortened by the drift so far.       *)
mpf_scheduler_create ==
    [resolution |-> 0, media |-> MediaResolution, timer |-> TimerResolution, elapsed |-> 0,
     running |-> FALSE, ticks |-> 0, now |-> 0, drift |-> 0, timers |-> 0]

mpf_scheduler_rate_set(c, rate) ==
    LET r == IF rate = 0 \/ rate > 10 THEN 1 ELSE rate
    IN  [c EXCEPT !.media = @ \div r, !.timer = @ \div r]

mpf_scheduler_resolution_set(c) ==
    [c EXCEPT !.resolution = IF c.media # 0 THEN c.media ELSE IF c.timer # 0 THEN c.timer ELSE @]

mpf_scheduler_start ==
    /\ clock.ticks = 0 /\ ~clock.running
    /\ clock' = [mpf_scheduler_resolution_set(clock) EXCEPT !.running = TRUE]
    /\ UNCHANGED <<buffer, written, received, restart, file, events>>

(* The thread ends after the turn it is in. *)
mpf_scheduler_stop ==
    /\ clock.running
    /\ clock' = [clock EXCEPT !.running = FALSE]
    /\ UNCHANGED <<buffer, written, received, restart, file, events>>

(* What the thread has spent beyond a resolution per turn. *)
Drift(c, now) == c.drift + (now - c.now) - c.resolution

TimerElapsed(c) == c.elapsed + c.resolution >= c.timer

SleptTill(c, work, late) ==
    c.now + work + (IF c.resolution > c.drift THEN c.resolution - c.drift + late ELSE 0)

Turned(c, now) ==
    [c EXCEPT !.ticks = @ + 1, !.now = now, !.drift = Drift(c, now),
              !.elapsed = IF TimerElapsed(c) THEN 0 ELSE @ + c.resolution,
              !.timers = IF TimerElapsed(c) THEN @ + 1 ELSE @]

MediaProc(frame, f) ==
    /\ received' = IF frame = 0 THEN received ELSE Append(received, frame)
    /\ file' = f
    /\ events' = IF f = <<>> THEN events
                 ELSE [reader |-> IF f[1].eof /\ ~file[1].eof THEN events.reader + 1 ELSE events.reader,
                       writer |-> IF MayWrite(file[1]) /\ f[1].size >= MaxWriteSize
                                  THEN events.writer + 1 ELSE events.writer]

(* One turn of the thread, with the media and the timer proc. *)
timer_thread_proc(work, late) ==
    /\ clock.running /\ clock.ticks < MaxTicks
    /\ clock' = Turned(clock, SleptTill(clock, work, late))
    /\ \E r \in {mpf_frame_buffer_read(buffer)} :
           /\ buffer' = r.buffer
           /\ restart' = [restart EXCEPT !.torn = @ \/ (restart.pos >= 0 /\ r.buffer # buffer)]
           /\ MediaProc(r.frame, [i \in DOMAIN file |->
                                    mpf_audio_file_frame_write(mpf_audio_file_frame_read(file[i]))])
    /\ UNCHANGED written

Init ==
    /\ buffer = mpf_frame_buffer_create
    /\ written = 0 /\ received = <<>> /\ restart = NoRestart
    /\ file = <<>>
    /\ events = [reader |-> 0, writer |-> 0]
    /\ \E rate \in Rates : clock = mpf_scheduler_rate_set(mpf_scheduler_create, rate)

Next ==
    \/ \E n \in WriteSizes : mpf_frame_buffer_write(n)
    \/ \E n \in WriteSizes : \E k \in 1..n : WriteCrossed(n, k)
    \/ mpf_frame_buffer_restart \/ RestartStores
    \/ \E mask \in SUBSET {"READER", "WRITER"} :
            mpf_file_termination_add(mask) \/ mpf_file_termination_modify(mask)
    \/ mpf_scheduler_start \/ mpf_scheduler_stop
    \/ \E work \in Delays, late \in Delays : timer_thread_proc(work, late)

Spec == Init /\ [][Next]_vars

(* Frames leave the buffer in the order they entered it and none twice,    *)
(* also over a full buffer and a restart.  After a restart the buffer      *)
(* holds only what was written since its call, unless a write came in      *)
(* between, and its positions leave room again, unless the media thread    *)
(* read a frame in between: write_pos is then behind read_pos, and no      *)
(* frame is taken or given until the next restart.  A file stream reports  *)
(* the end of its file once, and of its space once if it has a limit;      *)
(* without one it raises the event with every frame                        *)
(* (mpf_frame_buffer_restart, mpf_frame_buffer_write,                      *)
(* mpf_audio_file_frame_write).                                            *)
FramesInOrder ==
    /\ \A i, j \in DOMAIN received : i < j => received[i] < received[j]
    /\ restart.pos = -1 =>
           /\ buffer.write_pos - buffer.read_pos \in 0..FrameCount \/ restart.torn
           /\ \A pos \in buffer.read_pos..(buffer.write_pos - 1) :
                  mpf_frame_buffer_frame_get(buffer, pos) > restart.floor \/ restart.crossed
    /\ events.reader <= 1
    /\ MaxWriteSize > 0 => events.writer <= 1 /\ \A i \in DOMAIN file : file[i].size <= MaxWriteSize

(* Neither clock runs ahead of time, however long a tick works or          *)
(* oversleeps: the n-th media tick ends no sooner than n resolutions after *)
(* the start, and the timer clock does not overtake the media clock        *)
(* (timer_thread_proc).                                                    *)
ClockNeverAhead ==
    /\ clock.now >= clock.ticks * clock.resolution
    /\ clock.timers * clock.timer <= clock.ticks * clock.resolution
=============================================================================
