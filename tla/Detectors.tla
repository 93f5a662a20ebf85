------------------------------ MODULE Detectors ------------------------------
(***************************************************************************)
(* The detectors an engine feeds its frames to: the activity detector      *)
(* (mpf_activity_detector.c) and the in-band part of the DTMF detector     *)
(* (mpf_dtmf_detector.c, whose operators RtpTransmitter has).  A frame is  *)
(* loud or not; each completes a window in which the tone analysis finds a *)
(* digit or none (0).  Durations are counted in frames.                    *)
(***************************************************************************)
EXTENDS Integers, Sequences

CONSTANTS
    SpeechTimeout, SilenceTimeout, NoinputTimeout,     \* of the activity detector
    Tones,            \* what the tone analysis may find in a window: digits and 0
    BufferLen,        \* MPF_DTMFDET_BUFFER_LEN
    MaxFrames         \* bound: frames fed

VARIABLES
    activity,         \* mpf_activity_detector_t: [state, duration]
    event,            \* what the last frame made the detector report
    dtmf,             \* mpf_dtmf_detector_t
    frames,           \* frames fed so far
    past              \* history: frames since the last change of loudness, the last event,
                      \* windows in a row, up to three, without the digit last reported

vars == <<activity, event, dtmf, frames, past>>

S == INSTANCE RtpTransmitter WITH
        SamplesPerFrame <- 1, SendMod <- 1, SendSeqMod <- 1, MaxEventDuration <- 1,
        QUEUE_LEN <- 1, BUFFER_LEN <- BufferLen

mpf_activity_detector_reset == [state |-> "INACTIVITY", duration |-> 0]

mpf_activity_detector_state_change(state) == [state |-> state, duration |-> 0]

Longer(a) == [a EXCEPT !.duration = @ + 1]

\* A quiet frame does not interrupt the transition to activity.
mpf_activity_detector_process_no_fallback(a, loud) ==
    CASE a.state = "INACTIVITY" ->
            IF loud THEN <<mpf_activity_detector_state_change("ACTIVITY_TRANSITION"), "NONE">>
            ELSE <<Longer(a), IF a.duration + 1 >= NoinputTimeout THEN "NOINPUT" ELSE "NONE">>
      [] a.state = "ACTIVITY_TRANSITION" ->
            IF a.duration + 1 >= SpeechTimeout
            THEN <<mpf_activity_detector_state_change("ACTIVITY"), "ACTIVITY">>
            ELSE <<Longer(a), "NONE">>
      [] OTHER ->
            IF loud THEN <<mpf_activity_detector_state_change("ACTIVITY"), "NONE">>
            ELSE IF a.duration + 1 >= SilenceTimeout
            THEN <<mpf_activity_detector_state_change("INACTIVITY"), "INACTIVITY">>
            ELSE <<Longer(a), "NONE">>

(* The detector after a frame, and the event. *)
mpf_activity_detector_process(a, loud) ==
    CASE a.state = "INACTIVITY" ->
            IF loud THEN <<mpf_activity_detector_state_change("ACTIVITY_TRANSITION"), "NONE">>
            ELSE <<Longer(a), IF a.duration + 1 >= NoinputTimeout THEN "NOINPUT" ELSE "NONE">>
      [] a.state = "ACTIVITY_TRANSITION" ->
            IF ~loud THEN <<mpf_activity_detector_state_change("INACTIVITY"), "NONE">>
            ELSE IF a.duration + 1 >= SpeechTimeout
            THEN <<mpf_activity_detector_state_change("ACTIVITY"), "ACTIVITY">>
            ELSE <<Longer(a), "NONE">>
      [] a.state = "ACTIVITY" ->
            IF loud THEN <<Longer(a), "NONE">>
            ELSE <<mpf_activity_detector_state_change("INACTIVITY_TRANSITION"), "NONE">>
      [] a.state = "INACTIVITY_TRANSITION" ->
            IF loud THEN <<mpf_activity_detector_state_change("ACTIVITY"), "NONE">>
            ELSE IF a.duration + 1 >= SilenceTimeout
            THEN <<mpf_activity_detector_state_change("INACTIVITY"), "INACTIVITY">>
            ELSE <<Longer(a), "NONE">>

Init ==
    /\ activity = mpf_activity_detector_reset
    /\ event = "NONE"
    /\ dtmf = S!mpf_dtmf_detector_create_ex(TRUE, {"INBAND", "OUTBAND"})
    /\ frames = 0
    /\ past = [loud |-> FALSE, run |-> 0, last |-> "INACTIVITY", missed |-> 3, digit |-> 0,
               twice |-> FALSE]

Tone == [audio |-> 1, event |-> FALSE, marker |-> "NONE",
         event_frame |-> [event_id |-> 0, edge |-> FALSE, duration |-> 0]]

Reported(d) == Len(d.buf) + d.lost_digits

(* What the history makes of a frame: whether a digit was reported again   *)
(* although it was never gone for three windows.                           *)
Remembered(loud, digit, d, e) ==
    [loud |-> loud, run |-> IF loud = past.loud THEN past.run + 1 ELSE 1,
     last |-> IF e \in {"ACTIVITY", "INACTIVITY"} THEN e ELSE past.last,
     missed |-> IF Reported(d) # Reported(dtmf) THEN 0
                ELSE IF past.missed = 3 THEN 3
                ELSE IF digit = past.digit THEN 0 ELSE past.missed + 1,
     digit |-> IF Reported(d) # Reported(dtmf) THEN digit ELSE past.digit,
     twice |-> Reported(d) # Reported(dtmf) /\ digit = past.digit /\ past.missed < 3]

Frame(loud, digit) ==
    /\ frames < MaxFrames
    /\ frames' = frames + 1
    /\ \E r \in {mpf_activity_detector_process(activity, loud)} :
       \E d \in {S!mpf_dtmf_detector_get_frame(dtmf, Tone, digit)} :
           /\ activity' = r[1]
           /\ event' = r[2]
           /\ dtmf' = d
           /\ past' = Remembered(loud, digit, d, r[2])

(* The engine takes a digit. *)
digit_get ==
    /\ dtmf.buf # <<>>
    /\ dtmf' = S!mpf_dtmf_detector_digit_get(dtmf)
    /\ event' = "NONE"
    /\ UNCHANGED <<activity, frames, past>>

(* A new recognition begins: both detectors forget what they have seen. *)
detectors_reset ==
    /\ activity' = mpf_activity_detector_reset
    /\ dtmf' = S!mpf_dtmf_detector_reset(dtmf)
    /\ event' = "NONE"
    /\ past' = [past EXCEPT !.last = "INACTIVITY", !.missed = 3, !.digit = 0]
    /\ UNCHANGED frames

Next == (\E loud \in BOOLEAN, digit \in Tones : (loud \/ digit = 0) /\ Frame(loud, digit)) \/ digit_get
        \/ detectors_reset

Spec == Init /\ [][Next]_vars

(* Activity and inactivity are reported in turn, each only after the level *)
(* has stayed on its side of the threshold for the timeout, and a digit    *)
(* held down is reported once however often the analysis misses it for a   *)
(* window or two (mpf_activity_detector_process, goertzel_energies_digit). *)
DetectorsReliable ==
    [][/\ event' = "ACTIVITY" => past.last # "ACTIVITY" /\ past'.loud /\ past'.run > SpeechTimeout
       /\ event' = "INACTIVITY" => past.last = "ACTIVITY" /\ ~past'.loud
                                   /\ past'.run > SilenceTimeout
       /\ event' = "NOINPUT" => past'.last # "ACTIVITY"
       /\ ~past'.twice]_vars
=============================================================================
