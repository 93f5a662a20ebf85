------------------------------- MODULE MCSynth -------------------------------
(***************************************************************************)
(* Two synthesizer channels, one per behaviour: one with an engine that    *)
(* keeps the engine contract, and one with the demo engine, whose client   *)
(* sends no STOP and one SPEAK at a time.                                  *)
(***************************************************************************)
EXTENDS SynthChannel

VARIABLES
    component,  \* which of the two channels the behaviour is about
    demo_sent, demo_answered, demo_session_active, demo_request_queue,
    demo_session_state, demo_subrequest_count, demo_media, demo_todo,
    demo_engine_in, demo_engine_out, demo_active, demo_state,
    demo_is_pending, demo_active_request, demo_speaker, demo_queue,
    demo_crashed, demo_ended, speak_request, stop_response, paused, task,
    reader

AllMethods == {"SET-PARAMS", "GET-PARAMS", "SPEAK", "STOP", "PAUSE", "RESUME",
               "BARGE-IN-OCCURRED", "CONTROL", "DEFINE-LEXICON"}

QuietMethods == {"SET-PARAMS", "SPEAK", "PAUSE", "RESUME", "CONTROL"}

Demo == INSTANCE DemoSynthChannel WITH
            Methods <- QuietMethods, QueueSpeaks <- FALSE,
            sent <- demo_sent, answered <- demo_answered,
            session_active <- demo_session_active,
            request_queue <- demo_request_queue,
            session_state <- demo_session_state,
            subrequest_count <- demo_subrequest_count, media <- demo_media,
            todo <- demo_todo, engine_in <- demo_engine_in,
            engine_out <- demo_engine_out, active <- demo_active,
            state <- demo_state, is_pending <- demo_is_pending,
            active_request <- demo_active_request, speaker <- demo_speaker,
            queue <- demo_queue, crashed <- demo_crashed,
            ended <- demo_ended

demoChannelVars == <<
    demo_sent, demo_answered, demo_session_active, demo_request_queue,
    demo_session_state, demo_subrequest_count, demo_media, demo_todo,
    demo_engine_in, demo_engine_out, demo_active, demo_state,
    demo_is_pending, demo_active_request, demo_speaker, demo_queue,
    demo_crashed, demo_ended, speak_request, stop_response, paused, task,
    reader>>

synthSuiteVars == <<component, vars, demoChannelVars>>

SynthSuiteInit == component \in {"contract", "demo"} /\ Init /\ Demo!Init

SynthSuiteNext ==
    /\ \/ component = "contract" /\ Next /\ UNCHANGED demoChannelVars
       \/ component = "demo" /\ Demo!Next /\ UNCHANGED vars
    /\ UNCHANGED component

(* The fairness of both; no fair action of the channel that is not chosen  *)
(* is enabled.                                                             *)
SynthSuiteSpec ==
    SynthSuiteInit /\ [][SynthSuiteNext]_synthSuiteVars /\ Fairness /\ Demo!Fairness

(* The demo engine keeps the engine contract: every behaviour of a channel *)
(* with it is one of a channel with a contract engine                      *)
(* (rule 3 at the head of demo_synth_engine.c: one and only one response). *)
DemoKeepsContract == Demo!KeepsContract

(* A session that queues no SPEAK terminates when it is asked to, and with *)
(* the demo engine every request is answered, also the STOP of the         *)
(* deactivation (synth_state_deactivate, demo_synth_stream_read).  Two     *)
(* cases are excepted, in which the code fails: a SPEAK that is queued,    *)
(* and a PAUSE, RESUME or CONTROL crossed by SPEAK-COMPLETE, whose         *)
(* response reads the speaker that is gone (SpeakerMissed).  A STOP or     *)
(* BARGE-IN-OCCURRED crossed by it is not: synth_event_speak_complete      *)
(* drops the event, and the session has to go on.                          *)
SynthServes == TerminatesUndisturbed /\ Demo!AnsweredUndisturbed

=============================================================================
