--------------------------- MODULE DemoSynthChannel ---------------------------
(* A synthesizer channel whose engine is the demo engine.                  *)
EXTENDS ServerControl, SynthStateMachine

(***************************************************************************)
(* The demo synthesizer engine (plugins/demo-synth/src/                    *)
(* demo_synth_engine.c).  A channel's fields are shared without a lock by  *)
(* two threads: the engine's consumer task, which processes the requests   *)
(* (demo_synth_msg_process), and the media engine's thread, which calls    *)
(* demo_synth_stream_read every 10 ms.  An action is one access to a       *)
(* shared field with the computation that follows it.  What the audio is,  *)
(* and so when a SPEAK is completed, is left open.                         *)
(***************************************************************************)

VARIABLES
    speak_request,
    stop_response,  \* the STOP request stop_response answers
    paused,
    task,           \* the SPEAK the task has answered and not stored yet
    reader          \* what demo_synth_stream_read has still to do

demoVars == <<speak_request, stop_response, paused, task, reader>>

Reader(step, r) == [step |-> step, req |-> r]

DemoInit ==
    /\ speak_request = NULL
    /\ stop_response = NULL
    /\ paused = FALSE
    /\ task = NULL
    /\ reader = Reader("idle", NULL)

-----------------------------------------------------------------------------
(* The consumer task.                                                      *)

(* demo_synth_channel_speak: the IN-PROGRESS response is sent before       *)
(* speak_request is set; with no codec the request fails.                  *)
demo_synth_channel_speak(r) ==
    /\ r.method = "SPEAK"
    /\ \/ /\ Answer(r, ResponseTo(r, "INPROGRESS", TRUE))
          /\ task' = r
       \/ /\ Answer(r, ResponseTo(r, "COMPLETE", FALSE))
          /\ UNCHANGED task
    /\ UNCHANGED <<speak_request, stop_response, paused>>

SpeakStored ==
    /\ task # NULL
    /\ speak_request' = task
    /\ task' = NULL
    /\ UNCHANGED <<engine_in, engine_out, stop_response, paused, reader>>

demo_synth_channel_stop(r) ==
    /\ r.method \in {"STOP", "BARGE-IN-OCCURRED"}
    /\ EngineTakes(r)
    /\ stop_response' = r
    /\ UNCHANGED <<engine_out, speak_request, paused, task>>

(* demo_synth_channel_pause, demo_synth_channel_resume                     *)
demo_synth_channel_pause_resume(r) ==
    /\ r.method \in {"PAUSE", "RESUME"}
    /\ paused' = (r.method = "PAUSE")
    /\ Answer(r, ResponseTo(r, "COMPLETE", TRUE))
    /\ UNCHANGED <<speak_request, stop_response, task>>

(* demo_synth_channel_set_params, demo_synth_channel_get_params, and the   *)
(* methods demo_synth_channel_request_dispatch answers itself.             *)
demo_synth_channel_other(r) ==
    /\ r.method \in {"SET-PARAMS", "GET-PARAMS", "CONTROL", "DEFINE-LEXICON"}
    /\ Answer(r, ResponseTo(r, "COMPLETE", TRUE))
    /\ UNCHANGED <<speak_request, stop_response, paused, task>>

demo_synth_channel_close(r) ==
    /\ r = CLOSE
    /\ Answer(r, Released("closed"))
    /\ UNCHANGED <<speak_request, stop_response, paused, task>>

demo_synth_msg_process ==
    /\ task = NULL
    /\ engine_in # <<>>
    /\ LET r == Head(engine_in)
       IN  \/ demo_synth_channel_speak(r)
           \/ demo_synth_channel_stop(r)
           \/ demo_synth_channel_pause_resume(r)
           \/ demo_synth_channel_other(r)
           \/ demo_synth_channel_close(r)
    /\ UNCHANGED reader

DemoTask == (demo_synth_msg_process \/ SpeakStored) /\ EngineLeaves

-----------------------------------------------------------------------------
(* demo_synth_stream_read, in the thread of the media engine, as long as   *)
(* the termination is in its context.                                      *)

(* The STOP response is sent, and then stop_response, speak_request and    *)
(* paused are reset one after the other.                                   *)
StopAnswered ==
    /\ reader.step = "idle"
    /\ media # "SUBTRACTED"
    /\ stop_response # NULL
    /\ engine_out' = Append(engine_out,
                            ResponseTo(stop_response, "COMPLETE", TRUE))
    /\ reader' = Reader("stop_response", NULL)
    /\ UNCHANGED <<speak_request, stop_response, paused>>

StopResponseReset ==
    /\ reader.step = "stop_response"
    /\ stop_response' = NULL
    /\ reader' = Reader("speak_request", NULL)
    /\ UNCHANGED <<engine_out, speak_request, paused>>

SpeakRequestReset ==
    /\ reader.step = "speak_request"
    /\ speak_request' = NULL
    /\ reader' = Reader("paused", NULL)
    /\ UNCHANGED <<engine_out, stop_response, paused>>

PausedReset ==
    /\ reader.step = "paused"
    /\ paused' = FALSE
    /\ reader' = Reader("idle", NULL)
    /\ UNCHANGED <<engine_out, speak_request, stop_response>>

SpeakEnds_keeps_request ==
    /\ reader.step = "idle"
    /\ media # "SUBTRACTED"
    /\ stop_response = NULL
    /\ speak_request # NULL
    /\ ~paused
    /\ reader' = Reader("complete", speak_request)
    /\ UNCHANGED <<engine_out, speak_request, stop_response, paused>>

(* The audio of the SPEAK ends: speak_request is reset, and then           *)
(* SPEAK-COMPLETE is sent.                                                 *)
SpeakEnds ==
    /\ reader.step = "idle"
    /\ media # "SUBTRACTED"
    /\ stop_response = NULL
    /\ speak_request # NULL
    /\ ~paused
    /\ reader' = Reader("complete", speak_request)
    /\ speak_request' = NULL
    /\ UNCHANGED <<engine_out, stop_response, paused>>

CompleteSent ==
    /\ reader.step = "complete"
    /\ engine_out' = Append(engine_out,
                            EventOf(reader.req.id, "SPEAK-COMPLETE"))
    /\ reader' = Reader("idle", NULL)
    /\ UNCHANGED <<speak_request, stop_response, paused>>

(* What demo_synth_stream_read does once it has begun to answer a STOP or  *)
(* to complete a SPEAK.                                                    *)
demo_synth_stream_read ==
    /\ \/ StopAnswered
       \/ StopResponseReset
       \/ SpeakRequestReset
       \/ PausedReset
       \/ CompleteSent
    /\ UNCHANGED <<engine_in, task>>
    /\ EngineLeaves

demo_synth_stream_ends == SpeakEnds /\ UNCHANGED <<engine_in, task>> /\ EngineLeaves

-----------------------------------------------------------------------------

vars == <<serverVars, demoVars>>

Init == SynthInit /\ DemoInit

SynthUnchanged == UNCHANGED <<synthVars, ended>>

Client == (ClientRequest \/ ClientTerminate) /\ UNCHANGED demoVars

Server == ServerStep /\ UNCHANGED demoVars

(* The media engine subtracts a termination between two ticks.             *)
Media == reader.step = "idle" /\ MediaStep /\ UNCHANGED demoVars

Task == ~crashed /\ DemoTask /\ SynthUnchanged

StreamRead == ~crashed /\ demo_synth_stream_read /\ SynthUnchanged

StreamEnds == ~crashed /\ demo_synth_stream_ends /\ SynthUnchanged

Next == Client \/ Server \/ Media \/ Task \/ StreamRead \/ StreamEnds

(* Every thread goes on with what it has begun, and the media engine ticks.*)
Fairness ==
    WF_vars(Server) /\ WF_vars(Media) /\ WF_vars(Task) /\ WF_vars(StreamRead)

Spec == Init /\ [][Next]_vars

FairSpec == Spec /\ Fairness

-----------------------------------------------------------------------------
(* The refinement of the engine contract.  A STOP whose response has not   *)
(* been sent is still the engine's next request, and a SPEAK is unfinished *)
(* from its IN-PROGRESS response to SPEAK-COMPLETE or to the STOP response.*)
IdOf(r) == IF r = NULL THEN {} ELSE {r.id}

contract_in ==
    IF stop_response # NULL /\ reader.step # "stop_response"
      THEN <<stop_response>> \o engine_in
      ELSE engine_in

contract_speaks ==
    IF reader.step \in {"stop_response", "speak_request"}
      THEN IdOf(task)
      ELSE IdOf(task) \cup IdOf(speak_request) \cup IdOf(reader.req)

Contract == INSTANCE SynthChannel
            WITH engine_in <- contract_in, engine_speaks <- contract_speaks

(* The demo engine keeps the engine contract: every behaviour of a channel *)
(* with it is one of a channel with a contract engine.                     *)
KeepsContract == Contract!Spec

=============================================================================
