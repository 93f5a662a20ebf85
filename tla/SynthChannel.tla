----------------------------- MODULE SynthChannel -----------------------------
(* A synthesizer channel: the state machine with an engine that keeps the  *)
(* engine contract.                                                        *)
EXTENDS ServerControl, SynthStateMachine

(***************************************************************************)
(* The contract of a synthesizer engine, from the rules its plugins keep:  *)
(* it takes its requests in order and answers each one once; a SPEAK it    *)
(* accepted ends with SPEAK-COMPLETE unless it is stopped first.           *)
(***************************************************************************)

VARIABLE
    engine_speaks  \* ids of the SPEAK requests the engine has not finished

engine_speak(r) ==
    /\ r.method = "SPEAK"
    /\ \/ /\ Answer(r, ResponseTo(r, "INPROGRESS", TRUE))
          /\ engine_speaks' = engine_speaks \cup {r.id}
       \/ /\ Answer(r, ResponseTo(r, "COMPLETE", FALSE))
          /\ UNCHANGED engine_speaks

engine_stop(r) ==
    /\ r.method \in {"STOP", "BARGE-IN-OCCURRED"}
    /\ Answer(r, ResponseTo(r, "COMPLETE", TRUE))
    /\ engine_speaks' = {}

engine_pause_resume(r) ==
    /\ r.method \in {"PAUSE", "RESUME"}
    /\ \E ok \in BOOLEAN : Answer(r, ResponseTo(r, "COMPLETE", ok))
    /\ UNCHANGED engine_speaks

engine_other(r) ==
    /\ r.method \in {"SET-PARAMS", "GET-PARAMS", "CONTROL", "DEFINE-LEXICON"}
    /\ Answer(r, ResponseTo(r, "COMPLETE", TRUE))
    /\ UNCHANGED engine_speaks

engine_close(r) ==
    /\ r = CLOSE
    /\ Answer(r, Released("closed"))
    /\ engine_speaks' = {}

engine_complete ==
    /\ \E i \in engine_speaks :
         /\ engine_speaks' = engine_speaks \ {i}
         /\ engine_out' = Append(engine_out, EventOf(i, "SPEAK-COMPLETE"))
    /\ UNCHANGED engine_in

(* Bound: a marker is raised only when no other message is on its way.     *)
engine_marker ==
    /\ engine_out = <<>>
    /\ \E i \in engine_speaks :
         engine_out' = Append(engine_out, EventOf(i, "SPEECH-MARKER"))
    /\ UNCHANGED <<engine_in, engine_speaks>>

EngineRequest ==
    /\ engine_in # <<>>
    /\ LET r == Head(engine_in)
       IN  \/ engine_speak(r)
           \/ engine_stop(r)
           \/ engine_pause_resume(r)
           \/ engine_other(r)
           \/ engine_close(r)
    /\ EngineLeaves

EngineEvent == (engine_complete \/ engine_marker) /\ EngineLeaves

-----------------------------------------------------------------------------

vars == <<serverVars, engine_speaks>>

Init == SynthInit /\ engine_speaks = {}

Client == (ClientRequest \/ ClientTerminate) /\ UNCHANGED engine_speaks

Server == ServerStep /\ UNCHANGED engine_speaks

Media == MediaStep /\ UNCHANGED engine_speaks

Engine == ~crashed /\ EngineRequest /\ UNCHANGED <<synthVars, ended>>

EngineSpontaneous == ~crashed /\ EngineEvent /\ UNCHANGED <<synthVars, ended>>

Next == Client \/ Server \/ Media \/ Engine \/ EngineSpontaneous

(* The server task, the media engine and the engine's task run.  The       *)
(* client need not do anything, and a SPEAK may last for ever.             *)
Fairness == WF_vars(Server) /\ WF_vars(Media) /\ WF_vars(Engine)

Spec == Init /\ [][Next]_vars

FairSpec == Spec /\ Fairness

-----------------------------------------------------------------------------
MessageOrNull == Request \cup {NULL}

SpeakRequest == {r \in Request : r.method = "SPEAK"}

(* Every variable keeps the type its C counterpart has: in particular the  *)
(* speaker and the pending queue of the synthesizer hold SPEAK requests    *)
(* only, whatever the engine answers.                                      *)
TypeOK ==
    /\ sent \in Seq(Request) /\ Len(sent) <= MaxRequests
    /\ answered \in [Ids -> Nat]
    /\ session_active \in MessageOrNull \cup {TERMINATE}
    /\ request_queue \in Seq(Request \cup {TERMINATE})
    /\ session_state \in {"INITIALIZING", "DEACTIVATING", "TERMINATING",
                          "TERMINATED"}
    /\ subrequest_count \in 0..2
    /\ media \in {"ADDED", "SUBTRACTING", "SUBTRACTED"}
    /\ todo \in Seq([call : {"dispatch"}, req : Request \cup {TERMINATE}]
                    \cup [call : {"pending"}, req : SpeakRequest])
    /\ engine_in \in Seq(Request \cup {CLOSE})
    /\ engine_out \in Seq(EngineMessage)
    /\ active \in BOOLEAN
    /\ state \in {"IDLE", "SPEAKING", "PAUSED"}
    /\ is_pending \in BOOLEAN
    /\ active_request \in MessageOrNull
    /\ speaker \in SpeakRequest \cup {NULL}
    /\ queue \in Seq(SpeakRequest)
    /\ crashed \in BOOLEAN
    /\ ended \in [Ids -> Nat]
    /\ engine_speaks \subseteq Ids

=============================================================================
