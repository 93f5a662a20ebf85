------------------------------- MODULE MCApps -------------------------------
(***************************************************************************)
(* The programs on top of the stacks: umc with a directory of scenarios    *)
(* for its six classes of sessions, the demo client with its four          *)
(* applications, asr-client on libasr, the server from its start to its    *)
(* shutdown; and client and server reading their configuration.  A         *)
(* behaviour is one of the part that component names.                      *)
(***************************************************************************)
EXTENDS Naturals, Sequences

VARIABLES component,
    console, task, queue, application, scenarios, created, sessions, table, left,
    demo_console, demo_task, demo_queue, demo_sessions, demo_left,
    asr_engine, asr, asr_left,
    life_console, server, child, engine, call, commands, hasty, early,
    side, rest, stack, edits, ordered, selections

umcVars == <<console, task, queue, application, scenarios, created, sessions, table, left>>
demoVars == <<demo_console, demo_task, demo_queue, demo_sessions, demo_left>>
asrVars == <<asr_engine, asr, asr_left>>
lifeVars == <<life_console, server, child, engine, call, commands, hasty, early>>
configVars == <<side, rest, stack, edits, ordered, selections>>

\* uni1 stands for a profile whose server has no synthesizer.
MCProfiles ==
    [uni2 |-> [resources |-> {"synthesizer", "recognizer", "recorder", "verifier"}, media |-> TRUE],
     uni1 |-> [resources |-> {"recognizer"}, media |-> TRUE],
     none |-> [resources |-> {"synthesizer"}, media |-> FALSE]]

Elem(name, enable) ==
    [name |-> name, enable |-> enable, content |-> FALSE, readable |-> FALSE, digits |-> FALSE,
     voiceprint |-> FALSE, capabilities |-> FALSE, codecs |-> <<>>]
File(name, class, elems) ==
    [xml |-> TRUE, parsed |-> TRUE, root |-> "umcscenario", name |-> name, class |-> class,
     profile |-> "uni2", elems |-> elems]
Term(rates) ==
    [Elem("termination", "1") EXCEPT !.capabilities = TRUE, !.codecs = <<[name |-> "PCMU", rates |-> rates]>>]

MCFiles == { <<
    File("synth", "Synthesizer", << Elem("resource-discovery", "0"), Term(<<8000>>),
                                    [Elem("speak", "1") EXCEPT !.content = TRUE, !.readable = TRUE] >>),
    File("recog", "Recognizer", << Elem("define-grammar", "1"), Elem("recognize", "") >>),
    File("recog0", "Recognizer", << Elem("resource-discovery", ""), Elem("recognize", ""),
                                    [Elem("define-grammar", "0") EXCEPT !.content = TRUE] >>),
    File("dtmf", "DtmfRecognizer", << [Elem("recognize", "1") EXCEPT !.digits = TRUE, !.content = TRUE] >>),
    File("dtmf1", "DtmfRecognizer", << Elem("define-grammar", "1"), Elem("rtp-termination", "1") >>),
    File("rec", "Recorder", << Elem("record", "1"), Term(<<>>) >>),
    File("verify", "Verifier", << [Elem("verify", "") EXCEPT !.voiceprint = TRUE] >>),
    File("params", "Params", <<>>), File("none", "Other", <<>>),
    [File("bad", "Params", <<>>) EXCEPT !.xml = FALSE] >> }

MCRuns ==
    {[name |-> n, profile |-> ""] : n \in {"synth", "recog", "recog0", "dtmf", "dtmf1", "rec", "verify", "params", "none"}}
    \cup {[name |-> "synth", profile |-> "uni1"]}

MCDemoRuns ==
    {[name |-> n, profile |-> "uni2"] : n \in {"synth", "recog", "bypass", "discover", "none"}}
    \cup {[name |-> "recog", profile |-> "uni1"], [name |-> "synth", profile |-> "uni1"],
          [name |-> "synth", profile |-> "unknown"]}

MCLaunches == [profile : {"uni2", "none", "unknown"}, mode : {"file", "stream"}]

\* The documents of the distribution, with two engines for one resource, a library that
\* is out of date and one for an unknown resource
Element == [section |-> "components", name |-> "", id |-> "", enable |-> "true", ip |-> "absent", ext_ip |-> "absent",
      server_ip |-> "absent", resources |-> <<>>, sig |-> <<>>, cnt |-> <<>>, media |-> <<>>, rtp_factory |-> "",
      rtp_settings |-> "", sig_settings |-> "", map |-> [r \in {} |-> ""], plugin |-> "ok", serves |-> {}, tag |-> ""]
Res(r) == [id |-> r, enable |-> "true"]
Component(name, id) == [Element EXCEPT !.name = name, !.id = id]
Setting(name, id) == [Element EXCEPT !.section = "settings", !.name = name, !.id = id]
ProfileOf(name, id, sig, cnt, media) ==
    [Element EXCEPT !.section = "profiles", !.name = name, !.id = id, !.sig = sig, !.cnt = cnt, !.media = media,
              !.rtp_factory = "RTP-Factory", !.rtp_settings = "RTP-Settings"]
Plugin(id, r, outcome) == [Component("engine", id) EXCEPT !.serves = {r}, !.plugin = outcome]
ResourceFactory == [Element EXCEPT !.name = "resource-factory",
                       !.resources = <<Res("speechsynth"), Res("speechrecog"), Res("dtmfrecog"),
                                       [id |-> "recorder", enable |-> "false"]>>]
ClientDoc == <<
    [Element EXCEPT !.section = "properties", !.ip = "auto", !.server_ip = "auto"],
    ResourceFactory,
    Component("sip-uac", "SIP-Agent"), Component("rtsp-uac", "RTSP-Agent"),
    Component("mrcpv2-uac", "MRCPv2-Agent"),
    Component("media-engine", "Media-1"), Component("media-engine", "Media-2"),
    [Component("rtp-factory", "RTP-Factory") EXCEPT !.ip = "iface"],
    [Setting("sip-settings", "SIP-Settings") EXCEPT !.server_ip = "text"],
    Setting("rtsp-settings", "RTSP-Settings"), Setting("rtp-settings", "RTP-Settings"),
    [ProfileOf("mrcpv2-profile", "uni2", <<"SIP-Agent">>, <<"MRCPv2-Agent">>, <<"Media-1", "Media-2">>)
        EXCEPT !.sig_settings = "SIP-Settings"],
    [ProfileOf("mrcpv1-profile", "uni1", <<"RTSP-Agent">>, <<>>, <<"Media-1">>)
        EXCEPT !.sig_settings = "RTSP-Settings"]>>
ServerDoc == <<
    [Element EXCEPT !.section = "properties", !.ip = "auto", !.ext_ip = "text"],
    ResourceFactory,
    [Component("sip-uas", "SIP-Agent") EXCEPT !.ip = "auto"], Component("rtsp-uas", "RTSP-Agent"),
    Component("mrcpv2-uas", "MRCPv2-Agent"),
    Component("media-engine", "Media-1"),
    Component("rtp-factory", "RTP-Factory"),
    Plugin("Synth-1", "speechsynth", "ok"), Plugin("Recog-1", "speechrecog", "ok"), Plugin("Recog-2", "speechrecog", "ok"),
    Plugin("Old-1", "speechrecog", "old"), Plugin("Odd-1", "speechtranscriber", "ok"),
    Setting("rtp-settings", "RTP-Settings"),
    ProfileOf("mrcpv2-profile", "uni2", <<"SIP-Agent">>, <<"MRCPv2-Agent">>, <<"Media-1">>),
    [ProfileOf("mrcpv1-profile", "uni1", <<"RTSP-Agent">>, <<>>, <<"Media-1">>)
        EXCEPT !.map = [r \in {"speechrecog"} |-> "Recog-2"]]>>
MCDocuments == [s \in {"client", "server"} |-> IF s = "client" THEN ClientDoc ELSE ServerDoc]

U == INSTANCE UmcFramework WITH Profiles <- MCProfiles, SilenceFrames <- 1, FileSets <- MCFiles,
        RunRequests <- MCRuns, MaxRuns <- 1, MaxOrders <- 1, MaxInputs <- 1, MaxLosses <- 1
D == INSTANCE DemoFramework WITH DemoProfiles <- MCProfiles, DemoRequests <- MCDemoRuns, DemoFrames <- 1,
        MaxDemoRuns <- 1, MaxDemoEvents <- 1, MaxDemoLosses <- 1
A == INSTANCE AsrEngine WITH AsrProfiles <- MCProfiles, AsrLaunches <- MCLaunches, MaxCalls <- 2,
        MaxSpurious <- 1, MaxAsrEvents <- 1, MaxAsrLosses <- 1, BufferFrames <- 1

L == INSTANCE ServerLifecycle WITH console <- life_console, Sip <- "sip", Others <- {}, EngineIds <- {"engine"},
        MaxInputs <- 2, MaxBacklog <- 2
G == INSTANCE StackConfig WITH sessions <- selections, Documents <- MCDocuments, MaxEdits <- 2, MaxSessions <- 3

vars == <<component, umcVars, demoVars, asrVars, lifeVars, configVars>>

Init ==
    /\ component \in {"umc", "demo", "asr", "server", "config"}
    /\ U!UmcInit /\ D!DemoInit /\ A!AsrInit /\ L!LifeInit /\ G!ConfigInit
    /\ component # "asr" => ~asr_engine
    /\ component # "config" => side = "client"

Umc == component = "umc" /\ U!UmcNext /\ UNCHANGED <<component, demoVars, asrVars, lifeVars, configVars>>
Demo == component = "demo" /\ D!DemoNext /\ UNCHANGED <<component, umcVars, asrVars, lifeVars, configVars>>
Asr == component = "asr" /\ A!AsrNext /\ UNCHANGED <<component, umcVars, demoVars, lifeVars, configVars>>
Server == component = "server" /\ L!LifeNext /\ UNCHANGED <<component, umcVars, demoVars, asrVars, configVars>>
Config == component = "config" /\ G!ConfigNext /\ UNCHANGED <<component, umcVars, demoVars, asrVars, lifeVars>>

Next == Umc \/ Demo \/ Asr \/ Server \/ Config

\* In the initial states no fair step of a part is enabled.
Spec ==
    /\ Init /\ [][Next]_vars
    /\ U!UmcFairness /\ D!DemoFairness /\ A!AsrFairness /\ L!LifeFairness

(* The properties of the parts, stated in their modules.                   *)

(* Objects live as long as the stack and the media thread use them,        *)
(* engines are closed before they are destroyed, and the server ends with  *)
(* no call left unread.  Excepted are an asr session whose destruction is  *)
(* woken by something else, or whose file is opened again while it is      *)
(* streamed; a demo client that exits with a session open; a server that   *)
(* is shut down before it has started, for its engines; and one whose last *)
(* session ends before its agent is offline, for its calls                 *)
(* (synthsession.cpp, asr_engine.c, demo_framework.c, mrcp_server.c).      *)
AppsObjectsAlive ==
    /\ component = "umc" => U!UmcTypeOK /\ U!UmcObjectsAlive
    /\ component = "demo" => D!DemoObjectsAlive
    /\ component = "asr" => A!AsrTypeOK /\ A!AsrDestroysFinished
    /\ component = "server" => L!LifeTypeOK /\ L!EnginesClosedFirst /\ L!NobodyLeft

(* Requests are sent in the order of the scenario, and a result is that of *)
(* the recognition the caller asked for (umcsession.cpp, asr_engine.c).    *)
AppsRequestsInOrder == U!UmcRequestsInOrder /\ A!AsrResultIsCurrent

(* Every session, every call of the library and every shutdown ends.       *)
(* Excepted are a umc session that was stopped and is not killed, a demo   *)
(* session that lost its server or whose bypassed SPEAK was refused, what  *)
(* lives when umc, the demo client or the engine of libasr goes, and a     *)
(* shutdown requested before the server has started                        *)
(* (umcframework.cpp, demo_framework.c, asr_engine.c, mrcp_server.c).      *)
AppsSessionsEnd == U!UmcSessionsEnd /\ D!DemoSessionsEnd /\ A!AsrReturns /\ L!ShutdownCompletes


=============================================================================
