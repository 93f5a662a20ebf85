----------------------------- MODULE UmcFramework -----------------------------
(***************************************************************************)
(* The client umc (umcframework.cpp, umcconsole.cpp): a console thread that *)
(* posts what the user types to the framework's task, the task that owns    *)
(* scenarios and sessions, the client stack that posts its answers and      *)
(* events to the same task, and the media thread that reads the channel     *)
(* objects of the sessions.                                                 *)
(***************************************************************************)
EXTENDS Integers, Sequences, FiniteSets, SequencesExt, Application

(***************************************************************************)
(* The scenario files of the client umc (umcscenario.cpp and the six        *)
(* scenario classes). An element of a file is a record: its name, the value *)
(* of its enable attribute ("" when absent), whether the attributes that    *)
(* name a content file, digits or a voiceprint are given, whether that file *)
(* can be read, and the codecs of its capabilities.                         *)
(***************************************************************************)

LPCM == [name |-> "LPCM", rates |-> {8000, 16000}]

mpf_sample_rate_mask_get(rate) == {rate} \cap {8000, 16000, 32000, 48000}

\* The rates of a codec are cut to sixteen bits before they are looked up.
ParseRates(rates) == UNION {mpf_sample_rate_mask_get(rates[i] % 65536) : i \in DOMAIN rates}

IsElementEnabled(elem) == elem.enable # "0"

\* The enable attribute of the elements of the classes leaves the value as it is
\* when it is absent.
Enable(elem, was) == IF elem.enable = "" THEN was ELSE elem.enable = "1"

LoadFileContent(elem, was) == IF elem.content THEN elem.readable ELSE was

LoadDiscovery(scenario, elem) == [scenario EXCEPT !.discovery = IsElementEnabled(elem)]

LoadCapabilities(elem) ==
    {[name |-> elem.codecs[i].name, rates |-> ParseRates(elem.codecs[i].rates)] : i \in DOMAIN elem.codecs}

LoadTermination(scenario, elem) ==
    IF ~IsElementEnabled(elem) \/ ~elem.capabilities THEN scenario
    ELSE [scenario EXCEPT !.capabilities = TRUE, !.codecs = LoadCapabilities(elem)]

LoadRtpTermination(scenario) == scenario

InitCapabilities(scenario) == IF scenario.capabilities THEN scenario.codecs ELSE {LPCM}

LoadSpeak(scenario, elem) ==
    [scenario EXCEPT !.action = Enable(elem, @), !.content = LoadFileContent(elem, @)]

LoadRecognize(scenario, elem) ==
    [scenario EXCEPT !.action = Enable(elem, @), !.content = LoadFileContent(elem, @)]

LoadDefineGrammar(scenario, elem) ==
    [scenario EXCEPT !.grammar = Enable(elem, @), !.content = LoadFileContent(elem, @)]

\* The grammar of a DTMF scenario is the attribute itself, not a file.
LoadDtmfRecognize(scenario, elem) ==
    [scenario EXCEPT !.action = Enable(elem, @), !.content = @ \/ elem.content, !.digits = @ \/ elem.digits]

LoadDtmfDefineGrammar(scenario, elem) ==
    [scenario EXCEPT !.grammar = Enable(elem, @), !.content = @ \/ elem.content]

LoadRecord(scenario, elem) == [scenario EXCEPT !.action = Enable(elem, @)]

LoadVerify(scenario, elem) == [scenario EXCEPT !.voiceprint = @ \/ elem.voiceprint]

LoadSynthElement(scenario, elem) == IF elem.name = "speak" THEN LoadSpeak(scenario, elem) ELSE scenario

LoadRecogElement(scenario, elem) ==
    CASE elem.name = "define-grammar" -> LoadDefineGrammar(scenario, elem)
      [] elem.name = "recognize" -> LoadRecognize(scenario, elem)
      [] OTHER -> scenario

LoadDtmfElement(scenario, elem) ==
    CASE elem.name = "define-grammar" -> LoadDtmfDefineGrammar(scenario, elem)
      [] elem.name = "recognize" -> LoadDtmfRecognize(scenario, elem)
      [] OTHER -> scenario

LoadRecorderElement(scenario, elem) == IF elem.name = "record" THEN LoadRecord(scenario, elem) ELSE scenario

LoadVerifierElement(scenario, elem) == IF elem.name = "verify" THEN LoadVerify(scenario, elem) ELSE scenario

\* An element of the base class, else one of the class, else a warning.
LoadElement(scenario, elem) ==
    CASE elem.name = "resource-discovery" -> LoadDiscovery(scenario, elem)
      [] elem.name = "termination" -> LoadTermination(scenario, elem)
      [] elem.name = "rtp-termination" -> LoadRtpTermination(scenario)
      [] OTHER ->
            CASE scenario.class = "Synthesizer" -> LoadSynthElement(scenario, elem)
              [] scenario.class = "Recognizer" -> LoadRecogElement(scenario, elem)
              [] scenario.class = "DtmfRecognizer" -> LoadDtmfElement(scenario, elem)
              [] scenario.class = "Recorder" -> LoadRecorderElement(scenario, elem)
              [] scenario.class = "Verifier" -> LoadVerifierElement(scenario, elem)
              [] OTHER -> scenario

Load(scenario, elems) == FoldLeft(LoadElement, scenario, elems)

-----------------------------------------------------------------------------
Classes == {"Synthesizer", "Recognizer", "Recorder", "DtmfRecognizer", "Params", "Verifier"}

CreateScenario(class, profile) ==
    [class |-> class, profile |-> profile, discovery |-> FALSE, capabilities |-> FALSE, codecs |-> {},
     grammar |-> class = "Recognizer", action |-> class \in {"Synthesizer", "Recognizer", "Recorder"},
     content |-> FALSE, digits |-> FALSE, voiceprint |-> FALSE]

\* A file that cannot be parsed, is of another kind, has no name or class, or an
\* unknown class, adds nothing; a second scenario of a name replaces the first.
LoadScenario(table, file) ==
    IF file.parsed /\ file.root = "umcscenario" /\ file.name # "" /\ file.class \in Classes
    THEN [name \in DOMAIN table \cup {file.name} |->
            IF name = file.name THEN Load(CreateScenario(file.class, file.profile), file.elems) ELSE table[name]]
    ELSE table

LoadScenarios(files) == FoldLeft(LoadScenario, <<>>, SelectSeq(files, LAMBDA file : file.xml))

-----------------------------------------------------------------------------

(***************************************************************************)
(* The sessions of the client umc: the base class (umcsession.cpp) and the  *)
(* six classes that run a scenario each. A method takes the session and     *)
(* returns it as it leaves it; ok is the result of the methods that report  *)
(* one to their caller. Operators of a class carry its name.                *)
(***************************************************************************)

CONSTANTS
    Profiles,       \* profile name -> [resources, media]
    SilenceFrames   \* frames of silence sent when there is no input file (5 seconds)

\* The channel object of a session, one record for the six classes.
NoChannel ==
    [exists |-> FALSE, codecs |-> {}, request |-> 0, file |-> FALSE, streaming |-> FALSE,
     time |-> 0, generator |-> FALSE]

UmcSession_init(scenario) ==
    [scenario |-> scenario, profile |-> "", running |-> FALSE, terminating |-> FALSE, handle |-> NoHandle,
     message |-> 0, queue |-> <<>>, current |-> 0, chan |-> NoChannel, ok |-> TRUE, exit |-> FALSE]

Result(s, ok) == [s EXCEPT !.ok = ok]

CreateMrcpSession(s, application, profile) ==
    [s EXCEPT !.profile = profile, !.handle = mrcp_application_session_create_ex(application, Profiles, profile)]

DestroyMrcpSession(s) == [s EXCEPT !.handle = mrcp_application_session_destroy(@)]

AddMrcpChannel(s) ==
    IF ~s.running THEN Result(s, FALSE)
    ELSE [s EXCEPT !.handle = mrcp_application_channel_add(@, s.chan.exists), !.ok = TRUE]

SendMrcpRequest(s, request) ==
    IF ~s.running THEN s
    ELSE [s EXCEPT !.message = Len(s.handle.sent) + 1,
                   !.handle = mrcp_application_message_send(@, s.chan.exists, request)]

DiscoverResources(s) ==
    IF ~s.running THEN Result(s, FALSE)
    ELSE [s EXCEPT !.handle = mrcp_application_resource_discover(@), !.ok = TRUE]

Terminate(s) ==
    IF s.terminating THEN s
    ELSE [s EXCEPT !.running = FALSE, !.terminating = TRUE, !.handle = mrcp_application_session_terminate(@)]

\* ExitSession posts a message to the framework's task: exit marks it to be posted.
UmcSession_OnSessionTerminate(s) ==
    IF ~s.terminating THEN s ELSE [DestroyMrcpSession(s) EXCEPT !.terminating = FALSE, !.exit = TRUE]

Matches(s, message) == s.running /\ s.message # 0 /\ s.message = message.id

OnTerminateEvent(s) == IF s.running THEN Terminate(s) ELSE s

\* Creating the channel object, its termination and the MRCP channel.
CreateAudioTermination(s) ==
    mrcp_application_audio_termination_create(InitCapabilities(s.scenario), LPCM)

CreateMrcpChannel(s, resource) ==
    IF mrcp_application_channel_create(s.handle, Profiles[s.profile], resource, TRUE, FALSE)
    THEN [NoChannel EXCEPT !.exists = TRUE, !.codecs = CreateAudioTermination(s)]
    ELSE NoChannel

Deleted(s) == [s EXCEPT !.chan = NoChannel]

KeptIfAdded(s) == IF s.ok THEN s ELSE Deleted(s)

StartOn(s, channel) ==
    IF channel.exists THEN KeptIfAdded(AddMrcpChannel([s EXCEPT !.chan = channel])) ELSE Result(s, FALSE)

\* A STOP names the request in progress, which the session then forgets.
StopRequest(s) == mrcp_application_message_create("STOP", "none", {}, s.chan.request)

StopOn(s) ==
    IF s.terminating \/ ~s.chan.exists THEN s
    ELSE [SendMrcpRequest(s, StopRequest(s)) EXCEPT !.chan.request = 0]

Silence(channel) == [channel EXCEPT !.time = IF channel.file THEN @ ELSE SilenceFrames]

Body(scenario) == IF scenario.content THEN "inline" ELSE "none"

-----------------------------------------------------------------------------
\* SynthSession.

CreateSynthChannel(s) == CreateMrcpChannel(s, "synthesizer")

Synth_Start(s) == IF s.scenario.action THEN StartOn(s, CreateSynthChannel(s)) ELSE Result(s, FALSE)

Synth_Stop(s) == StopOn(s)

Synth_OnSessionTerminate(s) == UmcSession_OnSessionTerminate(Deleted(s))

CreateSpeakRequest(s) == mrcp_application_message_create("SPEAK", Body(s.scenario), {}, 0)

Synth_OnChannelAdd(s, status, file) ==
    CASE ~s.running -> s
      [] s.running /\ (~mrcp_application_sink_descriptor_get(s.handle) \/ ~status) -> Terminate(s)
      [] OTHER -> [SendMrcpRequest(s, CreateSpeakRequest(s)) EXCEPT !.chan.file = file]

Synth_OnMessageReceive(s, message) ==
    CASE message.kind = "RESPONSE" /\ message.method = "SPEAK" ->
            IF message.state = "INPROGRESS" THEN [s EXCEPT !.chan.request = s.message] ELSE Terminate(s)
      [] message.kind = "EVENT" /\ message.method = "SPEAK" -> Terminate([s EXCEPT !.chan.request = 0])
      [] OTHER -> s

-----------------------------------------------------------------------------
\* RecogSession.

CreateRecogChannel(s) == CreateMrcpChannel(s, "recognizer")

Recog_Start(s) ==
    IF s.scenario.grammar \/ s.scenario.action THEN StartOn(s, CreateRecogChannel(s)) ELSE Result(s, FALSE)

Recog_Stop(s) == StopOn(s)

Recog_OnSessionTerminate(s) == UmcSession_OnSessionTerminate(Deleted(s))

Recog_ReadStream(channel, over) ==
    CASE ~channel.streaming -> channel
      [] channel.streaming /\ channel.file -> [channel EXCEPT !.streaming = ~over]
      [] OTHER -> IF channel.time > 0 THEN [channel EXCEPT !.time = @ - 1] ELSE [channel EXCEPT !.streaming = FALSE]

CreateDefineGrammarRequest(s) ==
    mrcp_application_message_create("DEFINE-GRAMMAR", Body(s.scenario), {"Content-Id"}, 0)

\* With DEFINE-GRAMMAR the grammar is named by its URI, else it is in the request.
CreateRecognizeRequest(s) ==
    IF s.scenario.grammar THEN mrcp_application_message_create("RECOGNIZE", "session", {}, 0)
    ELSE mrcp_application_message_create("RECOGNIZE", Body(s.scenario), {"Content-Id"}, 0)

Recog_StartRecognition(s, file) ==
    IF ~mrcp_application_source_descriptor_get(s.handle) THEN Terminate(s)
    ELSE [SendMrcpRequest(s, CreateRecognizeRequest(s)) EXCEPT !.chan = Silence([@ EXCEPT !.file = file])]

Recog_OnChannelAdd(s, status, file) ==
    CASE ~s.running -> s
      [] s.running /\ ~status -> Terminate(s)
      [] s.running /\ status /\ s.scenario.grammar -> SendMrcpRequest(s, CreateDefineGrammarRequest(s))
      [] OTHER -> Recog_StartRecognition(s, file)

Recog_OnDefineGrammar(s, file) == IF s.scenario.action THEN Recog_StartRecognition(s, file) ELSE Terminate(s)

Recog_OnMessageReceive(s, message, file) ==
    CASE message.kind = "RESPONSE" /\ message.method = "DEFINE-GRAMMAR" ->
            IF message.state = "COMPLETE" THEN Recog_OnDefineGrammar(s, file) ELSE Terminate(s)
      [] message.kind = "RESPONSE" /\ message.method = "RECOGNIZE" ->
            IF message.state = "INPROGRESS" THEN [s EXCEPT !.chan.request = s.message, !.chan.streaming = TRUE]
            ELSE Terminate(s)
      [] message.kind = "EVENT" /\ message.method = "RECOGNIZE" ->
            Terminate([s EXCEPT !.chan.request = 0, !.chan.streaming = FALSE])
      [] OTHER -> s

-----------------------------------------------------------------------------
\* DtmfSession: no input file but digits, put into the stream by a generator.

Dtmf_Start(s) ==
    IF s.scenario.grammar \/ s.scenario.action THEN StartOn(s, CreateMrcpChannel(s, "recognizer")) ELSE Result(s, FALSE)

Dtmf_Stop(s) == StopOn(s)

Dtmf_OnSessionTerminate(s) == UmcSession_OnSessionTerminate(Deleted(s))

Dtmf_CreateDefineGrammarRequest(s) ==
    mrcp_application_message_create("DEFINE-GRAMMAR", Body(s.scenario), {"Content-Id"}, 0)

Dtmf_CreateRecognizeRequest(s) ==
    IF s.scenario.grammar THEN mrcp_application_message_create("RECOGNIZE", "session", {}, 0)
    ELSE mrcp_application_message_create("RECOGNIZE", Body(s.scenario), {"Content-Id"}, 0)

Dtmf_StartRecognition(s) == SendMrcpRequest(s, Dtmf_CreateRecognizeRequest(s))

\* A generator needs the codec of the stream to write tones into it.
WithGenerator(s) == [s EXCEPT !.chan.generator = s.handle.descriptor]

Dtmf_OnChannelAdd(s, status) ==
    CASE ~s.running -> s
      [] s.running /\ ~status -> Terminate(s)
      [] s.running /\ status /\ s.scenario.grammar ->
            SendMrcpRequest(WithGenerator(s), Dtmf_CreateDefineGrammarRequest(s))
      [] OTHER -> Dtmf_StartRecognition(WithGenerator(s))

Dtmf_OnDefineGrammar(s) == IF s.scenario.action THEN Dtmf_StartRecognition(s) ELSE Terminate(s)

Dtmf_OnMessageReceive(s, message) ==
    CASE message.kind = "RESPONSE" /\ message.method = "DEFINE-GRAMMAR" ->
            IF message.state = "COMPLETE" THEN Dtmf_OnDefineGrammar(s) ELSE Terminate(s)
      [] message.kind = "RESPONSE" /\ message.method = "RECOGNIZE" ->
            IF message.state = "INPROGRESS"
            THEN [s EXCEPT !.chan.streaming = @ \/ (s.chan.generator /\ s.scenario.digits)]
            ELSE Terminate(s)
      [] message.kind = "EVENT" /\ message.method = "RECOGNIZE" -> Terminate([s EXCEPT !.chan.streaming = FALSE])
      [] OTHER -> s

-----------------------------------------------------------------------------
\* RecorderSession.

CreateRecorderChannel(s) == CreateMrcpChannel(s, "recorder")

Recorder_Start(s) == IF s.scenario.action THEN StartOn(s, CreateRecorderChannel(s)) ELSE Result(s, FALSE)

Recorder_OnSessionTerminate(s) == UmcSession_OnSessionTerminate(Deleted(s))

Recorder_ReadStream(channel, over) ==
    [channel EXCEPT !.streaming = @ /\ ~(channel.file /\ over)]

CreateRecordRequest ==
    mrcp_application_message_create("RECORD", "none", {"No-Input-Timeout", "Final-Silence", "Max-Time"}, 0)

StartRecorder(s, file) ==
    IF ~mrcp_application_source_descriptor_get(s.handle) THEN Terminate(s)
    ELSE [SendMrcpRequest(s, CreateRecordRequest) EXCEPT !.chan.file = file]

Recorder_OnChannelAdd(s, status, file) ==
    CASE ~s.running -> s
      [] s.running /\ ~status -> Terminate(s)
      [] OTHER -> StartRecorder(s, file)

Recorder_OnMessageReceive(s, message) ==
    CASE message.kind = "RESPONSE" /\ message.method = "RECORD" ->
            IF message.state = "INPROGRESS" THEN [s EXCEPT !.chan.streaming = TRUE] ELSE Terminate(s)
      [] message.kind = "EVENT" /\ message.method = "RECORD" -> Terminate([s EXCEPT !.chan.streaming = FALSE])
      [] OTHER -> s

-----------------------------------------------------------------------------
\* VerifierSession: the verification is bracketed by START- and END-SESSION.

CreateVerifierChannel(s) == CreateMrcpChannel(s, "verifier")

Verifier_Start(s) == StartOn(s, CreateVerifierChannel(s))

Verifier_Stop(s) ==
    IF s.terminating \/ ~s.chan.exists THEN s
    ELSE SendMrcpRequest(s, mrcp_application_message_create("STOP", "none", {}, 0))

Verifier_OnSessionTerminate(s) == UmcSession_OnSessionTerminate(Deleted(s))

Verifier_ReadStream(channel, over) ==
    CASE ~channel.streaming -> channel
      [] channel.streaming /\ channel.file -> [channel EXCEPT !.streaming = ~over]
      [] OTHER -> IF channel.time > 0 THEN [channel EXCEPT !.time = @ - 1] ELSE [channel EXCEPT !.streaming = FALSE]

CreateStartSessionRequest(s) ==
    mrcp_application_message_create("START-SESSION", "none",
        IF s.scenario.voiceprint THEN {"Voiceprint-Identifier"} ELSE {}, 0)

CreateEndSessionRequest == mrcp_application_message_create("END-SESSION", "none", {}, 0)

CreateVerificationRequest ==
    mrcp_application_message_create("VERIFY", "none", {"No-Input-Timeout", "Start-Input-Timers"}, 0)

Verifier_GetAudioIn(s, file) == s.scenario.voiceprint /\ file

StartVerification(s, file) ==
    IF ~mrcp_application_source_descriptor_get(s.handle) THEN Terminate(s)
    ELSE [SendMrcpRequest(s, CreateStartSessionRequest(s))
            EXCEPT !.chan = Silence([@ EXCEPT !.file = Verifier_GetAudioIn(s, file)])]

Verifier_OnChannelAdd(s, status, file) ==
    CASE ~s.running -> s
      [] s.running /\ ~status -> Terminate(s)
      [] OTHER -> StartVerification(s, file)

Verifier_OnMessageReceive(s, message) ==
    CASE message.kind = "RESPONSE" /\ message.method = "START-SESSION" -> SendMrcpRequest(s, CreateVerificationRequest)
      [] message.kind = "RESPONSE" /\ message.method = "END-SESSION" -> Terminate(s)
      [] message.kind = "RESPONSE" /\ message.method = "VERIFY" ->
            IF message.state = "INPROGRESS" THEN [s EXCEPT !.chan.request = s.message, !.chan.streaming = TRUE]
            ELSE SendMrcpRequest(s, CreateEndSessionRequest)
      [] message.kind = "EVENT" /\ message.method = "VERIFY" ->
            [SendMrcpRequest(s, CreateEndSessionRequest) EXCEPT !.chan.request = 0, !.chan.streaming = FALSE]
      [] OTHER -> s

-----------------------------------------------------------------------------
\* SetParamSession: three SET-PARAMS, each followed by a GET-PARAMS of what it set.

Fields1 == {"Confidence-Threshold", "Sensitivity-Level", "Speed-Vs-Accuracy", "N-Best-List-Length", "No-Input-Timeout"}

Fields2 == {"Recognition-Timeout", "Speech-Complete-Timeout", "Speech-Incomplete-Timeout", "DTMF-Interdigit-Timeout"}

CreateSetParams1 == mrcp_application_message_create("SET-PARAMS", "none", Fields1, 0)

CreateGetParams1 == mrcp_application_message_create("GET-PARAMS", "none", Fields1, 0)

CreateSetParams2 == mrcp_application_message_create("SET-PARAMS", "none", Fields2, 0)

CreateGetParams2 == mrcp_application_message_create("GET-PARAMS", "none", Fields2, 0)

CreateSetParams3 == mrcp_application_message_create("SET-PARAMS", "none", {"Vendor-Specific-Parameters"}, 0)

CreateGetParams3 ==
    mrcp_application_message_create("GET-PARAMS", "none",
        {"Accept-Charset", "Cache-Control", "Logging-Tag", "Vendor-Specific-Parameters", "Fetch-Timeout",
         "Set-Cookie", "Set-Cookie2"}, 0)

Params_CreateRecogChannel(s) == CreateMrcpChannel(s, "recognizer")

Params_Start(s) == StartOn(s, Params_CreateRecogChannel(s))

Params_OnSessionTerminate(s) == UmcSession_OnSessionTerminate(Deleted(s))

CreateRequestQueue(s) ==
    [s EXCEPT !.current = 0,
              !.queue = <<CreateSetParams1, CreateGetParams1, CreateSetParams2, CreateGetParams2,
                          CreateSetParams3, CreateGetParams3>>]

ProcessNextRequest(s) ==
    IF s.current >= Len(s.queue) THEN Terminate(s) ELSE SendMrcpRequest(s, s.queue[s.current + 1])

Params_OnChannelAdd(s, status) ==
    CASE ~s.running -> s
      [] s.running /\ ~status -> Terminate(s)
      [] OTHER -> ProcessNextRequest(CreateRequestQueue(s))

Params_OnMessageReceive(s, message) ==
    IF message.kind # "RESPONSE" THEN s
    ELSE IF message.method \in {"SET-PARAMS", "GET-PARAMS"} /\ message.state = "COMPLETE"
         THEN ProcessNextRequest([s EXCEPT !.current = @ + 1])
         ELSE Terminate(s)

-----------------------------------------------------------------------------
\* The virtual methods.

Start(s) ==
    CASE s.scenario.class = "Synthesizer" -> Synth_Start(s)
      [] s.scenario.class = "Recognizer" -> Recog_Start(s)
      [] s.scenario.class = "DtmfRecognizer" -> Dtmf_Start(s)
      [] s.scenario.class = "Recorder" -> Recorder_Start(s)
      [] s.scenario.class = "Verifier" -> Verifier_Start(s)
      [] s.scenario.class = "Params" -> Params_Start(s)

\* The classes without a Stop of their own only report whether they terminate.
Stop(s) ==
    CASE s.scenario.class = "Synthesizer" -> Synth_Stop(s)
      [] s.scenario.class = "Recognizer" -> Recog_Stop(s)
      [] s.scenario.class = "DtmfRecognizer" -> Dtmf_Stop(s)
      [] s.scenario.class = "Verifier" -> Verifier_Stop(s)
      [] OTHER -> s

OnSessionTerminate(s) ==
    CASE s.scenario.class = "Synthesizer" -> Synth_OnSessionTerminate(s)
      [] s.scenario.class = "Recognizer" -> Recog_OnSessionTerminate(s)
      [] s.scenario.class = "DtmfRecognizer" -> Dtmf_OnSessionTerminate(s)
      [] s.scenario.class = "Recorder" -> Recorder_OnSessionTerminate(s)
      [] s.scenario.class = "Verifier" -> Verifier_OnSessionTerminate(s)
      [] s.scenario.class = "Params" -> Params_OnSessionTerminate(s)

OnChannelAdd(s, status, file) ==
    CASE s.scenario.class = "Synthesizer" -> Synth_OnChannelAdd(s, status, file)
      [] s.scenario.class = "Recognizer" -> Recog_OnChannelAdd(s, status, file)
      [] s.scenario.class = "DtmfRecognizer" -> Dtmf_OnChannelAdd(s, status)
      [] s.scenario.class = "Recorder" -> Recorder_OnChannelAdd(s, status, file)
      [] s.scenario.class = "Verifier" -> Verifier_OnChannelAdd(s, status, file)
      [] s.scenario.class = "Params" -> Params_OnChannelAdd(s, status)

OnMatchedMessage(s, message, file) ==
    CASE s.scenario.class = "Synthesizer" -> Synth_OnMessageReceive(s, message)
      [] s.scenario.class = "Recognizer" -> Recog_OnMessageReceive(s, message, file)
      [] s.scenario.class = "DtmfRecognizer" -> Dtmf_OnMessageReceive(s, message)
      [] s.scenario.class = "Recorder" -> Recorder_OnMessageReceive(s, message)
      [] s.scenario.class = "Verifier" -> Verifier_OnMessageReceive(s, message)
      [] s.scenario.class = "Params" -> Params_OnMessageReceive(s, message)

OnMessageReceive(s, message, file) == IF Matches(s, message) THEN OnMatchedMessage(s, message, file) ELSE s

ReadStream(s, over) ==
    CASE s.scenario.class = "Recognizer" -> [s EXCEPT !.chan = Recog_ReadStream(@, over)]
      [] s.scenario.class = "Recorder" -> [s EXCEPT !.chan = Recorder_ReadStream(@, over)]
      [] s.scenario.class = "Verifier" -> [s EXCEPT !.chan = Verifier_ReadStream(@, over)]
      [] OTHER -> s

TerminateUnless(s) == IF s.ok THEN s ELSE Terminate(s)

OnResourceDiscover(s) == IF s.running THEN TerminateUnless(Start(s)) ELSE s

Undone(s) == IF s.ok THEN s ELSE DestroyMrcpSession([s EXCEPT !.running = FALSE])

\* Run of a new session; profile is the one it was given, or that of its scenario.
RunWith(s) ==
    IF ~s.handle.valid THEN Result(s, FALSE)
    ELSE Undone(IF s.scenario.discovery THEN DiscoverResources([s EXCEPT !.running = TRUE])
                ELSE Start([s EXCEPT !.running = TRUE]))

Run(s, application, profile) ==
    RunWith(CreateMrcpSession(s, application, IF profile = "" THEN s.scenario.profile ELSE profile))

-----------------------------------------------------------------------------

CONSTANTS
    FileSets,       \* contents of the scenario directory: sequences of files
    RunRequests,    \* what the user may run: [name, profile]
    MaxRuns, MaxOrders, MaxInputs, MaxLosses

Ids == 1 .. MaxRuns

VARIABLES
    console,        \* UmcConsole::Run: "off", then the command line "up", "exiting", "down"
    task,           \* the framework's task: "none", "starting", "running", "over"
    queue,          \* its messages
    application,    \* the client stack is started and the application registered
    scenarios,      \* m_pScenarioTable
    created,        \* the static counter of session identifiers
    sessions,       \* the session objects
    table,          \* m_pSessionTable
    left            \* commands, events and losses left to happen

umcVars == <<console, task, queue, application, scenarios, created, sessions, table, left>>

NoSession == UmcSession_init(CreateScenario("", ""))

UmcInit ==
    /\ console = "off" /\ task = "none" /\ queue = <<>>
    /\ application = FALSE /\ scenarios = <<>>
    /\ created = 0 /\ sessions = [id \in Ids |-> NoSession] /\ table = {}
    /\ left = [runs |-> MaxRuns, orders |-> MaxOrders, inputs |-> MaxInputs, losses |-> MaxLosses]

\* UmcTaskMsg.
Msg(type, id, request, message) == [type |-> type, id |-> id, request |-> request, message |-> message]

NoRequest == [name |-> "", profile |-> ""]

Order(type, id) == Msg(type, id, NoRequest, TerminateEvent)

-----------------------------------------------------------------------------
\* The console thread. A command that only prints is a message like the others.

\* Create makes the task and starts it.
CreateTask ==
    /\ console = "off"
    /\ console' = "up" /\ task' = "starting"
    /\ UNCHANGED <<queue, application, scenarios, created, sessions, table, left>>

RunSession ==
    /\ console = "up" /\ left.runs > 0
    /\ \E request \in RunRequests : queue' = Append(queue, Msg("RUN", 0, request, TerminateEvent))
    /\ left' = [left EXCEPT !.runs = @ - 1]
    /\ UNCHANGED <<console, task, application, scenarios, created, sessions, table>>

Command(type) ==
    /\ console = "up" /\ left.orders > 0
    /\ \E id \in Ids : queue' = Append(queue, Order(type, id))
    /\ left' = [left EXCEPT !.orders = @ - 1]
    /\ UNCHANGED <<console, task, application, scenarios, created, sessions, table>>

StopSession == Command("STOP")

KillSession == Command("KILL")

ShowSessions == Command("SHOW")

\* exit: Destroy asks the task to terminate and waits until it has.
Exit ==
    /\ console = "up"
    /\ console' = "exiting"
    /\ queue' = Append(queue, Order("TERMINATE", 0))
    /\ UNCHANGED <<task, application, scenarios, created, sessions, table, left>>

DestroyTask ==
    /\ console = "exiting" /\ task = "over"
    /\ console' = "down"
    /\ queue' = <<>>
    /\ UNCHANGED <<task, application, scenarios, created, sessions, table, left>>

-----------------------------------------------------------------------------
\* The framework's task.

\* The client stack may fail to start; the scenarios are loaded all the same.
UmcOnStartComplete ==
    /\ task = "starting"
    /\ task' = "running"
    /\ application' \in BOOLEAN
    /\ \E files \in FileSets : scenarios' = LoadScenarios(files)
    /\ UNCHANGED <<console, queue, created, sessions, table, left>>

\* The stack is shut down and destroyed, then the scenarios; sessions are left.
UmcOnTerminateComplete ==
    /\ task = "running" /\ queue # <<>> /\ Head(queue).type = "TERMINATE"
    /\ task' = "over" /\ queue' = Tail(queue)
    /\ application' = FALSE /\ scenarios' = <<>>
    /\ UNCHANGED <<console, created, sessions, table, left>>

AddSession(id, s) ==
    /\ sessions' = [sessions EXCEPT ![id] = IF s.ok THEN s ELSE NoSession]
    /\ table' = IF s.ok THEN table \cup {id} ELSE table

ProcessRunRequest ==
    /\ Head(queue).type = "RUN"
    /\ LET request == Head(queue).request IN
        IF request.name \notin DOMAIN scenarios THEN UNCHANGED <<created, sessions, table>>
        ELSE /\ created' = created + 1
             /\ \E s \in {Run(UmcSession_init(scenarios[request.name]), application, request.profile)} :
                    AddSession(created + 1, s)
    /\ queue' = Tail(queue)

\* A stop or kill for a session that is not in the table does nothing.
Updated(id, s) == [sessions EXCEPT ![id] = IF id \in table THEN s ELSE @]

ProcessStopRequest ==
    /\ Head(queue).type = "STOP"
    /\ sessions' = Updated(Head(queue).id, Stop(sessions[Head(queue).id]))
    /\ queue' = Tail(queue)
    /\ UNCHANGED <<created, table>>

ProcessKillRequest ==
    /\ Head(queue).type = "KILL"
    /\ sessions' = Updated(Head(queue).id, Terminate(sessions[Head(queue).id]))
    /\ queue' = Tail(queue)
    /\ UNCHANGED <<created, table>>

ProcessShowSessions ==
    /\ Head(queue).type = "SHOW"
    /\ queue' = Tail(queue)
    /\ UNCHANGED <<created, sessions, table>>

ProcessSessionExit ==
    /\ Head(queue).type = "EXIT"
    /\ table' = table \ {Head(queue).id}
    /\ sessions' = [sessions EXCEPT ![Head(queue).id] = NoSession]
    /\ queue' = Tail(queue)
    /\ UNCHANGED created

Dispatcher ==
    {"on_session_update", "on_session_terminate", "on_channel_add", "on_channel_remove",
     "on_message_receive", "on_terminate_event", "on_resource_discover"}

\* AppOnSessionTerminate and the others; the base class's handlers of session
\* updates and removed channels only report whether the session runs.
Dispatched(s, handler, message, file) ==
    CASE handler = "on_session_terminate" -> OnSessionTerminate(s)
      [] handler = "on_channel_add" -> OnChannelAdd(s, message.status, file)
      [] handler = "on_message_receive" -> OnMessageReceive(s, message, file)
      [] handler = "on_terminate_event" -> OnTerminateEvent(s)
      [] handler = "on_resource_discover" -> OnResourceDiscover(s)
      [] OTHER -> s

\* ExitSession posts the last message of a session.
ExitSession(id, s, rest) == IF s.exit THEN Append(rest, Order("EXIT", id)) ELSE rest

ProcessClientMessage ==
    /\ Head(queue).type = "CLIENT"
    /\ \E file \in BOOLEAN :
        \E s \in {Dispatched(sessions[Head(queue).id],
                             mrcp_application_message_dispatch(Dispatcher, Head(queue).message),
                             Head(queue).message, file)} :
            /\ sessions' = [sessions EXCEPT ![Head(queue).id] = s]
            /\ queue' = ExitSession(Head(queue).id, s, Tail(queue))
    /\ UNCHANGED <<created, table>>

UmcProcessMsg ==
    /\ task = "running" /\ queue # <<>>
    /\ \/ ProcessRunRequest \/ ProcessStopRequest \/ ProcessKillRequest
       \/ ProcessShowSessions \/ ProcessSessionExit \/ ProcessClientMessage
    /\ UNCHANGED <<console, task, application, scenarios, left>>

-----------------------------------------------------------------------------
\* The client stack, which calls AppMessageHandler, and the media thread. Both
\* stop when the task shuts the stack down.

AppMessageHandler(id, outcome) ==
    /\ sessions' = [sessions EXCEPT ![id].handle = outcome.handle]
    /\ queue' = Append(queue, Msg("CLIENT", id, NoRequest, outcome.message))
    /\ UNCHANGED <<console, task, application, scenarios, created, table>>

InStack(id) == task = "running" /\ sessions[id].handle.valid /\ ~sessions[id].handle.over

Offered(id) == \E codec \in sessions[id].chan.codecs : codec.rates # {}

StackAnswers(id) ==
    /\ InStack(id) /\ sessions[id].handle.commands # <<>>
    /\ \E outcome \in Answers(sessions[id].handle, Offered(id)) : AppMessageHandler(id, outcome)
    /\ UNCHANGED left

StackCompletes(id) ==
    /\ InStack(id) /\ sessions[id].handle.active # 0
    /\ AppMessageHandler(id, Completed(sessions[id].handle))
    /\ UNCHANGED left

StackInputStarted(id) ==
    /\ InStack(id) /\ sessions[id].handle.active # 0 /\ left.inputs > 0
    /\ AppMessageHandler(id, InputStarted(sessions[id].handle))
    /\ left' = [left EXCEPT !.inputs = @ - 1]

StackServerLost(id) ==
    /\ InStack(id) /\ sessions[id].handle.media /\ ~sessions[id].handle.lost /\ left.losses > 0
    /\ AppMessageHandler(id, ServerLost(sessions[id].handle))
    /\ left' = [left EXCEPT !.losses = @ - 1]

Media(id) ==
    /\ task = "running" /\ sessions[id].handle.media
    /\ \E over \in BOOLEAN : sessions' = [sessions EXCEPT ![id] = ReadStream(@, over)]
    /\ UNCHANGED <<console, task, queue, application, scenarios, created, table, left>>

UmcNext ==
    \/ CreateTask \/ RunSession \/ StopSession \/ KillSession \/ ShowSessions \/ Exit \/ DestroyTask
    \/ UmcOnStartComplete \/ UmcOnTerminateComplete \/ UmcProcessMsg
    \/ \E id \in Ids :
        StackAnswers(id) \/ StackCompletes(id) \/ StackInputStarted(id) \/ StackServerLost(id) \/ Media(id)

\* The task and the stack go on; the server completes what it has started.
UmcFairness ==
    /\ WF_umcVars(UmcOnStartComplete) /\ WF_umcVars(UmcOnTerminateComplete) /\ WF_umcVars(UmcProcessMsg)
    /\ \A id \in Ids : WF_umcVars(StackAnswers(id)) /\ WF_umcVars(StackCompletes(id))

-----------------------------------------------------------------------------
UmcTypeOK ==
    /\ console \in {"off", "up", "exiting", "down"} /\ task \in {"none", "starting", "running", "over"}
    /\ table \subseteq 1 .. created
    /\ \A id \in Ids : sessions[id].message <= Len(sessions[id].handle.sent)

\* While the stack works on a session or has a message for it on the way, the
\* session object is there, and while its termination is in the media context the
\* channel object is (OnSessionTerminate deletes them); the exit of a session is
\* the last message about it.
UmcObjectsAlive ==
    \A id \in Ids :
        /\ sessions[id].handle.media /\ task = "running" => sessions[id].chan.exists
        /\ \A i \in DOMAIN queue :
            queue[i].id = id /\ queue[i].type \in {"CLIENT", "EXIT"} =>
                /\ id \in table
                /\ queue[i].type = "CLIENT" => sessions[id].handle.valid
                /\ \A j \in i + 1 .. Len(queue) :
                    queue[i].type = "EXIT" /\ queue[j].id = id => queue[j].type \notin {"CLIENT", "EXIT"}

\* A session sends its requests in the order the protocol wants: a RECOGNIZE that
\* names a grammar of the session comes after its DEFINE-GRAMMAR, VERIFY and
\* END-SESSION after START-SESSION, a GET-PARAMS asks for what was set before, and
\* a STOP names a request that was in progress, and none that another STOP named
\* (Stop, OnMessageReceive).
UmcRequestsInOrder ==
    \A id \in Ids : LET sent == sessions[id].handle.sent IN
        \A i \in DOMAIN sent :
            /\ sent[i].body = "session" => \E j \in 1 .. i - 1 : sent[j].method = "DEFINE-GRAMMAR"
            /\ sent[i].method \in {"VERIFY", "END-SESSION"} =>
                    \E j \in 1 .. i - 1 : sent[j].method = "START-SESSION"
            /\ sent[i].method = "GET-PARAMS" =>
                    sent[i - 1].method = "SET-PARAMS" /\ sent[i - 1].fields \subseteq sent[i].fields
            /\ sent[i].active # 0 =>
                    /\ sent[sent[i].active].method \in InProgressMethods
                    /\ \A j \in 1 .. i - 1 : sent[j].active # sent[i].active

\* m_pMrcpMessage is the STOP: the end of the stopped request does not match it, nor
\* does anything else that may come, and the session waits until it is killed.
Stopped(s) == s.running /\ s.message # 0 /\ s.handle.sent[s.message].method = "STOP"

\* Every session ends and is deleted, whatever the stack answers and also when it
\* is killed or loses its server at any moment (Terminate, OnSessionTerminate,
\* ProcessSessionExit); unless umc exits, which leaves sessions that live, or the
\* session was sent a STOP and is not killed.
UmcSessionsEnd ==
    \A id \in Ids : []<>(id \notin table \/ task = "over" \/ Stopped(sessions[id]))

=============================================================================
