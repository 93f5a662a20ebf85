------------------------------ MODULE MCToolkit ------------------------------
(***************************************************************************)
(* One instance of each part of the toolkit and of the message library;    *)
(* a behaviour is one of the part that component names, the others stay in *)
(* their initial states.                                                   *)
(***************************************************************************)
EXTENDS Integers, Sequences

VARIABLES component,
    state, running, pending, msg_queue, thread, call, control, destroyed, calls, events, late,
    ring, scheduled_time, elapsed_time, reset, phase, timed, since, left, overrun,
    poller_queue, pipe, waking, pollset, readable, alive, pc, desc_arr, desc_index, signalled,
    processed, stale,
    sent, wire, rx_stream, parser, received, sock,
    resource, version, names, properties, exchanged, wanted, count

taskVars == <<state, running, pending, msg_queue, thread, call, control, destroyed, calls, events, late>>
timerVars == <<ring, scheduled_time, elapsed_time, reset, phase, timed, since, left, overrun>>
pollerVars == <<poller_queue, pipe, waking, pollset, readable, alive, pc, desc_arr, desc_index,
                signalled, processed, stale>>
streamVars == <<sent, wire, rx_stream, parser, received, sock>>
exchangeVars == <<resource, version, names, properties, exchanged, wanted, count>>

-----------------------------------------------------------------------------
(* Text messages: what the generator sends and what other peers send.      *)
Msg(protocol, header, body) ==
    [protocol |-> protocol, start |-> <<"SPEAK">>,
     channel |-> IF protocol = "mrcp" THEN <<"synth">> ELSE <<>>, header |-> header, body |-> body]
F(name, value) == [name |-> <<name>>, value |-> value]
Peer(protocol, text, message) ==
    [protocol |-> protocol, text |-> text, message |-> message, cut |-> FALSE]
LongValue == [i \in 1..18 |-> "v"]

MCMessages == {
    Msg("rtsp", <<F("Long", LongValue), F("Other", <<"v">>)>>, <<>>),
    Msg("mrcp", <<F("Other", <<"v">>)>>, <<>>),
    Msg("mrcp", <<>>, <<"b", "LF">>),
    Msg("rtsp", <<F("Length", <<"len3">>)>>, <<"CR", "LF", "b">>),
    Msg("rtsp", <<F("Empty", <<>>)>>, <<>>)}

MCTexts == {
    Peer("mrcp", <<"SPEAK", "LF", "bad", "LF", "Channel", ":", "synth", "LF", "LF">>, Msg("mrcp", <<>>, <<>>)),
    Peer("mrcp", <<"SPEAK", "CR", "LF", "Channel", ":", "nores", "CR", "LF", "CR", "LF">>, <<>>),
    Peer("mrcp", <<"SPEAK", "CR", "LF", "CR", "LF">>, <<>>),
    Peer("rtsp", <<"garbage", "CR", "LF">>, <<>>),
    Peer("rtsp", <<"SPEAK", "LF", "Other", ":">> \o [i \in 1..9 |-> "v"] \o <<"LF", "LF">>, <<>>),
    Peer("rtsp", <<"SPEAK", "CR", "LF", "Other", ":", "v", "CR", "LF", "SP", "w", "CR", "LF", "CR", "LF">>,
         Msg("rtsp", <<F("Other", <<"v", "w">>)>>, <<>>))}

-----------------------------------------------------------------------------
(* Header fields: every field of every table, with values of its kind:     *)
(* both signs where the typed value has one, and zero.                     *)
Typed(type, num, word) == [type |-> type, num |-> num, word |-> word]
Word(w) == Typed("text", -1, w)

MCValues == [k \in {"string", "char", "pairs", "bool", "size", "cause", "ids", "float", "percent",
                    "gender", "volume", "rate", "length", "unknown"} |->
    CASE k \in {"string", "char", "pairs"} -> {Word("a"), Word("b")}
      [] k = "bool" -> {Typed("bool", 1, ""), Typed("bool", 0, "")}
      [] k = "size" -> {Typed("size", 0, ""), Typed("size", 7, "")}
      [] k = "cause" -> {Typed("size", 3, "")}
      [] k = "ids" -> {Typed("size", 2, "")}
      [] k = "unknown" -> {}
      [] k \in {"float", "percent"} -> {Typed("float", 50, ""), Typed("float", 100, "")}
      [] k = "gender" -> {Typed("label", -1, "male")}
      [] k = "volume" -> {Typed("label", -1, "loud"), Typed("numeric", 5000, ""), Typed("relative", -1000, ""),
                          Typed("relative", 1000, ""), Typed("relative", 0, "")}
      [] k = "rate" -> {Typed("label", -1, "fast"), Typed("relative", 50, ""), Typed("relative", -50, "")}
      [] k = "length" -> {Typed("+", 2, "Second"), Typed("-", 1, "Word"), Typed("tag", -1, "mark")}]

H == INSTANCE HeaderFields

Subject(r, v, ns) == {[resource |-> r, version |-> v, name |-> n] : n \in ns}

MCSubjects ==
    Subject("synth", 1, DOMAIN H!SynthFields) \cup Subject("recog", 1, DOMAIN H!RecogFields(1))
    \cup Subject("recog", 2, DOMAIN H!RecogFields(2)) \cup Subject("verifier", 2, DOMAIN H!VerifierFields)
    \cup Subject("recorder", 2, DOMAIN H!RecorderFields)
    \cup Subject("recorder", 1, DOMAIN H!GenericFields \cup {"X-Unknown"})

-----------------------------------------------------------------------------
T == INSTANCE Task WITH Root <- "root", Children <- <<"a", "b">>, QueueSize <- 3, MaxCalls <- 1,
                        MaxEvents <- 1
Q == INSTANCE TimerQueue WITH Timers <- {"s", "t"}, Timeouts <- {2, 5}, Modulus <- 64, Limit <- 8,
                              Jitter <- 1
P == INSTANCE Poller WITH msg_queue <- poller_queue, Connections <- {"c", "d"}, QueueStart <- 2,
                          ReadSize <- 3, MaxSignals <- 4
S == INSTANCE MessageStream WITH StartLines <- {"SPEAK"}, Methods <- {"SPEAK"}, Resources <- {"synth"},
                                 Messages <- MCMessages, Texts <- MCTexts, TxSize <- 24, RxSize <- 9,
                                 MaxMessages <- 2
X == INSTANCE MessageExchange WITH Subjects <- MCSubjects, Companion <- "Content-Id",
         CompanionValue <- Word("c"), Values <- MCValues, MaxExchanges <- 3,
         Sizes <- {1, 8, 9, 10, 97, 98, 996, 997, 9995, 9996, 99994, 99995, 999993, 999994}

vars == <<component, taskVars, timerVars, pollerVars, streamVars, exchangeVars>>

Init ==
    /\ component \in {"task", "timer", "poller", "stream", "exchange"}
    /\ T!apt_task_create /\ Q!apt_timer_queue_create /\ P!apt_poller_task_create /\ S!StreamInit
    /\ X!ExchangeInit
    /\ component # "exchange" => resource = "synth" /\ names = {"Voice-Age", "Content-Id"}

Task == component = "task" /\ T!TaskNext
        /\ UNCHANGED <<component, timerVars, pollerVars, streamVars, exchangeVars>>
Timer == component = "timer" /\ Q!TimerNext
         /\ UNCHANGED <<component, taskVars, pollerVars, streamVars, exchangeVars>>
Poller == component = "poller" /\ P!PollerNext
          /\ UNCHANGED <<component, taskVars, timerVars, streamVars, exchangeVars>>
Stream == component = "stream" /\ S!StreamNext
          /\ UNCHANGED <<component, taskVars, timerVars, pollerVars, exchangeVars>>
Exchange == component = "exchange" /\ X!ExchangeNext
            /\ UNCHANGED <<component, taskVars, timerVars, pollerVars, streamVars>>

Next == Task \/ Timer \/ Poller \/ Stream \/ Exchange

Spec == Init /\ [][Next]_vars /\ T!TaskFairness /\ P!PollerFairness

(* The properties of the parts, stated in their modules.                   *)

(* A task's count of pending offline or online requests is exact, and its  *)
(* lock is destroyed only after its thread (apt_task.c).                   *)
TaskTreeConsistent == T!DestroyedAfterExit /\ T!PendingMatchesQueues

(* A poller task takes its messages in order, handles no event of a        *)
(* descriptor that was removed, and leaves no due timer in its queue       *)
(* (apt_poller_task.c, apt_cyclic_queue.c, apt_timer_queue.c).             *)
PollerReliable == P!MessagesInOrder /\ P!NoStaleDescriptor /\ Q!DueTimersFire

(* A message is parsed as it was sent, however it is cut into segments,    *)
(* and its start line states its length (apt_text_message.c,               *)
(* mrcp_start_line.c).                                                     *)
MessagesExact == S!ParsedAsSent /\ X!StartLineExact

(* GET-PARAMS returns what SET-PARAMS set last, and a request inherits     *)
(* what it does not set itself (mrcp_header_fields_set, _get, _inherit).   *)
(* A positive change of Prosody-Volume comes back as an absolute volume    *)
(* and a negative change of Prosody-Rate as a label; an                    *)
(* Active-Request-Id-List is not inherited as a value.                     *)
ParamsObeyed == X!GetReturnsLastSet /\ X!RequestObeysParams

(* A task tree told to terminate is destroyed, and every message signalled *)
(* to a poller is processed (apt_task_terminate, apt_poller_task_run).     *)
ToolkitProgress == T!TreeTerminates /\ P!MessagesProcessed
=============================================================================
