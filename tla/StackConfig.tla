----------------------------- MODULE StackConfig -----------------------------
(***************************************************************************)
(* Client and server reading their documents element by element, then     *)
(* taking sessions.  The documents are the ones the distribution ships,    *)
(* with the elements an administrator may have removed, moved to the end   *)
(* (or into the subfolder of the client), written twice or left without    *)
(* text.                                                                   *)
(***************************************************************************)
EXTENDS Naturals, Sequences, FiniteSets, SequencesExt

(***************************************************************************)
(* What the configuration documents of client and server are read into:    *)
(* the stack under construction with its tables of named objects and the   *)
(* child tasks of its task, and the factories that hand out agents and     *)
(* engines in turn.                                                        *)
(*                                                                         *)
(* Objects live in a heap, tables hold their places; an object that is     *)
(* replaced in its table stays in the heap and remains a child task.       *)
(***************************************************************************)

NULL == 0

Tables == {"media_engine", "rtp_factory", "rtp_settings", "sig_agent", "sig_settings", "cnt_agent",
           "profile", "engine"}

MRCP_RESOURCES == {"speechsynth", "speechrecog", "recorder", "speakverify"}

NoAddress == "none"
DEFAULT_IP_ADDRESS == "loopback"

\* An object with the parts the properties tell apart.
Object == [ip |-> NoAddress, ext_ip |-> NoAddress, codec_manager |-> FALSE, resource_factory |-> NULL,
           resources |-> {}, engines |-> <<>>, agents |-> <<>>, connections |-> <<>>, version |-> 0,
           rtp_factory |-> NULL, rtp_settings |-> NULL, sig_settings |-> NULL, tag |-> "",
           engine_table |-> [r \in MRCP_RESOURCES |-> NULL], index |-> <<1, 1, 1>>]

\* mrcp_client_create, mrcp_server_create, with the loader of the document.
Stack(ip) == [ip |-> ip, ext_ip |-> NoAddress, server_ip |-> NoAddress, auto_ip |-> NoAddress,
              codec_manager |-> FALSE, resource_factory |-> NULL, heap |-> <<>>, tasks |-> {},
              table |-> [t \in Tables |-> [n \in {} |-> NULL]]]

Get(st, t, name) == IF name \in DOMAIN st.table[t] THEN st.table[t][name] ELSE NULL

\* The objects of a list of names; names that are unknown are skipped.
GetAll(st, t, names) == SelectSeq([i \in DOMAIN names |-> Get(st, t, names[i])], LAMBDA o : o # NULL)

\* apr_hash_set of a new object
Set(st, t, name, o) ==
    [st EXCEPT !.heap = Append(@, o),
               !.table[t] = [n \in DOMAIN @ \cup {name} |-> IF n = name THEN Len(st.heap) + 1 ELSE @[n]]]

\* An object with a task of its own: apt_task_add
SetTask(st, t, name, o) == [Set(st, t, name, o) EXCEPT !.tasks = @ \cup {Len(st.heap) + 1}]

\* mrcp_*_media_engine_register
media_engine_register(st, name) ==
    SetTask(st, "media_engine", name, [Object EXCEPT !.codec_manager = st.codec_manager])

\* mrcp_*_signaling_agent_register: the agent knows the factory of this moment
signaling_agent_register(st, name, o) ==
    SetTask(st, "sig_agent", name, [o EXCEPT !.resource_factory = st.resource_factory])

\* mrcp_*_connection_agent_register
connection_agent_register(st, name, o) ==
    SetTask(st, "cnt_agent", name, [o EXCEPT !.resource_factory = st.resource_factory])

\* mrcp_*_rtp_factory_register, mrcp_*_rtp_settings_register
rtp_factory_register(st, name, o) == Set(st, "rtp_factory", name, o)
rtp_settings_register(st, name, o) == Set(st, "rtp_settings", name, o)

\* mrcp_*_resource_factory_register
resource_factory_register(st, resources) ==
    [st EXCEPT !.heap = Append(@, [Object EXCEPT !.resources = resources]), !.resource_factory = Len(st.heap) + 1]

\* mpf_termination_factory_engine_assign: ports for the engine, once (RtpStream)
mpf_termination_factory_engine_assign(heap, factory, engine) ==
    IF factory = NULL \/ engine = NULL \/ engine \in ToSet(heap[factory].engines) THEN heap
    ELSE [heap EXCEPT ![factory].engines = Append(@, engine)]

\* Every engine of a media engine factory
mpf_engine_factory_rtp_factory_assign(heap, factory, engines) ==
    FoldLeft(LAMBDA h, e : mpf_termination_factory_engine_assign(h, factory, e), heap, engines)

-----------------------------------------------------------------------------
(* Elements of a document.                                                 *)

header_attribs_get(e) == e.id # ""
is_attr_enabled(e) == e.enable # "false"

\* unimrcp_*_ip_address_get; an element without text has the address known so far,
\* which on the client may be none yet.
ip_address_get(st, form) ==
    CASE form = "auto"  -> IF st.auto_ip # NoAddress THEN st.auto_ip ELSE "detected"
      [] form = "iface" -> "interface"
      [] form = "text"  -> "given"
      [] form = "empty" -> st.ip

\* The address of a child element, and what stands in for it
AddressOr(st, form, default) ==
    IF form = "absent" \/ ip_address_get(st, form) = NoAddress THEN default ELSE ip_address_get(st, form)

\* The address is detected at most once.
Detected(st, e) == IF "auto" \in {e.ip, e.ext_ip, e.server_ip} THEN [st EXCEPT !.auto_ip = "detected"] ELSE st

\* The object of an element with a local address and one for the other side of a NAT
Addressed(st, e) ==
    [Object EXCEPT !.ip = AddressOr(st, e.ip, st.ip), !.ext_ip = AddressOr(st, e.ext_ip, st.ext_ip)]

\* mrcp_resource_load: an unknown name is no resource, a known one is registered once.
mrcp_resource_load(loaded, r) == IF r \in MRCP_RESOURCES THEN loaded \cup {r} ELSE loaded

resource_load(loaded, e) ==
    IF header_attribs_get(e) /\ is_attr_enabled(e) THEN mrcp_resource_load(loaded, e.id) ELSE loaded

resource_factory_load(st, e) == resource_factory_register(st, FoldLeft(resource_load, {}, e.resources))

rtp_factory_load(st, e) == rtp_factory_register(Detected(st, e), e.id, Addressed(st, e))

\* The codecs of RTP settings come from the codec manager of the components.
rtp_settings_load(st, e) == rtp_settings_register(st, e.id, [Object EXCEPT !.codec_manager = st.codec_manager])

-----------------------------------------------------------------------------
(* Factories that select in turn: signaling agents, connection agents and  *)
(* media engines.                                                          *)

agent_select(i, agents) == IF i >= Len(agents) THEN 1 ELSE i + 1

-----------------------------------------------------------------------------

(***************************************************************************)
(* The document of the client and what is made of it: loader, registration *)
(* with mrcp_client, and the agents and the engine a session selects.      *)
(***************************************************************************)

\* An ip, ext-ip or server-ip of the properties
Property(st, e, field) ==
    IF e[field] = "absent" THEN st ELSE [st EXCEPT ![field] = ip_address_get(st, e[field])]

WithDefaults(st) ==
    LET ip == IF st.ip = NoAddress THEN DEFAULT_IP_ADDRESS ELSE st.ip IN
    [st EXCEPT !.ip = ip, !.server_ip = IF @ = NoAddress THEN ip ELSE @]

unimrcp_client_properties_load(st, e) ==
    WithDefaults(Property(Property(Property(Detected(st, e), e, "ip"), e, "ext_ip"), e, "server_ip"))

mrcp_client_media_engine_register(st, name) == media_engine_register(st, name)
mrcp_client_signaling_agent_register(st, name, o) == signaling_agent_register(st, name, o)
mrcp_client_connection_agent_register(st, name, o) == connection_agent_register(st, name, o)
mrcp_client_signaling_settings_register(st, name, o) == Set(st, "sig_settings", name, o)

unimrcp_client_sip_uac_load(st, e) == mrcp_client_signaling_agent_register(Detected(st, e), e.id, Addressed(st, e))

\* An RTSP client connects from any address.
unimrcp_client_rtsp_uac_load(st, e) == mrcp_client_signaling_agent_register(st, e.id, [Object EXCEPT !.ip = "any"])

unimrcp_client_mrcpv2_uac_load(st, e) == mrcp_client_connection_agent_register(st, e.id, Object)

unimrcp_client_media_engine_load(st, e) == mrcp_client_media_engine_register(st, e.id)

unimrcp_client_rtp_factory_load(st, e) == rtp_factory_load(st, e)

unimrcp_client_resource_factory_load(st, e) == resource_factory_load(st, e)

unimrcp_client_component_load(st, e) ==
    CASE e.name = "sip-uac"      -> unimrcp_client_sip_uac_load(st, e)
      [] e.name = "rtsp-uac"     -> unimrcp_client_rtsp_uac_load(st, e)
      [] e.name = "mrcpv2-uac"   -> unimrcp_client_mrcpv2_uac_load(st, e)
      [] e.name = "media-engine" -> unimrcp_client_media_engine_load(st, e)
      [] e.name = "rtp-factory"  -> unimrcp_client_rtp_factory_load(st, e)
      [] OTHER -> st

\* A section of components comes with a codec manager.
unimrcp_client_components_load(st0, e) ==
    LET st == [st0 EXCEPT !.codec_manager = TRUE] IN
    CASE e.name = "resource-factory" -> unimrcp_client_resource_factory_load(st, e)
      [] e.name # "resource-factory" /\ header_attribs_get(e) /\ is_attr_enabled(e) -> unimrcp_client_component_load(st, e)
      [] OTHER -> st

\* Settings without an address of their own have that of the properties.
Destination(st, e) == [Object EXCEPT !.ip = AddressOr(st, e.server_ip, st.server_ip)]

unimrcp_client_sip_settings_load(st, e) ==
    mrcp_client_signaling_settings_register(Detected(st, e), e.id, Destination(st, e))

unimrcp_client_rtsp_settings_load(st, e) ==
    mrcp_client_signaling_settings_register(Detected(st, e), e.id, Destination(st, e))

unimrcp_client_rtp_settings_load(st, e) == rtp_settings_load(st, e)

unimrcp_client_settings_load(st, e) ==
    CASE ~header_attribs_get(e) \/ ~is_attr_enabled(e) -> st
      [] e.name = "rtp-settings"  -> unimrcp_client_rtp_settings_load(st, e)
      [] e.name = "sip-settings"  -> unimrcp_client_sip_settings_load(st, e)
      [] e.name = "rtsp-settings" -> unimrcp_client_rtsp_settings_load(st, e)
      [] OTHER -> st

unimrcp_client_sa_factory_create(st, e) == GetAll(st, "sig_agent", e.sig)
unimrcp_client_ca_factory_create(st, e) == GetAll(st, "cnt_agent", e.cnt)
unimrcp_client_mpf_factory_create(st, e) == GetAll(st, "media_engine", e.media)

\* The profile of an element; a factory without members is none.
mrcp_client_profile_create_ex(st, e, version) ==
    [Object EXCEPT !.version = version, !.tag = e.tag,
                   !.resource_factory = st.resource_factory,
                   !.agents = unimrcp_client_sa_factory_create(st, e),
                   !.connections = IF version = 2 THEN unimrcp_client_ca_factory_create(st, e) ELSE <<>>,
                   !.engines = unimrcp_client_mpf_factory_create(st, e),
                   !.rtp_factory = Get(st, "rtp_factory", e.rtp_factory),
                   !.rtp_settings = Get(st, "rtp_settings", e.rtp_settings),
                   !.sig_settings = Get(st, "sig_settings", e.sig_settings)]


\* The checks of the registration
mrcp_client_profile_register(st, name, p) ==
    IF p.agents = <<>> \/ (p.version = 2 /\ p.connections = <<>>) \/ p.sig_settings = NULL THEN st
    ELSE Set(st, "profile", name, p)

\* The engines get ports of the factory, whether or not the profile is accepted.
ClientProfile(st, e, p) ==
    mrcp_client_profile_register(
        [st EXCEPT !.heap = mpf_engine_factory_rtp_factory_assign(@, p.rtp_factory, p.engines)], e.id, p)

unimrcp_client_mrcpv2_profile_load(st, e) == ClientProfile(st, e, mrcp_client_profile_create_ex(st, e, 2))
unimrcp_client_mrcpv1_profile_load(st, e) == ClientProfile(st, e, mrcp_client_profile_create_ex(st, e, 1))

unimrcp_client_profiles_load(st, e) ==
    CASE ~header_attribs_get(e) \/ ~is_attr_enabled(e) -> st
      [] e.name = "mrcpv2-profile" -> unimrcp_client_mrcpv2_profile_load(st, e)
      [] e.name = "mrcpv1-profile" -> unimrcp_client_mrcpv1_profile_load(st, e)
      [] OTHER -> st

unimrcp_client_doc_process(st, e) ==
    CASE e.section = "properties" -> unimrcp_client_properties_load(st, e)
      [] e.section = "components" -> unimrcp_client_components_load(st, e)
      [] e.section = "settings"   -> unimrcp_client_settings_load(st, e)
      [] e.section = "profiles"   -> unimrcp_client_profiles_load(st, e)

-----------------------------------------------------------------------------
(* Sessions.                                                               *)

\* mrcp_client_profiles_get: the profiles with the tag, at most count of them
mrcp_client_profiles_get(st, tag, count) ==
    LET found == {n \in DOMAIN st.table["profile"] : tag = "" \/ st.heap[st.table["profile"][n]].tag = tag} IN
    {s \in SUBSET found : Cardinality(s) = (IF Cardinality(found) < count THEN Cardinality(found) ELSE count)}

At(list, i) == IF list = <<>> THEN NULL ELSE list[i]

\* The first message of a session selects its agents and its engine.
mrcp_client_session_select(p) ==
    [agent |-> At(p.agents, p.index[1]), connection |-> At(p.connections, p.index[2]),
     engine |-> At(p.engines, p.index[3]), rtp_factory |-> p.rtp_factory]

Selected(p) ==
    [p EXCEPT !.index = <<agent_select(@[1], p.agents), agent_select(@[2], p.connections),
                          agent_select(@[3], p.engines)>>]

-----------------------------------------------------------------------------

(***************************************************************************)
(* The document of the server and what is made of it: loader, plugins and  *)
(* their engines, registration with mrcp_server, and the profile a session *)
(* gets.  What the order of a hash table decides is a choice here, so an   *)
(* operator returns the set of the stacks it may lead to.                  *)
(***************************************************************************)

unimrcp_server_properties_load(st, e) ==
    LET own == IF e.ip = "absent" THEN Detected(st, e)
               ELSE [Detected(st, e) EXCEPT !.ip = ip_address_get(st, e.ip)] IN
    IF e.ext_ip = "absent" THEN own ELSE [own EXCEPT !.ext_ip = ip_address_get(own, e.ext_ip)]

unimrcp_server_sip_uas_load(st, e) == signaling_agent_register(Detected(st, e), e.id, Addressed(st, e))

\* An RTSP server and an MRCPv2 server have no address for the other side of a NAT.
unimrcp_server_rtsp_uas_load(st, e) ==
    signaling_agent_register(Detected(st, e), e.id, [Object EXCEPT !.ip = AddressOr(st, e.ip, st.ip)])

unimrcp_server_mrcpv2_uas_load(st, e) ==
    connection_agent_register(Detected(st, e), e.id, [Object EXCEPT !.ip = AddressOr(st, e.ip, st.ip)])

\* A library is missing, of another version, without an entry point, creates no
\* engine, or is fine.
plugin_version_load(e) == e.plugin # "old"
plugin_creator_load(e) == e.plugin # "no_entry"

mrcp_engine_loader_plugin_load(e) ==
    e.plugin # "missing" /\ plugin_version_load(e) /\ plugin_creator_load(e) /\ e.plugin # "no_engine"

\* mrcp_engine_factory_engine_register: by the resource the engine is for
mrcp_engine_factory_engine_register(st, name, o) == IF o.resources = {} THEN st ELSE Set(st, "engine", name, o)

\* unimrcp_server_plugin_load
unimrcp_server_plugin_load(st, e) ==
    IF header_attribs_get(e) /\ is_attr_enabled(e) /\ mrcp_engine_loader_plugin_load(e)
    THEN mrcp_engine_factory_engine_register(
             st, e.id, [Object EXCEPT !.resources = e.serves \cap MRCP_RESOURCES, !.codec_manager = st.codec_manager])
    ELSE st

unimrcp_server_media_engine_load(st, e) == media_engine_register(st, e.id)

unimrcp_server_rtp_factory_load(st, e) == rtp_factory_load(st, e)

unimrcp_server_rtp_settings_load(st, e) == rtp_settings_load(st, e)

unimrcp_server_resource_factory_load(st, e) == resource_factory_load(st, e)

unimrcp_server_component_load(st, e) ==
    CASE e.name = "sip-uas"      -> unimrcp_server_sip_uas_load(st, e)
      [] e.name = "rtsp-uas"     -> unimrcp_server_rtsp_uas_load(st, e)
      [] e.name = "mrcpv2-uas"   -> unimrcp_server_mrcpv2_uas_load(st, e)
      [] e.name = "media-engine" -> unimrcp_server_media_engine_load(st, e)
      [] e.name = "rtp-factory"  -> unimrcp_server_rtp_factory_load(st, e)
      [] OTHER -> st

\* A plugin-factory is the list of its plugins.
unimrcp_server_components_load(st0, e) ==
    LET st == [st0 EXCEPT !.codec_manager = TRUE] IN
    CASE e.name = "resource-factory" -> unimrcp_server_resource_factory_load(st, e)
      [] e.name = "engine" -> unimrcp_server_plugin_load(st, e)
      [] e.name \notin {"resource-factory", "engine"} /\ header_attribs_get(e) /\ is_attr_enabled(e) ->
            unimrcp_server_component_load(st, e)
      [] OTHER -> st

unimrcp_server_settings_load(st, e) ==
    IF header_attribs_get(e) /\ is_attr_enabled(e) /\ e.name = "rtp-settings" 
    THEN unimrcp_server_rtp_settings_load(st, e) ELSE st

\* The engines of a resource: apr_hash_first finds any of them.
mrcp_engine_factory_engine_find(st, r) ==
    {x \in {st.table["engine"][n] : n \in DOMAIN st.table["engine"]} : r \in st.heap[x].resources}

\* The engine the map of the profile names, else one that is for the resource
EnginesFor(st, map, r) ==
    LET named == IF r \in DOMAIN map THEN Get(st, "engine", map[r]) ELSE NULL
        found == mrcp_engine_factory_engine_find(st, r) IN
    CASE r \notin st.heap[st.resource_factory].resources -> {NULL}
      [] r \in st.heap[st.resource_factory].resources /\ named # NULL -> {named}
      [] OTHER -> IF found = {} THEN {NULL} ELSE found

\* The tables a profile may get
mrcp_server_engine_table_make(st, map) ==
    {t \in [MRCP_RESOURCES -> {NULL} \cup {st.table["engine"][n] : n \in DOMAIN st.table["engine"]}] :
        \A r \in MRCP_RESOURCES : t[r] \in EnginesFor(st, map, r)}

mrcp_server_profile_create(st, e, version) ==
    [Object EXCEPT !.version = version,
                   !.agents = GetAll(st, "sig_agent", e.sig),
                   !.connections = IF version = 2 THEN GetAll(st, "cnt_agent", e.cnt) ELSE <<>>,
                   !.engines = GetAll(st, "media_engine", e.media),
                   !.rtp_factory = Get(st, "rtp_factory", e.rtp_factory),
                   !.rtp_settings = Get(st, "rtp_settings", e.rtp_settings)]

\* The checks of the registration
Acceptable(p) ==
    /\ p.agents # <<>>
    /\ p.version = 2 => p.connections # <<>>
    /\ p.engines # <<>>
    /\ p.rtp_factory # NULL

mrcp_server_profile_register(st, name, p, map) ==
    IF st.resource_factory = NULL \/ ~Acceptable(p) THEN {st}
    ELSE {Set(st, "profile", name, [p EXCEPT !.resource_factory = st.resource_factory, !.engine_table = t]) :
            t \in mrcp_server_engine_table_make(st, map)}

\* The engine gets ports of the factory, whether or not the profile is accepted.
ServerProfile(st, e, p) ==
    mrcp_server_profile_register(
        [st EXCEPT !.heap = mpf_engine_factory_rtp_factory_assign(@, p.rtp_factory, p.engines)], e.id, p, e.map)

unimrcp_server_mrcpv2_profile_load(st, e) == ServerProfile(st, e, mrcp_server_profile_create(st, e, 2))
unimrcp_server_mrcpv1_profile_load(st, e) == ServerProfile(st, e, mrcp_server_profile_create(st, e, 1))

unimrcp_server_profiles_load(st, e) ==
    CASE ~header_attribs_get(e) \/ ~is_attr_enabled(e) -> {st}
      [] e.name = "mrcpv2-profile" -> unimrcp_server_mrcpv2_profile_load(st, e)
      [] e.name = "mrcpv1-profile" -> unimrcp_server_mrcpv1_profile_load(st, e)
      [] OTHER -> {st}

unimrcp_server_load(st, e) ==
    CASE e.section = "properties" -> {unimrcp_server_properties_load(st, e)}
      [] e.section = "components" -> {unimrcp_server_components_load(st, e)}
      [] e.section = "settings"   -> {unimrcp_server_settings_load(st, e)}
      [] e.section = "profiles"   -> unimrcp_server_profiles_load(st, e)

-----------------------------------------------------------------------------
(* Sessions.                                                               *)

\* The profiles of a signaling agent: the hash finds any of them.
mrcp_server_profile_get_by_agent(st, agent) ==
    {x \in {st.table["profile"][n] : n \in DOMAIN st.table["profile"]} : st.heap[x].agents = <<agent>>}

-----------------------------------------------------------------------------

CONSTANTS
    Documents,      \* side -> sequence of elements
    MaxEdits,       \* edits of the document
    MaxSessions

VARIABLES
    side,           \* "client" or "server"
    rest,           \* what is left of the document: places of elements, and whether they are left empty
    stack,          \* mrcp_client_t or mrcp_server_t
    edits,          \* edits left
    ordered,        \* the properties have been read, and before anything else
    sessions        \* the selections of the sessions

configVars == <<side, rest, stack, edits, ordered, sessions>>


\* The client has no address before its properties, the server the default one.
ConfigInit ==
    /\ side \in DOMAIN Documents
    /\ rest = [i \in DOMAIN Documents[side] |-> <<i, FALSE>>]
    /\ stack = Stack(IF side = "server" THEN DEFAULT_IP_ADDRESS ELSE NoAddress)
    /\ edits = MaxEdits
    /\ ordered = FALSE
    /\ sessions = <<>>

Blank(form) == IF form = "absent" THEN form ELSE "empty"

Emptied(e) == [e EXCEPT !.ip = Blank(@), !.ext_ip = Blank(@), !.server_ip = Blank(@)]

Element(place) == IF place[2] THEN Emptied(Documents[side][place[1]]) ELSE Documents[side][place[1]]

Process(e) ==
    /\ \E st \in IF side = "client" THEN {unimrcp_client_doc_process(stack, e)} ELSE unimrcp_server_load(stack, e) :
            stack' = st
    /\ ordered' = (ordered \/ (e.section = "properties" /\ stack.heap = <<>>))

Load ==
    /\ rest # <<>>
    /\ Process(Element(Head(rest)))
    /\ rest' = Tail(rest)
    /\ UNCHANGED <<side, edits, sessions>>

Edit == rest # <<>> /\ edits > 0 /\ edits' = edits - 1 /\ UNCHANGED <<side, sessions>>

RemoveElement == Edit /\ rest' = Tail(rest) /\ UNCHANGED <<stack, ordered>>

Postpone == Edit /\ Len(rest) > 1 /\ rest' = Append(Tail(rest), Head(rest)) /\ UNCHANGED <<stack, ordered>>

Repeat == Edit /\ Process(Element(Head(rest))) /\ rest' = Append(Tail(rest), Head(rest))

LeaveEmpty ==
    /\ Edit
    /\ ~Head(rest)[2] /\ Emptied(Element(Head(rest))) # Element(Head(rest))
    /\ rest' = <<<<Head(rest)[1], TRUE>>>> \o Tail(rest)
    /\ UNCHANGED <<stack, ordered>>

Ready == rest = <<>> /\ Len(sessions) < MaxSessions

\* The application uses a profile it got from mrcp_client_profiles_get.
SelectForSession ==
    /\ Ready /\ side = "client"
    /\ \E names \in mrcp_client_profiles_get(stack, "", 1) : \E n \in names :
        LET x == stack.table["profile"][n]
            p == stack.heap[x] IN
        /\ sessions' = Append(sessions, [profile |-> x, selected |-> mrcp_client_session_select(p)])
        /\ stack' = [stack EXCEPT !.heap[x] = Selected(p)]
    /\ UNCHANGED <<side, rest, edits, ordered>>

\* A call arrives at an agent, one that was replaced in the table too.
AcceptCall ==
    /\ Ready /\ side = "server"
    /\ \E agent \in stack.tasks : \E x \in mrcp_server_profile_get_by_agent(stack, agent) :
        LET p == stack.heap[x] IN
        sessions' = Append(sessions, [profile |-> x, selected |->
                        [agent |-> agent, connection |-> At(p.connections, 1), engine |-> At(p.engines, 1),
                         rtp_factory |-> p.rtp_factory]])
    /\ UNCHANGED <<side, rest, stack, edits, ordered>>

ConfigNext == Load \/ RemoveElement \/ Postpone \/ Repeat \/ LeaveEmpty \/ SelectForSession \/ AcceptCall

-----------------------------------------------------------------------------

ConfigTypeOK ==
    /\ stack.tasks \subseteq DOMAIN stack.heap
    /\ \A t \in DOMAIN stack.table : \A n \in DOMAIN stack.table[t] : stack.table[t][n] \in DOMAIN stack.heap

Profiles == {stack.heap[stack.table["profile"][n]] : n \in DOMAIN stack.table["profile"]}

\* What the document has and a profile found too late: of a table, nothing that came
\* before the profile. Places in the heap are in the order of the document.
NothingBefore(objects, place) == \A x \in objects : x > place

Registered(t) == {stack.table[t][n] : n \in DOMAIN stack.table[t]}

\* The agent that parses the messages of a session
Parsing(p, s) == IF p.version = 2 THEN s.connection ELSE s.agent

\* A session has what its profile needs: a signaling agent and, for MRCPv2, a
\* connection agent that run as child tasks, a media engine that has ports of the
\* profile's RTP factory, and an agent that knows the resources of the messages it
\* parses; on the server also RTP settings and an engine for every resource
\* (mrcp_client_profile_register, mrcp_server_profile_register,
\* mrcp_server_engine_table_make). Three things are found only if they come early
\* enough, and are not checked by the registration: an agent read before the resource
\* factory has none, and its first message is parsed with NULL (mrcp_server.c:453,
\* 482, mrcp_stream.c:74, 140); a profile read before the RTP settings has none,
\* which mrcp_server_session.c:841 reads; and a profile read before the engines of
\* a resource has none for it.
SessionEquipped ==
    \A i \in DOMAIN sessions :
        LET s == sessions[i].selected
            p == stack.heap[sessions[i].profile] IN
        /\ s.agent \in stack.tasks
        /\ IF p.version = 2 THEN s.connection \in stack.tasks ELSE s.connection = NULL
        /\ s.engine \in stack.tasks \/ (side = "client" /\ p.engines = <<>>)
        /\ s.engine # NULL /\ s.rtp_factory # NULL => \E k \in DOMAIN stack.heap[s.rtp_factory].engines :
                                                            stack.heap[s.rtp_factory].engines[k] = s.engine
        /\ p.resource_factory # NULL =>
               \/ stack.heap[Parsing(p, s)].resource_factory # NULL
               \/ NothingBefore({p.resource_factory}, Parsing(p, s))
        /\ side = "server" =>
               /\ s.rtp_factory # NULL /\ p.resource_factory # NULL
               /\ p.rtp_settings # NULL \/ NothingBefore(Registered("rtp_settings"), sessions[i].profile)
               /\ \A r \in stack.heap[p.resource_factory].resources :
                      \/ p.engine_table[r] # NULL
                      \/ NothingBefore({x \in Registered("engine") : r \in stack.heap[x].resources},
                                       sessions[i].profile)

\* A profile of the server hands a resource to an engine of that resource, if the
\* engines its map names are, and only if the resource is loaded
\* (mrcp_server_engine_table_make, mrcp_engine_factory_engine_find).
EnginesFit ==
    \A p \in Profiles : \A r \in MRCP_RESOURCES :
        p.engine_table[r] # NULL =>
            /\ r \in stack.heap[p.resource_factory].resources
            /\ r \in stack.heap[p.engine_table[r]].resources

\* Agents, RTP factories and settings have an address, with or without text in any of
\* them; on the client, which has no default before, if the properties come first
\* (unimrcp_client_properties_load).
AddressesKnown ==
    side = "server" \/ ordered => \A t \in {"sig_agent", "rtp_factory", "sig_settings"} : \A n \in DOMAIN stack.table[t] :
        LET o == stack.heap[stack.table[t][n]] IN o.ip # NoAddress

\* The sessions of a client's profile are spread evenly over its media engines
\* (mpf_engine_factory_engine_select); a server's profile has one.
EnginesShared ==
    \A p \in {sessions[i].profile : i \in DOMAIN sessions} :
        LET uses(x) == Cardinality({i \in DOMAIN sessions :
                                        sessions[i].profile = p /\ sessions[i].selected.engine = x})
            list == stack.heap[p].engines IN
        side = "client" => \A j, k \in DOMAIN list : uses(list[j]) <= uses(list[k]) + 1

=============================================================================
