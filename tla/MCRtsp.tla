------------------------------- MODULE MCRtsp -------------------------------
(***************************************************************************)
(* One MRCPv1 client against a server that may answer, fail, announce or   *)
(* close, and one MRCPv1 server against clients that pipeline; a behaviour *)
(* is one of the side that component names.                                *)
(***************************************************************************)
EXTENDS Naturals, Sequences

VARIABLES component,
    session, connection, tasks, to_server, to_client, peer_closed, asked, answers, disturbed,
    online, conn, timer, sessions, queue, mrcp, objects, requests, client, sent, responses, events

clientVars == <<session, connection, tasks, to_server, to_client, peer_closed, asked, answers, disturbed>>
serverVars == <<online, conn, timer, sessions, queue, mrcp, objects, requests, client, sent, responses, events>>

MCScripts == {
    << <<"SETUP", "a">>, <<"SETUP", "b">>, <<"ANNOUNCE", "a">>, <<"TERMINATE", "a">> >>,
    << <<"SETUP", "a">>, <<"SETUP", "b">>, <<"TERMINATE", "a">> >>,
    << <<"SETUP", "a">>, <<"TERMINATE", "a">> >>,
    << <<"SETUP", "a">>, <<"TEARDOWN", "a">>, <<"SETUP", "b">>, <<"TERMINATE", "a">> >>,
    << <<"SETUP", "a">>, <<"ANNOUNCE", "a">>, <<"ANNOUNCE", "a">>, <<"TERMINATE", "a">> >>,
    << <<"DESCRIBE", "a">>, <<"TERMINATE", "a">> >> }

Ask(method, known, resource, good) == [method |-> method, known |-> known, resource |-> resource, good |-> good]
MCRequests == {
    << Ask("SETUP", FALSE, "a", TRUE), Ask("SETUP", TRUE, "b", TRUE), Ask("ANNOUNCE", TRUE, "a", TRUE),
       Ask("TEARDOWN", TRUE, "a", TRUE), Ask("TEARDOWN", TRUE, "b", TRUE) >>,
    << Ask("SETUP", FALSE, "a", TRUE), Ask("ANNOUNCE", TRUE, "a", FALSE), Ask("ANNOUNCE", TRUE, "a", TRUE) >>,
    << Ask("DESCRIBE", FALSE, "a", TRUE), Ask("SETUP", FALSE, "a", TRUE), Ask("OPTIONS", TRUE, "a", TRUE) >>,
    << Ask("SETUP", FALSE, "a", FALSE), Ask("ANNOUNCE", FALSE, "a", TRUE), Ask("SETUP", FALSE, "a", TRUE),
       Ask("TEARDOWN", TRUE, "a", TRUE), Ask("OPTIONS", FALSE, "a", TRUE) >>,
    << Ask("SETUP", FALSE, "a", TRUE), Ask("TEARDOWN", TRUE, "x", FALSE), Ask("DESCRIBE", TRUE, "a", TRUE),
       Ask("ANNOUNCE", TRUE, "a", TRUE), Ask("INVALID", FALSE, "", FALSE) >> }

C == INSTANCE RtspClient WITH Resources <- {"a", "b"}, Scripts <- MCScripts, Timeout <- TRUE
S == INSTANCE RtspServer WITH SessionIds <- 1..3, Names <- {"a", "b"}, Requests <- MCRequests,
                              MaxPipelined <- 3, MaxEvents <- 1, asked <- sent

vars == <<component, clientVars, serverVars>>

Init ==
    /\ component \in {"client", "server"}
    /\ C!RtspClientInit /\ S!RtspServerInit
    /\ component = "client" => Len(client) = 3 /\ client[1].method = "DESCRIBE"

Client == component = "client" /\ C!RtspClientNext /\ UNCHANGED <<component, serverVars>>
Server == component = "server" /\ S!RtspServerNext /\ UNCHANGED <<component, clientVars>>

Next == Client \/ Server

Spec == Init /\ [][Next]_vars /\ C!RtspClientFairness /\ S!RtspServerFairness

(* The properties of the two sides, stated in their modules.               *)

(* Sessions, requests and connections that were destroyed are not used,    *)
(* and no request is answered twice (rtsp_client.c, rtsp_server.c and the  *)
(* agents above them).  Two cases of the server are excepted, session by   *)
(* session and request by request: a request that waited in a session when *)
(* that was told to terminate is handled after the session's end, and a    *)
(* request the agent refused is answered again by the OK that ends its     *)
(* session.                                                                *)
RtspSafe ==
    /\ C!ClientReleased /\ S!ServerSessionsAlive
    /\ C!ClientAnsweredOnce /\ S!ServerAnsweredOnce

(* Every request is answered and every closed connection is given back     *)
(* (rtsp_client_on_disconnect, rtsp_server_connection_close), except: on   *)
(* the client, a request in progress when the connection is lost, a SETUP  *)
(* whose answer has an SDP that cannot be read, and the termination of a   *)
(* session the server gave no identifier, if the connection is lost; on    *)
(* the server, a message that cannot be parsed, a request that waits       *)
(* behind one the agent refused or in a session that ends, and everything  *)
(* once a late request has made the MRCP server use a session that is      *)
(* gone.                                                                   *)
RtspSettles == C!ClientRequestsAnswered /\ S!ServerSettles
=============================================================================
