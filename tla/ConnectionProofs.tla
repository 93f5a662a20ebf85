--------------------------- MODULE ConnectionProofs ---------------------------
(***************************************************************************)
(* Proofs about ControlConnection: for any number of channels,             *)
(* connections and requests, no agent reaches a connection that has been   *)
(* destroyed, and no connection is leaked.                                 *)
(***************************************************************************)
EXTENDS ControlConnection, TLAPS

(* The part of the type invariant the proofs need.                         *)
Channel == [phase : Phases, connection : Conns \cup {NULL}]
ClientConnection == [state : States, channels : SUBSET Channels]
ServerConnection == [state : States, channels : SUBSET Channels, use_count : Nat]

ConnTypes ==
    /\ cchan \in [Channels -> Channel] /\ schan \in [Channels -> Channel]
    /\ cconn \in [Conns -> ClientConnection] /\ sconn \in [Conns -> ServerConnection]
    /\ clist \subseteq Conns /\ slist \subseteq Conns
    /\ pending \subseteq Channels /\ terminating \subseteq Conns

(* The table of a connection holds the channels that refer to it, except a *)
(* channel that was removed last and has taken the connection over; that   *)
(* channel is the only one left that refers to it.                         *)
Owned(chan, conn) ==
    /\ \A ch \in Channels, c \in Conns :
         ch \in conn[c].channels <=> chan[ch].connection = c /\ chan[ch].phase = "UP"
    /\ \A ch \in Channels :
         chan[ch].connection # NULL => chan[ch].phase \in {"UP", "REMOVED"}
    /\ \A ch \in Channels, c \in Conns :
         chan[ch].phase = "REMOVED" /\ chan[ch].connection = c =>
             /\ conn[c].state = "CLOSED" /\ conn[c].channels = {}
             /\ \A other \in Channels : chan[other].connection = c => other = ch

(* The list of the client agent holds the connections in use.              *)
ClientConn(c) ==
    /\ cconn[c].state # "BACKLOG"
    /\ c \in clist <=> cconn[c].channels # {}
    /\ cconn[c].state \notin {"OPEN", "CLOSED"} => cconn[c].channels = {}
    /\ cconn[c].state \in {"OPEN", "CLOSED"} =>
         \E ch \in Channels : cchan[ch].connection = c
    /\ cconn[c].state = "NONE" => sconn[c].state = "NONE"

ClientConns == \A c \in Conns : ClientConn(c)

(* The list of the server agent holds the connections that are open, and a *)
(* termination timer runs only for a closed one that is in use.            *)
ServerConn(c) ==
    /\ c \in slist <=> sconn[c].state = "OPEN"
    /\ sconn[c].state \notin {"OPEN", "CLOSED"} => sconn[c].channels = {}
    /\ c \in terminating => sconn[c].state = "CLOSED" /\ sconn[c].channels # {}
    /\ sconn[c].state = "CLOSED" => \E ch \in Channels : schan[ch].connection = c

ServerConns == \A c \in Conns : ServerConn(c)

(* A channel is pending until it has a connection.                         *)
Pending == \A ch \in pending : schan[ch].phase = "UP" /\ schan[ch].connection = NULL

IInv ==
    /\ ConnTypes
    /\ Owned(cchan, cconn) /\ ClientConns
    /\ Owned(schan, sconn) /\ ServerConns /\ Pending

-----------------------------------------------------------------------------
(* What happens to the ownership of connections, on either side.           *)

(* The null pointer is not a connection.                                   *)
LEMMA NullNoConnection == NULL \notin Conns
BY DEF NULL, Conns

(* mrcp_connection_channel_add: a channel without a connection gets one.   *)
LEMMA OwnedAttach ==
    ASSUME NEW chan, NEW conn, NEW chan2, NEW conn2, Owned(chan, conn),
           NEW a \in Channels, NEW k \in Conns,
           chan[a].connection = NULL,
           \A x \in Channels : chan[x].phase = "REMOVED" => chan[x].connection # k,
           chan2[a].phase = "UP", chan2[a].connection = k,
           \A x \in Channels : x # a =>
               chan2[x].phase = chan[x].phase /\ chan2[x].connection = chan[x].connection,
           conn2[k].channels = conn[k].channels \cup {a},
           \A d \in Conns : d # k =>
               conn2[d].state = conn[d].state /\ conn2[d].channels = conn[d].channels
    PROVE  Owned(chan2, conn2)
BY SMTT(90), NullNoConnection DEF Owned

(* A channel is removed from a connection that stays.                      *)
LEMMA OwnedDetach ==
    ASSUME NEW chan, NEW conn, NEW chan2, NEW conn2, Owned(chan, conn),
           NEW a \in Channels, NEW k \in Conns,
           chan[a].connection = k, chan[a].phase = "UP",
           chan2[a].phase = "REMOVED", chan2[a].connection = NULL,
           \A x \in Channels : x # a =>
               chan2[x].phase = chan[x].phase /\ chan2[x].connection = chan[x].connection,
           conn2[k].channels = conn[k].channels \ {a},
           \A d \in Conns : d # k =>
               conn2[d].state = conn[d].state /\ conn2[d].channels = conn[d].channels
    PROVE  Owned(chan2, conn2)
BY SMTT(90), NullNoConnection DEF Owned

(* The last channel is removed from a connection and takes it over.        *)
LEMMA OwnedTakeOver ==
    ASSUME NEW chan, NEW conn, NEW chan2, NEW conn2, Owned(chan, conn),
           NEW a \in Channels, NEW k \in Conns,
           chan[a].connection = k, chan[a].phase = "UP", conn[k].channels = {a},
           chan2[a].phase = "REMOVED", chan2[a].connection = k,
           \A x \in Channels : x # a =>
               chan2[x].phase = chan[x].phase /\ chan2[x].connection = chan[x].connection,
           conn2[k].channels = {}, conn2[k].state = "CLOSED",
           \A d \in Conns : d # k =>
               conn2[d].state = conn[d].state /\ conn2[d].channels = conn[d].channels
    PROVE  Owned(chan2, conn2)
BY SMTT(90), NullNoConnection DEF Owned

(* The connection is destroyed with the channel that has taken it over.    *)
LEMMA OwnedDestroy ==
    ASSUME NEW chan, NEW conn, NEW chan2, NEW conn2, Owned(chan, conn),
           NEW a \in Channels,
           chan[a].phase = "REMOVED",
           chan2[a].phase = "DESTROYED", chan2[a].connection = NULL,
           \A x \in Channels : x # a =>
               chan2[x].phase = chan[x].phase /\ chan2[x].connection = chan[x].connection,
           \A d \in Conns : conn2[d].channels = conn[d].channels,
           \A d \in Conns : d # chan[a].connection => conn2[d].state = conn[d].state
    PROVE  Owned(chan2, conn2)
BY NullNoConnection DEF Owned

(* A channel without a connection changes its phase, and connections that  *)
(* are not closed change their state.                                      *)
LEMMA OwnedSame ==
    ASSUME NEW chan, NEW conn, NEW chan2, NEW conn2, Owned(chan, conn),
           \A x \in Channels : chan2[x].connection = chan[x].connection,
           \A x \in Channels : chan[x].connection # NULL => chan2[x].phase = chan[x].phase,
           \A d \in Conns : conn2[d].channels = conn[d].channels,
           \A d \in Conns : conn[d].state = "CLOSED" => conn2[d].state = "CLOSED"
    PROVE  Owned(chan2, conn2)
BY SMTT(90), NullNoConnection DEF Owned

-----------------------------------------------------------------------------
(* What the invariant is about.                                            *)
clientSide == <<cchan, cconn, clist>>
serverSide == <<schan, sconn, slist, pending, terminating>>

(* The invariant holds when both agents start: no channel, no connection.  *)
LEMMA InitEstablishes == Init => IInv
BY NullNoConnection
   DEF Init, IInv, ConnTypes, Channel, ClientConnection, ServerConnection, ClientConns,
       ClientConn, ServerConns, ServerConn, Pending, Owned, Phases, States

(* A step of the client agent that leaves the connections of the server    *)
(* alone needs to keep the invariant of the client only, and conversely.   *)
LEMMA ClientSideKeeps ==
    ASSUME IInv, UNCHANGED serverSide,
           cchan' \in [Channels -> Channel], cconn' \in [Conns -> ClientConnection],
           clist' \subseteq Conns, Owned(cchan', cconn'), ClientConns'
    PROVE  IInv'
<1>1. ConnTypes'
  BY DEF IInv, ConnTypes, serverSide
<1>2. Owned(schan', sconn') /\ Pending'
  BY DEF IInv, Pending, serverSide
<1>3. ServerConns'
  BY DEF IInv, ServerConns, ServerConn, serverSide
<1> QED
  BY <1>1, <1>2, <1>3 DEF IInv

(* A step of the server agent keeps what is said of the client.            *)
LEMMA ServerSideKeeps ==
    ASSUME IInv, UNCHANGED clientSide,
           schan' \in [Channels -> Channel], sconn' \in [Conns -> ServerConnection],
           slist' \subseteq Conns, pending' \subseteq Channels,
           terminating' \subseteq Conns,
           \A c \in Conns : sconn[c].state = "NONE" => sconn'[c].state = "NONE",
           Owned(schan', sconn'), ServerConns', Pending'
    PROVE  IInv'
<1>1. ConnTypes'
  BY DEF IInv, ConnTypes, clientSide
<1>2. Owned(cchan', cconn')
  BY DEF IInv, clientSide
<1>3. ClientConns'
  BY DEF IInv, ClientConns, ClientConn, clientSide
<1> QED
  BY <1>1, <1>2, <1>3 DEF IInv

(* A step that touches no channel, connection, list or timer.              *)
LEMMA StutterKeeps ==
    ASSUME IInv, UNCHANGED <<clientSide, serverSide>>
    PROVE  IInv'
<1>1. ConnTypes' /\ Owned(cchan', cconn')
  BY DEF IInv, ConnTypes, clientSide, serverSide
<1>2. ClientConns'
  BY DEF IInv, ClientConns, ClientConn, clientSide, serverSide
<1> QED
  BY <1>1, <1>2, ClientSideKeeps DEF ConnTypes

-----------------------------------------------------------------------------
(* The steps of the client agent.                                          *)

(* mrcp_client_agent_channel_add only makes the channel known.             *)
LEMMA ClientAddKeeps ==
    ASSUME IInv, NEW a \in Channels, mrcp_client_agent_channel_add(a)
    PROVE  IInv'
<1>1. /\ cchan[a].phase = "NONE" /\ cchan' = [cchan EXCEPT ![a].phase = "OFFERED"]
      /\ UNCHANGED <<cconn, clist>> /\ UNCHANGED serverSide
      /\ sconn' = sconn
  BY DEF mrcp_client_agent_channel_add, serverVars, serverSide
<1>2. ConnTypes /\ Owned(cchan, cconn) /\ ClientConns
  BY DEF IInv
<1>3. cchan' \in [Channels -> Channel]
  BY <1>1, <1>2 DEF ConnTypes, Channel, Phases
<1>4. cchan[a].connection = NULL
  BY <1>1, <1>2 DEF Owned
<1>5. \A x \in Channels :
          /\ cchan'[x].connection = cchan[x].connection
          /\ x # a => cchan'[x].phase = cchan[x].phase
  BY <1>1, <1>2 DEF ConnTypes, Channel
<1>6. Owned(cchan', cconn')
  <2>1. /\ \A d \in Conns : cconn'[d].channels = cconn[d].channels
        /\ \A d \in Conns : cconn[d].state = "CLOSED" => cconn'[d].state = "CLOSED"
    BY <1>1
  <2> QED
    BY <2>1, <1>2, <1>4, <1>5, OwnedSame
<1>7. ClientConns'
  BY <1>1, <1>2, <1>5 DEF ClientConns, ClientConn
<1> QED
  BY <1>1, <1>2, <1>3, <1>6, <1>7, ClientSideKeeps DEF ConnTypes

(* mrcp_client_agent_channel_modify: the channel gets a connection, shared *)
(* or new, or none at all.                                                 *)
LEMMA ClientModifyKeeps ==
    ASSUME IInv, NEW a \in Channels, mrcp_client_agent_channel_modify(a)
    PROVE  IInv'
<1> DEFINE Reuses(k) ==
               /\ k \in clist
               /\ cchan' = [cchan EXCEPT ![a] = [phase |-> "UP", connection |-> k]]
               /\ cconn' = [cconn EXCEPT ![k].channels = @ \cup {a}]
               /\ UNCHANGED <<clist, sconn>>
           Connects(k) ==
               /\ cconn[k].state = "NONE"
               /\ cchan' = [cchan EXCEPT ![a] = [phase |-> "UP", connection |-> k]]
               /\ cconn' = [cconn EXCEPT ![k] = [state |-> "OPEN", channels |-> {a}]]
               /\ clist' = clist \cup {k}
               /\ sconn' = [sconn EXCEPT ![k].state = "BACKLOG"]
           Fails ==
               /\ cchan' = [cchan EXCEPT ![a].phase = "FAILED"]
               /\ UNCHANGED <<cconn, clist, sconn>>
<1>1. /\ cchan[a].phase = "OFFERED"
      /\ UNCHANGED <<schan, slist, pending, terminating>>
      /\ (\E k \in Conns : Reuses(k)) \/ (\E k \in Conns : Connects(k)) \/ Fails
  BY DEF mrcp_client_agent_channel_modify, mrcp_client_agent_connection_create, Attach, First
<1> HIDE DEF Reuses, Connects, Fails
<1>2. ConnTypes /\ Owned(cchan, cconn) /\ ClientConns
  BY DEF IInv
<1>3. cchan[a].connection = NULL
  BY <1>1, <1>2 DEF Owned
<1>4. ASSUME NEW k \in Conns, Reuses(k) PROVE IInv'
  <2>1. cchan' \in [Channels -> Channel]
    BY <1>2, <1>4 DEF Reuses, ConnTypes, Channel, Phases
  <2>2. cconn' \in [Conns -> ClientConnection]
    BY <1>2, <1>4 DEF Reuses, ConnTypes, ClientConnection
  <2>3. /\ cchan'[a].phase = "UP" /\ cchan'[a].connection = k
        /\ \A x \in Channels : x # a => cchan'[x] = cchan[x]
        /\ cconn'[k].channels = cconn[k].channels \cup {a}
        /\ cconn'[k].state = cconn[k].state
        /\ \A d \in Conns : d # k => cconn'[d] = cconn[d]
    BY <1>2, <1>4 DEF Reuses, ConnTypes, ClientConnection
  <2>4. \A x \in Channels : cchan[x].phase = "REMOVED" => cchan[x].connection # k
    BY ZenonT(60), <1>2, <1>4 DEF Reuses, ClientConns, ClientConn, Owned
  <2>5. Owned(cchan', cconn')
    BY <1>2, <1>3, <2>3, <2>4, OwnedAttach
  <2>6. ASSUME NEW d \in Conns PROVE ClientConn(d)'
    <3>1. CASE d = k
      BY <3>1, <1>2, <1>4, <2>3 DEF Reuses, ClientConns, ClientConn
    <3>2. CASE d # k
      BY <3>2, <1>2, <1>3, <1>4, <2>3, NullNoConnection
         DEF Reuses, ClientConns, ClientConn
    <3> QED
      BY <3>1, <3>2
  <2>7. ClientConns'
    BY <2>6 DEF ClientConns
  <2> QED
    BY <1>1, <1>2, <1>4, <2>1, <2>2, <2>5, <2>7, ClientSideKeeps
       DEF Reuses, serverSide, ConnTypes
<1>5. ASSUME NEW k \in Conns, Connects(k) PROVE IInv'
  <2>1. cchan' \in [Channels -> Channel]
    BY <1>2, <1>5 DEF Connects, ConnTypes, Channel, Phases
  <2>2. cconn' \in [Conns -> ClientConnection]
    BY <1>2, <1>5 DEF Connects, ConnTypes, ClientConnection, States
  <2>3. sconn' \in [Conns -> ServerConnection]
    BY ZenonT(60), <1>2, <1>5 DEF Connects, ConnTypes, ServerConnection, States
  <2>4. ConnTypes'
    BY <1>1, <1>2, <1>5, <2>1, <2>2, <2>3 DEF Connects, ConnTypes
  <2>5. /\ cchan'[a].phase = "UP" /\ cchan'[a].connection = k
        /\ \A x \in Channels : x # a => cchan'[x] = cchan[x]
        /\ cconn'[k].channels = {a} /\ cconn'[k].state = "OPEN"
        /\ \A d \in Conns : d # k => cconn'[d] = cconn[d]
    BY <1>2, <1>5 DEF Connects, ConnTypes, ClientConnection
  <2>6. /\ sconn'[k].channels = sconn[k].channels /\ sconn'[k].state = "BACKLOG"
        /\ \A d \in Conns : d # k => sconn'[d] = sconn[d]
    BY <1>2, <1>5 DEF Connects, ConnTypes, ServerConnection
  <2>7. /\ cconn[k].channels = {} /\ sconn[k].state = "NONE"
        /\ \A x \in Channels : cchan[x].phase = "REMOVED" => cchan[x].connection # k
    BY <1>2, <1>5 DEF Connects, ClientConns, ClientConn, Owned
  <2>8. cconn'[k].channels = cconn[k].channels \cup {a}
    BY ZenonT(60), <2>5, <2>7
  <2>9. Owned(cchan', cconn')
    BY <1>2, <1>3, <2>5, <2>7, <2>8, OwnedAttach
  <2>10. ASSUME NEW d \in Conns PROVE ClientConn(d)'
    <3>1. CASE d = k
      BY <3>1, <1>5, <2>5 DEF Connects, ClientConn
    <3>2. CASE d # k
      BY SMTT(90), <3>2, <1>2, <1>3, <1>5, <2>5, <2>6, NullNoConnection
         DEF Connects, ClientConns, ClientConn
    <3> QED
      BY <3>1, <3>2
  <2>11. Owned(schan', sconn')
    <3>1. Owned(schan, sconn)
      BY DEF IInv
    <3>2. /\ \A d \in Conns : sconn'[d].channels = sconn[d].channels
          /\ \A d \in Conns : sconn[d].state = "CLOSED" => sconn'[d].state = "CLOSED"
      BY <2>6, <2>7
    <3>3. /\ \A x \in Channels : schan'[x].connection = schan[x].connection
          /\ \A x \in Channels : schan[x].connection # NULL =>
                 schan'[x].phase = schan[x].phase
      BY ZenonT(60), <1>1
    <3> QED
      BY <3>1, <3>2, <3>3, OwnedSame
  <2>12. ASSUME NEW d \in Conns PROVE ServerConn(d)'
    BY <1>1, <2>6, <2>7 DEF IInv, ServerConns, ServerConn
  <2> QED
    BY <1>1, <2>4, <2>9, <2>10, <2>11, <2>12
       DEF IInv, ClientConns, ServerConns, Pending
<1>6. CASE Fails
  <2>1. cchan' \in [Channels -> Channel]
    BY ZenonT(60), <1>2, <1>6 DEF Fails, ConnTypes, Channel, Phases
  <2>2. \A x \in Channels :
            /\ cchan'[x].connection = cchan[x].connection
            /\ x # a => cchan'[x].phase = cchan[x].phase
    BY <1>2, <1>6 DEF Fails, ConnTypes, Channel
  <2>3. Owned(cchan', cconn')
    BY SMTT(90), <1>2, <1>3, <1>6, <2>2, NullNoConnection DEF Fails, Owned
  <2>4. ClientConns'
    BY <1>2, <1>6, <2>2 DEF Fails, ClientConns, ClientConn
  <2> QED
    BY <1>1, <1>2, <1>6, <2>1, <2>3, <2>4, ClientSideKeeps
       DEF Fails, serverSide, ConnTypes
<1> QED
  BY <1>1, <1>4, <1>5, <1>6

(* mrcp_client_agent_channel_remove: the last channel closes the           *)
(* connection and takes it over.                                           *)
LEMMA ClientRemoveKeeps ==
    ASSUME IInv, NEW a \in Channels, mrcp_client_agent_channel_remove(a)
    PROVE  IInv'
<1> DEFINE k == cchan[a].connection
           Unattached ==
               /\ k = NULL
               /\ cchan' = [cchan EXCEPT ![a].phase = "REMOVED"]
               /\ UNCHANGED <<cconn, clist>>
           Detaches ==
               /\ k # NULL /\ cconn[k].channels # {a}
               /\ cchan' = [cchan EXCEPT ![a] = [phase |-> "REMOVED",
                                                 connection |-> NULL]]
               /\ cconn' = [cconn EXCEPT ![k].channels = @ \ {a}]
               /\ UNCHANGED clist
           TakesOver ==
               /\ k # NULL /\ cconn[k].channels = {a}
               /\ cchan' = [cchan EXCEPT ![a].phase = "REMOVED"]
               /\ cconn' = [cconn EXCEPT ![k] = [state |-> "CLOSED", channels |-> {}]]
               /\ clist' = clist \ {k}
<1>1. /\ cchan[a].phase \in {"UP", "FAILED"}
      /\ UNCHANGED serverSide
      /\ sconn' = sconn
      /\ Unattached \/ Detaches \/ TakesOver
  BY DEF mrcp_client_agent_channel_remove, serverVars, serverSide
<1> HIDE DEF Unattached, Detaches, TakesOver
<1>2. ConnTypes /\ Owned(cchan, cconn) /\ ClientConns
  BY DEF IInv
<1>3. CASE Unattached
  <2>1. cchan' \in [Channels -> Channel]
    BY <1>2, <1>3 DEF Unattached, ConnTypes, Channel, Phases
  <2>2. \A x \in Channels :
            /\ cchan'[x].connection = cchan[x].connection
            /\ x # a => cchan'[x].phase = cchan[x].phase
    BY <1>2, <1>3 DEF Unattached, ConnTypes, Channel
  <2>3. Owned(cchan', cconn')
    BY SMTT(90), <1>2, <1>3, <2>2, NullNoConnection DEF Unattached, Owned
  <2>4. ClientConns'
    BY SMTT(90), <1>1, <1>2, <1>3, <2>2 DEF Unattached, ClientConns, ClientConn
  <2> QED
    BY <1>1, <1>2, <1>3, <2>1, <2>3, <2>4, ClientSideKeeps DEF Unattached, ConnTypes
<1>4. ASSUME k # NULL
      PROVE  k \in Conns /\ cchan[a].phase = "UP" /\ a \in cconn[k].channels
  BY SMTT(90), <1>1, <1>2, <1>4 DEF ConnTypes, Channel, Owned
<1>5. CASE Detaches
  <2>1. k \in Conns /\ cchan[a].phase = "UP" /\ a \in cconn[k].channels
    BY <1>4, <1>5 DEF Detaches
  <2>2. cchan' \in [Channels -> Channel]
    BY <1>2, <1>5 DEF Detaches, ConnTypes, Channel, Phases
  <2>3. cconn' \in [Conns -> ClientConnection]
    BY ZenonT(60), <1>2, <1>5 DEF Detaches, ConnTypes, ClientConnection
  <2>4. /\ cchan'[a].phase = "REMOVED" /\ cchan'[a].connection = NULL
        /\ \A x \in Channels : x # a => cchan'[x] = cchan[x]
        /\ cconn'[k].channels = cconn[k].channels \ {a}
        /\ cconn'[k].state = cconn[k].state
        /\ \A d \in Conns : d # k => cconn'[d] = cconn[d]
    BY <1>2, <1>5, <2>1 DEF Detaches, ConnTypes, ClientConnection
  <2>5. Owned(cchan', cconn')
    BY <1>2, <2>1, <2>4, OwnedDetach
  <2>6. PICK b \in Channels : b # a /\ b \in cconn[k].channels /\ cchan[b].connection = k
    <3>1. PICK b \in cconn[k].channels : b # a
      BY <1>5, <2>1 DEF Detaches
    <3>2. cconn[k].channels \subseteq Channels
      BY <1>2, <2>1 DEF ConnTypes, ClientConnection
    <3> QED
      BY <1>2, <2>1, <3>1, <3>2 DEF Owned
  <2>7. ASSUME NEW d \in Conns PROVE ClientConn(d)'
    <3>1. CASE d = k
      BY SMTT(90), <3>1, <1>1, <1>2, <1>5, <2>4, <2>6 DEF Detaches, ClientConns, ClientConn
    <3>2. CASE d # k
      BY <3>2, <1>1, <1>2, <1>5, <2>4 DEF Detaches, ClientConns, ClientConn
    <3> QED
      BY ZenonT(60), <3>1, <3>2
  <2> QED
    BY ZenonT(60), <1>1, <1>2, <1>5, <2>2, <2>3, <2>5, <2>7, ClientSideKeeps
       DEF Detaches, ConnTypes, ClientConns
<1>6. CASE TakesOver
  <2>1. k \in Conns /\ cchan[a].phase = "UP" /\ cconn[k].channels = {a}
    BY <1>4, <1>6 DEF TakesOver
  <2>2. cchan' \in [Channels -> Channel]
    BY <1>2, <1>6 DEF TakesOver, ConnTypes, Channel, Phases
  <2>3. cconn' \in [Conns -> ClientConnection]
    BY ZenonT(60), <1>2, <1>6 DEF TakesOver, ConnTypes, ClientConnection, States
  <2>4. /\ cchan'[a].phase = "REMOVED" /\ cchan'[a].connection = k
        /\ \A x \in Channels : x # a => cchan'[x] = cchan[x]
        /\ cconn'[k].channels = {} /\ cconn'[k].state = "CLOSED"
        /\ \A d \in Conns : d # k => cconn'[d] = cconn[d]
    BY SMTT(90), <1>2, <1>6, <2>1 DEF TakesOver, ConnTypes, Channel, ClientConnection
  <2>5. Owned(cchan', cconn')
    BY <1>2, <2>1, <2>4, OwnedTakeOver
  <2>6. ASSUME NEW d \in Conns PROVE ClientConn(d)'
    <3>1. CASE d = k
      BY ZenonT(60), <3>1, <1>1, <1>6, <2>4 DEF TakesOver, ClientConn
    <3>2. CASE d # k
      BY <3>2, <1>1, <1>2, <1>6, <2>4 DEF TakesOver, ClientConns, ClientConn
    <3> QED
      BY <3>1, <3>2
  <2> QED
    BY SMTT(90), <1>1, <1>2, <1>6, <2>2, <2>3, <2>5, <2>6, ClientSideKeeps
       DEF TakesOver, ConnTypes, ClientConns
<1> QED
  BY ZenonT(60), <1>1, <1>3, <1>5, <1>6

(* mrcp_client_control_channel_destroy, in the task of the session.        *)
LEMMA ClientDestroyKeeps ==
    ASSUME IInv, NEW a \in Channels, mrcp_client_control_channel_destroy(a)
    PROVE  IInv'
<1> DEFINE k == cchan[a].connection
<1>1. /\ cchan[a].phase = "REMOVED"
      /\ cchan' = [cchan EXCEPT ![a] = [phase |-> "DESTROYED", connection |-> NULL]]
      /\ \/ k = NULL /\ UNCHANGED cconn
         \/ k # NULL /\ cconn' = [cconn EXCEPT ![k].state = "DESTROYED"]
      /\ UNCHANGED clist /\ UNCHANGED serverSide /\ sconn' = sconn
  BY DEF mrcp_client_control_channel_destroy, serverVars, serverSide
<1>2. ConnTypes /\ Owned(cchan, cconn) /\ ClientConns
  BY DEF IInv
<1>3. cchan' \in [Channels -> Channel]
  BY <1>1, <1>2 DEF ConnTypes, Channel, Phases
<1>4. cconn' \in [Conns -> ClientConnection]
  BY SMTT(90), <1>1, <1>2 DEF ConnTypes, ClientConnection, States
<1>5. /\ cchan'[a].phase = "DESTROYED" /\ cchan'[a].connection = NULL
      /\ \A x \in Channels : x # a => cchan'[x] = cchan[x]
      /\ \A d \in Conns : cconn'[d].channels = cconn[d].channels
      /\ \A d \in Conns : d # k => cconn'[d].state = cconn[d].state
      /\ k \in Conns => cconn'[k].state = "DESTROYED" /\ cconn[k].channels = {}
  <2>1. CASE k = NULL
    BY <2>1, <1>1, <1>2, NullNoConnection DEF ConnTypes
  <2>2. CASE k # NULL
    <3>1. k \in Conns
      BY <2>2, <1>2 DEF ConnTypes, Channel
    <3>2. cconn[k].channels = {}
      BY ZenonT(60), <3>1, <1>1, <1>2 DEF Owned
    <3>3. cconn' = [cconn EXCEPT ![k].state = "DESTROYED"]
      BY <2>2, <1>1
    <3>4. /\ \A d \in Conns : cconn'[d].channels = cconn[d].channels
          /\ \A d \in Conns : d # k => cconn'[d].state = cconn[d].state
          /\ cconn'[k].state = "DESTROYED"
      BY <3>1, <3>3, <1>2 DEF ConnTypes, ClientConnection
    <3>5. /\ cchan'[a].phase = "DESTROYED" /\ cchan'[a].connection = NULL
          /\ \A x \in Channels : x # a => cchan'[x] = cchan[x]
      BY ZenonT(60), <1>1, <1>2 DEF ConnTypes
    <3> QED
      BY <3>2, <3>4, <3>5
  <2> QED
    BY <2>1, <2>2
<1>6. Owned(cchan', cconn')
  <2>1. cchan[a].phase = "REMOVED"
    BY <1>1
  <2> QED
    BY SMTT(90), <2>1, <1>2, <1>5, OwnedDestroy
<1>7. ASSUME NEW d \in Conns PROVE ClientConn(d)'
  <2>1. CASE d = k
    BY ZenonT(60), <2>1, <1>1, <1>2, <1>5 DEF ClientConns, ClientConn
  <2>2. CASE d # k
    BY <2>2, <1>1, <1>2, <1>5 DEF ClientConns, ClientConn
  <2> QED
    BY ZenonT(60), <2>1, <2>2
<1> QED
  BY SMTT(90), <1>1, <1>2, <1>3, <1>4, <1>6, <1>7, ClientSideKeeps DEF ConnTypes, ClientConns

(* mrcp_client_agent_disconnect_raise leaves the closed connection in use. *)
LEMMA ClientDisconnectKeeps ==
    ASSUME IInv, NEW k \in Conns, mrcp_client_agent_disconnect_raise(k)
    PROVE  IInv'
<1>1. /\ cconn[k].state \in {"BACKLOG", "OPEN"}
      /\ cconn' = [cconn EXCEPT ![k].state = "CLOSED"]
      /\ UNCHANGED <<cchan, clist>> /\ UNCHANGED serverSide /\ sconn' = sconn
  BY DEF mrcp_client_agent_disconnect_raise, HasSocket, serverVars, serverSide
<1>2. ConnTypes /\ Owned(cchan, cconn) /\ ClientConns
  BY DEF IInv
<1>3. cconn' \in [Conns -> ClientConnection]
  BY <1>1, <1>2 DEF ConnTypes, ClientConnection, States
<1>4. /\ \A d \in Conns : cconn'[d].channels = cconn[d].channels
      /\ \A d \in Conns : d # k => cconn'[d].state = cconn[d].state
      /\ cconn'[k].state = "CLOSED"
  BY <1>1, <1>2 DEF ConnTypes, ClientConnection
<1>5. Owned(cchan', cconn')
  BY SMTT(90), <1>1, <1>2, <1>4 DEF Owned
<1>6. ClientConns'
  BY <1>1, <1>2, <1>4 DEF ClientConns, ClientConn
<1> QED
  BY <1>1, <1>2, <1>3, <1>5, <1>6, ClientSideKeeps DEF ConnTypes

-----------------------------------------------------------------------------
(* The steps of the server agent.                                          *)

(* mrcp_server_agent_channel_add: the channel is pending.                  *)
LEMMA ServerAddKeeps ==
    ASSUME IInv, NEW a \in Channels, mrcp_server_agent_channel_add(a)
    PROVE  IInv'
<1>1. /\ schan[a].phase = "NONE" /\ schan' = [schan EXCEPT ![a].phase = "UP"]
      /\ pending' = pending \cup {a}
      /\ UNCHANGED clientSide /\ UNCHANGED <<sconn, slist, terminating>>
  BY DEF mrcp_server_agent_channel_add, clientVars, clientSide
<1>2. ConnTypes /\ Owned(schan, sconn) /\ ServerConns /\ Pending
  BY DEF IInv
<1>3. schan' \in [Channels -> Channel]
  BY ZenonT(60), <1>1, <1>2 DEF ConnTypes, Channel, Phases
<1>4. schan[a].connection = NULL
  BY <1>1, <1>2 DEF Owned
<1>5. /\ \A x \in Channels : schan'[x].connection = schan[x].connection
      /\ \A x \in Channels : x # a => schan'[x].phase = schan[x].phase
      /\ schan'[a].phase = "UP"
  BY ZenonT(60), <1>1, <1>2 DEF ConnTypes, Channel
<1>6. Owned(schan', sconn')
  <2>1. /\ \A d \in Conns : sconn'[d].channels = sconn[d].channels
        /\ \A d \in Conns : sconn[d].state = "CLOSED" => sconn'[d].state = "CLOSED"
    BY <1>1
  <2> QED
    BY <2>1, <1>2, <1>4, <1>5, OwnedSame
<1>7. ServerConns'
  BY <1>1, <1>2, <1>5 DEF ServerConns, ServerConn
<1>8. Pending'
  BY <1>1, <1>2, <1>4, <1>5 DEF Pending, ConnTypes
<1> QED
  BY <1>1, <1>2, <1>3, <1>6, <1>7, <1>8, ServerSideKeeps DEF ConnTypes

(* mrcp_server_agent_connection_accept: the connection is rejected or put  *)
(* into the list.                                                          *)
LEMMA ServerAcceptKeeps ==
    ASSUME IInv, NEW k \in Conns, mrcp_server_agent_connection_accept(k)
    PROVE  IInv'
<1>1. /\ sconn[k].state = "BACKLOG"
      /\ \/ /\ sconn' = [sconn EXCEPT ![k].state = "DESTROYED"]
            /\ slist' = slist
         \/ /\ sconn' = [sconn EXCEPT ![k].state = "OPEN"]
            /\ slist' = slist \cup {k}
      /\ UNCHANGED clientSide /\ UNCHANGED <<schan, pending, terminating>>
  BY DEF mrcp_server_agent_connection_accept, First, clientVars, clientSide
<1>2. ConnTypes /\ Owned(schan, sconn) /\ ServerConns /\ Pending
  BY DEF IInv
<1>3. sconn' \in [Conns -> ServerConnection]
  BY SMTT(90), <1>1, <1>2 DEF ConnTypes, ServerConnection, States
<1>4. /\ \A d \in Conns : sconn'[d].channels = sconn[d].channels
      /\ \A d \in Conns : d # k => sconn'[d].state = sconn[d].state
      /\ \/ sconn'[k].state = "DESTROYED" /\ slist' = slist
         \/ sconn'[k].state = "OPEN" /\ slist' = slist \cup {k}
  BY <1>1, <1>2 DEF ConnTypes, ServerConnection
<1>5. Owned(schan', sconn')
  <2>1. sconn[k].state = "BACKLOG" /\ schan' = schan
    BY <1>1
  <2> QED
    BY SMTT(90), <2>1, <1>2, <1>4 DEF Owned
<1>6. ServerConns'
  <2>1. /\ sconn[k].state = "BACKLOG"
        /\ UNCHANGED <<schan, pending, terminating>>
    BY <1>1
  <2> QED
    BY <2>1, <1>2, <1>4 DEF ServerConns, ServerConn
<1>7. Pending'
  BY <1>1, <1>2 DEF Pending
<1>8. /\ \A d \in Conns : sconn[d].state = "NONE" => sconn'[d].state = "NONE"
      /\ slist' \subseteq Conns
  BY <1>1, <1>2, <1>4 DEF ConnTypes
<1> QED
  BY SMTT(90), <1>1, <1>2, <1>3, <1>5, <1>6, <1>7, <1>8, ServerSideKeeps DEF ConnTypes

(* mrcp_server_message_handler associates a pending channel with the       *)
(* connection.                                                             *)
LEMMA ServerMessageKeeps ==
    ASSUME IInv, NEW k \in Conns, mrcp_server_message_handler(k)
    PROVE  IInv'
<1> DEFINE a == requests[Head(up[k])]
<1>1. CASE ~Associates(k, a)
  BY SMTT(90), <1>1, StutterKeeps
     DEF mrcp_server_message_handler, clientVars, clientSide, serverSide
<1>2. CASE Associates(k, a)
  <2>1. /\ sconn[k].state = "OPEN" /\ a \in pending
        /\ sconn' = [sconn EXCEPT ![k].channels = @ \cup {a},
                                  ![k].use_count = @ + 1]
        /\ schan' = [schan EXCEPT ![a].connection = k]
        /\ pending' = pending \ {a}
        /\ UNCHANGED clientSide /\ UNCHANGED <<slist, terminating>>
    BY <1>2 DEF mrcp_server_message_handler, Associates, clientVars, clientSide
  <2> HIDE DEF a
  <2>2. ConnTypes /\ Owned(schan, sconn) /\ ServerConns /\ Pending
    BY DEF IInv
  <2>3. /\ a \in Channels
        /\ schan[a].phase = "UP" /\ schan[a].connection = NULL
    BY <2>1, <2>2 DEF ConnTypes, Pending
  <2>4. schan' \in [Channels -> Channel]
    BY SMTT(90), <2>1, <2>2, <2>3 DEF ConnTypes, Channel
  <2>5. sconn' \in [Conns -> ServerConnection]
    BY <2>1, <2>2, <2>3 DEF ConnTypes, ServerConnection
  <2>6. /\ schan'[a].phase = "UP" /\ schan'[a].connection = k
        /\ \A x \in Channels : x # a => schan'[x] = schan[x]
    BY <2>1, <2>2, <2>3 DEF ConnTypes, Channel
  <2>7. /\ sconn'[k].channels = sconn[k].channels \cup {a}
        /\ sconn'[k].state = "OPEN"
        /\ \A d \in Conns : d # k => sconn'[d] = sconn[d]
    BY <2>1, <2>2 DEF ConnTypes, ServerConnection
  <2>8. \A x \in Channels : schan[x].phase = "REMOVED" => schan[x].connection # k
    BY ZenonT(60), <2>1, <2>2 DEF Owned
  <2>9. Owned(schan', sconn')
    BY <2>2, <2>3, <2>6, <2>7, <2>8, OwnedAttach
  <2>10. ASSUME NEW d \in Conns PROVE ServerConn(d)'
    <3>1. CASE d = k
      BY ZenonT(60), <3>1, <2>1, <2>2, <2>7 DEF ServerConns, ServerConn
    <3>2. CASE d # k
      <4>1. \A x \in Channels : schan[x].connection = d => schan'[x].connection = d
        BY <2>3, <2>6, NullNoConnection
      <4>2. ServerConn(d)
        BY <2>2 DEF ServerConns
      <4>3. /\ sconn'[d] = sconn[d]
            /\ slist' = slist /\ terminating' = terminating
        BY ZenonT(60), <3>2, <2>1, <2>7
      <4> QED
        BY ZenonT(60), <4>1, <4>2, <4>3 DEF ServerConn
    <3> QED
      BY SMTT(90), <3>1, <3>2
  <2>11. Pending'
    BY <2>1, <2>2, <2>6 DEF Pending, ConnTypes
  <2>12. /\ \A d \in Conns : sconn[d].state = "NONE" => sconn'[d].state = "NONE"
         /\ pending' \subseteq Channels
    BY <2>1, <2>2, <2>7 DEF ConnTypes
  <2> QED
    BY ZenonT(60), <2>1, <2>2, <2>4, <2>5, <2>9, <2>10, <2>11, <2>12, ServerSideKeeps
       DEF ConnTypes, ServerConns
<1> QED
  BY ZenonT(60), <1>1, <1>2

(* mrcp_server_agent_connection_close, on behalf of the peer or of the     *)
(* inactivity timer: an unused connection is destroyed, a used one waits   *)
(* for its channels.                                                       *)
LEMMA ServerCloseKeeps ==
    ASSUME IInv, NEW k \in Conns, NEW timedout, sconn[k].state = "OPEN",
           mrcp_server_agent_connection_close(k, timedout),
           UNCHANGED clientSide, UNCHANGED <<schan, pending>>
    PROVE  IInv'
<1>1. /\ \/ /\ sconn[k].channels = {}
            /\ sconn' = [sconn EXCEPT ![k].state = "DESTROYED"]
         \/ /\ sconn[k].channels # {}
            /\ sconn' = [sconn EXCEPT ![k].state = "CLOSED"]
      /\ slist' = slist \ {k}
  BY DEF mrcp_server_agent_connection_close, Close
<1>2. \/ terminating' = terminating
      \/ terminating' = terminating \cup {k} /\ sconn[k].channels # {}
  BY DEF mrcp_server_agent_connection_close
<1>3. ConnTypes /\ Owned(schan, sconn) /\ ServerConns /\ Pending
  BY DEF IInv
<1>4. sconn' \in [Conns -> ServerConnection]
  BY <1>1, <1>3 DEF ConnTypes, ServerConnection, States
<1>5. /\ \A d \in Conns : sconn'[d].channels = sconn[d].channels
      /\ \A d \in Conns : d # k => sconn'[d].state = sconn[d].state
      /\ \/ sconn[k].channels = {} /\ sconn'[k].state = "DESTROYED"
         \/ sconn[k].channels # {} /\ sconn'[k].state = "CLOSED"
  BY SMTT(90), <1>1, <1>3 DEF ConnTypes, ServerConnection
<1>6. Owned(schan', sconn')
  BY SMTT(90), <1>3, <1>5 DEF Owned
<1>7. ASSUME NEW d \in Conns PROVE ServerConn(d)'
  <2>1. k \notin slist' /\ (d # k => (d \in slist' <=> d \in slist))
    BY SMTT(90), <1>1
  <2>2. CASE d = k
    <3>1. sconn[k].channels # {} => \E ch \in Channels : schan[ch].connection = k
      BY SMTT(90), <1>3 DEF Owned, ConnTypes, ServerConnection
    <3>2. k \notin terminating
      BY ZenonT(60), <1>3 DEF ServerConns, ServerConn
    <3> QED
      BY SMTT(90), <2>1, <2>2, <3>1, <3>2, <1>2, <1>5 DEF ServerConn
  <2>3. CASE d # k
    BY SMTT(90), <2>1, <2>3, <1>2, <1>3, <1>5 DEF ServerConns, ServerConn
  <2> QED
    BY <2>2, <2>3
<1>8. Pending'
  BY <1>3 DEF Pending
<1>9. /\ \A d \in Conns : sconn[d].state = "NONE" => sconn'[d].state = "NONE"
      /\ slist' \subseteq Conns /\ terminating' \subseteq Conns
  BY SMTT(90), <1>1, <1>2, <1>3, <1>5 DEF ConnTypes
<1> QED
  BY <1>3, <1>4, <1>6, <1>7, <1>8, <1>9, ServerSideKeeps DEF ConnTypes, ServerConns

(* mrcp_server_termination_timer_proc, of a timer that has been set.       *)
LEMMA ServerTerminationKeeps ==
    ASSUME IInv, NEW k \in Conns, mrcp_server_termination_timer_proc(k)
    PROVE  IInv'
<1>1. /\ terminating' = terminating \ {k}
      /\ UNCHANGED clientSide /\ UNCHANGED <<schan, sconn, slist, pending>>
  BY DEF mrcp_server_termination_timer_proc, clientVars, clientSide
<1>2. ConnTypes /\ Owned(schan, sconn) /\ ServerConns /\ Pending
  BY ZenonT(60) DEF IInv
<1>3. Owned(schan', sconn') /\ Pending'
  BY SMTT(90), <1>1, <1>2 DEF Owned, Pending
<1>4. ServerConns'
  BY <1>1, <1>2 DEF ServerConns, ServerConn
<1> QED
  BY ZenonT(60), <1>1, <1>2, <1>3, <1>4, ServerSideKeeps DEF ConnTypes

(* mrcp_server_control_channel_destroy, in the task of the session.        *)
LEMMA ServerDestroyKeeps ==
    ASSUME IInv, NEW a \in Channels, mrcp_server_control_channel_destroy(a)
    PROVE  IInv'
<1> DEFINE k == schan[a].connection
<1>1. /\ schan[a].phase = "REMOVED"
      /\ schan' = [schan EXCEPT ![a] = [phase |-> "DESTROYED", connection |-> NULL]]
      /\ \/ k = NULL /\ sconn' = sconn
         \/ k # NULL /\ sconn' = [sconn EXCEPT ![k].state = "DESTROYED"]
      /\ UNCHANGED clientSide /\ UNCHANGED <<slist, pending, terminating>>
  BY DEF mrcp_server_control_channel_destroy, clientVars, clientSide
<1>2. ConnTypes /\ Owned(schan, sconn) /\ ServerConns /\ Pending
  BY DEF IInv
<1>3. schan' \in [Channels -> Channel]
  BY <1>1, <1>2 DEF ConnTypes, Channel, Phases
<1>4. sconn' \in [Conns -> ServerConnection]
  BY SMTT(90), <1>1, <1>2 DEF ConnTypes, ServerConnection, States
<1>5. /\ schan'[a].phase = "DESTROYED" /\ schan'[a].connection = NULL
      /\ \A x \in Channels : x # a => schan'[x] = schan[x]
  BY <1>1, <1>2 DEF ConnTypes
<1>6. k \in Conns \cup {NULL}
  BY <1>2 DEF ConnTypes, Channel
<1>7. /\ \A d \in Conns : sconn'[d].channels = sconn[d].channels
      /\ \A d \in Conns : d # k => sconn'[d].state = sconn[d].state
      /\ k # NULL => sconn'[k].state = "DESTROYED"
  BY SMTT(90), <1>1, <1>2, <1>6, NullNoConnection DEF ConnTypes, ServerConnection
<1>8. schan[a].phase = "REMOVED"
  BY <1>1
<1>9. Owned(schan', sconn')
  BY <1>2, <1>5, <1>7, <1>8, OwnedDestroy
<1>10. k # NULL => sconn[k].state = "CLOSED" /\ sconn[k].channels = {}
  BY <1>2, <1>6, <1>8 DEF Owned
<1>11. UNCHANGED <<slist, terminating, pending>>
  BY <1>1
<1> HIDE DEF k
<1>12. ASSUME NEW d \in Conns PROVE ServerConn(d)'
  <2>1. ServerConn(d)
    BY ZenonT(60), <1>2 DEF ServerConns
  <2>2. CASE d = k
    BY ZenonT(60), <2>1, <2>2, <1>7, <1>10, <1>11, NullNoConnection DEF ServerConn
  <2>3. CASE d # k
    <3>1. \A x \in Channels : schan[x].connection = d => schan'[x].connection = d
      BY <2>3, <1>5 DEF k
    <3>2. sconn'[d].state = sconn[d].state /\ sconn'[d].channels = sconn[d].channels
      BY ZenonT(60), <2>3, <1>7
    <3> QED
      BY <2>1, <3>1, <3>2, <1>11 DEF ServerConn
  <2> QED
    BY <2>2, <2>3
<1>13. Pending'
  BY <1>2, <1>5, <1>8, <1>11 DEF Pending, ConnTypes
<1>14. \A d \in Conns : sconn[d].state = "NONE" => sconn'[d].state = "NONE"
  BY ZenonT(60), <1>7, <1>10, NullNoConnection
<1> QED
  BY ZenonT(60), <1>1, <1>2, <1>3, <1>4, <1>9, <1>12, <1>13, <1>14, ServerSideKeeps
     DEF ConnTypes, ServerConns

(* mrcp_server_agent_channel_remove: the last channel of a closed          *)
(* connection takes it over and stops its timer, any other leaves it.      *)
LEMMA ServerRemoveKeeps ==
    ASSUME IInv, NEW a \in Channels, mrcp_server_agent_channel_remove(a)
    PROVE  IInv'
<1> DEFINE k == schan[a].connection
           IsLast == sconn[k].channels = {a} /\ sconn[k].state = "CLOSED"
           NoConnection == /\ k = NULL
                           /\ schan' = [schan EXCEPT ![a].phase = "REMOVED"]
                           /\ pending' = pending \ {a}
                           /\ UNCHANGED <<sconn, terminating>>
           Leaves == /\ k # NULL /\ ~IsLast
                     /\ Detach(a, k)
                     /\ UNCHANGED <<pending, terminating>>
           TakesOver == /\ k # NULL /\ IsLast
                        /\ schan' = [schan EXCEPT ![a].phase = "REMOVED"]
                        /\ sconn' = [sconn EXCEPT ![k].channels = {}]
                        /\ terminating' = terminating \ {k}
                        /\ UNCHANGED pending
<1>1. /\ schan[a].phase = "UP"
      /\ NoConnection \/ Leaves \/ TakesOver
      /\ UNCHANGED clientSide /\ slist' = slist
  BY DEF mrcp_server_agent_channel_remove, clientVars, clientSide
<1>2. ConnTypes /\ Owned(schan, sconn) /\ ServerConns /\ Pending
  BY DEF IInv
<1>3. k \in Conns \cup {NULL}
  BY ZenonT(60), <1>2 DEF ConnTypes, Channel
<1>4. schan[a].phase = "UP" /\ UNCHANGED clientSide /\ slist' = slist
  BY <1>1
<1> HIDE DEF NoConnection, Leaves, TakesOver
<1>5. CASE NoConnection
  <2>1. /\ k = NULL /\ schan' = [schan EXCEPT ![a].phase = "REMOVED"]
        /\ pending' = pending \ {a} /\ UNCHANGED <<sconn, terminating>>
    BY <1>5 DEF NoConnection
  <2>2. schan' \in [Channels -> Channel]
    BY <2>1, <1>2 DEF ConnTypes, Channel, Phases
  <2>3. /\ \A x \in Channels : schan'[x].connection = schan[x].connection
        /\ \A x \in Channels : x # a => schan'[x].phase = schan[x].phase
    BY <2>1, <1>2 DEF ConnTypes, Channel
  <2>4. schan[a].connection = NULL
    BY ZenonT(60), <2>1
  <2>5. Owned(schan', sconn')
    <3>1. \A x \in Channels : schan[x].connection # NULL => schan'[x].phase = schan[x].phase
      BY <2>3, <2>4
    <3>2. /\ \A d \in Conns : sconn'[d].channels = sconn[d].channels
          /\ \A d \in Conns : sconn[d].state = "CLOSED" => sconn'[d].state = "CLOSED"
      BY <2>1
    <3>3. Owned(schan, sconn) /\ \A x \in Channels : schan'[x].connection = schan[x].connection
      BY <1>2, <2>3
    <3> QED
      BY SMTT(90), <3>1, <3>2, <3>3, OwnedSame
  <2>6. ServerConns'
    BY <2>1, <2>3, <1>2, <1>4 DEF ServerConns, ServerConn
  <2>7. Pending'
    BY ZenonT(60), <2>1, <2>3, <1>2 DEF Pending, ConnTypes
  <2> QED
    BY <2>1, <2>2, <2>5, <2>6, <2>7, <1>2, <1>4, ServerSideKeeps DEF ConnTypes
<1>6. CASE Leaves
  <2>1. /\ k # NULL /\ ~IsLast
        /\ schan' = [schan EXCEPT ![a] = [phase |-> "REMOVED", connection |-> NULL]]
        /\ sconn' = [sconn EXCEPT ![k].channels = @ \ {a}]
        /\ UNCHANGED <<pending, terminating>>
    BY <1>6 DEF Leaves, Detach
  <2>2. schan' \in [Channels -> Channel]
    BY SMTT(90), <2>1, <1>2 DEF ConnTypes, Channel, Phases
  <2>3. sconn' \in [Conns -> ServerConnection]
    BY ZenonT(60), <2>1, <1>2 DEF ConnTypes, ServerConnection
  <2>4. /\ schan'[a].phase = "REMOVED" /\ schan'[a].connection = NULL
        /\ \A x \in Channels : x # a => schan'[x] = schan[x]
    BY <2>1, <1>2 DEF ConnTypes
  <2>5. /\ k \in Conns /\ sconn'[k].channels = sconn[k].channels \ {a}
        /\ \A d \in Conns : sconn'[d].state = sconn[d].state
        /\ \A d \in Conns : d # k => sconn'[d].channels = sconn[d].channels
    BY <2>1, <1>2, <1>3 DEF ConnTypes, ServerConnection
  <2>6. schan[a].connection = k /\ schan[a].phase = "UP" /\ UNCHANGED <<pending, terminating>>
    BY <2>1, <1>4
  <2>7. ~(sconn[k].channels = {a} /\ sconn[k].state = "CLOSED")
    BY ZenonT(60), <2>1
  <2> HIDE DEF k
  <2>8. Owned(schan', sconn')
    BY SMTT(90), <1>2, <2>4, <2>5, <2>6, OwnedDetach
  <2>9. a \in sconn[k].channels
    BY <1>2, <2>5, <2>6 DEF Owned
  <2>10. ASSUME NEW d \in Conns PROVE ServerConn(d)'
    <3>1. ServerConn(d)
      BY ZenonT(60), <1>2 DEF ServerConns
    <3>2. CASE d = k
      <4>1. sconn[k].state = "CLOSED" => sconn'[k].channels # {}
        BY ZenonT(60), <2>5, <2>7, <2>9
      <4>2. sconn'[k].channels # {} => \E ch \in Channels : schan'[ch].connection = k
        BY SMTT(90), <2>3, <2>5, <2>8 DEF Owned, ServerConnection
      <4>3. sconn[k].channels = {} => sconn'[k].channels = {}
        BY ZenonT(60), <2>5
      <4> QED
        BY ZenonT(60), <3>1, <3>2, <4>1, <4>2, <4>3, <1>4, <2>5, <2>6 DEF ServerConn
    <3>3. CASE d # k
      <4>1. \A x \in Channels : schan[x].connection = d => schan'[x].connection = d
        BY ZenonT(60), <3>3, <2>4, <2>6
      <4> QED
        BY ZenonT(60), <3>1, <3>3, <4>1, <1>4, <2>5, <2>6 DEF ServerConn
    <3> QED
      BY <3>2, <3>3
  <2>11. Pending'
    BY <1>2, <2>4, <2>5, <2>6, NullNoConnection DEF Pending, ConnTypes
  <2>12. \A d \in Conns : sconn[d].state = "NONE" => sconn'[d].state = "NONE"
    BY ZenonT(60), <2>5
  <2> QED
    BY ZenonT(60), <2>2, <2>3, <2>6, <2>8, <2>10, <2>11, <2>12, <1>2, <1>4, ServerSideKeeps
       DEF ConnTypes, ServerConns
<1>7. CASE TakesOver
  <2>1. /\ k # NULL /\ IsLast
        /\ schan' = [schan EXCEPT ![a].phase = "REMOVED"]
        /\ sconn' = [sconn EXCEPT ![k].channels = {}]
        /\ terminating' = terminating \ {k} /\ pending' = pending
    BY <1>7 DEF TakesOver
  <2>2. schan' \in [Channels -> Channel]
    BY <2>1, <1>2 DEF ConnTypes, Channel, Phases
  <2>3. sconn' \in [Conns -> ServerConnection]
    BY ZenonT(60), <2>1, <1>2 DEF ConnTypes, ServerConnection
  <2>4. /\ schan'[a].phase = "REMOVED" /\ schan'[a].connection = schan[a].connection
        /\ \A x \in Channels : x # a => schan'[x] = schan[x]
    BY <2>1, <1>2 DEF ConnTypes, Channel
  <2>5. /\ k \in Conns /\ sconn'[k].channels = {}
        /\ \A d \in Conns : sconn'[d].state = sconn[d].state
        /\ \A d \in Conns : d # k => sconn'[d].channels = sconn[d].channels
    BY <2>1, <1>2, <1>3 DEF ConnTypes, ServerConnection
  <2>6. /\ schan[a].connection = k /\ schan[a].phase = "UP"
        /\ sconn[k].channels = {a} /\ sconn[k].state = "CLOSED"
        /\ pending' = pending /\ terminating' = terminating \ {k}
    BY <2>1, <1>4
  <2> HIDE DEF k
  <2>7. schan'[a].connection = k /\ sconn'[k].state = "CLOSED"
    BY ZenonT(60), <2>4, <2>5, <2>6
  <2>8. Owned(schan', sconn')
    BY SMTT(90), <1>2, <2>4, <2>5, <2>6, <2>7, OwnedTakeOver
  <2>9. ASSUME NEW d \in Conns PROVE ServerConn(d)'
    <3>1. ServerConn(d)
      BY ZenonT(60), <1>2 DEF ServerConns
    <3>2. \A x \in Channels : schan'[x].connection = schan[x].connection
      BY ZenonT(60), <2>4
    <3> QED
      BY <3>1, <3>2, <1>4, <2>5, <2>6, <2>7 DEF ServerConn
  <2>10. Pending'
    BY ZenonT(60), <1>2, <2>4, <2>5, <2>6, NullNoConnection DEF Pending, ConnTypes
  <2>11. \A d \in Conns : sconn[d].state = "NONE" => sconn'[d].state = "NONE"
    BY ZenonT(60), <2>5
  <2> QED
    BY ZenonT(60), <2>2, <2>3, <2>6, <2>8, <2>9, <2>10, <2>11, <1>2, <1>4, ServerSideKeeps
       DEF ConnTypes, ServerConns
<1> QED
  BY ZenonT(60), <1>1, <1>5, <1>6, <1>7

-----------------------------------------------------------------------------
(* Every step keeps the invariant.                                         *)

(* A step of either agent keeps the invariant, and so does the end of a    *)
(* call and the failure of a link.                                         *)
LEMMA NextKeeps == IInv /\ [Next]_vars => IInv'
<1> SUFFICES ASSUME IInv, [Next]_vars PROVE IInv'
  OBVIOUS
<1>1. ASSUME NEW ch \in Channels, mrcp_client_agent_channel_add(ch) PROVE IInv'
  BY <1>1, ClientAddKeeps
<1>2. ASSUME NEW ch \in Channels, mrcp_client_agent_channel_modify(ch) PROVE IInv'
  BY <1>2, ClientModifyKeeps
<1>3. ASSUME NEW ch \in Channels, mrcp_client_agent_channel_remove(ch) PROVE IInv'
  BY <1>3, ClientRemoveKeeps
<1>4. ASSUME NEW ch \in Channels, mrcp_client_control_channel_destroy(ch) PROVE IInv'
  BY ZenonT(60), <1>4, ClientDestroyKeeps
<1>5. ASSUME NEW ch \in Channels, mrcp_client_agent_messsage_send(ch) PROVE IInv'
  BY <1>5, StutterKeeps
     DEF mrcp_client_agent_messsage_send, serverVars, clientSide, serverSide
<1>6. ASSUME NEW ch \in Channels, mrcp_client_timer_proc(ch) PROVE IInv'
  BY SMTT(90), <1>6, StutterKeeps DEF mrcp_client_timer_proc, serverVars, clientSide, serverSide
<1>7. ASSUME NEW c \in Conns, mrcp_client_poller_signal_process(c) PROVE IInv'
  BY ZenonT(60), <1>7, StutterKeeps
     DEF mrcp_client_poller_signal_process, serverVars, clientSide, serverSide
<1>8. ASSUME NEW c \in Conns, mrcp_client_agent_disconnect_raise(c) PROVE IInv'
  BY <1>8, ClientDisconnectKeeps
<1>9. ASSUME NEW ch \in Channels, mrcp_server_agent_channel_add(ch) PROVE IInv'
  BY <1>9, ServerAddKeeps
<1>10. ASSUME NEW ch \in Channels, mrcp_server_agent_channel_remove(ch) PROVE IInv'
  BY <1>10, ServerRemoveKeeps
<1>11. ASSUME NEW ch \in Channels, mrcp_server_control_channel_destroy(ch) PROVE IInv'
  BY ZenonT(60), <1>11, ServerDestroyKeeps
<1>12. ASSUME NEW ch \in Channels, mrcp_server_agent_messsage_send(ch) PROVE IInv'
  BY <1>12, StutterKeeps
     DEF mrcp_server_agent_messsage_send, clientVars, clientSide, serverSide
<1>13. ASSUME NEW c \in Conns, mrcp_server_agent_connection_accept(c) PROVE IInv'
  BY <1>13, ServerAcceptKeeps
<1>14. ASSUME NEW c \in Conns, mrcp_server_message_handler(c) PROVE IInv'
  BY SMTT(90), <1>14, ServerMessageKeeps
<1>15. ASSUME NEW c \in Conns, mrcp_server_peer_disconnected(c) PROVE IInv'
  BY ZenonT(60), <1>15, ServerCloseKeeps DEF mrcp_server_peer_disconnected, clientVars, clientSide
<1>16. ASSUME NEW c \in Conns, mrcp_server_inactivity_timer_proc(c) PROVE IInv'
  BY ZenonT(60), <1>16, ServerCloseKeeps
     DEF mrcp_server_inactivity_timer_proc, clientVars, clientSide
<1>17. ASSUME NEW c \in Conns, mrcp_server_termination_timer_proc(c) PROVE IInv'
  BY ZenonT(60), <1>17, ServerTerminationKeeps
<1>18. ASSUME NEW ch \in Channels, CallEnds(ch) PROVE IInv'
  BY ZenonT(60), <1>18, StutterKeeps DEF CallEnds, clientVars, serverVars, clientSide, serverSide
<1>19. ASSUME NEW c \in Conns, LinkFails(c) PROVE IInv'
  BY <1>19, StutterKeeps DEF LinkFails, clientVars, serverVars, clientSide, serverSide
<1>20. CASE UNCHANGED vars
  BY <1>20, StutterKeeps DEF vars, clientVars, serverVars, clientSide, serverSide
<1> QED
  BY ZenonT(60), <1>1, <1>2, <1>3, <1>4, <1>5, <1>6, <1>7, <1>8, <1>9, <1>10, <1>11, <1>12,
     <1>13, <1>14, <1>15, <1>16, <1>17, <1>18, <1>19, <1>20
     DEF Next, ClientAgent, ServerAgent

(* The invariant holds in every reachable state.                           *)
THEOREM OwnershipInvariant == Spec => []IInv
BY InitEstablishes, NextKeeps, PTL DEF Spec

(* No agent and no timer reaches a connection that a session has destroyed *)
(* (mrcp_connection_destroy in mrcp_*_control_channel_destroy), for any    *)
(* number of channels, connections and requests.                           *)
THEOREM NoUseAfterDestroyInvariant == Spec => []NoUseAfterDestroy
<1>1. IInv => NoUseAfterDestroy
  <2> SUFFICES ASSUME IInv, NEW c \in Conns
               PROVE  /\ cconn[c].state = "DESTROYED" =>
                            /\ c \notin clist /\ cconn[c].channels = {}
                            /\ \A ch \in Channels : cchan[ch].connection # c
                      /\ sconn[c].state = "DESTROYED" =>
                            /\ c \notin slist /\ sconn[c].channels = {}
                            /\ \A ch \in Channels : schan[ch].connection # c
                            /\ c \notin terminating
    BY DEF NoUseAfterDestroy
  <2>1. Owned(cchan, cconn) /\ Owned(schan, sconn)
    BY DEF IInv
  <2>2. ClientConn(c) /\ ServerConn(c)
    BY ZenonT(60) DEF IInv, ClientConns, ServerConns
  <2>3. CASE cconn[c].state = "DESTROYED"
    <3>1. c \notin clist /\ cconn[c].channels = {}
      BY ZenonT(60), <2>2, <2>3 DEF ClientConn
    <3>2. \A ch \in Channels : cchan[ch].connection # c
      BY SMTT(90), <2>1, <2>3, <3>1, NullNoConnection DEF Owned
    <3> QED
      BY SMTT(90), <2>1, <3>1, <3>2, <2>2, NullNoConnection DEF Owned, ServerConn
  <2>4. CASE cconn[c].state # "DESTROYED"
    BY <2>1, <2>2, <2>4, NullNoConnection DEF Owned, ServerConn
  <2> QED
    BY ZenonT(60), <2>3, <2>4
<1> QED
  BY <1>1, OwnershipInvariant, PTL

(* A connection that is not destroyed is known to somebody who will        *)
(* destroy it, on either side.                                             *)
THEOREM NoLeakInvariant == Spec => []NoLeak
<1>1. IInv => NoLeak
  BY DEF IInv, ClientConns, ClientConn, ServerConns, ServerConn, NoLeak
<1> QED
  BY <1>1, OwnershipInvariant, PTL

=============================================================================
