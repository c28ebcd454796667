---------------------------- MODULE Connections ----------------------------
(***************************************************************************)
(* The connections of all protocols (ActiveConnections in common.go) and   *)
(* the servers that use them: the SSH server with its channels, the FTP    *)
(* server and, as one, the per-request servers (WebDAV and the web         *)
(* client).  They share the counter of network connections, the list of    *)
(* sessions, the limits on both, the check for idle clients and the        *)
(* disconnection of a user by the administrator.                           *)
(*                                                                         *)
(* A network connection is used once and stands for its address too.       *)
(* Every call that takes the lock of ActiveConnections, or one of its      *)
(* atomic counters, is a step.  Ages count time units since the last       *)
(* activity.  Sockets close for many reasons; the server notices later.    *)
(***************************************************************************)
EXTENDS Integers, FiniteSets, SequencesExt

CONSTANTS
  Conns,      \* network connections
  Users,
  Configs     \* configurations of the server, with bounds on the clients

\* A limit or timeout of 0 means none.  The last six fields are bounds of the
\* model.
Config == [
  maxTotal : Nat,             \* max_total_connections
  maxSessions : Nat,          \* max_sessions of the users
  idleTimeout : Nat,          \* idle_timeout
  idleLoginTimeout : Nat,
  protocols : SUBSET {"SSH", "FTP", "DAV"},
  conns : SUBSET Conns,       \* the clients that come
  maxChannels : Nat,          \* channels of an SSH connection
  maxRequests : Nat,          \* requests of a channel
  maxLogins : Nat,            \* logins in progress at a time
  maxAge : Nat,
  maxVersion : Nat]           \* updates of a user

ASSUME ConnectionsAssumption ==
  IsFiniteSet(Conns) /\ Configs \subseteq Config

NoUser == "no user"
NoProto == "none"
Channels == 1..Max({c.maxChannels : c \in Configs} \cup {1})

VARIABLES
  config,
  networkConnections,     \* the counter
  connections,            \* the list of sessions
  sshConnections,
  pc, proto, user, ver,   \* of a network connection: progress, protocol, login
  open,                   \* its socket
  sshAge,                 \* time since an SSH connection opened a channel
  channel,                \* the channels of the SSH connections
  deferred,               \* what is left of checkIdles, last call first
  last,                   \* the connection of its loop variable
  version,                \* current settings of each user
  enforced,               \* settings of the last update that disconnected
  closing                 \* what is left of disconnectUser

listVars == <<networkConnections, connections, sshConnections>>
connVars == <<pc, proto, user, ver, open>>
channelVars == <<sshAge, channel>>
idleVars == <<deferred, last>>
adminVars == <<version, enforced, closing>>
vars == <<config, listVars, connVars, channelVars, idleVars, adminVars>>

\* Progress: counted by AddNetworkConnection; below the limit when the counter
\* was read; allowed; logging in; in service; on the way out.
Stages == {"none", "counted", "below", "allowed", "checked", "ready", "leaving", "gone"}

\* A session: FTP connections and requests are channel 0 of their connection.
Id == Conns \X (Channels \cup {0})
Session == [id : Id, user : Users \cup {NoUser}, ver : Nat, age : Nat]
Closure == [id : Id, isSSH : BOOLEAN, noAuth : BOOLEAN]
Channel == [state : {"new", "open", "closed"}, pending : Nat, serving : Nat]
NoClosing == [stage |-> "none", user |-> NoUser, ids |-> <<>>]

TypeOK ==
  /\ config \in Configs
  /\ networkConnections \in Nat
  /\ connections \in Seq(Session)
  /\ sshConnections \subseteq Conns
  /\ pc \in [Conns -> Stages]
  /\ proto \in [Conns -> {"SSH", "FTP", "DAV", NoProto}]
  /\ user \in [Conns -> Users \cup {NoUser}]
  /\ ver \in [Conns -> Nat]
  /\ open \in [Conns -> BOOLEAN]
  /\ sshAge \in [Conns -> Nat]
  /\ channel \in [Conns -> [Channels -> Channel]]
  /\ deferred \in Seq(Closure)
  /\ version \in [Users -> Nat] /\ enforced \in [Users -> Nat]
  /\ closing \in [stage : {"none", "update", "close"}, user : Users \cup {NoUser}, ids : Seq(Id)]

Init ==
  /\ config \in Configs
  /\ networkConnections = 0
  /\ connections = <<>>
  /\ sshConnections = {}
  /\ pc = [k \in Conns |-> "none"]
  /\ proto = [k \in Conns |-> NoProto]
  /\ user = [k \in Conns |-> NoUser]
  /\ ver = [k \in Conns |-> 0]
  /\ open = [k \in Conns |-> FALSE]
  /\ sshAge = [k \in Conns |-> 0]
  /\ channel = [k \in Conns |->
       [n \in Channels |-> [state |-> "new", pending |-> 0, serving |-> 0]]]
  /\ deferred = <<>>
  /\ last = "none"
  /\ version = [u \in Users |-> 0]
  /\ enforced = [u \in Users |-> 0]
  /\ closing = NoClosing

-----------------------------------------------------------------------------
\* ActiveConnections: the list of sessions.

GetActiveSessions(u) == Cardinality({i \in DOMAIN connections : connections[i].user = u})

NewSession(id, u, v) == [id |-> id, user |-> u, ver |-> v, age |-> 0]

Add(s) == connections' = Append(connections, s)

Indices(id) == {i \in DOMAIN connections : connections[i].id = id}

\* Replaces the first session with the same id.
Swap(s) ==
  connections' = IF Indices(s.id) = {} THEN connections
                 ELSE [connections EXCEPT ![Min(Indices(s.id))] = s]

\* Mutant of RemoveSession: all sessions of the channel.
RemoveAllSessions(id) == connections' = SelectSeq(connections, LAMBDA s : s.id # id)

\* Removes the first session with this id; the last one takes its place.
RemoveSession(id) ==
  LET n == Len(connections)
      i == Min(Indices(id))
  IN  connections' = IF Indices(id) = {} THEN connections
                     ELSE [j \in 1..n - 1 |-> IF j = i THEN connections[n] ELSE connections[j]]

-----------------------------------------------------------------------------
\* A connection arrives and is admitted or refused.

Present == {k \in Conns : pc[k] \notin {"none", "gone"}}

\* AddNetworkConnection
AddNetworkConnection(k, p) ==
  /\ pc[k] = "none" /\ k \in config.conns
  /\ networkConnections' = networkConnections + 1
  /\ pc' = [pc EXCEPT ![k] = "counted"]
  /\ proto' = [proto EXCEPT ![k] = p]
  /\ open' = [open EXCEPT ![k] = TRUE]
  /\ UNCHANGED <<config, connections, sshConnections, user, ver, channelVars, idleVars, adminVars>>

Goto(k, stage) ==
  /\ pc' = [pc EXCEPT ![k] = stage]
  /\ UNCHANGED <<config, proto, user, ver, open, channelVars, idleVars, adminVars>>

\* Mutant of ReadCounter: the counter may be one above the limit.
ReadCounterOver(k) ==
  /\ pc[k] = "counted"
  /\ Goto(k, IF config.maxTotal = 0 THEN "allowed"
             ELSE IF networkConnections > config.maxTotal + 1 THEN "leaving"
             ELSE "below")
  /\ UNCHANGED listVars

\* IsNewConnectionAllowed up to the lock.
ReadCounter(k) ==
  /\ pc[k] = "counted"
  /\ Goto(k, IF config.maxTotal = 0 THEN "allowed"
             ELSE IF networkConnections > config.maxTotal THEN "leaving"
             ELSE "below")
  /\ UNCHANGED listVars

\* The rest of IsNewConnectionAllowed.
CheckEstablished(k) ==
  /\ pc[k] = "below"
  /\ Goto(k, IF Len(connections) < config.maxTotal THEN "allowed" ELSE "leaving")
  /\ UNCHANGED listVars

\* Mutant of Refuse: the connection is taken off the counter here too.
RefuseUncounted(k) ==
  /\ pc[k] \in {"counted", "allowed"} \/ (pc[k] = "checked" /\ proto[k] # "FTP")
  /\ Goto(k, "leaving")
  /\ networkConnections' = networkConnections - 1
  /\ UNCHANGED <<connections, sshConnections>>

\* Refused by the defender, a rate limiter or the post connect hook, a failed
\* authentication or one that does not end before its deadline.
Refuse(k) ==
  /\ pc[k] \in {"counted", "allowed"} \/ (pc[k] = "checked" /\ proto[k] # "FTP")
  /\ Goto(k, "leaving")
  /\ UNCHANGED listVars

\* ClientConnected adds a session without a user.
ClientConnected(k) ==
  /\ pc[k] = "allowed" /\ proto[k] = "FTP"
  /\ Add(NewSession(<<k, 0>>, NoUser, 0))
  /\ Goto(k, "ready")
  /\ UNCHANGED <<networkConnections, sshConnections>>

-----------------------------------------------------------------------------
\* Logins.  The user is read from the provider, then the sessions are counted.

LoggingIn == {k \in Conns : pc[k] = "checked"}

\* Mutant of HasSession: one more than max_sessions.
HasSessionOver(u) == config.maxSessions > 0 => GetActiveSessions(u) <= config.maxSessions

\* The check of max_sessions.
HasSession(u) == config.maxSessions > 0 => GetActiveSessions(u) < config.maxSessions

\* loginUser, and validateUser of the FTP and WebDAV servers.  A second login
\* on an FTP connection is left out.
Login(k, u) ==
  /\ \/ pc[k] = "allowed" /\ proto[k] # "FTP"
     \/ pc[k] = "ready" /\ proto[k] = "FTP" /\ user[k] = NoUser
  /\ open[k] /\ Cardinality(LoggingIn) < config.maxLogins
  /\ HasSession(u)
  /\ pc' = [pc EXCEPT ![k] = "checked"]
  /\ user' = [user EXCEPT ![k] = u]
  /\ ver' = [ver EXCEPT ![k] = version[u]]
  /\ UNCHANGED <<config, listVars, proto, open, channelVars, idleVars, adminVars>>

\* AuthUser after the checks.
AuthUser(k) ==
  /\ pc[k] = "checked" /\ proto[k] = "FTP"
  /\ Swap(NewSession(<<k, 0>>, user[k], ver[k]))
  /\ Goto(k, "ready")
  /\ UNCHANGED <<networkConnections, sshConnections>>

\* AuthUser fails after the checks: the client may try again.
AuthFails(k) ==
  /\ pc[k] = "checked" /\ proto[k] = "FTP"
  /\ pc' = [pc EXCEPT ![k] = "ready"]
  /\ user' = [user EXCEPT ![k] = NoUser]
  /\ UNCHANGED <<config, listVars, proto, ver, open, channelVars, idleVars, adminVars>>

\* AcceptInboundConnection after the handshake.
AddSSHConnection(k) ==
  /\ pc[k] = "checked" /\ proto[k] = "SSH"
  /\ sshConnections' = sshConnections \cup {k}
  /\ sshAge' = [sshAge EXCEPT ![k] = 0]
  /\ pc' = [pc EXCEPT ![k] = "ready"]
  /\ UNCHANGED <<config, networkConnections, connections, proto, user, ver, open, channel,
                 idleVars, adminVars>>

\* ServeHTTP and handleClientGetFiles after the checks.
ServeHTTP(k) ==
  /\ pc[k] = "checked" /\ proto[k] = "DAV"
  /\ Add(NewSession(<<k, 0>>, user[k], ver[k]))
  /\ Goto(k, "ready")
  /\ UNCHANGED <<networkConnections, sshConnections>>

-----------------------------------------------------------------------------
\* The channels of an SSH connection.

OpenChannel(k, n) ==
  /\ pc[k] = "ready" /\ proto[k] = "SSH" /\ open[k] /\ n <= config.maxChannels
  /\ channel[k][n].state = "new" /\ \A m \in 1..n - 1 : channel[k][m].state # "new"
  /\ channel' = [channel EXCEPT ![k][n].state = "open"]
  /\ sshAge' = [sshAge EXCEPT ![k] = 0]
  /\ UNCHANGED <<config, listVars, connVars, idleVars, adminVars>>

\* A subsystem or exec request starts a goroutine.
ChannelRequest(k, n) ==
  /\ channel[k][n].state = "open" /\ open[k]
  /\ channel[k][n].pending + channel[k][n].serving < config.maxRequests
  /\ channel' = [channel EXCEPT ![k][n].pending = @ + 1]
  /\ UNCHANGED <<config, listVars, connVars, sshAge, idleVars, adminVars>>

\* handleSftpConnection and the handle methods of SSH commands, which Add a
\* session of the user who logged in and Remove it when they return.
ServeChannel(k, n) ==
  /\ channel[k][n].pending > 0
  /\ channel' = [channel EXCEPT ![k][n].pending = @ - 1, ![k][n].serving = @ + 1]
  /\ Add(NewSession(<<k, n>>, user[k], ver[k]))
  /\ UNCHANGED <<config, networkConnections, sshConnections, connVars, sshAge, idleVars, adminVars>>

EndChannel(k, n) ==
  /\ channel[k][n].serving > 0 /\ ~(channel[k][n].state = "open" /\ open[k])
  /\ channel' = [channel EXCEPT ![k][n].serving = @ - 1]
  /\ RemoveSession(<<k, n>>)
  /\ UNCHANGED <<config, networkConnections, sshConnections, connVars, sshAge, idleVars, adminVars>>

\* The client closes a channel, or its command ends.
CloseChannel(k, n) ==
  /\ channel[k][n].state = "open"
  /\ channel' = [channel EXCEPT ![k][n].state = "closed"]
  /\ UNCHANGED <<config, listVars, connVars, sshAge, idleVars, adminVars>>

-----------------------------------------------------------------------------
\* The end of a connection.

\* The client goes away, the network fails, or the request is done.
CloseSocket(k) ==
  /\ open[k]
  /\ open' = [open EXCEPT ![k] = FALSE]
  /\ UNCHANGED <<config, listVars, pc, proto, user, ver, channelVars, idleVars, adminVars>>

\* The channels of the connection are exhausted: RemoveSSHConnection.
RemoveSSHConnection(k) ==
  /\ pc[k] = "ready" /\ proto[k] = "SSH" /\ ~open[k]
  /\ sshConnections' = sshConnections \ {k}
  /\ Goto(k, "leaving")
  /\ UNCHANGED <<networkConnections, connections>>

\* Mutant of ClientDisconnected: the session is removed if the user logged in.
ClientDisconnectedLoggedIn(k) ==
  /\ pc[k] = "ready" /\ proto[k] # "SSH" /\ ~open[k]
  /\ IF user[k] = NoUser THEN UNCHANGED connections ELSE RemoveSession(<<k, 0>>)
  /\ Goto(k, "leaving")
  /\ UNCHANGED <<networkConnections, sshConnections>>

\* ClientDisconnected, and the end of a request: Remove.
ClientDisconnected(k) ==
  /\ pc[k] = "ready" /\ proto[k] # "SSH" /\ ~open[k]
  /\ RemoveSession(<<k, 0>>)
  /\ Goto(k, "leaving")
  /\ UNCHANGED <<networkConnections, sshConnections>>

\* Mutant of RemoveNetworkConnection: only connections that logged in.
RemoveNetworkConnectionLoggedIn(k) ==
  /\ pc[k] = "leaving"
  /\ networkConnections' = IF user[k] # NoUser THEN networkConnections - 1 ELSE networkConnections
  /\ pc' = [pc EXCEPT ![k] = "gone"]
  /\ open' = [open EXCEPT ![k] = FALSE]
  /\ UNCHANGED <<config, connections, sshConnections, proto, user, ver, channelVars, idleVars,
                 adminVars>>

RemoveNetworkConnection(k) ==
  /\ pc[k] = "leaving"
  /\ networkConnections' = networkConnections - 1
  /\ pc' = [pc EXCEPT ![k] = "gone"]
  /\ open' = [open EXCEPT ![k] = FALSE]
  /\ UNCHANGED <<config, connections, sshConnections, proto, user, ver, channelVars, idleVars,
                 adminVars>>

-----------------------------------------------------------------------------
\* Idle clients.

Older(age) == IF age < config.maxAge THEN age + 1 ELSE age

Tick ==
  /\ sshAge' = [k \in Conns |-> IF k \in sshConnections THEN Older(sshAge[k]) ELSE sshAge[k]]
  /\ connections' = [i \in DOMAIN connections |->
                       [connections[i] EXCEPT !.age = Older(@)]]
  /\ UNCHANGED <<config, networkConnections, sshConnections, connVars, channel, idleVars, adminVars>>

\* UpdateLastActivity, in most operations of a session.
UpdateLastActivity(i) ==
  /\ connections[i].age > 0
  /\ connections' = [connections EXCEPT ![i].age = 0]
  /\ UNCHANGED <<config, networkConnections, sshConnections, connVars, channelVars, idleVars,
                 adminVars>>

IsNoAuth(s) == proto[s.id[1]] = "FTP" /\ s.user = NoUser

IsIdle(s) ==
  s.age > config.idleTimeout \/ (IsNoAuth(s) /\ s.age > config.idleLoginTimeout)

\* SSH connections without a session.
IdleSSH ==
  {k \in sshConnections : sshAge[k] > config.idleTimeout
                          /\ \A i \in DOMAIN connections : connections[i].id[1] # k}

\* checkIdles under its lock.  The deferred calls run in reverse order, those
\* for SSH connections last; the loop variable keeps the last session.
CheckIdles ==
  LET idle == SelectSeq(connections, IsIdle)
      calls == [i \in DOMAIN idle |->
                  [id |-> idle[i].id, isSSH |-> FALSE, noAuth |-> IsNoAuth(idle[i])]]
      sshCalls == {[id |-> <<k, 0>>, isSSH |-> TRUE, noAuth |-> FALSE] : k \in IdleSSH}
  IN  /\ config.idleTimeout > 0 /\ deferred = <<>>
      /\ \E s \in SetToSeqs(sshCalls) : deferred' = Reverse(calls) \o s
      /\ last' = IF calls = <<>> THEN "none" ELSE Last(connections).id[1]
      /\ UNCHANGED <<config, listVars, connVars, channelVars, adminVars>>

\* The host that a deferred call reports for HostEventNoLoginTried.
NoLoginHost(d) == last


\* Disconnect of a session: the channel of an SSH connection, the socket of an
\* FTP client.  For a request it aborts the transfers, if there are any.
Disconnect(id) ==
  LET k == id[1]
      n == id[2]
  IN  \/ /\ n # 0
         /\ channel' = [channel EXCEPT ![k][n].state = "closed"]
         /\ UNCHANGED open
      \/ /\ n = 0
         /\ open' = [open EXCEPT ![k] = FALSE]
         /\ UNCHANGED channel
      \/ /\ n = 0 /\ proto[k] = "DAV"
         /\ UNCHANGED <<open, channel>>

\* Mutant of RunDeferred: SSH connections are not closed.
RunDeferredSessions ==
  /\ deferred # <<>>
  /\ IF Head(deferred).isSSH THEN UNCHANGED <<open, channel>> ELSE Disconnect(Head(deferred).id)
  /\ deferred' = Tail(deferred)
  /\ last' = IF Len(deferred) = 1 THEN "none" ELSE last
  /\ UNCHANGED <<config, listVars, pc, proto, user, ver, sshAge, adminVars>>

\* One of the deferred calls of checkIdles.
RunDeferred ==
  /\ deferred # <<>>
  /\ LET d == Head(deferred)
     IN  IF d.isSSH THEN open' = [open EXCEPT ![d.id[1]] = FALSE] /\ UNCHANGED channel
         ELSE Disconnect(d.id)
  /\ deferred' = Tail(deferred)
  /\ last' = IF Len(deferred) = 1 THEN "none" ELSE last
  /\ UNCHANGED <<config, listVars, pc, proto, user, ver, sshAge, adminVars>>

-----------------------------------------------------------------------------
\* The administrator updates a user and disconnects the sessions.

\* updateUser with disconnect, up to the snapshot of GetStats.
UpdateUser(u) ==
  /\ closing = NoClosing /\ version[u] < config.maxVersion
  /\ version' = [version EXCEPT ![u] = @ + 1]
  /\ closing' = [stage |-> "update", user |-> u, ids |-> <<>>]
  /\ UNCHANGED <<config, listVars, connVars, channelVars, idleVars, enforced>>

\* disconnectUser reads the sessions of the user ...
DisconnectUser ==
  /\ closing.stage = "update"
  /\ LET s == SelectSeq(connections, LAMBDA c : c.user = closing.user)
     IN  closing' = [closing EXCEPT !.stage = "close", !.ids = [i \in DOMAIN s |-> s[i].id]]
  /\ UNCHANGED <<config, listVars, connVars, channelVars, idleVars, version, enforced>>

\* ... closes each of them that is still there ...
Close ==
  /\ closing.ids # <<>>
  /\ LET id == Head(closing.ids)
     IN  IF Indices(id) = {} THEN UNCHANGED <<open, channel>> ELSE Disconnect(id)
  /\ closing' = [closing EXCEPT !.ids = Tail(@)]
  /\ UNCHANGED <<config, listVars, pc, proto, user, ver, sshAge, idleVars, version, enforced>>

\* ... and returns.
DisconnectDone ==
  /\ closing.stage = "close" /\ closing.ids = <<>>
  /\ closing' = NoClosing
  /\ enforced' = [enforced EXCEPT ![closing.user] = version[closing.user]]
  /\ UNCHANGED <<config, listVars, connVars, channelVars, idleVars, version>>

-----------------------------------------------------------------------------
\* What the server does with a connection by itself.
Serve(k) ==
  \/ ReadCounter(k)
  \/ CheckEstablished(k)
  \/ Refuse(k)
  \/ ClientConnected(k)
  \/ AuthUser(k)
  \/ AuthFails(k)
  \/ AddSSHConnection(k)
  \/ ServeHTTP(k)
  \/ RemoveSSHConnection(k)
  \/ ClientDisconnected(k)
  \/ RemoveNetworkConnection(k)

Next ==
  \/ \E k \in Conns, p \in config.protocols : AddNetworkConnection(k, p)
  \/ \E k \in Conns : Serve(k)
  \/ \E k \in Conns, u \in Users : Login(k, u)
  \/ \E k \in Conns, n \in Channels : OpenChannel(k, n)
  \/ \E k \in Conns, n \in Channels : ChannelRequest(k, n)
  \/ \E k \in Conns, n \in Channels : ServeChannel(k, n)
  \/ \E k \in Conns, n \in Channels : EndChannel(k, n)
  \/ \E k \in Conns, n \in Channels : CloseChannel(k, n)
  \/ \E k \in Conns : CloseSocket(k)
  \/ Tick
  \/ \E i \in DOMAIN connections : UpdateLastActivity(i)
  \/ CheckIdles
  \/ RunDeferred
  \/ \E u \in Users : UpdateUser(u)
  \/ DisconnectUser
  \/ Close
  \/ DisconnectDone

Spec == Init /\ [][Next]_vars

\* The goroutines of the server run, the ticker fires, and a handshake ends
\* before its deadline.  Nothing is assumed of the clients.
Fairness ==
  /\ \A k \in Conns : WF_vars(Serve(k))
  /\ \A k \in Conns, n \in Channels : WF_vars(ServeChannel(k, n)) /\ WF_vars(EndChannel(k, n))
  /\ WF_vars(CheckIdles) /\ WF_vars(RunDeferred)
  /\ WF_vars(DisconnectUser) /\ WF_vars(Close) /\ WF_vars(DisconnectDone)

FairSpec == Spec /\ Fairness

-----------------------------------------------------------------------------
\* Properties.

Admitted == {k \in Conns : pc[k] \in {"allowed", "checked", "ready"}}

\* The counter of network connections is exact on every path out of the three
\* servers: a connection that was refused, failed to log in or was closed by
\* the server is not counted for ever, and none is taken off twice.
CounterExact == networkConnections = Cardinality(Present)

\* IsNewConnectionAllowed reads the counter and the list of sessions in two
\* steps, other connections arriving, starting sessions and leaving in
\* between, and still never lets more than max_total_connections in at a time.
AdmittedWithinLimit == config.maxTotal > 0 => Cardinality(Admitted) <= config.maxTotal

Listed(k, n) ==
  IF n > 0 THEN channel[k][n].serving
  ELSE IF \/ proto[k] = "FTP" /\ pc[k] \in {"ready", "checked"}
          \/ proto[k] = "DAV" /\ pc[k] = "ready"
       THEN 1 ELSE 0

\* The list holds the sessions being served, neither more nor fewer, each with
\* the user who logged in: although Add, Swap and Remove find a session by an
\* id that the requests of one SSH channel share.
SessionsListed ==
  /\ \A id \in Id : Cardinality(Indices(id)) = Listed(id[1], id[2])
  /\ \A i \in DOMAIN connections :
       LET k == connections[i].id[1]
       IN  connections[i].user =
             IF proto[k] = "FTP" /\ pc[k] = "checked" THEN NoUser ELSE user[k]

\* The sessions of a user over FTP, WebDAV and HTTP are counted at login and
\* listed later, so logins in progress can exceed max_sessions, by fewer than
\* their number.
SessionsBounded ==
  config.maxSessions > 0 =>
    \A u \in Users :
      Cardinality({i \in DOMAIN connections : connections[i].user = u
                                              /\ proto[connections[i].id[1]] # "SSH"})
        <= config.maxSessions + config.maxLogins - 1

IdleSession(k, n) ==
  /\ config.idleTimeout > 0 /\ proto[k] # "DAV"
  /\ \E i \in Indices(<<k, n>>) : IsIdle(connections[i])


\* The same for an SSH connection that has no session left.
IdleSSHEnd ==
  \A k \in Conns : (config.idleTimeout > 0 /\ k \in IdleSSH) ~> k \notin IdleSSH

\* Whoever closes the socket, and wherever the server is with it, the
\* connection is taken off the counter and its sessions off the list.
ClosedIsForgotten ==
  \A k \in Conns :
    (k \in Present /\ ~open[k]) ~>
      (pc[k] = "gone" /\ \A i \in DOMAIN connections : connections[i].id[1] # k)


-----------------------------------------------------------------------------
\* What the documentation says and the code does not do.

\* "The user will be disconnected after a successful update.  It must login
\* again and so it will be forced to use the new configuration": after
\* disconnectUser no session starts with older settings.
UpdateForcesLogin ==
  [][\A k \in Conns :
       (AuthUser(k) \/ ServeHTTP(k) \/ \E n \in Channels : ServeChannel(k, n))
         => ver[k] >= enforced[user[k]]]_vars

\* The event for a client that did not try to log in is given to the address
\* of the session that checkIdles disconnects.
NoLoginEventForIdleHost ==
  deferred # <<>> /\ Head(deferred).noAuth => NoLoginHost(Head(deferred)) = Head(deferred).id[1]
=============================================================================
