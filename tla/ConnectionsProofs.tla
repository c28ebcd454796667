-------------------------- MODULE ConnectionsProofs --------------------------
(***************************************************************************)
(* The counter of network connections is exact, and the number of clients  *)
(* that IsNewConnectionAllowed has let in stays within                     *)
(* max_total_connections, for any number of clients, sessions and users.   *)
(***************************************************************************)
EXTENDS Connections, FiniteSetTheorems, TLAPS

\* Connections that have passed the first half of IsNewConnectionAllowed.
Passed == {k \in Conns : pc[k] \in {"below", "allowed", "checked", "ready"}}

PassedWithinLimit == config.maxTotal > 0 => Cardinality(Passed) <= config.maxTotal

\* The limit alone is not inductive: a client is let in after it has passed the
\* counter, which bounds the clients that are let in only because it is exact.
AdmissionInv ==
  /\ config \in Configs
  /\ pc \in [Conns -> Stages]
  /\ CounterExact
  /\ PassedWithinLimit

\* A step that leaves the counter, the configuration and the stages alone
\* (sessions, channels, ages, the idle check and the administrator).
Elsewhere == UNCHANGED <<config, networkConnections, pc>>

\* A connection moves on: it does not arrive, leave or pass the counter.
MovesOn(k) ==
  /\ pc[k] \in {"counted", "below", "allowed", "checked", "ready"}
  /\ \/ pc' = [pc EXCEPT ![k] = "leaving"]
     \/ /\ pc[k] \in Stages \ {"counted"} \/ config.maxTotal = 0
        /\ \/ pc' = [pc EXCEPT ![k] = "allowed"]
           \/ pc' = [pc EXCEPT ![k] = "checked"]
           \/ pc' = [pc EXCEPT ![k] = "ready"]
  /\ UNCHANGED <<config, networkConnections>>

\* Every step of the servers, the clients and the administrator is an arrival,
\* a departure, the reading of the counter, a move of one connection, or does
\* not concern the counter.
LEMMA StepKinds ==
  ASSUME Next
  PROVE  \/ \E k \in Conns, p \in config.protocols : AddNetworkConnection(k, p)
         \/ \E k \in Conns : ReadCounter(k)
         \/ \E k \in Conns : RemoveNetworkConnection(k)
         \/ \E k \in Conns : MovesOn(k)
         \/ Elsewhere
<1> USE DEF listVars, connVars
<1>1. ASSUME NEW k \in Conns, Serve(k)
      PROVE  ReadCounter(k) \/ RemoveNetworkConnection(k) \/ MovesOn(k)
  <2>1. CASE CheckEstablished(k)
    BY <2>1 DEF CheckEstablished, Goto, MovesOn, Stages
  <2>2. CASE Refuse(k)
    BY <2>2 DEF Refuse, Goto, MovesOn, Stages
  <2>3. CASE ClientConnected(k)
    BY <2>3 DEF ClientConnected, Goto, MovesOn, Stages
  <2>4. CASE AuthUser(k)
    BY <2>4 DEF AuthUser, Goto, MovesOn, Stages
  <2>5. CASE AuthFails(k)
    BY <2>5 DEF AuthFails, MovesOn, Stages
  <2>6. CASE AddSSHConnection(k)
    BY <2>6 DEF AddSSHConnection, MovesOn, Stages
  <2>7. CASE ServeHTTP(k)
    BY <2>7 DEF ServeHTTP, Goto, MovesOn, Stages
  <2>8. CASE RemoveSSHConnection(k)
    BY <2>8 DEF RemoveSSHConnection, Goto, MovesOn
  <2>9. CASE ClientDisconnected(k)
    BY <2>9 DEF ClientDisconnected, Goto, MovesOn
  <2> QED
    BY <1>1, <2>1, <2>2, <2>3, <2>4, <2>5, <2>6, <2>7, <2>8, <2>9 DEF Serve
<1>2. ASSUME NEW k \in Conns, NEW u \in Users, Login(k, u)
      PROVE  MovesOn(k)
  BY <1>2 DEF Login, MovesOn, Stages
<1>3. ASSUME NEW k \in Conns, NEW n \in Channels,
             \/ OpenChannel(k, n) \/ ChannelRequest(k, n) \/ ServeChannel(k, n)
             \/ EndChannel(k, n) \/ CloseChannel(k, n)
      PROVE  Elsewhere
  BY <1>3 DEF OpenChannel, ChannelRequest, ServeChannel, EndChannel, CloseChannel, Elsewhere
<1>4. ASSUME NEW k \in Conns, CloseSocket(k)
      PROVE  Elsewhere
  BY <1>4 DEF CloseSocket, Elsewhere
<1>5. ASSUME \/ Tick \/ CheckIdles \/ RunDeferred
             \/ \E i \in DOMAIN connections : UpdateLastActivity(i)
      PROVE  Elsewhere
  BY <1>5 DEF Tick, CheckIdles, RunDeferred, UpdateLastActivity, Elsewhere
<1>6. ASSUME \/ \E u \in Users : UpdateUser(u)
             \/ DisconnectUser \/ Close \/ DisconnectDone
      PROVE  Elsewhere
  BY <1>6 DEF UpdateUser, DisconnectUser, Close, DisconnectDone, Elsewhere
<1> QED
  BY <1>1, <1>2, <1>3, <1>4, <1>5, <1>6 DEF Next

\* Subsets of the connections are finite, and so is their number ordered.
LEMMA ConnSets ==
  ASSUME NEW S \in SUBSET Conns, NEW T \in SUBSET S
  PROVE  /\ IsFiniteSet(S)
         /\ Cardinality(S) \in Nat
         /\ Cardinality(T) \in Nat
         /\ Cardinality(T) <= Cardinality(S)
BY ConnectionsAssumption, FS_Subset, FS_CardinalityType

\* The limit of a configuration is a number.
LEMMA LimitType == ASSUME config \in Configs PROVE config.maxTotal \in Nat
BY ConnectionsAssumption DEF Config

LEMMA AdmissionInit == Init => AdmissionInv
<1> SUFFICES ASSUME Init PROVE AdmissionInv
  OBVIOUS
<1>1. config \in Configs /\ pc \in [Conns -> Stages]
  BY DEF Init, Stages
<1>2. Present = {} /\ Passed = {}
  BY DEF Init, Present, Passed
<1>3. CounterExact /\ PassedWithinLimit
  BY <1>1, <1>2, LimitType, FS_EmptySet DEF Init, CounterExact, PassedWithinLimit
<1> QED
  BY <1>1, <1>3 DEF AdmissionInv

LEMMA AdmissionNext == AdmissionInv /\ [Next]_vars => AdmissionInv'
<1> SUFFICES ASSUME AdmissionInv, [Next]_vars PROVE AdmissionInv'
  OBVIOUS
<1> USE DEF AdmissionInv
<1>t. config.maxTotal \in Nat
  BY LimitType
<1>s. Passed \subseteq Present /\ Present \subseteq Conns
  BY DEF Passed, Present
<1>1. ASSUME NEW k \in Conns, NEW p, AddNetworkConnection(k, p)
      PROVE  AdmissionInv'
  <2>1. config' = config /\ pc' \in [Conns -> Stages] /\ pc[k] = "none"
        /\ networkConnections' = networkConnections + 1 /\ pc' = [pc EXCEPT ![k] = "counted"]
    BY <1>1 DEF AddNetworkConnection, Stages
  <2>2. Present' = Present \cup {k} /\ k \notin Present /\ Passed' = Passed
    BY <2>1 DEF Present, Passed
  <2>3. Cardinality(Present') = Cardinality(Present) + 1
    BY <1>s, <2>2, ConnSets, FS_AddElement
  <2> QED
    BY <2>1, <2>2, <2>3 DEF CounterExact, PassedWithinLimit
<1>2. ASSUME NEW k \in Conns, ReadCounter(k)
      PROVE  AdmissionInv'
  <2>1. config' = config /\ pc[k] = "counted" /\ networkConnections' = networkConnections
        /\ pc' = [pc EXCEPT ![k] = IF config.maxTotal = 0 THEN "allowed"
                                   ELSE IF networkConnections > config.maxTotal THEN "leaving"
                                   ELSE "below"]
    BY <1>2 DEF ReadCounter, Goto, listVars
  <2>2. pc' \in [Conns -> Stages] /\ Present' = Present /\ Passed' \subseteq Present
    BY <2>1 DEF Stages, Present, Passed
  <2>3. PassedWithinLimit'
    <3>1. CASE config.maxTotal = 0
      BY <3>1, <2>1 DEF PassedWithinLimit
    <3>2. CASE networkConnections > config.maxTotal /\ config.maxTotal # 0
      <4>1. Passed' = Passed
        BY <3>2, <2>1 DEF Passed
      <4> QED
        BY <4>1, <2>1 DEF PassedWithinLimit
    <3>3. CASE ~(networkConnections > config.maxTotal)
      <4>1. Cardinality(Passed') \in Nat /\ Cardinality(Present) \in Nat
            /\ Cardinality(Passed') <= Cardinality(Present)
        BY <1>s, <2>2, ConnSets
      <4> QED
        BY <3>3, <4>1, <2>1, <1>t DEF CounterExact, PassedWithinLimit
    <3> QED
      BY <3>1, <3>2, <3>3
  <2> QED
    BY <2>1, <2>2, <2>3 DEF CounterExact
<1>3. ASSUME NEW k \in Conns, RemoveNetworkConnection(k)
      PROVE  AdmissionInv'
  <2>1. config' = config /\ pc[k] = "leaving" /\ pc' = [pc EXCEPT ![k] = "gone"]
        /\ networkConnections' = networkConnections - 1
    BY <1>3 DEF RemoveNetworkConnection
  <2>2. pc' \in [Conns -> Stages] /\ Present' = Present \ {k} /\ k \in Present /\ Passed' = Passed
    BY <2>1 DEF Stages, Present, Passed
  <2>3. Cardinality(Present') = Cardinality(Present) - 1
    BY <1>s, <2>2, ConnSets, FS_RemoveElement
  <2> QED
    BY <2>1, <2>2, <2>3 DEF CounterExact, PassedWithinLimit
<1>4. ASSUME NEW k \in Conns, MovesOn(k)
      PROVE  AdmissionInv'
  <2>1. config' = config /\ networkConnections' = networkConnections
        /\ pc' \in [Conns -> Stages] /\ Present' = Present
    BY <1>4 DEF MovesOn, Stages, Present
  <2>2. config.maxTotal = 0 \/ Passed' \subseteq Passed
    BY <1>4 DEF MovesOn, Stages, Passed
  <2>3. Passed \subseteq Conns
    BY DEF Passed
  <2>4. Passed' \subseteq Passed => /\ Cardinality(Passed') \in Nat /\ Cardinality(Passed) \in Nat
                                    /\ Cardinality(Passed') <= Cardinality(Passed)
    BY <2>3, ConnSets
  <2> QED
    BY <2>1, <2>2, <2>4, <1>t DEF CounterExact, PassedWithinLimit
<1>5. CASE Elsewhere
  BY <1>5 DEF Elsewhere, CounterExact, PassedWithinLimit, Present, Passed
<1>6. CASE UNCHANGED vars
  BY <1>6, <1>5 DEF vars, listVars, connVars, Elsewhere
<1> QED
  BY <1>1, <1>2, <1>3, <1>4, <1>5, <1>6, StepKinds

\* However many clients arrive, are refused, log in and leave at the same time,
\* the counter of network connections is the number of connections the servers
\* are busy with.
THEOREM CounterIsExact == Spec => []CounterExact
<1>1. AdmissionInv => CounterExact
  BY DEF AdmissionInv
<1> QED
  BY <1>1, AdmissionInit, AdmissionNext, PTL DEF Spec

\* IsNewConnectionAllowed, although it is not atomic, never lets more clients in
\* at a time than max_total_connections.
THEOREM AdmissionLimit == Spec => []AdmittedWithinLimit
<1>1. AdmissionInv => AdmittedWithinLimit
  <2> SUFFICES ASSUME AdmissionInv PROVE AdmittedWithinLimit
    OBVIOUS
  <2>1. Admitted \subseteq Passed /\ Passed \subseteq Conns
    BY DEF Admitted, Passed
  <2>2. /\ Cardinality(Admitted) \in Nat /\ Cardinality(Passed) \in Nat
        /\ Cardinality(Admitted) <= Cardinality(Passed)
    BY <2>1, ConnSets
  <2>3. config.maxTotal \in Nat
    BY LimitType DEF AdmissionInv
  <2> QED
    BY <2>2, <2>3 DEF AdmissionInv, PassedWithinLimit, AdmittedWithinLimit
<1> QED
  BY <1>1, AdmissionInit, AdmissionNext, PTL DEF Spec
=============================================================================
