--------------------------- MODULE DefenderProofs ---------------------------
(***************************************************************************)
(* The limits of the defender's two maps, for every set of hosts, every    *)
(* number of connections and every valid configuration.                    *)
(***************************************************************************)
EXTENDS Defender, FiniteSetTheorems, TLAPS

\* The part of TypeOK the limits rest on: the events of a host do not matter.
Typed ==
  /\ now \in Nat
  /\ DOMAIN hosts = IPs
  /\ banned \in [IPs -> Nat \cup {NoBan}]
  /\ conn \in [Conns -> ConnState]

\* The other connections while one of them is adding an event.
Others == Cardinality(Conns) - 1

\* The inductive invariant behind the two limits.
LimitsInv ==
  /\ Typed
  /\ HostsWithinHardLimit
  /\ BannedNearHardLimit

-----------------------------------------------------------------------------
\* Removing a subset takes away its cardinality.
LEMMA CardMinus ==
  ASSUME NEW S, IsFiniteSet(S), NEW T \in SUBSET S
  PROVE  /\ IsFiniteSet(T) /\ IsFiniteSet(S \ T)
         /\ Cardinality(S) \in Nat
         /\ Cardinality(T) \in Nat /\ Cardinality(S \ T) \in Nat
         /\ Cardinality(S \ T) = Cardinality(S) - Cardinality(T)
<1>1. IsFiniteSet(T) /\ Cardinality(T) \in Nat /\ Cardinality(S) \in Nat
  BY FS_Subset, FS_CardinalityType
<1>2. S \cap T = T
  OBVIOUS
<1>3. /\ IsFiniteSet(S \ T)
      /\ Cardinality(S \ T) = Cardinality(S) - Cardinality(S \cap T)
  BY FS_Difference
<1>4. Cardinality(S \ T) \in Nat
  BY <1>3, FS_CardinalityType
<1> QED BY <1>1, <1>2, <1>3, <1>4

\* What a sort-and-drop leaves: the hosts whose score is kept number exactly
\* the soft limit, or the map was within the hard limit and is untouched.
LEMMA CleanupHostsBound ==
  ASSUME NEW h, NEW r \in cleanupHosts(h)
  PROVE  /\ Cardinality(Tracked(r)) <= EntriesHardLimit
         /\ DOMAIN h = IPs => DOMAIN r = IPs
<1> DEFINE all == Tracked(h)
           n == Cardinality(all) - EntriesSoftLimit
<1> IsFiniteSet(all) /\ Cardinality(all) \in Nat
  BY FS_Subset, FS_CardinalityType, FiniteHostsAssumption DEF Tracked
<1>1. CASE Cardinality(all) <= EntriesHardLimit
  BY <1>1 DEF cleanupHosts
<1>2. CASE ~(Cardinality(all) <= EntriesHardLimit)
  <2> DEFINE last == [ip \in all |-> Last(h[ip]).dateTime]
  <2>1. PICK R \in Smallest(all, last, n) :
               r = [ip \in IPs |-> IF ip \in R THEN NoHost ELSE h[ip]]
    BY <1>2 DEF cleanupHosts
  <2>2. R \subseteq all /\ Cardinality(R) = n
    BY <2>1 DEF Smallest
  <2>3. Tracked(r) = all \ R
    BY <2>1, <2>2 DEF Tracked
  <2>4. Cardinality(all \ R) = Cardinality(all) - Cardinality(R)
    BY <2>2, CardMinus
  <2>5. Cardinality(Tracked(r)) = EntriesSoftLimit
    BY <2>2, <2>3, <2>4, validate
  <2>6. DOMAIN r = IPs
    BY <2>1
  <2> QED BY <2>5, <2>6, validate
<1> QED BY <1>1, <1>2

\* The arithmetic of cleanupBanned: A entries, L live and E expired, N of them
\* removed, limits S and H.
LEMMA CleanupArithmetic ==
  ASSUME NEW A \in Nat, NEW L \in Nat, NEW E \in Nat, NEW N \in Int,
         NEW S \in Nat, NEW H \in Nat, NEW k \in Nat,
         S < H, A = L + E, A <= H + 2 * k + 1, N = L - S
  PROVE  /\ N <= E => L <= H + k
         /\ E <= N => A - N <= H + k
OBVIOUS

\* What cleanupBanned leaves when the map has at most one entry more than
\* EntriesHardLimit + 2k: at most EntriesHardLimit + k.  Expired entries sort
\* before the others, so either they are all among the removed ones, or only
\* expired entries are removed.
LEMMA CleanupBannedBound ==
  ASSUME now \in Nat, NEW k \in Nat,
         NEW b \in [IPs -> Nat \cup {NoBan}],
         Cardinality(Banned(b)) <= EntriesHardLimit + 2 * k + 1,
         NEW r \in cleanupBanned(b)
  PROVE  /\ r \in [IPs -> Nat \cup {NoBan}]
         /\ Cardinality(Banned(r)) <= EntriesHardLimit + k
<1> DEFINE all == Banned(b)
           live == {ip \in all : b[ip] >= now}
           expired == all \ live
           n == Cardinality(live) - EntriesSoftLimit
           Keep(K) == [ip \in IPs |-> IF ip \in K THEN b[ip] ELSE NoBan]
<1>a. Cardinality(all) <= EntriesHardLimit + 2 * k + 1
  OBVIOUS
<1>f. /\ IsFiniteSet(all) /\ Cardinality(all) \in Nat
      /\ IsFiniteSet(live) /\ Cardinality(live) \in Nat
      /\ IsFiniteSet(expired) /\ Cardinality(expired) \in Nat
  <2>1. all \in SUBSET IPs /\ live \in SUBSET IPs /\ expired \in SUBSET IPs
    BY DEF Banned
  <2> QED BY <2>1, FS_Subset, FS_CardinalityType, FiniteHostsAssumption
<1>s. Cardinality(all) = Cardinality(live) + Cardinality(expired)
  <2>1. live \in SUBSET all
    OBVIOUS
  <2>2. Cardinality(expired) = Cardinality(all) - Cardinality(live)
    BY <1>f, <2>1, CardMinus
  <2> QED BY <1>f, <2>2
<1>k. \A K \in SUBSET all : /\ Banned(Keep(K)) = K
                            /\ Keep(K) \in [IPs -> Nat \cup {NoBan}]
  BY DEF Banned
<1>1. CASE Cardinality(all) <= EntriesHardLimit
  BY <1>1, <1>f, validate DEF cleanupBanned
<1>2. CASE Cardinality(all) > EntriesHardLimit /\ n <= 0
  <2>1. r = Keep(live)
    BY <1>2, <1>f, validate DEF cleanupBanned
  <2> QED BY <1>2, <2>1, <1>k, <1>f, validate
<1>3. CASE Cardinality(all) > EntriesHardLimit /\ n > 0
  <2>1. PICK R \in Smallest(all, b, n) : r = Keep(live \ R)
    BY <1>3, <1>f, validate DEF cleanupBanned
  <2>2. /\ R \subseteq all /\ Cardinality(R) = n
        /\ \A x \in R, y \in all \ R : b[x] <= b[y]
    BY <2>1 DEF Smallest
  <2>3. /\ Banned(r) = live \ R
        /\ r \in [IPs -> Nat \cup {NoBan}]
    BY <2>1, <1>k
  <2>4. \A x \in live, y \in expired : b[y] < b[x]
    <3> SUFFICES ASSUME NEW x \in live, NEW y \in expired
                 PROVE  b[y] < b[x]
      OBVIOUS
    <3>1. b[x] \in Nat /\ b[y] \in Nat
      BY DEF Banned
    <3> QED BY <3>1
  <2>5. expired \subseteq R \/ R \subseteq expired
    <3> SUFFICES ASSUME NEW y \in expired \ R, NEW x \in R \ expired
                 PROVE  FALSE
      OBVIOUS
    <3>1. b[x] \in Nat /\ b[y] \in Nat
      BY <2>2 DEF Banned
    <3>2. b[x] <= b[y] /\ b[y] < b[x]
      BY <2>2, <2>4
    <3> QED BY <3>1, <3>2
  <2>6. IsFiniteSet(R)
    BY <2>2, <1>f, FS_Subset
  <2>7. CASE R \subseteq expired
    <3>1. live \ R = live
      BY <2>7
    <3>2. Cardinality(R) <= Cardinality(expired)
      BY <2>7, <1>f, FS_Subset
    <3>3. Cardinality(live) <= EntriesHardLimit + k
      <4>1. n <= Cardinality(expired) /\ n \in Int
        BY <2>2, <3>2, <1>f, validate
      <4> HIDE DEF all, live, expired
      <4> QED BY <4>1, <1>a, <1>f, <1>s, validate, CleanupArithmetic
    <3> QED BY <2>3, <3>1, <3>3
  <2>8. CASE expired \subseteq R
    <3>1. live \ R = all \ R
      BY <2>8
    <3>2. Cardinality(all \ R) = Cardinality(all) - Cardinality(R)
      BY <2>2, <1>f, CardMinus
    <3>3. Cardinality(expired) <= Cardinality(R)
      BY <2>8, <2>6, FS_Subset
    <3>4. Cardinality(all) - n <= EntriesHardLimit + k
      <4>1. Cardinality(expired) <= n /\ n \in Int
        BY <2>2, <3>3, <1>f, validate
      <4> HIDE DEF all, live, expired
      <4> QED BY <4>1, <1>a, <1>f, <1>s, validate, CleanupArithmetic
    <3> QED BY <2>2, <2>3, <3>1, <3>2, <3>4
  <2> QED BY <2>5, <2>7, <2>8
<1> QED BY <1>1, <1>2, <1>3, <1>f, validate
-----------------------------------------------------------------------------
\* While a connection is open, at most the others are storing a ban.
LEMMA ReturningBound ==
  ASSUME Typed, NEW c \in Conns, conn[c].st = "open"
  PROVE  /\ IsFiniteSet(Returning)
         /\ Cardinality(Returning) <= Others
         /\ Others \in Nat
<1> DEFINE D == {d \in Conns : conn[d].st = "storing"}
           f == [d \in D |-> conn[d].ip]
<1>1. D \in SUBSET (Conns \ {c})
  OBVIOUS
<1>2. /\ IsFiniteSet(Conns \ {c})
      /\ Cardinality(Conns \ {c}) = Others
      /\ Others \in Nat
  <2>1. {c} \in SUBSET Conns /\ Cardinality({c}) = 1
    BY FS_Singleton
  <2> QED BY <2>1, FiniteHostsAssumption, CardMinus DEF Others
<1>3. IsFiniteSet(D) /\ Cardinality(D) <= Others
  BY <1>1, <1>2, FS_Subset
<1>4. f \in Surjection(D, Returning)
  BY DEF Surjection, Returning
<1>5. IsFiniteSet(Returning) /\ Cardinality(Returning) <= Cardinality(D)
  BY <1>3, <1>4, FS_Surjection
<1>6. Cardinality(Returning) \in Nat /\ Cardinality(D) \in Nat
  BY <1>3, <1>5, FS_CardinalityType
<1> QED BY <1>2, <1>3, <1>5, <1>6

\* The hosts that are banned or about to be form a finite set.
LEMMA BannedFinite ==
  ASSUME Typed
  PROVE  /\ Banned(banned) \in SUBSET IPs /\ Returning \in SUBSET IPs
         /\ IsFiniteSet(Banned(banned) \cup Returning)
         /\ Cardinality(Banned(banned) \cup Returning) \in Nat
<1>1. Banned(banned) \in SUBSET IPs
  BY DEF Banned
<1>2. \A d \in Conns : conn[d].st = "storing" => conn[d].ip \in IPs
  BY DEF Typed, ConnState, Closed
<1>3. Returning \in SUBSET IPs
  BY <1>2 DEF Returning
<1> QED BY <1>1, <1>3, FS_Subset, FS_CardinalityType, FiniteHostsAssumption

\* A step that neither bans nor returns a further host keeps the limit.
LEMMA ShrinkingKeepsLimit ==
  ASSUME Typed, BannedNearHardLimit,
         Banned(banned') \cup Returning' \subseteq Banned(banned) \cup Returning
  PROVE  BannedNearHardLimit'
<1> DEFINE S == Banned(banned) \cup Returning
           T == Banned(banned') \cup Returning'
<1>1. IsFiniteSet(S) /\ Cardinality(S) \in Nat
  BY BannedFinite
<1>2. T \in SUBSET S
  OBVIOUS
<1>3. IsFiniteSet(T) /\ Cardinality(T) <= Cardinality(S)
  BY <1>1, <1>2, FS_Subset
<1>4. Cardinality(T) \in Nat
  BY <1>3, FS_CardinalityType
<1>5. Cardinality(Conns) \in Nat
  BY FiniteHostsAssumption, FS_CardinalityType
<1> QED BY <1>1, <1>3, <1>4, <1>5, validate DEF BannedNearHardLimit

\* The time IsBanned adds to a ban is a natural number.
LEMMA IncrementType == increment \in Nat
<1>1. BanTime * BanTimeIncrement \in Nat
  BY validate
<1>2. \A p \in Nat : p \div 100 \in Nat
  OBVIOUS
<1> QED BY <1>1, <1>2 DEF increment

\* The step in which AddEvent bans a host or updates the score of a known one.
LEMMA ScoreKnownHostStep ==
  ASSUME LimitsInv, NEW c \in Conns, conn[c].st = "open",
         NEW ip \in IPs, ip \in Tracked(hosts), NEW ev,
         ScoreKnownHost(ip, ev), UNCHANGED <<now, conn>>
  PROVE  LimitsInv'
<1> DEFINE b == [banned EXCEPT ![ip] = now + BanTime]
           events == SelectSeq(Append(hosts[ip], ev), InWindow)
<1> Typed /\ HostsWithinHardLimit /\ BannedNearHardLimit
  BY DEF LimitsInv
<1>t. /\ DOMAIN hosts' = IPs
      /\ Tracked(hosts') \subseteq Tracked(hosts)
  <2>1. \/ hosts' = [hosts EXCEPT ![ip] = NoHost]
        \/ hosts' = [hosts EXCEPT ![ip] = events]
    BY DEF ScoreKnownHost
  <2> QED BY <2>1 DEF Typed, Tracked
<1>h. HostsWithinHardLimit'
  <2>1. /\ IsFiniteSet(Tracked(hosts)) /\ Cardinality(Tracked(hosts)) \in Nat
    BY FS_Subset, FS_CardinalityType, FiniteHostsAssumption DEF Tracked
  <2>2. /\ Cardinality(Tracked(hosts')) <= Cardinality(Tracked(hosts))
        /\ Cardinality(Tracked(hosts')) \in Nat
    BY <1>t, <2>1, FS_Subset, FS_CardinalityType
  <2> QED BY <2>1, <2>2, validate DEF HostsWithinHardLimit
<1>r. Returning' = Returning
  BY DEF Returning
<1>1. CASE banned' = banned
  <2>1. BannedNearHardLimit'
    BY <1>1, <1>r, ShrinkingKeepsLimit
  <2> QED BY <1>1, <1>t, <1>h, <2>1 DEF LimitsInv, Typed
<1>2. CASE banned' \in cleanupBanned(b)
  <2>1. b \in [IPs -> Nat \cup {NoBan}] /\ now \in Nat
    BY validate DEF Typed
  <2>2. Banned(b) = Banned(banned) \cup {ip}
    BY validate DEF Typed, Banned, NoBan
  <2>3. /\ IsFiniteSet(Returning) /\ Cardinality(Returning) <= Others
        /\ Others \in Nat
    BY ReturningBound
  <2>4. Cardinality(Banned(b)) <= EntriesHardLimit + 2 * Others + 1
    <3> DEFINE S == Banned(banned) \cup Returning
    <3>1. IsFiniteSet(S) /\ Cardinality(S) \in Nat /\ Banned(banned) \in SUBSET S
      BY BannedFinite
    <3>2. /\ IsFiniteSet(Banned(banned)) /\ Cardinality(Banned(banned)) \in Nat
          /\ Cardinality(Banned(banned)) <= Cardinality(S)
      BY <3>1, FS_Subset, FS_CardinalityType
    <3>3. Cardinality(Banned(b)) <= Cardinality(Banned(banned)) + 1
      <4>1. Cardinality(Banned(banned) \cup {ip})
              = IF ip \in Banned(banned) THEN Cardinality(Banned(banned))
                                         ELSE Cardinality(Banned(banned)) + 1
        BY <3>2, FS_AddElement
      <4> HIDE DEF b
      <4> QED BY <2>2, <3>2, <4>1
    <3>4. Cardinality(S) <= EntriesHardLimit + 2 * Others
      BY DEF BannedNearHardLimit, Others
    <3>5. Cardinality(Banned(b)) \in Nat
      BY <2>2, <3>2, FS_AddElement, FS_CardinalityType
    <3> QED BY <3>1, <3>2, <3>3, <3>4, <3>5, <2>3, validate
  <2>5. /\ banned' \in [IPs -> Nat \cup {NoBan}]
        /\ Cardinality(Banned(banned')) <= EntriesHardLimit + Others
    BY <1>2, <2>1, <2>3, <2>4, CleanupBannedBound
  <2>6. BannedNearHardLimit'
    <3>1. IsFiniteSet(Banned(banned'))
      BY FS_Subset, FiniteHostsAssumption DEF Banned
    <3>2. /\ Cardinality(Banned(banned') \cup Returning)
               = Cardinality(Banned(banned')) + Cardinality(Returning)
                   - Cardinality(Banned(banned') \cap Returning)
          /\ IsFiniteSet(Banned(banned') \cap Returning)
      BY <3>1, <2>3, FS_Union, FS_Intersection
    <3>3. /\ Cardinality(Banned(banned')) \in Nat
          /\ Cardinality(Returning) \in Nat
          /\ Cardinality(Banned(banned') \cap Returning) \in Nat
      BY <3>1, <3>2, <2>3, FS_CardinalityType
    <3>4. Cardinality(Banned(banned') \cup Returning)
            <= EntriesHardLimit + 2 * Others
      BY <3>2, <3>3, <2>3, <2>5, validate
    <3> QED BY <3>4, <1>r DEF BannedNearHardLimit, Others
  <2> QED BY <1>t, <1>h, <2>5, <2>6 DEF LimitsInv, Typed
<1> QED BY <1>1, <1>2 DEF ScoreKnownHost

-----------------------------------------------------------------------------
\* LimitsInv is an invariant: one step per action of the defender.
THEOREM DefenderLimitsInv == Spec => []LimitsInv
<1>1. Init => LimitsInv
  <2> SUFFICES ASSUME Init PROVE LimitsInv
    OBVIOUS
  <2>1. Typed
    BY DEF Init, Typed, ConnState
  <2>2. Tracked(hosts) = {} /\ Banned(banned) = {} /\ Returning = {}
    BY DEF Init, Tracked, Banned, Returning, Closed
  <2>3. Cardinality(Conns) \in Nat
    BY FiniteHostsAssumption, FS_CardinalityType
  <2>4. Cardinality({}) = 0
    BY FS_EmptySet
  <2>5. HostsWithinHardLimit
    BY <2>2, <2>4, validate DEF HostsWithinHardLimit
  <2>6. BannedNearHardLimit
    BY <2>2, <2>3, <2>4, validate DEF BannedNearHardLimit
  <2> QED BY <2>1, <2>5, <2>6 DEF LimitsInv
<1>2. LimitsInv /\ [Next]_vars => LimitsInv'
  <2> SUFFICES ASSUME LimitsInv, [Next]_vars PROVE LimitsInv'
    OBVIOUS
  <2> Typed /\ HostsWithinHardLimit /\ BannedNearHardLimit
    BY DEF LimitsInv
  <2>u. ASSUME Typed', hosts' = hosts,
               Banned(banned') \cup Returning' \subseteq
                 Banned(banned) \cup Returning
        PROVE  LimitsInv'
    BY <2>u, ShrinkingKeepsLimit DEF LimitsInv, HostsWithinHardLimit
  <2>1. CASE UNCHANGED vars
    BY <2>1, <2>u DEF vars, Typed, Returning
  <2>2. CASE Tick
    BY <2>2, <2>u DEF Tick, Typed, Returning
  <2>3. ASSUME NEW c \in Conns, NEW ip \in IPs, IsBannedRead(c, ip)
        PROVE  LimitsInv'
    <3>1. banned[ip] \in Nat /\ ip \in Banned(banned)
      BY <2>3 DEF Typed, IsBannedRead, Banned, NoBan
    <3>2. Typed'
      BY <2>3, <3>1, IncrementType DEF Typed, IsBannedRead, Storing, ConnState
    <3>3. Returning' \subseteq Returning \cup {ip}
      BY <2>3 DEF Typed, IsBannedRead, Storing, Returning
    <3> QED BY <2>3, <2>u, <3>1, <3>2, <3>3 DEF IsBannedRead
  <2>4. ASSUME NEW c \in Conns, IsBannedStore(c)
        PROVE  LimitsInv'
    <3>1. conn[c].ip \in Returning /\ conn[c].ip \in IPs /\ conn[c].until \in Nat
      BY <2>4 DEF Typed, IsBannedStore, Returning, ConnState, Closed
    <3>2. Typed'
      BY <2>4, <3>1 DEF Typed, IsBannedStore, ConnState
    <3>3. Banned(banned') \subseteq Banned(banned) \cup {conn[c].ip}
      BY <2>4, <3>1 DEF Typed, IsBannedStore, Banned
    <3>4. Returning' \subseteq Returning
      BY <2>4 DEF Typed, IsBannedStore, Returning, Closed
    <3> QED BY <2>4, <2>u, <3>1, <3>2, <3>3, <3>4 DEF IsBannedStore
  <2>5. ASSUME NEW c \in Conns, NEW ip \in IPs, Admit(c, ip)
        PROVE  LimitsInv'
    <3>1. Typed'
      BY <2>5 DEF Typed, Admit, Open, ConnState
    <3>2. Returning' \subseteq Returning
      BY <2>5 DEF Typed, Admit, Open, Returning
    <3> QED BY <2>5, <2>u, <3>1, <3>2 DEF Admit
  <2>6. ASSUME NEW c \in Conns, Disconnect(c)
        PROVE  LimitsInv'
    <3>1. Typed'
      BY <2>6 DEF Typed, Disconnect, ConnState
    <3>2. Returning' \subseteq Returning
      BY <2>6 DEF Typed, Disconnect, Closed, Returning
    <3> QED BY <2>6, <2>u, <3>1, <3>2 DEF Disconnect
  <2>7. ASSUME NEW c \in Conns, NEW event \in HostEvents, AddEvent(c, event)
        PROVE  LimitsInv'
    <3> DEFINE ip == conn[c].ip
               ev == [dateTime |-> now, score |-> Score[event]]
    <3>1. ip \in IPs
      BY <2>7 DEF Typed, AddEvent, ConnState, Closed
    <3>2. CASE ip \in Tracked(hosts)
      <4>1. ScoreKnownHost(ip, ev) /\ conn[c].st = "open" /\ UNCHANGED <<now, conn>>
        BY <2>7, <3>2 DEF AddEvent
      <4> QED BY <3>1, <3>2, <4>1, ScoreKnownHostStep
    <3>3. CASE ip \notin Tracked(hosts)
      <4> DEFINE h == [hosts EXCEPT ![ip] = <<ev>>]
      <4>1. hosts' \in cleanupHosts(h) /\ banned' = banned /\ UNCHANGED <<now, conn>>
        BY <2>7, <3>3 DEF AddEvent, ScoreNewHost
      <4>2. DOMAIN h = IPs
        BY DEF Typed
      <4> HIDE DEF h
      <4>3. HostsWithinHardLimit' /\ DOMAIN hosts' = IPs
        BY <4>1, <4>2, CleanupHostsBound DEF HostsWithinHardLimit
      <4>4. Returning' = Returning
        BY <4>1 DEF Returning
      <4>5. BannedNearHardLimit'
        BY <4>1, <4>4, ShrinkingKeepsLimit
      <4> QED BY <4>1, <4>3, <4>5 DEF LimitsInv, Typed
    <3> QED BY <3>2, <3>3
  <2>8. ASSUME NEW ip \in IPs, Unban(ip)
        PROVE  LimitsInv'
    <3>1. Typed'
      BY <2>8 DEF Typed, Unban
    <3>2. Banned(banned') \subseteq Banned(banned) /\ Returning' = Returning
      BY <2>8 DEF Typed, Unban, Banned, Returning
    <3> QED BY <2>8, <2>u, <3>1, <3>2 DEF Unban
  <2>9. ASSUME NEW list \in BlockFiles, ReloadBlockList(list)
        PROVE  LimitsInv'
    BY <2>9, <2>u DEF ReloadBlockList, Typed, Returning
  <2>10. ASSUME NEW list \in SafeFiles, ReloadSafeList(list)
         PROVE  LimitsInv'
    BY <2>10, <2>u DEF ReloadSafeList, Typed, Returning
  <2>11. CASE ReloadSafeListError
    BY <2>11, <2>u DEF ReloadSafeListError, Typed, Returning
  <2> QED
    BY <2>1, <2>2, <2>3, <2>4, <2>5, <2>6, <2>7, <2>8, <2>9, <2>10, <2>11
    DEF Next
<1> QED BY <1>1, <1>2, PTL DEF Spec

\* The defender keeps its maps within their limits: the host scores never
\* exceed entries_hard_limit, and the bans exceed it by at most twice the
\* number of other connections, whatever Unban, Reload, expiry and the two
\* halves of IsBanned do in between.
THEOREM DefenderLimits ==
  Spec => [](HostsWithinHardLimit /\ BannedNearHardLimit)
<1>1. LimitsInv => HostsWithinHardLimit /\ BannedNearHardLimit
  BY DEF LimitsInv
<1> QED BY <1>1, DefenderLimitsInv, PTL

-----------------------------------------------------------------------------
\* Hosts on every version of the safe list.
AlwaysSafe == {ip \in IPs : \A list \in SafeFiles : ip \in list}

\* The lists in use are versions of their files, and no IsBanned call carries
\* the ban of an always safe host.
ListsInv ==
  /\ Typed
  /\ blockList \in BlockFiles /\ safeList \in SafeFiles
  /\ Banned(banned) \cap AlwaysSafe = {}
  /\ Returning \cap AlwaysSafe = {}
  /\ BlockedHostsNeverServed

\* cleanupBanned adds no ban.
LEMMA CleanupBannedShrinks ==
  ASSUME NEW b, NEW r \in cleanupBanned(b)
  PROVE  Banned(r) \subseteq Banned(b)
<1> DEFINE live == {ip \in Banned(b) : b[ip] >= now}
           Keep(K) == [ip \in IPs |-> IF ip \in K THEN b[ip] ELSE NoBan]
<1>1. r = b \/ \E K \in SUBSET live : r = Keep(K)
  <2>1. \A R : live \ R \in SUBSET live
    OBVIOUS
  <2> QED BY <2>1 DEF cleanupBanned
<1>2. \A K \in SUBSET live : Banned(Keep(K)) \subseteq Banned(b)
  BY DEF Banned
<1> QED BY <1>1, <1>2

\* The typing conjuncts hold throughout, by the argument for the limits.
LEMMA TypedAlways == Spec => []Typed
<1>1. LimitsInv => Typed
  BY DEF LimitsInv
<1> QED BY DefenderLimitsInv, <1>1, PTL

\* Reload never exposes a moment without the lists: a host on every version
\* of the safe list is never banned, and a host on every version of the block
\* list is never served, in every interleaving with Reload and its failures.
THEOREM DefenderLists ==
  Spec => [](SafeHostsNeverBanned /\ BlockedHostsNeverServed)
<1>1. Init => ListsInv
  <2> SUFFICES ASSUME Init PROVE ListsInv
    OBVIOUS
  <2>1. Typed
    BY DEF Init, Typed, ConnState
  <2>2. Banned(banned) = {} /\ Returning = {}
    BY DEF Init, Banned, Returning, Closed
  <2>3. BlockedHostsNeverServed
    BY DEF Init, BlockedHostsNeverServed, Closed, Open
  <2> QED BY <2>1, <2>2, <2>3 DEF Init, ListsInv
<1>2. ListsInv /\ [Next]_vars /\ Typed' => ListsInv'
  <2> SUFFICES ASSUME ListsInv, [Next]_vars, Typed' PROVE ListsInv'
    OBVIOUS
  <2> USE DEF ListsInv
  <2>u. ASSUME Banned(banned') \cup Returning' \subseteq
                 Banned(banned) \cup Returning,
               blockList' = blockList, safeList' = safeList,
               \A c \in Conns, ip \in IPs : conn'[c] = Open(ip) =>
                 conn[c] = Open(ip) \/ ip \notin blockList
        PROVE  ListsInv'
    <3>1. BlockedHostsNeverServed'
      BY <2>u DEF BlockedHostsNeverServed
    <3> QED BY <2>u, <3>1
  <2>1. CASE UNCHANGED vars
    BY <2>1, <2>u DEF vars, Returning
  <2>2. CASE Tick
    BY <2>2, <2>u DEF Tick, Returning
  <2>3. ASSUME NEW c \in Conns, NEW ip \in IPs, IsBannedRead(c, ip)
        PROVE  ListsInv'
    <3>1. ip \in Banned(banned)
      BY <2>3 DEF Typed, IsBannedRead, Banned, NoBan
    <3>2. Returning' \subseteq Returning \cup {ip}
      BY <2>3 DEF Typed, IsBannedRead, Storing, Returning
    <3>3. \A d \in Conns, x \in IPs : conn'[d] = Open(x) => conn[d] = Open(x)
      BY <2>3 DEF Typed, IsBannedRead, Storing, Open
    <3> QED BY <2>3, <2>u, <3>1, <3>2, <3>3 DEF IsBannedRead
  <2>4. ASSUME NEW c \in Conns, IsBannedStore(c)
        PROVE  ListsInv'
    <3>1. conn[c].ip \in Returning /\ conn[c].ip \in IPs
      BY <2>4 DEF Typed, IsBannedStore, Returning, ConnState, Closed
    <3>2. Banned(banned') \subseteq Banned(banned) \cup {conn[c].ip}
      BY <2>4, <3>1 DEF Typed, IsBannedStore, Banned
    <3>3. Returning' \subseteq Returning
      BY <2>4 DEF Typed, IsBannedStore, Returning, Closed
    <3>4. \A d \in Conns, x \in IPs : conn'[d] = Open(x) => conn[d] = Open(x)
      BY <2>4 DEF Typed, IsBannedStore, Closed, Open
    <3> QED BY <2>4, <2>u, <3>1, <3>2, <3>3, <3>4 DEF IsBannedStore
  <2>5. ASSUME NEW c \in Conns, NEW ip \in IPs, Admit(c, ip)
        PROVE  ListsInv'
    <3>1. Returning' \subseteq Returning
      BY <2>5 DEF Typed, Admit, Open, Returning
    <3>2. \A d \in Conns, x \in IPs :
            conn'[d] = Open(x) => conn[d] = Open(x) \/ x \notin blockList
      <4> SUFFICES ASSUME NEW d \in Conns, NEW x \in IPs, conn'[d] = Open(x)
                   PROVE  conn[d] = Open(x) \/ x \notin blockList
        OBVIOUS
      <4>1. CASE d = c
        <5>1. Open(ip) = Open(x)
          BY <2>5, <4>1 DEF Typed, Admit
        <5> QED BY <2>5, <5>1 DEF Admit, Open
      <4>2. CASE d # c
        BY <2>5, <4>2 DEF Typed, Admit
      <4> QED BY <4>1, <4>2
    <3> QED BY <2>5, <2>u, <3>1, <3>2 DEF Admit
  <2>6. ASSUME NEW c \in Conns, Disconnect(c)
        PROVE  ListsInv'
    <3>1. Returning' \subseteq Returning
      BY <2>6 DEF Typed, Disconnect, Closed, Returning
    <3>2. \A d \in Conns, x \in IPs : conn'[d] = Open(x) => conn[d] = Open(x)
      BY <2>6 DEF Typed, Disconnect, Closed, Open
    <3> QED BY <2>6, <2>u, <3>1, <3>2 DEF Disconnect
  <2>7. ASSUME NEW c \in Conns, NEW event \in HostEvents, AddEvent(c, event)
        PROVE  ListsInv'
    <3> DEFINE ip == conn[c].ip
               b == [banned EXCEPT ![ip] = now + BanTime]
    <3>1. ip \in IPs /\ ip \notin AlwaysSafe
      BY <2>7 DEF Typed, AddEvent, ConnState, Closed, AlwaysSafe
    <3>2. banned' = banned \/ banned' \in cleanupBanned(b)
      BY <2>7 DEF AddEvent, ScoreKnownHost, ScoreNewHost
    <3>3. Banned(b) \subseteq Banned(banned) \cup {ip}
      BY <3>1 DEF Typed, Banned
    <3> HIDE DEF b
    <3>4. Banned(banned') \subseteq Banned(banned) \cup {ip}
      BY <3>2, <3>3, CleanupBannedShrinks
    <3>5. Returning' = Returning /\ BlockedHostsNeverServed'
      BY <2>7 DEF AddEvent, Returning, BlockedHostsNeverServed
    <3> QED BY <2>7, <3>1, <3>4, <3>5 DEF AddEvent
  <2>8. ASSUME NEW ip \in IPs, Unban(ip)
        PROVE  ListsInv'
    <3>1. Banned(banned') \subseteq Banned(banned) /\ Returning' = Returning
      BY <2>8 DEF Typed, Unban, Banned, Returning
    <3> QED BY <2>8, <2>u, <3>1 DEF Unban
  <2>9. ASSUME NEW list \in BlockFiles, ReloadBlockList(list)
        PROVE  ListsInv'
    BY <2>9 DEF ReloadBlockList, Returning, BlockedHostsNeverServed
  <2>10. ASSUME NEW list \in SafeFiles, ReloadSafeList(list)
         PROVE  ListsInv'
    BY <2>10 DEF ReloadSafeList, Returning, BlockedHostsNeverServed
  <2>11. CASE ReloadSafeListError
    BY <2>11, <2>u DEF ReloadSafeListError, Returning
  <2> QED
    BY <2>1, <2>2, <2>3, <2>4, <2>5, <2>6, <2>7, <2>8, <2>9, <2>10, <2>11
    DEF Next
<1>3. ListsInv => SafeHostsNeverBanned /\ BlockedHostsNeverServed
  BY DEF ListsInv, SafeHostsNeverBanned, Banned, AlwaysSafe
<1> QED BY <1>1, <1>2, <1>3, TypedAlways, PTL DEF Spec

=============================================================================
