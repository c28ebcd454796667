------------------------------ MODULE Defender ------------------------------
(***************************************************************************)
(* The in-memory defender (common/defender.go).  A client connects         *)
(* (IsBanned), is admitted or refused, and an admitted client may cause    *)
(* host events (AddEvent) until it leaves.  Hosts whose events reach the   *)
(* threshold within the observation window are banned.  Both maps are      *)
(* trimmed between a soft and a hard limit.                                *)
(*                                                                         *)
(* IsBanned on a banned host reads the ban under the read lock, drops it   *)
(* and stores an incremented ban under the write lock: two steps here.     *)
(* Reload replaces the block list and the safe list under two separate     *)
(* critical sections: two steps here.  Everything else holds the lock      *)
(* throughout and is one step.  One time unit stands for one minute.       *)
(***************************************************************************)
EXTENDS Integers, FiniteSets, SequencesExt

CONSTANTS
  IPs,              \* client addresses
  Conns,            \* concurrently served connections
  HostEvents,       \* kinds of host events
  Score,            \* score_valid, score_invalid, score_rate_exceeded
  Threshold, BanTime, BanTimeIncrement, ObservationTime,
  EntriesSoftLimit, EntriesHardLimit,
  BlockFiles,       \* contents the block list file takes over time
  SafeFiles,        \* contents the safe list file takes over time
  MaxTime,          \* bound on the clock
  MaxBanTime        \* bound on the stored ban times

\* DefenderConfig.validate
ASSUME validate ==
  /\ Threshold \in Nat
  /\ Score \in [HostEvents -> Nat]
  /\ \A e \in HostEvents : Score[e] < Threshold
  /\ BanTime \in Nat \ {0}
  /\ BanTimeIncrement \in Nat \ {0}
  /\ ObservationTime \in Nat \ {0}
  /\ EntriesSoftLimit \in Nat \ {0}
  /\ EntriesHardLimit \in Nat
  /\ EntriesHardLimit > EntriesSoftLimit

ASSUME FiniteHostsAssumption ==
  /\ IsFiniteSet(IPs)
  /\ IsFiniteSet(Conns)

ASSUME ListFilesAssumption ==
  /\ BlockFiles # {} /\ BlockFiles \subseteq SUBSET IPs
  /\ SafeFiles # {} /\ SafeFiles \subseteq SUBSET IPs

ASSUME BoundsAssumption == MaxTime \in Nat /\ MaxBanTime \in Nat

VARIABLES
  now,        \* the clock
  hosts,      \* events of each scored host; NoHost where the map has no
              \* entry (TotalScore is stored by the code but never read)
  banned,     \* end of the ban; NoBan where the map has no entry
  blockList, safeList,
  reloading,  \* Reload has stored the block list, not yet the safe list
  conn        \* what each served connection is doing

vars == <<now, hosts, banned, blockList, safeList, reloading, conn>>

NoBan == -1
NoHost == <<>>
Closed == [st |-> "closed"]
\* IsBanned between its two critical sections: it will store the ban `until'
Storing(ip, until) == [st |-> "storing", ip |-> ip, until |-> until]
\* admitted by IsBanned
Open(ip) == [st |-> "open", ip |-> ip]

Event == [dateTime : Nat, score : Nat]
ConnState ==
  {Closed}
    \cup [st : {"storing"}, ip : IPs, until : Nat]
    \cup [st : {"open"}, ip : IPs]

TypeOK ==
  /\ now \in Nat
  /\ hosts \in [IPs -> Seq(Event)]
  /\ banned \in [IPs -> Nat \cup {NoBan}]
  /\ blockList \in SUBSET IPs
  /\ safeList \in SUBSET IPs
  /\ reloading \in BOOLEAN
  /\ conn \in [Conns -> ConnState]

Tracked(h) == {ip \in IPs : h[ip] # NoHost}
Banned(b) == {ip \in IPs : b[ip] # NoBan}

-----------------------------------------------------------------------------
increment ==
  LET inc == (BanTime * BanTimeIncrement) \div 100
  IN  IF inc = 0 THEN 1 ELSE inc

InWindow(e) == e.dateTime + ObservationTime > now
TotalOf(events) == FoldLeft(LAMBDA sum, e : sum + e.score, 0, events)

\* Mutant of Smallest: the sort order is reversed.
SmallestReversed(S, key, n) ==
  {R \in SUBSET S : /\ Cardinality(R) = n
                    /\ \A r \in R, s \in S \ R : key[r] >= key[s]}

\* The n entries with the smallest keys, ties broken by the order in which
\* the map is iterated.
Smallest(S, key, n) ==
  {R \in SUBSET S : /\ Cardinality(R) = n
                    /\ \A r \in R, s \in S \ R : key[r] <= key[s]}

\* Mutant of the clean-ups: they never run.
NoCleanup(m) == {m}

\* The ban maps cleanupBanned can leave.  Expired entries are deleted first
\* but stay in the sorted list, so they use up the removals.
cleanupBanned(b) ==
  LET all  == Banned(b)
      live == {ip \in all : b[ip] >= now}
      numToRemove == Cardinality(live) - EntriesSoftLimit
      Keep(K) == [ip \in IPs |-> IF ip \in K THEN b[ip] ELSE NoBan]
  IN  IF Cardinality(all) <= EntriesHardLimit THEN {b}
      ELSE IF numToRemove <= 0 THEN {Keep(live)}
      ELSE {Keep(live \ R) : R \in Smallest(all, b, numToRemove)}

\* The host maps cleanupHosts can leave: the oldest last events go first.
cleanupHosts(h) ==
  LET all == Tracked(h)
      lastEvent == [ip \in all |-> Last(h[ip]).dateTime]
      numToRemove == Cardinality(all) - EntriesSoftLimit
  IN  IF Cardinality(all) <= EntriesHardLimit THEN {h}
      ELSE {[ip \in IPs |-> IF ip \in R THEN NoHost ELSE h[ip]] :
              R \in Smallest(all, lastEvent, numToRemove)}

GetScore(ip) == TotalOf(SelectSeq(hosts[ip], InWindow))

-----------------------------------------------------------------------------
\* newInMemoryDefender: both lists are loaded before the defender is used.
Init ==
  /\ now = 0
  /\ hosts = [ip \in IPs |-> NoHost]
  /\ banned = [ip \in IPs |-> NoBan]
  /\ blockList \in BlockFiles
  /\ safeList \in SafeFiles
  /\ reloading = FALSE
  /\ conn = [c \in Conns |-> Closed]

Tick ==
  /\ now < MaxTime
  /\ now' = now + 1
  /\ UNCHANGED <<hosts, banned, blockList, safeList, reloading, conn>>

\* IsBanned, first critical section, for a host whose ban has not expired.
IsBannedRead(c, ip) ==
  /\ conn[c] = Closed
  /\ banned[ip] > now
  /\ banned[ip] + increment <= MaxBanTime
  /\ conn' = [conn EXCEPT ![c] = Storing(ip, banned[ip] + increment)]
  /\ UNCHANGED <<now, hosts, banned, blockList, safeList, reloading>>

\* IsBanned, second critical section; the connection is refused.
IsBannedStore(c) ==
  /\ conn[c].st = "storing"
  /\ banned' = [banned EXCEPT ![conn[c].ip] = conn[c].until]
  /\ conn' = [conn EXCEPT ![c] = Closed]
  /\ UNCHANGED <<now, hosts, blockList, safeList, reloading>>

\* Mutant of Admit: the block list is not consulted.
AdmitListed(c, ip) ==
  /\ conn[c] = Closed
  /\ banned[ip] <= now
  /\ conn' = [conn EXCEPT ![c] = Open(ip)]
  /\ UNCHANGED <<now, hosts, banned, blockList, safeList, reloading>>

\* IsBanned answers false and the connection is served.
Admit(c, ip) ==
  /\ conn[c] = Closed
  /\ banned[ip] <= now
  /\ ip \notin blockList
  /\ conn' = [conn EXCEPT ![c] = Open(ip)]
  /\ UNCHANGED <<now, hosts, banned, blockList, safeList, reloading>>

Disconnect(c) ==
  /\ conn[c].st = "open"
  /\ conn' = [conn EXCEPT ![c] = Closed]
  /\ UNCHANGED <<now, hosts, banned, blockList, safeList, reloading>>


\* Mutant of ScoreKnownHost: the ban ends before it starts.
ScoreKnownHostBackwards(ip, ev) ==
  LET events == SelectSeq(Append(hosts[ip], ev), InWindow)
  IN  /\ TotalOf(events) >= Threshold
      /\ banned' \in cleanupBanned([banned EXCEPT ![ip] = now - BanTime])
      /\ hosts' = [hosts EXCEPT ![ip] = NoHost]

\* AddEvent for a host that already has a score: the events that left the
\* observation window are dropped; reaching the threshold bans the host.
ScoreKnownHost(ip, ev) ==
  LET events == SelectSeq(Append(hosts[ip], ev), InWindow)
      total  == TotalOf(events)
  IN  \/ /\ total >= Threshold
         /\ banned' \in cleanupBanned([banned EXCEPT ![ip] = now + BanTime])
         /\ hosts' = [hosts EXCEPT ![ip] = NoHost]
      \/ /\ total < Threshold
         /\ hosts' = [hosts EXCEPT ![ip] = events]
         /\ UNCHANGED banned

\* AddEvent for a host with no score yet.
ScoreNewHost(ip, ev) ==
  /\ hosts' \in cleanupHosts([hosts EXCEPT ![ip] = <<ev>>])
  /\ UNCHANGED banned

AddEvent(c, event) ==
  /\ conn[c].st = "open"
  /\ LET ip == conn[c].ip
         ev == [dateTime |-> now, score |-> Score[event]]
     IN  /\ ip \notin safeList
         /\ IF ip \in Tracked(hosts) THEN ScoreKnownHost(ip, ev)
                                     ELSE ScoreNewHost(ip, ev)
  /\ UNCHANGED <<now, blockList, safeList, reloading, conn>>

Unban(ip) ==
  /\ banned[ip] # NoBan
  /\ banned' = [banned EXCEPT ![ip] = NoBan]
  /\ UNCHANGED <<now, hosts, blockList, safeList, reloading, conn>>

\* Reload stores the block list it read; a read error ends it with no change.
ReloadBlockList(list) ==
  /\ ~reloading
  /\ blockList' = list
  /\ reloading' = TRUE
  /\ UNCHANGED <<now, hosts, banned, safeList, conn>>

\* Reload stores the safe list it read.
ReloadSafeList(list) ==
  /\ reloading
  /\ safeList' = list
  /\ reloading' = FALSE
  /\ UNCHANGED <<now, hosts, banned, blockList, conn>>

\* Mutant of ReloadSafeListError: the failed load leaves an empty safe list.
ReloadSafeListDropped ==
  /\ reloading
  /\ reloading' = FALSE
  /\ safeList' = {}
  /\ UNCHANGED <<now, hosts, banned, blockList, conn>>

\* Reload cannot read the safe list: the new block list stays.
ReloadSafeListError ==
  /\ reloading
  /\ reloading' = FALSE
  /\ UNCHANGED <<now, hosts, banned, blockList, safeList, conn>>

Next ==
  \/ Tick
  \/ \E c \in Conns, ip \in IPs : IsBannedRead(c, ip)
  \/ \E c \in Conns : IsBannedStore(c)
  \/ \E c \in Conns, ip \in IPs : Admit(c, ip)
  \/ \E c \in Conns : Disconnect(c)
  \/ \E c \in Conns, event \in HostEvents : AddEvent(c, event)
  \/ \E ip \in IPs : Unban(ip)
  \/ \E list \in BlockFiles : ReloadBlockList(list)
  \/ \E list \in SafeFiles : ReloadSafeList(list)
  \/ ReloadSafeListError

Spec == Init /\ [][Next]_vars

-----------------------------------------------------------------------------

\* cleanupHosts keeps the host scores within entries_hard_limit.
HostsWithinHardLimit == Cardinality(Tracked(hosts)) <= EntriesHardLimit

\* Hosts whose ban an IsBanned call is about to store again.
Returning == {conn[c].ip : c \in {d \in Conns : conn[d].st = "storing"}}

\* The ban map can exceed entries_hard_limit, because IsBanned stores a ban
\* that was removed while it held no lock and does not clean up; the excess
\* never passes twice the number of other connections in flight.
BannedNearHardLimit ==
  Cardinality(Banned(banned) \cup Returning)
    <= EntriesHardLimit + 2 * (Cardinality(Conns) - 1)

\* A host that is on every version of the safe list is never banned, not even
\* between the two halves of Reload or after a Reload that failed half way.
SafeHostsNeverBanned ==
  \A ip \in IPs : (\A list \in SafeFiles : ip \in list) => banned[ip] = NoBan

\* A host that is on every version of the block list is never served.
BlockedHostsNeverServed ==
  \A ip \in IPs : (\A list \in BlockFiles : ip \in list) =>
    \A c \in Conns : conn[c] # Open(ip)

\* A host that loses its score to make room for a new one is no more recent
\* than any host that keeps its score (cleanupHosts evicts by last event).
EvictsOldestHosts ==
  [][\A out \in Tracked(hosts), in \in IPs :
       /\ hosts'[out] = NoHost /\ hosts'[in] # NoHost
       /\ \E c \in Conns, event \in HostEvents :
            AddEvent(c, event) /\ hosts[conn[c].ip] = NoHost
       => Last(hosts[out]).dateTime <= Last(hosts'[in]).dateTime]_vars

\* When a host is banned, the unexpired ban of another host is dropped only in
\* favour of bans that end later or at the same time (cleanupBanned).
EvictsShortestBans ==
  [][\A out, in \in IPs :
       /\ banned[out] >= now /\ banned'[out] = NoBan /\ banned'[in] # NoBan
       /\ hosts' # hosts /\ hosts'[out] = hosts[out]
       => banned[out] <= banned'[in]]_vars
=============================================================================
