---------------------------- MODULE QuotaUpdater ----------------------------
(***************************************************************************)
(* Quota tracking: the sessions that change the storage and then report    *)
(* the change (UpdateUserQuota), the delayed updater that accumulates the  *)
(* reports and stores them in the data provider from time to time          *)
(* (quotaupdater.go), quota scans (httpd/api_quota.go, common.ActiveScans) *)
(* and readers of the used quota (GetUsedQuota).                           *)
(*                                                                         *)
(* The code keeps one copy of everything for users and one for virtual     *)
(* folders; Users stands for either.  Files and bytes always change        *)
(* together, so a quota object is one number; the map of pending updates   *)
(* has an entry exactly where the number is not zero.                      *)
(***************************************************************************)
EXTENDS Integers, FiniteSets, FiniteSetsExt

CONSTANTS
  Users,
  Sessions,        \* concurrent transfers and file operations
  Readers,         \* concurrent calls of GetUsedQuota
  ScanUsers,       \* users whose quota is scanned or set from the REST API
  Delayed,         \* delayed_quota_update > 0
  TrackQuota,      \* track_quota
  Restricted,      \* users with quota restrictions
  ProviderErrors,  \* the data provider may fail
  Sizes,           \* storage changes a session makes
  MaxStorage,      \* bound on the storage of a user
  MaxDrift         \* bound on how far the provider's number strays

ASSUME ConfigAssumption ==
  /\ ScanUsers \subseteq Users
  /\ Restricted \subseteq Users
  /\ Delayed \in BOOLEAN /\ ProviderErrors \in BOOLEAN
  /\ TrackQuota \in 0..2
  /\ Sizes \subseteq Int /\ 0 \notin Sizes
  /\ MaxStorage \in Nat /\ MaxDrift \in Nat

VARIABLES
  storage,   \* what the user's files amount to
  session,   \* a change made on storage that is not reported yet
  db,        \* used quota in the data provider
  pending,   \* accumulated updates not yet stored
  flusher,   \* the goroutine of the delayed updater
  scan,      \* the quota scan of each user, if one is active
  reader,    \* the calls of GetUsedQuota
  clean      \* history: the used quota of the user should be exact

vars == <<storage, session, db, pending, flusher, scan, reader, clean>>

Idle == [user |-> "none"]
NoScan == [pc |-> "none", total |-> 0, overlap |-> FALSE]
Asleep == [pc |-> "sleep", todo |-> {}, user |-> "none", delta |-> 0]

ScanState == [pc : {"none", "walk", "reset", "save"},
              total : 0..MaxStorage, overlap : BOOLEAN]
FlusherState == [pc : {"sleep", "pick", "store", "settle"}, todo : SUBSET Users,
                 user : Users \cup {"none"}, delta : Int]

TypeOK ==
  /\ storage \in [Users -> 0..MaxStorage]
  /\ session \in [Sessions -> {Idle} \cup [user : Users, delta : Sizes]]
  /\ db \in [Users -> Int]
  /\ pending \in [Users -> Int]
  /\ flusher \in FlusherState
  /\ scan \in [Users -> ScanState]
  /\ reader \in [Readers ->
       [pc : {"idle", "half", "done"}, user : Users \cup {"none"},
        value : Int, seen : SUBSET Int]]
  /\ clean \in [Users -> BOOLEAN]

-----------------------------------------------------------------------------
\* What the flusher f has stored of the user's pending quota in the provider
\* and not yet taken off the pending map.
InFlight(f, u) == IF f.pc = "settle" /\ f.user = u THEN f.delta ELSE 0

\* The used quota an observer at rest would see.
Balance(d, p, f, u) == d[u] + p[u] - InFlight(f, u)
Used(u) == Balance(db, pending, flusher, u)

Unreported(u) ==
  MapThenSumSet(LAMBDA s : session[s].delta,
                {s \in Sessions : session[s] # Idle /\ session[s].user = u})

Tracked(u) == TrackQuota = 1 \/ (TrackQuota = 2 /\ u \in Restricted)

\* Every reader in the middle of GetUsedQuota sees the value after this step
\* as one the ledger had during its call.
Observe ==
  reader' = [r \in Readers |->
    IF reader[r].pc = "half"
    THEN [reader[r] EXCEPT
            !.seen = @ \cup {Balance(db', pending', flusher', reader[r].user)}]
    ELSE reader[r]]
-----------------------------------------------------------------------------
Init ==
  /\ storage = [u \in Users |-> 0]
  /\ session = [s \in Sessions |-> Idle]
  /\ db = [u \in Users |-> 0]
  /\ pending = [u \in Users |-> 0]
  /\ flusher = Asleep
  /\ scan = [u \in Users |-> NoScan]
  /\ reader = [r \in Readers |->
                 [pc |-> "idle", user |-> "none", value |-> 0, seen |-> {}]]
  /\ clean = [u \in Users |-> TRUE]

\* Mutant of ChangeStorage: a file that is gone can be removed again.
ChangeStorageUnchecked(s, u, delta) ==
  /\ session[s] = Idle
  /\ storage[u] + delta <= MaxStorage
  /\ storage' = [storage EXCEPT ![u] = @ + delta]
  /\ session' = [session EXCEPT ![s] = [user |-> u, delta |-> delta]]
  /\ UNCHANGED <<db, pending, flusher, scan, clean>>
  /\ Observe

\* A session changes the storage: an upload, a removal, a truncation.
ChangeStorage(s, u, delta) ==
  /\ session[s] = Idle
  /\ storage[u] + delta \in 0..MaxStorage
  /\ db[u] - storage[u] \in -MaxDrift..MaxDrift
  /\ storage' = [storage EXCEPT ![u] = @ + delta]
  /\ session' = [session EXCEPT ![s] = [user |-> u, delta |-> delta]]
  /\ scan' = [scan EXCEPT ![u].overlap = @ \/ scan[u].pc # "none"]
  /\ UNCHANGED <<db, pending, flusher, clean>>
  /\ Observe

\* UpdateUserQuota: not tracked.
UpdateIgnored(s) ==
  /\ session[s] # Idle
  /\ ~Tracked(session[s].user)
  /\ clean' = [clean EXCEPT ![session[s].user] = FALSE]
  /\ session' = [session EXCEPT ![s] = Idle]
  /\ UNCHANGED <<storage, db, pending, flusher, scan>>
  /\ Observe

\* UpdateUserQuota, delayed: the change is added to the pending ones.
UpdateDelayed(s) ==
  /\ session[s] # Idle
  /\ Tracked(session[s].user)
  /\ Delayed
  /\ pending' = [pending EXCEPT ![session[s].user] = @ + session[s].delta]
  /\ session' = [session EXCEPT ![s] = Idle]
  /\ UNCHANGED <<storage, db, flusher, scan, clean>>
  /\ Observe

\* Mutant of UpdateDirect: the immediate update is accumulated as well.
UpdateDirectTwice(s) ==
  /\ session[s] # Idle
  /\ Tracked(session[s].user)
  /\ ~Delayed
  /\ db' = [db EXCEPT ![session[s].user] = @ + session[s].delta]
  /\ pending' = [pending EXCEPT ![session[s].user] = @ + session[s].delta]
  /\ session' = [session EXCEPT ![s] = Idle]
  /\ UNCHANGED <<storage, flusher, scan, clean>>
  /\ Observe

\* UpdateUserQuota, immediate: the provider adds the change.
UpdateDirect(s) ==
  /\ session[s] # Idle
  /\ Tracked(session[s].user)
  /\ ~Delayed
  /\ db' = [db EXCEPT ![session[s].user] = @ + session[s].delta]
  /\ session' = [session EXCEPT ![s] = Idle]
  /\ UNCHANGED <<storage, pending, flusher, scan, clean>>
  /\ Observe

\* UpdateUserQuota, immediate: the provider fails and the callers ignore it.
UpdateDirectError(s) ==
  /\ ProviderErrors
  /\ session[s] # Idle
  /\ Tracked(session[s].user)
  /\ ~Delayed
  /\ clean' = [clean EXCEPT ![session[s].user] = FALSE]
  /\ session' = [session EXCEPT ![s] = Idle]
  /\ UNCHANGED <<storage, db, pending, flusher, scan>>
  /\ Observe

-----------------------------------------------------------------------------
\* Mutant of FlushStart: only growing usage is stored.
FlushStartGrowing ==
  /\ Delayed
  /\ flusher.pc = "sleep"
  /\ flusher' = [flusher EXCEPT !.pc = "pick",
                                !.todo = {u \in Users : pending[u] > 0}]
  /\ UNCHANGED <<storage, session, db, pending, scan, clean>>
  /\ Observe

\* quotaUpdater.loop wakes up: storeUsersQuota takes the names with an entry.
FlushStart ==
  /\ Delayed
  /\ flusher.pc = "sleep"
  /\ flusher' = [flusher EXCEPT !.pc = "pick",
                                !.todo = {u \in Users : pending[u] # 0}]
  /\ UNCHANGED <<storage, session, db, pending, scan, clean>>
  /\ Observe

\* getUserPendingQuota of the next name; nothing is left to store for it.
FlushSkip(u) ==
  /\ flusher.pc = "pick"
  /\ u \in flusher.todo
  /\ pending[u] = 0
  /\ flusher' = [flusher EXCEPT !.todo = @ \ {u}]
  /\ UNCHANGED <<storage, session, db, pending, scan, clean>>
  /\ Observe

\* getUserPendingQuota of the next name.
FlushRead(u) ==
  /\ flusher.pc = "pick"
  /\ u \in flusher.todo
  /\ pending[u] # 0
  /\ flusher' = [pc |-> "store", todo |-> flusher.todo \ {u}, user |-> u,
                 delta |-> pending[u]]
  /\ UNCHANGED <<storage, session, db, pending, scan, clean>>
  /\ Observe

\* provider.updateQuota adds what was read.
FlushStore ==
  /\ flusher.pc = "store"
  /\ db' = [db EXCEPT ![flusher.user] = @ + flusher.delta]
  /\ flusher' = [flusher EXCEPT !.pc = "settle"]
  /\ UNCHANGED <<storage, session, pending, scan, clean>>
  /\ Observe

\* provider.updateQuota fails: the update stays pending.
FlushStoreError ==
  /\ ProviderErrors
  /\ flusher.pc = "store"
  /\ flusher' = [flusher EXCEPT !.pc = "pick"]
  /\ UNCHANGED <<storage, session, db, pending, scan, clean>>
  /\ Observe

\* Mutant of FlushSettle: the entry is deleted instead of decreased.
FlushSettleDelete ==
  /\ flusher.pc = "settle"
  /\ pending' = [pending EXCEPT ![flusher.user] = 0]
  /\ flusher' = [flusher EXCEPT !.pc = "pick"]
  /\ UNCHANGED <<storage, session, db, scan, clean>>
  /\ Observe

\* updateUserQuota(username, -files, -size)
FlushSettle ==
  /\ flusher.pc = "settle"
  /\ pending' = [pending EXCEPT ![flusher.user] = @ - flusher.delta]
  /\ flusher' = [flusher EXCEPT !.pc = "pick"]
  /\ UNCHANGED <<storage, session, db, scan, clean>>
  /\ Observe

\* The cycle is over and the loop sleeps again.
FlushEnd ==
  /\ flusher.pc = "pick"
  /\ flusher.todo = {}
  /\ flusher' = Asleep
  /\ UNCHANGED <<storage, session, db, pending, scan, clean>>
  /\ Observe

-----------------------------------------------------------------------------
\* startQuotaScan: AddUserQuotaScan admits one scan per user.
StartScan(u) ==
  /\ TrackQuota # 0
  /\ scan[u].pc = "none"
  /\ scan' = [scan EXCEPT ![u] = [pc |-> "walk", total |-> 0,
                                  overlap |-> \E s \in Sessions : session[s].user = u]]
  /\ UNCHANGED <<storage, session, db, pending, flusher, clean>>
  /\ Observe

\* updateUserQuotaUsage, mode reset: the administrator's numbers stand for
\* those of a scan.
ResetQuotaUsage(u, total) ==
  /\ TrackQuota # 0
  /\ scan[u].pc = "none"
  /\ scan' = [scan EXCEPT ![u] = [pc |-> "reset", total |-> total, overlap |-> TRUE]]
  /\ UNCHANGED <<storage, session, db, pending, flusher, clean>>
  /\ Observe

\* updateUserQuotaUsage, mode add, which holds the place of a scan while it
\* runs.
AddQuotaUsage(u, delta) ==
  /\ Tracked(u)
  /\ scan[u].pc = "none"
  /\ delta > 0
  /\ db[u] + pending[u] - storage[u] \in -MaxDrift..MaxDrift
  /\ db' = IF Delayed THEN db ELSE [db EXCEPT ![u] = @ + delta]
  /\ pending' = IF Delayed THEN [pending EXCEPT ![u] = @ + delta] ELSE pending
  /\ clean' = [clean EXCEPT ![u] = FALSE]
  /\ UNCHANGED <<storage, session, flusher, scan>>
  /\ Observe

\* doQuotaScan: ScanQuota adds up the files.
ScanQuota(u) ==
  /\ scan[u].pc = "walk"
  /\ scan' = [scan EXCEPT ![u].pc = "reset", ![u].total = storage[u]]
  /\ UNCHANGED <<storage, session, db, pending, flusher, clean>>
  /\ Observe

\* doQuotaScan: ScanQuota fails and the scan is removed.
ScanQuotaError(u) ==
  /\ scan[u].pc = "walk"
  /\ scan' = [scan EXCEPT ![u] = NoScan]
  /\ UNCHANGED <<storage, session, db, pending, flusher, clean>>
  /\ Observe

\* UpdateUserQuota(reset): resetUserQuota drops the pending updates.
ResetPending(u) ==
  /\ scan[u].pc = "reset"
  /\ pending' = [pending EXCEPT ![u] = 0]
  /\ scan' = [scan EXCEPT ![u].pc = "save"]
  /\ UNCHANGED <<storage, session, db, flusher, clean>>
  /\ Observe

\* Mutant of ResetStore: the total is added instead of stored.
ResetStoreAdds(u) ==
  /\ scan[u].pc = "save"
  /\ db' = [db EXCEPT ![u] = @ + scan[u].total]
  /\ clean' = [clean EXCEPT ![u] = ~scan[u].overlap]
  /\ scan' = [scan EXCEPT ![u] = NoScan]
  /\ UNCHANGED <<storage, session, pending, flusher>>
  /\ Observe

\* UpdateUserQuota(reset): the provider stores the total; the scan is removed.
ResetStore(u) ==
  /\ scan[u].pc = "save"
  /\ db' = [db EXCEPT ![u] = scan[u].total]
  /\ clean' = [clean EXCEPT ![u] = ~scan[u].overlap]
  /\ scan' = [scan EXCEPT ![u] = NoScan]
  /\ UNCHANGED <<storage, session, pending, flusher>>
  /\ Observe

\* UpdateUserQuota(reset): the provider fails; the scan is removed.
ResetStoreError(u) ==
  /\ ProviderErrors
  /\ scan[u].pc = "save"
  /\ scan' = [scan EXCEPT ![u] = NoScan]
  /\ UNCHANGED <<storage, session, db, pending, flusher, clean>>
  /\ Observe

-----------------------------------------------------------------------------
\* GetUsedQuota reads the provider...
ReadProvider(r, u) ==
  /\ reader[r].pc # "half"
  /\ reader' = [reader EXCEPT ![r] = [pc |-> "half", user |-> u,
                                      value |-> db[u], seen |-> {Used(u)}]]
  /\ UNCHANGED <<storage, session, db, pending, flusher, scan, clean>>

\* ... and then adds the pending quota.
ReadPending(r) ==
  /\ reader[r].pc = "half"
  /\ reader' = [reader EXCEPT ![r].pc = "done",
                              ![r].value = @ + pending[reader[r].user]]
  /\ UNCHANGED <<storage, session, db, pending, flusher, scan, clean>>

-----------------------------------------------------------------------------
Flush ==
  \/ FlushStart \/ FlushStore \/ FlushStoreError \/ FlushSettle \/ FlushEnd
  \/ \E u \in Users : FlushSkip(u) \/ FlushRead(u)

Next ==
  \/ \E s \in Sessions, u \in Users, delta \in Sizes : ChangeStorage(s, u, delta)
  \/ \E s \in Sessions : UpdateIgnored(s)
  \/ \E s \in Sessions : UpdateDelayed(s)
  \/ \E s \in Sessions : UpdateDirect(s)
  \/ \E s \in Sessions : UpdateDirectError(s)
  \/ Flush
  \/ \E u \in ScanUsers : StartScan(u)
  \/ \E u \in ScanUsers, total \in 0..MaxStorage : ResetQuotaUsage(u, total)
  \/ \E u \in ScanUsers, delta \in Sizes : AddQuotaUsage(u, delta)
  \/ \E u \in Users : ScanQuota(u)
  \/ \E u \in Users : ScanQuotaError(u)
  \/ \E u \in Users : ResetPending(u)
  \/ \E u \in Users : ResetStore(u)
  \/ \E u \in Users : ResetStoreError(u)
  \/ \E r \in Readers, u \in Users : ReadProvider(r, u)
  \/ \E r \in Readers : ReadPending(r)

Spec == Init /\ [][Next]_vars

\* The loop of the delayed updater never stops, a session ends up reporting
\* what it did, and the provider does not fail forever for any user.
FairSpec ==
  /\ Spec
  /\ WF_vars(Flush)
  /\ \A u \in Users : SF_vars(FlushStore /\ flusher.user = u)
  /\ \A s \in Sessions : WF_vars(UpdateDelayed(s))

-----------------------------------------------------------------------------
\* Without lost reports and without storage changes that overlap a scan, the
\* used quota plus what sessions have still to report is what is on storage:
\* no flush, failed flush or scan loses or doubles an update.
QuotaExact ==
  \A u \in Users : clean[u] /\ scan[u].pc # "save" =>
    Used(u) + Unreported(u) = storage[u]


\* Once the sessions stop changing files, the provider ends up with exactly
\* what is on storage, although the provider fails from time to time.
EventuallyStored ==
  \A u \in Users :
    (<>[][~ \E s \in Sessions, delta \in Sizes : ChangeStorage(s, u, delta)]_vars)
      => <>[](db[u] = storage[u] /\ pending[u] = 0)

\* The updater, the provider and the scans together behave as one number per
\* user.
Ledger == INSTANCE QuotaLedger WITH
  used <- [u \in Users |-> Used(u)], Changes <- Sizes,
  Totals <- IF ScanUsers = {} THEN {} ELSE 0..MaxStorage
LedgerSpec == Ledger!Spec
=============================================================================
