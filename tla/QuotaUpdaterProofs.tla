------------------------- MODULE QuotaUpdaterProofs -------------------------
(***************************************************************************)
(* The delayed updater implements the ledger, for any number of users and  *)
(* sessions, in the two configurations in which it does: no quota scan     *)
(* runs, or updates are immediate.                                         *)
(***************************************************************************)
EXTENDS QuotaUpdater, TLAPS

\* Scans do not meet a delayed updater.
NoRace == Delayed => ScanUsers = {}

\* What the balance rests on.
LedgerInv ==
  /\ session \in [Sessions -> {Idle} \cup [user : Users, delta : Sizes]]
  /\ storage \in [Users -> 0..MaxStorage]
  /\ db \in [Users -> Int]
  /\ pending \in [Users -> Int]
  /\ flusher \in FlusherState
  /\ flusher.pc \in {"store", "settle"} => flusher.user \in Users
  /\ scan \in [Users -> ScanState]
  /\ ScanUsers = {} => \A u \in Users : scan[u].pc = "none"
  /\ ~Delayed => flusher.pc = "sleep" /\ \A u \in Users : pending[u] = 0

\* The balance of every user, as the ledger sees it.
Balances == [u \in Users |-> Used(u)]

-----------------------------------------------------------------------------
\* The balances start at zero and LedgerInv holds initially.
LEMMA LedgerInit == Init => LedgerInv /\ Ledger!Init
<1> SUFFICES ASSUME Init PROVE LedgerInv /\ Ledger!Init
  OBVIOUS
<1> USE ConfigAssumption DEF Init, Asleep, NoScan, ScanState, FlusherState
<1>1. LedgerInv
  BY DEF LedgerInv
<1>2. \A u \in Users : Used(u) = 0
  BY DEF Used, Balance, InFlight
<1> QED BY <1>1, <1>2 DEF Ledger!Init

\* A report changes one balance by what was reported.
LEMMA ReportAdds ==
  ASSUME LedgerInv, NEW s \in Sessions, UpdateDelayed(s) \/ UpdateDirect(s)
  PROVE  LedgerInv' /\ Ledger!Next
<1> DEFINE u == session[s].user
           delta == session[s].delta
<1>0. session[s] # Idle
  BY DEF UpdateDelayed, UpdateDirect
<1>1. u \in Users /\ delta \in Sizes /\ delta \in Int
  BY <1>0, ConfigAssumption DEF LedgerInv
<1>2. LedgerInv'
  <2>1. session' \in [Sessions -> {Idle} \cup [user : Users, delta : Sizes]]
    BY DEF LedgerInv, UpdateDelayed, UpdateDirect
  <2> QED BY <1>1, <2>1 DEF LedgerInv, UpdateDelayed, UpdateDirect
<1>3. \A v \in Users :
        Used(v)' = IF v = u THEN Used(v) + delta ELSE Used(v)
  <2>1. CASE UpdateDelayed(s)
    BY <2>1, <1>1 DEF LedgerInv, UpdateDelayed, Used, Balance, InFlight, FlusherState
  <2>2. CASE UpdateDirect(s)
    BY <2>2, <1>1 DEF LedgerInv, UpdateDirect, Used, Balance, InFlight
  <2> QED BY <2>1, <2>2
<1>4. Ledger!Add(u, delta)
  BY <1>1, <1>3 DEF Ledger!Add
<1> QED BY <1>1, <1>2, <1>4 DEF Ledger!Next

\* So does an administrator who adds to the used quota.
LEMMA UsageAdds ==
  ASSUME LedgerInv, NEW u \in ScanUsers, NEW delta \in Sizes,
         AddQuotaUsage(u, delta)
  PROVE  LedgerInv' /\ Ledger!Next
<1>1. u \in Users /\ delta \in Int
  BY ConfigAssumption
<1>2. /\ db' \in [Users -> Int]
      /\ pending' \in [Users -> Int]
      /\ \A v \in Users : ~Delayed => pending'[v] = pending[v]
  BY <1>1, ConfigAssumption DEF LedgerInv, AddQuotaUsage
<1>3. LedgerInv'
  BY <1>2 DEF LedgerInv, AddQuotaUsage
<1>4. \A v \in Users :
        Used(v)' = IF v = u THEN Used(v) + delta ELSE Used(v)
  BY <1>1 DEF LedgerInv, AddQuotaUsage, Used, Balance, InFlight, FlusherState
<1>5. Ledger!Add(u, delta)
  BY <1>1, <1>4 DEF Ledger!Add
<1> QED BY <1>1, <1>3, <1>5 DEF Ledger!Next

\* The flusher moves updates from the pending map to the provider without
\* changing any balance.
LEMMA FlushKeepsBalances ==
  ASSUME LedgerInv, Flush
  PROVE  LedgerInv' /\ Balances' = Balances
<1> SUFFICES LedgerInv' /\ \A v \in Users : Used(v)' = Used(v)
  BY DEF Balances
<1> USE DEF LedgerInv, Used, Balance, InFlight, FlusherState
<1>1. CASE FlushStart
  BY <1>1 DEF FlushStart
<1>2. ASSUME NEW u \in Users, FlushSkip(u) \/ FlushRead(u)
      PROVE  LedgerInv' /\ \A v \in Users : Used(v)' = Used(v)
  BY <1>2 DEF FlushSkip, FlushRead
<1>3. CASE FlushStore
  BY <1>3 DEF FlushStore
<1>4. CASE FlushStoreError
  BY <1>4 DEF FlushStoreError
<1>5. CASE FlushSettle
  <2>1. flusher.user \in Users /\ flusher.delta \in Int /\ Delayed
    BY <1>5 DEF FlushSettle
  <2>2. LedgerInv'
    <3>1. pending' \in [Users -> Int]
      BY <1>5, <2>1 DEF FlushSettle
    <3>2. flusher' \in FlusherState /\ flusher'.pc = "pick"
      BY <1>5 DEF FlushSettle
    <3> QED BY <1>5, <2>1, <3>1, <3>2 DEF FlushSettle
  <2>3. \A v \in Users : Used(v)' = Used(v)
    BY <1>5, <2>1 DEF FlushSettle
  <2> QED BY <2>2, <2>3
<1>6. CASE FlushEnd
  BY <1>6 DEF FlushEnd, Asleep
<1> QED BY <1>1, <1>2, <1>3, <1>4, <1>5, <1>6 DEF Flush

\* The part of LedgerInv about scans.
ScanTyped ==
  /\ scan \in [Users -> ScanState]
  /\ ScanUsers = {} => \A u \in Users : scan[u].pc = "none"

\* Steps that touch neither the provider nor the pending map.
LEMMA OtherKeepsBalances ==
  ASSUME LedgerInv,
         \/ \E s \in Sessions, u \in Users, d \in Sizes : ChangeStorage(s, u, d)
         \/ \E s \in Sessions : UpdateIgnored(s) \/ UpdateDirectError(s)
         \/ \E u \in ScanUsers : StartScan(u)
         \/ \E u \in ScanUsers, total \in 0..MaxStorage : ResetQuotaUsage(u, total)
         \/ \E u \in Users : ScanQuota(u) \/ ScanQuotaError(u) \/ ResetStoreError(u)
         \/ \E r \in Readers, u \in Users : ReadProvider(r, u)
         \/ \E r \in Readers : ReadPending(r)
         \/ UNCHANGED vars
  PROVE  LedgerInv' /\ Balances' = Balances
<1>u. UNCHANGED <<db, pending, flusher>>
  BY DEF ChangeStorage, UpdateIgnored, UpdateDirectError, StartScan, ResetQuotaUsage, ScanQuota,
         ScanQuotaError, ResetStoreError, ReadProvider, ReadPending, vars
<1>b. Balances' = Balances
  BY <1>u DEF Balances, Used
<1>s. /\ session' \in [Sessions -> {Idle} \cup [user : Users, delta : Sizes]]
      /\ storage' \in [Users -> 0..MaxStorage]
  <2>1. ASSUME NEW s \in Sessions, NEW u \in Users, NEW d \in Sizes,
               ChangeStorage(s, u, d)
        PROVE  <1>s!1 /\ <1>s!2
    BY <2>1 DEF LedgerInv, ChangeStorage
  <2>2. ASSUME NEW s \in Sessions, UpdateIgnored(s) \/ UpdateDirectError(s)
        PROVE  <1>s!1 /\ <1>s!2
    BY <2>2 DEF LedgerInv, UpdateIgnored, UpdateDirectError
  <2>3. ASSUME UNCHANGED <<session, storage>>
        PROVE  <1>s!1 /\ <1>s!2
    BY <2>3 DEF LedgerInv
  <2> QED
    BY <2>1, <2>2, <2>3 DEF StartScan, ResetQuotaUsage, ScanQuota, ScanQuotaError,
       ResetStoreError, ReadProvider, ReadPending, vars
<1>c. ScanTyped'
  <2> ScanTyped
    BY DEF LedgerInv, ScanTyped
  <2>1. ASSUME NEW s \in Sessions, NEW u \in Users, NEW d \in Sizes,
               ChangeStorage(s, u, d)
        PROVE  ScanTyped'
    <3>1. scan' = [scan EXCEPT ![u] = [scan[u] EXCEPT
                                         !.overlap = @ \/ scan[u].pc # "none"]]
      BY <2>1 DEF ChangeStorage
    <3>t. scan[u] \in ScanState
      BY DEF ScanTyped
    <3>2. [scan[u] EXCEPT !.overlap = @ \/ scan[u].pc # "none"] \in ScanState
      BY <3>t DEF ScanState
    <3>3. [scan[u] EXCEPT !.overlap = @ \/ scan[u].pc # "none"].pc = scan[u].pc
      BY <3>t DEF ScanState
    <3> QED BY <3>1, <3>2, <3>3 DEF ScanTyped
  <2>2. ASSUME NEW u \in ScanUsers, StartScan(u)
        PROVE  ScanTyped'
    <3>1. PICK b \in BOOLEAN : scan' = [scan EXCEPT
            ![u] = [pc |-> "walk", total |-> 0, overlap |-> b]]
      BY <2>2 DEF StartScan
    <3> QED BY <3>1, ConfigAssumption DEF ScanTyped, ScanState
  <2>r. ASSUME NEW u \in ScanUsers, NEW total \in 0..MaxStorage,
               ResetQuotaUsage(u, total)
        PROVE  ScanTyped'
    BY <2>r, ConfigAssumption DEF ScanTyped, ScanState, ResetQuotaUsage
  <2>3. ASSUME NEW u \in Users, ScanQuota(u)
        PROVE  ScanTyped'
    <3>1. scan' = [scan EXCEPT ![u] = [scan[u] EXCEPT !.pc = "reset",
                                                      !.total = storage[u]]]
      BY <2>3 DEF ScanQuota
    <3>t. scan[u] \in ScanState /\ storage[u] \in 0..MaxStorage
      BY DEF LedgerInv
    <3>2. [scan[u] EXCEPT !.pc = "reset", !.total = storage[u]] \in ScanState
      BY <3>t DEF ScanState
    <3>3. ScanUsers # {}
      BY <2>3 DEF ScanTyped, ScanQuota
    <3> QED BY <3>1, <3>2, <3>3 DEF ScanTyped
  <2>4. ASSUME NEW u \in Users, ScanQuotaError(u) \/ ResetStoreError(u)
        PROVE  ScanTyped'
    <3>1. scan' = [scan EXCEPT ![u] = NoScan]
      BY <2>4 DEF ScanQuotaError, ResetStoreError
    <3>2. NoScan \in ScanState /\ NoScan.pc = "none"
      BY ConfigAssumption DEF NoScan, ScanState
    <3> QED BY <3>1, <3>2 DEF ScanTyped
  <2>5. ASSUME UNCHANGED scan
        PROVE  ScanTyped'
    BY <2>5 DEF ScanTyped
  <2> QED
    BY <2>1, <2>2, <2>r, <2>3, <2>4, <2>5
    DEF UpdateIgnored, UpdateDirectError, ReadProvider, ReadPending, vars
<1> QED BY <1>u, <1>b, <1>s, <1>c DEF LedgerInv, ScanTyped

\* A scan that meets no delayed updater replaces one balance by the total.
LEMMA ScanResets ==
  ASSUME LedgerInv, NoRace, NEW u \in Users, ResetPending(u) \/ ResetStore(u)
  PROVE  LedgerInv' /\ (Balances' = Balances \/ Ledger!Next)
<1>1. scan[u].pc # "none"
  BY DEF ResetPending, ResetStore
<1>2. ScanUsers # {} /\ ~Delayed
  BY <1>1 DEF LedgerInv, NoRace
<1>3. LedgerInv'
  <2>1. [scan[u] EXCEPT !.pc = "save"] \in ScanState /\ NoScan \in ScanState
    BY ConfigAssumption DEF LedgerInv, ScanState, NoScan
  <2>2. scan' \in [Users -> ScanState]
    <3>1. \/ scan' = [scan EXCEPT ![u] = [scan[u] EXCEPT !.pc = "save"]]
          \/ scan' = [scan EXCEPT ![u] = NoScan]
      BY DEF ResetPending, ResetStore
    <3> QED BY <2>1, <3>1 DEF LedgerInv
  <2>3. db' \in [Users -> Int] /\ pending' \in [Users -> Int]
    BY ConfigAssumption DEF LedgerInv, ResetPending, ResetStore, ScanState
  <2> QED BY <1>2, <2>2, <2>3 DEF LedgerInv, ResetPending, ResetStore
<1>4. CASE ResetPending(u)
  <2>1. \A v \in Users : Used(v)' = Used(v)
    BY <1>2, <1>4 DEF LedgerInv, ResetPending, Used, Balance, InFlight
  <2> QED BY <1>3, <2>1 DEF Balances
<1>5. CASE ResetStore(u)
  <2> DEFINE total == scan[u].total
  <2>1. total \in 0..MaxStorage
    BY DEF LedgerInv, ScanState
  <2>2. \A v \in Users : Used(v)' = IF v = u THEN total ELSE Used(v)
    BY <1>2, <1>5, <2>1, ConfigAssumption
    DEF LedgerInv, ResetStore, Used, Balance, InFlight
  <2>3. Ledger!Reset(u, total)
    BY <2>2 DEF Ledger!Reset
  <2> QED BY <1>2, <1>3, <2>1, <2>3 DEF Ledger!Next
<1> QED BY <1>4, <1>5

\* Under NoRace the provider, the pending map, the flusher and the scans
\* behave as one number per user: every flush, failed flush, overlapping
\* report and scan is a step of the ledger or invisible to it.
THEOREM UpdaterImplementsLedger == NoRace => (Spec => LedgerSpec)
<1> SUFFICES ASSUME NoRace PROVE Spec => LedgerSpec
  OBVIOUS
<1>1. Init => LedgerInv /\ Ledger!Init
  BY LedgerInit
<1>2. LedgerInv /\ [Next]_vars => LedgerInv' /\ [Ledger!Next]_Balances
  BY ReportAdds, UsageAdds, FlushKeepsBalances, OtherKeepsBalances, ScanResets DEF Next
<1> QED BY <1>1, <1>2, PTL DEF Spec, LedgerSpec, Ledger!Spec, Balances

=============================================================================
