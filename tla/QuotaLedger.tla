---------------------------- MODULE QuotaLedger -----------------------------
(***************************************************************************)
(* What quota tracking promises (dataprovider.UpdateUserQuota and          *)
(* UpdateVirtualFolderQuota): one number per user or folder, which every   *)
(* reported change adds to and every quota scan replaces.                  *)
(***************************************************************************)
EXTENDS Integers

CONSTANTS
  Users,    \* user names, or virtual folder names
  Changes,  \* what may be reported
  Totals    \* what a scan may find

VARIABLE used   \* used quota of each of them

Init == used = [u \in Users |-> 0]

\* UpdateUserQuota(user, ..., reset = false)
Add(u, change) == used' = [used EXCEPT ![u] = @ + change]

\* UpdateUserQuota(user, ..., reset = true)
Reset(u, total) == used' = [used EXCEPT ![u] = total]

Next ==
  \E u \in Users :
    \/ \E change \in Changes : Add(u, change)
    \/ \E total \in Totals : Reset(u, total)

Spec == Init /\ [][Next]_used
=============================================================================
