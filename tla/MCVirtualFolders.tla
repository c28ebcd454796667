-------------------------- MODULE MCVirtualFolders --------------------------
\* Configurations of virtual folders for TLC: f1 is included in the user quota.
EXTENDS VirtualFolders, TLC

CONSTANTS home, f1, f2

NoLimit == [p \in Places |-> 0]
Two == [p \in Places |-> 2]

Base == [places |-> Places, included |-> {f1}, local |-> Places,
         quotaFiles |-> NoLimit, quotaSize |-> NoLimit, fileSizes |-> {1},
         links |-> {}, maxFiles |-> 1, maxDrift |-> 0]

AllConfigs == {
  \* files of two sizes, with limits on the size
  [Base EXCEPT !.quotaSize = Two, !.fileSizes = {1, 2}],
  \* directories with several files, with limits on their number; f1 is remote
  [Base EXCEPT !.quotaFiles = Two, !.maxFiles = 2, !.local = {home, f2}],
  \* symbolic links between the home directory and a folder
  [Base EXCEPT !.places = {home, f2}, !.included = {}, !.quotaFiles = Two,
               !.links = {"file", "dir", "nothing"}]}

Symmetry == Permutations(Names) \cup Permutations(Sessions)
=============================================================================
