--------------------------- MODULE VirtualFolders ---------------------------
(***************************************************************************)
(* Renames between the home directory of a user and virtual folders        *)
(* (BaseConnection.Rename and what it calls): which ones are allowed, the  *)
(* space they need, and how they change the quota of the user and of the   *)
(* folders.  Every folder has a used quota of its own; the files of an     *)
(* included folder count for the user as well.                             *)
(*                                                                         *)
(* An entry is a file, a symbolic link or a directory with all it          *)
(* contains, as the number and the size of its regular files.              *)
(***************************************************************************)
EXTENDS Integers, FiniteSets, FiniteSetsExt

CONSTANTS
  Home,           \* the home directory
  Folders,        \* virtual folders
  Names,          \* names of entries
  Sessions,       \* connections of the user
  Configs         \* configurations of the folders, with what clients store there

Places == {Home} \cup Folders

\* A limit of 0 means no limit; the last two fields are bounds of the model: on
\* the files of a directory, and on the error of a quota before further links
\* are made.
Config == [
  places : SUBSET Places,                         \* those the clients use
  included : SUBSET Folders,                      \* included in the user quota
  local : SUBSET Places,                          \* on the local filesystem
  quotaFiles : [Places -> Nat], quotaSize : [Places -> Nat],   \* Home for the user
  fileSizes : SUBSET (1..10),                     \* sizes of uploaded files
  links : SUBSET {"file", "dir", "nothing"},      \* what symbolic links lead to
  maxFiles : Nat, maxDrift : Nat]

ASSUME FoldersAssumption == Home \notin Folders /\ Configs \subseteq Config

VARIABLES
  config,     \* set by the administrator
  entry,      \* what a name leads to in a place
  used,       \* used quota of the user (at Home) and of the folders
  rename      \* the rename each session is in

vars == <<config, entry, used, rename>>

Tally == [files : Int, size : Int]
None == [kind |-> "none", files |-> 0, size |-> 0]
Link(t) == [kind |-> "link", files |-> 0, size |-> 0, to |-> t]
File(n) == [kind |-> "file", files |-> 1, size |-> n]
Dir(k, n) == [kind |-> "dir", files |-> k, size |-> n]

NoRename == [pc |-> "none"]
Checked == [pc : {"checked", "renamed"}, from : Places \X Names, to : Places \X Names,
            initialSize : Int, before : Tally]

TypeOK ==
  /\ config \in Configs
  /\ \A p \in Places, n \in Names :
       entry[p][n].kind \in {"none", "link", "file", "dir"} /\ entry[p][n].files \in Nat
  /\ used \in [Places -> IF config.links = {} THEN [files : Nat, size : Nat] ELSE Tally]
  /\ \A s \in Sessions : rename[s] \in {NoRename} \cup Checked

Init ==
  /\ config \in Configs
  /\ entry = [p \in Places |-> [n \in Names |-> None]]
  /\ used = [p \in Places |-> [files |-> 0, size |-> 0]]
  /\ rename = [s \in Sessions |-> NoRename]

-----------------------------------------------------------------------------
At(x) == entry[x[1]][x[2]]

\* An entry is used by one client at a time.
Free(x) == \A s \in Sessions : rename[s].pc # "none" => x \notin {rename[s].from, rename[s].to}

Put(x, e) == [entry EXCEPT ![x[1]][x[2]] = e]

\* The quotas a change in a place counts for: UpdateVirtualFolderQuota, and
\* UpdateUserQuota if the folder is included.
ChargedFor(p) == {p} \cup IF p \in config.included THEN {Home} ELSE {}

\* The used quotas u after a change in p.
Charge(u, p, files, size) ==
  [q \in Places |-> IF q \in ChargedFor(p)
                    THEN [files |-> u[q].files + files, size |-> u[q].size + size]
                    ELSE u[q]]

\* The quota that limits uploads to a place.
Owner(p) == IF p \in config.included THEN Home ELSE p

HasSpace(p) ==
  LET q == Owner(p)
  IN  /\ config.quotaFiles[q] > 0 => used[q].files < config.quotaFiles[q]
      /\ config.quotaSize[q] > 0 => used[q].size < config.quotaSize[q]

\* The regular files of a place.
Content(p) ==
  [files |-> MapThenSumSet(LAMBDA n : entry[p][n].files, Names),
   size |-> MapThenSumSet(LAMBDA n : entry[p][n].size, Names)]

\* The used quota a scan of the storage would find (User.ScanQuota and
\* VirtualFolder.ScanQuota).
Scan(p) ==
  IF p # Home THEN Content(p)
  ELSE LET counted == {Home} \cup config.included
       IN  [files |-> MapThenSumSet(LAMBDA q : Content(q).files, counted),
            size |-> MapThenSumSet(LAMBDA q : Content(q).size, counted)]

\* A completed upload of a new file.
Upload(x, n) ==
  /\ Free(x) /\ At(x) = None /\ HasSpace(x[1])
  /\ entry' = Put(x, File(n))
  /\ used' = Charge(used, x[1], 1, n)
  /\ UNCHANGED <<config, rename>>

\* A completed upload of a new file into a directory.
UploadInto(x, n) ==
  /\ Free(x) /\ At(x).kind = "dir" /\ At(x).files < config.maxFiles /\ HasSpace(x[1])
  /\ entry' = Put(x, Dir(At(x).files + 1, At(x).size + n))
  /\ used' = Charge(used, x[1], 1, n)
  /\ UNCHANGED <<config, rename>>

CreateDir(x) ==
  /\ Free(x) /\ At(x) = None
  /\ entry' = Put(x, Dir(0, 0))
  /\ UNCHANGED <<config, used, rename>>

\* The target of a link is in the same place.
CreateSymlink(x, t) ==
  /\ Free(x) /\ At(x) = None
  /\ \A p \in Places : used[p].files - Scan(p).files \in -config.maxDrift..config.maxDrift
  /\ entry' = Put(x, Link(t))
  /\ UNCHANGED <<config, used, rename>>

\* RemoveFile: links do not count.
RemoveFile(x) ==
  /\ Free(x) /\ At(x).kind \in {"file", "link"}
  /\ entry' = Put(x, None)
  /\ used' = IF At(x).kind = "link" THEN used ELSE Charge(used, x[1], -1, -At(x).size)
  /\ UNCHANGED <<config, rename>>

RemoveDir(x) ==
  /\ Free(x) /\ At(x) = Dir(0, 0)
  /\ entry' = Put(x, None)
  /\ UNCHANGED <<config, used, rename>>

\* webdavd removeDirTree: RemoveFile for all files, then RemoveDir.
removeDirTree(x) ==
  /\ Free(x) /\ At(x).kind = "dir"
  /\ entry' = Put(x, None)
  /\ used' = Charge(used, x[1], -At(x).files, -At(x).size)
  /\ UNCHANGED <<config, rename>>

-----------------------------------------------------------------------------
isLocalOrSameFolderRename(p, q) == p = q \/ {p, q} \subseteq config.local

GetRemaining(limit, value) == IF limit > 0 THEN limit - value ELSE 0


\* Whether there is space in p for the entry that is moved there.
hasSpaceForCrossRename(p, source, initialSize) ==
  LET q == Owner(p)
      replaces == initialSize # -1
      sizeDiff == IF replaces /\ source.kind = "file" THEN source.size - initialSize ELSE source.size
      filesDiff == IF replaces /\ source.kind = "file" THEN 0 ELSE source.files
  IN  IF ~HasSpace(p)
      THEN /\ replaces
           /\ config.quotaSize[q] > 0 => GetRemaining(config.quotaSize[q], used[q].size + sizeDiff) >= 0
      ELSE /\ config.quotaFiles[q] > 0 => GetRemaining(config.quotaFiles[q], used[q].files) >= filesDiff
           /\ config.quotaSize[q] > 0 => GetRemaining(config.quotaSize[q], used[q].size) >= sizeDiff

hasSpaceForRename(p, q, source, initialSize) ==
  \/ p = q
  \/ p = Home /\ q \in config.included
  \/ hasSpaceForCrossRename(q, source, initialSize)

\* Rename up to the call of fs.Rename.  "before" is a history variable.
RenameCheck(s, x, y) ==
  LET initialSize == IF At(y).kind = "file" THEN At(y).size ELSE -1
  IN  /\ rename[s] = NoRename /\ x # y /\ Free(x) /\ Free(y)
      /\ At(x) # None /\ At(y).kind # "dir"
      /\ isLocalOrSameFolderRename(x[1], y[1])
      /\ hasSpaceForRename(x[1], y[1], At(x), initialSize)
      /\ rename' = [rename EXCEPT ![s] =
           [pc |-> "checked", from |-> x, to |-> y, initialSize |-> initialSize,
            before |-> used[Owner(y[1])]]]
      /\ UNCHANGED <<config, entry, used>>

\* fs.Rename; a directory cannot replace a file.
RenameEntry(s) ==
  LET r == rename[s]
  IN  /\ r.pc = "checked"
      /\ IF At(r.from).kind = "dir" /\ At(r.to) # None
         THEN /\ rename' = [rename EXCEPT ![s] = NoRename]
              /\ UNCHANGED entry
         ELSE /\ rename' = [rename EXCEPT ![s].pc = "renamed"]
              /\ entry' = [Put(r.to, At(r.from)) EXCEPT ![r.from[1]][r.from[2]] = None]
      /\ UNCHANGED <<config, used>>

updateQuotaMoveBetweenVFolders(p, q, initialSize, filesSize, numFiles) ==
  LET source == Charge(used, p, -numFiles, -filesSize)
  IN  IF p = q
      THEN IF initialSize # -1 THEN Charge(used, q, -numFiles, -initialSize) ELSE used
      ELSE IF initialSize = -1
      THEN Charge(source, q, numFiles, filesSize)
      ELSE Charge(source, q, 0, filesSize - initialSize)

\* Mutant of updateQuotaMoveFromVFolder: a directory counts as one file.
MoveFromVFolderOne(p, initialSize, filesSize, numFiles) ==
  LET source == Charge(used, p, -numFiles, -filesSize)
  IN  IF initialSize = -1
      THEN Charge(source, Home, 1, filesSize)
      ELSE Charge(source, Home, 0, filesSize - initialSize)

updateQuotaMoveFromVFolder(p, initialSize, filesSize, numFiles) ==
  LET source == Charge(used, p, -numFiles, -filesSize)
  IN  IF initialSize = -1
      THEN Charge(source, Home, numFiles, filesSize)
      ELSE Charge(source, Home, 0, filesSize - initialSize)

\* Mutant of updateQuotaMoveToVFolder: every rename is taken for a replacement.
MoveToVFolderReplaces(q, initialSize, filesSize, numFiles) ==
  Charge(Charge(used, Home, -numFiles, -filesSize), q, 0, filesSize - initialSize)

updateQuotaMoveToVFolder(q, initialSize, filesSize, numFiles) ==
  LET source == Charge(used, Home, -numFiles, -filesSize)
  IN  IF initialSize = -1
      THEN Charge(source, q, numFiles, filesSize)
      ELSE Charge(source, q, 0, filesSize - initialSize)

\* What fs.Stat and GetDirSize report for a moved entry: Stat follows a link,
\* GetDirSize does not.
Stat(e) ==
  [files |-> IF e.kind = "link" /\ e.to = "file" THEN 1 ELSE e.files,
   size |-> IF e.kind = "link" /\ e.to = "file" THEN Max(config.fileSizes) ELSE e.size]

\* updateQuotaAfterRename
RenameQuota(s) ==
  LET r == rename[s]
      p == r.from[1]
      q == r.to[1]
      moved == At(r.to)
      stat == Stat(moved)
  IN  /\ r.pc = "renamed"
      /\ used' = IF p = Home /\ q = Home
                 THEN IF r.initialSize # -1 THEN Charge(used, Home, -1, -r.initialSize) ELSE used
                 ELSE IF moved.kind = "link" /\ moved.to = "nothing"
                 THEN used
                 ELSE IF p # Home /\ q # Home
                 THEN updateQuotaMoveBetweenVFolders(p, q, r.initialSize, stat.size, stat.files)
                 ELSE IF p # Home
                 THEN updateQuotaMoveFromVFolder(p, r.initialSize, stat.size, stat.files)
                 ELSE updateQuotaMoveToVFolder(q, r.initialSize, stat.size, stat.files)
      /\ rename' = [rename EXCEPT ![s] = NoRename]
      /\ UNCHANGED <<config, entry>>

Next ==
  \/ \E x \in config.places \X Names, n \in config.fileSizes : Upload(x, n)
  \/ \E x \in config.places \X Names, n \in config.fileSizes : UploadInto(x, n)
  \/ \E x \in config.places \X Names : CreateDir(x)
  \/ \E x \in config.places \X Names, t \in config.links : CreateSymlink(x, t)
  \/ \E x \in config.places \X Names : RemoveFile(x)
  \/ \E x \in config.places \X Names : RemoveDir(x)
  \/ \E x \in config.places \X Names : removeDirTree(x)
  \/ \E s \in Sessions, x, y \in config.places \X Names : RenameCheck(s, x, y)
  \/ \E s \in Sessions : RenameEntry(s)
  \/ \E s \in Sessions : RenameQuota(s)

Spec == Init /\ [][Next]_vars

-----------------------------------------------------------------------------
\* Whenever no rename is in progress, the used quota of the user is the sum of
\* the home directory and the included folders, and that of a folder the sum
\* of its files: a rename moves each file from one account to the other, for
\* all combinations of places, included or not, and of replaced entries (files
\* and directories; links are another matter).
QuotaFollowsFiles ==
  config.links = {} /\ (\A s \in Sessions : rename[s] = NoRename) =>
    \A p \in Places : used[p] = Scan(p)

=============================================================================
