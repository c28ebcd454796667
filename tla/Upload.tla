------------------------------- MODULE Upload -------------------------------
(***************************************************************************)
(* Uploads: the open, write, truncate and close of an upload by SFTP, FTP, *)
(* WebDAV and SCP (common/transfer.go and the handlers of each protocol),  *)
(* together with removal, truncation and rename of files, against the      *)
(* storage and the quota of one user.                                      *)
(*                                                                         *)
(* A file is its size in units; a write adds one unit.  A path leads to an *)
(* inode, so a file that is renamed or removed while it is open behaves as *)
(* on a local filesystem.  The temporary path of an atomic upload is named *)
(* by its session.  How reported changes reach the data provider is        *)
(* modelled in QuotaUpdater: here they are immediate.                      *)
(***************************************************************************)
EXTENDS Integers, FiniteSets, FiniteSetsExt

CONSTANTS
  Names,      \* paths of files
  Sessions,   \* connections, each with one upload at a time
  Configs     \* configurations of the server, with the clients they meet

\* The settings of the server and of the user, and what the clients do.  A limit
\* of 0 means no limit; the last three fields are bounds of the model.
Config == [
  mode : 0..2,                                    \* upload_mode: 1 and 2 are atomic
  fs : {"local", "crypt", "cloud"},               \* the filesystem of the user
  trackQuota : BOOLEAN,                           \* track_quota is not 0
  quotaSize : Nat, quotaFiles : Nat, maxUploadFileSize : Nat,
  protocols : SUBSET {"SFTP", "FTP", "DAV", "SCP"},
  flags : SUBSET {"trunc", "append", "plain", "excl"},   \* open flags of SFTP and FTP
  truncates : SUBSET {"new", "existing", "path"},
  failures : SUBSET {"error", "abort"},
  shared : BOOLEAN,                               \* clients work on the same file
  maxNames : Nat, maxUploads : Nat, maxSize : Nat]

ASSUME UploadAssumption ==
  /\ IsFiniteSet(Names) /\ IsFiniteSet(Sessions) /\ Sessions # {}
  /\ Names \cap Sessions = {}
  /\ Configs \subseteq Config

VARIABLES
  config,     \* read at startup
  path,       \* the inode a path leads to
  size,       \* size of the inodes
  whole,      \* inodes whose last upload was completed by the client
  used,       \* used quota
  transfer    \* state of the sessions

vars == <<config, path, size, whole, used, transfer>>

NoInode == 0
Inodes == 1..(Cardinality(Names) + 2 * Cardinality(Sessions))
NoTransfer == [pc |-> "none"]

\* An upload before its file is open: "moved" while SCP has not checked the
\* quota yet, "checked" from then on.
Request == [pc : {"moved", "checked"}, proto : config.protocols, name : Names,
            how : {"new"} \cup config.flags \cup {"trunc"}, fileSize : Nat, max : Int]

Transfer == [pc : {"open", "closing"}, proto : config.protocols, name : Names, inode : Inodes,
             isNew : BOOLEAN, received : Nat, pos : Nat, min : Nat, initial : Nat,
             max : Int, err : {"none", "quota", "other"},
             abort : {"no", "signalled", "cut"}, numFiles : -1..1]

TypeOK ==
  /\ config \in Configs
  /\ path \in [Names \cup Sessions -> Inodes \cup {NoInode}]
  /\ size \in [Inodes -> Nat]
  /\ whole \in SUBSET Inodes
  /\ used \in [files : Int, size : Int]
  /\ \A s \in Sessions : transfer[s] \in {NoTransfer} \cup Request \cup Transfer

Init ==
  /\ config \in Configs
  /\ path = [p \in Names \cup Sessions |-> NoInode]
  /\ size = [i \in Inodes |-> 0]
  /\ whole = {}
  /\ used = [files |-> 0, size |-> 0]
  /\ transfer = [s \in Sessions |-> NoTransfer]

-----------------------------------------------------------------------------
\* IsAtomicUploadEnabled and IsAtomicUploadSupported
Atomic == config.mode # 0 /\ config.fs = "local"

\* Only a local filesystem gives the transfer a file (t.File # nil) and
\* supports resume; the others read from a pipe.
HasFile == config.fs = "local"

\* GetAtomicUploadPath
FilePath(s, n) == IF Atomic THEN s ELSE n

\* Unless files are shared, a file is used by one client at a time.
Free(n) ==
  ~config.shared => \A s \in Sessions : transfer[s].pc # "none" => transfer[s].name # n

IsOpen(s) == transfer[s].pc \in {"open", "closing"}

\* For the bounds.
Running == {s \in Sessions : transfer[s] # NoTransfer}
NamesInUse == {n \in Names : path[n] # NoInode} \cup {transfer[s].name : s \in Running}

FreshInode ==
  CHOOSE i \in Inodes :
    /\ \A p \in DOMAIN path : path[p] # i
    /\ \A s \in Sessions : IsOpen(s) => transfer[s].inode # i

\* UpdateUserQuota
Charge(files, bytes) ==
  used' = IF config.trackQuota
          THEN [files |-> used.files + files, size |-> used.size + bytes] ELSE used


HasSpace(checkFiles) ==
  config.trackQuota =>
    /\ checkFiles /\ config.quotaFiles > 0 => used.files < config.quotaFiles
    /\ config.quotaSize > 0 => used.size < config.quotaSize

GetRemainingSize ==
  IF config.trackQuota /\ config.quotaSize > 0 THEN config.quotaSize - used.size ELSE 0


GetMaxWriteSize(isResume, fileSize) ==
  LET remaining == GetRemainingSize
      quota == IF isResume \/ remaining = 0 THEN remaining ELSE remaining + fileSize
      limit == IF isResume THEN config.maxUploadFileSize - fileSize ELSE config.maxUploadFileSize
  IN  IF config.maxUploadFileSize > 0 /\ (limit < quota \/ quota = 0) THEN limit ELSE quota

\* GetMaxWriteSize returns no error for a resume.
CanResume(fileSize) ==
  HasFile /\ (config.maxUploadFileSize > 0 => fileSize < config.maxUploadFileSize)

-----------------------------------------------------------------------------
\* Lstat, then the request in its first state.  A temporary file left behind
\* keeps its name: that session makes no further uploads.
Lookup(s, n, proto, how, pc, max) ==
  /\ proto \in config.protocols
  /\ transfer[s] = NoTransfer /\ path[s] = NoInode /\ Free(n)
  /\ Cardinality(Running) < config.maxUploads
  /\ Cardinality(NamesInUse \cup {n}) <= config.maxNames
  /\ transfer' = [transfer EXCEPT ![s] =
       [pc |-> pc, proto |-> proto, name |-> n, max |-> max,
        how |-> IF path[n] = NoInode THEN "new" ELSE how,
        fileSize |-> IF path[n] = NoInode THEN 0 ELSE size[path[n]]]]
  /\ UNCHANGED <<config, size, whole, used>>

\* The checks SFTP, FTP and WebDAV make before they touch the storage: Lstat,
\* HasSpace and GetMaxWriteSize.
Check(s, n, proto, how) ==
  LET exists == path[n] # NoInode
      fileSize == IF exists THEN size[path[n]] ELSE 0
      isResume == exists /\ how = "append"
  IN  /\ HasSpace(~exists)
      /\ isResume => CanResume(fileSize)
      /\ Lookup(s, n, proto, how, "checked", GetMaxWriteSize(isResume, fileSize))
      /\ UNCHANGED path

\* sftpd handleFilewrite
FilewriteSFTP(s, n, how) == Check(s, n, "SFTP", how)

\* ftpd uploadFile: STOR truncates, APPE and REST resume.
UploadFileFTP(s, n, how) == how \in {"trunc", "append"} /\ Check(s, n, "FTP", how)

\* webdavd putFile
PutFileDAV(s, n) == Check(s, n, "DAV", "trunc")

\* The paths after an existing file was moved to the temporary path.
Moved(s, n) ==
  IF Atomic /\ path[n] # NoInode
  THEN [path EXCEPT ![n] = NoInode, ![s] = path[n]]
  ELSE path

\* scp handleUpload: for atomic uploads an existing file is moved before the
\* quota is checked.
UploadSCP(s, n) ==
  /\ Lookup(s, n, "SCP", "trunc", "moved", 0)
  /\ path' = Moved(s, n)

\* The checks of scp handleUploadFile; it adds the size of the existing file
\* to the write limit once more.
CheckSCP(s) ==
  LET t == transfer[s]
      max == GetMaxWriteSize(FALSE, t.fileSize)
  IN  /\ t.pc = "moved"
      /\ transfer' = [transfer EXCEPT ![s] =
           IF HasSpace(t.how = "new")
           THEN [t EXCEPT !.pc = "checked", !.max = IF max > 0 THEN max + t.fileSize ELSE max]
           ELSE NoTransfer]
      /\ UNCHANGED <<config, path, size, whole, used>>

-----------------------------------------------------------------------------
\* NewBaseTransfer
NewTransfer(s, inode, min, initial) ==
  LET t == transfer[s]
  IN  transfer' = [transfer EXCEPT ![s] =
        [pc |-> "open", proto |-> t.proto, name |-> t.name, inode |-> inode,
         isNew |-> t.how = "new", received |-> 0, pos |-> min, min |-> min,
         initial |-> initial, max |-> t.max, err |-> "none", abort |-> "no",
         numFiles |-> 0]]

\* fs.Create of p and the transfer that results.  A new object of a cloud
\* storage appears only when its upload ends.
Create(s, p, paths, truncate, min, initial) ==
  LET isFresh == config.fs = "cloud" \/ paths[p] = NoInode
      i == IF isFresh THEN FreshInode ELSE paths[p]
  IN  /\ path' = IF config.fs = "cloud" THEN paths ELSE [paths EXCEPT ![p] = i]
      /\ size' = IF truncate \/ isFresh THEN [size EXCEPT ![i] = 0] ELSE size
      /\ whole' = whole \ {i}
      /\ NewTransfer(s, i, min, initial)
      /\ UNCHANGED config

UploadToNewFile(s, proto) ==
  LET t == transfer[s]
  IN  /\ t.pc = "checked" /\ t.proto = proto /\ t.how = "new"
      /\ Create(s, FilePath(s, t.name), path, TRUE, 0, 0)
      /\ UNCHANGED used

\* handleSFTPUploadToNewFile, handleFTPUploadToNewFile, handleUploadToNewFile
UploadToNewFileSFTP(s) == UploadToNewFile(s, "SFTP")
UploadToNewFileFTP(s) == UploadToNewFile(s, "FTP")
UploadToNewFileDAV(s) == UploadToNewFile(s, "DAV")


\* The old content of a local file that is truncated is taken off the quota at
\* once (IsLocalOrSFTPFs).
Discounts(isTruncate) == config.fs = "local" /\ isTruncate

\* The open of an existing file, its rename for an atomic upload included.  It
\* fails if the file is gone and the flags do not create it, or if the flags
\* are exclusive; the rename is not undone then.
UploadToExistingFile(s, proto, isTruncate, isResume) ==
  LET t == transfer[s]
      exists == path[t.name] # NoInode \/ (Atomic /\ proto = "SCP")
      moved == IF proto = "SCP" THEN path ELSE Moved(s, t.name)
      isGone == ~exists /\ config.fs # "cloud" /\ (Atomic \/ t.how \in {"append", "plain"})
      isExcluded == exists /\ config.fs # "cloud" /\ t.how = "excl"
  IN  /\ t.pc = "checked" /\ t.proto = proto /\ t.how # "new"
      /\ IF isGone \/ isExcluded
         THEN /\ transfer' = [transfer EXCEPT ![s] = NoTransfer]
              /\ path' = moved
              /\ UNCHANGED <<config, size, whole, used>>
         ELSE /\ Create(s, FilePath(s, t.name), moved, isTruncate,
                        IF isResume THEN t.fileSize ELSE 0,
                        IF Discounts(isTruncate) THEN 0 ELSE t.fileSize)
              /\ Charge(0, IF Discounts(isTruncate) THEN -t.fileSize ELSE 0)

\* handleSFTPUploadToExistingFile, handleFTPUploadToExistingFile,
\* handleUploadToExistingFile
UploadToExistingFileSFTP(s) ==
  UploadToExistingFile(s, "SFTP", transfer[s].how = "trunc", transfer[s].how = "append")
UploadToExistingFileFTP(s) ==
  UploadToExistingFile(s, "FTP", transfer[s].how = "trunc", transfer[s].how # "trunc")
UploadToExistingFileDAV(s) == UploadToExistingFile(s, "DAV", TRUE, FALSE)

\* scp handleUploadFile
UploadFileSCP(s) ==
  \/ UploadToNewFile(s, "SCP")
  \/ UploadToExistingFile(s, "SCP", TRUE, FALSE)

-----------------------------------------------------------------------------
\* A client writes one unit.
Write(s, isProto) ==
  LET t == transfer[s]
      received == t.received + 1
  IN  /\ t.pc = "open" /\ isProto
      /\ t.pos < config.maxSize
      /\ size' = [size EXCEPT ![t.inode] = IF t.pos < @ THEN @ ELSE t.pos + 1]
      /\ transfer' = [transfer EXCEPT ![s].received = received, ![s].pos = @ + 1,
           ![s].err = IF @ = "none" /\ t.max > 0 /\ received > t.max THEN "quota" ELSE @]
      /\ UNCHANGED <<config, path, whole, used>>

\* sftpd WriteAt, ftpd Write and webdavd Write.  A copy ends with its first
\* error; an SFTP client may go on.
WriteSFTP(s) == Write(s, transfer[s].proto = "SFTP")
WriteSCP(s) == Write(s, transfer[s].proto = "SCP" /\ transfer[s].err = "none")
WriteFTP(s) == Write(s, transfer[s].proto = "FTP" /\ transfer[s].err = "none")

WriteDAV(s) ==
  \/ Write(s, transfer[s].proto = "DAV" /\ transfer[s].err = "none" /\ transfer[s].abort = "no")
  \/ /\ transfer[s].pc = "open" /\ transfer[s].abort = "signalled"
     /\ transfer' = [transfer EXCEPT ![s].abort = "cut"]
     /\ UNCHANGED <<config, path, size, whole, used>>

\* Disconnect of a WebDAV connection: SignalTransfersAbort
SignalTransfersAbort(s) ==
  /\ "abort" \in config.failures
  /\ transfer[s].pc = "open" /\ transfer[s].proto = "DAV" /\ transfer[s].abort = "no"
  /\ transfer' = [transfer EXCEPT ![s].abort = "signalled"]
  /\ UNCHANGED <<config, path, size, whole, used>>

\* The client, the network or the storage fails.
TransferError(s) ==
  /\ "error" \in config.failures
  /\ transfer[s].pc = "open" /\ transfer[s].err = "none"
  /\ transfer' = [transfer EXCEPT ![s].err = "other"]
  /\ UNCHANGED <<config, path, size, whole, used>>

\* Mutant of Truncate: the initial size becomes the difference.
TruncateDiff(s, n) ==
  LET t == transfer[s]
  IN  /\ t.pc = "open" /\ HasFile /\ t.proto = "SFTP"
      /\ (IF t.isNew THEN "new" ELSE "existing") \in config.truncates
      /\ size' = [size EXCEPT ![t.inode] = n]
      /\ transfer' = [transfer EXCEPT ![s].initial = n - @]
      /\ Charge(0, n - t.initial)
      /\ UNCHANGED <<config, path, whole>>


\* SetStat with a size, for the file this connection has open.
Truncate(s, n) ==
  LET t == transfer[s]
  IN  /\ t.pc = "open" /\ HasFile /\ t.proto = "SFTP"
      /\ (IF t.isNew THEN "new" ELSE "existing") \in config.truncates
      /\ size' = [size EXCEPT ![t.inode] = n]
      /\ transfer' = [transfer EXCEPT ![s].initial = n,
           ![s].max = IF t.max > 0 THEN t.max + t.initial - n ELSE @,
           ![s].received = IF t.max > 0 THEN 0 ELSE @]
      /\ Charge(0, n - t.initial)
      /\ UNCHANGED <<config, path, whole>>

\* SetStat with a size, for a file this connection has not open.
TruncateByPath(f, n) ==
  /\ "path" \in config.truncates /\ HasFile
  /\ path[f] # NoInode /\ Free(f)
  /\ size' = [size EXCEPT ![path[f]] = n]
  /\ Charge(0, n - size[path[f]])
  /\ UNCHANGED <<config, path, whole, transfer>>

-----------------------------------------------------------------------------
\* The error of a transfer after closeIO: closing a pipe may fail.
CloseErrors(t) ==
  {t.err} \cup IF "error" \in config.failures /\ ~HasFile /\ t.err = "none" THEN {"other"} ELSE {}

\* closeIO, and Close up to the rename or removal of the file.  The file goes
\* when the quota is exceeded, a temporary file goes after any error unless
\* uploads can be resumed, and an object is stored if nothing failed.
CloseAs(s, isRemoved) ==
  LET t == transfer[s]
      p == FilePath(s, t.name)
      isNew == IF t.isNew THEN 1 ELSE 0
      isRenamed == Atomic /\ ~isRemoved
  IN  /\ t.pc = "open" /\ t.abort # "signalled"
      /\ \E err \in CloseErrors(t) :
           LET closed == [t EXCEPT !.pc = "closing", !.err = err, !.numFiles = isNew]
               isStored == config.fs = "cloud" /\ err = "none"
           IN  /\ path' = [path EXCEPT
                    ![p] = IF isRemoved \/ isRenamed THEN NoInode ELSE @,
                    ![t.name] = IF isRenamed \/ isStored THEN t.inode
                                ELSE IF isRemoved /\ ~Atomic THEN NoInode ELSE @]
               /\ transfer' = [transfer EXCEPT ![s] =
                    IF isRemoved /\ path[p] # NoInode
                    THEN [closed EXCEPT !.numFiles = isNew - 1, !.received = 0, !.min = 0]
                    ELSE closed]
               /\ whole' = IF err = "none" /\ t.abort = "no" THEN whole \cup {t.inode} ELSE whole
      /\ UNCHANGED <<config, size, used>>

\* Mutant of CloseFile: a partial file is not removed from its temporary path,
\* but renamed in every mode.
CloseFileResumed(s) == CloseAs(s, HasFile /\ transfer[s].err = "quota")


CloseFile(s) ==
  CloseAs(s, HasFile /\ \/ transfer[s].err = "quota"
                        \/ Atomic /\ transfer[s].err # "none" /\ config.mode # 2)

\* When updateQuota reports an upload: a file that only shrank is not.
updateQuota(t, sizeDiff) ==
  (HasFile \/ t.err = "none") /\ (t.numFiles # 0 \/ sizeDiff > 0)

\* The rest of Close: getUploadFileSize, which deletes what an encrypted
\* filesystem has of a failed upload, and updateQuota.
CloseQuota(s) ==
  LET t == transfer[s]
      fileSize == IF path[t.name] # NoInode THEN size[path[t.name]] ELSE t.received + t.min
      sizeDiff == fileSize - t.initial
  IN  /\ t.pc = "closing"
      /\ path' = IF config.fs = "crypt" /\ t.err # "none"
                 THEN [path EXCEPT ![t.name] = NoInode] ELSE path
      /\ IF updateQuota(t, sizeDiff) THEN Charge(t.numFiles, sizeDiff) ELSE UNCHANGED used
      /\ transfer' = [transfer EXCEPT ![s] = NoTransfer]
      /\ UNCHANGED <<config, size, whole>>

-----------------------------------------------------------------------------
RemoveFile(n) ==
  /\ path[n] # NoInode /\ Free(n)
  /\ path' = [path EXCEPT ![n] = NoInode]
  /\ Charge(-1, -size[path[n]])
  /\ UNCHANGED <<config, size, whole, transfer>>

\* Rename in the home directory; the file at the target is replaced.
Rename(n, m) ==
  /\ n # m /\ path[n] # NoInode /\ Free(n) /\ Free(m)
  /\ path' = [path EXCEPT ![m] = path[n], ![n] = NoInode]
  /\ IF path[m] # NoInode THEN Charge(-1, -size[path[m]]) ELSE UNCHANGED used
  /\ UNCHANGED <<config, size, whole, transfer>>

Next ==
  \/ \E s \in Sessions, n \in Names, how \in config.flags : FilewriteSFTP(s, n, how)
  \/ \E s \in Sessions, n \in Names, how \in config.flags : UploadFileFTP(s, n, how)
  \/ \E s \in Sessions, n \in Names : PutFileDAV(s, n)
  \/ \E s \in Sessions, n \in Names : UploadSCP(s, n)
  \/ \E s \in Sessions : CheckSCP(s)
  \/ \E s \in Sessions : UploadToNewFileSFTP(s)
  \/ \E s \in Sessions : UploadToNewFileFTP(s)
  \/ \E s \in Sessions : UploadToNewFileDAV(s)
  \/ \E s \in Sessions : UploadToExistingFileSFTP(s)
  \/ \E s \in Sessions : UploadToExistingFileFTP(s)
  \/ \E s \in Sessions : UploadToExistingFileDAV(s)
  \/ \E s \in Sessions : UploadFileSCP(s)
  \/ \E s \in Sessions : WriteSFTP(s)
  \/ \E s \in Sessions : WriteSCP(s)
  \/ \E s \in Sessions : WriteFTP(s)
  \/ \E s \in Sessions : WriteDAV(s)
  \/ \E s \in Sessions : SignalTransfersAbort(s)
  \/ \E s \in Sessions : TransferError(s)
  \/ \E s \in Sessions, n \in 0..config.maxSize : Truncate(s, n)
  \/ \E f \in Names, n \in 0..config.maxSize : TruncateByPath(f, n)
  \/ \E s \in Sessions : CloseFile(s)
  \/ \E s \in Sessions : CloseQuota(s)
  \/ \E n \in Names : RemoveFile(n)
  \/ \E n, m \in Names : Rename(n, m)

Spec == Init /\ [][Next]_vars

-----------------------------------------------------------------------------
Open == {s \in Sessions : IsOpen(s)}

\* The paths of open uploads.
Busy == UNION {{s, transfer[s].name} : s \in Open}

Idle == {p \in DOMAIN path : path[p] # NoInode /\ p \notin Busy}

\* What the storage holds, open uploads as they were before (an upload whose
\* old content was discounted as empty).
Stored ==
  [files |-> Cardinality(Idle) + Cardinality({s \in Open : ~transfer[s].isNew}),
   size |-> MapThenSumSet(LAMBDA p : size[path[p]], Idle)
            + MapThenSumSet(LAMBDA s : transfer[s].initial, Open)]

\* The used quota is exactly what the storage holds, whatever uploads, their
\* failures, truncations, removals and renames happened before (local files,
\* one client per file): Close and the discount at open charge each change
\* once.
QuotaExact == config.trackQuota /\ config.fs = "local" => used = Stored


\* With upload_mode 1 a requested path never leads to a partial file, even if
\* several clients upload to it, remove it and rename it.
NoPartialFile ==
  config.mode = 1 /\ config.fs = "local" =>
    \A n \in Names : path[n] # NoInode => path[n] \in whole



=============================================================================
