------------------------------ MODULE MCUpload ------------------------------
\* Configurations of uploads for TLC.
EXTENDS Upload, TLC

Base == [mode |-> 0, fs |-> "local", trackQuota |-> TRUE, quotaSize |-> 0,
         quotaFiles |-> 0, maxUploadFileSize |-> 0, protocols |-> {"SFTP"},
         flags |-> {"trunc"}, truncates |-> {}, failures |-> {"error"},
         shared |-> FALSE, maxNames |-> 2, maxUploads |-> 2, maxSize |-> 2]

\* Two SFTP uploads at a time to local files, with truncations, in every mode.
Local == {[Base EXCEPT !.mode = m, !.flags = {"trunc", "append"},
            !.maxUploadFileSize = 1, !.truncates = {"existing", "path"}] : m \in 0..2}

\* One upload at a time by every protocol, with larger files.  WebDAV transfers
\* are aborted where a partial file may stay.
Protocols == {[Base EXCEPT !.mode = m, !.protocols = {"SFTP", "FTP", "DAV", "SCP"},
                !.failures = IF m = 1 THEN {"error"} ELSE {"error", "abort"},
                !.flags = {"trunc", "append", "plain"}, !.maxUploadFileSize = 2,
                !.truncates = {"existing", "path"}, !.maxUploads = 1,
                !.maxSize = 3] : m \in 0..2}

\* FTP and WebDAV uploads that exceed the limits together.
Limits == {[Base EXCEPT !.mode = m, !.protocols = {"FTP", "DAV"}, !.maxNames = 3,
             !.flags = {"trunc", "append"}, !.quotaSize = 3, !.quotaFiles = 1,
             !.maxUploadFileSize = 2, !.maxSize = 3] : m \in 0..1}

\* Clients that upload to, remove and rename the same files.
SharedFiles == {[Base EXCEPT !.mode = 1, !.protocols = {p}, !.shared = TRUE,
                  !.flags = {"trunc", "append"}, !.trackQuota = FALSE,
                  !.maxSize = 1] : p \in {"SFTP", "SCP"}}

\* Storages that uploads reach through a pipe.
Pipes == {[Base EXCEPT !.fs = f, !.protocols = {p}, !.flags = {"trunc", "excl"},
            !.quotaSize = 2, !.quotaFiles = 2, !.maxUploadFileSize = 1]
            : f \in {"crypt", "cloud"}, p \in {"SFTP", "DAV"}}

AllConfigs == Local \cup Protocols \cup Limits \cup SharedFiles \cup Pipes

\* An upload by WebDAV that is disconnected.
Abort == {[Base EXCEPT !.mode = 1, !.protocols = {"DAV"}, !.failures = {"abort"}]}

Symmetry == Permutations(Names) \cup Permutations(Sessions)
=============================================================================
