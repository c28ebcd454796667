--------------------------- MODULE MCConnections ---------------------------
(* Instances of Connections for TLC: configurations and clients.           *)
EXTENDS Connections

CONSTANTS k1, k2, k3, ann

Base ==
  [maxTotal |-> 0, maxSessions |-> 0, idleTimeout |-> 0, idleLoginTimeout |-> 0,
   protocols |-> {"SSH", "FTP", "DAV"}, conns |-> {k1, k2},
   maxChannels |-> 1, maxRequests |-> 1, maxLogins |-> 2, maxAge |-> 0, maxVersion |-> 0]

SSH == [Base EXCEPT !.protocols = {"SSH"}, !.conns = {k1}, !.maxChannels = 2]

\* Both limits, reached and exceeded; sessions of an SSH channel with one id;
\* two clients that become idle; two clients whose user is disconnected.
Limits ==
  {[Base EXCEPT !.maxTotal = 2, !.conns = {k1, k2, k3}, !.protocols = {"SSH", "FTP"}],
   [Base EXCEPT !.maxSessions = 1, !.conns = {k1, k2, k3}, !.protocols = {"FTP", "DAV"}],
   [Base EXCEPT !.maxTotal = 1, !.maxSessions = 1, !.maxChannels = 2],
   [SSH EXCEPT !.maxRequests = 2],
   [Base EXCEPT !.protocols = {"SSH", "FTP"}, !.idleTimeout = 1, !.idleLoginTimeout = 1,
                !.maxAge = 2],
   [Base EXCEPT !.maxVersion = 1]}

\* What must come to an end: idle clients, closed connections and the sessions
\* of a user who is disconnected, of one client or two.
Ends ==
  {[Base EXCEPT !.idleTimeout = 2, !.idleLoginTimeout = 1, !.maxAge = 3, !.conns = {k1}],
   [SSH EXCEPT !.idleTimeout = 1, !.idleLoginTimeout = 1, !.maxAge = 2],
   [Base EXCEPT !.maxTotal = 1, !.maxLogins = 1],
   [Base EXCEPT !.maxVersion = 1, !.maxLogins = 1, !.protocols = {"FTP"}],
   [SSH EXCEPT !.maxVersion = 1, !.maxRequests = 2]}

\* One SSH client, and two FTP clients.
Update == {[SSH EXCEPT !.maxVersion = 1]}
IdleFTP == {[Base EXCEPT !.protocols = {"FTP"}, !.idleTimeout = 2, !.idleLoginTimeout = 1,
                         !.maxAge = 3]}
=============================================================================
