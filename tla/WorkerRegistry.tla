---------------------------- MODULE WorkerRegistry ----------------------------
(***************************************************************************)
(* How a Mac mini gets its name and its token: install/setup-host.sh, the  *)
(* hostname assignment and the registration of the server                  *)
(* (server/internal/api/rest/workers.go, server/internal/db/postgres.go,   *)
(* worker_auth.go) and the worker's side of registration (Worker.swift,    *)
(* ControlAPIClient.swift, Config.swift).                                  *)
(*                                                                         *)
(* A registration is several statements, not one transaction, and the      *)
(* worker may die or give up while the server works on it.  The advisory   *)
(* lock of AssignHostname keeps assignments apart, not registrations.      *)
(* A token is named after the registration that issued it.  A hostname is  *)
(* N for "mac-N" and 0 for any other name.                                 *)
(***************************************************************************)
EXTENDS Integers, FiniteSetsExt

CONSTANTS
  Machines,
  Requests,  \* bound on registrations; each may issue one token
  Notices,   \* does the server notice, before its next statement, that the worker is gone?
  None,      \* no token
  Enroll     \* the enrollment token

ASSUME RegistryAssumption ==
  /\ Notices \in BOOLEAN
  /\ Requests \cap {None, Enroll} = {}

VARIABLES
  rows,      \* the machines in the workers table
  active,    \* those whose workers.status is active: they have registered
  name,      \* workers.hostname
  hash,      \* the token of workers.auth_token_hash
  next,      \* the name an assignment that holds the lock will write, or 0
  sysname,   \* the hostname of the Mac
  disk,      \* the token preferredAuthToken finds in config.yaml
  proc,      \* the worker process: "down", "registering", "running"
  mem,       \* the token the process uses
  cur,       \* the registration the process waits for
  stage,     \* the server's work on each registration
  owner,     \* the machine that sent it
  shows,     \* the token it presents
  says       \* the hostname it presents

tablevars == <<rows, active, name, hash>>
macvars == <<sysname, disk, proc, mem, cur>>
reqvars == <<stage, owner, shows, says>>
vars == <<tablevars, next, macvars, reqvars>>

Tokens == Requests \cup {None, Enroll}

Stages == {"unused", "sent", "accepted", "known", "upserted", "ok", "issued", "refused", "gone"}

Locked == \E m \in Machines : next[m] # 0

\* The type of the tokens, processes and registrations.
TokensTyped ==
  /\ hash \in [Machines -> Requests \cup {None}]
  /\ disk \in [Machines -> Tokens]
  /\ proc \in [Machines -> {"down", "registering", "running"}]
  /\ mem \in [Machines -> Tokens]
  /\ cur \in [Machines -> Requests \cup {None}]
  /\ stage \in [Requests -> Stages]
  /\ owner \in [Requests -> Machines \cup {None}]
  /\ shows \in [Requests -> Tokens]

\* The type of the table's rows and of the names.
NamesTyped ==
  /\ rows \subseteq Machines
  /\ active \subseteq rows
  /\ name \in [Machines -> Nat]
  /\ next \in [Machines -> Nat]
  /\ sysname \in [Machines -> Nat]
  /\ says \in [Requests -> Nat]

Init ==
  /\ rows = {}
  /\ active = {}
  /\ name = [m \in Machines |-> 0]
  /\ hash = [m \in Machines |-> None]
  /\ next = [m \in Machines |-> 0]
  /\ sysname = [m \in Machines |-> 0]
  /\ disk = [m \in Machines |-> None]
  /\ proc = [m \in Machines |-> "down"]
  /\ mem = [m \in Machines |-> None]
  /\ cur = [m \in Machines |-> None]
  /\ stage = [r \in Requests |-> "unused"]
  /\ owner = [r \in Requests |-> None]
  /\ shows = [r \in Requests |-> None]
  /\ says = [r \in Requests |-> 0]

-----------------------------------------------------------------------------
(* setup-host.sh, with the enrollment token at hand *)

\* A worker token the server confirms is kept, any other configuration is
\* replaced; the check may fail because the server is out of reach.
WriteConfig(m) ==
  /\ disk' = [disk EXCEPT ![m] = Enroll]
  /\ UNCHANGED <<tablevars, next, sysname, proc, mem, cur, reqvars>>

\* A machine without a worker token asks for a name, under the advisory lock.
\* A machine the table knows is answered with its name there.
AssignHostnameKnown(m) ==
  /\ disk[m] = Enroll
  /\ ~Locked
  /\ m \in rows
  /\ sysname' \in {sysname, [sysname EXCEPT ![m] = name[m]]}
  /\ UNCHANGED <<tablevars, next, disk, proc, mem, cur, reqvars>>

NextName == Max({0} \cup {name[m] : m \in rows}) + 1

\* Mutant of AssignHostnameRead: assignments do not wait for each other.
MutNoLock(m) ==
  /\ disk[m] = Enroll
  /\ next[m] = 0
  /\ m \notin rows
  /\ next' = [next EXCEPT ![m] = NextName]
  /\ UNCHANGED <<tablevars, macvars, reqvars>>

\* AssignHostname for a machine that has no row: the largest N is read.
AssignHostnameRead(m) ==
  /\ disk[m] = Enroll
  /\ ~Locked
  /\ m \notin rows
  /\ next' = [next EXCEPT ![m] = NextName]
  /\ UNCHANGED <<tablevars, macvars, reqvars>>

\* The row is written, or its hostname replaced if a registration has written
\* it meanwhile; commit releases the lock.  The answer may be lost.
AssignHostnameWrite(m) ==
  /\ next[m] # 0
  /\ rows' = rows \cup {m}
  /\ name' = [name EXCEPT ![m] = next[m]]
  /\ next' = [next EXCEPT ![m] = 0]
  /\ sysname' \in {sysname, [sysname EXCEPT ![m] = next[m]]}
  /\ UNCHANGED <<active, hash, disk, proc, mem, cur, reqvars>>

\* The insert or the commit fails: rollback releases the lock.
AssignHostnameFails(m) ==
  /\ next[m] # 0
  /\ next' = [next EXCEPT ![m] = 0]
  /\ UNCHANGED <<tablevars, macvars, reqvars>>

-----------------------------------------------------------------------------
(* The worker process *)

\* The process starts and registers with the token of config.yaml.  macOS may
\* report the name that was set or another one ("mac-1.local").
Start(m) ==
  /\ proc[m] = "down"
  /\ disk[m] # None
  /\ \E r \in Requests, n \in {0, sysname[m]} :
       /\ stage[r] = "unused"
       /\ stage' = [stage EXCEPT ![r] = "sent"]
       /\ owner' = [owner EXCEPT ![r] = m]
       /\ shows' = [shows EXCEPT ![r] = disk[m]]
       /\ says' = [says EXCEPT ![r] = n]
       /\ cur' = [cur EXCEPT ![m] = r]
  /\ proc' = [proc EXCEPT ![m] = "registering"]
  /\ mem' = [mem EXCEPT ![m] = disk[m]]
  /\ UNCHANGED <<tablevars, next, sysname, disk>>

\* apiClient.register returns: the answer to the registration is 200.
register(m) == cur[m] # None /\ stage[cur[m]] \in {"ok", "issued"}

\* Registration succeeded.  An issued token replaces the one in use and, if saving
\* config.yaml succeeds, the one on disk, the enrollment token included.
Registered(m) ==
  /\ register(m)
  /\ proc' = [proc EXCEPT ![m] = "running"]
  /\ cur' = [cur EXCEPT ![m] = None]
  /\ IF stage[cur[m]] = "issued"
       THEN /\ mem' = [mem EXCEPT ![m] = cur[m]]
            /\ disk' \in {disk, [disk EXCEPT ![m] = cur[m]]}
       ELSE UNCHANGED <<mem, disk>>
  /\ UNCHANGED <<tablevars, next, sysname, reqvars>>

\* The process ends: registration was refused, it crashes, the request times
\* out, or setup-host.sh stops it.  A registration the server still works on is
\* abandoned: its context is cancelled, if the server notices.
Stop(m) ==
  /\ proc[m] # "down"
  /\ proc' = [proc EXCEPT ![m] = "down"]
  /\ mem' = [mem EXCEPT ![m] = None]
  /\ cur' = [cur EXCEPT ![m] = None]
  /\ stage' = IF Notices /\ cur[m] # None THEN [stage EXCEPT ![cur[m]] = "gone"] ELSE stage
  /\ UNCHANGED <<tablevars, next, sysname, disk, owner, shows, says>>

-----------------------------------------------------------------------------
(* handleWorkerRegister *)

\* Mutant of shouldIssueWorkerToken: a presented worker token is replaced too.
MutAlwaysIssue(r) ==
  /\ stage[r] = "sent"
  /\ LET m == owner[r] IN
     stage' = [stage EXCEPT ![r] =
       IF shows[r] = Enroll \/ (m \in rows /\ hash[m] = shows[r]) THEN "accepted" ELSE "refused"]
  /\ UNCHANGED <<tablevars, next, macvars, owner, shows, says>>

\* The current token of the machine registers it and is kept; the enrollment
\* token registers it and issues a new one; anything else is refused.
shouldIssueWorkerToken(r) ==
  /\ stage[r] = "sent"
  /\ LET m == owner[r] IN
     stage' = [stage EXCEPT ![r] =
       CASE m \in rows /\ hash[m] = shows[r] -> "known"
         [] shows[r] = Enroll -> "accepted"
         [] OTHER -> "refused"]
  /\ UNCHANGED <<tablevars, next, macvars, owner, shows, says>>

\* UpsertWorker overwrites the hostname of a row that exists.
UpsertWorker(r) ==
  /\ stage[r] \in {"accepted", "known"}
  /\ rows' = rows \cup {owner[r]}
  /\ active' = active \cup {owner[r]}
  /\ name' = [name EXCEPT ![owner[r]] = says[r]]
  /\ stage' = [stage EXCEPT ![r] = IF stage[r] = "known" THEN "ok" ELSE "upserted"]
  /\ UNCHANGED <<hash, next, macvars, owner, shows, says>>

IssueWorkerToken(r) ==
  /\ stage[r] = "upserted"
  /\ hash' = [hash EXCEPT ![owner[r]] = r]
  /\ stage' = [stage EXCEPT ![r] = "issued"]
  /\ UNCHANGED <<rows, active, name, next, macvars, owner, shows, says>>

\* A statement fails and the answer is 500.
RegisterFails(r) ==
  /\ stage[r] \in {"sent", "accepted", "known", "upserted"}
  /\ stage' = [stage EXCEPT ![r] = "refused"]
  /\ UNCHANGED <<tablevars, next, macvars, owner, shows, says>>

-----------------------------------------------------------------------------

Next ==
  \/ \E m \in Machines :
       \/ WriteConfig(m) \/ AssignHostnameKnown(m)
       \/ AssignHostnameRead(m) \/ AssignHostnameWrite(m) \/ AssignHostnameFails(m)
       \/ Start(m) \/ Registered(m) \/ Stop(m)
  \/ \E r \in Requests :
       shouldIssueWorkerToken(r) \/ UpsertWorker(r) \/ IssueWorkerToken(r) \/ RegisterFails(r)

Spec == Init /\ [][Next]_vars

-----------------------------------------------------------------------------
(* Properties *)

\* A machine is never locked out: the worker token on its disk is the one the
\* server knows it by, whatever registration was cut short before or after the
\* token was issued, answered or saved (the enrollment token is erased when the
\* worker token is saved, so nothing else is left to register with).
NotLockedOut ==
  \A m \in Machines : disk[m] \in Requests => hash[m] = disk[m]

\* A process that went on to its management loop holds a token the server
\* accepts, so its heartbeats count.
RunningIsAuthenticated ==
  \A m \in Machines : proc[m] = "running" => hash[m] = mem[m]

\* Two assignments never hand out the same number: no two machines that were
\* named but have not registered yet share a name in the table, because the
\* advisory lock spans the read and the write of AssignHostname.
AssignmentsDiffer ==
  \A m, n \in rows \ active : name[m] = name[n] => m = n

\* The statements handleWorkerRegister is between.
Live == {"sent", "accepted", "known", "upserted"}

\* What makes the two properties above inductive: the server works on a
\* registration only while its process waits for it; a token is issued only to
\* a machine that still has the enrollment token; and a registration that is
\* known, or has been answered, agrees with the table.
RegistryInv ==
  /\ TokensTyped
  /\ \A r \in Requests : stage[r] \in Live => owner[r] \in Machines /\ cur[owner[r]] = r
  /\ \A r \in Requests : stage[r] \in {"accepted", "upserted"} => shows[r] = Enroll
  /\ \A m \in Machines : cur[m] # None =>
       /\ proc[m] = "registering"
       /\ owner[cur[m]] = m
       /\ stage[cur[m]] # "unused"
       /\ mem[m] = shows[cur[m]]
       /\ shows[cur[m]] = Enroll => disk[m] = Enroll
       /\ stage[cur[m]] = "issued" => hash[m] = cur[m]
       /\ stage[cur[m]] \in {"known", "ok"} => hash[m] = shows[cur[m]]
  /\ NotLockedOut
  /\ RunningIsAuthenticated

\* What makes AssignmentsDiffer inductive, whether or not the server notices
\* that a worker is gone: one assignment at a time holds the lock, and the name
\* it will write is larger than that of every machine that was named and has
\* not registered.
NamesInv ==
  /\ NamesTyped
  /\ stage \in [Requests -> Stages]
  /\ owner \in [Requests -> Machines \cup {None}]
  /\ \A r \in Requests : stage[r] \in Live => owner[r] \in Machines
  /\ \A m, n \in Machines : next[m] # 0 /\ next[n] # 0 => m = n
  /\ \A m \in Machines : next[m] # 0 => \A n \in rows \ active : name[n] < next[m]
  /\ AssignmentsDiffer

=============================================================================
