------------------------------ MODULE Workstations ------------------------------
(***************************************************************************)
(* The server's workstation table and the operations on it               *)
(* (server/internal/db/workstations.go, called by the member handlers of   *)
(* server/internal/api/rest/workstation.go and by the heartbeat handler).  *)
(*                                                                         *)
(* A row is a member's claim on one slot of one worker.  A member request  *)
(* spans several transactions: a claim takes the allocation lock, lists    *)
(* the schedulable workers, lists the allocated slots, picks a slot and    *)
(* inserts; every other request first resolves the workstation and then    *)
(* updates it in a second transaction.  Worker reports come in between.    *)
(*                                                                         *)
(* last_error, vm_name and the timestamps are left out.  ip_address is     *)
(* kept as "is it non-empty".                                              *)
(***************************************************************************)
EXTENDS Integers, FiniteSets

CONSTANTS
  Members,       \* the members of the organisation
  Workers,       \* worker IDs; the scheduler compares them, so naturals
  WS,            \* workstation IDs, each used for one insert (uuid.NewString)
  PoolSize,      \* workers.pool_size
  MemberOps,     \* the handlers members can call besides claim
  ReportStates,  \* the power states a worker can report
  AnyWorker,     \* a claim without worker_id
  NoRow          \* "no such row"

Power == {"starting", "running", "stopping", "stopped", "deleting", "deleted", "error"}

Desired == {"running", "stopped", "deleted"}

Row == [member : Members, worker : Workers, slot : Nat,
        power : Power, desired : Desired, ip : BOOLEAN]

(***************************************************************************)
(* Worker IDs are ordered and none of them is the "any worker" marker; the *)
(* missing row is not a row.                                               *)
(***************************************************************************)
ASSUME DBAssumption ==
  /\ Workers \subseteq Nat
  /\ PoolSize \in [Workers -> Nat]
  /\ MemberOps \subseteq {"get", "start", "stop", "release"}
  /\ ReportStates \subseteq Power
  /\ AnyWorker \notin Workers
  /\ NoRow \notin Row

VARIABLES
  rows,     \* the workstations table, by ID
  issued,   \* the IDs that were ever inserted
  req,      \* the request each member has in progress
  wk        \* each worker's row: "unknown" (none), "idle" or "fresh" (schedulable)

dbvars == <<rows, issued, req, wk>>

Idle == [op |-> "idle"]

Requests ==
  {Idle}
    \cup [op : {"claim"}, pref : Workers \cup {AnyWorker}]
    \cup [op : {"locked"}, pref : Workers \cup {AnyWorker}, workers : SUBSET Workers]
    \cup [op : {"insert"}, worker : Workers, slot : Nat]
    \cup [op : MemberOps, id : WS]

\* The type of the table and of the requests in progress.
DBTypeOK ==
  /\ rows \in [WS -> Row \cup {NoRow}]
  /\ issued \in SUBSET WS
  /\ req \in [Members -> Requests]
  /\ wk \in [Workers -> {"unknown", "idle", "fresh"}]

(***************************************************************************)
(* A worker's row exists before it ever registers when its hostname was    *)
(* assigned during host setup (AssignHostname inserts it as offline).      *)
(***************************************************************************)
DBInit ==
  /\ rows = [id \in WS |-> NoRow]
  /\ issued = {}
  /\ req = [m \in Members |-> Idle]
  /\ wk \in [Workers -> {"unknown", "idle"}]

Exists(id) == rows[id] # NoRow

Released(id) == Exists(id) /\ rows[id].desired = "deleted"

-----------------------------------------------------------------------------
(* Claiming a slot *)

Schedulable == {w \in Workers : wk[w] = "fresh"}

\* listAllocatedSlots: every row counts, whatever its state
AllocatedSlots(w) == {rows[id].slot : id \in {i \in WS : Exists(i) /\ rows[i].worker = w}}

\* mutant: the pool has one slot too many
MutOneSlotTooMany(w) == (0 .. PoolSize[w]) \ AllocatedSlots(w)

FreeSlots(w) == (0 .. PoolSize[w] - 1) \ AllocatedSlots(w)

\* the lowest free slot, as a set that is empty when the worker is full
FirstAvailableSlot(w) == {s \in FreeSlots(w) : \A t \in FreeSlots(w) : s <= t}

(***************************************************************************)
(* The candidates among the listed workers: the preferred worker if one is *)
(* named, else the open worker with the fewest allocated slots, ties going *)
(* to the smaller ID.  Empty in every error case.                          *)
(***************************************************************************)
SelectWorkstationCandidate(workers, pref) ==
  LET open == {w \in workers : FreeSlots(w) # {}}
      load(w) == Cardinality(AllocatedSlots(w))
      best == {w \in open : \A v \in open :
                 load(w) < load(v) \/ (load(w) = load(v) /\ w <= v)}
      chosen == IF pref = AnyWorker THEN best ELSE open \cap {pref}
  IN  UNION {{[op |-> "insert", worker |-> w, slot |-> s] : s \in FirstAvailableSlot(w)} :
               w \in chosen}

\* mutant: the advisory lock is not taken
MutNoAllocationLock == FALSE

\* pg_advisory_xact_lock: held until the claim's transaction ends
AllocationLocked == \E m \in Members : req[m].op \in {"locked", "insert"}

\* bound: no claim is made once every ID of WS was used
ClaimWorkstation(m, pref) ==
  /\ req[m] = Idle
  /\ issued # WS
  /\ req' = [req EXCEPT ![m] = [op |-> "claim", pref |-> pref]]
  /\ UNCHANGED <<rows, issued, wk>>

ListSchedulableWorkers(m) ==
  /\ req[m].op = "claim"
  /\ ~ AllocationLocked
  /\ req' = [req EXCEPT ![m] =
               IF Schedulable = {} THEN Idle
               ELSE [op |-> "locked", pref |-> req[m].pref, workers |-> Schedulable]]
  /\ UNCHANGED <<rows, issued, wk>>

SelectSlot(m) ==
  /\ req[m].op = "locked"
  /\ LET found == SelectWorkstationCandidate(req[m].workers, req[m].pref)
     IN  \/ found = {} /\ req' = [req EXCEPT ![m] = Idle]
         \/ \E c \in found : req' = [req EXCEPT ![m] = c]
  /\ UNCHANGED <<rows, issued, wk>>

\* UNIQUE (worker_id, slot)
SlotTaken(w, s) == \E id \in WS : Exists(id) /\ rows[id].worker = w /\ rows[id].slot = s

InsertWorkstation(m) ==
  /\ req[m].op = "insert"
  /\ ~ SlotTaken(req[m].worker, req[m].slot)
  /\ \E id \in WS \ issued :
       /\ rows' = [rows EXCEPT ![id] =
                     [member |-> m, worker |-> req[m].worker, slot |-> req[m].slot,
                      power |-> "starting", desired |-> "running", ip |-> FALSE]]
       /\ issued' = issued \cup {id}
  /\ req' = [req EXCEPT ![m] = Idle]
  /\ UNCHANGED wk

\* an error or a cancelled request context rolls the claim back
AbortClaim(m) ==
  /\ req[m].op \in {"claim", "locked", "insert"}
  /\ req' = [req EXCEPT ![m] = Idle]
  /\ UNCHANGED <<rows, issued, wk>>

-----------------------------------------------------------------------------
(* The other member requests: resolve, then update in a second transaction *)

(***************************************************************************)
(* resolveMemberWorkstation: the requested row of the member, or the only  *)
(* row of the member when no ID is given, which is one of the former.      *)
(***************************************************************************)
ResolveMemberWorkstation(m, id, op) ==
  /\ req[m] = Idle
  /\ Exists(id) /\ rows[id].member = m
  /\ req' = [req EXCEPT ![m] = [op |-> op, id |-> id]]
  /\ UNCHANGED <<rows, issued, wk>>

\* claimExistingWorkstation, for a row that is not being deleted
ClaimExistingWorkstation(row) ==
  [row EXCEPT !.desired = "running",
              !.power = IF @ \in {"stopped", "error"} THEN "starting" ELSE @]

\* mutant: the desired state of a released row is not looked at
MutEnsureIgnoresReleased(row) == ClaimExistingWorkstation(row)

\* EnsureWorkstationRunningByIDForMember, on the locked row
EnsureWorkstationRunning(row) ==
  IF row.desired = "deleted" \/ row.power \in {"deleting", "deleted"}
    THEN row
    ELSE ClaimExistingWorkstation(row)

\* UpdateWorkstationDesiredPowerStateByID, on the locked row
UpdateDesiredPowerState(row, desired) ==
  IF row.power \in {"deleting", "deleted"}
    THEN row
    ELSE [row EXCEPT
            !.desired = desired,
            !.power = CASE desired = "running" /\ @ \in {"stopped", "error"} -> "starting"
                        [] desired = "stopped" /\ @ \in {"starting", "running"} -> "stopping"
                        [] desired = "deleted" -> "deleting"
                        [] OTHER -> @]

DesiredOf(op) ==
  CASE op = "start" -> "running" [] op = "stop" -> "stopped" [] op = "release" -> "deleted"

UpdateMemberWorkstation(m) ==
  /\ req[m].op \in MemberOps
  /\ LET id == req[m].id
         op == req[m].op
     IN  IF Exists(id) /\ rows[id].member = m
           THEN rows' = [rows EXCEPT ![id] =
                           IF op = "get" THEN EnsureWorkstationRunning(@)
                                         ELSE UpdateDesiredPowerState(@, DesiredOf(op))]
           ELSE rows' = rows
  /\ req' = [req EXCEPT ![m] = Idle]
  /\ UNCHANGED <<issued, wk>>

-----------------------------------------------------------------------------
(* What workers do to the table *)

\* mutant: a report of "deleted" drops the row whatever the member wants
MutDropOnAnyDeleted(row, power, ip) ==
  CASE power = "deleted" -> NoRow
    [] power # "deleted" /\ row.desired = "deleted" -> row
    [] OTHER -> [row EXCEPT !.power = power, !.ip = ip]

\* mutant: a released row still takes the reported power state
MutReportOverwritesReleased(row, power, ip) ==
  IF power = "deleted" /\ row.desired = "deleted"
    THEN NoRow
    ELSE [row EXCEPT !.power = power, !.ip = ip]

\* mutant: any report about a released row drops it
MutDropReleasedEarly(row, power, ip) ==
  IF row.desired = "deleted" THEN NoRow ELSE [row EXCEPT !.power = power, !.ip = ip]

\* mutant: only a starting row takes a report
MutOnlyStartingTakesReports(row, power, ip) ==
  CASE power = "deleted" /\ row.desired = "deleted" -> NoRow
    [] row.power # "starting" -> row
    [] OTHER -> [row EXCEPT !.power = power, !.ip = ip]

\* UpdateWorkstationStatus, on the locked row
StatusUpdate(row, power, ip) ==
  CASE power = "deleted" /\ row.desired = "deleted" -> NoRow
    [] power # "deleted" /\ row.desired = "deleted" -> row
    [] OTHER -> [row EXCEPT !.power = power, !.ip = ip]

\* a missing row is ignored, another worker's row is refused
UpdateWorkstationStatus(w, id, power, ip) ==
  rows' = IF Exists(id) /\ rows[id].worker = w
            THEN [rows EXCEPT ![id] = StatusUpdate(@, power, ip)]
            ELSE rows

Report(w, id, power, ip) ==
  /\ UpdateWorkstationStatus(w, id, power, ip)
  /\ UNCHANGED <<issued, req, wk>>

\* UpsertWorker: only a worker whose row exists gets a heartbeat time
UpsertWorker(w) ==
  /\ wk' = [wk EXCEPT ![w] = IF @ = "unknown" THEN "idle" ELSE "fresh"]

UpdateHeartbeat(w) ==
  /\ wk' = [wk EXCEPT ![w] = IF @ = "unknown" THEN @ ELSE "fresh"]

\* the last heartbeat becomes older than schedulableHeartbeatWindow
HeartbeatExpires(w) ==
  /\ wk[w] = "fresh"
  /\ wk' = [wk EXCEPT ![w] = "idle"]
  /\ UNCHANGED <<rows, issued, req>>

-----------------------------------------------------------------------------
MemberNext(m) ==
  \/ \E pref \in Workers \cup {AnyWorker} : ClaimWorkstation(m, pref)
  \/ ListSchedulableWorkers(m)
  \/ SelectSlot(m)
  \/ InsertWorkstation(m)
  \/ AbortClaim(m)
  \/ \E id \in WS, op \in MemberOps : ResolveMemberWorkstation(m, id, op)
  \/ UpdateMemberWorkstation(m)

(***************************************************************************)
(* The table on its own, with workers that may report anything about any   *)
(* workstation at any time.  Fleet replaces them by the worker program.    *)
(***************************************************************************)
WorkerNext(w) ==
  \/ UpsertWorker(w) /\ UNCHANGED <<rows, issued, req>>
  \/ UpdateHeartbeat(w) /\ UNCHANGED <<rows, issued, req>>
  \/ HeartbeatExpires(w)
  \/ \E id \in WS, power \in ReportStates, ip \in BOOLEAN : Report(w, id, power, ip)

DBNext == (\E m \in Members : MemberNext(m)) \/ (\E w \in Workers : WorkerNext(w))

DBSpec == DBInit /\ [][DBNext]_dbvars

-----------------------------------------------------------------------------
(* Properties *)

(***************************************************************************)
(* A slot number of a worker's pool is held by at most one row, and every  *)
(* row's slot is inside the pool (workstations.go ClaimWorkstation).       *)
(***************************************************************************)
SlotsExclusive ==
  \A i \in WS : Exists(i) =>
    /\ rows[i].slot < PoolSize[rows[i].worker]
    /\ \A j \in WS : Exists(j) /\ rows[j].worker = rows[i].worker
                     /\ rows[j].slot = rows[i].slot => i = j

(***************************************************************************)
(* The slot a claim picked is still free when it is inserted, however      *)
(* claims, releases and reports interleave: the allocation lock makes the  *)
(* UNIQUE (worker_id, slot) constraint unreachable, so a claim never fails *)
(* with an internal error because of another claim.                        *)
(***************************************************************************)
ClaimNeverConflicts ==
  \A m \in Members : req[m].op = "insert" =>
    /\ req[m].slot < PoolSize[req[m].worker]
    /\ ~ SlotTaken(req[m].worker, req[m].slot)

(***************************************************************************)
(* A released row shows "deleting" until it is dropped: neither a late     *)
(* report nor a request resolved before the release overwrites it.         *)
(***************************************************************************)
ReleasedShowsDeleting == \A id \in WS : Released(id) => rows[id].power = "deleting"

(***************************************************************************)
(* A release cannot be undone: from the step that marks a row deleted, the *)
(* row stays marked until it is gone, and its ID never comes back, even    *)
(* for a get, start or stop that was resolved before the release.          *)
(***************************************************************************)
ReleaseIsFinal ==
  [][\A id \in WS : /\ Released(id) => ~ Exists(id)' \/ Released(id)'
                    /\ id \in issued /\ ~ Exists(id) => ~ Exists(id)']_dbvars

(***************************************************************************)
(* Rows never vanish under a member: only a released row is dropped, and a *)
(* row never changes its member, worker or slot.                           *)
(***************************************************************************)
OnlyReleasedRowsVanish ==
  [][\A id \in WS : Exists(id) =>
       IF Exists(id)'
         THEN /\ rows'[id].member = rows[id].member
              /\ rows'[id].worker = rows[id].worker
              /\ rows'[id].slot = rows[id].slot
         ELSE Released(id)]_dbvars

(***************************************************************************)
(* The inductive invariant behind the above: at most one claim is past the *)
(* allocation lock, so nothing is inserted between its choice of a slot    *)
(* and its insert, and every row's ID was issued.                          *)
(***************************************************************************)
DBInv ==
  /\ DBTypeOK
  /\ SlotsExclusive
  /\ ClaimNeverConflicts
  /\ ReleasedShowsDeleting
  /\ \A id \in WS : Exists(id) => id \in issued
  /\ \A m, n \in Members :
       req[m].op \in {"locked", "insert"} /\ req[n].op \in {"locked", "insert"} => m = n

=============================================================================
