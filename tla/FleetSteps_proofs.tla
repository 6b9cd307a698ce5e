-------------------------- MODULE FleetSteps_proofs ---------------------------
(***************************************************************************)
(* Proofs about the workstation table (Workstations), for any members,     *)
(* workers, pool sizes and worker reports; then about the fleet's          *)
(* invariant (Fleet, FleetInv): it holds initially, and the steps of the   *)
(* members and the server, and those in which a worker lists its VMs or    *)
(* sends a heartbeat, preserve it, for any members, workers, pool sizes    *)
(* and number of heartbeats in flight.                                     *)
(***************************************************************************)
EXTENDS Fleet, TLAPS

(***************************************************************************)
(* What the kind of a request says about its fields.                       *)
(***************************************************************************)
LEMMA RequestFields ==
  ASSUME NEW r \in Requests
  PROVE  /\ r.op = "claim" => r.pref \in Workers \cup {AnyWorker}
         /\ r.op = "locked" => r.workers \in SUBSET Workers
         /\ r.op = "insert" => r.worker \in Workers /\ r.slot \in Nat
         /\ r.op \in MemberOps => r.id \in WS
BY DBAssumption DEF Requests, Idle

(***************************************************************************)
(* A candidate is a slot of the worker's pool that no row has.             *)
(***************************************************************************)
LEMMA CandidateIsFree ==
  ASSUME DBTypeOK, NEW workers \in SUBSET Workers, NEW pref,
         NEW c \in SelectWorkstationCandidate(workers, pref)
  PROVE  /\ c \in Requests /\ c.op = "insert"
         /\ c.slot < PoolSize[c.worker]
         /\ ~ SlotTaken(c.worker, c.slot)
<1>0. PICK w \in workers : \E s \in FirstAvailableSlot(w) :
        c = [op |-> "insert", worker |-> w, slot |-> s]
  BY Zenon DEF SelectWorkstationCandidate
<1>1. PICK s \in FirstAvailableSlot(w) : c = [op |-> "insert", worker |-> w, slot |-> s]
  BY <1>0, Zenon
<1>2. s \in 0 .. PoolSize[w] - 1 /\ s \notin AllocatedSlots(w)
  BY Zenon DEF FirstAvailableSlot, FreeSlots
<1>3. PoolSize[w] \in Nat /\ w \in Workers
  BY DBAssumption, Zenon
<1>4. s \in Nat /\ s < PoolSize[w]
  BY <1>2, <1>3
<1>5. ~ SlotTaken(w, s)
  BY <1>2, Zenon DEF SlotTaken, AllocatedSlots
<1> QED
  BY <1>1, <1>3, <1>4, <1>5, Zenon DEF Requests

(***************************************************************************)
(* The row operators keep the key of a row and turn rows into rows.  None  *)
(* of them takes the mark off a released row, and a released row shows     *)
(* "deleting" before and after.                                            *)
(***************************************************************************)
SameKey(r, q) == q.member = r.member /\ q.worker = r.worker /\ q.slot = r.slot

RowKept(r, q) ==
  /\ q \in Row /\ SameKey(r, q)
  /\ q.desired = "deleted" => q.power = "deleting"
  /\ r.desired = "deleted" => q.desired = "deleted"

(***************************************************************************)
(* A get, start, stop or release of the member keeps the row in this sense.*)
(***************************************************************************)
LEMMA MemberUpdateKeepsRow ==
  ASSUME NEW r \in Row, r.desired = "deleted" => r.power = "deleting",
         NEW op \in MemberOps
  PROVE  RowKept(r, IF op = "get" THEN EnsureWorkstationRunning(r)
                                  ELSE UpdateDesiredPowerState(r, DesiredOf(op)))
<1>1. CASE op = "get"
  BY Zenon, <1>1 DEF RowKept, SameKey, EnsureWorkstationRunning, ClaimExistingWorkstation, Row, Power, Desired
<1>2. CASE op # "get"
  <2>1. DesiredOf(op) \in Desired
    BY <1>2, DBAssumption, Zenon DEF DesiredOf, Desired
  <2> QED
    BY Zenon, <1>2, <2>1 DEF RowKept, SameKey, UpdateDesiredPowerState, Row, Power, Desired
<1> QED
  BY <1>1, <1>2, Zenon

(***************************************************************************)
(* A report keeps the row in this sense, or drops it when it is released   *)
(* and reported deleted (UpdateWorkstationStatus).                         *)
(***************************************************************************)
LEMMA ReportKeepsRow ==
  ASSUME NEW r \in Row, r.desired = "deleted" => r.power = "deleting",
         NEW power \in Power, NEW ip \in BOOLEAN
  PROVE  \/ StatusUpdate(r, power, ip) = NoRow /\ r.desired = "deleted" /\ power = "deleted"
         \/ RowKept(r, StatusUpdate(r, power, ip))
BY Zenon DEF RowKept, SameKey, StatusUpdate, Row, Power, Desired

-----------------------------------------------------------------------------
(***************************************************************************)
(* The parts of DBInv that only depend on the table.                       *)
(***************************************************************************)
TableInv ==
  /\ rows \in [WS -> Row \cup {NoRow}]
  /\ SlotsExclusive
  /\ ReleasedShowsDeleting
  /\ \A id \in WS : Exists(id) => id \in issued

(***************************************************************************)
(* A step that rewrites rows in place, or drops released ones, keeps the   *)
(* table sound and takes no slot that was free.                            *)
(***************************************************************************)
LEMMA RewriteKeepsTable ==
  ASSUME DBInv,
         rows' \in [WS -> Row \cup {NoRow}],
         issued' = issued,
         \A id \in WS : Exists(id)' => Exists(id) /\ RowKept(rows[id], rows'[id])
  PROVE  /\ TableInv'
         /\ \A w, s : SlotTaken(w, s)' => SlotTaken(w, s)
<1> USE DEF DBInv, DBTypeOK
<1>1. SlotsExclusive'
  BY DEF SlotsExclusive, Exists, RowKept, SameKey
<1>2. ReleasedShowsDeleting'
  BY Zenon DEF ReleasedShowsDeleting, Released, Exists, RowKept
<1>3. (\A id \in WS : Exists(id) => id \in issued)'
  BY Zenon DEF Exists
<1>4. \A w, s : SlotTaken(w, s)' => SlotTaken(w, s)
  BY Zenon DEF SlotTaken, Exists, RowKept, SameKey
<1> QED
  BY <1>1, <1>2, <1>3, <1>4, Zenon DEF TableInv

(***************************************************************************)
(* A member's step preserves the invariant.                                *)
(***************************************************************************)
LEMMA MemberPreservesDBInv ==
  ASSUME DBInv, NEW m \in Members, MemberNext(m)
  PROVE  DBInv'
<1> USE DEF DBInv, DBTypeOK
<1>a. ASSUME UNCHANGED <<rows, issued, wk>>, req' \in [Members -> Requests],
             \A n \in Members : n # m => req'[n] = req[n],
             req'[m].op \notin {"locked", "insert"}
      PROVE  DBInv'
  BY <1>a DEF SlotsExclusive, ClaimNeverConflicts, ReleasedShowsDeleting, Released, Exists, SlotTaken
<1>1. ASSUME NEW pref \in Workers \cup {AnyWorker}, ClaimWorkstation(m, pref)
      PROVE  DBInv'
  <2>1. [op |-> "claim", pref |-> pref] \in Requests
    BY Zenon DEF Requests
  <2> QED
    BY <1>1, <1>a, <2>1, Zenon DEF ClaimWorkstation
<1>2. CASE ListSchedulableWorkers(m)
  <2>1. Schedulable \in SUBSET Workers
    BY Zenon DEF Schedulable
  <2>2. CASE Schedulable = {}
    <3>1. Idle \in Requests /\ Idle.op = "idle"
      BY Zenon DEF Requests, Idle
    <3> QED
      BY <1>2, <2>2, <1>a, <3>1, Zenon DEF ListSchedulableWorkers
  <2>3. CASE Schedulable # {}
    <3> DEFINE r == [op |-> "locked", pref |-> req[m].pref, workers |-> Schedulable]
    <3>1. r \in Requests /\ r.op = "locked"
      BY <2>1, <1>2, RequestFields, Zenon DEF Requests, ListSchedulableWorkers
    <3>2. req' = [req EXCEPT ![m] = r]
      BY Zenon, <1>2, <2>3 DEF ListSchedulableWorkers
    <3> HIDE DEF r
    <3>3. \A n \in Members : req[n].op \notin {"locked", "insert"}
      BY <1>2, Zenon DEF ListSchedulableWorkers, AllocationLocked
    <3> QED
      BY <1>2, <3>1, <3>2, <3>3 DEF ListSchedulableWorkers, SlotsExclusive, ClaimNeverConflicts,
         ReleasedShowsDeleting, Released, Exists, SlotTaken
  <2> QED
    BY <2>2, <2>3, Zenon
<1>3. CASE SelectSlot(m)
  <2> DEFINE found == SelectWorkstationCandidate(req[m].workers, req[m].pref)
  <2>1. CASE req' = [req EXCEPT ![m] = Idle]
    <3>1. Idle \in Requests /\ Idle.op = "idle"
      BY Zenon DEF Requests, Idle
    <3> QED
      BY <1>3, <2>1, <1>a, <3>1, Zenon DEF SelectSlot
  <2>2. CASE \E c \in found : req' = [req EXCEPT ![m] = c]
    <3>1. PICK c \in found : req' = [req EXCEPT ![m] = c]
      BY Zenon, <2>2
    <3>2. req[m].op = "locked" /\ req[m].workers \in SUBSET Workers
      BY <1>3, RequestFields, Zenon DEF SelectSlot
    <3>3. c \in Requests /\ c.op = "insert" /\ c.slot < PoolSize[c.worker]
          /\ ~ SlotTaken(c.worker, c.slot)
      BY <3>2, CandidateIsFree, Zenon
    <3> QED
      BY <1>3, <3>1, <3>2, <3>3, Zenon DEF SelectSlot, SlotsExclusive, ClaimNeverConflicts,
         ReleasedShowsDeleting, Released, Exists, SlotTaken
  <2> QED
    BY <1>3, <2>1, <2>2, Zenon DEF SelectSlot
<1>4. CASE InsertWorkstation(m)
  <2>1. PICK id \in WS \ issued :
          /\ rows' = [rows EXCEPT ![id] =
                        [member |-> m, worker |-> req[m].worker, slot |-> req[m].slot,
                         power |-> "starting", desired |-> "running", ip |-> FALSE]]
          /\ issued' = issued \cup {id}
    BY Zenon, <1>4 DEF InsertWorkstation
  <2> DEFINE r == [member |-> m, worker |-> req[m].worker, slot |-> req[m].slot,
                   power |-> "starting", desired |-> "running", ip |-> FALSE]
  <2>2. req[m].op = "insert" /\ req[m].worker \in Workers /\ req[m].slot \in Nat
    BY <1>4, RequestFields, Zenon DEF InsertWorkstation
  <2>3. r \in Row /\ r.desired = "running" /\ r.worker = req[m].worker /\ r.slot = req[m].slot
    BY <2>2, Zenon DEF Row, Power, Desired
  <2>3a. r # NoRow
    BY Zenon, <2>3, DBAssumption
  <2>4. rows' = [rows EXCEPT ![id] = r] /\ rows'[id] = r
    BY <2>1, Zenon
  <2> HIDE DEF r
  <2>5. rows' \in [WS -> Row \cup {NoRow}] /\ issued' \in SUBSET WS /\ ~ Exists(id)
    BY Zenon, <2>1, <2>3, <2>4 DEF Exists
  <2>6. SlotsExclusive'
    BY <2>1, <2>2, <2>3, <2>4, <2>5 DEF SlotsExclusive, ClaimNeverConflicts, SlotTaken, Exists
  <2>7. ReleasedShowsDeleting'
    BY <2>3, <2>4, Zenon DEF ReleasedShowsDeleting, Released, Exists
  <2>8. Idle \in Requests /\ Idle.op = "idle"
    BY Zenon DEF Requests, Idle
  <2>9. req' = [req EXCEPT ![m] = Idle] /\ wk' = wk
    BY <1>4, Zenon DEF InsertWorkstation
  <2>10. ClaimNeverConflicts'
    <3>1. \A n \in Members : req'[n].op # "insert"
      BY <2>2, <2>8, <2>9, Zenon
    <3> QED
      BY <3>1, Zenon DEF ClaimNeverConflicts
  <2> QED
    BY <2>1, <2>4, <2>5, <2>6, <2>7, <2>8, <2>9, <2>10, Zenon DEF Exists
<1>5. CASE AbortClaim(m)
  <2>1. Idle \in Requests /\ Idle.op = "idle"
    BY Zenon DEF Requests, Idle
  <2> QED
    BY <1>5, <1>a, <2>1, Zenon DEF AbortClaim
<1>6. ASSUME NEW id \in WS, NEW op \in MemberOps, ResolveMemberWorkstation(m, id, op)
      PROVE  DBInv'
  <2>1. [op |-> op, id |-> id] \in Requests /\ op \notin {"locked", "insert"}
    BY DBAssumption, Zenon DEF Requests
  <2> QED
    BY <1>6, <1>a, <2>1, Zenon DEF ResolveMemberWorkstation
<1>7. CASE UpdateMemberWorkstation(m)
  <2>1. req[m].op \in MemberOps /\ req[m].id \in WS
    BY <1>7, RequestFields, Zenon DEF UpdateMemberWorkstation
  <2>2. /\ rows' \in [WS -> Row \cup {NoRow}]
        /\ \A id \in WS : Exists(id)' => Exists(id) /\ RowKept(rows[id], rows'[id])
    <3>0. \A i \in WS : Exists(i) => RowKept(rows[i], rows[i])
      BY Zenon DEF RowKept, SameKey, Exists, ReleasedShowsDeleting, Released
    <3>1. CASE Exists(req[m].id) /\ rows[req[m].id].member = m
      <4> DEFINE i == req[m].id
                 q == IF req[m].op = "get" THEN EnsureWorkstationRunning(rows[i])
                      ELSE UpdateDesiredPowerState(rows[i], DesiredOf(req[m].op))
      <4>1. rows' = [rows EXCEPT ![i] = q]
        BY <1>7, <3>1, Zenon DEF UpdateMemberWorkstation
      <4>2. rows[i] \in Row /\ (rows[i].desired = "deleted" => rows[i].power = "deleting")
        BY <2>1, <3>1, Zenon DEF Exists, ReleasedShowsDeleting, Released
      <4>3. RowKept(rows[i], q)
        BY <4>2, <2>1, MemberUpdateKeepsRow, Zenon
      <4> HIDE DEF q
      <4> QED
        BY <2>1, <3>0, <3>1, <4>1, <4>3, Zenon DEF RowKept, Exists
    <3>2. CASE ~ (Exists(req[m].id) /\ rows[req[m].id].member = m)
      BY <1>7, <3>0, <3>2, Zenon DEF UpdateMemberWorkstation, Exists
    <3> QED
      BY <3>1, <3>2, Zenon
  <2>3. issued' = issued /\ wk' = wk /\ req' = [req EXCEPT ![m] = Idle]
    BY <1>7, Zenon DEF UpdateMemberWorkstation
  <2>4. TableInv' /\ \A w, s : SlotTaken(w, s)' => SlotTaken(w, s)
    BY <2>2, <2>3, RewriteKeepsTable, Zenon
  <2>5. Idle \in Requests /\ Idle.op = "idle"
    BY Zenon DEF Requests, Idle
  <2> QED
    BY <2>2, <2>3, <2>4, <2>5, Zenon DEF TableInv, ClaimNeverConflicts
<1> QED
  BY <1>1, <1>2, <1>3, <1>4, <1>5, <1>6, <1>7, Zenon DEF MemberNext

(***************************************************************************)
(* A report of any worker about any workstation preserves the invariant,   *)
(* and the only row it can drop is a released one.                         *)
(***************************************************************************)
LEMMA ReportPreservesDBInv ==
  ASSUME DBInv, NEW w \in Workers, NEW id \in WS, NEW power \in Power, NEW ip \in BOOLEAN,
         UpdateWorkstationStatus(w, id, power, ip),
         issued' = issued, req' = req, wk' \in [Workers -> {"unknown", "idle", "fresh"}]
  PROVE  /\ DBInv'
         /\ \A i \in WS : Exists(i) =>
              IF Exists(i)' THEN RowKept(rows[i], rows'[i]) ELSE Released(i)
<1> USE DEF DBInv, DBTypeOK
<1>0. \A i \in WS : Exists(i) => RowKept(rows[i], rows[i])
  BY Zenon DEF RowKept, SameKey, Exists, ReleasedShowsDeleting, Released
<1>1. CASE Exists(id) /\ rows[id].worker = w
  <2> DEFINE q == StatusUpdate(rows[id], power, ip)
  <2>1. rows' = [rows EXCEPT ![id] = q]
    BY <1>1, Zenon DEF UpdateWorkstationStatus
  <2>2. rows[id] \in Row /\ (rows[id].desired = "deleted" => rows[id].power = "deleting")
    BY <1>1, Zenon DEF Exists, ReleasedShowsDeleting, Released
  <2>3. (q = NoRow /\ rows[id].desired = "deleted") \/ RowKept(rows[id], q)
    BY <2>2, ReportKeepsRow, Zenon
  <2> HIDE DEF q
  <2>4. /\ rows' \in [WS -> Row \cup {NoRow}]
        /\ \A i \in WS : Exists(i)' => Exists(i) /\ RowKept(rows[i], rows'[i])
        /\ \A i \in WS : Exists(i) /\ ~ Exists(i)' => Released(i)
    BY <1>0, <1>1, <2>1, <2>3, DBAssumption, Zenon DEF RowKept, Exists, Released
  <2>5. TableInv' /\ \A v, s : SlotTaken(v, s)' => SlotTaken(v, s)
    BY <2>4, RewriteKeepsTable, Zenon
  <2> QED
    BY <2>4, <2>5, Zenon DEF TableInv, ClaimNeverConflicts
<1>2. CASE ~ (Exists(id) /\ rows[id].worker = w)
  <2>1. rows' = rows
    BY <1>2, Zenon DEF UpdateWorkstationStatus
  <2> QED
    BY <1>0, <2>1, Zenon DEF SlotsExclusive, ClaimNeverConflicts, ReleasedShowsDeleting, Released,
       Exists, SlotTaken
<1> QED
  BY <1>1, <1>2, Zenon

(***************************************************************************)
(* A change of the workers' heartbeat times alone preserves the invariant. *)
(***************************************************************************)
LEMMA WorkerRowPreservesDBInv ==
  ASSUME DBInv, wk' \in [Workers -> {"unknown", "idle", "fresh"}], UNCHANGED <<rows, issued, req>>
  PROVE  DBInv'
BY Zenon DEF DBInv, DBTypeOK, SlotsExclusive, ClaimNeverConflicts, ReleasedShowsDeleting, Released,
   Exists, SlotTaken

(***************************************************************************)
(* The empty table with no request in progress satisfies the invariant.    *)
(***************************************************************************)
LEMMA DBInitImpliesInv == DBInit => DBInv
<1> SUFFICES ASSUME DBInit PROVE DBInv
  BY Zenon
<1>1. Idle \in Requests /\ Idle.op = "idle"
  BY Zenon DEF Requests, Idle
<1> QED
  BY <1>1, Zenon DEF DBInit, DBInv, DBTypeOK, SlotsExclusive, ClaimNeverConflicts,
     ReleasedShowsDeleting, Released, Exists

(***************************************************************************)
(* A registration, a heartbeat, its expiry and a report of any worker      *)
(* preserve the invariant.                                                 *)
(***************************************************************************)
LEMMA WorkerPreservesDBInv ==
  ASSUME DBInv, NEW w \in Workers, WorkerNext(w)
  PROVE  DBInv'
<1>1. CASE UpsertWorker(w) /\ UNCHANGED <<rows, issued, req>>
  BY <1>1, WorkerRowPreservesDBInv, Zenon DEF UpsertWorker, DBInv, DBTypeOK
<1>2. CASE UpdateHeartbeat(w) /\ UNCHANGED <<rows, issued, req>>
  BY <1>2, WorkerRowPreservesDBInv, Zenon DEF UpdateHeartbeat, DBInv, DBTypeOK
<1>3. CASE HeartbeatExpires(w)
  BY <1>3, WorkerRowPreservesDBInv, Zenon DEF HeartbeatExpires, DBInv, DBTypeOK
<1>4. ASSUME NEW id \in WS, NEW power \in ReportStates, NEW ip \in BOOLEAN,
             Report(w, id, power, ip)
      PROVE  DBInv'
  BY <1>4, ReportPreservesDBInv, DBAssumption DEF Report, DBInv, DBTypeOK
<1> QED
  BY <1>1, <1>2, <1>3, <1>4, Zenon DEF WorkerNext

(***************************************************************************)
(* DBInv is an invariant of the table, whatever workers report.            *)
(***************************************************************************)
THEOREM DBInvariant == DBSpec => []DBInv
<1>1. DBInit => DBInv
  BY DBInitImpliesInv, Zenon
<1>2. DBInv /\ [DBNext]_dbvars => DBInv'
  <2> SUFFICES ASSUME DBInv, [DBNext]_dbvars PROVE DBInv'
    BY Zenon
  <2>1. CASE \E m \in Members : MemberNext(m)
    BY <2>1, MemberPreservesDBInv, Zenon
  <2>2. CASE \E w \in Workers : WorkerNext(w)
    BY <2>2, WorkerPreservesDBInv, Zenon
  <2>3. CASE UNCHANGED dbvars
    BY <2>3, WorkerRowPreservesDBInv, Zenon DEF dbvars, DBInv, DBTypeOK
  <2> QED
    BY <2>1, <2>2, <2>3, Zenon DEF DBNext
<1> QED
  BY <1>1, <1>2, PTL DEF DBSpec

(***************************************************************************)
(* Type correctness of the table and of the requests in progress.          *)
(***************************************************************************)
THEOREM DBTypeCorrect == DBSpec => []DBTypeOK
<1>1. DBInv => DBTypeOK
  BY Zenon DEF DBInv
<1> QED
  BY <1>1, DBInvariant, PTL

(***************************************************************************)
(* Two rows never share a slot and no slot lies outside its pool           *)
(* (ClaimWorkstation with any interleaving of claims and releases).        *)
(***************************************************************************)
THEOREM SlotsAreExclusive == DBSpec => []SlotsExclusive
<1>1. DBInv => SlotsExclusive
  BY Zenon DEF DBInv
<1> QED
  BY <1>1, DBInvariant, PTL

(***************************************************************************)
(* A claim's insert never meets the UNIQUE (worker_id, slot) constraint.   *)
(***************************************************************************)
THEOREM ClaimsNeverConflict == DBSpec => []ClaimNeverConflicts
<1>1. DBInv => ClaimNeverConflicts
  BY Zenon DEF DBInv
<1> QED
  BY <1>1, DBInvariant, PTL

(***************************************************************************)
(* A released row shows "deleting" until it is dropped.                    *)
(***************************************************************************)
THEOREM ReleasedShown == DBSpec => []ReleasedShowsDeleting
<1>1. DBInv => ReleasedShowsDeleting
  BY Zenon DEF DBInv
<1> QED
  BY <1>1, DBInvariant, PTL

(***************************************************************************)
(* What one step of the table may do to a row: keep its key and, once it   *)
(* is released, its mark; drop it only when it is released; never bring an *)
(* issued ID back.                                                         *)
(***************************************************************************)
LEMMA StepKeepsRows ==
  ASSUME DBInv, [DBNext]_dbvars, NEW i \in WS
  PROVE  /\ Exists(i) => IF Exists(i)' THEN RowKept(rows[i], rows'[i]) ELSE Released(i)
         /\ i \in issued /\ ~ Exists(i) => ~ Exists(i)'
<1> USE DEF DBInv, DBTypeOK
<1>0. Exists(i) => RowKept(rows[i], rows[i])
  BY Zenon DEF RowKept, SameKey, Exists, ReleasedShowsDeleting, Released
<1>1. CASE rows' = rows
  BY <1>0, <1>1, Zenon DEF Exists
<1>2. ASSUME NEW m \in Members, InsertWorkstation(m)
      PROVE  /\ Exists(i) => Exists(i)' /\ RowKept(rows[i], rows'[i])
             /\ i \in issued /\ ~ Exists(i) => ~ Exists(i)'
  BY <1>0, <1>2, Zenon DEF InsertWorkstation, Exists
<1>3. ASSUME NEW m \in Members, UpdateMemberWorkstation(m)
      PROVE  /\ Exists(i) => Exists(i)' /\ RowKept(rows[i], rows'[i])
             /\ ~ Exists(i) => ~ Exists(i)'
  <2> DEFINE j == req[m].id
             q == IF req[m].op = "get" THEN EnsureWorkstationRunning(rows[j])
                  ELSE UpdateDesiredPowerState(rows[j], DesiredOf(req[m].op))
  <2>1. req[m].op \in MemberOps /\ j \in WS
    BY <1>3, RequestFields, Zenon DEF UpdateMemberWorkstation
  <2>2. CASE Exists(j) /\ rows[j].member = m
    <3>1. rows' = [rows EXCEPT ![j] = q]
      BY <1>3, <2>2, Zenon DEF UpdateMemberWorkstation
    <3>2. rows[j] \in Row /\ (rows[j].desired = "deleted" => rows[j].power = "deleting")
      BY <2>1, <2>2, Zenon DEF Exists, ReleasedShowsDeleting, Released
    <3>3. RowKept(rows[j], q)
      BY <3>2, <2>1, MemberUpdateKeepsRow, Zenon
    <3>4. q # NoRow
      BY <3>3, DBAssumption, Zenon DEF RowKept
    <3> HIDE DEF q
    <3> QED
      BY <1>0, <2>1, <2>2, <3>1, <3>3, <3>4, Zenon DEF Exists
  <2>3. CASE ~ (Exists(j) /\ rows[j].member = m)
    BY <1>0, <1>3, <2>3, Zenon DEF UpdateMemberWorkstation, Exists
  <2> QED
    BY <2>2, <2>3, Zenon
<1>4. ASSUME NEW w \in Workers, NEW id \in WS, NEW power \in ReportStates, NEW ip \in BOOLEAN,
             Report(w, id, power, ip)
      PROVE  /\ Exists(i) => IF Exists(i)' THEN RowKept(rows[i], rows'[i]) ELSE Released(i)
             /\ ~ Exists(i) => ~ Exists(i)'
  <2>1. Exists(i) => IF Exists(i)' THEN RowKept(rows[i], rows'[i]) ELSE Released(i)
    BY <1>4, ReportPreservesDBInv, DBAssumption DEF Report
  <2>2. ~ Exists(i) => ~ Exists(i)'
    BY SMTT(30), <1>4 DEF Report, UpdateWorkstationStatus, Exists
  <2> QED
    BY <2>1, <2>2, Zenon
<1>5. CASE \E m \in Members : MemberNext(m)
  BY <1>1, <1>2, <1>3, <1>5, Zenon DEF MemberNext, ClaimWorkstation, ListSchedulableWorkers, SelectSlot,
     AbortClaim, ResolveMemberWorkstation
<1>6. CASE \E w \in Workers : WorkerNext(w)
  BY <1>1, <1>4, <1>6, Zenon DEF WorkerNext, HeartbeatExpires
<1> QED
  BY <1>1, <1>5, <1>6, Zenon DEF DBNext, dbvars

(***************************************************************************)
(* A release cannot be undone, by whatever request or report.              *)
(***************************************************************************)
THEOREM ReleasesAreFinal == DBSpec => ReleaseIsFinal
<1>1. DBInv /\ [DBNext]_dbvars =>
        [\A id \in WS : /\ Released(id) => ~ Exists(id)' \/ Released(id)'
                        /\ id \in issued /\ ~ Exists(id) => ~ Exists(id)']_dbvars
  BY StepKeepsRows, Zenon DEF RowKept, Released, Exists
<1> QED
  BY <1>1, DBInvariant, PTL DEF DBSpec, ReleaseIsFinal

(***************************************************************************)
(* No row vanishes or changes owner, worker or slot under its member.      *)
(***************************************************************************)
THEOREM RowsVanishOnlyReleased == DBSpec => OnlyReleasedRowsVanish
<1>1. DBInv /\ [DBNext]_dbvars =>
        [\A id \in WS : Exists(id) =>
           IF Exists(id)'
             THEN /\ rows'[id].member = rows[id].member
                  /\ rows'[id].worker = rows[id].worker
                  /\ rows'[id].slot = rows[id].slot
             ELSE Released(id)]_dbvars
  BY StepKeepsRows, Zenon DEF RowKept, SameKey
<1> QED
  BY <1>1, DBInvariant, PTL DEF DBSpec, OnlyReleasedRowsVanish

-----------------------------------------------------------------------------
(* The fleet *)

(***************************************************************************)
(* With no row, runtime, heartbeat or VM the invariant holds.              *)
(***************************************************************************)
LEMMA InitFleetInv == Init => FleetInv
<1> SUFFICES ASSUME Init PROVE FleetInv
  BY Zenon
<1>1. DBInv
  BY DBInitImpliesInv, Zenon DEF Init
<1>2. TypeOK
  BY <1>1, Zenon DEF Init, TypeOK, DBInv, NoWant, AllFalse, Fresh, Power, VMStates
<1>3. \A id \in WS : ~ Exists(id)
  BY Zenon DEF Init, DBInit, Exists
<1>4. RuntimesInv
  BY Zenon DEF Init, RuntimesInv, SoundRuntime, NoWant, AllFalse, Fresh, Runtimes
<1>5. BeatsInv /\ VMsInv
  BY Zenon DEF Init, BeatsInv, VMsInv
<1> QED
  BY <1>1, <1>2, <1>3, <1>4, <1>5, Zenon DEF FleetInv, OnlyReleasedLooksDeleted, RunningHasAddress

(***************************************************************************)
(* A heartbeat that only loses statuses or reaches the next stage before   *)
(* the answer reports nothing new.                                         *)
(***************************************************************************)
BeatShrinks(b, c) ==
  c # NoBeat =>
    /\ b # NoBeat
    /\ (c.live => b.live) /\ c.power = b.power /\ c.ip = b.ip /\ c.desired = b.desired
    /\ c.left \subseteq b.left
    /\ c.stage = "reply" => b.stage = "reply"

(***************************************************************************)
(* Heartbeats that only fade, while no release is undone, no row comes     *)
(* back and nobody who waits for an answer changes, keep their part of the *)
(* invariant.                                                              *)
(***************************************************************************)
LEMMA FadingKeepsBeatsInv ==
  ASSUME TypeOK, BeatsInv,
         \A w \in Workers, k \in Beats : BeatShrinks(hb[w][k], hb'[w][k]),
         \A w \in Workers, k \in Beats : hb'[w][k] # NoBeat /\ hb'[w][k].live =>
           phase'[w] = "await" /\ want'[w] = want[w],
         \A w \in Workers, id \in WS : GivenUp(w, id) => GivenUp(w, id)',
         \A w \in Workers, id \in WS : Serves(w, id) /\ ~ ReportsDeleted(w, id) => Serves(w, id)',
         \A w \in Workers, id \in WS : ReportsDeleted(w, id)' => ReportsDeleted(w, id),
         \A id \in WS : id \in issued /\ ~ Exists(id) => id \in issued' /\ ~ Exists(id)'
  PROVE  BeatsInv'
<1> SUFFICES ASSUME NEW w \in Workers, NEW k \in Beats, hb'[w][k] # NoBeat
             PROVE  AwaitedAlone(w, k)' /\ SoundReports(w, k)' /\ SoundAnswer(w, k)'
  BY Zenon DEF BeatsInv
<1>1. /\ hb[w][k] # NoBeat /\ BeatShrinks(hb[w][k], hb'[w][k])
      /\ AwaitedAlone(w, k) /\ SoundReports(w, k) /\ SoundAnswer(w, k)
  BY Zenon DEF BeatShrinks, BeatsInv
<1>2. hb[w][k].left \subseteq WS
  <2>1. hb \in [Workers -> [Beats -> Beat \cup {NoBeat}]]
    BY Zenon DEF TypeOK
  <2>2. hb[w][k] \in Beat \cup {NoBeat}
    BY <2>1, Zenon
  <2>3. hb[w][k] \in Beat
    BY <1>1, <2>2, Zenon
  <2> QED  BY <2>3, Zenon DEF Beat
<1>3. AwaitedAlone(w, k)'
  BY <1>1, Zenon DEF AwaitedAlone, BeatShrinks
<1>4. SoundReports(w, k)'
  <2>1. /\ hb'[w][k].left \subseteq hb[w][k].left
        /\ hb'[w][k].power = hb[w][k].power /\ hb'[w][k].ip = hb[w][k].ip
    BY <1>1, Zenon DEF BeatShrinks
  <2> SUFFICES ASSUME NEW i \in hb'[w][k].left PROVE ReportFor(w, k, i)'
    BY Zenon DEF SoundReports
  <2>2. i \in WS /\ ReportFor(w, k, i)
    BY <1>1, <1>2, <2>1, Zenon DEF SoundReports
  <2> QED
    BY <2>1, <2>2, Zenon DEF ReportFor
<1>5. SoundAnswer(w, k)'
  <2> SUFFICES ASSUME hb'[w][k].stage = "reply", hb'[w][k].live, NEW i \in WS
               PROVE  AnswerFor(w, k, i)'
    BY Zenon DEF SoundAnswer
  <2>1. hb[w][k].stage = "reply" /\ hb[w][k].live /\ hb'[w][k].desired = hb[w][k].desired
    BY <1>1, Zenon DEF BeatShrinks
  <2>2. AnswerFor(w, k, i)
    BY <1>1, <2>1, Zenon DEF SoundAnswer
  <2>3. want'[w] = want[w]
    BY Zenon
  <2> QED
    BY <2>1, <2>2, <2>3, Zenon DEF AnswerFor
<1> QED
  BY <1>3, <1>4, <1>5, Zenon

(***************************************************************************)
(* A heartbeat a step does not touch stays sound, unless its answer is     *)
(* awaited and the runtimes or the reports of its worker change.           *)
(***************************************************************************)
LEMMA BeatKept ==
  ASSUME NEW w \in Workers, NEW k \in Beats, hb'[w][k] = hb[w][k],
         hb[w][k].left \subseteq WS, SoundReports(w, k), SoundAnswer(w, k),
         \A id \in WS : GivenUp(w, id) => GivenUp(w, id)',
         \A id \in WS : Serves(w, id) => Serves(w, id)',
         \A id \in WS : id \in issued /\ ~ Exists(id) => id \in issued' /\ ~ Exists(id)',
         hb[w][k].live => /\ want'[w] = want[w]
                          /\ \A id \in WS : ReportsDeleted(w, id)' => ReportsDeleted(w, id)
  PROVE  SoundReports(w, k)' /\ SoundAnswer(w, k)'
<1>1. SoundReports(w, k)'
  <2> SUFFICES ASSUME NEW i \in hb[w][k].left PROVE ReportFor(w, k, i)'
    BY Zenon DEF SoundReports
  <2>1. i \in WS /\ ReportFor(w, k, i)
    BY Zenon DEF SoundReports
  <2> QED
    BY <2>1, Zenon DEF ReportFor
<1>2. SoundAnswer(w, k)'
  <2> SUFFICES ASSUME hb[w][k].stage = "reply", hb[w][k].live, NEW i \in WS
               PROVE  AnswerFor(w, k, i)'
    BY Zenon DEF SoundAnswer
  <2>1. AnswerFor(w, k, i) /\ want'[w] = want[w]
    BY Zenon DEF SoundAnswer
  <2> QED
    BY <2>1, Zenon DEF AnswerFor
<1> QED
  BY <1>1, <1>2, Zenon

(***************************************************************************)
(* A runtime a step does not touch stays sound.                            *)
(***************************************************************************)
LEMMA RuntimeKept ==
  ASSUME NEW w \in Workers, NEW id \in WS, SoundRuntime(w, id),
         want'[w][id] = want[w][id], state'[w][id] = state[w][id], addr'[w][id] = addr[w][id],
         GivenUp(w, id) => GivenUp(w, id)', Serves(w, id) => Serves(w, id)',
         ReportsDeleted(w, id)' => ReportsDeleted(w, id)
  PROVE  SoundRuntime(w, id)'
BY Zenon DEF SoundRuntime

(***************************************************************************)
(* A step of the table that neither unmarks a released row nor drops one   *)
(* whose deletion was not reported preserves the invariant.                *)
(***************************************************************************)
LEMMA TableStepPreservesFleetInv ==
  ASSUME FleetInv, UNCHANGED <<workervars, vm>>,
         TypeOK', DBInv', OnlyReleasedLooksDeleted', RunningHasAddress',
         issued \subseteq issued',
         \A w \in Workers, k \in Beats : BeatShrinks(hb[w][k], hb'[w][k]),
         \A w \in Workers, id \in WS : GivenUp(w, id) => GivenUp(w, id)',
         \A w \in Workers, id \in WS : Serves(w, id) /\ ~ ReportsDeleted(w, id) => Serves(w, id)',
         \A id \in issued : ~ Exists(id) => ~ Exists(id)'
  PROVE  FleetInv'
<1>1. \A w \in Workers, id \in WS : ReportsDeleted(w, id)' => ReportsDeleted(w, id)
  BY DEF ReportsDeleted, BeatShrinks
<1>2. RuntimesInv'
  BY <1>1, Zenon DEF FleetInv, RuntimesInv, SoundRuntime, Runtimes, workervars
<1>3. BeatsInv'
  <2>1. \A w \in Workers, k \in Beats : hb'[w][k] # NoBeat /\ hb'[w][k].live =>
          phase'[w] = "await" /\ want'[w] = want[w]
    BY Zenon DEF FleetInv, BeatsInv, AwaitedAlone, BeatShrinks, workervars
  <2> QED
    BY <1>1, <2>1, FadingKeepsBeatsInv, Zenon DEF FleetInv
<1>4. VMsInv => VMsInv'
  BY <1>1, Zenon DEF VMsInv, workervars
<1> QED
  BY <1>2, <1>3, <1>4, Zenon DEF FleetInv

(***************************************************************************)
(* A member's update neither makes a row look deleted that is not released *)
(* nor shows one as running that has no address.                           *)
(***************************************************************************)
RowShown(r) ==
  /\ r.power \in {"deleting", "deleted"} => r.desired = "deleted"
  /\ r.power = "running" => r.ip

(***************************************************************************)
(* A get, start, stop or release keeps what the row shows sound.           *)
(***************************************************************************)
LEMMA MemberUpdateKeepsShown ==
  ASSUME NEW r \in Row, RowShown(r), NEW op \in MemberOps
  PROVE  RowShown(IF op = "get" THEN EnsureWorkstationRunning(r)
                                ELSE UpdateDesiredPowerState(r, DesiredOf(op)))
<1>1. CASE op = "get"
  BY <1>1, Zenon DEF RowShown, EnsureWorkstationRunning, ClaimExistingWorkstation, Row
<1>2. CASE op # "get"
  <2>1. DesiredOf(op) \in Desired
    BY <1>2, DBAssumption, Zenon DEF DesiredOf, Desired
  <2> QED
    BY <1>2, <2>1, Zenon DEF RowShown, UpdateDesiredPowerState, Row, Desired
<1> QED
  BY <1>1, <1>2, Zenon

(***************************************************************************)
(* So does a report of a running VM with its address, or of a deleted VM   *)
(* whose row is released.                                                  *)
(***************************************************************************)
LEMMA ReportKeepsShown ==
  ASSUME NEW r \in Row, RowShown(r), NEW power \in Power \ {"deleting"}, NEW ip \in BOOLEAN,
         power = "running" => ip, power = "deleted" => r.desired = "deleted"
  PROVE  StatusUpdate(r, power, ip) = NoRow \/ RowShown(StatusUpdate(r, power, ip))
BY Zenon DEF RowShown, StatusUpdate, Row

(***************************************************************************)
(* A member's step drops no row, and every row it leaves is shown soundly. *)
(***************************************************************************)
LEMMA MemberKeepsShown ==
  ASSUME FleetInv, NEW m \in Members, MemberNext(m), NEW i \in WS
  PROVE  /\ Exists(i) => Exists(i)'
         /\ Exists(i)' => RowShown(rows'[i])
         /\ issued \subseteq issued'
<1>0. Exists(i) => RowShown(rows[i])
  BY Zenon DEF FleetInv, RowShown, OnlyReleasedLooksDeleted, RunningHasAddress, Released
<1>1. CASE rows' = rows /\ issued' = issued
  BY <1>0, <1>1, Zenon DEF Exists
<1>2. CASE InsertWorkstation(m)
  <2>1. PICK id \in WS \ issued :
          /\ rows' = [rows EXCEPT ![id] =
                        [member |-> m, worker |-> req[m].worker, slot |-> req[m].slot,
                         power |-> "starting", desired |-> "running", ip |-> FALSE]]
          /\ issued' = issued \cup {id}
    BY Zenon, <1>2 DEF InsertWorkstation
  <2> DEFINE r == [member |-> m, worker |-> req[m].worker, slot |-> req[m].slot,
                   power |-> "starting", desired |-> "running", ip |-> FALSE]
  <2>2. RowShown(r)
    BY Zenon DEF RowShown
  <2>3. rows \in [WS -> Row \cup {NoRow}] /\ ~ Exists(id)
    BY Zenon DEF FleetInv, DBInv, DBTypeOK
  <2>4. rows' = [rows EXCEPT ![id] = r]
    BY <2>1, Zenon
  <2> HIDE DEF r
  <2>5. rows'[i] = IF i = id THEN r ELSE rows[i]
    BY <2>3, <2>4, Zenon
  <2> QED
    BY <1>0, <2>1, <2>2, <2>3, <2>5, Zenon DEF Exists
<1>3. CASE UpdateMemberWorkstation(m)
  <2> DEFINE j == req[m].id
             q == IF req[m].op = "get" THEN EnsureWorkstationRunning(rows[j])
                  ELSE UpdateDesiredPowerState(rows[j], DesiredOf(req[m].op))
  <2>1. req[m].op \in MemberOps /\ j \in WS
    BY <1>3, RequestFields, Zenon DEF UpdateMemberWorkstation, FleetInv, DBInv, DBTypeOK
  <2>2. CASE Exists(j) /\ rows[j].member = m
    <3>1. rows' = [rows EXCEPT ![j] = q] /\ issued' = issued
      BY <1>3, <2>2, Zenon DEF UpdateMemberWorkstation
    <3>2. rows[j] \in Row /\ RowShown(rows[j])
          /\ (rows[j].desired = "deleted" => rows[j].power = "deleting")
      BY <2>1, <2>2, Zenon DEF Exists, ReleasedShowsDeleting, Released, FleetInv, DBInv, DBTypeOK,
         RowShown, OnlyReleasedLooksDeleted, RunningHasAddress
    <3>3. q \in Row /\ RowShown(q)
      BY <3>2, <2>1, MemberUpdateKeepsRow, MemberUpdateKeepsShown, Zenon DEF RowKept
    <3>4. q # NoRow
      BY <3>3, DBAssumption, Zenon
    <3>5. rows \in [WS -> Row \cup {NoRow}]
      BY Zenon DEF FleetInv, DBInv, DBTypeOK
    <3> HIDE DEF q
    <3> QED
      BY <1>0, <2>1, <2>2, <3>1, <3>3, <3>4, <3>5, Zenon DEF Exists
  <2>3. CASE ~ (Exists(j) /\ rows[j].member = m)
    BY <1>1, <1>3, <2>3, Zenon DEF UpdateMemberWorkstation
  <2> QED
    BY <2>2, <2>3, Zenon
<1> QED
  BY <1>1, <1>2, <1>3, Zenon DEF MemberNext, ClaimWorkstation, ListSchedulableWorkers, SelectSlot,
     AbortClaim, ResolveMemberWorkstation

(***************************************************************************)
(* A step of a member's request preserves the fleet's invariant.           *)
(***************************************************************************)
LEMMA MemberPreservesFleetInv ==
  ASSUME FleetInv, NEW m \in Members, MemberStep(m)
  PROVE  FleetInv'
<1> USE DEF FleetInv
<1>1. DBInv' /\ MemberNext(m)
  BY MemberPreservesDBInv, Zenon DEF MemberStep
<1>2. UNCHANGED <<workervars, hb, vm>>
  BY Zenon DEF MemberStep
<1>3. TypeOK'
  BY <1>1, <1>2, Zenon DEF TypeOK, DBInv, workervars
<1>4. \A i \in WS : /\ Exists(i) => Exists(i)' /\ RowKept(rows[i], rows'[i])
                    /\ i \in issued /\ ~ Exists(i) => ~ Exists(i)'
  BY <1>1, StepKeepsRows, MemberKeepsShown, Zenon DEF DBNext
<1>5. OnlyReleasedLooksDeleted' /\ RunningHasAddress'
  BY <1>1, MemberKeepsShown, Zenon DEF RowShown, OnlyReleasedLooksDeleted, RunningHasAddress, Released
<1>6. \A id \in WS : id \in issued => id \in issued'
  BY <1>1, MemberKeepsShown, Zenon
<1>7. issued \subseteq issued'
  BY <1>6, Zenon DEF DBInv, DBTypeOK
<1>8. \A w \in Workers, id \in WS : GivenUp(w, id) => GivenUp(w, id)'
  BY <1>4, <1>7, Zenon DEF GivenUp, Released, RowKept, SameKey
<1>9. \A w \in Workers, id \in WS : Serves(w, id) => Serves(w, id)'
  BY <1>4, Zenon DEF Serves, RowKept, SameKey
<1>10. \A id \in issued : ~ Exists(id) => ~ Exists(id)'
  BY <1>4, Zenon DEF DBInv, DBTypeOK
<1>11. \A w \in Workers, k \in Beats : BeatShrinks(hb[w][k], hb'[w][k])
  BY <1>2, Zenon DEF BeatShrinks
<1> HIDE DEF FleetInv
<1> QED
  BY <1>1, <1>2, <1>3, <1>5, <1>7, <1>8, <1>9, <1>10, <1>11, TableStepPreservesFleetInv, Zenon

-----------------------------------------------------------------------------
(***************************************************************************)
(* The server's work on a heartbeat before and between its status updates, *)
(* a heartbeat that is dropped and one that gets too old preserve the      *)
(* invariant: the table itself does not change.                            *)
(***************************************************************************)
LEMMA BeatStepPreservesFleetInv ==
  ASSUME FleetInv, UNCHANGED <<rows, issued, req, workervars, vm>>,
         wk' \in [Workers -> {"unknown", "idle", "fresh"}],
         hb' \in [Workers -> [Beats -> Beat \cup {NoBeat}]],
         \A w \in Workers, k \in Beats : BeatShrinks(hb[w][k], hb'[w][k])
  PROVE  FleetInv'
<1>1. DBInv'
  BY WorkerRowPreservesDBInv, Zenon DEF FleetInv
<1>2. TypeOK'
  BY <1>1, Zenon DEF FleetInv, DBInv, TypeOK, workervars
<1>3. OnlyReleasedLooksDeleted' /\ RunningHasAddress'
  BY Zenon DEF FleetInv, OnlyReleasedLooksDeleted, RunningHasAddress, Released, Exists
<1>4. \A w \in Workers, id \in WS : GivenUp(w, id) => GivenUp(w, id)'
  BY Zenon DEF GivenUp, Released, Exists
<1>4a. \A w \in Workers, id \in WS : Serves(w, id) => Serves(w, id)'
  BY Zenon DEF Serves, Exists
<1>5. \A id \in issued : ~ Exists(id) => ~ Exists(id)'
  BY Zenon DEF Exists
<1>6. issued \subseteq issued' /\ UNCHANGED <<workervars, vm>>
  BY Zenon
<1> QED
  BY <1>1, <1>2, <1>3, <1>4, <1>4a, <1>5, <1>6, TableStepPreservesFleetInv, Zenon

(***************************************************************************)
(* The server starting on a heartbeat (handleWorkerHeartbeat).             *)
(***************************************************************************)
LEMMA HandlePreservesFleetInv ==
  ASSUME FleetInv, NEW w \in Workers, NEW k \in Beats, HandleWorkerHeartbeat(w, k)
  PROVE  FleetInv'
<1> DEFINE c == [hb[w][k] EXCEPT !.stage = "apply"]
<1>0. TypeOK /\ hb[w][k] \in Beat
  BY Zenon DEF FleetInv, HandleWorkerHeartbeat, InFlight, TypeOK
<1>1. c \in Beat /\ BeatShrinks(hb[w][k], c)
  BY <1>0, FleetAssumption, Zenon DEF Beat, BeatShrinks
<1>2. hb' = [hb EXCEPT ![w][k] = c]
  BY <1>0, Zenon DEF HandleWorkerHeartbeat, TypeOK
<1> HIDE DEF c
<1>3. hb' \in [Workers -> [Beats -> Beat \cup {NoBeat}]]
      /\ \A v \in Workers, l \in Beats : BeatShrinks(hb[v][l], hb'[v][l])
  <2>1. \A b : BeatShrinks(b, b)
    BY Zenon DEF BeatShrinks
  <2> QED
    BY <1>0, <1>1, <1>2, <2>1, Zenon DEF TypeOK
<1>4. wk' \in [Workers -> {"unknown", "idle", "fresh"}]
  BY Zenon, <1>0 DEF HandleWorkerHeartbeat, UpdateHeartbeat, TypeOK, DBTypeOK
<1> QED
  BY <1>3, <1>4, BeatStepPreservesFleetInv, Zenon DEF HandleWorkerHeartbeat

(***************************************************************************)
(* An abandoned heartbeat that the server stops working on.                *)
(***************************************************************************)
LEMMA DropPreservesFleetInv ==
  ASSUME FleetInv, NEW w \in Workers, NEW k \in Beats, DropHeartbeat(w, k)
  PROVE  FleetInv'
<1>0. TypeOK /\ hb' = [hb EXCEPT ![w][k] = NoBeat]
  BY Zenon DEF FleetInv, DropHeartbeat
<1>1. \A b : BeatShrinks(b, b) /\ BeatShrinks(b, NoBeat)
  BY Zenon DEF BeatShrinks
<1>2. hb' \in [Workers -> [Beats -> Beat \cup {NoBeat}]]
      /\ \A v \in Workers, l \in Beats : BeatShrinks(hb[v][l], hb'[v][l])
  BY <1>0, <1>1, Zenon DEF TypeOK
<1> QED
  BY <1>0, <1>2, BeatStepPreservesFleetInv, Zenon DEF DropHeartbeat, dbvars, TypeOK, DBTypeOK

(***************************************************************************)
(* A worker whose last heartbeat gets too old for the scheduler.           *)
(***************************************************************************)
LEMMA ExpiryPreservesFleetInv ==
  ASSUME FleetInv, NEW w \in Workers, HeartbeatExpires(w), UNCHANGED <<workervars, hb, vm>>
  PROVE  FleetInv'
<1>1. \A b : BeatShrinks(b, b)
  BY Zenon DEF BeatShrinks
<1>2. hb' \in [Workers -> [Beats -> Beat \cup {NoBeat}]]
      /\ wk' \in [Workers -> {"unknown", "idle", "fresh"}]
  BY Zenon DEF FleetInv, TypeOK, DBTypeOK, HeartbeatExpires
<1> QED
  BY <1>1, <1>2, BeatStepPreservesFleetInv, Zenon DEF HeartbeatExpires

(***************************************************************************)
(* One status update of a heartbeat preserves the invariant: it drops a    *)
(* row only if the row is released and its VM reported deleted.            *)
(***************************************************************************)
LEMMA ApplyPreservesFleetInv ==
  ASSUME FleetInv, NEW w \in Workers, NEW k \in Beats, NEW id \in WS, ApplyStatus(w, k, id)
  PROVE  FleetInv'
<1> DEFINE b == hb[w][k]
           c == [b EXCEPT !.left = @ \ {id}]
           p == b.power[id]
<1>0. TypeOK /\ DBInv /\ b \in Beat /\ b # NoBeat /\ id \in b.left
  BY Zenon DEF FleetInv, ApplyStatus, InFlight, TypeOK
<1>1. /\ p \in Power \ {"deleting"} /\ b.ip[id] \in BOOLEAN /\ (p = "running" => b.ip[id])
      /\ p = "deleted" => GivenUp(w, id) /\ ReportsDeleted(w, id)
  BY <1>0, Zenon DEF FleetInv, BeatsInv, SoundReports, ReportFor, ReportsDeleted, Beat
<1>2. hb' \in [Workers -> [Beats -> Beat \cup {NoBeat}]]
      /\ \A v \in Workers, l \in Beats : BeatShrinks(hb[v][l], hb'[v][l])
  <2>1. c \in Beat /\ BeatShrinks(b, c)
    BY <1>0, FleetAssumption, Zenon DEF Beat, BeatShrinks
  <2>2. hb' = [hb EXCEPT ![w][k] = c]
    BY <1>0, Zenon DEF ApplyStatus, TypeOK
  <2>3. \A x : BeatShrinks(x, x)
    BY Zenon DEF BeatShrinks
  <2> HIDE DEF c
  <2> QED
    BY <1>0, <2>1, <2>2, <2>3, Zenon DEF TypeOK
<1>3. CASE rows' = rows
  BY ZenonT(30), <1>0, <1>2, <1>3, BeatStepPreservesFleetInv DEF ApplyStatus, TypeOK, DBTypeOK
<1>4. CASE UpdateWorkstationStatus(w, id, p, b.ip[id])
  <2>0. UNCHANGED <<issued, req, wk, workervars, vm>> /\ wk' \in [Workers -> {"unknown", "idle", "fresh"}]
    BY <1>0, Zenon DEF ApplyStatus, TypeOK, DBTypeOK
  <2>1. /\ DBInv'
        /\ \A i \in WS : Exists(i) => IF Exists(i)' THEN RowKept(rows[i], rows'[i]) ELSE Released(i)
    BY <1>0, <1>1, <1>4, <2>0, ReportPreservesDBInv, Zenon
  <2>2. \A i \in WS : i # id \/ rows[i] = NoRow \/ rows[i].worker # w => rows'[i] = rows[i]
    BY <1>0, <1>4, Zenon DEF UpdateWorkstationStatus, Exists, TypeOK, DBTypeOK
  <2>3. CASE Exists(id) /\ rows[id].worker = w
    <3> DEFINE q == StatusUpdate(rows[id], p, b.ip[id])
    <3>1. rows'[id] = q
      BY <1>0, <1>4, <2>3, Zenon DEF UpdateWorkstationStatus, TypeOK, DBTypeOK
    <3>2. rows[id] \in Row /\ RowShown(rows[id]) /\ (rows[id].desired = "deleted" => rows[id].power = "deleting")
      BY <1>0, <2>3, Zenon DEF FleetInv, DBInv, DBTypeOK, Exists, ReleasedShowsDeleting, Released,
         RowShown, OnlyReleasedLooksDeleted, RunningHasAddress
    <3>3. p = "deleted" => rows[id].desired = "deleted"
      BY <1>1, <2>3, Zenon DEF GivenUp, Released
    <3>4. q = NoRow \/ RowShown(q)
      BY <1>1, <3>2, <3>3, ReportKeepsShown, Zenon
    <3>5. (q = NoRow /\ p = "deleted") \/ RowKept(rows[id], q)
      BY <1>1, <3>2, ReportKeepsRow, Zenon
    <3> HIDE DEF q, p
    <3>6. OnlyReleasedLooksDeleted' /\ RunningHasAddress'
      BY <2>2, <3>1, <3>4, Zenon DEF FleetInv, OnlyReleasedLooksDeleted, RunningHasAddress, Exists, Released, RowShown
    <3>7. \A v \in Workers, i \in WS : Serves(v, i) /\ ~ ReportsDeleted(v, i) => Serves(v, i)'
      BY <1>1, <2>2, <2>3, <3>1, <3>5, DBAssumption, Zenon DEF Serves, Exists, RowKept, SameKey
    <3>8. \A v \in Workers, i \in WS : GivenUp(v, i) => GivenUp(v, i)'
      BY SMTT(30), <2>0, <2>1, <2>2 DEF GivenUp, Released, RowKept, SameKey, Exists
    <3>9. TypeOK'
      BY <1>0, <1>2, <2>0, <2>1, Zenon DEF TypeOK, DBInv, workervars
    <3>10. \A i \in issued : ~ Exists(i) => ~ Exists(i)'
      BY <1>0, <2>2, Zenon DEF Exists, TypeOK, DBTypeOK
    <3>11. issued \subseteq issued' /\ UNCHANGED <<workervars, vm>>
      BY <2>0, Zenon
    <3> QED
      BY <1>2, <2>1, <3>6, <3>7, <3>8, <3>9, <3>10, <3>11, TableStepPreservesFleetInv, Zenon
  <2>4. CASE ~ (Exists(id) /\ rows[id].worker = w)
    BY <1>3, <1>4, <2>4, Zenon DEF UpdateWorkstationStatus
  <2> QED
    BY <2>3, <2>4, Zenon
<1> QED
  BY <1>3, <1>4, Zenon DEF ApplyStatus

-----------------------------------------------------------------------------
(* The answer to a heartbeat, and the worker's end of it *)

(***************************************************************************)
(* Steps that leave the table alone: what is left to show of each.         *)
(***************************************************************************)
LEMMA SameTable ==
  ASSUME FleetInv, UNCHANGED <<rows, issued, req>>, TypeOK'
  PROVE  /\ \A w \in Workers, id \in WS : /\ GivenUp(w, id)' <=> GivenUp(w, id)
                                          /\ Serves(w, id)' <=> Serves(w, id)
         /\ \A id \in WS : Exists(id)' <=> Exists(id)
         /\ RuntimesInv' /\ BeatsInv' /\ (TartGetMayFail \/ VMsInv') => FleetInv'
<1>1. DBInv'
  BY WorkerRowPreservesDBInv, Zenon DEF FleetInv, TypeOK, DBTypeOK
<1>2. OnlyReleasedLooksDeleted' /\ RunningHasAddress'
  BY Zenon DEF FleetInv, OnlyReleasedLooksDeleted, RunningHasAddress, Released, Exists
<1>3. \A w \in Workers, id \in WS : /\ GivenUp(w, id)' <=> GivenUp(w, id)
                                    /\ Serves(w, id)' <=> Serves(w, id)
  BY Zenon DEF GivenUp, Serves, Released, Exists
<1>4. \A id \in WS : Exists(id)' <=> Exists(id)
  BY Zenon DEF Exists
<1> QED
  BY <1>1, <1>2, <1>3, <1>4, Zenon DEF FleetInv

(***************************************************************************)
(* In such a step, heartbeats that only fade keep their part of the        *)
(* invariant, unless the worker that waits for an answer moves on.         *)
(***************************************************************************)
LEMMA SameTableKeepsBeatsInv ==
  ASSUME FleetInv, UNCHANGED <<rows, issued, req>>, TypeOK',
         \A w \in Workers, k \in Beats : BeatShrinks(hb[w][k], hb'[w][k]),
         \A w \in Workers, k \in Beats : hb'[w][k] # NoBeat /\ hb'[w][k].live =>
           phase'[w] = "await" /\ want'[w] = want[w]
  PROVE  BeatsInv' /\ \A w \in Workers, id \in WS : ReportsDeleted(w, id)' => ReportsDeleted(w, id)
<1>1. \A w \in Workers, id \in WS : ReportsDeleted(w, id)' => ReportsDeleted(w, id)
  BY SMTT(20), Zenon DEF ReportsDeleted, BeatShrinks
<1>2. \A w \in Workers, id \in WS : /\ GivenUp(w, id) => GivenUp(w, id)'
                                    /\ Serves(w, id) => Serves(w, id)'
  BY SameTable, Zenon
<1>3. \A id \in WS : id \in issued /\ ~ Exists(id) => id \in issued' /\ ~ Exists(id)'
  BY SameTable, Zenon
<1> QED
  BY <1>1, <1>2, <1>3, FadingKeepsBeatsInv, Zenon DEF FleetInv

(***************************************************************************)
(* The answer the server computes preserves the invariant.  What it lists  *)
(* as wanted was never marked for deletion by the worker, and what it does *)
(* not list although the worker has it is gone.                            *)
(***************************************************************************)
LEMMA ListPreservesFleetInv ==
  ASSUME FleetInv, NEW w \in Workers, NEW k \in Beats, ListDesiredWorkstations(w, k)
  PROVE  FleetInv'
<1> DEFINE b == hb[w][k]
           c == [b EXCEPT !.stage = "reply", !.desired = DesiredWorkstations(w)]
<1>0. TypeOK /\ DBInv /\ b \in Beat /\ b # NoBeat /\ b.left = {}
  BY DEF FleetInv, ListDesiredWorkstations, InFlight, TypeOK
<1>1. UNCHANGED <<rows, issued, req, wk, workervars, vm>>
  BY Zenon DEF ListDesiredWorkstations, dbvars
<1>2. CASE ~ b.live
  <2>1. hb' = [hb EXCEPT ![w][k] = NoBeat]
    BY <1>2, Zenon DEF ListDesiredWorkstations
  <2>2. \A x : BeatShrinks(x, x) /\ BeatShrinks(x, NoBeat)
    BY Zenon DEF BeatShrinks
  <2>3. hb' \in [Workers -> [Beats -> Beat \cup {NoBeat}]]
        /\ \A v \in Workers, l \in Beats : BeatShrinks(hb[v][l], hb'[v][l])
    BY <1>0, <2>1, <2>2, Zenon DEF TypeOK
  <2> QED
    BY <1>0, <1>1, <2>3, BeatStepPreservesFleetInv, Zenon DEF TypeOK, DBTypeOK
<1>3. CASE b.live
  <2>1. DesiredWorkstations(w) \in [WS -> Desired \cup {"none"}]
    BY <1>0, Zenon DEF DesiredWorkstations, TypeOK, DBTypeOK, Exists, Row
  <2>2. /\ c \in Beat /\ c.left = {} /\ c.live /\ c.stage = "reply"
        /\ c.desired = DesiredWorkstations(w)
    BY Zenon, <1>0, <1>3, <2>1 DEF Beat
  <2>3. hb' = [hb EXCEPT ![w][k] = c] /\ c # NoBeat
    BY <1>0, <1>3, <2>2, FleetAssumption, Zenon DEF ListDesiredWorkstations, TypeOK
  <2> HIDE DEF c
  <2>4. /\ hb' \in [Workers -> [Beats -> Beat \cup {NoBeat}]]
        /\ hb'[w][k] = c
        /\ \A v \in Workers, l \in Beats : v # w \/ l # k => hb'[v][l] = hb[v][l]
    BY <1>0, <2>2, <2>3, Zenon DEF TypeOK
  <2>5. TypeOK'
    BY <1>0, <1>1, <2>4, Zenon DEF TypeOK, DBTypeOK, workervars
  <2>6. \A v \in Workers, i \in WS : ReportsDeleted(v, i)' => ReportsDeleted(v, i)
    BY <2>2, <2>4, Zenon DEF ReportsDeleted
  <2>7. \A v \in Workers, i \in WS : /\ GivenUp(v, i)' <=> GivenUp(v, i)
                                     /\ Serves(v, i)' <=> Serves(v, i)
    BY <1>1, <2>5, SameTable, Zenon
  <2>8. RuntimesInv'
    BY <1>1, <2>6, <2>7, Zenon DEF FleetInv, RuntimesInv, SoundRuntime, Runtimes, workervars
  <2>9. VMsInv => VMsInv'
    BY <1>1, <2>6, <2>7, Zenon DEF VMsInv, workervars
  <2>10. \A i \in WS :
           /\ c.desired[i] = "deleted" => GivenUp(w, i)
           /\ c.desired[i] \in {"running", "stopped"} =>
                Serves(w, i) /\ want[w][i] # "deleted" /\ ~ ReportsDeleted(w, i)
           /\ c.desired[i] = "none" /\ want[w][i] # "none" => i \in issued /\ ~ Exists(i)
    <3> SUFFICES ASSUME NEW i \in WS
                 PROVE  <2>10!(i)
      BY Zenon
    <3>1. c.desired[i] = IF Exists(i) /\ rows[i].worker = w THEN rows[i].desired ELSE "none"
      BY <2>2, Zenon DEF DesiredWorkstations
    <3>2. Exists(i) => rows[i].desired \in Desired /\ i \in issued
      BY <1>0, Zenon DEF DBInv, DBTypeOK, Exists, Row
    <3>3. ReportsDeleted(w, i) => GivenUp(w, i)
      BY Zenon DEF ReportsDeleted, FleetInv, BeatsInv, SoundReports, ReportFor
    <3>4. /\ want[w][i] \in Desired \cup {"none"}
          /\ want[w][i] = "deleted" => GivenUp(w, i)
          /\ want[w][i] \in {"running", "stopped"} => Serves(w, i)
      BY DEF FleetInv, RuntimesInv, SoundRuntime, TypeOK
    <3> QED
      BY <3>1, <3>2, <3>3, <3>4, Zenon DEF GivenUp, Serves, Released, Desired
  <2>11. BeatsInv'
    <3>1. want' = want /\ phase' = phase /\ issued' = issued /\ b.live
          /\ \A i \in WS : Exists(i)' <=> Exists(i)
      BY <1>1, <1>3, Zenon DEF workervars, Exists
    <3> SUFFICES ASSUME NEW v \in Workers, NEW l \in Beats, hb'[v][l] # NoBeat
                 PROVE  AwaitedAlone(v, l)' /\ SoundReports(v, l)' /\ SoundAnswer(v, l)'
      BY Zenon DEF BeatsInv
    <3>1a. hb[v][l] # NoBeat
      BY <1>0, <2>4, Zenon
    <3>1b. hb[v][l].left \subseteq WS
      BY <1>0, <3>1a, SMTT(20), Zenon DEF TypeOK, Beat
    <3>2. /\ hb[v][l] # NoBeat /\ hb[v][l].left \subseteq WS
          /\ AwaitedAlone(v, l) /\ SoundReports(v, l) /\ SoundAnswer(v, l)
      BY <3>1a, <3>1b, Zenon DEF FleetInv, BeatsInv
    <3>3. AwaitedAlone(v, l)'
      BY <1>0, <2>2, <2>4, <3>1, <3>2, Zenon DEF AwaitedAlone
    <3>5. CASE v = w /\ l = k
      <4>1. SoundReports(v, l)'
        BY <2>2, <2>4, <3>5, Zenon DEF SoundReports
      <4>2. ASSUME NEW i \in WS PROVE AnswerFor(w, k, i)'
        BY <2>4, <2>6, <2>7, <2>10, <3>1, Zenon DEF AnswerFor
      <4> QED
        BY <3>3, <3>5, <4>1, <4>2, Zenon DEF SoundAnswer
    <3>6. CASE v # w \/ l # k
      <4>1. hb'[v][l] = hb[v][l]
        BY <2>4, <3>6, Zenon
      <4> QED
        BY <2>6, <2>7, <3>1, <3>2, <3>3, <4>1, BeatKept, Zenon
    <3> QED
      BY <3>5, <3>6, Zenon
  <2> QED
    BY <1>1, <2>5, <2>8, <2>9, <2>11, SameTable, Zenon DEF FleetInv
<1> QED
  BY <1>2, <1>3, Zenon

(***************************************************************************)
(* A heartbeat the worker sends preserves the invariant: what it reports   *)
(* deleted is a runtime marked for deletion, whose VM is gone.             *)
(***************************************************************************)
LEMMA SendPreservesFleetInv ==
  ASSUME FleetInv, NEW w \in Workers, NEW k \in Beats, SendHeartbeat(w, k)
  PROVE  FleetInv'
<1> DEFINE c == [stage |-> "sent", live |-> TRUE, left |-> Runtimes(w),
                 power |-> [id \in WS |-> IF id \in Runtimes(w) THEN state[w][id] ELSE "none"],
                 ip |-> addr[w], desired |-> NoWant]
<1>0. TypeOK /\ hb[w][k] = NoBeat /\ phase[w] = "send"
  BY Zenon DEF FleetInv, SendHeartbeat
<1>1. UNCHANGED <<rows, issued, req, wk, todo, listed, want, state, proc, addr, vm>>
      /\ phase' = [phase EXCEPT ![w] = "await"]
  BY Zenon DEF SendHeartbeat, dbvars
<1>2. /\ c \in Beat /\ c.left = Runtimes(w) /\ c.live /\ c.stage = "sent" /\ c.ip = addr[w]
      /\ \A i \in Runtimes(w) : c.power[i] = state[w][i]
  BY <1>0 DEF Beat, Runtimes, TypeOK, NoWant
<1>3. hb' = [hb EXCEPT ![w][k] = c] /\ c # NoBeat
  BY Zenon, <1>2, FleetAssumption DEF SendHeartbeat
<1> HIDE DEF c
<1>4. /\ hb' \in [Workers -> [Beats -> Beat \cup {NoBeat}]]
      /\ hb'[w][k] = c
      /\ \A v \in Workers, l \in Beats : v # w \/ l # k => hb'[v][l] = hb[v][l]
  BY <1>0, <1>2, <1>3, Zenon DEF TypeOK
<1>5. TypeOK'
  BY Zenon, <1>0, <1>1, <1>4 DEF TypeOK, DBTypeOK
<1>6. \A v \in Workers, i \in WS : /\ GivenUp(v, i)' <=> GivenUp(v, i)
                                   /\ Serves(v, i)' <=> Serves(v, i)
  BY <1>1, <1>5, SameTable, Zenon
<1>7. \A v \in Workers, i \in WS :
        ReportsDeleted(v, i)' => ReportsDeleted(v, i) \/ (v = w /\ state[w][i] = "deleted")
  BY <1>2, <1>4, SMTT(20), Zenon DEF ReportsDeleted
<1>8. RuntimesInv'
  BY <1>1, <1>6, <1>7, Zenon DEF FleetInv, RuntimesInv, SoundRuntime, Runtimes
<1>9. VMsInv => VMsInv'
  BY <1>1, <1>6, <1>7, Zenon DEF VMsInv
<1>10. BeatsInv'
  <2>1. \A l \in Beats : hb[w][l] # NoBeat => ~ hb[w][l].live
    BY <1>0, Zenon DEF FleetInv, BeatsInv, AwaitedAlone
  <2>2. \A i \in Runtimes(w) :
          /\ c.power[i] \in Power \ {"deleting"}
          /\ c.power[i] = "running" => c.ip[i]
          /\ c.power[i] = "deleted" => GivenUp(w, i)
    <3> SUFFICES ASSUME NEW i \in Runtimes(w) PROVE <2>2!(i)
      BY Zenon
    <3>1. i \in WS /\ c.power[i] = state[w][i] /\ c.ip = addr[w]
      BY <1>2, Zenon DEF Runtimes
    <3>2. SoundRuntime(w, i) /\ state[w][i] \in Power
      BY <1>0, <3>1, Zenon DEF FleetInv, RuntimesInv, TypeOK
    <3> QED
      BY <3>1, <3>2, Zenon DEF SoundRuntime
  <2>3. \A v \in Workers : v # w => phase'[v] = phase[v]
    BY <1>0, <1>1, Zenon DEF TypeOK
  <2>4. phase'[w] = "await"
    BY <1>0, <1>1, Zenon DEF TypeOK
  <2>5. \A i \in WS : Exists(i)' <=> Exists(i)
    BY <1>1, Zenon DEF Exists
  <2>6. \A v \in Workers, l \in Beats : hb[v][l] # NoBeat => hb[v][l].left \subseteq WS
    BY <1>0 DEF TypeOK, Beat
  <2> SUFFICES ASSUME NEW v \in Workers, NEW l \in Beats, hb'[v][l] # NoBeat
               PROVE  AwaitedAlone(v, l)' /\ SoundReports(v, l)' /\ SoundAnswer(v, l)'
    BY Zenon DEF BeatsInv
  <2>7. CASE v = w /\ l = k
    <3>1. AwaitedAlone(v, l)'
      BY <1>4, <2>1, <2>4, <2>7, Zenon DEF AwaitedAlone
    <3>2. SoundReports(v, l)'
      BY <1>2, <1>4, <1>6, <2>2, <2>7, Zenon DEF SoundReports, ReportFor, Runtimes
    <3>3. SoundAnswer(v, l)'
      BY <1>2, <1>4, <2>7, Zenon DEF SoundAnswer
    <3> QED
      BY <3>1, <3>2, <3>3, Zenon
  <2>8. CASE v # w \/ l # k
    <3>1. /\ hb'[v][l] = hb[v][l] /\ hb[v][l].left \subseteq WS /\ (v = w => ~ hb[v][l].live)
          /\ AwaitedAlone(v, l) /\ SoundReports(v, l) /\ SoundAnswer(v, l)
      <4>1. hb'[v][l] = hb[v][l] /\ hb[v][l] # NoBeat
        BY <1>4, <2>8, Zenon
      <4>2. AwaitedAlone(v, l) /\ SoundReports(v, l) /\ SoundAnswer(v, l)
        BY <4>1, Zenon DEF FleetInv, BeatsInv
      <4> QED
        BY <2>1, <2>6, <4>1, <4>2, Zenon
    <3>2. AwaitedAlone(v, l)'
      BY <1>4, <2>3, <3>1, Zenon DEF AwaitedAlone
    <3>3. /\ hb[v][l].live => /\ want'[v] = want[v]
                              /\ \A i \in WS : ReportsDeleted(v, i)' => ReportsDeleted(v, i)
          /\ issued' = issued
      BY <1>1, <1>7, <3>1, Zenon
    <3> QED
      BY <1>6, <2>5, <3>1, <3>2, <3>3, BeatKept, Zenon
  <2> QED
    BY <2>7, <2>8, Zenon
<1> QED
  BY <1>1, <1>5, <1>8, <1>9, <1>10, SameTable, Zenon DEF FleetInv

=============================================================================
