--------------------------------- MODULE Fleet ---------------------------------
(***************************************************************************)
(* The workstation table together with the workers that serve it: the      *)
(* worker's management loop (Worker.swift), its workstation runtimes       *)
(* (WorkstationManager.swift), the Tart VMs they drive (TartDriver.swift), *)
(* and the heartbeats between worker and server (ControlAPIClient.swift,   *)
(* handleWorkerHeartbeat in server/internal/api/rest/workers.go).          *)
(*                                                                         *)
(* A heartbeat can be lost, answered too late or not at all, and one the   *)
(* worker gave up on can still be applied by the server.  A worker process *)
(* can die at any moment and starts again with no runtimes; its VMs stay.  *)
(*                                                                         *)
(* One reconcile of one runtime is one step.  Its outcomes include every   *)
(* prefix of the tart commands it runs (the next command failed), so a     *)
(* crash between two commands is an outcome followed by a crash.           *)
(***************************************************************************)
EXTENDS Workstations

CONSTANTS
  Beats,           \* identifies the heartbeats of a worker in flight (a bound)
  NoBeat,          \* an unused heartbeat slot
  TartGetMayFail   \* whether `tart get` can fail for a VM that exists

VARIABLES
  phase,     \* where the worker process is in its loop
  todo,      \* the runtimes this pass of reconcile has still to visit
  listed,    \* WorkstationManager.desiredIDs
  want,      \* each runtime's desiredPowerState, "none" where there is no runtime
  state,     \* each runtime's state
  proc,      \* whether vmProcess is set
  addr,      \* whether ipAddress is set
  hb,        \* the heartbeats in flight
  vm         \* the Tart VMs on each host

workervars == <<phase, todo, listed, want, state, proc, addr>>

vars == <<dbvars, workervars, hb, vm>>

VMStates == {"none", "stopped", "booting", "up"}

Beat ==
  [stage : {"sent", "apply", "reply"},      \* not yet handled, applying, answered
   live  : BOOLEAN,                         \* the worker still waits for the answer
   left  : SUBSET WS,                       \* the statuses not applied yet
   power : [WS -> Power \cup {"none"}],     \* the reported states
   ip    : [WS -> BOOLEAN],
   desired : [WS -> Desired \cup {"none"}]] \* the answer

\* the missing heartbeat is not a heartbeat, the missing row not a place in a pool
ASSUME FleetAssumption ==
  /\ TartGetMayFail \in BOOLEAN
  /\ NoBeat \notin Beat
  /\ NoRow \notin [worker : Workers, slot : Nat]

\* The type of the workers, of the heartbeats in flight and of the VMs.
TypeOK ==
  /\ DBTypeOK
  /\ phase \in [Workers -> {"down", "reconcile", "send", "await"}]
  /\ todo \in [Workers -> SUBSET WS]
  /\ listed \in [Workers -> SUBSET WS]
  /\ want \in [Workers -> [WS -> Desired \cup {"none"}]]
  /\ state \in [Workers -> [WS -> Power]]
  /\ proc \in [Workers -> [WS -> BOOLEAN]]
  /\ addr \in [Workers -> [WS -> BOOLEAN]]
  /\ hb \in [Workers -> [Beats -> Beat \cup {NoBeat}]]
  /\ vm \in [Workers -> [WS -> VMStates]]

NoWant == [id \in WS |-> "none"]

AllFalse == [id \in WS |-> FALSE]

\* a runtime starts in state stopped, with no process and no address
Fresh == [id \in WS |-> "stopped"]

Init ==
  /\ DBInit
  /\ phase = [w \in Workers |-> "down"]
  /\ todo = [w \in Workers |-> {}]
  /\ listed = [w \in Workers |-> {}]
  /\ want = [w \in Workers |-> NoWant]
  /\ state = [w \in Workers |-> Fresh]
  /\ proc = [w \in Workers |-> AllFalse]
  /\ addr = [w \in Workers |-> AllFalse]
  /\ hb = [w \in Workers |-> [k \in Beats |-> NoBeat]]
  /\ vm = [w \in Workers |-> [id \in WS |-> "none"]]

Runtimes(w) == {id \in WS : want[w][id] # "none"}

-----------------------------------------------------------------------------
(* Reconciling one runtime.  Each operator is the set of ways it can end. *)

Outcome(v, s, p, a) == [vm |-> v, state |-> s, proc |-> p, addr |-> a]

(***************************************************************************)
(* ensureRunning.  In order: exists, clone and configure a missing VM      *)
(* (either may fail; cloning over a VM that `tart get` missed fails); use  *)
(* its address if it has one; leave it alone if a `tart run` was started   *)
(* before; else configure and `tart run` it, which may fail at once, fail  *)
(* later or boot, and wait for the address.                                *)
(***************************************************************************)
EnsureRunning(v, p, a) ==
  LET found == IF v = "none" THEN "stopped" ELSE v
      ran == IF found = "up" THEN {"up"} ELSE {found, "booting"}
  IN  {o \in {Outcome(v, "error", p, a)} : v = "none" \/ TartGetMayFail \/ ~ p}
        \cup {o \in {Outcome(found, "error", p, a)} : v = "none"}
        \cup {o \in {Outcome(found, "running", p, TRUE)} : found = "up"}
        \cup {o \in {Outcome(found, "starting", p, a)} : p}
        \cup {o \in {Outcome(r, "error", TRUE, a) : r \in ran}
                      \cup {Outcome("up", "running", TRUE, TRUE)} : ~ p}

\* ensureStopped
EnsureStopped(v, p, a) ==
  LET off == IF v = "none" THEN "none" ELSE "stopped"
  IN  {Outcome(off, "stopped", FALSE, FALSE)}
        \cup {o \in {Outcome(v, "error", p, a)} : v # "none"}
        \cup {o \in {Outcome(v, "stopped", FALSE, FALSE)} : TartGetMayFail}

\* mutant: the error of a failed delete is swallowed
MutDeleteErrorSwallowed(v, p, a) ==
  {Outcome("none", "deleted", FALSE, FALSE)}
    \cup {o \in {Outcome(v, "error", p, a), Outcome("stopped", "deleted", FALSE, FALSE)} : v # "none"}

(***************************************************************************)
(* ensureDeleted: stop, then delete, each of which may fail.  exists is    *)
(* asked before each of them.                                              *)
(***************************************************************************)
EnsureDeleted(v, p, a) ==
  {Outcome("none", "deleted", FALSE, FALSE)}
    \cup {o \in {Outcome(v, "error", p, a), Outcome("stopped", "error", p, a)} : v # "none"}
    \cup {o \in {Outcome(v, "deleted", FALSE, FALSE),
                 Outcome("stopped", "deleted", FALSE, FALSE)} : v # "none" /\ TartGetMayFail}

Reconciled(desired, v, p, a) ==
  CASE desired = "running" -> EnsureRunning(v, p, a)
    [] desired = "stopped" -> EnsureStopped(v, p, a)
    [] desired = "deleted" -> EnsureDeleted(v, p, a)

ReconcileRuntime(w, id) ==
  /\ phase[w] = "reconcile" /\ id \in todo[w]
  /\ \E o \in Reconciled(want[w][id], vm[w][id], proc[w][id], addr[w][id]) :
       /\ vm' = [vm EXCEPT ![w][id] = o.vm]
       /\ state' = [state EXCEPT ![w][id] = o.state]
       /\ proc' = [proc EXCEPT ![w][id] = o.proc]
       /\ addr' = [addr EXCEPT ![w][id] = o.addr]
  /\ todo' = [todo EXCEPT ![w] = @ \ {id}]
  /\ UNCHANGED <<dbvars, phase, listed, want, hb>>

\* runtimes whose workstation is no longer listed go once their VM is deleted
FinishReconcile(w) ==
  /\ phase[w] = "reconcile" /\ todo[w] = {}
  /\ LET drop == {id \in Runtimes(w) \ listed[w] : state[w][id] = "deleted"}
     IN  /\ want' = [want EXCEPT ![w] = [id \in WS |-> IF id \in drop THEN "none" ELSE @[id]]]
         /\ state' = [state EXCEPT ![w] = [id \in WS |-> IF id \in drop THEN "stopped" ELSE @[id]]]
  /\ phase' = [phase EXCEPT ![w] = "send"]
  /\ UNCHANGED <<dbvars, todo, listed, proc, addr, hb, vm>>

\* the next pass of the management loop, over the runtimes with these desired states
NextPass(w, wanted) ==
  /\ want' = [want EXCEPT ![w] = wanted]
  /\ phase' = [phase EXCEPT ![w] = "reconcile"]
  /\ todo' = [todo EXCEPT ![w] = {id \in WS : wanted[id] # "none"}]

-----------------------------------------------------------------------------
(* Heartbeats *)

\* the heartbeat is not due yet (heartbeatInterval is longer than pollInterval)
SkipHeartbeat(w) ==
  /\ phase[w] = "send"
  /\ NextPass(w, want[w])
  /\ UNCHANGED <<dbvars, listed, state, proc, addr, hb, vm>>

SendHeartbeat(w, k) ==
  /\ phase[w] = "send" /\ hb[w][k] = NoBeat
  /\ hb' = [hb EXCEPT ![w][k] =
              [stage |-> "sent", live |-> TRUE, left |-> Runtimes(w),
               power |-> [id \in WS |-> IF id \in Runtimes(w) THEN state[w][id] ELSE "none"],
               ip |-> addr[w], desired |-> NoWant]]
  /\ phase' = [phase EXCEPT ![w] = "await"]
  /\ UNCHANGED <<dbvars, todo, listed, want, state, proc, addr, vm>>

InFlight(w, k, stage) == hb[w][k] # NoBeat /\ hb[w][k].stage = stage

\* handleWorkerHeartbeat up to its loop; a failing UpdateHeartbeat is only logged
HandleWorkerHeartbeat(w, k) ==
  /\ InFlight(w, k, "sent")
  /\ hb' = [hb EXCEPT ![w][k].stage = "apply"]
  /\ UpdateHeartbeat(w) \/ wk' = wk
  /\ UNCHANGED <<rows, issued, req, workervars, vm>>

\* one iteration of its loop, in a transaction of its own; errors are only logged
ApplyStatus(w, k, id) ==
  /\ InFlight(w, k, "apply") /\ id \in hb[w][k].left
  /\ \/ UpdateWorkstationStatus(w, id, hb[w][k].power[id], hb[w][k].ip[id])
     \/ rows' = rows
  /\ hb' = [hb EXCEPT ![w][k].left = @ \ {id}]
  /\ UNCHANGED <<issued, req, wk, workervars, vm>>

\* mutant: released rows are not listed
MutListOnlyWanted(w) ==
  [id \in WS |-> IF Exists(id) /\ rows[id].worker = w /\ ~ Released(id)
                   THEN rows[id].desired ELSE "none"]

DesiredWorkstations(w) ==
  [id \in WS |-> IF Exists(id) /\ rows[id].worker = w THEN rows[id].desired ELSE "none"]

\* the answer is computed; nobody reads it if the worker gave up
ListDesiredWorkstations(w, k) ==
  /\ InFlight(w, k, "apply") /\ hb[w][k].left = {}
  /\ hb' = [hb EXCEPT ![w][k] =
              IF @.live THEN [@ EXCEPT !.stage = "reply", !.desired = DesiredWorkstations(w)]
                        ELSE NoBeat]
  /\ UNCHANGED <<dbvars, workervars, vm>>

\* applyDesiredWorkstations: what each runtime wants afterwards
ApplyDesired(w, answer) ==
  [id \in WS |-> IF answer[id] # "none" THEN answer[id]
                 ELSE IF want[w][id] # "none" THEN "deleted" ELSE "none"]

ReceiveAnswer(w, k) ==
  /\ phase[w] = "await" /\ InFlight(w, k, "reply") /\ hb[w][k].live
  /\ NextPass(w, ApplyDesired(w, hb[w][k].desired))
  /\ listed' = [listed EXCEPT ![w] = {id \in WS : hb[w][k].desired[id] # "none"}]
  /\ hb' = [hb EXCEPT ![w][k] = NoBeat]
  /\ UNCHANGED <<dbvars, state, proc, addr, vm>>

\* what is left of a heartbeat nobody waits for any more
Abandon(beat) ==
  {NoBeat} \cup {b \in {[beat EXCEPT !.live = FALSE]} : beat.stage # "reply"}

\* mutant: a failed heartbeat is taken for an answer that lists nothing
MutFailureIsAuthoritative(w, k) ==
  /\ phase[w] = "await" /\ hb[w][k] # NoBeat /\ hb[w][k].live
  /\ \E b \in Abandon(hb[w][k]) : hb' = [hb EXCEPT ![w][k] = b]
  /\ NextPass(w, ApplyDesired(w, NoWant))
  /\ UNCHANGED <<dbvars, listed, state, proc, addr, vm>>

(***************************************************************************)
(* sendHeartbeat fails: an error status, a timeout, a lost request or      *)
(* answer.  The response is not authoritative and changes nothing; the     *)
(* server may still be working on the request.                             *)
(***************************************************************************)
HeartbeatFails(w, k) ==
  /\ phase[w] = "await" /\ hb[w][k] # NoBeat /\ hb[w][k].live
  /\ \E b \in Abandon(hb[w][k]) : hb' = [hb EXCEPT ![w][k] = b]
  /\ NextPass(w, want[w])
  /\ UNCHANGED <<dbvars, listed, state, proc, addr, vm>>

\* the server stops working on an abandoned request, or it was lost
DropHeartbeat(w, k) ==
  /\ hb[w][k] # NoBeat /\ ~ hb[w][k].live
  /\ hb' = [hb EXCEPT ![w][k] = NoBeat]
  /\ UNCHANGED <<dbvars, workervars, vm>>

-----------------------------------------------------------------------------
(* The worker process and the VMs *)

\* run registers (UpsertWorker) before it enters the management loop
StartWorker(w) ==
  /\ phase[w] = "down"
  /\ UpsertWorker(w)
  /\ phase' = [phase EXCEPT ![w] = "reconcile"]
  /\ UNCHANGED <<rows, issued, req, todo, listed, want, state, proc, addr, hb, vm>>

CrashWorker(w) ==
  /\ phase[w] # "down"
  /\ phase' = [phase EXCEPT ![w] = "down"]
  /\ todo' = [todo EXCEPT ![w] = {}]
  /\ listed' = [listed EXCEPT ![w] = {}]
  /\ want' = [want EXCEPT ![w] = NoWant]
  /\ state' = [state EXCEPT ![w] = Fresh]
  /\ proc' = [proc EXCEPT ![w] = AllFalse]
  /\ addr' = [addr EXCEPT ![w] = AllFalse]
  /\ hb' = [hb EXCEPT ![w] = [k \in Beats |->
              IF @[k] = NoBeat \/ @[k].stage = "reply" THEN NoBeat
              ELSE [@[k] EXCEPT !.live = FALSE]]]
  /\ UNCHANGED <<dbvars, vm>>

VMBoots(w, id) ==
  /\ vm[w][id] = "booting"
  /\ vm' = [vm EXCEPT ![w][id] = "up"]
  /\ UNCHANGED <<dbvars, workervars, hb>>

\* the guest shuts down, or its `tart run` process dies
VMStops(w, id) ==
  /\ vm[w][id] \in {"booting", "up"}
  /\ vm' = [vm EXCEPT ![w][id] = "stopped"]
  /\ UNCHANGED <<dbvars, workervars, hb>>

WorkerStep(w) ==
  \/ \E id \in WS : ReconcileRuntime(w, id)
  \/ FinishReconcile(w)
  \/ SkipHeartbeat(w)
  \/ \E k \in Beats : SendHeartbeat(w, k) \/ ReceiveAnswer(w, k) \/ HeartbeatFails(w, k)
  \/ StartWorker(w)
  \/ CrashWorker(w)

ServerStep(w, k) ==
  \/ HandleWorkerHeartbeat(w, k)
  \/ \E id \in WS : ApplyStatus(w, k, id)
  \/ ListDesiredWorkstations(w, k)
  \/ DropHeartbeat(w, k)

MemberStep(m) == MemberNext(m) /\ UNCHANGED <<workervars, hb, vm>>

Next ==
  \/ \E m \in Members : MemberStep(m)
  \/ \E w \in Workers : \/ WorkerStep(w)
                        \/ \E k \in Beats : ServerStep(w, k)
                        \/ \E id \in WS : VMBoots(w, id) \/ VMStops(w, id)
                        \/ HeartbeatExpires(w) /\ UNCHANGED <<workervars, hb, vm>>

Spec == Init /\ [][Next]_vars

-----------------------------------------------------------------------------
(* Safety *)

(***************************************************************************)
(* A row that shows "deleting" or "deleted" was released by its member.    *)
(* Otherwise it would be stuck: every later request answers "workstation   *)
(* is being deleted" (UpdateWorkstationDesiredPowerStateByID) while the    *)
(* worker keeps the VM.  UpdateWorkstationStatus stores whatever state is  *)
(* reported, so this rests on what workers report and when.                *)
(***************************************************************************)
OnlyReleasedLooksDeleted ==
  \A id \in WS : Exists(id) /\ rows[id].power \in {"deleting", "deleted"} => Released(id)

(***************************************************************************)
(* A row shown as running has an address, so a session to it can be        *)
(* relayed (Worker.pollProxySessions needs one).                           *)
(***************************************************************************)
RunningHasAddress ==
  \A id \in WS : Exists(id) /\ rows[id].power = "running" => rows[id].ip

(***************************************************************************)
(* Every VM on a host belongs to a row on that host: a row is dropped, and *)
(* its slot given to another member, only when its VM is gone.             *)
(***************************************************************************)
EveryVMHasItsRow ==
  \A w \in Workers, id \in WS : vm[w][id] # "none" => Exists(id) /\ rows[id].worker = w

(***************************************************************************)
(* A host never carries more VMs than its pool has slots.                  *)
(***************************************************************************)
HostWithinPool ==
  \A w \in Workers : Cardinality({id \in WS : vm[w][id] # "none"}) <= PoolSize[w]

(***************************************************************************)
(* A member's VM is destroyed only after the member released it: no lost,  *)
(* late or repeated heartbeat and no restart of a worker makes a worker    *)
(* delete a VM whose row still wants it.                                   *)
(***************************************************************************)
OnlyReleasedVMsAreDeleted ==
  [][\A w \in Workers, id \in WS :
       vm[w][id] # "none" /\ vm'[w][id] = "none" => id \in issued /\ (Exists(id) => Released(id))]_vars

(***************************************************************************)
(* The inductive invariant behind the above.  A worker that deletes, or    *)
(* reports deleted, does so for a workstation that was released, because   *)
(* releases are final and a worker acts on one answer at a time.           *)
(***************************************************************************)
GivenUp(w, id) == id \in issued /\ (Exists(id) => Released(id) /\ rows[id].worker = w)

Serves(w, id) == Exists(id) /\ rows[id].worker = w

ReportsDeleted(w, id) ==
  \E k \in Beats : hb[w][k] # NoBeat /\ id \in hb[w][k].left /\ hb[w][k].power[id] = "deleted"

SoundRuntime(w, id) ==
  /\ want[w][id] = "deleted" => GivenUp(w, id)
  /\ want[w][id] \in {"running", "stopped"} => Serves(w, id) /\ ~ ReportsDeleted(w, id)
  /\ state[w][id] # "deleting"
  /\ state[w][id] = "running" => addr[w][id]
  /\ state[w][id] = "deleted" => want[w][id] = "deleted"

RuntimesInv ==
  \A w \in Workers : todo[w] \subseteq Runtimes(w) /\ \A id \in WS : SoundRuntime(w, id)

AwaitedAlone(w, k) ==
  hb[w][k].live => /\ phase[w] = "await"
                   /\ \A l \in Beats : hb[w][l] # NoBeat /\ hb[w][l].live => k = l

ReportFor(w, k, id) ==
  /\ hb[w][k].power[id] \in Power \ {"deleting"}
  /\ hb[w][k].power[id] = "running" => hb[w][k].ip[id]
  /\ hb[w][k].power[id] = "deleted" => GivenUp(w, id)

SoundReports(w, k) == \A id \in hb[w][k].left : ReportFor(w, k, id)

AnswerFor(w, k, id) ==
  /\ hb[w][k].desired[id] = "deleted" => GivenUp(w, id)
  /\ hb[w][k].desired[id] \in {"running", "stopped"} =>
       Serves(w, id) /\ want[w][id] # "deleted" /\ ~ ReportsDeleted(w, id)
  /\ hb[w][k].desired[id] = "none" /\ want[w][id] # "none" => id \in issued /\ ~ Exists(id)

SoundAnswer(w, k) ==
  hb[w][k].stage = "reply" /\ hb[w][k].live => \A id \in WS : AnswerFor(w, k, id)

BeatsInv ==
  \A w \in Workers, k \in Beats : hb[w][k] # NoBeat =>
    AwaitedAlone(w, k) /\ SoundReports(w, k) /\ SoundAnswer(w, k)

VMsInv ==
  \A w \in Workers, id \in WS :
    vm[w][id] # "none" => Serves(w, id) /\ state[w][id] # "deleted" /\ ~ ReportsDeleted(w, id)

FleetInv ==
  /\ TypeOK /\ DBInv
  /\ OnlyReleasedLooksDeleted /\ RunningHasAddress
  /\ RuntimesInv /\ BeatsInv
  /\ TartGetMayFail \/ VMsInv

-----------------------------------------------------------------------------
(* The fleet implements the workstation's lifecycle *)

Life(id) ==
  IF id \notin issued THEN "free"
  ELSE IF ~ Exists(id) THEN "gone"
  ELSE IF Released(id) THEN "releasing" ELSE "held"

Place(id) ==
  IF Exists(id) THEN [worker |-> rows[id].worker, slot |-> rows[id].slot] ELSE NoRow

Lifecycle == INSTANCE WorkstationLifecycle WITH
  NoPlace <- NoRow,
  life <- [id \in WS |-> Life(id)],
  place <- [id \in WS |-> Place(id)],
  disk <- [id \in WS |-> {w \in Workers : vm[w][id] # "none"}]

(***************************************************************************)
(* Every step of members, server, workers and VMs is a step of the         *)
(* workstation's lifecycle or leaves it unchanged.                         *)
(***************************************************************************)
LifecycleSpec == Lifecycle!LifeSpec

-----------------------------------------------------------------------------
(* Liveness *)

(***************************************************************************)
(* The server handles what reaches it, the worker's loop keeps going and   *)
(* sends a heartbeat when one is due (every 5 s, not every pass), a claim  *)
(* or update that was begun ends, a VM that boots comes up, launchd        *)
(* restarts a worker, and tart does not fail for ever at what it can do.   *)
(***************************************************************************)
Fairness ==
  /\ \A m \in Members :
       WF_vars(/\ ListSchedulableWorkers(m) \/ SelectSlot(m) \/ UpdateMemberWorkstation(m)
               /\ UNCHANGED <<workervars, hb, vm>>)
  /\ \A w \in Workers :
       /\ WF_vars(StartWorker(w) \/ FinishReconcile(w) \/ \E id \in WS : ReconcileRuntime(w, id))
       /\ SF_vars(\E k \in Beats : SendHeartbeat(w, k))
       /\ \A k \in Beats : WF_vars(ServerStep(w, k)) /\ WF_vars(ReceiveAnswer(w, k))
       /\ \A id \in WS :
            /\ WF_vars(VMBoots(w, id))
            /\ SF_vars(ReconcileRuntime(w, id) /\ state'[w][id] = want[w][id])

(***************************************************************************)
(* From some point on no worker dies, no heartbeat or status update fails  *)
(* and no guest shuts down by itself.                                      *)
(***************************************************************************)
Settles ==
  <>[][\A w \in Workers :
         /\ ~ CrashWorker(w)
         /\ phase[w] = "await" /\ phase'[w] # "await" => \E k \in Beats : ReceiveAnswer(w, k)
         /\ \A k \in Beats, id \in WS : ApplyStatus(w, k, id) =>
              UpdateWorkstationStatus(w, id, hb[w][k].power[id], hb[w][k].ip[id])
         /\ \A id \in WS : ~ VMStops(w, id)]_vars

LiveSpec == Spec /\ Fairness /\ Settles

(***************************************************************************)
(* A released workstation's row goes away, and its slot with it, whatever  *)
(* was lost, repeated or restarted before the fleet settled.               *)
(***************************************************************************)
ReleaseCompletes == \A id \in WS : []<>~ Released(id)

(***************************************************************************)
(* A workstation that its worker keeps finding running ends up shown as    *)
(* running for good: an old report that overwrites a newer one             *)
(* (UpdateWorkstationStatus has no ordering) does not stick.               *)
(***************************************************************************)
RunningIsShown ==
  \A w \in Workers, id \in WS :
    <>[](want[w][id] = "running" /\ state[w][id] = "running" /\ ~ Released(id))
      => <>[](Exists(id) /\ rows[id].power = "running")

(***************************************************************************)
(* "Workstation error. Retrying automatically." (frontend lib/workstation  *)
(* .ts): a workstation that should run and shows an error is running       *)
(* later, unless it is released or taken for another state first.          *)
(***************************************************************************)
ErrorIsRetried ==
  \A id \in WS :
    (Exists(id) /\ rows[id].power = "error" /\ rows[id].desired = "running")
      ~> (~ Exists(id) \/ Released(id) \/ rows[id].power = "running")
=============================================================================
