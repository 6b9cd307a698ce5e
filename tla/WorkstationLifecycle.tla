-------------------------- MODULE WorkstationLifecycle --------------------------
(***************************************************************************)
(* What the fleet promises about a workstation, without rows, heartbeats   *)
(* or runtimes: a claim places it on a free slot, its VM exists only on    *)
(* the worker it was placed on, the VM is destroyed only after the member  *)
(* released it, and the slot is given back only once the VM is gone.       *)
(* Fleet implements this specification.                                    *)
(***************************************************************************)
EXTENDS Integers

CONSTANTS WS, Workers, PoolSize, NoPlace

VARIABLES
  life,    \* "free", "held", "releasing" or "gone"
  place,   \* the worker and slot of a held or releasing workstation
  disk     \* the workers that have a VM of the workstation

lifevars == <<life, place, disk>>

LifeInit ==
  /\ life = [id \in WS |-> "free"]
  /\ place = [id \in WS |-> NoPlace]
  /\ disk = [id \in WS |-> {}]

Claim(id, w, s) ==
  /\ life[id] = "free"
  /\ \A i \in WS : place[i] # [worker |-> w, slot |-> s]
  /\ life' = [life EXCEPT ![id] = "held"]
  /\ place' = [place EXCEPT ![id] = [worker |-> w, slot |-> s]]
  /\ UNCHANGED disk

Release(id) ==
  /\ life[id] = "held"
  /\ life' = [life EXCEPT ![id] = "releasing"]
  /\ UNCHANGED <<place, disk>>

CreateVM(id) ==
  /\ life[id] \in {"held", "releasing"}
  /\ disk' = [disk EXCEPT ![id] = {place[id].worker}]
  /\ UNCHANGED <<life, place>>

DestroyVM(id) ==
  /\ life[id] = "releasing"
  /\ disk' = [disk EXCEPT ![id] = {}]
  /\ UNCHANGED <<life, place>>

GiveSlotBack(id) ==
  /\ life[id] = "releasing" /\ disk[id] = {}
  /\ life' = [life EXCEPT ![id] = "gone"]
  /\ place' = [place EXCEPT ![id] = NoPlace]
  /\ UNCHANGED disk

LifeNext ==
  \E id \in WS :
    \/ \E w \in Workers : \E s \in 0 .. PoolSize[w] - 1 : Claim(id, w, s)
    \/ Release(id)
    \/ CreateVM(id)
    \/ DestroyVM(id)
    \/ GiveSlotBack(id)

LifeSpec == LifeInit /\ [][LifeNext]_lifevars
=============================================================================
