----------------------------- MODULE Fleet_proofs -----------------------------
(***************************************************************************)
(* Proofs about the fleet (Fleet), for any members, workers, pool sizes    *)
(* and number of heartbeats in flight: the remaining steps of the worker,  *)
(* the invariant, what follows from it, and that the fleet implements the  *)
(* workstation's lifecycle if `tart get` never fails for a VM that exists. *)
(***************************************************************************)
EXTENDS FleetSteps_proofs, FiniteSetTheorems

(***************************************************************************)
(* The next pass without a heartbeat, a registration and the guests' own   *)
(* starts and stops change nothing the invariant depends on.               *)
(***************************************************************************)
LEMMA QuietPreservesFleetInv ==
  ASSUME FleetInv, TypeOK', UNCHANGED <<rows, issued, req, want, state, addr, hb>>,
         \A w \in Workers : todo'[w] \subseteq Runtimes(w) /\ (phase[w] = "await" => phase'[w] = "await"),
         \A w \in Workers, id \in WS : vm'[w][id] # "none" => vm[w][id] # "none"
  PROVE  FleetInv'
<1>1. \A v \in Workers, i \in WS : /\ GivenUp(v, i)' <=> GivenUp(v, i)
                                   /\ Serves(v, i)' <=> Serves(v, i)
  BY SameTable, Zenon
<1>2. \A v \in Workers, i \in WS : ReportsDeleted(v, i)' <=> ReportsDeleted(v, i)
  BY Zenon DEF ReportsDeleted
<1>3. RuntimesInv'
  BY <1>1, <1>2, Zenon DEF FleetInv, RuntimesInv, SoundRuntime, Runtimes
<1>4. BeatsInv'
  <2>1. \A w \in Workers, k \in Beats : BeatShrinks(hb[w][k], hb'[w][k])
    BY Zenon DEF BeatShrinks
  <2>2. \A w \in Workers, k \in Beats : hb'[w][k] # NoBeat /\ hb'[w][k].live =>
          phase'[w] = "await" /\ want'[w] = want[w]
    BY Zenon DEF FleetInv, BeatsInv, AwaitedAlone
  <2> QED
    BY <2>1, <2>2, SameTableKeepsBeatsInv, Zenon
<1>5. VMsInv => VMsInv'
  BY <1>1, <1>2, Zenon DEF VMsInv
<1> QED
  BY <1>3, <1>4, <1>5, SameTable, Zenon DEF FleetInv

(***************************************************************************)
(* A pass of the management loop without a heartbeat.                      *)
(***************************************************************************)
LEMMA SkipPreservesFleetInv ==
  ASSUME FleetInv, NEW w \in Workers, SkipHeartbeat(w)
  PROVE  FleetInv'
<1>0. TypeOK /\ RuntimesInv /\ want[w] \in [WS -> Desired \cup {"none"}]
  BY Zenon DEF FleetInv, TypeOK
<1>1. UNCHANGED <<rows, issued, req, wk, listed, state, proc, addr, hb, vm>> /\ want' = want
      /\ phase[w] = "send"
  BY <1>0, Zenon DEF SkipHeartbeat, NextPass, dbvars, TypeOK
<1>2. phase' = [phase EXCEPT ![w] = "reconcile"] /\ todo' = [todo EXCEPT ![w] = Runtimes(w)]
  BY Zenon DEF SkipHeartbeat, NextPass, Runtimes
<1>3. TypeOK'
  BY <1>0, <1>1, <1>2, Zenon DEF TypeOK, DBTypeOK, Runtimes
<1>4. \A v \in Workers : todo'[v] \subseteq Runtimes(v) /\ (phase[v] = "await" => phase'[v] = "await")
  BY <1>0, <1>1, <1>2, Zenon DEF TypeOK, RuntimesInv
<1> QED
  BY <1>1, <1>3, <1>4, QuietPreservesFleetInv, Zenon

(***************************************************************************)
(* A worker that starts and registers.                                     *)
(***************************************************************************)
LEMMA StartPreservesFleetInv ==
  ASSUME FleetInv, NEW w \in Workers, StartWorker(w)
  PROVE  FleetInv'
<1>0. TypeOK /\ RuntimesInv
  BY Zenon DEF FleetInv
<1>1. UNCHANGED <<rows, issued, req, todo, listed, want, state, proc, addr, hb, vm>>
      /\ phase' = [phase EXCEPT ![w] = "reconcile"] /\ phase[w] = "down"
  BY Zenon DEF StartWorker
<1>2. wk' \in [Workers -> {"unknown", "idle", "fresh"}]
  BY <1>0, Zenon DEF StartWorker, UpsertWorker, TypeOK, DBTypeOK
<1>3. TypeOK'
  BY Zenon, <1>0, <1>1, <1>2 DEF TypeOK, DBTypeOK
<1>4. \A v \in Workers : todo'[v] \subseteq Runtimes(v) /\ (phase[v] = "await" => phase'[v] = "await")
  BY <1>0, <1>1, Zenon DEF TypeOK, RuntimesInv
<1> QED
  BY <1>1, <1>3, <1>4, QuietPreservesFleetInv, Zenon

(***************************************************************************)
(* A guest that finishes booting, or shuts down.                           *)
(***************************************************************************)
LEMMA GuestPreservesFleetInv ==
  ASSUME FleetInv, NEW w \in Workers, NEW id \in WS, VMBoots(w, id) \/ VMStops(w, id)
  PROVE  FleetInv'
<1>0. TypeOK /\ RuntimesInv
  BY Zenon DEF FleetInv
<1>1. UNCHANGED <<rows, issued, req, wk, phase, todo, listed, want, state, proc, addr, hb>>
  BY Zenon DEF VMBoots, VMStops, dbvars, workervars
<1>2. /\ vm' \in [Workers -> [WS -> VMStates]]
      /\ \A v \in Workers, i \in WS : vm'[v][i] # "none" => vm[v][i] # "none"
  <2>1. PICK x \in {"up", "stopped"} : vm' = [vm EXCEPT ![w][id] = x] /\ vm[w][id] # "none"
    BY Zenon DEF VMBoots, VMStops
  <2> QED
    BY <1>0, <2>1, Zenon DEF TypeOK, VMStates
<1>3. TypeOK'
  BY <1>0, <1>1, <1>2, Zenon DEF TypeOK, DBTypeOK
<1>4. \A v \in Workers : todo'[v] \subseteq Runtimes(v) /\ (phase[v] = "await" => phase'[v] = "await")
  BY <1>0, <1>1, Zenon DEF RuntimesInv
<1> QED
  BY <1>1, <1>2, <1>3, <1>4, QuietPreservesFleetInv, Zenon

(***************************************************************************)
(* A heartbeat that fails changes no runtime: its answer, which will not   *)
(* be read, is no longer constrained, and what it reports stays reported.  *)
(***************************************************************************)
LEMMA FailPreservesFleetInv ==
  ASSUME FleetInv, NEW w \in Workers, NEW k \in Beats, HeartbeatFails(w, k)
  PROVE  FleetInv'
<1>0. /\ TypeOK /\ RuntimesInv /\ BeatsInv /\ hb[w][k] \in Beat /\ hb[w][k].live
      /\ want[w] \in [WS -> Desired \cup {"none"}]
  BY DEF FleetInv, HeartbeatFails, TypeOK
<1>1. UNCHANGED <<rows, issued, req, wk, listed, state, proc, addr, vm>> /\ want' = want
  BY <1>0, Zenon DEF HeartbeatFails, NextPass, dbvars, TypeOK
<1>2. phase' = [phase EXCEPT ![w] = "reconcile"] /\ todo' = [todo EXCEPT ![w] = Runtimes(w)]
  BY Zenon DEF HeartbeatFails, NextPass, Runtimes
<1>3. PICK c \in Abandon(hb[w][k]) : hb' = [hb EXCEPT ![w][k] = c]
  BY Zenon DEF HeartbeatFails
<1>4. /\ c \in Beat \cup {NoBeat}
      /\ c # NoBeat => /\ ~ c.live /\ c.left = hb[w][k].left
                       /\ c.power = hb[w][k].power /\ c.ip = hb[w][k].ip
  BY Zenon, <1>0 DEF Abandon, Beat
<1>5. /\ hb' \in [Workers -> [Beats -> Beat \cup {NoBeat}]]
      /\ hb'[w][k] = c
      /\ \A v \in Workers, l \in Beats : v # w \/ l # k => hb'[v][l] = hb[v][l]
  BY <1>0, <1>3, <1>4, Zenon DEF TypeOK
<1>6. TypeOK'
  BY Zenon, <1>0, <1>1, <1>2, <1>5 DEF TypeOK, DBTypeOK, Runtimes
<1>7. \A v \in Workers, i \in WS : /\ GivenUp(v, i)' <=> GivenUp(v, i)
                                   /\ Serves(v, i)' <=> Serves(v, i)
  BY <1>1, <1>6, SameTable, Zenon
<1>8a. \A v \in Workers, l \in Beats : BeatShrinks(hb[v][l], hb'[v][l])
  <2>1. BeatShrinks(hb[w][k], c)
    BY <1>0, <1>3, <1>4, FleetAssumption, Zenon DEF Abandon, BeatShrinks, Beat
  <2>2. \A x : BeatShrinks(x, x)
    BY Zenon DEF BeatShrinks
  <2> QED
    BY <1>5, <2>1, <2>2, Zenon
<1>8. \A v \in Workers, i \in WS : ReportsDeleted(v, i)' => ReportsDeleted(v, i)
  BY <1>8a, Zenon DEF ReportsDeleted, BeatShrinks
<1>9. RuntimesInv'
  <2>1. ASSUME NEW v \in Workers PROVE todo'[v] \subseteq Runtimes(v)'
    BY <1>0, <1>1, <1>2, Zenon DEF TypeOK, RuntimesInv, Runtimes
  <2>2. ASSUME NEW v \in Workers, NEW i \in WS PROVE SoundRuntime(v, i)'
    BY <1>0, <1>1, <1>7, <1>8, RuntimeKept, Zenon DEF RuntimesInv
  <2> QED
    BY <2>1, <2>2, Zenon DEF RuntimesInv
<1>10. VMsInv => VMsInv'
  BY <1>1, <1>7, <1>8, Zenon DEF VMsInv
<1>11. BeatsInv'
  <2>1. \A v \in Workers : v # w => phase'[v] = phase[v]
    BY <1>0, <1>2, Zenon DEF TypeOK
  <2>2. hb[w][k] # NoBeat
    BY <1>0, FleetAssumption, Zenon
  <2>2a. \A v \in Workers, l \in Beats : hb[v][l] # NoBeat => AwaitedAlone(v, l)
    BY <1>0, Zenon DEF BeatsInv
  <2>2b. \A l \in Beats : l # k /\ hb[w][l] # NoBeat => ~ hb[w][l].live
    BY <1>0, <2>2, <2>2a DEF AwaitedAlone
  <2>3. \A v \in Workers, l \in Beats : hb'[v][l] # NoBeat /\ hb'[v][l].live =>
          phase'[v] = "await" /\ want'[v] = want[v]
    <3> SUFFICES ASSUME NEW v \in Workers, NEW l \in Beats, hb'[v][l] # NoBeat, hb'[v][l].live
                 PROVE  phase'[v] = "await"
      BY <1>1, Zenon
    <3>1. v # w /\ hb'[v][l] = hb[v][l]
      BY <1>4, <1>5, <2>2b
    <3> QED
      BY <2>1, <2>2a, <3>1, Zenon DEF AwaitedAlone
  <2> QED
    BY <1>1, <1>6, <1>8a, <2>3, SameTableKeepsBeatsInv, Zenon
<1> QED
  BY <1>1, <1>6, <1>9, <1>10, <1>11, SameTable, Zenon DEF FleetInv

(***************************************************************************)
(* The answer the worker applies preserves the invariant: it marks for     *)
(* deletion only runtimes whose workstation is released or gone.           *)
(***************************************************************************)
LEMMA ReceivePreservesFleetInv ==
  ASSUME FleetInv, NEW w \in Workers, NEW k \in Beats, ReceiveAnswer(w, k)
  PROVE  FleetInv'
<1> DEFINE b == hb[w][k]
           new == ApplyDesired(w, b.desired)
<1>0. /\ TypeOK /\ RuntimesInv /\ BeatsInv /\ b \in Beat /\ b.live /\ b.stage = "reply"
      /\ want[w] \in [WS -> Desired \cup {"none"}]
  <2>1. TypeOK /\ RuntimesInv /\ BeatsInv
    BY Zenon DEF FleetInv
  <2>2. b # NoBeat /\ b.live /\ b.stage = "reply"
    BY Zenon DEF ReceiveAnswer, InFlight
  <2> QED
    BY <2>1, <2>2, Zenon DEF TypeOK
<1>1. UNCHANGED <<rows, issued, req, wk, state, proc, addr, vm>>
      /\ listed' = [listed EXCEPT ![w] = {id \in WS : b.desired[id] # "none"}]
  BY Zenon DEF ReceiveAnswer, dbvars
<1>2. /\ want' = [want EXCEPT ![w] = new]
      /\ phase' = [phase EXCEPT ![w] = "reconcile"]
      /\ todo' = [todo EXCEPT ![w] = {id \in WS : new[id] # "none"}]
      /\ hb' = [hb EXCEPT ![w][k] = NoBeat]
  BY Zenon DEF ReceiveAnswer, NextPass
<1>3. /\ new \in [WS -> Desired \cup {"none"}]
      /\ \A i \in WS : new[i] = IF b.desired[i] # "none" THEN b.desired[i]
                                ELSE IF want[w][i] # "none" THEN "deleted" ELSE "none"
  <2>1. b.desired \in [WS -> Desired \cup {"none"}]
    BY <1>0, Zenon DEF Beat
  <2> QED
    BY <1>0, <2>1, Zenon DEF ApplyDesired, Desired
<1>4. \A i \in WS :
        /\ new[i] = "deleted" => GivenUp(w, i)
        /\ new[i] \in {"running", "stopped"} => Serves(w, i) /\ ~ ReportsDeleted(w, i)
        /\ want[w][i] = "deleted" => new[i] = "deleted"
  <2>1. SoundAnswer(w, k)
    BY <1>0, FleetAssumption, Zenon DEF BeatsInv
  <2>2. b.desired \in [WS -> Desired \cup {"none"}]
    BY <1>0, Zenon DEF Beat
  <2> QED
    BY <1>0, <1>3, <2>1, <2>2, Zenon DEF SoundAnswer, AnswerFor, Desired, GivenUp
<1> HIDE DEF new
<1>5. /\ hb' \in [Workers -> [Beats -> Beat \cup {NoBeat}]]
      /\ hb'[w][k] = NoBeat
      /\ \A v \in Workers, l \in Beats : v # w \/ l # k => hb'[v][l] = hb[v][l]
  <2>1. hb \in [Workers -> [Beats -> Beat \cup {NoBeat}]]
    BY <1>0, Zenon DEF TypeOK
  <2> QED
    BY <1>2, <2>1, Zenon
<1>6. TypeOK'
  <2>1. /\ want' \in [Workers -> [WS -> Desired \cup {"none"}]]
        /\ todo' \in [Workers -> SUBSET WS] /\ listed' \in [Workers -> SUBSET WS]
    BY <1>0, <1>1, <1>2, <1>3, Zenon DEF TypeOK
  <2>2. phase' \in [Workers -> {"down", "reconcile", "send", "await"}]
    BY <1>0, <1>2, Zenon DEF TypeOK
  <2> QED
    BY Zenon, <1>0, <1>1, <1>5, <2>1, <2>2 DEF TypeOK, DBTypeOK
<1>7. \A v \in Workers, i \in WS : /\ GivenUp(v, i)' <=> GivenUp(v, i)
                                   /\ Serves(v, i)' <=> Serves(v, i)
  BY <1>1, <1>6, SameTable, Zenon
<1>8. \A v \in Workers, i \in WS : ReportsDeleted(v, i)' => ReportsDeleted(v, i)
  BY <1>0, <1>5, Zenon DEF ReportsDeleted
<1>8a. \A v \in Workers : v # w => want'[v] = want[v] /\ phase'[v] = phase[v] /\ todo'[v] = todo[v]
  BY <1>0, <1>2, Zenon DEF TypeOK
<1>8b. want'[w] = new /\ todo'[w] = {id \in WS : new[id] # "none"}
  BY <1>0, <1>2, Zenon DEF TypeOK
<1>9. RuntimesInv'
  <2>1. ASSUME NEW v \in Workers PROVE todo'[v] \subseteq Runtimes(v)'
    BY <1>0, <1>8a, <1>8b DEF RuntimesInv, Runtimes
  <2>2. ASSUME NEW i \in WS PROVE SoundRuntime(w, i)'
    <3>1. SoundRuntime(w, i) /\ state' = state /\ addr' = addr /\ want'[w][i] = new[i]
      BY <1>0, <1>1, <1>8b, Zenon DEF RuntimesInv
    <3>2. /\ new[i] = "deleted" => GivenUp(w, i)'
          /\ new[i] \in {"running", "stopped"} => Serves(w, i)' /\ ~ ReportsDeleted(w, i)'
          /\ want[w][i] = "deleted" => new[i] = "deleted"
      BY <1>4, <1>7, <1>8, Zenon
    <3> QED
      BY <3>1, <3>2, Zenon DEF SoundRuntime
  <2>3. ASSUME NEW v \in Workers, v # w, NEW i \in WS PROVE SoundRuntime(v, i)'
    <3>1. SoundRuntime(v, i) /\ want'[v] = want[v]
      BY <1>0, <1>8a, <2>3, Zenon DEF RuntimesInv
    <3> QED
      BY <1>1, <1>7, <1>8, <3>1, RuntimeKept, Zenon
  <2> QED
    BY <2>1, <2>2, <2>3, Zenon DEF RuntimesInv
<1>10. VMsInv => VMsInv'
  BY <1>1, <1>7, <1>8, Zenon DEF VMsInv
<1>11. BeatsInv'
  <2>1. \A v \in Workers, l \in Beats : BeatShrinks(hb[v][l], hb'[v][l])
    BY <1>5, Zenon DEF BeatShrinks
  <2>2. b # NoBeat
    BY <1>0, FleetAssumption, Zenon
  <2>2a. \A v \in Workers, l \in Beats : hb[v][l] # NoBeat => AwaitedAlone(v, l)
    BY <1>0, Zenon DEF BeatsInv
  <2>2b. \A l \in Beats : l # k /\ hb[w][l] # NoBeat => ~ hb[w][l].live
    BY <1>0, <2>2, <2>2a, Zenon DEF AwaitedAlone
  <2>3. \A v \in Workers, l \in Beats : hb'[v][l] # NoBeat /\ hb'[v][l].live =>
          phase'[v] = "await" /\ want'[v] = want[v]
    <3> SUFFICES ASSUME NEW v \in Workers, NEW l \in Beats, hb'[v][l] # NoBeat, hb'[v][l].live
                 PROVE  phase'[v] = "await" /\ want'[v] = want[v]
      BY Zenon
    <3>1. v # w /\ hb'[v][l] = hb[v][l]
      BY <1>5, <2>2b, Zenon
    <3> QED
      BY <1>8a, <2>2a, <3>1, Zenon DEF AwaitedAlone
  <2> QED
    BY <1>1, <1>6, <2>1, <2>3, SameTableKeepsBeatsInv, Zenon
<1> QED
  <2>1. RuntimesInv' /\ BeatsInv' /\ (TartGetMayFail \/ VMsInv')
    BY <1>9, <1>10, <1>11, Zenon DEF FleetInv
  <2> QED
    BY <1>1, <1>6, <2>1, SameTable, Zenon

(***************************************************************************)
(* A worker that dies forgets its runtimes; its heartbeats may still be    *)
(* applied, but nobody waits for their answers.                            *)
(***************************************************************************)
LEMMA CrashPreservesFleetInv ==
  ASSUME FleetInv, NEW w \in Workers, CrashWorker(w)
  PROVE  FleetInv'
<1>0. TypeOK /\ RuntimesInv /\ BeatsInv /\ hb[w] \in [Beats -> Beat \cup {NoBeat}]
  BY Zenon DEF FleetInv, TypeOK
<1>1. UNCHANGED <<rows, issued, req, wk, vm>>
  BY Zenon DEF CrashWorker, dbvars
<1> DEFINE c == [k \in Beats |-> IF hb[w][k] = NoBeat \/ hb[w][k].stage = "reply" THEN NoBeat
                                 ELSE [hb[w][k] EXCEPT !.live = FALSE]]
<1>2. \A k \in Beats :
        /\ c[k] \in Beat \cup {NoBeat}
        /\ c[k] # NoBeat => /\ hb[w][k] # NoBeat /\ ~ c[k].live /\ c[k].left = hb[w][k].left
                            /\ c[k].power = hb[w][k].power /\ c[k].ip = hb[w][k].ip
                            /\ c[k].desired = hb[w][k].desired /\ c[k].stage # "reply"
  BY Zenon, <1>0 DEF Beat
<1>3. hb' = [hb EXCEPT ![w] = c] /\ c \in [Beats -> Beat \cup {NoBeat}]
  BY <1>0, <1>2, Zenon DEF CrashWorker, TypeOK
<1> HIDE DEF c
<1>4. /\ hb' \in [Workers -> [Beats -> Beat \cup {NoBeat}]]
      /\ hb'[w] = c
      /\ \A v \in Workers : v # w => hb'[v] = hb[v]
  BY <1>0, <1>3, Zenon DEF TypeOK
<1>5. /\ NoWant \in [WS -> Desired \cup {"none"}] /\ \A i \in WS : NoWant[i] = "none"
      /\ Fresh \in [WS -> Power] /\ \A i \in WS : Fresh[i] = "stopped"
      /\ AllFalse \in [WS -> BOOLEAN]
  BY Zenon DEF NoWant, Fresh, AllFalse, Power
<1>6. TypeOK'
  BY <1>0, <1>1, <1>4, <1>5, Zenon DEF CrashWorker, TypeOK, DBTypeOK
<1>7. \A v \in Workers : v # w => /\ phase'[v] = phase[v] /\ todo'[v] = todo[v]
                                  /\ want'[v] = want[v] /\ state'[v] = state[v] /\ addr'[v] = addr[v]
  BY <1>0, Zenon DEF CrashWorker, TypeOK
<1>8. todo'[w] = {} /\ want'[w] = NoWant /\ state'[w] = Fresh
  BY <1>0, Zenon DEF CrashWorker, TypeOK
<1>9. \A v \in Workers, i \in WS : /\ GivenUp(v, i)' <=> GivenUp(v, i)
                                   /\ Serves(v, i)' <=> Serves(v, i)
  BY <1>1, <1>6, SameTable, Zenon
<1>10a. \A v \in Workers, l \in Beats : BeatShrinks(hb[v][l], hb'[v][l])
  BY <1>2, <1>4 DEF BeatShrinks
<1>10. \A v \in Workers, i \in WS : ReportsDeleted(v, i)' => ReportsDeleted(v, i)
  BY <1>10a, Zenon DEF ReportsDeleted, BeatShrinks
<1>11. RuntimesInv'
  <2>1. ASSUME NEW v \in Workers PROVE todo'[v] \subseteq Runtimes(v)'
    BY <1>0, <1>7, <1>8, Zenon DEF RuntimesInv, Runtimes
  <2>2. ASSUME NEW i \in WS PROVE SoundRuntime(w, i)'
    BY <1>5, <1>8, Zenon DEF SoundRuntime
  <2>3. ASSUME NEW v \in Workers, v # w, NEW i \in WS PROVE SoundRuntime(v, i)'
    BY <1>0, <1>7, <1>9, <1>10, <2>3, RuntimeKept, Zenon DEF RuntimesInv
  <2> QED
    BY <2>1, <2>2, <2>3, Zenon DEF RuntimesInv
<1>12. VMsInv => VMsInv'
  <2> SUFFICES ASSUME VMsInv, NEW v \in Workers, NEW i \in WS, vm[v][i] # "none"
               PROVE  Serves(v, i)' /\ state'[v][i] # "deleted" /\ ~ ReportsDeleted(v, i)'
    BY <1>1, Zenon DEF VMsInv
  <2>1. state'[v][i] # "deleted"
    BY <1>5, <1>7, <1>8 DEF VMsInv
  <2> QED
    BY <1>9, <1>10, <2>1, Zenon DEF VMsInv
<1>13. BeatsInv'
  <2>1. \A v \in Workers, l \in Beats : hb'[v][l] # NoBeat /\ hb'[v][l].live =>
          phase'[v] = "await" /\ want'[v] = want[v]
    BY <1>0, <1>2, <1>4, <1>7 DEF BeatsInv, AwaitedAlone
  <2> QED
    BY <1>1, <1>6, <1>10a, <2>1, SameTableKeepsBeatsInv, Zenon
<1> QED
  BY <1>1, <1>6, <1>11, <1>12, <1>13, SameTable, Zenon DEF FleetInv

(***************************************************************************)
(* A runtime that is dropped at the end of a pass was marked for deletion. *)
(***************************************************************************)
LEMMA FinishPreservesFleetInv ==
  ASSUME FleetInv, NEW w \in Workers, FinishReconcile(w)
  PROVE  FleetInv'
<1> DEFINE drop == {id \in Runtimes(w) \ listed[w] : state[w][id] = "deleted"}
           nw == [id \in WS |-> IF id \in drop THEN "none" ELSE want[w][id]]
           ns == [id \in WS |-> IF id \in drop THEN "stopped" ELSE state[w][id]]
<1>0. /\ TypeOK /\ RuntimesInv /\ BeatsInv /\ phase[w] = "reconcile" /\ todo[w] = {}
      /\ want[w] \in [WS -> Desired \cup {"none"}] /\ state[w] \in [WS -> Power]
  BY Zenon DEF FleetInv, FinishReconcile, TypeOK
<1>1. UNCHANGED <<rows, issued, req, wk, todo, listed, proc, addr, hb, vm>>
      /\ phase' = [phase EXCEPT ![w] = "send"]
  BY Zenon DEF FinishReconcile, dbvars
<1>2. want' = [want EXCEPT ![w] = nw] /\ state' = [state EXCEPT ![w] = ns]
  BY <1>0, Zenon DEF FinishReconcile, TypeOK
<1>3. /\ nw \in [WS -> Desired \cup {"none"}] /\ ns \in [WS -> Power]
      /\ \A i \in WS : \/ nw[i] = want[w][i] /\ ns[i] = state[w][i]
                       \/ nw[i] = "none" /\ ns[i] = "stopped" /\ want[w][i] = "deleted"
  BY <1>0, Zenon DEF RuntimesInv, SoundRuntime, Power
<1> HIDE DEF nw, ns
<1>4. want'[w] = nw /\ state'[w] = ns
      /\ \A v \in Workers : v # w => want'[v] = want[v] /\ state'[v] = state[v] /\ phase'[v] = phase[v]
  BY <1>0, <1>1, <1>2, Zenon DEF TypeOK
<1>5. TypeOK'
  BY <1>0, <1>1, <1>2, <1>3, Zenon DEF TypeOK, DBTypeOK
<1>6. \A v \in Workers, i \in WS : /\ GivenUp(v, i)' <=> GivenUp(v, i)
                                   /\ Serves(v, i)' <=> Serves(v, i)
  BY <1>1, <1>5, SameTable, Zenon
<1>7. \A v \in Workers, i \in WS : ReportsDeleted(v, i)' <=> ReportsDeleted(v, i)
  BY <1>1, Zenon DEF ReportsDeleted
<1>8. RuntimesInv'
  <2> SUFFICES ASSUME NEW v \in Workers PROVE RuntimesInv!(v)'
    BY Zenon DEF RuntimesInv, SoundRuntime
  <2>1. CASE v = w
    BY <1>0, <1>1, <1>3, <1>4, <1>6, <1>7, <2>1, SMTT(20), Zenon DEF RuntimesInv, SoundRuntime
  <2>2. CASE v # w
    BY <1>0, <1>1, <1>4, <1>6, <1>7, <2>2 DEF RuntimesInv, SoundRuntime, Runtimes
  <2> QED
    BY <2>1, <2>2, Zenon
<1>9. VMsInv => VMsInv'
  <2> SUFFICES ASSUME VMsInv, NEW v \in Workers, NEW i \in WS, vm[v][i] # "none"
               PROVE  Serves(v, i)' /\ state'[v][i] # "deleted" /\ ~ ReportsDeleted(v, i)'
    BY <1>1, Zenon DEF VMsInv
  <2>1. state'[v][i] # "deleted"
    BY <1>3, <1>4 DEF VMsInv
  <2> QED
    BY <1>6, <1>7, <2>1, Zenon DEF VMsInv
<1>10. BeatsInv'
  <2>1. \A v \in Workers, l \in Beats : BeatShrinks(hb[v][l], hb'[v][l])
    BY <1>1, Zenon DEF BeatShrinks
  <2>2. \A v \in Workers, l \in Beats : hb'[v][l] # NoBeat /\ hb'[v][l].live =>
          phase'[v] = "await" /\ want'[v] = want[v]
    BY <1>0, <1>1, <1>4, Zenon DEF BeatsInv, AwaitedAlone
  <2> QED
    BY <1>1, <1>5, <2>1, <2>2, SameTableKeepsBeatsInv, Zenon
<1> QED
  BY <1>1, <1>5, <1>8, <1>9, <1>10, SameTable, Zenon DEF FleetInv

(***************************************************************************)
(* How a reconcile can end: only one that wants the VM running creates it, *)
(* only one that wants it deleted destroys it, and only the latter says    *)
(* "deleted", after the VM is gone if `tart get` can be trusted.           *)
(***************************************************************************)
SoundEnd(d, v, o) ==
  /\ o.vm \in VMStates /\ o.state \in Power \ {"deleting"}
  /\ o.proc \in BOOLEAN /\ o.addr \in BOOLEAN
  /\ o.state = "running" => o.addr
  /\ o.state = "deleted" => d = "deleted" /\ (o.vm = "none" \/ TartGetMayFail)
  /\ v = "none" /\ o.vm # "none" => d = "running"
  /\ v # "none" /\ o.vm = "none" => d = "deleted"

(***************************************************************************)
(* Every outcome of ensureRunning, ensureStopped and ensureDeleted is of   *)
(* this kind.                                                              *)
(***************************************************************************)
LEMMA ReconcileOutcome ==
  ASSUME NEW d \in Desired, NEW v \in VMStates, NEW p \in BOOLEAN, NEW a \in BOOLEAN,
         NEW o \in Reconciled(d, v, p, a)
  PROVE  SoundEnd(d, v, o)
<1>0. ASSUME NEW x \in VMStates, NEW s \in Power \ {"deleting"},
             NEW q \in BOOLEAN, NEW y \in BOOLEAN,
             s = "running" => y,
             s = "deleted" => d = "deleted" /\ (x = "none" \/ TartGetMayFail),
             v = "none" /\ x # "none" => d = "running",
             v # "none" /\ x = "none" => d = "deleted"
      PROVE  SoundEnd(d, v, Outcome(x, s, q, y))
  BY <1>0, Zenon DEF Outcome, SoundEnd
<1>1. CASE d = "running"
  <2> DEFINE found == IF v = "none" THEN "stopped" ELSE v
             ran == IF found = "up" THEN {"up"} ELSE {found, "booting"}
  <2>1. o \in EnsureRunning(v, p, a)
    BY <1>1, Zenon DEF Reconciled
  <2>2. \/ \E x \in {v, found} \cup ran, q \in {p, TRUE} : o = Outcome(x, "error", q, a)
        \/ \E q \in {p, TRUE} : o = Outcome("up", "running", q, TRUE)
        \/ o = Outcome(found, "starting", p, a)
    BY Zenon, <2>1 DEF EnsureRunning
  <2>3. {v, found} \cup ran \subseteq VMStates /\ "up" \in VMStates /\ found \in VMStates
        /\ (v # "none" => "none" \notin {v, found} \cup ran)
    BY Zenon DEF VMStates
  <2>4. {"error", "running", "starting"} \subseteq Power \ {"deleting"}
    BY Zenon DEF Power
  <2>5. \A q \in {p, TRUE} : q \in BOOLEAN
    BY Zenon
  <2>6. CASE \E x \in {v, found} \cup ran, q \in {p, TRUE} : o = Outcome(x, "error", q, a)
    <3>1. PICK x \in {v, found} \cup ran : \E q \in {p, TRUE} : o = Outcome(x, "error", q, a)
      BY Zenon, <2>6
    <3>2. x \in VMStates /\ (v # "none" => x # "none")
      BY <2>3, Zenon
    <3> QED
      BY Zenon, <1>0, <1>1, <2>4, <2>5, <3>1, <3>2
  <2>7. CASE \E q \in {p, TRUE} : o = Outcome("up", "running", q, TRUE)
    BY Zenon, <1>0, <1>1, <2>3, <2>4, <2>5, <2>7
  <2>8. CASE o = Outcome(found, "starting", p, a)
    BY <1>0, <1>1, <2>3, <2>4, <2>8, Zenon
  <2> QED
    BY Zenon, <2>2, <2>6, <2>7, <2>8
<1>2. CASE d = "stopped"
  <2>1. o \in EnsureStopped(v, p, a)
    BY <1>2, Zenon DEF Reconciled
  <2>2. \/ \E x \in {v, IF v = "none" THEN "none" ELSE "stopped"} :
             o = Outcome(x, "stopped", FALSE, FALSE)
        \/ o = Outcome(v, "error", p, a)
    BY Zenon, <2>1 DEF EnsureStopped
  <2>3. {"stopped", "error"} \subseteq Power \ {"deleting"} /\ "stopped" \in VMStates
        /\ FALSE \in BOOLEAN
    BY Zenon DEF Power, VMStates
  <2> QED
    BY Zenon, <1>0, <1>2, <2>2, <2>3
<1>3. CASE d = "deleted"
  <2>1. o \in EnsureDeleted(v, p, a)
    BY <1>3, Zenon DEF Reconciled
  <2>2. \/ o = Outcome("none", "deleted", FALSE, FALSE)
        \/ v # "none" /\ \E x \in {v, "stopped"} : o = Outcome(x, "error", p, a)
        \/ /\ v # "none" /\ TartGetMayFail
           /\ \E x \in {v, "stopped"} : o = Outcome(x, "deleted", FALSE, FALSE)
    BY ZenonT(30), <2>1 DEF EnsureDeleted
  <2>3. {"deleted", "error"} \subseteq Power \ {"deleting"} /\ {"none", "stopped"} \subseteq VMStates
        /\ FALSE \in BOOLEAN
    BY Zenon DEF Power, VMStates
  <2> QED
    BY Zenon, <1>0, <1>3, <2>2, <2>3
<1> QED
  BY <1>1, <1>2, <1>3, Zenon DEF Desired

(***************************************************************************)
(* Reconciling one runtime preserves the invariant.                        *)
(***************************************************************************)
LEMMA ReconcilePreservesFleetInv ==
  ASSUME FleetInv, NEW w \in Workers, NEW id \in WS, ReconcileRuntime(w, id)
  PROVE  FleetInv'
<1> DEFINE d == want[w][id]
<1>0. /\ TypeOK /\ RuntimesInv /\ BeatsInv
      /\ d \in Desired /\ vm[w][id] \in VMStates /\ proc[w][id] \in BOOLEAN /\ addr[w][id] \in BOOLEAN
  BY DEF FleetInv, ReconcileRuntime, TypeOK, RuntimesInv, SoundRuntime, Runtimes
<1>1. UNCHANGED <<rows, issued, req, wk, phase, listed, want, hb>>
      /\ todo' = [todo EXCEPT ![w] = @ \ {id}]
  BY Zenon DEF ReconcileRuntime, dbvars
<1>2. PICK o \in Reconciled(d, vm[w][id], proc[w][id], addr[w][id]) :
        /\ vm' = [vm EXCEPT ![w][id] = o.vm]
        /\ state' = [state EXCEPT ![w][id] = o.state]
        /\ proc' = [proc EXCEPT ![w][id] = o.proc]
        /\ addr' = [addr EXCEPT ![w][id] = o.addr]
  BY Zenon DEF ReconcileRuntime
<1>3. /\ o.vm \in VMStates /\ o.state \in Power \ {"deleting"}
      /\ o.proc \in BOOLEAN /\ o.addr \in BOOLEAN
      /\ o.state = "running" => o.addr
      /\ o.state = "deleted" => d = "deleted" /\ (o.vm = "none" \/ TartGetMayFail)
      /\ vm[w][id] = "none" /\ o.vm # "none" => d = "running"
  <2>1. SoundEnd(d, vm[w][id], o)
    BY <1>0, <1>2, ReconcileOutcome, Zenon
  <2> QED
    BY <2>1, Zenon DEF SoundEnd
<1>4. TypeOK'
  <2>1. todo' \in [Workers -> SUBSET WS]
    BY <1>0, <1>1, Zenon DEF TypeOK
  <2>2. vm' \in [Workers -> [WS -> VMStates]] /\ state' \in [Workers -> [WS -> Power]]
    BY <1>0, <1>2, <1>3, Zenon DEF TypeOK
  <2>3. proc' \in [Workers -> [WS -> BOOLEAN]] /\ addr' \in [Workers -> [WS -> BOOLEAN]]
    BY <1>0, <1>2, <1>3, Zenon DEF TypeOK
  <2> QED
    BY <1>0, <1>1, <2>1, <2>2, <2>3, Zenon DEF TypeOK, DBTypeOK
<1>5. /\ vm'[w][id] = o.vm /\ state'[w][id] = o.state /\ addr'[w][id] = o.addr
      /\ \A v \in Workers, i \in WS : v # w \/ i # id =>
           vm'[v][i] = vm[v][i] /\ state'[v][i] = state[v][i] /\ addr'[v][i] = addr[v][i]
      /\ \A v \in Workers : todo'[v] \subseteq todo[v]
  BY <1>0, <1>1, <1>2, Zenon DEF TypeOK
<1>6. \A v \in Workers, i \in WS : /\ GivenUp(v, i)' <=> GivenUp(v, i)
                                   /\ Serves(v, i)' <=> Serves(v, i)
  BY <1>1, <1>4, SameTable, Zenon
<1>7. \A v \in Workers, i \in WS : ReportsDeleted(v, i)' <=> ReportsDeleted(v, i)
  BY SMTT(30), <1>1 DEF ReportsDeleted
<1>8. RuntimesInv'
  <2>1. ASSUME NEW v \in Workers PROVE todo'[v] \subseteq Runtimes(v)'
    BY <1>0, <1>1, <1>5, Zenon DEF RuntimesInv, Runtimes
  <2>2. SoundRuntime(w, id)'
    <3>1. SoundRuntime(w, id) /\ want' = want
      BY <1>0, <1>1, Zenon DEF RuntimesInv
    <3> QED
      BY <1>3, <1>5, <1>6, <1>7, <3>1, Zenon DEF SoundRuntime
  <2>3. ASSUME NEW v \in Workers, NEW i \in WS, v # w \/ i # id PROVE SoundRuntime(v, i)'
    BY <1>0, <1>1, <1>5, <1>6, <1>7, <2>3, RuntimeKept, Zenon DEF RuntimesInv
  <2> QED
    BY <2>1, <2>2, <2>3, Zenon DEF RuntimesInv
<1>9. TartGetMayFail \/ VMsInv'
  <2> SUFFICES ASSUME ~ TartGetMayFail, NEW v \in Workers, NEW i \in WS, vm'[v][i] # "none"
               PROVE  Serves(v, i) /\ state'[v][i] # "deleted" /\ ~ ReportsDeleted(v, i)
    BY Zenon, <1>6, <1>7 DEF VMsInv
  <2>1. CASE v = w /\ i = id
    <3>1. o.vm # "none" /\ o.state # "deleted"
      BY <1>3, <1>5, <2>1, Zenon
    <3>2. CASE vm[w][id] = "none"
      <4>1. d = "running" /\ SoundRuntime(w, id)
        BY <1>0, <1>3, <3>1, <3>2, Zenon DEF RuntimesInv
      <4> QED
        BY <1>5, <2>1, <3>1, <4>1, Zenon DEF SoundRuntime
    <3>3. CASE vm[w][id] # "none"
      BY <1>5, <2>1, <3>1, <3>3, Zenon DEF FleetInv, VMsInv
    <3> QED
      BY <3>2, <3>3, Zenon
  <2>2. CASE v # w \/ i # id
    BY <1>5, <2>2 DEF FleetInv, VMsInv
  <2> QED
    BY <2>1, <2>2, Zenon
<1>10. BeatsInv'
  <2>1. \A v \in Workers, l \in Beats : BeatShrinks(hb[v][l], hb'[v][l])
    BY <1>1, Zenon DEF BeatShrinks
  <2>2. \A v \in Workers, l \in Beats : hb'[v][l] # NoBeat /\ hb'[v][l].live =>
          phase'[v] = "await" /\ want'[v] = want[v]
    BY <1>0, <1>1, Zenon DEF BeatsInv, AwaitedAlone
  <2> QED
    BY <1>1, <1>4, <2>1, <2>2, SameTableKeepsBeatsInv, Zenon
<1> QED
  BY <1>1, <1>4, <1>8, <1>9, <1>10, SameTable, Zenon

-----------------------------------------------------------------------------
(***************************************************************************)
(* FleetInv is an invariant of members, server, workers and VMs together,  *)
(* under any loss, delay or repetition of heartbeats and any restarts.     *)
(***************************************************************************)
THEOREM FleetInvariant == Spec => []FleetInv
<1>1. Init => FleetInv
  BY InitFleetInv, Zenon
<1>2. FleetInv /\ [Next]_vars => FleetInv'
  <2> SUFFICES ASSUME FleetInv, [Next]_vars PROVE FleetInv'
    BY Zenon
  <2>1. CASE UNCHANGED vars
    <3>1. UNCHANGED <<rows, issued, req, wk, phase, todo, listed, want, state, proc, addr, hb, vm>>
      BY <2>1, Zenon DEF vars, dbvars, workervars
    <3>2. TypeOK'
      BY <3>1, Zenon DEF FleetInv, TypeOK, DBTypeOK
    <3>3. \A w \in Workers : todo'[w] \subseteq Runtimes(w)
      BY <3>1, Zenon DEF FleetInv, RuntimesInv, SoundRuntime
    <3> QED
      BY <3>1, <3>2, <3>3, QuietPreservesFleetInv, Zenon
  <2>2. ASSUME NEW w \in Workers, WorkerStep(w) PROVE FleetInv'
    BY <2>2, ReconcilePreservesFleetInv, FinishPreservesFleetInv, SkipPreservesFleetInv,
       SendPreservesFleetInv, ReceivePreservesFleetInv, FailPreservesFleetInv,
       StartPreservesFleetInv, CrashPreservesFleetInv, Zenon DEF WorkerStep
  <2>3. ASSUME NEW w \in Workers, NEW k \in Beats, ServerStep(w, k) PROVE FleetInv'
    BY <2>3, HandlePreservesFleetInv, ApplyPreservesFleetInv, ListPreservesFleetInv,
       DropPreservesFleetInv, Zenon DEF ServerStep
  <2> QED
    BY <2>1, <2>2, <2>3, MemberPreservesFleetInv, GuestPreservesFleetInv,
       ExpiryPreservesFleetInv, Zenon DEF Next
<1> QED
  BY <1>1, <1>2, PTL DEF Spec

(***************************************************************************)
(* Type correctness of the whole fleet.                                    *)
(***************************************************************************)
THEOREM TypeCorrect == Spec => []TypeOK
<1>1. FleetInv => TypeOK
  BY Zenon DEF FleetInv
<1> QED
  BY <1>1, FleetInvariant, PTL

(***************************************************************************)
(* A row that looks deleted was released, whatever workers report and when *)
(* (UpdateWorkstationStatus stores what it is told).                       *)
(***************************************************************************)
THEOREM LooksDeletedOnlyReleased == Spec => []OnlyReleasedLooksDeleted
<1>1. FleetInv => OnlyReleasedLooksDeleted
  BY Zenon DEF FleetInv
<1> QED
  BY <1>1, FleetInvariant, PTL

(***************************************************************************)
(* A row shown as running has an address.                                  *)
(***************************************************************************)
THEOREM RunningHasItsAddress == Spec => []RunningHasAddress
<1>1. FleetInv => RunningHasAddress
  BY Zenon DEF FleetInv
<1> QED
  BY <1>1, FleetInvariant, PTL

(***************************************************************************)
(* If `tart get` never fails for a VM that exists, a row outlives its VM:  *)
(* a slot is given to another member only when the VM is gone.             *)
(***************************************************************************)
THEOREM VMsHaveTheirRows ==
  ASSUME ~ TartGetMayFail
  PROVE  Spec => []EveryVMHasItsRow
<1>1. FleetInv => EveryVMHasItsRow
  BY Zenon DEF FleetInv, VMsInv, EveryVMHasItsRow, Serves
<1> QED
  BY <1>1, FleetInvariant, PTL

(***************************************************************************)
(* Under the same assumption no host carries more VMs than its pool has    *)
(* slots: the slot numbers of its VMs are distinct and below PoolSize.     *)
(***************************************************************************)
THEOREM HostsWithinPool ==
  ASSUME ~ TartGetMayFail
  PROVE  Spec => []HostWithinPool
<1>1. FleetInv => HostWithinPool
  <2> SUFFICES ASSUME FleetInv, NEW w \in Workers
               PROVE  Cardinality({id \in WS : vm[w][id] # "none"}) <= PoolSize[w]
    BY Zenon DEF HostWithinPool
  <2> DEFINE S == {id \in WS : vm[w][id] # "none"}
             T == 0 .. PoolSize[w] - 1
             f == [id \in S |-> rows[id].slot]
  <2>1. \A id \in S : Exists(id) /\ rows[id].worker = w /\ rows[id] \in Row
    BY DEF FleetInv, VMsInv, Serves, DBInv, DBTypeOK, Exists
  <2>2. PoolSize[w] \in Nat
    BY DBAssumption, Zenon
  <2>3. \A id \in S : rows[id].slot \in T
    BY <2>1, <2>2 DEF FleetInv, DBInv, SlotsExclusive, Row
  <2>4. \A i, j \in S : rows[i].slot = rows[j].slot => i = j
    BY <2>1, Zenon DEF FleetInv, DBInv, SlotsExclusive
  <2>5. f \in [S -> T] /\ \A i, j \in S : f[i] = f[j] => i = j
    BY <2>3, <2>4, Zenon
  <2>6. f \in Injection(S, T)
    BY <2>5, Zenon DEF Injection, IsInjective
  <2>7. IsFiniteSet(T) /\ Cardinality(T) = PoolSize[w]
    BY SMTT(30), <2>2, FS_Interval
  <2> HIDE DEF S, T, f
  <2>8. Cardinality(S) <= PoolSize[w]
    BY <2>6, <2>7, FS_Injection
  <2> QED
    BY <2>8, Zenon DEF S
<1> QED
  BY <1>1, FleetInvariant, PTL

(***************************************************************************)
(* What a heartbeat reports about a workstation is a power state of the    *)
(* worker's enum other than "deleting", with or without an address.        *)
(***************************************************************************)
LEMMA ReportsArePowerStates ==
  ASSUME FleetInv, NEW w \in Workers, NEW k \in Beats, NEW id \in WS,
         hb[w][k] # NoBeat, id \in hb[w][k].left
  PROVE  hb[w][k].power[id] \in Power \ {"deleting"} /\ hb[w][k].ip[id] \in BOOLEAN
<1>1. hb[w][k] \in Beat
  BY Zenon DEF FleetInv, TypeOK
<1>2. hb[w][k].ip[id] \in BOOLEAN
  BY <1>1, Zenon DEF Beat
<1>3. hb[w][k].power[id] \in Power \ {"deleting"}
  BY Zenon DEF FleetInv, BeatsInv, SoundReports, ReportFor
<1> QED
  BY <1>2, <1>3, Zenon

(***************************************************************************)
(* The fleet implements the table of Workstations: each of its steps is a  *)
(* member's request, a report, a registration or a heartbeat of the table  *)
(* on its own, or leaves the table alone.  So all that is proved of the    *)
(* table under arbitrary reports holds with the real workers.              *)
(***************************************************************************)
THEOREM FleetImplementsTable ==
  ASSUME Power \ {"deleting"} \subseteq ReportStates
  PROVE  Spec => DBSpec
<1>1. Init => DBInit
  BY Zenon DEF Init
<1>2. FleetInv /\ [Next]_vars => [DBNext]_dbvars
  <2> SUFFICES ASSUME FleetInv, [Next]_vars PROVE [DBNext]_dbvars
    BY Zenon
  <2>1. CASE UNCHANGED vars
    BY <2>1, Zenon DEF vars
  <2>2. ASSUME NEW m \in Members, MemberStep(m) PROVE DBNext
    BY <2>2, Zenon DEF MemberStep, DBNext
  <2>3. ASSUME NEW w \in Workers, WorkerStep(w) PROVE [DBNext]_dbvars
    <3>1. CASE StartWorker(w)
      BY <3>1, Zenon DEF StartWorker, DBNext, WorkerNext
    <3>2. CASE ~ StartWorker(w)
      BY <2>3, <3>2, Zenon DEF WorkerStep, ReconcileRuntime, FinishReconcile, SkipHeartbeat, SendHeartbeat,
         ReceiveAnswer, HeartbeatFails, CrashWorker
    <3> QED
      BY <3>1, <3>2, Zenon
  <2>4. ASSUME NEW w \in Workers, NEW k \in Beats, ServerStep(w, k) PROVE [DBNext]_dbvars
    <3>1. CASE HandleWorkerHeartbeat(w, k)
      BY <3>1, Zenon DEF HandleWorkerHeartbeat, DBNext, WorkerNext, dbvars
    <3>2. ASSUME NEW id \in WS, ApplyStatus(w, k, id) PROVE [DBNext]_dbvars
      <4>1. CASE rows' = rows
        BY <3>2, <4>1, Zenon DEF ApplyStatus, dbvars
      <4>2. CASE UpdateWorkstationStatus(w, id, hb[w][k].power[id], hb[w][k].ip[id])
        <5>1. Report(w, id, hb[w][k].power[id], hb[w][k].ip[id])
          BY <3>2, <4>2, Zenon DEF ApplyStatus, Report
        <5>2. hb[w][k].power[id] \in ReportStates /\ hb[w][k].ip[id] \in BOOLEAN
          BY <3>2, ReportsArePowerStates, Zenon DEF ApplyStatus, InFlight
        <5> QED
          BY <5>1, <5>2, Zenon DEF DBNext, WorkerNext
      <4> QED
        BY <3>2, <4>1, <4>2, Zenon DEF ApplyStatus
    <3>3. CASE ListDesiredWorkstations(w, k) \/ DropHeartbeat(w, k)
      BY <3>3, Zenon DEF ListDesiredWorkstations, DropHeartbeat
    <3> QED
      BY <2>4, <3>1, <3>2, <3>3, Zenon DEF ServerStep
  <2>5. ASSUME NEW w \in Workers, NEW id \in WS, VMBoots(w, id) \/ VMStops(w, id)
        PROVE  UNCHANGED dbvars
    BY <2>5, Zenon DEF VMBoots, VMStops
  <2>6. ASSUME NEW w \in Workers, HeartbeatExpires(w) PROVE DBNext
    BY <2>6, Zenon DEF DBNext, WorkerNext
  <2> QED
    BY <2>1, <2>2, <2>3, <2>4, <2>5, <2>6, Zenon DEF Next
<1> QED
  BY <1>1, <1>2, FleetInvariant, PTL DEF Spec, DBSpec

(***************************************************************************)
(* With the real workers, too, no request and no late or repeated          *)
(* heartbeat undoes a release or brings a dropped row back.                *)
(***************************************************************************)
THEOREM FleetReleasesAreFinal ==
  ASSUME Power \ {"deleting"} \subseteq ReportStates
  PROVE  Spec => ReleaseIsFinal
<1> QED
  BY FleetImplementsTable, ReleasesAreFinal, PTL

(***************************************************************************)
(* With the real workers, too, only released rows are dropped, and no row  *)
(* changes its member, worker or slot.                                     *)
(***************************************************************************)
THEOREM FleetRowsVanishOnlyReleased ==
  ASSUME Power \ {"deleting"} \subseteq ReportStates
  PROVE  Spec => OnlyReleasedRowsVanish
<1> QED
  BY FleetImplementsTable, RowsVanishOnlyReleased, PTL

(***************************************************************************)
(* Only reconciling a runtime and the guests themselves change a VM.       *)
(***************************************************************************)
LEMMA WhoTouchesVMs ==
  ASSUME [Next]_vars
  PROVE  \/ vm' = vm
         \/ \E w \in Workers, id \in WS :
              ReconcileRuntime(w, id) \/ VMBoots(w, id) \/ VMStops(w, id)
<1>1. ASSUME NEW w \in Workers, WorkerStep(w)
      PROVE  vm' = vm \/ \E id \in WS : ReconcileRuntime(w, id)
  BY <1>1, Zenon DEF WorkerStep, FinishReconcile, SkipHeartbeat, SendHeartbeat, ReceiveAnswer,
     HeartbeatFails, StartWorker, CrashWorker
<1>2. ASSUME NEW w \in Workers, NEW k \in Beats, ServerStep(w, k)
      PROVE  vm' = vm
  BY <1>2, Zenon DEF ServerStep, HandleWorkerHeartbeat, ApplyStatus, ListDesiredWorkstations, DropHeartbeat
<1>3. ASSUME NEW m \in Members, MemberStep(m)
      PROVE  vm' = vm
  BY <1>3, Zenon DEF MemberStep
<1>4. CASE UNCHANGED vars
  BY <1>4, Zenon DEF vars
<1> QED
  BY <1>1, <1>2, <1>3, <1>4, Zenon DEF Next

(***************************************************************************)
(* A VM is destroyed only after its member released the workstation, under *)
(* any loss, delay, repetition or restart.                                 *)
(***************************************************************************)
THEOREM VMsDeletedOnlyReleased == Spec => OnlyReleasedVMsAreDeleted
<1>1. FleetInv /\ [Next]_vars =>
        [\A w \in Workers, id \in WS :
           vm[w][id] # "none" /\ vm'[w][id] = "none" =>
             id \in issued /\ (Exists(id) => Released(id))]_vars
  <2> SUFFICES ASSUME FleetInv, [Next]_vars, NEW w \in Workers, NEW id \in WS,
                      vm[w][id] # "none", vm'[w][id] = "none"
               PROVE  id \in issued /\ (Exists(id) => Released(id))
    BY Zenon
  <2>1. CASE vm' = vm
    BY <2>1, Zenon
  <2>2. ASSUME NEW v \in Workers, NEW i \in WS, ReconcileRuntime(v, i)
        PROVE  id \in issued /\ (Exists(id) => Released(id))
    <3>0. /\ want[v][i] \in Desired /\ vm[v][i] \in VMStates /\ proc[v][i] \in BOOLEAN
          /\ addr[v][i] \in BOOLEAN /\ vm \in [Workers -> [WS -> VMStates]]
      <4>1. TypeOK /\ i \in Runtimes(v)
        BY <2>2, Zenon DEF FleetInv, ReconcileRuntime, RuntimesInv
      <4> QED
        BY <4>1 DEF TypeOK, Runtimes
    <3>1. PICK o \in Reconciled(want[v][i], vm[v][i], proc[v][i], addr[v][i]) :
            vm' = [vm EXCEPT ![v][i] = o.vm]
      BY Zenon, <2>2 DEF ReconcileRuntime
    <3>2. vm[v][i] # "none" /\ o.vm = "none" => want[v][i] = "deleted"
      <4>1. SoundEnd(want[v][i], vm[v][i], o)
        BY <3>0, <3>1, ReconcileOutcome, Zenon
      <4> QED
        BY <4>1, Zenon DEF SoundEnd
    <3>3. v = w /\ i = id /\ o.vm = "none"
      BY <3>0, <3>1, Zenon
    <3> QED
      BY <3>2, <3>3, Zenon DEF FleetInv, RuntimesInv, SoundRuntime, GivenUp
  <2>3. ASSUME NEW v \in Workers, NEW i \in WS, VMBoots(v, i) \/ VMStops(v, i)
        PROVE  FALSE
    <3>1. PICK x \in {"up", "stopped"} : vm' = [vm EXCEPT ![v][i] = x] /\ vm[v][i] # "none"
      BY <2>3, Zenon DEF VMBoots, VMStops
    <3> QED
      BY <3>1, Zenon DEF FleetInv, TypeOK
  <2> QED
    BY <2>1, <2>2, <2>3, WhoTouchesVMs, Zenon
<1> QED
  BY <1>1, FleetInvariant, PTL DEF Spec, OnlyReleasedVMsAreDeleted

-----------------------------------------------------------------------------
(* The fleet implements the lifecycle *)

(***************************************************************************)
(* A step that keeps the table and which VMs exist is not seen by the      *)
(* lifecycle.                                                              *)
(***************************************************************************)
LEMMA UnseenStep ==
  ASSUME UNCHANGED <<rows, issued>>,
         \A w \in Workers, id \in WS : vm'[w][id] = "none" <=> vm[w][id] = "none"
  PROVE  UNCHANGED Lifecycle!lifevars
<1>1. \A id \in WS : Life(id)' = Life(id) /\ Place(id)' = Place(id)
  BY Zenon DEF Life, Place, Exists, Released
<1>2. \A id \in WS : {w \in Workers : vm'[w][id] # "none"} = {w \in Workers : vm[w][id] # "none"}
  BY Zenon
<1> QED
  BY <1>1, <1>2, Zenon DEF Lifecycle!lifevars

(***************************************************************************)
(* Rewriting a row in place is a release or is not seen by the lifecycle.  *)
(***************************************************************************)
LEMMA RewriteRefines ==
  ASSUME FleetInv, UNCHANGED <<issued, vm>>, NEW j \in WS, Exists(j), Exists(j)',
         RowKept(rows[j], rows'[j]), \A i \in WS : i # j => rows'[i] = rows[i]
  PROVE  Lifecycle!LifeNext \/ UNCHANGED Lifecycle!lifevars
<1>1. \A i \in WS : i # j => Life(i)' = Life(i)
  BY Zenon DEF Life, Exists, Released
<1>2. \A i \in WS : Place(i)' = Place(i)
  BY Zenon DEF Place, Exists, RowKept, SameKey
<1>3. j \in issued
  BY Zenon DEF FleetInv, DBInv
<1>4. CASE Released(j)' = Released(j)
  <2>1. Life(j)' = Life(j)
    BY <1>4, Zenon DEF Life
  <2> QED
    BY <1>1, <1>2, <2>1, Zenon DEF Lifecycle!lifevars
<1>5. CASE Released(j)' # Released(j)
  <2>1. Life(j) = "held" /\ Life(j)' = "releasing"
    BY <1>3, <1>5, Zenon DEF Life, Released, RowKept
  <2>2. Lifecycle!Release(j)
    BY Zenon, <1>1, <1>2, <2>1 DEF Lifecycle!Release
  <2> QED
    BY <2>2, Zenon DEF Lifecycle!LifeNext
<1> QED
  BY <1>4, <1>5, Zenon

(***************************************************************************)
(* An insert is a claim of the lifecycle.                                  *)
(***************************************************************************)
LEMMA InsertRefines ==
  ASSUME FleetInv, NEW m \in Members, InsertWorkstation(m), UNCHANGED vm
  PROVE  Lifecycle!LifeNext
<1>1. PICK id \in WS \ issued :
        /\ rows' = [rows EXCEPT ![id] =
                      [member |-> m, worker |-> req[m].worker, slot |-> req[m].slot,
                       power |-> "starting", desired |-> "running", ip |-> FALSE]]
        /\ issued' = issued \cup {id}
  BY Zenon DEF InsertWorkstation
<1> DEFINE w == req[m].worker
           s == req[m].slot
           r == [member |-> m, worker |-> w, slot |-> s,
                 power |-> "starting", desired |-> "running", ip |-> FALSE]
<1>2. /\ w \in Workers /\ s \in Nat /\ s < PoolSize[w] /\ ~ SlotTaken(w, s)
      /\ rows \in [WS -> Row \cup {NoRow}]
  <2>1. req[m] \in Requests /\ req[m].op = "insert" /\ rows \in [WS -> Row \cup {NoRow}]
    BY Zenon DEF FleetInv, DBInv, DBTypeOK, InsertWorkstation
  <2>2. w \in Workers /\ s \in Nat
    BY <2>1, RequestFields, Zenon
  <2> QED
    BY <2>1, <2>2, Zenon DEF FleetInv, DBInv, ClaimNeverConflicts
<1>3. r \in Row /\ r # NoRow /\ r.worker = w /\ r.slot = s /\ r.desired = "running"
  <2>1. r \in Row /\ r.worker = w /\ r.slot = s /\ r.desired = "running"
    BY <1>2, Zenon DEF Row, Power, Desired
  <2> QED
    BY Zenon, <2>1, DBAssumption
<1>4. rows' = [rows EXCEPT ![id] = r]
  BY <1>1, Zenon
<1> HIDE DEF r
<1>5. rows'[id] = r /\ \A i \in WS : i # id => rows'[i] = rows[i]
  BY <1>2, <1>4, Zenon
<1>6. /\ Life(id) = "free" /\ Life(id)' = "held" /\ Place(id)' = [worker |-> w, slot |-> s]
  BY Zenon, <1>1, <1>3, <1>5 DEF Life, Place, Exists, Released
<1>7. \A i \in WS : i # id => Life(i)' = Life(i) /\ Place(i)' = Place(i)
  BY <1>1, <1>5, Zenon DEF Life, Place, Exists, Released
<1>8. \A i \in WS : Place(i) # [worker |-> w, slot |-> s]
  <2>1. [worker |-> w, slot |-> s] \in [worker : Workers, slot : Nat]
    BY <1>2, Zenon
  <2> QED
    BY <1>2, <2>1, FleetAssumption, Zenon DEF Place, SlotTaken
<1>9. s \in 0 .. PoolSize[w] - 1
  <2>1. PoolSize[w] \in Nat
    BY Zenon, <1>2, DBAssumption
  <2> QED
    BY <1>2, <2>1
<1>10. Lifecycle!Claim(id, w, s)
  BY Zenon, <1>6, <1>7, <1>8 DEF Lifecycle!Claim
<1> QED
  BY <1>2, <1>9, <1>10, Zenon DEF Lifecycle!LifeNext

(***************************************************************************)
(* Every step of a member's request is a claim, a release or unseen.       *)
(***************************************************************************)
LEMMA MemberRefines ==
  ASSUME FleetInv, NEW m \in Members, MemberStep(m)
  PROVE  Lifecycle!LifeNext \/ UNCHANGED Lifecycle!lifevars
<1>1. MemberNext(m) /\ vm' = vm
  BY Zenon DEF MemberStep
<1>2. CASE rows' = rows /\ issued' = issued
  BY <1>1, <1>2, UnseenStep, Zenon
<1>3. CASE InsertWorkstation(m)
  BY <1>1, <1>3, InsertRefines, Zenon
<1>4. CASE UpdateMemberWorkstation(m)
  <2>0. req[m].id \in WS /\ issued' = issued
    BY <1>4, RequestFields, Zenon DEF UpdateMemberWorkstation, FleetInv, DBInv, DBTypeOK
  <2>1. PICK j \in WS : j = req[m].id
    BY <2>0, Zenon
  <2>2. CASE Exists(j) /\ rows[j].member = m
    <3>1. \A i \in WS : i # j => rows'[i] = rows[i]
      BY <1>4, <2>1, <2>2, Zenon DEF UpdateMemberWorkstation, FleetInv, DBInv, DBTypeOK
    <3>2. Exists(j)'
      BY <1>1, <2>1, <2>2, MemberKeepsShown, Zenon
    <3>3. RowKept(rows[j], rows'[j])
      BY <1>1, <2>1, <2>2, <3>2, StepKeepsRows, Zenon DEF DBNext, FleetInv
    <3> QED
      BY <1>1, <2>0, <2>2, <3>1, <3>2, <3>3, RewriteRefines, Zenon
  <2>3. CASE ~ (Exists(j) /\ rows[j].member = m)
    BY <1>2, <1>4, <2>0, <2>1, <2>3, Zenon DEF UpdateMemberWorkstation
  <2> QED
    BY <2>2, <2>3, Zenon
<1> QED
  BY <1>1, <1>2, <1>3, <1>4, Zenon DEF MemberNext, ClaimWorkstation, ListSchedulableWorkers, SelectSlot,
     AbortClaim, ResolveMemberWorkstation

(***************************************************************************)
(* A status update drops a row only when the VM is gone from every host:   *)
(* it gives the slot back, or is not seen by the lifecycle.                *)
(***************************************************************************)
LEMMA ApplyRefines ==
  ASSUME ~ TartGetMayFail, FleetInv, NEW w \in Workers, NEW k \in Beats, NEW id \in WS,
         ApplyStatus(w, k, id)
  PROVE  Lifecycle!LifeNext \/ UNCHANGED Lifecycle!lifevars
<1> DEFINE b == hb[w][k]
           p == b.power[id]
<1>0. UNCHANGED <<issued, req, wk, vm>> /\ b \in Beat /\ b # NoBeat /\ id \in b.left
      /\ rows \in [WS -> Row \cup {NoRow}] /\ wk \in [Workers -> {"unknown", "idle", "fresh"}]
  BY DEF FleetInv, ApplyStatus, InFlight, TypeOK, DBInv, DBTypeOK
<1>1. CASE rows' = rows
  BY <1>0, <1>1, UnseenStep, Zenon
<1>2. CASE UpdateWorkstationStatus(w, id, p, b.ip[id]) /\ Exists(id) /\ rows[id].worker = w
  <2>1. /\ rows'[id] = StatusUpdate(rows[id], p, b.ip[id])
        /\ \A i \in WS : i # id => rows'[i] = rows[i]
    BY <1>0, <1>2, Zenon DEF UpdateWorkstationStatus
  <2>2. p \in Power /\ b.ip[id] \in BOOLEAN
    BY <1>0, Zenon DEF FleetInv, BeatsInv, SoundReports, ReportFor, Beat
  <2>3. rows[id] \in Row /\ (rows[id].desired = "deleted" => rows[id].power = "deleting")
    BY <1>0, <1>2, Zenon DEF FleetInv, DBInv, Exists, ReleasedShowsDeleting, Released
  <2>4. \/ rows'[id] = NoRow /\ rows[id].desired = "deleted" /\ p = "deleted"
        \/ RowKept(rows[id], rows'[id])
    BY <2>1, <2>2, <2>3, ReportKeepsRow, Zenon
  <2>5. CASE RowKept(rows[id], rows'[id])
    <3>1. Exists(id)'
      BY <2>5, DBAssumption, Zenon DEF RowKept, Exists
    <3> QED
      BY <1>0, <1>2, <2>1, <2>5, <3>1, RewriteRefines, Zenon
  <2>6. CASE rows'[id] = NoRow /\ rows[id].desired = "deleted" /\ p = "deleted"
    <3>1. ReportsDeleted(w, id)
      BY <1>0, <2>6, Zenon DEF ReportsDeleted
    <3>2. \A v \in Workers : vm[v][id] = "none"
      BY <1>2, <3>1 DEF FleetInv, VMsInv, Serves
    <3>3. Life(id) = "releasing" /\ Life(id)' = "gone" /\ Place(id)' = NoRow
      BY <1>0, <1>2, <2>6, Zenon DEF Life, Place, Released, Exists, FleetInv, DBInv
    <3>4. \A i \in WS : i # id => Life(i)' = Life(i) /\ Place(i)' = Place(i)
      BY <1>0, <2>1, Zenon DEF Life, Place, Released, Exists
    <3>5. {v \in Workers : vm[v][id] # "none"} = {}
      BY <3>2, Zenon
    <3>6. Lifecycle!GiveSlotBack(id)
      BY Zenon, <1>0, <3>3, <3>4, <3>5 DEF Lifecycle!GiveSlotBack
    <3> QED
      BY <3>6, Zenon DEF Lifecycle!LifeNext
  <2> QED
    BY <2>4, <2>5, <2>6, Zenon
<1>3. CASE UpdateWorkstationStatus(w, id, p, b.ip[id]) /\ ~ (Exists(id) /\ rows[id].worker = w)
  BY <1>1, <1>3, Zenon DEF UpdateWorkstationStatus
<1> QED
  BY <1>1, <1>2, <1>3, Zenon DEF ApplyStatus

(***************************************************************************)
(* A reconcile creates the VM on the worker the workstation was placed on, *)
(* destroys the VM of a released one, or is not seen by the lifecycle.     *)
(***************************************************************************)
LEMMA ReconcileRefines ==
  ASSUME ~ TartGetMayFail, FleetInv, NEW w \in Workers, NEW id \in WS, ReconcileRuntime(w, id)
  PROVE  Lifecycle!LifeNext \/ UNCHANGED Lifecycle!lifevars
<1> DEFINE d == want[w][id]
<1>0. /\ d \in Desired /\ vm[w][id] \in VMStates /\ proc[w][id] \in BOOLEAN
      /\ addr[w][id] \in BOOLEAN /\ vm \in [Workers -> [WS -> VMStates]]
      /\ UNCHANGED <<rows, issued>>
  BY DEF FleetInv, ReconcileRuntime, TypeOK, RuntimesInv, Runtimes, dbvars
<1>1. PICK o \in Reconciled(d, vm[w][id], proc[w][id], addr[w][id]) : vm' = [vm EXCEPT ![w][id] = o.vm]
  BY Zenon DEF ReconcileRuntime
<1>2. /\ vm[w][id] = "none" /\ o.vm # "none" => d = "running"
      /\ vm[w][id] # "none" /\ o.vm = "none" => d = "deleted"
  <2>1. SoundEnd(d, vm[w][id], o)
    BY <1>0, <1>1, ReconcileOutcome, Zenon
  <2> QED
    BY <2>1, Zenon DEF SoundEnd
<1>3. /\ vm'[w][id] = o.vm
      /\ \A v \in Workers, i \in WS : v # w \/ i # id => vm'[v][i] = vm[v][i]
  BY <1>0, <1>1, Zenon
<1>4. \A i \in WS : Life(i)' = Life(i) /\ Place(i)' = Place(i)
  BY <1>0, Zenon DEF Life, Place, Exists, Released
<1>5. \A i \in WS : i # id =>
        {v \in Workers : vm'[v][i] # "none"} = {v \in Workers : vm[v][i] # "none"}
  BY <1>3, Zenon
<1>6. \A v \in Workers : vm[v][id] # "none" => Serves(v, id)
  BY Zenon DEF FleetInv, VMsInv
<1>7. CASE vm[w][id] = "none" /\ o.vm # "none"
  <2>1. Serves(w, id) /\ id \in issued
    BY <1>2, <1>7, Zenon DEF FleetInv, RuntimesInv, SoundRuntime, DBInv, Serves
  <2>2. {v \in Workers : vm'[v][id] # "none"} = {w}
    BY <1>3, <1>6, <1>7, <2>1, Zenon DEF Serves
  <2>3. Life(id) \in {"held", "releasing"} /\ Place(id).worker = w
    BY <2>1, Zenon DEF Life, Place, Serves
  <2>4. Lifecycle!CreateVM(id)
    <3> DEFINE D == [i \in WS |-> {v \in Workers : vm[v][i] # "none"}]
               P == [i \in WS |-> Place(i)]
    <3>1. D' = [D EXCEPT ![id] = {w}]
      BY Zenon, <1>5, <2>2
    <3>2. {P[id].worker} = {w}
      BY <2>3, Zenon
    <3>3. D' = [D EXCEPT ![id] = {P[id].worker}]
      BY Zenon, <3>1, <3>2
    <3> QED
      BY <1>4, <2>3, <3>3, Zenon DEF Lifecycle!CreateVM
  <2> QED
    BY <2>4, Zenon DEF Lifecycle!LifeNext
<1>8. CASE vm[w][id] # "none" /\ o.vm = "none"
  <2>1. Serves(w, id) /\ GivenUp(w, id)
    BY <1>2, <1>6, <1>8, Zenon DEF FleetInv, RuntimesInv, SoundRuntime
  <2>1a. \A v \in Workers : vm'[v][id] = "none"
    BY <1>3, <1>6, <1>8, <2>1, Zenon DEF Serves
  <2>2. {v \in Workers : vm'[v][id] # "none"} = {}
    BY <2>1a, Zenon
  <2>3. Life(id) = "releasing"
    BY <2>1, Zenon DEF Life, Serves, GivenUp
  <2>4. Lifecycle!DestroyVM(id)
    BY Zenon, <1>4, <1>5, <2>2, <2>3 DEF Lifecycle!DestroyVM
  <2> QED
    BY <2>4, Zenon DEF Lifecycle!LifeNext
<1>9. CASE vm[w][id] = "none" <=> o.vm = "none"
  <2>1. \A v \in Workers, i \in WS : vm'[v][i] = "none" <=> vm[v][i] = "none"
    BY <1>3, <1>9, Zenon
  <2> QED
    BY <1>0, <2>1, UnseenStep, Zenon
<1> QED
  BY <1>7, <1>8, <1>9, Zenon

(***************************************************************************)
(* The guests' own starts and stops are not seen by the lifecycle.         *)
(***************************************************************************)
LEMMA GuestRefines ==
  ASSUME FleetInv, NEW w \in Workers, NEW id \in WS, VMBoots(w, id) \/ VMStops(w, id)
  PROVE  UNCHANGED Lifecycle!lifevars
<1>1. PICK x \in {"up", "stopped"} : vm' = [vm EXCEPT ![w][id] = x] /\ vm[w][id] # "none"
  BY Zenon DEF VMBoots, VMStops
<1>2. \A v \in Workers, i \in WS : vm'[v][i] = "none" <=> vm[v][i] = "none"
  BY <1>1, Zenon DEF FleetInv, TypeOK
<1>3. UNCHANGED <<rows, issued>>
  BY Zenon DEF VMBoots, VMStops, dbvars
<1> QED
  BY <1>2, <1>3, UnseenStep, Zenon

(***************************************************************************)
(* Members, server, workers, heartbeats and VMs together implement the     *)
(* workstation's lifecycle.                                                *)
(***************************************************************************)
THEOREM FleetImplementsLifecycle ==
  ASSUME ~ TartGetMayFail
  PROVE  Spec => LifecycleSpec
<1>1. Init => Lifecycle!LifeInit
  <2> SUFFICES ASSUME Init PROVE Lifecycle!LifeInit
    BY Zenon
  <2>1. \A id \in WS : Life(id) = "free" /\ Place(id) = NoRow
    BY Zenon DEF Init, DBInit, Life, Place, Exists
  <2>2. \A id \in WS : {w \in Workers : vm[w][id] # "none"} = {}
    BY Zenon DEF Init
  <2> QED
    BY <2>1, <2>2, Zenon DEF Lifecycle!LifeInit
<1>2. FleetInv /\ [Next]_vars => [Lifecycle!LifeNext]_(Lifecycle!lifevars)
  <2> SUFFICES ASSUME FleetInv, [Next]_vars
               PROVE  Lifecycle!LifeNext \/ UNCHANGED Lifecycle!lifevars
    BY Zenon
  <2>1. CASE UNCHANGED <<rows, issued, vm>>
    BY <2>1, UnseenStep, Zenon
  <2>2. CASE UNCHANGED vars
    BY <2>1, <2>2, Zenon DEF vars, dbvars
  <2>3. ASSUME NEW w \in Workers, WorkerStep(w)
        PROVE  Lifecycle!LifeNext \/ UNCHANGED Lifecycle!lifevars
    BY <2>1, <2>3, ReconcileRefines, Zenon DEF WorkerStep, FinishReconcile, SkipHeartbeat, SendHeartbeat,
       ReceiveAnswer, HeartbeatFails, StartWorker, CrashWorker, dbvars
  <2>4. ASSUME NEW w \in Workers, NEW k \in Beats, ServerStep(w, k)
        PROVE  Lifecycle!LifeNext \/ UNCHANGED Lifecycle!lifevars
    BY <2>1, <2>4, ApplyRefines, Zenon DEF ServerStep, HandleWorkerHeartbeat, ListDesiredWorkstations,
       DropHeartbeat, dbvars
  <2>5. ASSUME NEW w \in Workers, HeartbeatExpires(w) /\ UNCHANGED <<workervars, hb, vm>>
        PROVE  UNCHANGED Lifecycle!lifevars
    BY <2>1, <2>5, UnseenStep, Zenon DEF HeartbeatExpires
  <2> QED
    BY <2>2, <2>3, <2>4, <2>5, MemberRefines, GuestRefines, Zenon DEF Next
<1> QED
  BY <1>1, <1>2, FleetInvariant, PTL DEF Spec, LifecycleSpec, Lifecycle!LifeSpec
=============================================================================
