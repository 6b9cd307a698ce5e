------------------------- MODULE ProxySessions_proofs -------------------------
(***************************************************************************)
(* Proofs about the server's proxy sessions, for any number of sessions,   *)
(* connections, workers and closing goroutines: one lemma per step, each   *)
(* showing that the step keeps SessionInv.                                 *)
(***************************************************************************)
EXTENDS ProxySessions, TLAPS

\* A new SessionManager (NewSessionManager) satisfies the invariant.
LEMMA InitSessions ==
  Init => SessionInv
<1> SUFFICES ASSUME Init PROVE SessionInv
  BY Zenon
<1>1. TypeOK
  BY ProxyAssumption, Zenon DEF Init, TypeOK, Targets, Stages, NoPoll, PCs, Roles
<1>2. /\ UnbornUntouched
      /\ HandlersHaveSessions
      /\ ConnsAreTheirs
  BY ProxyAssumption, Zenon DEF Init, UnbornUntouched, HandlersHaveSessions, ConnsAreTheirs, Roles, Procs
<1>3. /\ RelaysAreComplete
      /\ ClosedExactlyOnce
  BY ProxyAssumption, Zenon DEF Init, RelaysAreComplete, ClosedExactlyOnce
<1>4. /\ RelayWithinSession
      /\ ActiveHasRelay
  BY Zenon DEF Init, RelayWithinSession, ActiveHasRelay
<1> QED
  BY <1>1, <1>2, <1>3, <1>4, Zenon DEF SessionInv

(***************************************************************************)
(* A step that changes no session's connections, takes no session out of   *)
(* the reaper's hands and no handler from a session on the table.          *)
(***************************************************************************)
LEMMA TendedStays ==
  ASSUME ActiveHasRelay, conn' = conn,
         \A s \in table' : stage'[s] # "pending" => s \in table /\ stage[s] # "pending",
         \A c \in Conns : \A s \in table' : Tends(c, s) => Tends(c, s)'
  PROVE  ActiveHasRelay'
<1> SUFFICES ASSUME NEW s \in table', stage'[s] # "pending"
             PROVE  BothSides(conn[s]) /\ \E c \in Conns : Tends(c, s)'
  BY Zenon DEF ActiveHasRelay
<1>1. BothSides(conn[s]) /\ \E c \in Conns : Tends(c, s)
  BY Zenon DEF ActiveHasRelay
<1> QED
  BY <1>1, Zenon

(***************************************************************************)
(* Steps that touch neither a session nor a handler (polls being listed or *)
(* answered, goroutines collecting sessions to close, rows changing, time  *)
(* passing, peers leaving) keep everything but the types trivially.        *)
(***************************************************************************)
LEMMA QuietSteps ==
  ASSUME SessionInv, TypeOK',
         UNCHANGED <<stage, conn, done, table, pc, sid, role, pair, cut>>,
         \A c \in Conns : todo'[c] = todo[c]
  PROVE  SessionInv'
<1>1. UnbornUntouched' /\ HandlersHaveSessions' /\ ConnsAreTheirs'
  BY DEF SessionInv, UnbornUntouched, HandlersHaveSessions, ConnsAreTheirs
<1>2. RelaysAreComplete' /\ ClosedExactlyOnce' /\ RelayWithinSession'
  BY DEF SessionInv, RelaysAreComplete, ClosedExactlyOnce, RelayWithinSession, BothSides
<1>3. ActiveHasRelay'
  <2>1. \A c \in Conns : \A s \in table' : Tends(c, s) => Tends(c, s)'
    BY Zenon DEF Tends
  <2> QED
    BY <2>1, TendedStays, Zenon DEF SessionInv
<1> QED
  BY <1>1, <1>2, <1>3, Zenon DEF SessionInv

\* resolveProxyTarget fills in a session that nobody has yet.
LEMMA ResolveStep ==
  ASSUME SessionInv, NEW s \in Sessions, NEW w \in Workers, NEW v \in VMs \cup {None},
         ResolveProxyTarget(s, w, v)
  PROVE  SessionInv'
<1>0. /\ TypeOK /\ UnbornUntouched /\ HandlersHaveSessions /\ ConnsAreTheirs
      /\ RelaysAreComplete /\ ClosedExactlyOnce /\ RelayWithinSession /\ ActiveHasRelay
  BY Zenon DEF SessionInv
<1>1. TypeOK'
  BY <1>0, Zenon DEF TypeOK, ResolveProxyTarget, Targets, Stages, rowvars, pollvars
<1>2. /\ stage[s] = "unborn"
      /\ stage' = [stage EXCEPT ![s] = "resolved"]
      /\ UNCHANGED <<conn, done, table, pc, sid, role, pair, cut, todo>>
  BY Zenon DEF ResolveProxyTarget
<1>3. UnbornUntouched'
  BY <1>0, <1>2 DEF UnbornUntouched, TypeOK
<1>4. HandlersHaveSessions' /\ ConnsAreTheirs'
  BY <1>0, <1>2 DEF HandlersHaveSessions, ConnsAreTheirs, TypeOK
<1>5. RelaysAreComplete' /\ RelayWithinSession'
  BY <1>0, <1>2 DEF RelaysAreComplete, RelayWithinSession, BothSides
<1>6. ClosedExactlyOnce'
  BY <1>0, <1>2 DEF ClosedExactlyOnce, TypeOK
<1>7. ActiveHasRelay'
  <2>1. \A d \in Conns : \A t \in table' : Tends(d, t) => Tends(d, t)'
    BY <1>2, Zenon DEF Tends
  <2>2. \A t \in table' : stage'[t] # "pending" => t \in table /\ stage[t] # "pending"
    BY <1>0, <1>2, Zenon DEF UnbornUntouched, TypeOK
  <2> QED
    BY <1>0, <1>2, <2>1, <2>2, TendedStays, Zenon
<1> QED
  BY <1>1, <1>3, <1>4, <1>5, <1>6, <1>7, Zenon DEF SessionInv

\* SessionManager.Create puts a session on the table that nobody closed yet.
LEMMA CreateStep ==
  ASSUME SessionInv, NEW s \in Sessions, Create(s)
  PROVE  SessionInv'
<1>0. /\ TypeOK /\ UnbornUntouched /\ HandlersHaveSessions /\ ConnsAreTheirs
      /\ RelaysAreComplete /\ ClosedExactlyOnce /\ RelayWithinSession /\ ActiveHasRelay
  BY Zenon DEF SessionInv
<1>1. TypeOK'
  BY <1>0, Zenon DEF TypeOK, Create, Stages, rowvars, pollvars
<1>2. /\ stage[s] = "resolved"
      /\ stage' = [stage EXCEPT ![s] = "pending"]
      /\ table' = table \cup {s}
      /\ UNCHANGED <<conn, done, pc, sid, role, pair, cut, todo>>
  BY Zenon DEF Create
<1>3. UnbornUntouched'
  BY <1>0, <1>2, Zenon DEF UnbornUntouched, TypeOK
<1>4. HandlersHaveSessions' /\ ConnsAreTheirs'
  BY <1>0, <1>2 DEF HandlersHaveSessions, ConnsAreTheirs, TypeOK
<1>5. RelaysAreComplete' /\ RelayWithinSession'
  BY <1>0, <1>2 DEF RelaysAreComplete, RelayWithinSession, BothSides
<1>6. ClosedExactlyOnce'
  BY <1>0, <1>2 DEF ClosedExactlyOnce, UnbornUntouched, TypeOK
<1>7. ActiveHasRelay'
  <2>1. \A d \in Conns : \A t \in table' : Tends(d, t) => Tends(d, t)'
    BY <1>2, Zenon DEF Tends
  <2>2. \A t \in table' : stage'[t] # "pending" => t \in table /\ stage[t] # "pending"
    BY <1>0, <1>2 DEF TypeOK
  <2> QED
    BY <1>0, <1>2, <2>1, <2>2, TendedStays, Zenon
<1> QED
  BY <1>1, <1>3, <1>4, <1>5, <1>6, <1>7, Zenon DEF SessionInv

(***************************************************************************)
(* A handler that moves between points where it neither relays nor is      *)
(* about to (accepting, looking the session up, waiting, returning).       *)
(***************************************************************************)
LEMMA HandlerMoves ==
  ASSUME SessionInv, TypeOK', NEW c \in Conns, NEW l \in PCs,
         pc[c] \notin {"idle", "starting", "relaying"},
         l \notin {"idle", "starting", "relaying"},
         pc' = [pc EXCEPT ![c] = l],
         UNCHANGED <<stage, conn, done, table, sid, role, pair, cut, todo>>
  PROVE  SessionInv'
<1>0. /\ TypeOK /\ UnbornUntouched /\ HandlersHaveSessions /\ ConnsAreTheirs
      /\ RelaysAreComplete /\ ClosedExactlyOnce /\ RelayWithinSession /\ ActiveHasRelay
  BY Zenon DEF SessionInv
<1>1. UnbornUntouched' /\ ClosedExactlyOnce'
  BY <1>0, Zenon DEF UnbornUntouched, ClosedExactlyOnce
<1>2. HandlersHaveSessions'
  BY <1>0, Zenon DEF HandlersHaveSessions, TypeOK
<1>3. ConnsAreTheirs'
  BY <1>0 DEF ConnsAreTheirs, TypeOK
<1>4. RelaysAreComplete' /\ RelayWithinSession'
  BY <1>0 DEF RelaysAreComplete, RelayWithinSession, BothSides, TypeOK
<1>5. ActiveHasRelay'
  <2>1. \A d \in Conns : \A t \in table' : Tends(d, t) => Tends(d, t)'
    BY <1>0 DEF Tends, TypeOK
  <2> QED
    BY <1>0, <2>1, TendedStays, Zenon
<1> QED
  BY <1>1, <1>2, <1>3, <1>4, <1>5, Zenon DEF SessionInv

\* A connection asks for a session that is on the table (handleProxyWebSocket).
LEMMA DialStep ==
  ASSUME SessionInv, NEW c \in Conns, NEW s \in Sessions, NEW r \in Roles, Dial(c, s, r)
  PROVE  SessionInv'
<1>0. /\ TypeOK /\ UnbornUntouched /\ HandlersHaveSessions /\ ConnsAreTheirs
      /\ RelaysAreComplete /\ ClosedExactlyOnce /\ RelayWithinSession /\ ActiveHasRelay
  BY Zenon DEF SessionInv
<1>1. TypeOK'
  BY <1>0, Zenon DEF TypeOK, Dial, PCs, sessvars, rowvars, pollvars
<1>2. /\ pc[c] = "idle" /\ s \in table
      /\ pc' = [pc EXCEPT ![c] = "accepting"]
      /\ sid' = [sid EXCEPT ![c] = s]
      /\ role' = [role EXCEPT ![c] = r]
      /\ UNCHANGED <<stage, conn, done, table, pair, cut, todo>>
  BY Zenon DEF Dial, sessvars
<1>3. UnbornUntouched' /\ ClosedExactlyOnce'
  BY <1>0, <1>2, Zenon DEF UnbornUntouched, ClosedExactlyOnce
<1>4. HandlersHaveSessions'
  BY <1>0, <1>2, Zenon DEF HandlersHaveSessions, UnbornUntouched, TypeOK
<1>5. ConnsAreTheirs'
  BY <1>0, <1>2 DEF ConnsAreTheirs, TypeOK
<1>6. RelaysAreComplete'
  BY <1>0, <1>2, Zenon DEF RelaysAreComplete, BothSides, TypeOK
<1>7. RelayWithinSession'
  BY <1>0, <1>2 DEF RelayWithinSession, RelaysAreComplete, TypeOK
<1>8. ActiveHasRelay'
  <2>1. \A d \in Conns : \A t \in table' : Tends(d, t) => Tends(d, t)'
    BY <1>0, <1>2 DEF Tends, HandlersHaveSessions, TypeOK
  <2> QED
    BY <1>0, <1>2, <2>1, TendedStays, Zenon
<1> QED
  BY <1>1, <1>3, <1>4, <1>5, <1>6, <1>7, <1>8, Zenon DEF SessionInv

(***************************************************************************)
(* SetConn stores a connection: a session that becomes active gets the     *)
(* handler that completed it as its relay.                                 *)
(***************************************************************************)
LEMMA AttachStep ==
  ASSUME SessionInv, NEW c \in Conns, SetConnAttach(c)
  PROVE  SessionInv'
<1>0. /\ TypeOK /\ UnbornUntouched /\ HandlersHaveSessions /\ ConnsAreTheirs
      /\ RelaysAreComplete /\ ClosedExactlyOnce /\ RelayWithinSession /\ ActiveHasRelay
  BY Zenon DEF SessionInv
<1> DEFINE x == Attached(c)
<1>1. /\ pc[c] = "attaching"
      /\ conn' = [conn EXCEPT ![sid[c]] = x]
      /\ UNCHANGED <<done, table, sid, role, pair, cut, todo>>
  BY Zenon DEF SetConnAttach
<1>2. \/ /\ BothSides(x)
         /\ stage' = [stage EXCEPT ![sid[c]] = "active"]
         /\ pc' = [pc EXCEPT ![c] = "starting"]
      \/ /\ pc' = [pc EXCEPT ![c] = "waiting"]
         /\ UNCHANGED stage
  BY Zenon DEF SetConnAttach
<1>3. /\ sid[c] \in Sessions
      /\ role[c] \in Roles
      /\ stage[sid[c]] \notin {"unborn", "resolved"}
  BY <1>0, <1>1, Zenon DEF HandlersHaveSessions, TypeOK
<1>4. /\ x \in [Roles -> Conns \cup {None}]
      /\ x[role[c]] = c
      /\ \A r \in Roles : r # role[c] => x[r] = conn[sid[c]][r]
      /\ BothSides(conn[sid[c]]) => BothSides(x)
  <2>1. conn[sid[c]] \in [Roles -> Conns \cup {None}]
    BY <1>0, <1>3, Zenon DEF TypeOK
  <2>2. x = [conn[sid[c]] EXCEPT ![role[c]] = c]
    BY Zenon DEF Attached
  <2> QED
    BY <2>1, <2>2, <1>3, ProxyAssumption, Zenon DEF BothSides
<1> HIDE DEF x
<1>5. TypeOK'
  <2>1. conn' \in [Sessions -> [Roles -> Conns \cup {None}]]
    BY <1>0, <1>1, <1>4, Zenon DEF TypeOK
  <2>2. stage' \in [Sessions -> Stages] /\ pc' \in [Conns -> PCs]
    BY <1>0, <1>2, Zenon DEF TypeOK, Stages, PCs
  <2> QED
    BY <1>0, <2>1, <2>2, Zenon DEF TypeOK, SetConnAttach, rowvars, pollvars
<1>6. UnbornUntouched'
  BY <1>0, <1>1, <1>2, <1>3 DEF UnbornUntouched, TypeOK
<1>7. HandlersHaveSessions'
  BY <1>0, <1>1, <1>2, <1>3 DEF HandlersHaveSessions, TypeOK
<1>8. ConnsAreTheirs'
  <2>1. \A s \in Sessions, r \in Roles :
          conn'[s][r] = conn[s][r] \/ (s = sid[c] /\ r = role[c] /\ conn'[s][r] = c)
    BY <1>0, <1>1, <1>3, <1>4, Zenon DEF TypeOK
  <2>2. pc'[c] # "idle" /\ \A d \in Conns : pc[d] # "idle" => pc'[d] # "idle"
    BY <1>0, <1>2, Zenon DEF TypeOK
  <2> QED
    BY <1>0, <1>1, <2>1, <2>2, SMTT(20) DEF ConnsAreTheirs, TypeOK
<1>9. RelaysAreComplete'
  <2>1. \A d \in Conns : pc'[d] = "starting" => BothSides(conn'[sid'[d]])
    <3> SUFFICES ASSUME NEW d \in Conns, pc'[d] = "starting" PROVE BothSides(conn'[sid[d]])
      BY <1>1, Zenon
    <3>1. CASE d = c
      BY <3>1, <1>0, <1>1, <1>2, <1>3, Zenon DEF TypeOK
    <3>2. CASE d # c
      <4>1. pc[d] = "starting" /\ BothSides(conn[sid[d]]) /\ sid[d] \in Sessions
        BY <3>2, <1>0, <1>2, Zenon DEF TypeOK, RelaysAreComplete, HandlersHaveSessions
      <4> QED
        BY <4>1, <1>0, <1>1, <1>3, <1>4, Zenon DEF TypeOK
    <3> QED
      BY <3>1, <3>2, Zenon
  <2>2. \A d \in Conns : \A e \in pair[d] : pc'[e] # "idle"
    BY <1>0, <1>2, Zenon DEF RelaysAreComplete, TypeOK
  <2> QED
    BY <2>1, <2>2, <1>1, Zenon DEF RelaysAreComplete
<1>10. ClosedExactlyOnce'
  BY <1>0, <1>1, <1>2, <1>3 DEF ClosedExactlyOnce, TypeOK
<1>11. RelayWithinSession'
  <2>1. \A d \in Conns : pc'[d] = "relaying" => pc[d] = "relaying"
    BY <1>0, <1>2, Zenon DEF TypeOK
  <2> QED
    BY <1>0, <1>1, <2>1, Zenon DEF RelayWithinSession
<1>12. ActiveHasRelay'
  <2> SUFFICES ASSUME NEW s \in table, stage'[s] # "pending"
               PROVE  BothSides(conn'[s]) /\ \E d \in Conns : Tends(d, s)'
    BY <1>1, Zenon DEF ActiveHasRelay
  <2>1. s \in Sessions
    BY <1>0, Zenon DEF TypeOK
  <2>2. CASE s = sid[c]
    <3>1. BothSides(x) /\ pc'[c] = "starting"
      <4>1. CASE stage[s] = "pending"
        BY <1>0, <1>1, <1>2, <2>1, <2>2, <4>1, Zenon DEF TypeOK
      <4>2. CASE stage[s] # "pending"
        <5>1. BothSides(x)
          BY <1>0, <1>4, <2>2, <4>2, Zenon DEF ActiveHasRelay
        <5> QED
          BY <1>0, <5>1, Zenon DEF SetConnAttach, TypeOK, x
      <4> QED
        BY <4>1, <4>2, Zenon
    <3>2. conn'[s] = x
      BY <1>0, <1>1, <2>1, <2>2, Zenon DEF TypeOK
    <3> QED
      BY <1>1, <2>2, <3>1, <3>2, Zenon DEF Tends
  <2>3. CASE s # sid[c]
    <3>1. conn'[s] = conn[s] /\ stage'[s] = stage[s]
      BY <1>0, <1>1, <1>2, <2>1, <2>3, Zenon DEF TypeOK
    <3>2. BothSides(conn[s]) /\ \E d \in Conns : Tends(d, s)
      BY <1>0, <3>1, Zenon DEF ActiveHasRelay
    <3>3. PICK d \in Conns : Tends(d, s)
      BY <3>2, Zenon
    <3>4. pc'[d] = pc[d]
      BY <1>0, <1>2, <2>3, <3>3, Zenon DEF TypeOK, Tends
    <3> QED
      BY <1>1, <3>1, <3>2, <3>3, <3>4 DEF Tends
  <2> QED
    BY <2>2, <2>3, Zenon
<1> QED
  BY <1>5, <1>6, <1>7, <1>8, <1>9, <1>10, <1>11, <1>12, Zenon DEF SessionInv

\* Relay reads the two connections of its session.
LEMMA RelayStartStep ==
  ASSUME SessionInv, NEW c \in Conns, RelayStart(c)
  PROVE  SessionInv'
<1>0. /\ TypeOK /\ UnbornUntouched /\ HandlersHaveSessions /\ ConnsAreTheirs
      /\ RelaysAreComplete /\ ClosedExactlyOnce /\ RelayWithinSession /\ ActiveHasRelay
  BY Zenon DEF SessionInv
<1> DEFINE P == {conn[sid[c]][r] : r \in Roles}
<1>1. /\ pc[c] = "starting"
      /\ pc' = [pc EXCEPT ![c] = "relaying"]
      /\ pair' = [pair EXCEPT ![c] = P]
      /\ UNCHANGED <<stage, conn, done, table, sid, role, cut, todo>>
  BY Zenon DEF RelayStart, sessvars
<1>2. sid[c] \in Sessions /\ BothSides(conn[sid[c]])
  BY <1>0, <1>1, Zenon DEF HandlersHaveSessions, RelaysAreComplete
<1>3. \A r \in Roles : /\ conn[sid[c]][r] \in Conns
                       /\ pc[conn[sid[c]][r]] # "idle"
                       /\ sid[conn[sid[c]][r]] = sid[c]
                       /\ role[conn[sid[c]][r]] = r
  BY <1>0, <1>2 DEF TypeOK, BothSides, ConnsAreTheirs
<1>4. /\ P \subseteq Conns
      /\ \A d \in P : pc[d] # "idle" /\ sid[d] = sid[c]
      /\ {role[d] : d \in P} = Roles
  <2>1. P \subseteq Conns /\ \A d \in P : pc[d] # "idle" /\ sid[d] = sid[c] /\ role[d] \in Roles
    BY <1>3
  <2>2. ASSUME NEW r \in Roles PROVE \E d \in P : role[d] = r
    BY <1>3, Zenon
  <2> QED
    BY <2>1, <2>2
<1> HIDE DEF P
<1>5. TypeOK'
  BY <1>0, <1>1, <1>4, Zenon DEF TypeOK, RelayStart, PCs, sessvars, rowvars, pollvars
<1>6. UnbornUntouched' /\ ClosedExactlyOnce'
  BY <1>0, <1>1, Zenon DEF UnbornUntouched, ClosedExactlyOnce
<1>7. HandlersHaveSessions' /\ ConnsAreTheirs'
  BY <1>0, <1>1 DEF HandlersHaveSessions, ConnsAreTheirs, TypeOK
<1>8. RelaysAreComplete'
  BY <1>0, <1>1, <1>4, Zenon DEF RelaysAreComplete, TypeOK, BothSides
<1>9. RelayWithinSession'
  BY <1>0, <1>1, <1>4 DEF RelayWithinSession, TypeOK
<1>10. ActiveHasRelay'
  <2>1. \A d \in Conns : \A t \in table' : Tends(d, t) => Tends(d, t)'
    BY <1>0, <1>1 DEF Tends, TypeOK, P
  <2> QED
    BY <1>0, <1>1, <2>1, TendedStays, Zenon
<1> QED
  BY <1>5, <1>6, <1>7, <1>8, <1>9, <1>10, Zenon DEF SessionInv

\* A handler whose relay ended, or whose request did, sets out to close its session.
LEMMA EndStep ==
  ASSUME SessionInv, NEW c \in Conns, RelayEnd(c) \/ WaitCancelled(c)
  PROVE  SessionInv'
<1>0. /\ TypeOK /\ UnbornUntouched /\ HandlersHaveSessions /\ ConnsAreTheirs
      /\ RelaysAreComplete /\ ClosedExactlyOnce /\ RelayWithinSession /\ ActiveHasRelay
  BY Zenon DEF SessionInv
<1>1. /\ pc[c] \in {"relaying", "waiting"}
      /\ pc' = [pc EXCEPT ![c] = "closing"]
      /\ todo' = [todo EXCEPT ![c] = {sid[c]}]
      /\ UNCHANGED <<sessvars, table, aged, rowvars, pollvars, sid, role, wire, pair, cut>>
  BY Zenon DEF RelayEnd, WaitCancelled
<1>2. sid[c] \in Sessions /\ c \in Procs
  BY <1>0, <1>1, Zenon DEF HandlersHaveSessions, Procs
<1>3. TypeOK'
  BY <1>0, <1>1, <1>2, Zenon DEF TypeOK, PCs, sessvars, rowvars, pollvars
<1>4. UnbornUntouched' /\ ClosedExactlyOnce'
  BY <1>0, <1>1, Zenon DEF UnbornUntouched, ClosedExactlyOnce, sessvars
<1>5. HandlersHaveSessions' /\ ConnsAreTheirs'
  BY <1>0, <1>1, <1>2 DEF HandlersHaveSessions, ConnsAreTheirs, TypeOK, Procs, sessvars
<1>6. RelaysAreComplete' /\ RelayWithinSession'
  BY <1>0, <1>1 DEF RelaysAreComplete, RelayWithinSession, TypeOK, BothSides, sessvars
<1>7. ActiveHasRelay'
  <2>1. \A d \in Conns : \A t \in table' : Tends(d, t) => Tends(d, t)'
    BY <1>0, <1>1, <1>2 DEF Tends, TypeOK, Procs, sessvars
  <2> QED
    BY <1>0, <1>1, <2>1, TendedStays, Zenon DEF sessvars
<1> QED
  BY <1>3, <1>4, <1>5, <1>6, <1>7, Zenon DEF SessionInv

\* Close takes a session off the table; only then is it this goroutine's to finish.
LEMMA UnlinkStep ==
  ASSUME SessionInv, NEW p \in Procs, NEW s \in Sessions, CloseUnlink(p, s)
  PROVE  SessionInv'
<1>0. /\ TypeOK /\ UnbornUntouched /\ HandlersHaveSessions /\ ConnsAreTheirs
      /\ RelaysAreComplete /\ ClosedExactlyOnce /\ RelayWithinSession /\ ActiveHasRelay
  BY Zenon DEF SessionInv
<1>1. /\ cut[p] = None /\ s \in todo[p]
      /\ todo' = [todo EXCEPT ![p] = todo[p] \ {s}]
      /\ table' = table \ {s}
      /\ cut' = [cut EXCEPT ![p] = IF s \in table THEN s ELSE None]
      /\ UNCHANGED <<sessvars, aged, rowvars, pollvars, pc, sid, role, wire, pair>>
  BY Zenon DEF CloseUnlink
<1>2. None \notin Sessions
  BY ProxyAssumption, Zenon
<1>3. TypeOK'
  BY <1>0, <1>1, Zenon DEF TypeOK, sessvars, rowvars, pollvars
<1>4. UnbornUntouched'
  BY <1>0, <1>1, <1>2 DEF UnbornUntouched, TypeOK, sessvars
<1>5. ClosedExactlyOnce'
  BY <1>0, <1>1, <1>2 DEF ClosedExactlyOnce, TypeOK, sessvars
<1>6. HandlersHaveSessions' /\ ConnsAreTheirs'
  <2>1. \A q \in Procs : todo'[q] \subseteq todo[q]
    BY <1>0, <1>1, Zenon DEF TypeOK
  <2>2. HandlersHaveSessions'
    BY <1>0, <1>1, <2>1, Zenon DEF HandlersHaveSessions, Procs, sessvars
  <2>3. ConnsAreTheirs'
    BY <1>0, <1>1, Zenon DEF ConnsAreTheirs, sessvars
  <2> QED
    BY <2>2, <2>3, Zenon
<1>7. RelaysAreComplete' /\ RelayWithinSession'
  BY <1>0, <1>1 DEF RelaysAreComplete, RelayWithinSession, BothSides, sessvars
<1>8. ActiveHasRelay'
  <2>1. \A d \in Conns : \A t \in table' : Tends(d, t) => Tends(d, t)'
    BY <1>0, <1>1 DEF Tends, TypeOK, Procs, sessvars
  <2> QED
    BY <1>0, <1>1, <2>1, TendedStays, Zenon DEF sessvars
<1> QED
  BY <1>3, <1>4, <1>5, <1>6, <1>7, <1>8, Zenon DEF SessionInv

\* Close closes the connections and the done channel of the session it unlinked.
LEMMA FinishStep ==
  ASSUME SessionInv, NEW p \in Procs, CloseFinish(p)
  PROVE  SessionInv'
<1>0. /\ TypeOK /\ UnbornUntouched /\ HandlersHaveSessions /\ ConnsAreTheirs
      /\ RelaysAreComplete /\ ClosedExactlyOnce /\ RelayWithinSession /\ ActiveHasRelay
  BY Zenon DEF SessionInv
<1>1. PICK s \in Sessions : cut[p] = s
  BY <1>0, Zenon DEF CloseFinish, TypeOK
<1>2. /\ stage' = [stage EXCEPT ![s] = "closed"]
      /\ done' = done \cup {s}
      /\ cut' = [cut EXCEPT ![p] = None]
      /\ UNCHANGED <<target, conn, table, aged, rowvars, pollvars, pc, sid, role, pair, todo>>
  BY <1>1, Zenon DEF CloseFinish
<1>3. None \notin Sessions /\ s \notin table /\ stage[s] \notin {"unborn", "resolved"}
  BY <1>0, <1>1, ProxyAssumption, Zenon DEF ClosedExactlyOnce, UnbornUntouched
<1>4. TypeOK'
  <2>1. wire' \in [Conns -> {"none", "open", "gone", "shut"}]
    BY <1>0, Zenon DEF TypeOK, CloseFinish
  <2> QED
    BY <1>0, <1>2, <2>1, Zenon DEF TypeOK, Stages, rowvars, pollvars
<1>5. UnbornUntouched'
  BY <1>0, <1>2, <1>3 DEF UnbornUntouched, TypeOK
<1>6. ClosedExactlyOnce'
  BY <1>0, <1>1, <1>2, <1>3 DEF ClosedExactlyOnce, TypeOK
<1>7. HandlersHaveSessions' /\ ConnsAreTheirs'
  BY <1>0, <1>2 DEF HandlersHaveSessions, ConnsAreTheirs, TypeOK
<1>8. RelaysAreComplete' /\ RelayWithinSession'
  <2>1. RelaysAreComplete'
    BY <1>0, <1>2, Zenon DEF RelaysAreComplete, BothSides
  <2>2. RelayWithinSession'
    BY <1>0, <1>2, Zenon DEF RelayWithinSession
  <2> QED
    BY <2>1, <2>2, Zenon
<1>9. ActiveHasRelay'
  <2>1. \A d \in Conns : \A t \in table' : Tends(d, t) => Tends(d, t)'
    BY <1>2, Zenon DEF Tends
  <2>2. \A t \in table' : stage'[t] # "pending" => t \in table /\ stage[t] # "pending"
    BY <1>0, <1>2, <1>3, Zenon DEF TypeOK
  <2> QED
    BY <1>0, <1>2, <2>1, <2>2, TendedStays, Zenon
<1> QED
  BY <1>4, <1>5, <1>6, <1>7, <1>8, <1>9, Zenon DEF SessionInv

(***************************************************************************)
(* The steps of polls and of the surroundings, and a goroutine that        *)
(* collects the sessions it is going to close.                             *)
(***************************************************************************)
LEMMA OtherSteps ==
  ASSUME SessionInv,
         \/ \E s \in Sessions : CloseByTerminal(s) \/ MinutePasses(s)
         \/ \E c \in Conns : PeerLeaves(c)
         \/ \E w \in Workers : Poll(w) \/ CloseByWorker(w)
         \/ Reap
         \/ \E v \in VMs : RowChanges(v)
  PROVE  SessionInv'
<1>0. TypeOK
  BY Zenon DEF SessionInv
<1>1. ASSUME NEW p, NEW S \in SUBSET Sessions, CloseAll(p, S),
             known' \in [Workers -> SUBSET Sessions]
      PROVE  SessionInv'
  <2>1. p \in Closers /\ todo' = [todo EXCEPT ![p] = S]
    BY <1>1, Zenon DEF CloseAll
  <2>2. TypeOK'
    BY <1>0, <1>1, <2>1, Zenon DEF CloseAll, TypeOK, Procs, sessvars, rowvars
  <2>3. \A c \in Conns : todo'[c] = todo[c]
    BY <1>0, <2>1, ProxyAssumption DEF TypeOK, Procs
  <2> QED
    BY <1>1, <2>2, <2>3, QuietSteps, Zenon DEF CloseAll, sessvars
<1>2. CASE \/ \E s \in Sessions : CloseByTerminal(s)
           \/ \E w \in Workers : CloseByWorker(w)
           \/ Reap
  <2>1. CASE \E s \in Sessions : CloseByTerminal(s)
    BY <2>1, <1>0, <1>1, Zenon DEF CloseByTerminal, TypeOK
  <2>2. CASE \E w \in Workers : CloseByWorker(w)
    <3>1. PICK w \in Workers : CloseByWorker(w)
      BY <2>2, Zenon
    <3>2. known' \in [Workers -> SUBSET Sessions]
      BY <3>1, <1>0, Zenon DEF CloseByWorker, TypeOK
    <3>3. {s \in table : target[s].worker = w} \in SUBSET Sessions
      BY <1>0, Zenon DEF TypeOK
    <3> QED
      BY <3>1, <3>2, <3>3, <1>1, Zenon DEF CloseByWorker
  <2>3. CASE Reap
    <3>1. Stale \in SUBSET Sessions
      BY <1>0, Zenon DEF Stale, TypeOK
    <3> QED
      BY <2>3, <3>1, <1>0, <1>1, Zenon DEF Reap, TypeOK
  <2> QED
    BY <1>2, <2>1, <2>2, <2>3, Zenon
<1>3. CASE \/ \E s \in Sessions : MinutePasses(s)
           \/ \E c \in Conns : PeerLeaves(c)
           \/ \E v \in VMs : RowChanges(v)
  <2>1. TypeOK'
    <3>1. CASE \E s \in Sessions : MinutePasses(s)
      BY <1>0, <3>1, Zenon DEF TypeOK, MinutePasses, sessvars, rowvars, pollvars
    <3>2. CASE \E c \in Conns : PeerLeaves(c)
      <4>1. PICK c \in Conns : wire' = [wire EXCEPT ![c] = "gone"]
        BY <3>2, Zenon DEF PeerLeaves
      <4>2. wire' \in [Conns -> {"none", "open", "gone", "shut"}]
        BY <1>0, <4>1, Zenon DEF TypeOK
      <4>3. UNCHANGED <<sessvars, table, aged, rowvars, pollvars, pc, sid, role, pair, todo, cut>>
        BY <3>2, Zenon DEF PeerLeaves
      <4> QED
        BY <1>0, <4>2, <4>3, Zenon DEF TypeOK, sessvars, rowvars, pollvars
    <3>3. CASE \E v \in VMs : RowChanges(v)
      <4>1. home' \in [VMs -> Workers \cup {None}] /\ up' \in SUBSET VMs
        BY <1>0, <3>3, Zenon DEF TypeOK, RowChanges
      <4>2. UNCHANGED <<sessvars, table, aged, pollvars, pc, sid, role, wire, pair, todo, cut>>
        BY <3>3, Zenon DEF RowChanges
      <4> QED
        BY <1>0, <4>1, <4>2, Zenon DEF TypeOK, sessvars, pollvars
    <3> QED
      BY <1>3, <3>1, <3>2, <3>3, Zenon
  <2> QED
    BY <1>3, <2>1, QuietSteps, Zenon DEF MinutePasses, PeerLeaves, RowChanges, sessvars
<1>4. CASE \E w \in Workers : Poll(w)
  <2>1. PICK w \in Workers : Poll(w)
    BY <1>4, Zenon
  <2>2. CASE GetPending(w)
    <3>1. TypeOK'
      BY <1>0, <2>2, Zenon DEF TypeOK, GetPending, sessvars, rowvars
    <3> QED
      BY <3>1, <2>2, QuietSteps, Zenon DEF GetPending, sessvars
  <2>3. CASE PendingAnswer(w)
    <3>1. TypeOK'
      <4>1. UNCHANGED <<sessvars, table, aged, rowvars, pc, sid, role, wire, pair, todo, cut>>
        BY <2>3, Zenon DEF PendingAnswer
      <4>2. poll' \in [Workers -> [left : SUBSET Sessions, answer : SUBSET Sessions]]
        BY <1>0, <2>3, Zenon DEF TypeOK, PendingAnswer, NoPoll
      <4>3. poll[w].answer \in SUBSET Sessions
        BY <1>0, Zenon DEF TypeOK
      <4>4. known' \in [Workers -> SUBSET Sessions]
        <5>1. known' = [known EXCEPT ![w] = known[w] \cup poll[w].answer] \/ known' = known
          BY <2>3, Zenon DEF PendingAnswer
        <5>2. known \in [Workers -> SUBSET Sessions]
          BY <1>0, Zenon DEF TypeOK
        <5> QED
          BY <4>3, <5>1, <5>2, Zenon
      <4> QED
        BY <1>0, <4>1, <4>2, <4>4, Zenon DEF TypeOK, sessvars, rowvars
    <3> QED
      BY <3>1, <2>3, QuietSteps, Zenon DEF PendingAnswer, sessvars
  <2>4. ASSUME NEW s \in Sessions, PendingSession(w, s) PROVE SessionInv'
    <3>1. UNCHANGED <<sessvars, table, aged, rowvars, known, pc, sid, role, wire, pair, cut>>
      BY <2>4, Zenon DEF PendingSession
    <3>2. todo' = todo \/ todo' = [todo EXCEPT ![w] = {s}]
      BY <2>4, Zenon DEF PendingSession
    <3>3. /\ todo' \in [Procs -> SUBSET Sessions]
          /\ \A c \in Conns : todo'[c] = todo[c]
      <4>1. todo \in [Procs -> SUBSET Sessions] /\ Conns \subseteq Procs
        BY <1>0, Zenon DEF TypeOK, Procs
      <4>2. w \notin Conns
        BY ProxyAssumption, Zenon
      <4> QED
        BY <4>1, <4>2, <3>2, Zenon
    <3>4. poll[w].left \in SUBSET Sessions /\ poll[w].answer \in SUBSET Sessions
      BY <1>0, Zenon DEF TypeOK
    <3>5. \/ poll' = [poll EXCEPT ![w] = [left |-> poll[w].left \ {s}, answer |-> poll[w].answer \cup {s}]]
          \/ poll' = [poll EXCEPT ![w] = [left |-> poll[w].left \ {s}, answer |-> poll[w].answer]]
      BY <2>4, Zenon DEF PendingSession
    <3>6. poll' \in [Workers -> [left : SUBSET Sessions, answer : SUBSET Sessions]]
      <4>1. poll \in [Workers -> [left : SUBSET Sessions, answer : SUBSET Sessions]]
        BY <1>0, Zenon DEF TypeOK
      <4> QED
        BY <4>1, <3>4, <3>5
    <3>7. TypeOK'
      BY <1>0, <3>1, <3>3, <3>6, Zenon DEF TypeOK, sessvars, rowvars
    <3> QED
      BY <3>1, <3>3, <3>7, QuietSteps, Zenon DEF sessvars
  <2> QED
    BY <2>1, <2>2, <2>3, <2>4, Zenon DEF Poll
<1> QED
  BY <1>2, <1>3, <1>4, Zenon

\* Every step of the server and of its surroundings keeps the invariant.
LEMMA NextKeepsSessionInv ==
  ASSUME SessionInv, [Next]_vars
  PROVE  SessionInv'
<1>0. TypeOK
  BY Zenon DEF SessionInv
<1>1. CASE UNCHANGED vars
  <2>1. TypeOK'
    BY <1>0, <1>1, Zenon DEF vars, sessvars, rowvars, pollvars, TypeOK
  <2> QED
    BY <1>1, <2>1, QuietSteps, Zenon DEF vars, sessvars
<1>2. ASSUME NEW c \in Conns, Handler(c) PROVE SessionInv'
  <2>1. CASE Accept(c)
    <3>1. TypeOK'
      BY <1>0, <2>1, Zenon DEF Accept, TypeOK, PCs, sessvars, rowvars, pollvars
    <3> QED
      BY <2>1, <3>1, HandlerMoves, Zenon DEF Accept, PCs, sessvars
  <2>2. CASE SetConnLookup(c)
    <3>1. TypeOK'
      BY <1>0, <2>2, Zenon DEF SetConnLookup, TypeOK, PCs, sessvars, rowvars, pollvars
    <3> QED
      BY <2>2, <3>1, HandlerMoves, Zenon DEF SetConnLookup, PCs, sessvars
  <2>3. CASE WaitDone(c)
    <3>1. TypeOK'
      BY <1>0, <2>3, Zenon DEF WaitDone, TypeOK, PCs, sessvars, rowvars, pollvars
    <3> QED
      BY <2>3, <3>1, HandlerMoves, Zenon DEF WaitDone, PCs, sessvars
  <2> QED
    BY <1>2, <2>1, <2>2, <2>3, AttachStep, RelayStartStep, EndStep, Zenon DEF Handler
<1>3. ASSUME NEW p \in Procs, Close(p) PROVE SessionInv'
  BY <1>3, UnlinkStep, FinishStep, Zenon DEF Close
<1>4. CASE Next
  BY <1>4, <1>2, <1>3, ResolveStep, CreateStep, DialStep, EndStep, OtherSteps, Zenon DEF Next
<1> QED
  BY <1>1, <1>4, Zenon

\* The inductive invariant holds in every reachable state.
THEOREM SessionInvariant ==
  Spec => []SessionInv
<1>1. SessionInv /\ [Next]_vars => SessionInv'
  BY NextKeepsSessionInv, Zenon
<1> QED
  BY InitSessions, <1>1, PTL DEF Spec

(***************************************************************************)
(* Close (session.go): whichever goroutines race to close a session, one   *)
(* of them closes its connections and its done channel, and only one.      *)
(***************************************************************************)
THEOREM SessionsCloseOnce ==
  Spec => []ClosedExactlyOnce
<1>1. SessionInv => ClosedExactlyOnce
  BY Zenon DEF SessionInv
<1> QED
  BY SessionInvariant, <1>1, PTL

(***************************************************************************)
(* Relay (relay.go) copies between a client and a worker of one session,   *)
(* however many connections replace each other.                            *)
(***************************************************************************)
THEOREM RelaysStayWithinSessions ==
  Spec => []RelayWithinSession
<1>1. SessionInv => RelayWithinSession
  BY Zenon DEF SessionInv
<1> QED
  BY SessionInvariant, <1>1, PTL

(***************************************************************************)
(* handleProxyWebSocket: a session that the reaper no longer looks after   *)
(* is never left without the handler that notices when a side is lost.     *)
(***************************************************************************)
THEOREM ActiveSessionsHaveRelays ==
  Spec => []ActiveHasRelay
<1>1. SessionInv => ActiveHasRelay
  BY Zenon DEF SessionInv
<1> QED
  BY SessionInvariant, <1>1, PTL
=============================================================================
