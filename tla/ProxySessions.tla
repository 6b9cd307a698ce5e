----------------------------- MODULE ProxySessions -----------------------------
(***************************************************************************)
(* The server's proxy sessions (server/internal/proxy) and the handlers    *)
(* that use them (server/internal/api/rest/proxy_sessions.go).             *)
(*                                                                         *)
(* A session pairs a client websocket with a worker websocket.  Every      *)
(* websocket is served by a goroutine of its own; the reaper, a worker's   *)
(* poll, a worker's registration and the end of a terminal close sessions  *)
(* from other goroutines.  The manager's lock and the session's lock are   *)
(* never held together, so what runs under one of them is one step here,   *)
(* and SetConn (look up, then attach) and Close (unlink, then finish) are  *)
(* two steps each.                                                         *)
(*                                                                         *)
(* Ports, tokens and the relayed frames are left out.  "ready" is left     *)
(* out too: only a handler that closed it itself waits for it.  GetPending *)
(* and reap read State without the session's lock; a torn read of the Go   *)
(* string compares equal to no state, so they see the value before or      *)
(* after a racing write.                                                   *)
(***************************************************************************)
EXTENDS Integers, FiniteSets

CONSTANTS
  Sessions,   \* session IDs, each used once (uuid.NewString)
  Conns,      \* websocket connections, and the goroutines serving them
  Workers,
  VMs,        \* workstation IDs
  Closers,    \* the goroutines besides handlers and polls that close sessions
  None        \* nil

Roles == {"client", "worker"}

Procs == Closers \cup Workers \cup Conns

Stages == {"unborn", "resolved", "pending", "active", "closed"}

Targets == [worker : Workers \cup {None}, vm : VMs \cup {None}]

\* No poll, or one with nothing to look up and an empty answer.
NoPoll == [left |-> {}, answer |-> {}]

PCs == {"idle", "accepting", "looking", "attaching", "waiting",
        "starting", "relaying", "closing", "over"}

ASSUME ProxyAssumption ==
  /\ Closers \subseteq {"reaper", "register", "terminal"}
  /\ None \notin Sessions \cup Conns \cup Workers \cup VMs
  /\ Closers \cap Workers = {}
  /\ Closers \cap Conns = {}
  /\ Workers \cap Conns = {}

VARIABLES
  stage,   \* ProxySession.State, and what comes before it
  target,  \* ProxySession.WorkerID and VMID (None for a host)
  conn,    \* ProxySession.clientConn and workerConn
  done,    \* the sessions whose done channel is closed
  table,   \* the keys of SessionManager.sessions
  aged,    \* the sessions older than pendingSessionMaxAge
  home,    \* the worker of each workstation row, None without a row
  up,      \* the workstations whose row says "running"
  known,   \* the sessions (and tokens) each worker got from its polls
  poll,    \* the poll each worker has in progress
  pc,      \* where the goroutine serving each connection is
  sid,     \* the session a connection asked for
  role,    \* and its role
  wire,    \* the connection itself: "none", "open", "gone" (peer left), "shut"
  pair,    \* the two connections Relay copies between
  todo,    \* the sessions a goroutine has still to close
  cut      \* the session a goroutine took off the table and is closing

sessvars == <<stage, target, conn, done>>
rowvars == <<home, up>>
pollvars == <<known, poll>>
vars == <<sessvars, table, aged, rowvars, pollvars, pc, sid, role, wire, pair, todo, cut>>

\* The type of the session table, of the handlers and of the connections.
TypeOK ==
  /\ stage \in [Sessions -> Stages]
  /\ target \in [Sessions -> Targets]
  /\ conn \in [Sessions -> [Roles -> Conns \cup {None}]]
  /\ done \in SUBSET Sessions
  /\ table \in SUBSET Sessions
  /\ aged \in SUBSET Sessions
  /\ home \in [VMs -> Workers \cup {None}]
  /\ up \in SUBSET VMs
  /\ known \in [Workers -> SUBSET Sessions]
  /\ poll \in [Workers -> [left : SUBSET Sessions, answer : SUBSET Sessions]]
  /\ pc \in [Conns -> PCs]
  /\ sid \in [Conns -> Sessions \cup {None}]
  /\ role \in [Conns -> Roles]
  /\ wire \in [Conns -> {"none", "open", "gone", "shut"}]
  /\ pair \in [Conns -> SUBSET Conns]
  /\ todo \in [Procs -> SUBSET Sessions]
  /\ cut \in [Procs -> Sessions \cup {None}]

Init ==
  /\ stage = [s \in Sessions |-> "unborn"]
  /\ target = [s \in Sessions |-> [worker |-> None, vm |-> None]]
  /\ conn = [s \in Sessions |-> [r \in Roles |-> None]]
  /\ done = {}
  /\ table = {}
  /\ aged = {}
  /\ home \in [VMs -> Workers]
  /\ up = {}
  /\ known = [w \in Workers |-> {}]
  /\ poll = [w \in Workers |-> NoPoll]
  /\ pc = [c \in Conns |-> "idle"]
  /\ sid = [c \in Conns |-> None]
  /\ role = [c \in Conns |-> "client"]
  /\ wire = [c \in Conns |-> "none"]
  /\ pair = [c \in Conns |-> {}]
  /\ todo = [p \in Procs |-> {}]
  /\ cut = [p \in Procs |-> None]

-----------------------------------------------------------------------------
(***************************************************************************)
(* handleCreateProxySession and the browser terminal: the target is        *)
(* resolved from the database, and the session enters the table later.     *)
(* Only an administrator may ask for a host, and gets it without a look    *)
(* at the workers table.  A VM of the legacy vms table counts as a row.    *)
(***************************************************************************)
ResolveProxyTarget(s, w, v) ==
  /\ stage[s] = "unborn"
  /\ v # None => v \in up /\ home[v] = w
  /\ stage' = [stage EXCEPT ![s] = "resolved"]
  /\ target' = [target EXCEPT ![s] = [worker |-> w, vm |-> v]]
  /\ UNCHANGED <<conn, done, table, aged, rowvars, pollvars, pc, sid, role, wire, pair, todo, cut>>

Create(s) ==
  /\ stage[s] = "resolved"
  /\ stage' = [stage EXCEPT ![s] = "pending"]
  /\ table' = table \cup {s}
  /\ UNCHANGED <<target, conn, done, aged, rowvars, pollvars, pc, sid, role, wire, pair, todo, cut>>

(***************************************************************************)
(* handleProxyWebSocket up to SetConn.  A worker knows a session's token   *)
(* from a poll only.  SetConn looks the session up a second time, because  *)
(* accepting the websocket takes a while.                                  *)
(***************************************************************************)
Dial(c, s, r) ==
  /\ pc[c] = "idle"
  /\ s \in table
  /\ r = "worker" => s \in known[target[s].worker]
  /\ pc' = [pc EXCEPT ![c] = "accepting"]
  /\ sid' = [sid EXCEPT ![c] = s]
  /\ role' = [role EXCEPT ![c] = r]
  /\ UNCHANGED <<sessvars, table, aged, rowvars, pollvars, wire, pair, todo, cut>>

Accept(c) ==
  /\ pc[c] = "accepting"
  /\ \/ /\ pc' = [pc EXCEPT ![c] = "looking"]
        /\ wire' = [wire EXCEPT ![c] = "open"]
     \/ /\ pc' = [pc EXCEPT ![c] = "over"]
        /\ UNCHANGED wire
  /\ UNCHANGED <<sessvars, table, aged, rowvars, pollvars, sid, role, pair, todo, cut>>

SetConnLookup(c) ==
  /\ pc[c] = "looking"
  /\ pc' = [pc EXCEPT ![c] = IF sid[c] \in table THEN "attaching" ELSE "waiting"]
  /\ UNCHANGED <<sessvars, table, aged, rowvars, pollvars, sid, role, wire, pair, todo, cut>>

\* Mutant: the connection goes to whichever side is still free.
MutFirstFreeSide(c) ==
  [conn[sid[c]] EXCEPT ![IF conn[sid[c]]["client"] = None THEN "client" ELSE "worker"] = c]

\* The session's connections once c is stored for its role.
Attached(c) == [conn[sid[c]] EXCEPT ![role[c]] = c]

\* Relay checks the two connections again and finds the same.
BothSides(x) == \A r \in Roles : x[r] # None

\* Mutant: only the worker's handler ever runs the relay.
MutOnlyWorkerRelays(c) ==
  /\ pc[c] = "attaching"
  /\ conn' = [conn EXCEPT ![sid[c]] = Attached(c)]
  /\ stage' = [stage EXCEPT ![sid[c]] = IF BothSides(Attached(c)) THEN "active" ELSE @]
  /\ pc' = [pc EXCEPT ![c] = IF BothSides(Attached(c)) /\ role[c] = "worker"
                               THEN "starting" ELSE "waiting"]
  /\ UNCHANGED <<target, done, table, aged, rowvars, pollvars, sid, role, wire, pair, todo, cut>>

SetConnAttach(c) ==
  /\ pc[c] = "attaching"
  /\ conn' = [conn EXCEPT ![sid[c]] = Attached(c)]
  /\ IF BothSides(Attached(c))
       THEN /\ stage' = [stage EXCEPT ![sid[c]] = "active"]
            /\ pc' = [pc EXCEPT ![c] = "starting"]
       ELSE /\ pc' = [pc EXCEPT ![c] = "waiting"]
            /\ UNCHANGED stage
  /\ UNCHANGED <<target, done, table, aged, rowvars, pollvars, sid, role, wire, pair, todo, cut>>

(***************************************************************************)
(* The handler that completed the session runs Relay, which reads the two  *)
(* connections under the session's lock and ends when either of them       *)
(* fails; then the handler closes the session.  The other one waits for    *)
(* the session to end.                                                     *)
(***************************************************************************)
RelayStart(c) ==
  /\ pc[c] = "starting"
  /\ pc' = [pc EXCEPT ![c] = "relaying"]
  /\ pair' = [pair EXCEPT ![c] = {conn[sid[c]][r] : r \in Roles}]
  /\ UNCHANGED <<sessvars, table, aged, rowvars, pollvars, sid, role, wire, todo, cut>>

RelayEnd(c) ==
  /\ pc[c] = "relaying"
  /\ \E d \in pair[c] : wire[d] # "open"
  /\ pc' = [pc EXCEPT ![c] = "closing"]
  /\ todo' = [todo EXCEPT ![c] = {sid[c]}]
  /\ UNCHANGED <<sessvars, table, aged, rowvars, pollvars, sid, role, wire, pair, cut>>

WaitDone(c) ==
  /\ pc[c] = "waiting"
  /\ sid[c] \in done
  /\ pc' = [pc EXCEPT ![c] = "over"]
  /\ UNCHANGED <<sessvars, table, aged, rowvars, pollvars, sid, role, wire, pair, todo, cut>>

(***************************************************************************)
(* The request's context may end when the peer leaves.  net/http stops     *)
(* watching a hijacked connection, so no liveness property relies on it.   *)
(***************************************************************************)
WaitCancelled(c) ==
  /\ pc[c] = "waiting"
  /\ wire[c] = "gone"
  /\ pc' = [pc EXCEPT ![c] = "closing"]
  /\ todo' = [todo EXCEPT ![c] = {sid[c]}]
  /\ UNCHANGED <<sessvars, table, aged, rowvars, pollvars, sid, role, wire, pair, cut>>

-----------------------------------------------------------------------------
\* Mutant: Close leaves the session in the map.
MutCloseKeepsEntry(p, s) ==
  /\ cut[p] = None
  /\ s \in todo[p]
  /\ todo' = [todo EXCEPT ![p] = @ \ {s}]
  /\ cut' = [cut EXCEPT ![p] = IF s \in table THEN s ELSE None]
  /\ UNCHANGED <<sessvars, table, aged, rowvars, pollvars, pc, sid, role, wire, pair>>

(***************************************************************************)
(* SessionManager.Close by goroutine p: take the session off the table     *)
(* under the manager's lock; if it was there, close both connections and   *)
(* the done channel under the session's lock.                              *)
(***************************************************************************)
CloseUnlink(p, s) ==
  /\ cut[p] = None
  /\ s \in todo[p]
  /\ todo' = [todo EXCEPT ![p] = @ \ {s}]
  /\ table' = table \ {s}
  /\ cut' = [cut EXCEPT ![p] = IF s \in table THEN s ELSE None]
  /\ UNCHANGED <<sessvars, aged, rowvars, pollvars, pc, sid, role, wire, pair>>

CloseFinish(p) ==
  /\ cut[p] # None
  /\ stage' = [stage EXCEPT ![cut[p]] = "closed"]
  /\ done' = done \cup {cut[p]}
  /\ wire' = [c \in Conns |->
                IF \E r \in Roles : conn[cut[p]][r] = c THEN "shut" ELSE wire[c]]
  /\ cut' = [cut EXCEPT ![p] = None]
  /\ UNCHANGED <<target, conn, table, aged, rowvars, pollvars, pc, sid, role, pair, todo>>

\* A goroutine that is not inside a loop over Close.
Free(p) == todo[p] = {} /\ cut[p] = None

\* Goroutine p collected the sessions S and starts closing them one by one.
CloseAll(p, S) ==
  /\ p \in Closers
  /\ Free(p)
  /\ S # {}
  /\ todo' = [todo EXCEPT ![p] = S]
  /\ UNCHANGED <<sessvars, table, aged, rowvars, poll, pc, sid, role, wire, pair, cut>>

\* Mutant: a session that any side ever joined is left to its handlers.
MutReapOnlyUnused ==
  {s \in table \cap aged : \A r \in Roles : conn[s][r] = None}

\* The sessions reap finds stale when its ticker fires.
Stale == {s \in table \cap aged : stage[s] = "pending"}

Reap ==
  /\ CloseAll("reaper", Stale)
  /\ UNCHANGED known

\* handleWorkerRegister: a worker process that starts over knows no session.
CloseByWorker(w) ==
  /\ CloseAll("register", {s \in table : target[s].worker = w})
  /\ known' = [known EXCEPT ![w] = {}]

\* A terminal that ends, or never came up, closes its session.
CloseByTerminal(s) ==
  /\ CloseAll("terminal", {s})
  /\ s \in table
  /\ UNCHANGED known

-----------------------------------------------------------------------------
(***************************************************************************)
(* handlePendingProxySessions for worker w: list the pending sessions,     *)
(* then look up each one's workstation and drop the session when the       *)
(* workstation is not w's, or cannot be looked up.                         *)
(***************************************************************************)
GetPending(w) ==
  /\ poll[w] = NoPoll
  /\ Free(w)
  /\ poll' = [poll EXCEPT ![w] =
                [left |-> {s \in table : target[s].worker = w /\ stage[s] = "pending"},
                 answer |-> {}]]
  /\ UNCHANGED <<sessvars, table, aged, rowvars, known, pc, sid, role, wire, pair, todo, cut>>

BelongsToWorker(s, w) == target[s].vm # None => home[target[s].vm] = w

PendingSession(w, s) ==
  /\ Free(w)
  /\ s \in poll[w].left
  /\ \/ /\ BelongsToWorker(s, w)
        /\ poll' = [poll EXCEPT ![w] = [left |-> @.left \ {s}, answer |-> @.answer \cup {s}]]
        /\ UNCHANGED todo
     \/ /\ target[s].vm # None
        /\ poll' = [poll EXCEPT ![w] = [left |-> @.left \ {s}, answer |-> @.answer]]
        /\ todo' = [todo EXCEPT ![w] = {s}]
  /\ UNCHANGED <<sessvars, table, aged, rowvars, known, pc, sid, role, wire, pair, cut>>

\* The answer reaches the worker, or is lost.
PendingAnswer(w) ==
  /\ poll[w].answer # {}
  /\ poll[w].left = {}
  /\ Free(w)
  /\ poll' = [poll EXCEPT ![w] = NoPoll]
  /\ \/ known' = [known EXCEPT ![w] = @ \cup poll[w].answer]
     \/ UNCHANGED known
  /\ UNCHANGED <<sessvars, table, aged, rowvars, pc, sid, role, wire, pair, todo, cut>>

-----------------------------------------------------------------------------
(***************************************************************************)
(* The surroundings: workstations start, stop and are released, a minute   *)
(* passes, the peer of a connection leaves or sends a frame above the      *)
(* read limit.                                                             *)
(***************************************************************************)
RowChanges(v) ==
  /\ home[v] # None
  /\ \/ /\ up' = (up \cup {v}) \ (up \cap {v})
        /\ UNCHANGED home
     \/ /\ up' = up \ {v}
        /\ home' = [home EXCEPT ![v] = None]
  /\ UNCHANGED <<sessvars, table, aged, pollvars, pc, sid, role, wire, pair, todo, cut>>

MinutePasses(s) ==
  /\ s \in table \ aged
  /\ aged' = aged \cup {s}
  /\ UNCHANGED <<sessvars, table, rowvars, pollvars, pc, sid, role, wire, pair, todo, cut>>

PeerLeaves(c) ==
  /\ wire[c] = "open"
  /\ wire' = [wire EXCEPT ![c] = "gone"]
  /\ UNCHANGED <<sessvars, table, aged, rowvars, pollvars, pc, sid, role, pair, todo, cut>>

Handler(c) ==
  Accept(c) \/ SetConnLookup(c) \/ SetConnAttach(c) \/ RelayStart(c) \/ RelayEnd(c) \/ WaitDone(c)

Close(p) == CloseFinish(p) \/ \E s \in Sessions : CloseUnlink(p, s)

Poll(w) ==
  GetPending(w) \/ PendingAnswer(w) \/ \E s \in Sessions : PendingSession(w, s)

Next ==
  \/ \E s \in Sessions, w \in Workers, v \in VMs \cup {None} : ResolveProxyTarget(s, w, v)
  \/ \E s \in Sessions : Create(s) \/ CloseByTerminal(s) \/ MinutePasses(s)
  \/ \E c \in Conns, s \in Sessions, r \in Roles : Dial(c, s, r)
  \/ \E c \in Conns : Handler(c) \/ WaitCancelled(c) \/ PeerLeaves(c)
  \/ \E p \in Procs : Close(p)
  \/ \E w \in Workers : Poll(w) \/ CloseByWorker(w)
  \/ Reap
  \/ \E v \in VMs : RowChanges(v)

Spec == Init /\ [][Next]_vars

(***************************************************************************)
(* Goroutines run, the reaper's ticker fires, and time passes.             *)
(***************************************************************************)
Fairness ==
  /\ \A c \in Conns : WF_vars(Handler(c))
  /\ \A p \in Procs : WF_vars(Close(p))
  /\ WF_vars(Reap)
  /\ \A s \in Sessions : WF_vars(MinutePasses(s))

FairSpec == Spec /\ Fairness

-----------------------------------------------------------------------------
(***************************************************************************)
(* A session that was created is on the table, or exactly one goroutine    *)
(* is inside Close for it, or it is done: whoever takes it off the table   *)
(* closes it, and nobody else does (Close, session.go).                    *)
(***************************************************************************)
ClosedExactlyOnce ==
  \A s \in Sessions :
    /\ s \in done \/ s \in table => \A p \in Procs : cut[p] # s
    /\ s \in done => s \notin table
    /\ \A p, q \in Procs : cut[p] = s /\ cut[q] = s => p = q
    /\ stage[s] \notin {"unborn", "resolved"} =>
         s \in table \/ s \in done \/ \E p \in Procs : cut[p] = s

(***************************************************************************)
(* Relay never mixes sessions or directions: the two connections it copies *)
(* between are one client and one worker of the session its handler serves *)
(* (SetConn and Relay, with connections that replace earlier ones).        *)
(***************************************************************************)
RelayWithinSession ==
  \A c \in Conns : pc[c] = "relaying" =>
    /\ \A d \in pair[c] : sid[d] = sid[c]
    /\ {role[d] : d \in pair[c]} = Roles

\* The handler of c relays between the connections s has now, or is about to,
\* or is about to close s.
Tends(c, s) ==
  /\ sid[c] = s
  /\ \/ pc[c] = "starting"
     \/ pc[c] = "relaying" /\ pair[c] = {conn[s][r] : r \in Roles}
     \/ s \in todo[c]

(***************************************************************************)
(* A session on the table that the reaper does not look after, because it  *)
(* is no longer pending, has both its sides and a handler that copies      *)
(* between them or is about to close it, so the loss of a side is noticed: *)
(* no interleaving of SetConn calls and replaced connections leaves the    *)
(* handlers waiting for each other, or relaying connections that the       *)
(* session no longer has (handleProxyWebSocket).                           *)
(***************************************************************************)
ActiveHasRelay ==
  \A s \in table : stage[s] # "pending" =>
    BothSides(conn[s]) /\ \E c \in Conns : Tends(c, s)

\* Sessions that were not created yet are nowhere.
UnbornUntouched ==
  \A s \in Sessions : stage[s] \in {"unborn", "resolved"} =>
    /\ s \notin table
    /\ s \notin done
    /\ \A p \in Procs : cut[p] # s
    /\ \A r \in Roles : conn[s][r] = None

\* A handler that found its session holds one that was created.
HandlersHaveSessions ==
  \A c \in Conns :
    /\ pc[c] # "idle" => sid[c] \in Sessions /\ stage[sid[c]] \notin {"unborn", "resolved"}
    /\ pc[c] = "idle" => todo[c] = {}

\* A session holds connections that asked for it in that role.
ConnsAreTheirs ==
  \A s \in Sessions, r \in Roles : conn[s][r] # None =>
    LET c == conn[s][r] IN pc[c] # "idle" /\ sid[c] = s /\ role[c] = r

\* A relay starts with both connections, and copies between dialled ones.
RelaysAreComplete ==
  \A c \in Conns :
    /\ pc[c] = "starting" => BothSides(conn[sid[c]])
    /\ \A d \in pair[c] : pc[d] # "idle"

(***************************************************************************)
(* The inductive invariant of the session table: who may close a session,  *)
(* which connections it holds and who relays between them.                 *)
(***************************************************************************)
SessionInv ==
  /\ TypeOK
  /\ UnbornUntouched
  /\ HandlersHaveSessions
  /\ ConnsAreTheirs
  /\ RelaysAreComplete
  /\ ClosedExactlyOnce
  /\ RelayWithinSession
  /\ ActiveHasRelay

\* A session on the table that connects nobody: a side is missing or lost.
Broken(s) ==
  s \in table /\ \E r \in Roles : conn[s][r] = None \/ wire[conn[s][r]] # "open"

(***************************************************************************)
(* A session that connects nobody does not stay: the reaper, a relay or a  *)
(* waiting handler closes it, unless a new connection repairs it.          *)
(***************************************************************************)
BrokenSessionsGo == \A s \in Sessions : Broken(s) ~> ~Broken(s)

=============================================================================
