----------------------------- MODULE TerminalPages -----------------------------
(***************************************************************************)
(* The browser's terminal pages (frontend RemoteTerminal.tsx), the handler *)
(* that serves their connections (handleBrowserTerminalWebSocket), the     *)
(* terminal sessions it finds or creates and the proxy session under each. *)
(*                                                                         *)
(* A page keeps the ID of its session and reconnects with it for ever; the *)
(* server keeps a session a while after its page is gone.  Connections     *)
(* break, and the two ends learn of it at different moments; the server    *)
(* restarts and forgets every session; a page is reloaded, closed, or      *)
(* duplicated together with the ID it keeps.                               *)
(*                                                                         *)
(* All pages are one member's, on one workstation.  Attach and close are   *)
(* one and two steps here; TerminalSession has their interleavings, and    *)
(* ProxySessions those of the proxy sessions.  What is typed and printed,  *)
(* sizes and the growing delay between attempts are left out.              *)
(***************************************************************************)
EXTENDS Naturals

CONSTANTS
  Pages,    \* browser tabs
  Conns,    \* websockets that are not over at both ends (a bound)
  Ids,      \* IDs of sessions that exist or that somebody remembers (a bound)
  None,
  NoConn    \* an unused websocket

Rejected == 1008   \* StatusPolicyViolation, SESSION_REJECTED_CLOSE_CODE

Other == 1011      \* any other close code, and a connection that broke

VARIABLES
  shown,     \* the mounted pages (not disposed)
  stored,    \* the session ID of a page: sessionIDRef and sessionStorage
  timer,     \* the pages whose reconnectTimer is set
  sock,      \* socketRef
  conn,      \* the websockets, with both their ends
  shell,     \* the terminal sessions; "none" is not in the manager's map
  attached,  \* session.attachment
  idle,      \* the terminal sessions whose idleTimer is set
  proxied,   \* the terminal sessions whose proxy session is open
  stranded   \* history: the sessions a failed Attach left to nobody

pagevars == <<shown, stored, timer, sock>>
sessvars == <<shell, attached, idle, proxied, stranded>>
vars == <<pagevars, conn, sessvars>>

Conn ==
  [named  : BOOLEAN,                         \* attemptedSessionID is not empty
   client : {"open", "closed"},              \* the page's end
   server : {"none", "opening", "attach", "reading", "over"},  \* the handler
   sid    : Ids \cup {None},                 \* the session asked for, then worked on
   ready  : Ids \cup {None},                 \* a ready message on its way
   code   : {None, Rejected, Other}]         \* how the server closed it

ASSUME PagesAssumption == NoConn \notin Conn /\ None \notin Ids \cup Conns \cup {Rejected, Other}

\* The type of pages, connections and sessions.
TypeOK ==
  /\ shown \in SUBSET Pages
  /\ stored \in [Pages -> Ids \cup {None}]
  /\ timer \in SUBSET Pages
  /\ sock \in [Pages -> Conns \cup {None}]
  /\ conn \in [Conns -> Conn \cup {NoConn}]
  /\ shell \in [Ids -> {"none", "live", "closing"}]
  /\ attached \in [Ids -> Conns \cup {None}]
  /\ idle \in SUBSET Ids
  /\ proxied \in SUBSET Ids
  /\ stranded \in SUBSET Ids

Init ==
  /\ shown = {}
  /\ stored = [p \in Pages |-> None]
  /\ timer = {}
  /\ sock = [p \in Pages |-> None]
  /\ conn = [c \in Conns |-> NoConn]
  /\ shell = [t \in Ids |-> "none"]
  /\ attached = [t \in Ids |-> None]
  /\ idle = {}
  /\ proxied = {}
  /\ stranded = {}

\* A websocket that is over at both ends is forgotten.
Tidy(x) == IF x.client = "closed" /\ x.server = "over" THEN NoConn ELSE x

\* The page's end is closed: nothing reaches the page any more.
Left(x) == Tidy([x EXCEPT !.named = FALSE, !.client = "closed", !.ready = None, !.code = None])

\* The server closes the websocket; the first code counts (closeOnce).
Closed(x, k) == IF x.client = "open" /\ x.code = None THEN [x EXCEPT !.code = k] ELSE x

\* The handler returns; its CloseNow closes whatever is still open.
Returned(x, k) == Tidy([Closed(x, k) EXCEPT !.server = "over", !.sid = None])

-----------------------------------------------------------------------------
(* The page *)

\* connect: a websocket that asks for the session with this ID.
Connect(p, id) ==
  \E c \in Conns :
    /\ conn[c] = NoConn
    /\ conn' = [conn EXCEPT ![c] = [named |-> id # None, client |-> "open", server |-> "none",
                                    sid |-> id, ready |-> None, code |-> None]]
    /\ sock' = [sock EXCEPT ![p] = c]

\* A new tab, a reload, or a duplicate of another tab with its storage.
Mount(p) ==
  /\ p \notin shown
  /\ shown' = shown \cup {p}
  /\ \E id \in {None} \cup {stored[q] : q \in Pages} :
       /\ stored' = [stored EXCEPT ![p] = id]
       /\ Connect(p, id)
  /\ UNCHANGED <<timer, sessvars>>

Unmount(p) ==
  /\ p \in shown
  /\ shown' = shown \ {p}
  /\ timer' = timer \ {p}
  /\ sock' = [sock EXCEPT ![p] = None]
  /\ conn' = IF sock[p] = None THEN conn ELSE [conn EXCEPT ![sock[p]] = Left(@)]
  /\ UNCHANGED <<stored, sessvars>>

Reconnect(p) ==
  /\ p \in timer
  /\ timer' = timer \ {p}
  /\ Connect(p, stored[p])
  /\ UNCHANGED <<shown, stored, sessvars>>

\* handleMessage for "ready".
HandleReady(p) ==
  /\ sock[p] # None /\ conn[sock[p]].ready # None
  /\ stored' = [stored EXCEPT ![p] = conn[sock[p]].ready]
  /\ conn' = [conn EXCEPT ![sock[p]].ready = None]
  /\ UNCHANGED <<shown, timer, sock, sessvars>>

\* socket.onclose with code k.
OnClose(p, k) ==
  /\ stored' = IF conn[sock[p]].named /\ k = Rejected
                 THEN [stored EXCEPT ![p] = None] ELSE stored
  /\ timer' = timer \cup {p}
  /\ sock' = [sock EXCEPT ![p] = None]
  /\ conn' = [conn EXCEPT ![sock[p]] = Left(@)]
  /\ UNCHANGED <<shown, sessvars>>

\* The server's close arrives; a ready message still queued then is not sent.
SeesClose(p) ==
  /\ sock[p] # None /\ conn[sock[p]].code # None
  /\ OnClose(p, conn[sock[p]].code)

\* The connection breaks, or never came up; the server may not know yet.
LosesConn(p) ==
  /\ sock[p] # None
  /\ OnClose(p, Other)

-----------------------------------------------------------------------------
(* handleBrowserTerminalWebSocket *)

\* An ID nobody remembers: uuid.NewString.
Fresh(t) ==
  /\ shell[t] = "none" /\ t \notin proxied
  /\ \A p \in Pages : stored[p] # t
  /\ \A c \in Conns : conn[c] # NoConn => t \notin {conn[c].sid, conn[c].ready}

At(c, where) == conn[c] # NoConn /\ conn[c].server = where

\* A request that names a session.
Find(c) ==
  /\ At(c, "none") /\ conn[c].sid # None
  /\ conn' = [conn EXCEPT ![c] = IF shell[@.sid] = "none" THEN Returned(@, Rejected)
                                 ELSE [@ EXCEPT !.server = "attach"]]
  /\ UNCHANGED <<pagevars, sessvars>>

\* The request of a page that has gone on never arrives.
RequestLost(c) ==
  /\ At(c, "none") /\ conn[c].client = "closed"
  /\ conn' = [conn EXCEPT ![c] = NoConn]
  /\ UNCHANGED <<pagevars, sessvars>>

\* A request for a new session: the workstation is resolved, proxy.Create.
Resolve(c) ==
  /\ At(c, "none") /\ conn[c].sid = None
  /\ \E t \in Ids : /\ Fresh(t)
                    /\ conn' = [conn EXCEPT ![c].server = "opening", ![c].sid = t]
                    /\ proxied' = proxied \cup {t}
  /\ UNCHANGED <<pagevars, shell, attached, idle, stranded>>

\* The workstation is not running, not the member's, or cannot be looked up.
ResolveFails(c) ==
  /\ At(c, "none") /\ conn[c].sid = None
  /\ conn' = [conn EXCEPT ![c] = Returned(@, Rejected)]
  /\ UNCHANGED <<pagevars, sessvars>>

\* dialInternalProxyWebSocket, startTerminalSSHSession and terminals.Create.
StartShell(c) ==
  /\ At(c, "opening") /\ conn[c].sid \in proxied
  /\ conn' = [conn EXCEPT ![c].server = "attach"]
  /\ shell' = [shell EXCEPT ![conn[c].sid] = "live"]
  /\ UNCHANGED <<pagevars, attached, idle, proxied, stranded>>

\* Mutant: a failed start leaves the proxy session to the reaper.
MutKeepsProxy(c) ==
  /\ At(c, "opening")
  /\ conn' = [conn EXCEPT ![c] = Returned(@, Other)]
  /\ UNCHANGED <<pagevars, sessvars>>

\* The dial or the SSH start fails: the handler closes what it opened.
StartFails(c) ==
  /\ At(c, "opening")
  /\ proxied' = proxied \ {conn[c].sid}
  /\ conn' = [conn EXCEPT ![c] = Returned(@, Other)]
  /\ UNCHANGED <<pagevars, shell, attached, idle, stranded>>

-----------------------------------------------------------------------------
(* Attach and the session's end *)

\* Mutant: the evicted page is told that the server is going away.
MutEvictedGoesAway(c, x) ==
  [d \in Conns |-> IF d = c THEN x
                   ELSE IF d = attached[conn[c].sid] THEN Closed(conn[d], Other) ELSE conn[d]]

\* c takes the session over: the page attached before is rejected.
Evicting(c, x) ==
  [d \in Conns |-> IF d = c THEN x
                   ELSE IF d = attached[conn[c].sid] THEN Closed(conn[d], Rejected) ELSE conn[d]]

\* The ready message is queued, for a page that is still there.
Greeted(x) == [x EXCEPT !.ready = IF x.client = "open" THEN x.sid ELSE None]

Attach(c) ==
  /\ At(c, "attach") /\ shell[conn[c].sid] = "live"
  /\ idle' = idle \ {conn[c].sid}
  /\ attached' = [attached EXCEPT ![conn[c].sid] = c]
  /\ conn' = Evicting(c, [Greeted(conn[c]) EXCEPT !.server = "reading"])
  /\ stranded' = stranded \ {conn[c].sid}
  /\ UNCHANGED <<pagevars, shell, proxied>>

\* The replay does not fit the queue: nobody is attached, and the
\* idle timer stays off.
AttachFails(c) ==
  /\ At(c, "attach") /\ shell[conn[c].sid] = "live"
  /\ idle' = idle \ {conn[c].sid}
  /\ attached' = [attached EXCEPT ![conn[c].sid] = None]
  /\ conn' = Evicting(c, Returned(Greeted(conn[c]), Other))
  /\ stranded' = stranded \cup {conn[c].sid}
  /\ UNCHANGED <<pagevars, shell, proxied>>

\* The session was closed after the handler found it.
AttachClosed(c) ==
  /\ At(c, "attach") /\ shell[conn[c].sid] # "live"
  /\ conn' = [conn EXCEPT ![c] = Returned(@, Other)]
  /\ UNCHANGED <<pagevars, sessvars>>

\* The page is gone, the attachment was closed or the session cancelled.
MustLeave(c) ==
  conn[c].client = "closed" \/ conn[c].code # None \/ shell[conn[c].sid] # "live"

\* Mutant: a page that leaves does not start the idle timer.
MutNoIdleTimer(c) ==
  /\ At(c, "reading")
  /\ LET t == conn[c].sid
     IN  attached' = IF attached[t] = c THEN [attached EXCEPT ![t] = None] ELSE attached
  /\ conn' = [conn EXCEPT ![c] = Returned(@, Other)]
  /\ UNCHANGED <<pagevars, shell, idle, proxied, stranded>>

\* Mutant: clearAttachment without its comparison.
MutClearsAny(c) ==
  /\ At(c, "reading")
  /\ attached' = [attached EXCEPT ![conn[c].sid] = None]
  /\ idle' = idle \cup {conn[c].sid}
  /\ conn' = [conn EXCEPT ![c] = Returned(@, Other)]
  /\ UNCHANGED <<pagevars, shell, proxied, stranded>>

\* The rest of Attach: readInput ends and clearAttachment; also publishBinary's
\* clearAttachment, when the page does not read.
ReadEnds(c) ==
  /\ At(c, "reading")
  /\ LET t == conn[c].sid
         mine == attached[t] = c
     IN  /\ attached' = IF mine THEN [attached EXCEPT ![t] = None] ELSE attached
         /\ idle' = IF mine THEN idle \cup {t} ELSE idle
  /\ conn' = [conn EXCEPT ![c] = Returned(@, Other)]
  /\ UNCHANGED <<pagevars, shell, proxied, stranded>>

\* The idle timer fires, or the shell lost its proxy session.
MustClose(t) == t \in idle \/ t \notin proxied

\* close up to the end of its critical section, and the attachment's close.
CloseShell(t) ==
  /\ shell[t] = "live"
  /\ shell' = [shell EXCEPT ![t] = "closing"]
  /\ conn' = IF attached[t] = None THEN conn
             ELSE [conn EXCEPT ![attached[t]] = Closed(@, Other)]
  /\ attached' = [attached EXCEPT ![t] = None]
  /\ idle' = idle \ {t}
  /\ stranded' = stranded \ {t}
  /\ UNCHANGED <<pagevars, proxied>>

\* cleanup and remove.
ReleaseShell(t) ==
  /\ shell[t] = "closing"
  /\ shell' = [shell EXCEPT ![t] = "none"]
  /\ proxied' = proxied \ {t}
  /\ UNCHANGED <<pagevars, conn, attached, idle, stranded>>

\* The reaper, a registering worker, a poll or the loss of a side closes the
\* proxy session.
ProxyEnds(t) ==
  /\ t \in proxied
  /\ proxied' = proxied \ {t}
  /\ UNCHANGED <<pagevars, conn, shell, attached, idle, stranded>>

\* The server process stops and starts again.
Restart ==
  /\ shell' = [t \in Ids |-> "none"]
  /\ attached' = [t \in Ids |-> None]
  /\ idle' = {}
  /\ proxied' = {}
  /\ stranded' = {}
  /\ conn' = [c \in Conns |-> IF conn[c] = NoConn THEN NoConn
                              ELSE Returned(conn[c], Other)]
  /\ UNCHANGED pagevars

-----------------------------------------------------------------------------
Page(p) == Reconnect(p) \/ HandleReady(p) \/ SeesClose(p)

Handler(c) ==
  \/ RequestLost(c) \/ Find(c) \/ Resolve(c) \/ StartShell(c) \/ Attach(c) \/ AttachClosed(c)
  \/ At(c, "reading") /\ MustLeave(c) /\ ReadEnds(c)
  \/ At(c, "opening") /\ conn[c].sid \notin proxied /\ StartFails(c)

Session(t) == (MustClose(t) /\ CloseShell(t)) \/ ReleaseShell(t)

\* What may go wrong, and what people do.
Trouble ==
  \/ \E p \in Pages : Mount(p) \/ Unmount(p) \/ LosesConn(p)
  \/ \E c \in Conns : \/ ResolveFails(c) \/ AttachFails(c)
                      \/ At(c, "opening") /\ conn[c].sid \in proxied /\ StartFails(c)
                      \/ At(c, "reading") /\ ~ MustLeave(c) /\ ReadEnds(c)
  \/ \E t \in Ids : ProxyEnds(t) \/ (~ MustClose(t) /\ CloseShell(t))
  \/ Restart

Progress ==
  \/ \E p \in Pages : Page(p)
  \/ \E c \in Conns : Handler(c)
  \/ \E t \in Ids : Session(t)

Next == Progress \/ Trouble

Spec == Init /\ [][Next]_vars

\* Timers fire; the browser and the server's goroutines run.
Fairness ==
  /\ \A p \in Pages : WF_vars(Page(p))
  /\ \A c \in Conns : WF_vars(Handler(c))
  /\ \A t \in Ids : WF_vars(Session(t))

\* Trouble ends.  (A step of Trouble may look like one of Progress: what is
\* lost was over already.)
Settles == <>[][Progress]_vars

\* What a failed Attach left does not stay so for ever: a page asks for it
\* again, or its shell exits.
NoneStays == \A t \in Ids : []<>(t \notin stranded)

LiveSpec == Spec /\ Fairness /\ Settles /\ NoneStays

-----------------------------------------------------------------------------
(* Properties *)

\* No proxy session is left behind (h.proxy.Close on every path of the handler
\* and of close): one that is open is being set up by a handler or has a shell.
ProxiesHaveOwners ==
  \A t \in proxied :
    shell[t] # "none" \/ \E c \in Conns : At(c, "opening") /\ conn[c].sid = t

\* A websocket at rest.
SoundConn(x) ==
  /\ x.client = "closed" => x.server # "over" /\ x.ready = None /\ x.code = None
  /\ x.server \in {"opening", "attach", "reading"} => x.sid # None

\* A page that is shown waits for its one websocket or for its timer.
SoundPage(p) ==
  /\ p \in shown => (sock[p] # None) # (p \in timer)
  /\ p \notin shown => sock[p] = None /\ p \notin timer
  /\ sock[p] # None => conn[sock[p]] # NoConn /\ conn[sock[p]].client = "open"

\* Nobody knows of a session that is being set up.
Unknown(c, t) ==
  /\ shell[t] = "none"
  /\ \A p \in Pages : stored[p] # t
  /\ \A d \in Conns : conn[d] # NoConn => (d = c \/ conn[d].sid # t) /\ conn[d].ready # t

\* A session has at most one page, the last that attached: every other page
\* that it served was told to leave.
SoundHandler(c) ==
  /\ At(c, "opening") => Unknown(c, conn[c].sid)
  /\ At(c, "reading") /\ ~ MustLeave(c) => attached[conn[c].sid] = c

SoundSession(t) ==
  attached[t] # None =>
    /\ shell[t] = "live" /\ t \notin idle
    /\ At(attached[t], "reading") /\ conn[attached[t]].sid = t

\* Pages, handlers and sessions agree (socketRef and reconnectTimer, closeOnce,
\* session.attachment, closed and idleTimer), whatever breaks or restarts.
PagesInv ==
  /\ TypeOK
  /\ ProxiesHaveOwners
  /\ \A c \in Conns : conn[c] # NoConn => SoundConn(conn[c])
  /\ \A p, q \in Pages : sock[p] # None /\ sock[p] = sock[q] => p = q
  /\ \A p \in Pages : SoundPage(p)
  /\ \A c \in Conns : SoundHandler(c)
  /\ \A t \in Ids : SoundSession(t)

\* The page is connected to the session whose ID it keeps.
Connected(p) ==
  /\ sock[p] # None /\ At(sock[p], "reading") /\ ~ MustLeave(sock[p])
  /\ stored[p] = conn[sock[p]].sid

\* Once trouble ends every page on the screen gets a shell and keeps it: the
\* reconnects (scheduleReconnect) neither ask for ever for a session that is
\* gone nor take one session from each other for ever.
PagesGetShells == \A p \in Pages : <>[](p \in shown => Connected(p))

\* A proxy session is not kept for ever without a page (scheduleIdleTimeout,
\* the handler's error paths), provided a page returns to what a failed Attach
\* left, which no timer watches.
AbandonedProxiesEnd == \A t \in Ids : []<>(t \notin proxied \/ attached[t] # None)

=============================================================================
