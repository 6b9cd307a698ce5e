-------------------------- MODULE TerminalPages_proofs --------------------------
(***************************************************************************)
(* For any number of tabs, websockets and sessions: pages, handlers and    *)
(* sessions agree (PagesInv), and no proxy session is left without a       *)
(* handler that sets it up or a shell that uses it.                        *)
(***************************************************************************)
EXTENDS TerminalPages, TLAPS

-----------------------------------------------------------------------------
(* What the operations on a websocket do to its ends *)

\* The fields of a websocket.
LEMMA Fields ==
  ASSUME NEW x \in Conn
  PROVE  /\ x # NoConn
         /\ x.named \in BOOLEAN
         /\ x.client \in {"open", "closed"}
         /\ x.server \in {"none", "opening", "attach", "reading", "over"}
         /\ x.sid \in Ids \cup {None}
         /\ x.ready \in Ids \cup {None}
         /\ x.code \in {None, Rejected, Other}
BY PagesAssumption, Zenon DEF Conn

\* Nothing reaches the page through an end it has closed; the handler goes on.
LEMMA LeftFacts ==
  ASSUME NEW x \in Conn
  PROVE  IF x.server = "over" THEN Left(x) = NoConn
         ELSE /\ Left(x) \in Conn
              /\ Left(x).client = "closed" /\ Left(x).ready = None /\ Left(x).code = None
              /\ Left(x).server = x.server /\ Left(x).sid = x.sid
BY Fields, Zenon DEF Left, Tidy, Conn

\* The server's close leaves everything but the code.
LEMMA ClosedFacts ==
  ASSUME NEW x \in Conn, NEW k \in {Rejected, Other}
  PROVE  /\ Closed(x, k) \in Conn
         /\ Closed(x, k).client = x.client /\ Closed(x, k).server = x.server
         /\ Closed(x, k).sid = x.sid /\ Closed(x, k).ready = x.ready
         /\ Closed(x, k).code \in {x.code, k}
         /\ Closed(x, k).client = "closed" => Closed(x, k).code = x.code
         /\ Closed(x, k).client = "open" => Closed(x, k).code # None
BY Fields, PagesAssumption, Zenon DEF Closed, Conn

\* A handler that returned has nothing left, and the websocket goes with it
\* unless the page still has to learn of the close.
LEMMA ReturnedFacts ==
  ASSUME NEW x \in Conn, NEW k \in {Rejected, Other}
  PROVE  IF x.client = "closed" THEN Returned(x, k) = NoConn
         ELSE /\ Returned(x, k) \in Conn
              /\ Returned(x, k).client = "open" /\ Returned(x, k).server = "over"
              /\ Returned(x, k).sid = None /\ Returned(x, k).ready = x.ready
<1> DEFINE y == Closed(x, k)
           z == [y EXCEPT !.server = "over", !.sid = None]
<1>1. y \in Conn /\ y.client = x.client /\ y.ready = x.ready
  BY ClosedFacts, Zenon
<1>2. z \in Conn /\ z.client = x.client /\ z.ready = x.ready /\ z.server = "over" /\ z.sid = None
  <2> HIDE DEF y
  <2> QED  BY <1>1, Zenon DEF Conn
<1>3. Returned(x, k) = IF z.client = "closed" /\ z.server = "over" THEN NoConn ELSE z
  BY Zenon DEF Returned, Tidy
<1> HIDE DEF z
<1> QED  BY <1>2, <1>3, Fields, Zenon

\* A ready message goes only to a page that is still there.
LEMMA GreetedFacts ==
  ASSUME NEW x \in Conn
  PROVE  /\ Greeted(x) \in Conn
         /\ Greeted(x).client = x.client /\ Greeted(x).server = x.server
         /\ Greeted(x).sid = x.sid /\ Greeted(x).code = x.code
         /\ Greeted(x).ready \in {x.sid, None}
         /\ x.client = "closed" => Greeted(x).ready = None
BY Fields, Zenon DEF Greeted, Conn

-----------------------------------------------------------------------------
(* What the invariant says of handlers at work and of attached sessions *)

\* A handler at work has a session.
LEMMA AtWork ==
  ASSUME PagesInv, NEW c \in Conns, At(c, "opening") \/ At(c, "attach") \/ At(c, "reading")
  PROVE  conn[c] \in Conn /\ conn[c] # NoConn /\ SoundConn(conn[c]) /\ conn[c].sid \in Ids
<1>1. conn[c] # NoConn /\ conn[c].server \in {"opening", "attach", "reading"}
  BY Zenon DEF At
<1>2. conn[c] \in Conn
  BY <1>1, Zenon DEF PagesInv, TypeOK
<1>3. SoundConn(conn[c])
  BY <1>1, Zenon DEF PagesInv
<1>4. conn[c].sid # None
  BY <1>1, <1>3, Zenon DEF SoundConn
<1> QED  BY <1>1, <1>2, <1>3, <1>4, Fields, Zenon

\* The handler of an attached page serves its session.
LEMMA AttachedFacts ==
  ASSUME PagesInv, NEW t \in Ids, attached[t] # None
  PROVE  /\ attached[t] \in Conns /\ At(attached[t], "reading") /\ conn[attached[t]].sid = t
         /\ conn[attached[t]] \in Conn /\ shell[t] = "live" /\ t \notin idle
<1>1. attached[t] \in Conns
  BY Zenon DEF PagesInv, TypeOK
<1>2. SoundSession(t)
  BY Zenon DEF PagesInv
<1>3. At(attached[t], "reading") /\ conn[attached[t]].sid = t /\ shell[t] = "live" /\ t \notin idle
  BY <1>2, Zenon DEF SoundSession
<1> QED  BY <1>1, <1>3, AtWork, Zenon

\* A handler that need not leave is the one attached.
LEMMA ServingFacts ==
  ASSUME PagesInv, NEW c \in Conns, At(c, "reading"), ~ MustLeave(c)
  PROVE  conn[c].sid \in Ids /\ attached[conn[c].sid] = c
<1>1. SoundHandler(c)
  BY Zenon DEF PagesInv
<1> QED  BY <1>1, AtWork, Zenon DEF SoundHandler

\* Nobody knows the session a handler sets up.
LEMMA OpeningFacts ==
  ASSUME PagesInv, NEW c \in Conns, At(c, "opening")
  PROVE  conn[c].sid \in Ids /\ conn[c].sid # None /\ Unknown(c, conn[c].sid)
<1>1. SoundHandler(c)
  BY Zenon DEF PagesInv
<1> QED  BY <1>1, AtWork, PagesAssumption, Zenon DEF SoundHandler

-----------------------------------------------------------------------------
(* The page's steps *)

\* A page's step leaves to every handler its place and its session, tells
\* nobody an ID that was not known, and changes no session: then handlers and
\* sessions still agree.
LEMMA PageSide ==
  ASSUME PagesInv, TypeOK', UNCHANGED sessvars,
         \A c \in Conns : conn[c] # NoConn =>
           \/ conn'[c] = NoConn /\ conn[c].server = "over"
           \/ /\ conn'[c] # NoConn
              /\ conn'[c].server = conn[c].server /\ conn'[c].sid = conn[c].sid
              /\ conn'[c].ready \in {None, conn[c].ready}
              /\ conn'[c].client = "open" => conn[c].client = "open" /\ conn'[c].code = conn[c].code,
         \A c \in Conns : conn[c] = NoConn =>
           \/ conn'[c] = NoConn
           \/ /\ conn'[c].server = "none" /\ conn'[c].ready = None
              /\ conn'[c].sid = None \/ \E p \in Pages : conn'[c].sid = stored[p],
         \A p \in Pages :
           \/ stored'[p] = None
           \/ \E q \in Pages : stored'[p] = stored[q]
           \/ \E c \in Conns : conn[c] # NoConn /\ stored'[p] = conn[c].ready
  PROVE  /\ ProxiesHaveOwners'
         /\ \A c \in Conns : SoundHandler(c)'
         /\ \A t \in Ids : SoundSession(t)'
<1>1. ProxiesHaveOwners'
  BY DEF PagesInv, ProxiesHaveOwners, At, sessvars
<1>2. ASSUME NEW c \in Conns, At(c, "opening")'
      PROVE  Unknown(c, conn[c].sid)'
  <2>1. At(c, "opening") /\ conn'[c].sid = conn[c].sid
    BY <1>2, Zenon DEF At
  <2>2. conn[c].sid # None /\ Unknown(c, conn[c].sid)
    BY <2>1, OpeningFacts, Zenon
  <2> QED  BY <2>1, <2>2 DEF Unknown, sessvars
<1>3. ASSUME NEW c \in Conns, At(c, "reading")', ~ MustLeave(c)'
      PROVE  attached'[conn'[c].sid] = c
  <2>1. At(c, "reading") /\ conn'[c].sid = conn[c].sid
    BY <1>3, Zenon DEF At
  <2>2. conn'[c].client = "open"
    BY <1>3, Fields DEF TypeOK, At, MustLeave
  <2>3. ~ MustLeave(c)
    BY <1>3, <2>1, <2>2, Zenon DEF At, MustLeave, sessvars
  <2> QED  BY <2>1, <2>3, ServingFacts, Zenon DEF sessvars
<1>4. ASSUME NEW t \in Ids
      PROVE  SoundSession(t)'
  BY DEF PagesInv, SoundSession, At, sessvars, TypeOK
<1> QED  BY <1>1, <1>2, <1>3, <1>4, Zenon DEF SoundHandler

\* A page opens a websocket that nobody used.
LEMMA ConnectStep ==
  ASSUME PagesInv, NEW p \in Pages, NEW id \in {None} \cup {stored[q] : q \in Pages},
         Connect(p, id), sock[p] = None, p \notin timer',
         \A q \in Pages \ {p} : (q \in timer' <=> q \in timer) /\ (q \in shown' <=> q \in shown),
         p \in shown', shown' \in SUBSET Pages, timer' \in SUBSET Pages,
         stored' = [stored EXCEPT ![p] = id], UNCHANGED sessvars
  PROVE  PagesInv'
<1>1. PICK c \in Conns :
        /\ conn[c] = NoConn
        /\ conn' = [conn EXCEPT ![c] = [named |-> id # None, client |-> "open", server |-> "none",
                                        sid |-> id, ready |-> None, code |-> None]]
        /\ sock' = [sock EXCEPT ![p] = c]
  BY Zenon DEF Connect
<1> DEFINE x == [named |-> id # None, client |-> "open", server |-> "none",
                 sid |-> id, ready |-> None, code |-> None]
<1>2. id \in Ids \cup {None}
  BY DEF PagesInv, TypeOK
<1>3. x \in Conn /\ x.client = "open" /\ x.server = "none" /\ x.sid = id /\ x.ready = None
  BY <1>2, Zenon DEF Conn
<1> HIDE DEF x
<1>4. conn'[c] = x /\ x # NoConn /\ \A d \in Conns \ {c} : conn'[d] = conn[d]
  BY <1>1, <1>3, PagesAssumption, Zenon DEF PagesInv, TypeOK, x
<1>5. TypeOK'
  <2>1. conn' \in [Conns -> Conn \cup {NoConn}]
    BY <1>1, <1>3, Zenon DEF PagesInv, TypeOK, x
  <2> QED  BY <1>1, <1>2, <2>1, Zenon DEF PagesInv, TypeOK, sessvars
<1>6. \A q \in Pages : sock[q] # c
  BY <1>1, PagesAssumption, Zenon DEF PagesInv, SoundPage
<1>7. \A d \in Conns : conn'[d] # NoConn => SoundConn(conn'[d])
  <2>1. SoundConn(x)
    BY <1>3, Zenon DEF SoundConn
  <2> QED  BY <1>4, <2>1, Zenon DEF PagesInv
<1>8. \A q, r \in Pages : sock'[q] # None /\ sock'[q] = sock'[r] => q = r
  BY <1>1, <1>6, Zenon DEF PagesInv, TypeOK
<1>9. \A q \in Pages : SoundPage(q)'
  <2> TAKE q \in Pages
  <2>1. CASE q = p
    BY <2>1, <1>1, <1>3, <1>4, PagesAssumption, Zenon DEF PagesInv, TypeOK, SoundPage
  <2>2. CASE q # p
    BY <2>2, <1>1, <1>4, <1>6 DEF PagesInv, TypeOK, SoundPage
  <2> QED  BY <2>1, <2>2, Zenon
<1>10. /\ ProxiesHaveOwners'
       /\ \A d \in Conns : SoundHandler(d)'
       /\ \A t \in Ids : SoundSession(t)'
  <2>1. \A q \in Pages : stored'[q] = None \/ \E r \in Pages : stored'[q] = stored[r]
    BY Zenon DEF PagesInv, TypeOK
  <2> QED  BY <1>1, <1>3, <1>4, <1>5, <2>1, PageSide
<1> QED  BY <1>5, <1>7, <1>8, <1>9, <1>10, Zenon DEF PagesInv

\* A tab is opened, reloaded or duplicated; the timer fires.
LEMMA OpenSteps ==
  ASSUME PagesInv, NEW p \in Pages, Mount(p) \/ Reconnect(p)
  PROVE  PagesInv'
<1>1. CASE Mount(p)
  <2>1. PICK id \in {None} \cup {stored[q] : q \in Pages} :
          stored' = [stored EXCEPT ![p] = id] /\ Connect(p, id)
    BY <1>1, Zenon DEF Mount
  <2>2. p \notin shown /\ shown' = shown \cup {p} /\ timer' = timer /\ UNCHANGED sessvars
    BY <1>1, Zenon DEF Mount, sessvars
  <2>3. sock[p] = None /\ p \notin timer
    BY <2>2, Zenon DEF PagesInv, SoundPage
  <2>4. shown' \in SUBSET Pages /\ timer' \in SUBSET Pages
    BY <2>2, Zenon DEF PagesInv, TypeOK
  <2> QED  BY <2>1, <2>2, <2>3, <2>4, ConnectStep, Zenon
<1>2. CASE Reconnect(p)
  <2>1. p \in timer /\ timer' = timer \ {p} /\ shown' = shown /\ stored' = stored
        /\ Connect(p, stored[p]) /\ UNCHANGED sessvars
    BY <1>2, Zenon DEF Reconnect, sessvars
  <2>2. sock[p] = None /\ p \in shown
    BY <2>1, Zenon DEF PagesInv, SoundPage
  <2>3. stored' = [stored EXCEPT ![p] = stored[p]]
    BY <2>1, Zenon DEF PagesInv, TypeOK
  <2>4. shown' \in SUBSET Pages /\ timer' \in SUBSET Pages
    BY <2>1, Zenon DEF PagesInv, TypeOK
  <2> QED  BY <2>1, <2>2, <2>3, <2>4, ConnectStep, Zenon
<1> QED  BY <1>1, <1>2, Zenon

\* A page lets its websocket go, and waits for its timer or is gone.
LEMMA LeaveStep ==
  ASSUME PagesInv, NEW p \in Pages, sock[p] # None,
         conn' = [conn EXCEPT ![sock[p]] = Left(@)], sock' = [sock EXCEPT ![p] = None],
         \A q \in Pages \ {p} : (q \in timer' <=> q \in timer) /\ (q \in shown' <=> q \in shown),
         p \in timer' <=> p \in shown', shown' \in SUBSET Pages, timer' \in SUBSET Pages,
         stored' \in {stored, [stored EXCEPT ![p] = None]}, UNCHANGED sessvars
  PROVE  PagesInv'
<1> DEFINE c == sock[p]
<1>1. c \in Conns /\ conn[c] \in Conn /\ conn[c].client = "open"
  BY Zenon DEF PagesInv, TypeOK, SoundPage
<1> HIDE DEF c
<1>2. conn'[c] = Left(conn[c]) /\ \A d \in Conns \ {c} : conn'[d] = conn[d]
  BY <1>1, Zenon DEF PagesInv, TypeOK, c
<1>3. IF conn[c].server = "over" THEN conn'[c] = NoConn
      ELSE /\ conn'[c] \in Conn
           /\ conn'[c].client = "closed" /\ conn'[c].ready = None /\ conn'[c].code = None
           /\ conn'[c].server = conn[c].server /\ conn'[c].sid = conn[c].sid
  BY <1>1, <1>2, LeftFacts, Zenon
<1>4. TypeOK'
  <2>1. conn' \in [Conns -> Conn \cup {NoConn}]
    BY <1>1, <1>2, <1>3, Zenon DEF PagesInv, TypeOK, c
  <2>2. stored' \in [Pages -> Ids \cup {None}] /\ sock' \in [Pages -> Conns \cup {None}]
    BY Zenon DEF PagesInv, TypeOK
  <2> QED  BY <2>1, <2>2, Zenon DEF PagesInv, TypeOK, sessvars
<1>5. \A d \in Conns : conn'[d] # NoConn => SoundConn(conn'[d])
  <2>1. conn[c] # NoConn /\ SoundConn(conn[c])
    BY <1>1, Fields, Zenon DEF PagesInv
  <2>2. conn'[c] # NoConn => SoundConn(conn'[c])
    BY <2>1, <1>3, Zenon DEF SoundConn
  <2> QED  BY <1>2, <2>2, Zenon DEF PagesInv
<1>6. \A q, r \in Pages : sock'[q] # None /\ sock'[q] = sock'[r] => q = r
  BY Zenon DEF PagesInv, TypeOK
<1>7. \A q \in Pages : SoundPage(q)'
  <2> TAKE q \in Pages
  <2>1. CASE q = p
    BY <2>1, Zenon DEF PagesInv, TypeOK, SoundPage
  <2>2. CASE q # p
    <3>1. sock'[q] = sock[q] /\ (sock[q] # None => sock[q] \in Conns \ {c})
      BY <2>2, Zenon DEF PagesInv, TypeOK, c
    <3> QED  BY <2>2, <3>1, <1>2 DEF PagesInv, SoundPage
  <2> QED  BY <2>1, <2>2, Zenon
<1>8. /\ ProxiesHaveOwners'
      /\ \A d \in Conns : SoundHandler(d)'
      /\ \A t \in Ids : SoundSession(t)'
  <2>1. \A q \in Pages : stored'[q] = None \/ \E r \in Pages : stored'[q] = stored[r]
    BY Zenon DEF PagesInv, TypeOK
  <2>2. \A d \in Conns : conn[d] # NoConn =>
           \/ conn'[d] = NoConn /\ conn[d].server = "over"
           \/ /\ conn'[d] # NoConn
              /\ conn'[d].server = conn[d].server /\ conn'[d].sid = conn[d].sid
              /\ conn'[d].ready \in {None, conn[d].ready}
              /\ conn'[d].client = "open" => conn[d].client = "open" /\ conn'[d].code = conn[d].code
    BY <1>2, <1>3, Fields
  <2>3. \A d \in Conns : conn[d] = NoConn => conn'[d] = NoConn
    BY <1>1, <1>2, PagesAssumption, Zenon
  <2> QED  BY <1>4, <2>1, <2>2, <2>3, PageSide, Zenon
<1> QED  BY <1>4, <1>5, <1>6, <1>7, <1>8, Zenon DEF PagesInv

\* A tab is closed; a websocket ends for its page.
LEMMA CloseSteps ==
  ASSUME PagesInv, NEW p \in Pages, Unmount(p) \/ SeesClose(p) \/ LosesConn(p)
  PROVE  PagesInv'
<1>1. CASE Unmount(p) /\ sock[p] # None
  <2>1. /\ shown' = shown \ {p} /\ timer' = timer \ {p} /\ sock' = [sock EXCEPT ![p] = None]
        /\ conn' = [conn EXCEPT ![sock[p]] = Left(@)] /\ stored' = stored /\ UNCHANGED sessvars
    BY <1>1, Zenon DEF Unmount
  <2>2. shown' \in SUBSET Pages /\ timer' \in SUBSET Pages
    BY <2>1, Zenon DEF PagesInv, TypeOK
  <2> QED  BY <1>1, <2>1, <2>2, LeaveStep, Zenon
<1>2. CASE Unmount(p) /\ sock[p] = None
  <2>1. /\ shown' = shown \ {p} /\ timer' = timer \ {p} /\ sock' = [sock EXCEPT ![p] = None]
        /\ conn' = conn /\ stored' = stored /\ UNCHANGED sessvars
    BY <1>2, Zenon DEF Unmount
  <2>2. TypeOK' /\ sock' = sock
    BY <1>2, <2>1, Zenon DEF PagesInv, TypeOK, sessvars
  <2>3. \A q \in Pages : SoundPage(q)'
    BY <1>2, <2>1, <2>2 DEF PagesInv, SoundPage
  <2>4. /\ ProxiesHaveOwners'
        /\ \A c \in Conns : SoundHandler(c)'
        /\ \A t \in Ids : SoundSession(t)'
    BY <2>1, <2>2, PageSide, Zenon
  <2> QED  BY <2>1, <2>2, <2>3, <2>4, Zenon DEF PagesInv
<1>3. ASSUME NEW k, OnClose(p, k), sock[p] # None
      PROVE  PagesInv'
  <2>1. /\ shown' = shown /\ timer' = timer \cup {p} /\ sock' = [sock EXCEPT ![p] = None]
        /\ conn' = [conn EXCEPT ![sock[p]] = Left(@)] /\ UNCHANGED sessvars
        /\ stored' \in {stored, [stored EXCEPT ![p] = None]}
    BY <1>3, Zenon DEF OnClose
  <2>2. shown' \in SUBSET Pages /\ timer' \in SUBSET Pages
    BY <2>1, Zenon DEF PagesInv, TypeOK
  <2>3. p \in shown
    BY <1>3, Zenon DEF PagesInv, SoundPage
  <2> QED  BY <1>3, <2>1, <2>2, <2>3, LeaveStep, Zenon
<1> QED  BY <1>1, <1>2, <1>3, Zenon DEF SeesClose, LosesConn

\* A page keeps the ID that the ready message names.
LEMMA ReadyStep ==
  ASSUME PagesInv, NEW p \in Pages, HandleReady(p)
  PROVE  PagesInv'
<1> DEFINE c == sock[p]
<1>1. /\ c \in Conns /\ conn[c] \in Conn /\ conn[c].client = "open" /\ conn[c].ready \in Ids
      /\ stored' = [stored EXCEPT ![p] = conn[c].ready]
      /\ shown' = shown /\ timer' = timer /\ sock' = sock /\ UNCHANGED sessvars
  BY Fields DEF PagesInv, TypeOK, SoundPage, HandleReady
<1>2. conn'[c] = [conn[c] EXCEPT !.ready = None] /\ \A d \in Conns \ {c} : conn'[d] = conn[d]
  BY <1>1, Zenon DEF HandleReady, PagesInv, TypeOK
<1>3. conn' \in [Conns -> Conn \cup {NoConn}] /\ conn'[c] \in Conn
  <2>1. [conn[c] EXCEPT !.ready = None] \in Conn
    BY <1>1, Zenon DEF Conn
  <2> QED  BY <1>1, <1>2, <2>1, Zenon DEF HandleReady, PagesInv, TypeOK
<1> HIDE DEF c
<1>4. /\ conn'[c].client = "open" /\ conn'[c].server = conn[c].server
      /\ conn'[c].sid = conn[c].sid /\ conn'[c].ready = None /\ conn'[c].code = conn[c].code
  BY <1>1, <1>2, Zenon DEF Conn
<1>5. TypeOK'
  BY <1>1, <1>3, Zenon DEF PagesInv, TypeOK, sessvars
<1>6. conn[c] # NoConn /\ conn'[c] # NoConn
  BY <1>1, <1>3, Fields, Zenon
<1>7. \A d \in Conns : conn'[d] # NoConn => SoundConn(conn'[d])
  <2>1. SoundConn(conn[c])
    BY <1>1, <1>6, Zenon DEF PagesInv
  <2>2. SoundConn(conn'[c])
    BY <2>1, <1>4, Zenon DEF SoundConn
  <2> QED  BY <1>2, <2>2, Zenon DEF PagesInv
<1>8. \A q \in Pages : SoundPage(q)'
  <2>1. \A q \in Pages : SoundPage(q) /\ sock[q] \in Conns \cup {None}
    BY Zenon DEF PagesInv, TypeOK
  <2> QED  BY <1>1, <1>2, <1>4, <1>6, <2>1, Zenon DEF SoundPage
<1>9. /\ ProxiesHaveOwners'
      /\ \A d \in Conns : SoundHandler(d)'
      /\ \A t \in Ids : SoundSession(t)'
  <2>1. \A q \in Pages : \/ \E r \in Pages : stored'[q] = stored[r]
                         \/ \E d \in Conns : conn[d] # NoConn /\ stored'[q] = conn[d].ready
    BY <1>1, <1>6, Zenon DEF PagesInv, TypeOK
  <2> QED  BY <1>1, <1>2, <1>4, <1>5, <1>6, <2>1, PageSide, Zenon
<1> QED  BY <1>1, <1>5, <1>7, <1>8, <1>9, Zenon DEF PagesInv

-----------------------------------------------------------------------------
(* The server's steps *)

\* The server takes no websocket away from a page.
LEMMA ServerSide ==
  ASSUME PagesInv, UNCHANGED pagevars,
         \A c \in Conns : conn[c] # NoConn /\ conn[c].client = "open" =>
           conn'[c] # NoConn /\ conn'[c].client = "open"
  PROVE  /\ \A p, q \in Pages : sock'[p] # None /\ sock'[p] = sock'[q] => p = q
         /\ \A p \in Pages : SoundPage(p)'
BY Zenon DEF PagesInv, TypeOK, SoundPage, pagevars

\* A handler that is neither setting a session up nor serving one goes on to
\* Attach or returns.
LEMMA QuietStep ==
  ASSUME PagesInv, NEW c \in Conns, conn[c] # NoConn, conn[c].server \in {"none", "attach"},
         NEW y, conn' = [conn EXCEPT ![c] = y],
         \/ y = NoConn /\ conn[c].client = "closed"
         \/ /\ y \in Conn /\ SoundConn(y) /\ y.client = conn[c].client
            /\ y.server \in {"attach", "over"}
            /\ y.sid \in {None, conn[c].sid} /\ y.ready = conn[c].ready,
         UNCHANGED <<pagevars, sessvars>>
  PROVE  PagesInv'
<1>1. conn'[c] = y /\ \A d \in Conns \ {c} : conn'[d] = conn[d]
  BY Zenon DEF PagesInv, TypeOK
<1>2. TypeOK'
  BY Zenon DEF PagesInv, TypeOK, pagevars, sessvars
<1>3. \A d \in Conns : conn'[d] # NoConn => SoundConn(conn'[d])
  BY <1>1, Zenon DEF PagesInv
<1>4. /\ \A p, q \in Pages : sock'[p] # None /\ sock'[p] = sock'[q] => p = q
      /\ \A p \in Pages : SoundPage(p)'
  <2>1. \A d \in Conns : conn[d] # NoConn /\ conn[d].client = "open" =>
          conn'[d] # NoConn /\ conn'[d].client = "open"
    BY <1>1, Fields
  <2> QED  BY <2>1, ServerSide, Zenon
<1>5. ProxiesHaveOwners'
  <2>1. \A d \in Conns : At(d, "opening") => At(d, "opening")' /\ conn'[d].sid = conn[d].sid
    BY <1>1, Zenon DEF At
  <2> QED  BY <2>1 DEF PagesInv, ProxiesHaveOwners, sessvars
<1>6. \A d \in Conns : SoundHandler(d)'
  <2> TAKE d \in Conns
  <2>1. CASE d = c
    BY <2>1, <1>1, Zenon DEF SoundHandler, At
  <2>2. ASSUME d # c, At(d, "opening")'
        PROVE  Unknown(d, conn[d].sid)'
    <3>1. At(d, "opening") /\ conn'[d] = conn[d]
      BY <2>2, <1>1, Zenon DEF At
    <3>2. conn[d].sid # None /\ Unknown(d, conn[d].sid)
      BY <3>1, OpeningFacts, Zenon
    <3> QED  BY <1>1, <2>2, <3>1, <3>2 DEF Unknown, sessvars, pagevars
  <2>3. ASSUME d # c, At(d, "reading")', ~ MustLeave(d)'
        PROVE  attached'[conn'[d].sid] = d
    BY <2>3, <1>1, Zenon DEF PagesInv, SoundHandler, At, MustLeave, sessvars
  <2> QED  BY <2>1, <2>2, <2>3, Zenon DEF SoundHandler
<1>7. \A t \in Ids : SoundSession(t)'
  <2> TAKE t \in Ids
  <2>1. attached[t] # None => attached[t] \in Conns \ {c}
    BY AttachedFacts, Zenon DEF At
  <2> QED  BY <1>1, <2>1 DEF PagesInv, SoundSession, At, sessvars
<1> QED  BY <1>2, <1>3, <1>4, <1>5, <1>6, <1>7, Zenon DEF PagesInv

\* A request is turned away, lost, or sent on to the session it names.
LEMMA RequestSteps ==
  ASSUME PagesInv, NEW c \in Conns,
         Find(c) \/ RequestLost(c) \/ ResolveFails(c) \/ AttachClosed(c)
  PROVE  PagesInv'
<1>1. conn[c] # NoConn /\ conn[c] \in Conn /\ SoundConn(conn[c])
      /\ conn[c].server \in {"none", "attach"} /\ UNCHANGED <<pagevars, sessvars>>
  BY Zenon DEF PagesInv, TypeOK, Find, RequestLost, ResolveFails, AttachClosed, At
<1>2. ASSUME NEW k \in {Rejected, Other}, conn' = [conn EXCEPT ![c] = Returned(@, k)]
      PROVE  PagesInv'
  <2> DEFINE y == Returned(conn[c], k)
  <2>1. \/ y = NoConn /\ conn[c].client = "closed"
        \/ /\ y \in Conn /\ y.client = conn[c].client /\ y.client = "open" /\ y.server = "over"
           /\ y.sid = None /\ y.ready = conn[c].ready
    BY <1>1, ReturnedFacts, Fields
  <2>2. conn' = [conn EXCEPT ![c] = y]
    BY <1>2, Zenon
  <2> HIDE DEF y
  <2>3. y \in Conn => SoundConn(y)
    BY <2>1, Fields, PagesAssumption, Zenon DEF SoundConn
  <2> QED  BY <1>1, <2>1, <2>2, <2>3, QuietStep, Zenon
<1>3. CASE Find(c) /\ shell[conn[c].sid] # "none"
  <2> DEFINE y == [conn[c] EXCEPT !.server = "attach"]
  <2>1. conn' = [conn EXCEPT ![c] = y] /\ conn[c].sid # None
    BY <1>3, Zenon DEF Find
  <2>2. /\ y \in Conn /\ y.client = conn[c].client /\ y.server = "attach"
        /\ y.sid = conn[c].sid /\ y.ready = conn[c].ready /\ y.code = conn[c].code
    BY <1>1, Zenon DEF Conn
  <2> HIDE DEF y
  <2>3. SoundConn(y)
    BY <1>1, <2>1, <2>2, Zenon DEF SoundConn
  <2> QED  BY <1>1, <2>1, <2>2, <2>3, QuietStep, Zenon
<1>4. CASE RequestLost(c)
  <2>1. conn' = [conn EXCEPT ![c] = NoConn] /\ conn[c].client = "closed"
    BY <1>4, Zenon DEF RequestLost
  <2> QED  BY <1>1, <2>1, QuietStep, Zenon
<1> QED  BY <1>2, <1>3, <1>4, Zenon DEF Find, ResolveFails, AttachClosed

\* A new session is set up under an ID that nobody knows.
LEMMA ResolveStep ==
  ASSUME PagesInv, NEW c \in Conns, Resolve(c)
  PROVE  PagesInv'
<1>1. PICK t \in Ids : /\ Fresh(t)
                       /\ conn' = [conn EXCEPT ![c].server = "opening", ![c].sid = t]
                       /\ proxied' = proxied \cup {t}
  BY Zenon DEF Resolve
<1>2. /\ conn[c] \in Conn /\ conn[c] # NoConn /\ SoundConn(conn[c])
      /\ conn[c].server = "none" /\ conn[c].sid = None
      /\ UNCHANGED <<pagevars, shell, attached, idle, stranded>>
  BY Zenon DEF Resolve, At, PagesInv, TypeOK
<1>3. /\ conn' \in [Conns -> Conn \cup {NoConn}] /\ conn'[c] \in Conn
      /\ conn'[c].server = "opening" /\ conn'[c].sid = t
      /\ conn'[c].client = conn[c].client /\ conn'[c].ready = conn[c].ready
      /\ conn'[c].code = conn[c].code
      /\ \A d \in Conns \ {c} : conn'[d] = conn[d]
  <2> DEFINE y == [[conn[c] EXCEPT !.server = "opening"] EXCEPT !.sid = t]
  <2>1. conn' = [conn EXCEPT ![c] = y]
    BY <1>1, Zenon DEF PagesInv, TypeOK
  <2>2. /\ y \in Conn /\ y.server = "opening" /\ y.sid = t /\ y.client = conn[c].client
        /\ y.ready = conn[c].ready /\ y.code = conn[c].code
    BY <1>2, Zenon DEF Conn
  <2> HIDE DEF y
  <2> QED  BY <2>1, <2>2, Zenon DEF PagesInv, TypeOK
<1>4. conn'[c] # NoConn /\ t # None
  BY <1>3, Fields, PagesAssumption, Zenon
<1>5. TypeOK'
  BY <1>1, <1>2, <1>3, Zenon DEF PagesInv, TypeOK, pagevars
<1>6. \A d \in Conns : conn'[d] # NoConn => SoundConn(conn'[d])
  <2>1. SoundConn(conn'[c])
    BY <1>2, <1>3, <1>4, Zenon DEF SoundConn
  <2> QED  BY <1>3, <2>1, Zenon DEF PagesInv
<1>7. /\ \A p, q \in Pages : sock'[p] # None /\ sock'[p] = sock'[q] => p = q
      /\ \A p \in Pages : SoundPage(p)'
  BY <1>2, <1>3, <1>4, ServerSide, Zenon
<1>8. ProxiesHaveOwners'
  <2>1. \A d \in Conns : At(d, "opening") => At(d, "opening")' /\ conn'[d].sid = conn[d].sid
    BY <1>2, <1>3, Zenon DEF At
  <2>2. At(c, "opening")'
    BY <1>3, <1>4, Zenon DEF At
  <2> QED  BY <1>1, <1>2, <1>3, <2>1, <2>2 DEF PagesInv, ProxiesHaveOwners
<1>9. \A d \in Conns : SoundHandler(d)'
  <2> TAKE d \in Conns
  <2>1. CASE d = c
    <3>1. Unknown(c, t)'
      BY <1>1, <1>2, <1>3 DEF Unknown, Fresh, pagevars
    <3> QED  BY <2>1, <3>1, <1>3, Zenon DEF SoundHandler, At
  <2>2. ASSUME d # c, At(d, "opening")'
        PROVE  Unknown(d, conn[d].sid)'
    <3>1. At(d, "opening") /\ conn'[d] = conn[d]
      BY <2>2, <1>3, Zenon DEF At
    <3>2. Unknown(d, conn[d].sid) /\ conn[d].sid # t
      BY <1>1, <3>1, OpeningFacts, Zenon DEF At, Fresh
    <3> QED  BY <1>2, <1>3, <2>2, <3>1, <3>2 DEF Unknown, pagevars
  <2>3. ASSUME d # c, At(d, "reading")', ~ MustLeave(d)'
        PROVE  attached'[conn'[d].sid] = d
    BY <2>3, <1>2, <1>3, Zenon DEF PagesInv, SoundHandler, At, MustLeave
  <2> QED  BY <2>1, <2>2, <2>3, Zenon DEF SoundHandler
<1>10. \A u \in Ids : SoundSession(u)'
  <2> TAKE u \in Ids
  <2>1. attached[u] # None => attached[u] \in Conns \ {c}
    BY <1>2, AttachedFacts, Zenon DEF At
  <2> QED  BY <1>2, <1>3, <2>1 DEF PagesInv, SoundSession, At
<1> QED  BY <1>5, <1>6, <1>7, <1>8, <1>9, <1>10, Zenon DEF PagesInv

\* The handler ends the set-up of a session that nobody else knows: it has a
\* shell now, or its proxy session is closed.
LEMMA StartSteps ==
  ASSUME PagesInv, NEW c \in Conns, StartShell(c) \/ StartFails(c)
  PROVE  PagesInv'
<1> DEFINE t == conn[c].sid
<1>1. /\ conn[c] \in Conn /\ conn[c] # NoConn /\ SoundConn(conn[c]) /\ conn[c].server = "opening"
      /\ t \in Ids /\ Unknown(c, t)
      /\ UNCHANGED <<pagevars, attached, idle, stranded>>
  BY AtWork, OpeningFacts, Zenon DEF StartShell, StartFails, At
<1>2. \/ shell' = [shell EXCEPT ![t] = "live"] /\ proxied' = proxied
      \/ shell' = shell /\ proxied' = proxied \ {t}
  BY Zenon DEF StartShell, StartFails
<1>3. /\ conn' \in [Conns -> Conn \cup {NoConn}]
      /\ \A d \in Conns \ {c} : conn'[d] = conn[d]
      /\ \/ conn'[c] = NoConn /\ conn[c].client = "closed"
         \/ /\ conn'[c] \in Conn /\ SoundConn(conn'[c]) /\ conn'[c].client = conn[c].client
            /\ conn'[c].server \in {"attach", "over"}
            /\ conn'[c].sid \in {None, t} /\ conn'[c].ready = conn[c].ready
  <2>1. CASE StartShell(c)
    <3> DEFINE y == [conn[c] EXCEPT !.server = "attach"]
    <3>1. conn' = [conn EXCEPT ![c] = y]
      BY <2>1, Zenon DEF StartShell, PagesInv, TypeOK
    <3>2. /\ y \in Conn /\ y.server = "attach" /\ y.sid = t /\ y.client = conn[c].client
          /\ y.ready = conn[c].ready /\ y.code = conn[c].code
      BY <1>1, Zenon DEF Conn
    <3> HIDE DEF y
    <3>3. SoundConn(y)
      BY <1>1, <3>2, Zenon DEF SoundConn
    <3> QED  BY <3>1, <3>2, <3>3, Zenon DEF PagesInv, TypeOK
  <2>2. CASE StartFails(c)
    <3> DEFINE y == Returned(conn[c], Other)
    <3>1. conn' = [conn EXCEPT ![c] = y]
      BY <2>2, Zenon DEF StartFails
    <3>2. \/ y = NoConn /\ conn[c].client = "closed"
          \/ /\ y \in Conn /\ y.client = conn[c].client /\ y.client = "open" /\ y.server = "over"
             /\ y.sid = None /\ y.ready = conn[c].ready
      BY <1>1, ReturnedFacts, Fields
    <3> HIDE DEF y
    <3>3. y \in Conn => SoundConn(y)
      BY <3>2, Fields, Zenon DEF SoundConn
    <3> QED  BY <3>1, <3>2, <3>3, Zenon DEF PagesInv, TypeOK
  <2> QED  BY <2>1, <2>2, Zenon
<1> HIDE DEF t
<1>4. TypeOK'
  BY <1>1, <1>2, <1>3, Zenon DEF PagesInv, TypeOK, pagevars
<1>5. \A d \in Conns : conn'[d] # NoConn => SoundConn(conn'[d])
  BY <1>3, Zenon DEF PagesInv
<1>6. /\ \A p, q \in Pages : sock'[p] # None /\ sock'[p] = sock'[q] => p = q
      /\ \A p \in Pages : SoundPage(p)'
  <2>1. \A d \in Conns : conn[d] # NoConn /\ conn[d].client = "open" =>
          conn'[d] # NoConn /\ conn'[d].client = "open"
    BY <1>3, Fields, Zenon
  <2> QED  BY <1>1, <2>1, ServerSide, Zenon
<1>7. ProxiesHaveOwners'
  <2> SUFFICES ASSUME NEW u \in proxied'
               PROVE  shell'[u] # "none" \/ \E d \in Conns : At(d, "opening")' /\ conn'[d].sid = u
    BY Zenon DEF ProxiesHaveOwners
  <2>1. u \in proxied /\ u \in Ids /\ (u = t => shell' = [shell EXCEPT ![t] = "live"])
    BY <1>2, Zenon DEF PagesInv, TypeOK
  <2>2. CASE u = t
    BY <2>1, <2>2, Zenon DEF PagesInv, TypeOK
  <2>3. CASE u # t /\ shell[u] # "none"
    BY <2>1, <2>3, <1>2, Zenon DEF PagesInv, TypeOK
  <2>4. CASE u # t /\ shell[u] = "none"
    <3>1. PICK d \in Conns : At(d, "opening") /\ conn[d].sid = u
      BY <2>1, <2>4, Zenon DEF PagesInv, ProxiesHaveOwners
    <3>2. d # c
      BY <2>4, <3>1, Zenon DEF t
    <3> QED  BY <3>1, <3>2, <1>3, Zenon DEF At
  <2> QED  BY <2>2, <2>3, <2>4, Zenon
<1>8. \A d \in Conns \ {c} : conn[d] # NoConn => conn[d].sid # t
  BY <1>1, Zenon DEF Unknown
<1>9. \A d \in Conns : SoundHandler(d)'
  <2> TAKE d \in Conns
  <2>1. CASE d = c
    BY <2>1, <1>3, Zenon DEF SoundHandler, At
  <2>2. ASSUME d # c, At(d, "opening")'
        PROVE  Unknown(d, conn[d].sid)'
    <3>1. At(d, "opening") /\ conn'[d] = conn[d]
      BY <2>2, <1>3, Zenon DEF At
    <3>2. Unknown(d, conn[d].sid) /\ conn[d].sid # t /\ conn[d].sid # None /\ conn[d].sid \in Ids
      BY <1>8, <2>2, <3>1, OpeningFacts, Zenon DEF At
    <3>3. shell'[conn[d].sid] = "none"
      BY <1>2, <3>2, Zenon DEF Unknown, PagesInv, TypeOK
    <3> QED  BY <1>1, <1>3, <2>2, <3>1, <3>2, <3>3 DEF Unknown, pagevars
  <2>3. ASSUME d # c, At(d, "reading")', ~ MustLeave(d)'
        PROVE  attached'[conn'[d].sid] = d
    <3>1. At(d, "reading") /\ conn'[d] = conn[d]
      BY <2>3, <1>3, Zenon DEF At
    <3>2. conn[d].sid # t /\ conn[d].sid \in Ids
      BY <1>8, <2>3, <3>1, AtWork, Zenon DEF At
    <3>3. ~ MustLeave(d)
      BY <1>2, <2>3, <3>1, <3>2 DEF MustLeave, PagesInv, TypeOK
    <3> QED  BY <1>1, <3>1, <3>3, ServingFacts, Zenon
  <2> QED  BY <2>1, <2>2, <2>3, Zenon DEF SoundHandler
<1>10. \A u \in Ids : SoundSession(u)'
  <2> TAKE u \in Ids
  <2>1. attached[u] # None => attached[u] \in Conns \ {c} /\ u # t
    BY <1>1, AttachedFacts, Zenon DEF At, Unknown
  <2>2. u # t => shell'[u] = shell[u]
    BY <1>2, Zenon DEF PagesInv, TypeOK
  <2>3. attached'[u] = attached[u] /\ idle' = idle
    BY <1>1, Zenon
  <2>4. attached[u] # None =>
          /\ conn'[attached[u]] = conn[attached[u]] /\ shell'[u] = "live" /\ u \notin idle
          /\ At(attached[u], "reading") /\ conn[attached[u]].sid = u
    BY <1>3, <2>1, <2>2, AttachedFacts, Zenon
  <2> QED  BY <2>3, <2>4, Zenon DEF SoundSession, At
<1> QED  BY <1>4, <1>5, <1>6, <1>7, <1>9, <1>10, Zenon DEF PagesInv

\* The page that was attached is told to leave; no other websocket changes.
LEMMA EvictingFacts ==
  ASSUME PagesInv, NEW c \in Conns, At(c, "attach"), NEW y \in Conn \cup {NoConn},
         conn' = Evicting(c, y)
  PROVE  /\ conn' \in [Conns -> Conn \cup {NoConn}]
         /\ conn'[c] = y
         /\ \A d \in Conns \ {c} :
              /\ conn[d] = NoConn => conn'[d] = NoConn
              /\ conn[d] # NoConn =>
                   /\ conn'[d] # NoConn /\ SoundConn(conn'[d])
                   /\ conn'[d].client = conn[d].client /\ conn'[d].server = conn[d].server
                   /\ conn'[d].sid = conn[d].sid /\ conn'[d].ready = conn[d].ready
                   /\ conn'[d].code = None => conn[d].code = None
              /\ d = attached[conn[c].sid] =>
                   conn'[d].client = "closed" \/ conn'[d].code # None
<1>1. conn[c] \in Conn /\ conn[c].sid \in Ids
  BY AtWork, Zenon
<1> DEFINE e == attached[conn[c].sid]
<1>2. e \in Conns \cup {None} /\ (e # None => conn[e] \in Conn)
  BY <1>1, AttachedFacts, Zenon
<1> HIDE DEF e
<1>3. \A d \in Conns : conn'[d] = IF d = c THEN y ELSE IF d = e THEN Closed(conn[d], Rejected) ELSE conn[d]
  BY Zenon DEF Evicting, e
<1>4. conn' = [d \in Conns |-> conn'[d]]
  BY Zenon DEF Evicting
<1>5. \A d \in Conns \ {c} : d = e => conn'[d] = Closed(conn[d], Rejected) /\ conn[d] \in Conn
  BY <1>2, <1>3, PagesAssumption, Zenon
<1>6. \A d \in Conns \ {c} : d # e => conn'[d] = conn[d]
  BY <1>3, Zenon
<1>7. ASSUME NEW d \in Conns \ {c}, d = e
      PROVE  /\ conn'[d] \in Conn /\ SoundConn(conn'[d])
             /\ conn'[d].client = conn[d].client /\ conn'[d].server = conn[d].server
             /\ conn'[d].sid = conn[d].sid /\ conn'[d].ready = conn[d].ready
             /\ conn'[d].code = None => conn[d].code = None
             /\ conn'[d].client = "closed" \/ conn'[d].code # None
  <2>1. /\ conn'[d] \in Conn
        /\ conn'[d].client = conn[d].client /\ conn'[d].server = conn[d].server
        /\ conn'[d].sid = conn[d].sid /\ conn'[d].ready = conn[d].ready
        /\ conn'[d].code \in {conn[d].code, Rejected}
        /\ conn'[d].client = "closed" => conn'[d].code = conn[d].code
        /\ conn'[d].client = "open" => conn'[d].code # None
    <3>1. conn[d] \in Conn /\ conn'[d] = Closed(conn[d], Rejected)
      BY <1>5, <1>7, Zenon
    <3> QED  BY <3>1, ClosedFacts
  <2>2. SoundConn(conn[d])
    BY <1>5, <1>7, Fields, Zenon DEF PagesInv
  <2>3. SoundConn(conn'[d])
    BY <2>1, <2>2, Zenon DEF SoundConn
  <2> QED  BY <2>1, <2>3, Fields, PagesAssumption, Zenon
<1>8. conn' \in [Conns -> Conn \cup {NoConn}]
  <2>1. \A d \in Conns : conn[d] \in Conn \cup {NoConn}
    BY Zenon DEF PagesInv, TypeOK
  <2>2. \A d \in Conns : conn'[d] \in Conn \cup {NoConn}
    BY <1>3, <1>6, <1>7, <2>1, Zenon
  <2> QED  BY <1>4, <2>2, Zenon
<1>9. conn'[c] = y
  BY <1>3, Zenon
<1>10. ASSUME NEW d \in Conns \ {c}
       PROVE  /\ conn[d] = NoConn => conn'[d] = NoConn
              /\ conn[d] # NoConn =>
                   /\ conn'[d] # NoConn /\ SoundConn(conn'[d])
                   /\ conn'[d].client = conn[d].client /\ conn'[d].server = conn[d].server
                   /\ conn'[d].sid = conn[d].sid /\ conn'[d].ready = conn[d].ready
                   /\ conn'[d].code = None => conn[d].code = None
              /\ d = attached[conn[c].sid] =>
                   conn'[d].client = "closed" \/ conn'[d].code # None
  <2>1. CASE d = e
    BY <2>1, <1>5, <1>7, Fields, Zenon
  <2>2. CASE d # e
    BY <2>2, <1>6, Zenon DEF PagesInv, e
  <2> QED  BY <2>1, <2>2, Zenon
<1> QED  BY <1>8, <1>9, <1>10, Zenon

\* A handler takes the session over, or fails to and leaves it to nobody.
LEMMA AttachSteps ==
  ASSUME PagesInv, NEW c \in Conns, Attach(c) \/ AttachFails(c)
  PROVE  PagesInv'
<1> DEFINE t == conn[c].sid
<1>1. /\ At(c, "attach") /\ conn[c] \in Conn /\ SoundConn(conn[c]) /\ t \in Ids
      /\ shell[t] = "live" /\ idle' = idle \ {t}
      /\ UNCHANGED <<pagevars, shell, proxied>>
      /\ stranded' \in {stranded \cup {t}, stranded \ {t}}
  BY AtWork, Zenon DEF Attach, AttachFails
<1>2. PICK y \in Conn \cup {NoConn} :
        /\ conn' = Evicting(c, y)
        /\ y = NoConn => conn[c].client = "closed"
        /\ y # NoConn => SoundConn(y) /\ y.client = conn[c].client /\ y.ready \in {None, t, conn[c].ready}
                         /\ y.server \in {"reading", "over"} /\ y.sid \in {None, t}
        /\ \/ y # NoConn /\ y.server = "reading" /\ y.sid = t /\ attached' = [attached EXCEPT ![t] = c]
           \/ (y = NoConn \/ y.server = "over") /\ attached' = [attached EXCEPT ![t] = None]
  <2> DEFINE g == Greeted(conn[c])
  <2>1. /\ g \in Conn /\ g.client = conn[c].client /\ g.sid = t /\ g.code = conn[c].code
        /\ g.ready \in {t, None} /\ (g.client = "closed" => g.ready = None)
    BY <1>1, GreetedFacts, Zenon
  <2> HIDE DEF g
  <2>2. CASE Attach(c)
    <3> DEFINE y == [g EXCEPT !.server = "reading"]
    <3>1. conn' = Evicting(c, y) /\ attached' = [attached EXCEPT ![t] = c]
      BY <2>2, Zenon DEF Attach, g
    <3>2. /\ y \in Conn /\ y.client = conn[c].client /\ y.sid = t /\ y.code = conn[c].code
          /\ y.ready \in {t, None} /\ (y.client = "closed" => y.ready = None) /\ y.server = "reading"
      BY <2>1, Zenon DEF Conn
    <3> HIDE DEF y
    <3>3. y # NoConn /\ SoundConn(y)
      BY <1>1, <3>2, Fields, PagesAssumption, Zenon DEF SoundConn
    <3> QED  BY <3>1, <3>2, <3>3, Zenon
  <2>3. CASE AttachFails(c)
    <3> DEFINE y == Returned(g, Other)
    <3>1. conn' = Evicting(c, y) /\ attached' = [attached EXCEPT ![t] = None]
      BY <2>3, Zenon DEF AttachFails, g
    <3>2. IF g.client = "closed" THEN y = NoConn
          ELSE y \in Conn /\ y.client = "open" /\ y.server = "over" /\ y.sid = None /\ y.ready = g.ready
      BY <2>1, ReturnedFacts, Zenon
    <3> HIDE DEF y
    <3>3. g.client = "open" => SoundConn(y) /\ y # NoConn
      BY <3>2, Fields, Zenon DEF SoundConn
    <3> QED  BY <2>1, <3>1, <3>2, <3>3, Fields
  <2> QED  BY <2>2, <2>3, Zenon
<1> HIDE DEF t
<1>3. /\ conn' \in [Conns -> Conn \cup {NoConn}]
      /\ conn'[c] = y
      /\ \A d \in Conns \ {c} :
           /\ conn[d] = NoConn => conn'[d] = NoConn
           /\ conn[d] # NoConn =>
                /\ conn'[d] # NoConn /\ SoundConn(conn'[d])
                /\ conn'[d].client = conn[d].client /\ conn'[d].server = conn[d].server
                /\ conn'[d].sid = conn[d].sid /\ conn'[d].ready = conn[d].ready
                /\ conn'[d].code = None => conn[d].code = None
           /\ d = attached[t] => conn'[d].client = "closed" \/ conn'[d].code # None
  BY <1>1, <1>2, EvictingFacts, Zenon DEF t
<1>4. /\ \A u \in Ids \ {t} : attached'[u] = attached[u]
      /\ \/ y # NoConn /\ y.server = "reading" /\ y.sid = t /\ attached'[t] = c
         \/ (y = NoConn \/ y.server = "over") /\ attached'[t] = None
  BY <1>1, <1>2, Zenon DEF PagesInv, TypeOK
<1>5. TypeOK'
  <2>1. attached' \in [Ids -> Conns \cup {None}]
    BY <1>1, <1>2, Zenon DEF PagesInv, TypeOK
  <2> QED  BY <1>1, <1>3, <2>1, Zenon DEF PagesInv, TypeOK, pagevars
<1>6. \A d \in Conns : conn'[d] # NoConn => SoundConn(conn'[d])
  BY <1>2, <1>3, Zenon
<1>7. /\ \A p, q \in Pages : sock'[p] # None /\ sock'[p] = sock'[q] => p = q
      /\ \A p \in Pages : SoundPage(p)'
  <2>1. \A d \in Conns : conn[d] # NoConn /\ conn[d].client = "open" =>
          conn'[d] # NoConn /\ conn'[d].client = "open"
    BY <1>2, <1>3, Zenon
  <2> QED  BY <1>1, <2>1, ServerSide, Zenon
<1>8. ProxiesHaveOwners'
  <2>1. \A d \in Conns : At(d, "opening") => At(d, "opening")' /\ conn'[d].sid = conn[d].sid
    BY <1>1, <1>3, Zenon DEF At
  <2> QED  BY <1>1, <2>1 DEF PagesInv, ProxiesHaveOwners
<1>9. \A d \in Conns : SoundHandler(d)'
  <2> TAKE d \in Conns
  <2>1. CASE d = c
    <3>1. ~ At(c, "opening")'
      BY <1>3, <1>4, Zenon DEF At
    <3>2. At(c, "reading")' => attached'[conn'[c].sid] = c
      BY <1>3, <1>4, Zenon DEF At
    <3> QED  BY <2>1, <3>1, <3>2, Zenon DEF SoundHandler
  <2>2. ASSUME d # c, At(d, "opening")'
        PROVE  Unknown(d, conn[d].sid)'
    <3>1. At(d, "opening") /\ conn'[d].sid = conn[d].sid
      BY <2>2, <1>3, Zenon DEF At
    <3>2. Unknown(d, conn[d].sid) /\ conn[d].sid # None
      BY <3>1, OpeningFacts, Zenon
    <3>3. conn[d].sid # t
      BY <1>1, <3>2, Zenon DEF Unknown
    <3>4. conn'[c] # NoConn => conn'[c].sid # conn[d].sid /\ conn'[c].ready # conn[d].sid
      <4>1. conn[c] # NoConn /\ conn[c].ready # conn[d].sid
        BY <1>1, <3>2, Zenon DEF Unknown, At
      <4> QED  BY <1>2, <1>3, <3>2, <3>3, <4>1, Zenon
    <3>5. \A b \in Conns \ {c} : conn'[b] # NoConn =>
            (b = d \/ conn'[b].sid # conn[d].sid) /\ conn'[b].ready # conn[d].sid
      BY <1>3, <3>2, Zenon DEF Unknown
    <3> QED  BY <1>1, <2>2, <3>1, <3>2, <3>4, <3>5, Zenon DEF Unknown, pagevars
  <2>3. ASSUME d # c, At(d, "reading")', ~ MustLeave(d)'
        PROVE  attached'[conn'[d].sid] = d
    <3>1. At(d, "reading") /\ conn'[d].sid = conn[d].sid /\ ~ MustLeave(d) /\ d # attached[t]
      BY <2>3, <1>1, <1>3, Zenon DEF At, MustLeave
    <3>2. attached[conn[d].sid] = d
      BY <3>1, ServingFacts, Zenon
    <3>3. conn[d].sid \in Ids
      BY <3>1, AtWork, Zenon
    <3> QED  BY <1>4, <3>1, <3>2, <3>3, Zenon
  <2> QED  BY <2>1, <2>2, <2>3, Zenon DEF SoundHandler
<1>10. \A u \in Ids : SoundSession(u)'
  <2> TAKE u \in Ids
  <2>1. CASE u = t
    <3>1. attached'[t] # None => attached'[t] = c /\ conn'[c] # NoConn
                                 /\ conn'[c].server = "reading" /\ conn'[c].sid = t
      BY <1>3, <1>4, Zenon
    <3> QED  BY <2>1, <1>1, <3>1, Zenon DEF SoundSession, At
  <2>2. CASE u # t
    <3>1. attached'[u] = attached[u] /\ (u \in idle' <=> u \in idle)
      BY <2>2, <1>1, <1>4, Zenon
    <3>2. attached[u] # None => attached[u] \in Conns \ {c} /\ At(attached[u], "reading")
                                /\ conn[attached[u]].sid = u /\ shell[u] = "live" /\ u \notin idle
      BY <1>1, AttachedFacts, Zenon DEF At
    <3> QED  BY <1>1, <1>3, <3>1, <3>2, Zenon DEF SoundSession, At
  <2> QED  BY <2>1, <2>2, Zenon
<1> QED  BY <1>5, <1>6, <1>7, <1>8, <1>9, <1>10, Zenon DEF PagesInv

\* A handler that served a session returns; if it was the last that attached,
\* the session is left to its idle timer.
LEMMA ReadEndsStep ==
  ASSUME PagesInv, NEW c \in Conns, ReadEnds(c)
  PROVE  PagesInv'
<1> DEFINE t == conn[c].sid
           y == Returned(conn[c], Other)
<1>1. /\ conn[c] \in Conn /\ conn[c] # NoConn /\ conn[c].server = "reading" /\ t \in Ids
      /\ conn' = [conn EXCEPT ![c] = y]
      /\ UNCHANGED <<pagevars, shell, proxied, stranded>>
  BY AtWork, Zenon DEF ReadEnds, At
<1>2. \/ y = NoConn /\ conn[c].client = "closed"
      \/ /\ y \in Conn /\ y.client = "open" /\ y.server = "over"
         /\ y.sid = None /\ y.ready = conn[c].ready
  BY <1>1, ReturnedFacts, Fields, Zenon
<1>3. \/ attached[t] = c /\ attached' = [attached EXCEPT ![t] = None] /\ idle' = idle \cup {t}
      \/ attached[t] # c /\ attached' = attached /\ idle' = idle
  BY Zenon DEF ReadEnds
<1> HIDE DEF t, y
<1>4. conn'[c] = y /\ \A d \in Conns \ {c} : conn'[d] = conn[d]
  BY <1>1, Zenon DEF PagesInv, TypeOK
<1>5. TypeOK'
  <2>1. conn' \in [Conns -> Conn \cup {NoConn}]
    BY <1>1, <1>2, Zenon DEF PagesInv, TypeOK
  <2>2. attached' \in [Ids -> Conns \cup {None}] /\ idle' \in SUBSET Ids
    BY <1>1, <1>3, Zenon DEF PagesInv, TypeOK
  <2> QED  BY <1>1, <2>1, <2>2, Zenon DEF PagesInv, TypeOK, pagevars
<1>6. \A d \in Conns : conn'[d] # NoConn => SoundConn(conn'[d])
  <2>1. y # NoConn => SoundConn(y)
    BY <1>2, Zenon DEF SoundConn
  <2> QED  BY <1>4, <2>1, Zenon DEF PagesInv
<1>7. /\ \A p, q \in Pages : sock'[p] # None /\ sock'[p] = sock'[q] => p = q
      /\ \A p \in Pages : SoundPage(p)'
  <2>1. \A d \in Conns : conn[d] # NoConn /\ conn[d].client = "open" =>
          conn'[d] # NoConn /\ conn'[d].client = "open"
    BY <1>2, <1>4, Fields, Zenon
  <2>2. UNCHANGED pagevars
    BY <1>1, Zenon
  <2> QED  BY <2>1, <2>2, ServerSide, Zenon
<1>8. ProxiesHaveOwners'
  <2>1. \A d \in Conns : At(d, "opening") => At(d, "opening")' /\ conn'[d].sid = conn[d].sid
    BY <1>1, <1>4, Zenon DEF At
  <2> QED  BY <1>1, <2>1 DEF PagesInv, ProxiesHaveOwners
<1>9. \A u \in Ids : attached[u] # None =>
        /\ attached[u] \in Conns /\ At(attached[u], "reading") /\ conn[attached[u]].sid = u
        /\ shell[u] = "live" /\ u \notin idle
  BY AttachedFacts, Zenon
<1>10. \A d \in Conns : SoundHandler(d)'
  <2> TAKE d \in Conns
  <2>1. CASE d = c
    BY <2>1, <1>2, <1>4, Zenon DEF SoundHandler, At
  <2>2. ASSUME d # c, At(d, "opening")'
        PROVE  Unknown(d, conn[d].sid)'
    <3>1. At(d, "opening") /\ conn'[d] = conn[d]
      BY <2>2, <1>4, Zenon DEF At
    <3>2. Unknown(d, conn[d].sid) /\ conn[d].sid # None
      BY <3>1, OpeningFacts, Zenon
    <3>3. conn'[c] # NoConn => conn'[c].sid = None /\ conn'[c].ready = conn[c].ready
      BY <1>2, <1>4, Zenon
    <3> QED  BY <1>1, <1>4, <3>1, <3>2, <3>3 DEF Unknown, pagevars
  <2>3. ASSUME d # c, At(d, "reading")', ~ MustLeave(d)'
        PROVE  attached'[conn'[d].sid] = d
    <3>1. At(d, "reading") /\ conn'[d] = conn[d] /\ ~ MustLeave(d)
      BY <2>3, <1>1, <1>4, Zenon DEF At, MustLeave
    <3>2. attached[conn[d].sid] = d /\ conn[d].sid \in Ids
      BY <3>1, ServingFacts, Zenon
    <3>3. conn[d].sid = t /\ attached[t] = c => FALSE
      BY <2>3, <3>2, Zenon
    <3>4. attached \in [Ids -> Conns \cup {None}]
      BY Zenon DEF PagesInv, TypeOK
    <3> QED  BY <1>3, <3>1, <3>2, <3>3, <3>4, Zenon
  <2> QED  BY <2>1, <2>2, <2>3, Zenon DEF SoundHandler
<1>11. \A u \in Ids : SoundSession(u)'
  <2> TAKE u \in Ids
  <2>1. CASE u = t /\ attached[t] = c
    <3>1. attached'[u] = None
      BY <1>1, <1>3, <2>1, Zenon DEF PagesInv, TypeOK
    <3> QED  BY <3>1, Zenon DEF SoundSession
  <2>2. CASE ~(u = t /\ attached[t] = c)
    <3>1. attached'[u] = attached[u] /\ (u \in idle' <=> u \in idle)
      BY <1>1, <1>3, <2>2, Zenon DEF PagesInv, TypeOK
    <3>2. attached[u] # None => attached[u] \in Conns \ {c}
      BY <1>9, <2>2, Zenon DEF t
    <3>3. attached[u] # None => conn'[attached[u]] = conn[attached[u]]
      BY <1>4, <3>2, Zenon
    <3>4. attached[u] # None =>
            /\ shell'[u] = "live" /\ u \notin idle'
            /\ At(attached[u], "reading")' /\ conn'[attached[u]].sid = u
      BY <1>1, <1>9, <3>1, <3>3 DEF At
    <3> QED  BY <3>1, <3>4, Zenon DEF SoundSession
  <2> QED  BY <2>1, <2>2, Zenon
<1> QED  BY <1>5, <1>6, <1>7, <1>8, <1>10, <1>11, Zenon DEF PagesInv

\* close: whoever is attached to the session is told to leave.
LEMMA CloseShellStep ==
  ASSUME PagesInv, NEW t \in Ids, CloseShell(t)
  PROVE  PagesInv'
<1> DEFINE e == attached[t]
<1>1. /\ shell[t] = "live" /\ shell' = [shell EXCEPT ![t] = "closing"]
      /\ conn' = IF e = None THEN conn ELSE [conn EXCEPT ![e] = Closed(conn[e], Other)]
      /\ attached' = [attached EXCEPT ![t] = None] /\ idle' = idle \ {t}
      /\ stranded' = stranded \ {t} /\ UNCHANGED <<pagevars, proxied>>
  BY Zenon DEF CloseShell
<1>2. e \in Conns \cup {None} /\ (e # None => conn[e] \in Conn /\ conn[e].sid = t)
  BY AttachedFacts, Zenon
<1> HIDE DEF e
<1>3. /\ \A d \in Conns : d # e => conn'[d] = conn[d]
      /\ e # None => conn'[e] = Closed(conn[e], Other)
      /\ conn' \in [Conns -> Conn \cup {NoConn}]
  <2>1. e # None => Closed(conn[e], Other) \in Conn
    BY <1>2, ClosedFacts, Zenon
  <2> QED  BY <1>1, <1>2, <2>1, Zenon DEF PagesInv, TypeOK
<1>4. e # None =>
        /\ conn'[e] \in Conn /\ SoundConn(conn'[e])
        /\ conn'[e].client = conn[e].client /\ conn'[e].server = conn[e].server
        /\ conn'[e].sid = conn[e].sid /\ conn'[e].ready = conn[e].ready
  <2> SUFFICES ASSUME e # None
               PROVE  /\ conn'[e] \in Conn /\ SoundConn(conn'[e])
                      /\ conn'[e].client = conn[e].client /\ conn'[e].server = conn[e].server
                      /\ conn'[e].sid = conn[e].sid /\ conn'[e].ready = conn[e].ready
    BY Zenon
  <2>1. /\ conn'[e] \in Conn
        /\ conn'[e].client = conn[e].client /\ conn'[e].server = conn[e].server
        /\ conn'[e].sid = conn[e].sid /\ conn'[e].ready = conn[e].ready
        /\ conn'[e].client = "closed" => conn'[e].code = conn[e].code
    <3>1. conn[e] \in Conn /\ conn'[e] = Closed(conn[e], Other)
      BY <1>2, <1>3, Zenon
    <3> QED  BY <3>1, ClosedFacts
  <2>2. SoundConn(conn[e])
    BY <1>2, Fields, Zenon DEF PagesInv
  <2> QED  BY <2>1, <2>2, Zenon DEF SoundConn
<1>5. \A d \in Conns :
        /\ conn[d] = NoConn <=> conn'[d] = NoConn
        /\ conn[d] # NoConn =>
             /\ SoundConn(conn'[d])
             /\ conn'[d].client = conn[d].client /\ conn'[d].server = conn[d].server
             /\ conn'[d].sid = conn[d].sid /\ conn'[d].ready = conn[d].ready
  <2> TAKE d \in Conns
  <2>1. CASE d = e
    BY <2>1, <1>2, <1>4, Fields, PagesAssumption, Zenon
  <2>2. CASE d # e
    BY <2>2, <1>3, Zenon DEF PagesInv
  <2> QED  BY <2>1, <2>2, Zenon
<1>6. TypeOK'
  <2>1. attached' \in [Ids -> Conns \cup {None}] /\ shell' \in [Ids -> {"none", "live", "closing"}]
    BY <1>1, Zenon DEF PagesInv, TypeOK
  <2> QED  BY <1>1, <1>3, <2>1, Zenon DEF PagesInv, TypeOK, pagevars
<1>7. /\ \A p, q \in Pages : sock'[p] # None /\ sock'[p] = sock'[q] => p = q
      /\ \A p \in Pages : SoundPage(p)'
  BY <1>1, <1>5, ServerSide, Zenon
<1>8. ProxiesHaveOwners'
  <2>1. \A u \in Ids : shell[u] # "none" => shell'[u] # "none"
    BY <1>1, Zenon DEF PagesInv, TypeOK
  <2>2. \A d \in Conns : At(d, "opening") => At(d, "opening")' /\ conn'[d].sid = conn[d].sid
    BY <1>5, Zenon DEF At
  <2>3. ProxiesHaveOwners /\ proxied \subseteq Ids
    BY Zenon DEF PagesInv, TypeOK
  <2> QED  BY <1>1, <2>1, <2>2, <2>3 DEF ProxiesHaveOwners
<1>9. \A d \in Conns : SoundHandler(d)'
  <2> TAKE d \in Conns
  <2>1. ASSUME At(d, "opening")'
        PROVE  Unknown(d, conn[d].sid)'
    <3>1. At(d, "opening") /\ conn'[d].sid = conn[d].sid
      BY <2>1, <1>5, Zenon DEF At
    <3>2. Unknown(d, conn[d].sid) /\ conn[d].sid \in Ids
      BY <3>1, OpeningFacts, Zenon
    <3>3. shell'[conn[d].sid] = "none"
      BY <1>1, <3>2, Zenon DEF Unknown, PagesInv, TypeOK
    <3> QED  BY <1>1, <1>5, <3>1, <3>2, <3>3 DEF Unknown, pagevars
  <2>2. ASSUME At(d, "reading")', ~ MustLeave(d)'
        PROVE  attached'[conn'[d].sid] = d
    <3>1. At(d, "reading") /\ conn'[d].sid = conn[d].sid
      BY <2>2, <1>5, Zenon DEF At
    <3>2. conn[d].sid \in Ids /\ conn[d].sid # t
      <4>1. conn[d].sid \in Ids
        BY <3>1, AtWork, Zenon
      <4>2. shell'[conn[d].sid] = "live"
        BY <2>2, <3>1, Zenon DEF MustLeave
      <4> QED  BY <1>1, <4>1, <4>2, Zenon DEF PagesInv, TypeOK
    <3>3. conn'[d] = conn[d]
      BY <1>2, <1>3, <3>2, PagesAssumption, Zenon
    <3>4. ~ MustLeave(d)
      BY <1>1, <2>2, <3>2, <3>3, Zenon DEF MustLeave, PagesInv, TypeOK
    <3> QED  BY <1>1, <3>1, <3>2, <3>4, Zenon DEF PagesInv, TypeOK, SoundHandler
  <2> QED  BY <2>1, <2>2, Zenon DEF SoundHandler
<1>10. \A u \in Ids : SoundSession(u)'
  <2> TAKE u \in Ids
  <2>1. CASE u = t
    BY <2>1, <1>1, Zenon DEF SoundSession, PagesInv, TypeOK
  <2>2. CASE u # t
    <3>1. attached'[u] = attached[u] /\ shell'[u] = shell[u] /\ (u \in idle' <=> u \in idle)
      BY <1>1, <2>2, Zenon DEF PagesInv, TypeOK
    <3>2. SoundSession(u) /\ (attached[u] # None => attached[u] \in Conns)
      BY Zenon DEF PagesInv, TypeOK
    <3> QED  BY <1>5, <3>1, <3>2, Zenon DEF SoundSession, At
  <2> QED  BY <2>1, <2>2, Zenon
<1> QED  BY <1>5, <1>6, <1>7, <1>8, <1>9, <1>10, Zenon DEF PagesInv

\* A session is removed, a proxy session ends.
LEMMA ReleaseSteps ==
  ASSUME PagesInv, NEW t \in Ids, ReleaseShell(t) \/ ProxyEnds(t)
  PROVE  PagesInv'
<1>1. /\ proxied' = proxied \ {t}
      /\ shell' = shell \/ (shell[t] = "closing" /\ shell' = [shell EXCEPT ![t] = "none"])
      /\ UNCHANGED <<pagevars, conn, attached, idle, stranded>>
  BY Zenon DEF ReleaseShell, ProxyEnds
<1>2. /\ \A u \in Ids \ {t} : shell'[u] = shell[u]
      /\ shell'[t] # shell[t] => shell[t] = "closing" /\ shell'[t] = "none"
      /\ shell' \in [Ids -> {"none", "live", "closing"}]
  BY <1>1, Zenon DEF PagesInv, TypeOK
<1>3. TypeOK'
  BY <1>1, <1>2, Zenon DEF PagesInv, TypeOK, pagevars
<1>4. /\ \A p, q \in Pages : sock'[p] # None /\ sock'[p] = sock'[q] => p = q
      /\ \A p \in Pages : SoundPage(p)'
      /\ \A d \in Conns : conn'[d] # NoConn => SoundConn(conn'[d])
  BY <1>1, Zenon DEF PagesInv, SoundPage, pagevars
<1>5. ProxiesHaveOwners'
  BY <1>1, <1>2, Zenon DEF PagesInv, TypeOK, ProxiesHaveOwners, At
<1>6. \A d \in Conns : SoundHandler(d)'
  <2> TAKE d \in Conns
  <2>1. ASSUME At(d, "opening")'
        PROVE  Unknown(d, conn[d].sid)'
    <3>1. At(d, "opening")
      BY <2>1, <1>1, Zenon DEF At
    <3>2. Unknown(d, conn[d].sid) /\ conn[d].sid \in Ids
      BY <3>1, OpeningFacts, Zenon
    <3>3. shell'[conn[d].sid] = "none"
      BY <1>2, <3>2, Zenon DEF Unknown
    <3> QED  BY <1>1, <3>2, <3>3, Zenon DEF Unknown, pagevars
  <2>2. ASSUME At(d, "reading")', ~ MustLeave(d)'
        PROVE  attached'[conn'[d].sid] = d
    <3>1. At(d, "reading")
      BY <2>2, <1>1, Zenon DEF At
    <3>2. conn[d].sid \in Ids
      BY <3>1, AtWork, Zenon
    <3>3. ~ MustLeave(d)
      BY <1>1, <1>2, <2>2, <3>2, Zenon DEF MustLeave
    <3> QED  BY <1>1, <3>1, <3>3, ServingFacts, Zenon
  <2> QED  BY <2>1, <2>2, Zenon DEF SoundHandler
<1>7. \A u \in Ids : SoundSession(u)'
  BY <1>1, <1>2, Zenon DEF PagesInv, SoundSession, At
<1> QED  BY <1>3, <1>4, <1>5, <1>6, <1>7, Zenon DEF PagesInv

\* Every handler is gone, and so is every session.
LEMMA RestartStep ==
  ASSUME PagesInv, Restart
  PROVE  PagesInv'
<1>1. /\ shell' = [t \in Ids |-> "none"] /\ attached' = [t \in Ids |-> None]
      /\ idle' = {} /\ proxied' = {} /\ stranded' = {} /\ UNCHANGED pagevars
      /\ conn' = [c \in Conns |-> IF conn[c] = NoConn THEN NoConn ELSE Returned(conn[c], Other)]
  BY Zenon DEF Restart
<1>2. ASSUME NEW c \in Conns
      PROVE  /\ conn'[c] \in Conn \cup {NoConn}
             /\ conn'[c] # NoConn => conn'[c].client = "open" /\ conn'[c].server = "over"
             /\ conn[c] # NoConn /\ conn[c].client = "open" => conn'[c] # NoConn
  <2>1. CASE conn[c] = NoConn
    BY <1>1, <2>1, Zenon
  <2>2. CASE conn[c] # NoConn
    <3>1. conn[c] \in Conn /\ conn'[c] = Returned(conn[c], Other)
      BY <1>1, <2>2, Zenon DEF PagesInv, TypeOK
    <3> QED  BY <3>1, ReturnedFacts, Fields
  <2> QED  BY <2>1, <2>2, Zenon
<1>3. TypeOK'
  <2>1. conn' \in [Conns -> Conn \cup {NoConn}]
    <3>1. conn' = [c \in Conns |-> conn'[c]]
      BY <1>1, Zenon
    <3> QED  BY <1>2, <3>1, Zenon
  <2> QED  BY <1>1, <2>1, Zenon DEF PagesInv, TypeOK, pagevars
<1>4. \A c \in Conns : conn'[c] # NoConn => SoundConn(conn'[c])
  BY <1>2, Zenon DEF SoundConn
<1>5. /\ \A p, q \in Pages : sock'[p] # None /\ sock'[p] = sock'[q] => p = q
      /\ \A p \in Pages : SoundPage(p)'
  BY <1>1, <1>2, ServerSide, Zenon
<1>6. ProxiesHaveOwners' /\ \A t \in Ids : SoundSession(t)'
  BY <1>1, Zenon DEF ProxiesHaveOwners, SoundSession
<1>7. \A c \in Conns : SoundHandler(c)'
  BY <1>2, Zenon DEF SoundHandler, At
<1> QED  BY <1>3, <1>4, <1>5, <1>6, <1>7, Zenon DEF PagesInv

-----------------------------------------------------------------------------
(* The theorems *)

\* Nothing is open at first.
LEMMA InitPages == Init => PagesInv
BY Zenon DEF Init, PagesInv, TypeOK, ProxiesHaveOwners, SoundConn, SoundPage, SoundHandler, SoundSession, At

\* Every step of pages, handlers and sessions keeps them in agreement.
LEMMA NextPages == PagesInv /\ [Next]_vars => PagesInv'
<1> SUFFICES ASSUME PagesInv, [Next]_vars
             PROVE  PagesInv'
  BY Zenon
<1>1. ASSUME NEW p \in Pages, Page(p) \/ Mount(p) \/ Unmount(p) \/ LosesConn(p)
      PROVE  PagesInv'
  BY <1>1, OpenSteps, CloseSteps, ReadyStep, Zenon DEF Page
<1>2. ASSUME NEW c \in Conns,
             \/ Find(c) \/ RequestLost(c) \/ ResolveFails(c) \/ AttachClosed(c)
             \/ Resolve(c) \/ StartShell(c) \/ StartFails(c)
             \/ Attach(c) \/ AttachFails(c) \/ ReadEnds(c)
      PROVE  PagesInv'
  BY <1>2, RequestSteps, ResolveStep, StartSteps, AttachSteps, ReadEndsStep, Zenon
<1>3. ASSUME NEW t \in Ids, CloseShell(t) \/ ReleaseShell(t) \/ ProxyEnds(t)
      PROVE  PagesInv'
  BY <1>3, CloseShellStep, ReleaseSteps, Zenon
<1>4. CASE UNCHANGED vars
  <2>1. TypeOK' /\ UNCHANGED sessvars
    BY <1>4, Zenon DEF vars, pagevars, sessvars, PagesInv, TypeOK
  <2>2. /\ ProxiesHaveOwners'
        /\ \A c \in Conns : SoundHandler(c)'
        /\ \A t \in Ids : SoundSession(t)'
    BY <1>4, <2>1, PageSide, Zenon DEF vars, pagevars
  <2>3. /\ \A p, q \in Pages : sock'[p] # None /\ sock'[p] = sock'[q] => p = q
        /\ \A p \in Pages : SoundPage(p)'
    BY <1>4, ServerSide, Zenon DEF vars
  <2> QED  BY <1>4, <2>1, <2>2, <2>3, Zenon DEF vars, PagesInv
<1> QED
  BY <1>1, <1>2, <1>3, <1>4, RestartStep, Zenon DEF Next, Progress, Handler, Session, Trouble

\* Pages, handlers and sessions agree in every reachable state (RemoteTerminal,
\* handleBrowserTerminalWebSocket, Attach, clearAttachment and close), for any
\* number of tabs, websockets and sessions.
THEOREM PagesAgree == Spec => []PagesInv
<1>1. Init => PagesInv  BY InitPages, Zenon
<1>2. PagesInv /\ [Next]_vars => PagesInv'  BY NextPages, Zenon
<1> QED  BY <1>1, <1>2, PTL DEF Spec

\* No path of the handler or of close leaves a proxy session behind, for any
\* number of tabs, websockets and sessions.
THEOREM NoProxyLeftBehind == Spec => []ProxiesHaveOwners
<1>1. PagesInv => ProxiesHaveOwners  BY Zenon DEF PagesInv
<1> QED  BY <1>1, PagesAgree, PTL
=============================================================================
