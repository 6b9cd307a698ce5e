---------------------------- MODULE TerminalSession ----------------------------
(***************************************************************************)
(* One browser terminal session of the server                              *)
(* (server/internal/api/rest/terminal_sessions.go, terminal.go): an SSH    *)
(* shell whose output is kept in a ring and sent to the browser that is    *)
(* attached.  A browser that reconnects attaches again: the previous       *)
(* attachment is evicted and the history is replayed.                      *)
(*                                                                         *)
(* Attach calls, the writer goroutine of each attachment, the two output   *)
(* goroutines, the idle timer and close run concurrently.  What runs under *)
(* session.mu is one step; attachMu serialises Attach up to the point      *)
(* where the attachment is set.  Sessions do not share state, so one is    *)
(* enough.  Frame contents, resizing and input are left out; a frame is    *)
(* its sequence number, a control frame ("ready", "error") is 0.           *)
(***************************************************************************)
EXTENDS Integers, Sequences, FiniteSets

CONSTANTS
  Conns,        \* browser connections, each with one Attach call
  Streams,      \* stdout and stderr
  HistorySize,  \* terminalHistoryFrames
  QueueSize,    \* terminalAttachmentQueueSize
  MaxFrames,    \* bound on the frames the shell prints
  None

Control == 0

ASSUME TerminalAssumption ==
  /\ HistorySize \in Nat \ {0}
  /\ QueueSize \in Nat \ {0}
  /\ MaxFrames \in Nat
  /\ None \notin Conns

VARIABLES
  by,         \* the stream of every frame so far; its length is nextSeq
  ring,       \* history: the frame in each position, 0 if none
  pos,        \* history: the position written next
  attachment, \* session.attachment
  armed,      \* idleTimer is set and has not fired
  closing,    \* how far session.close is (Closings)
  victim,     \* the attachment close found
  inMap,      \* the manager still finds the session
  lock,       \* the holder of attachMu
  pc,         \* where each Attach call is
  old,        \* the attachment an Attach call is evicting
  batch,      \* the history frames an Attach call has still to send
  replayed,   \* the last frame its snapshots covered, while it replays
  since,      \* the last frame when its attachment was set, while it reads
  sent,       \* what was put into each attachment's outbound channel
  drained,    \* how much of it the writer has taken out
  dead,       \* the attachments whose done channel is closed
  pub         \* the frame each output goroutine is about to send, and to whom

connvars == <<old, batch, replayed, since>>
histvars == <<by, ring, pos>>
vars == <<histvars, attachment, armed, closing, victim, inMap, lock, pc, connvars, sent, drained, dead, pub>>

PCs == {"idle", "found", "locked", "stopped", "evicting", "removing", "greeting",
        "replaying", "setting", "reading", "leaving", "shutting", "over", "failed"}

\* The idle timer has fired; the context is cancelled; closed is set; the
\* attachment, the shell and the proxy session are closed and the entry is gone.
Closings == {"no", "fired", "cancelled", "marked", "done"}

NoFrame == [seq |-> 0, to |-> None, failed |-> "no"]

\* The type of the session, its attachments and its output goroutines.
TypeOK ==
  /\ by \in Seq(Streams) /\ Len(by) <= MaxFrames
  /\ ring \in [0 .. HistorySize - 1 -> 0 .. MaxFrames]
  /\ pos \in 0 .. HistorySize - 1
  /\ attachment \in Conns \cup {None}
  /\ armed \in BOOLEAN
  /\ closing \in Closings
  /\ victim \in Conns \cup {None}
  /\ inMap \in BOOLEAN
  /\ lock \in Conns \cup {None}
  /\ pc \in [Conns -> PCs]
  /\ old \in [Conns -> Conns \cup {None}]
  /\ batch \in [Conns -> Seq(1 .. MaxFrames)]
  /\ replayed \in [Conns -> 0 .. MaxFrames]
  /\ since \in [Conns -> 0 .. MaxFrames]
  /\ sent \in [Conns -> Seq(0 .. MaxFrames)]
  /\ drained \in [Conns -> Nat]
  /\ \A c \in Conns : Len(sent[c]) - drained[c] \in 0 .. QueueSize
  /\ dead \in SUBSET Conns
  /\ pub \in [Streams -> [seq : 0 .. MaxFrames, to : Conns \cup {None}, failed : {"no", "clear", "close"}]]

Init ==
  /\ by = <<>>
  /\ ring = [i \in 0 .. HistorySize - 1 |-> 0]
  /\ pos = 0
  /\ attachment = None
  /\ armed = FALSE
  /\ closing = "no"
  /\ victim = None
  /\ inMap = TRUE
  /\ lock = None
  /\ pc = [c \in Conns |-> "idle"]
  /\ old = [c \in Conns |-> None]
  /\ batch = [c \in Conns |-> <<>>]
  /\ replayed = [c \in Conns |-> 0]
  /\ since = [c \in Conns |-> 0]
  /\ sent = [c \in Conns |-> <<>>]
  /\ drained = [c \in Conns |-> 0]
  /\ dead = {}
  /\ pub = [o \in Streams |-> NoFrame]

closed == closing \in {"marked", "done"}

cancelled == closing \in {"cancelled", "marked", "done"}

nextSeq == Len(by)

-----------------------------------------------------------------------------
(* The history ring *)

historyLen == IF nextSeq < HistorySize THEN nextSeq ELSE HistorySize

\* Mutant of snapshotFramesAfter: reading starts where the ring is written next.
MutReadFromNext(after) ==
  LET kept[i \in 0 .. historyLen] ==
        IF i = 0 THEN <<>>
        ELSE LET seq == ring[(pos + i - 1) % HistorySize]
             IN  IF seq > after THEN Append(kept[i - 1], seq) ELSE kept[i - 1]
  IN  kept[historyLen]

\* The loop from the oldest frame on; kept[i] is what i turns have appended.
snapshotFramesAfter(after) ==
  LET kept[i \in 0 .. historyLen] ==
        IF i = 0 THEN <<>>
        ELSE LET seq == ring[(pos - historyLen + i - 1) % HistorySize]
             IN  IF seq > after THEN Append(kept[i - 1], seq) ELSE kept[i - 1]
  IN  kept[historyLen]

appendFrameLocked(o) ==
  /\ by' = Append(by, o)
  /\ ring' = [ring EXCEPT ![pos] = nextSeq + 1]
  /\ pos' = (pos + 1) % HistorySize

-----------------------------------------------------------------------------
(* Attachments *)

\* Mutant of Queues: the channel takes one message too many.
MutQueueOffByOne(c) == Len(sent[c]) - drained[c] <= QueueSize

\* send is one select: it may succeed when the channel has room, and fails when
\* done is closed or the channel is full; with both possible Go picks either.
Queues(c) == Len(sent[c]) - drained[c] < QueueSize

Refuses(c) == c \in dead \/ ~Queues(c)

send(c, frame) ==
  /\ Queues(c)
  /\ sent' = [sent EXCEPT ![c] = Append(@, frame)]

\* The writer goroutine takes a message out and writes it.
Write(c) ==
  /\ c \notin dead
  /\ drained[c] < Len(sent[c])
  /\ drained' = [drained EXCEPT ![c] = @ + 1]
  /\ UNCHANGED <<histvars, attachment, armed, closing, victim, inMap, lock, pc, connvars, sent, dead, pub>>

HasWriter(c) == pc[c] \notin {"idle", "found", "locked", "stopped"}

\* The writer leaves and closes the attachment: the session is cancelled, or
\* a write failed because the browser is gone or does not read for 10 seconds.
WriterStops(c) ==
  /\ HasWriter(c)
  /\ c \notin dead
  /\ dead' = dead \cup {c}
  /\ UNCHANGED <<histvars, attachment, armed, closing, victim, inMap, lock, pc, connvars, sent, drained, pub>>

WriterCancelled(c) == cancelled /\ WriterStops(c)

WriteFails(c) == ~cancelled /\ drained[c] < Len(sent[c]) /\ WriterStops(c)

\* scheduleIdleTimeoutLocked.
Scheduled == IF closed THEN armed ELSE TRUE

\* Mutant of ClearLocked: the idle timer is not scheduled.
MutClearWithoutTimer(c) ==
  /\ attachment' = IF attachment = c THEN None ELSE attachment
  /\ UNCHANGED armed

\* The locked part of clearAttachment; its callers close c in their next step.
ClearLocked(c) ==
  /\ attachment' = IF attachment = c THEN None ELSE attachment
  /\ armed' = IF attachment = c THEN Scheduled ELSE armed

-----------------------------------------------------------------------------
(* Attach, one step per critical section *)

\* The handler finds the session in the manager (the browser sent its ID, or
\* this handler has just created it).
Get(c) ==
  /\ pc[c] = "idle"
  /\ inMap
  /\ pc' = [pc EXCEPT ![c] = "found"]
  /\ UNCHANGED <<histvars, attachment, armed, closing, victim, inMap, lock, connvars, sent, drained, dead, pub>>

\* attachMu is taken; a closed session ends the call.
AttachLock(c) ==
  /\ pc[c] = "found"
  /\ lock = None
  /\ IF closed
       THEN pc' = [pc EXCEPT ![c] = "over"] /\ dead' = dead \cup {c} /\ UNCHANGED lock
       ELSE pc' = [pc EXCEPT ![c] = "locked"] /\ lock' = c /\ UNCHANGED dead
  /\ UNCHANGED <<histvars, attachment, armed, closing, victim, inMap, connvars, sent, drained, pub>>

stopIdleTimer(c) ==
  /\ pc[c] = "locked"
  /\ pc' = [pc EXCEPT ![c] = "stopped"]
  /\ armed' = FALSE
  /\ UNCHANGED <<histvars, attachment, closing, victim, inMap, lock, connvars, sent, drained, dead, pub>>

\* newTerminalAttachment and currentAttachment.
currentAttachment(c) ==
  /\ pc[c] = "stopped"
  /\ old' = [old EXCEPT ![c] = attachment]
  /\ pc' = [pc EXCEPT ![c] = IF attachment = None THEN "greeting" ELSE "evicting"]
  /\ UNCHANGED <<histvars, attachment, armed, closing, victim, inMap, lock, batch, replayed, since, sent, drained, dead, pub>>

\* Mutant of Evict: the previous attachment is only dropped, not closed.
MutEvictKeepsOpen(c) ==
  /\ pc[c] = "evicting"
  /\ pc' = [pc EXCEPT ![c] = "removing"]
  /\ UNCHANGED <<histvars, attachment, armed, closing, victim, inMap, lock, connvars, sent, drained, dead, pub>>

\* The previous attachment is closed.
Evict(c) ==
  /\ pc[c] = "evicting"
  /\ dead' = dead \cup {old[c]}
  /\ pc' = [pc EXCEPT ![c] = "removing"]
  /\ UNCHANGED <<histvars, attachment, armed, closing, victim, inMap, lock, connvars, sent, drained, pub>>

removeAttachment(c) ==
  /\ pc[c] = "removing"
  /\ attachment' = IF attachment = old[c] THEN None ELSE attachment
  /\ old' = [old EXCEPT ![c] = None]
  /\ pc' = [pc EXCEPT ![c] = "greeting"]
  /\ UNCHANGED <<histvars, armed, closing, victim, inMap, lock, batch, replayed, since, sent, drained, dead, pub>>

\* The "ready" message is queued.
Greet(c) ==
  /\ pc[c] = "greeting"
  /\ send(c, Control)
  /\ pc' = [pc EXCEPT ![c] = "replaying"]
  /\ UNCHANGED <<histvars, attachment, armed, closing, victim, inMap, lock, connvars, drained, dead, pub>>

\* Mutant of Snapshot: the replay does not remember what it has covered.
MutForgetReplayed(c) ==
  LET frames == snapshotFramesAfter(replayed[c]) IN
  /\ pc[c] = "replaying"
  /\ batch[c] = <<>>
  /\ batch' = [batch EXCEPT ![c] = frames]
  /\ pc' = [pc EXCEPT ![c] = IF frames = <<>> THEN "setting" ELSE "replaying"]
  /\ UNCHANGED <<histvars, attachment, armed, closing, victim, inMap, lock, old, replayed, since, sent, drained, dead, pub>>

\* The frames that are not replayed yet; when there are none, the attachment is
\* set in a step of its own.
Snapshot(c) ==
  LET frames == snapshotFramesAfter(replayed[c]) IN
  /\ pc[c] = "replaying"
  /\ batch[c] = <<>>
  /\ batch' = [batch EXCEPT ![c] = frames]
  /\ replayed' = [replayed EXCEPT ![c] = nextSeq]
  /\ pc' = [pc EXCEPT ![c] = IF frames = <<>> THEN "setting" ELSE "replaying"]
  /\ UNCHANGED <<histvars, attachment, armed, closing, victim, inMap, lock, old, since, sent, drained, dead, pub>>

Replay(c) ==
  /\ pc[c] = "replaying"
  /\ batch[c] # <<>>
  /\ send(c, Head(batch[c]))
  /\ batch' = [batch EXCEPT ![c] = Tail(@)]
  /\ UNCHANGED <<histvars, attachment, armed, closing, victim, inMap, lock, pc, old, replayed, since, drained, dead, pub>>

\* The ready message or a replayed frame is refused: attachMu is released and
\* the attachment closed.  The idle timer stays off.
AttachFails(c) ==
  /\ pc[c] \in {"greeting", "replaying"}
  /\ pc[c] = "replaying" => batch[c] # <<>>
  /\ Refuses(c)
  /\ lock' = None
  /\ dead' = dead \cup {c}
  /\ batch' = [batch EXCEPT ![c] = <<>>]
  /\ replayed' = [replayed EXCEPT ![c] = 0]
  /\ pc' = [pc EXCEPT ![c] = "failed"]
  /\ UNCHANGED <<histvars, attachment, armed, closing, victim, inMap, old, since, sent, drained, pub>>

\* The attachment becomes the session's and attachMu is released.
setAttachment(c) ==
  /\ pc[c] = "setting"
  /\ attachment' = c
  /\ since' = [since EXCEPT ![c] = nextSeq]
  /\ replayed' = [replayed EXCEPT ![c] = 0]
  /\ lock' = None
  /\ pc' = [pc EXCEPT ![c] = "reading"]
  /\ UNCHANGED <<histvars, armed, closing, victim, inMap, old, batch, sent, drained, dead, pub>>

\* The resize or readInput ends: the browser is gone, sent what is no JSON, or
\* the shell does not take input any more; always once the attachment is closed
\* or the session is cancelled.
ReadEnds(c) ==
  /\ pc[c] = "reading"
  /\ since' = [since EXCEPT ![c] = 0]
  /\ pc' = [pc EXCEPT ![c] = "leaving"]
  /\ UNCHANGED <<histvars, attachment, armed, closing, victim, inMap, lock, old, batch, replayed, sent, drained, dead, pub>>

clearAttachment(c) ==
  /\ pc[c] = "leaving"
  /\ ClearLocked(c)
  /\ pc' = [pc EXCEPT ![c] = "shutting"]
  /\ UNCHANGED <<histvars, closing, victim, inMap, lock, connvars, sent, drained, dead, pub>>

AttachReturns(c) ==
  /\ pc[c] = "shutting"
  /\ dead' = dead \cup {c}
  /\ pc' = [pc EXCEPT ![c] = "over"]
  /\ UNCHANGED <<histvars, attachment, armed, closing, victim, inMap, lock, connvars, sent, drained, pub>>

\* The steps an Attach call takes by itself.
Attach(c) ==
  \/ AttachLock(c) \/ stopIdleTimer(c) \/ currentAttachment(c)
  \/ Evict(c) \/ removeAttachment(c) \/ Greet(c) \/ Snapshot(c) \/ Replay(c)
  \/ AttachFails(c) \/ setAttachment(c) \/ clearAttachment(c) \/ AttachReturns(c)

-----------------------------------------------------------------------------
(* The output goroutines *)

\* publishBinary under session.mu: the frame is numbered and kept, and the
\* attachment read.  A closed session drops it.
publishBinary(o) ==
  /\ pub[o] = NoFrame
  /\ nextSeq < MaxFrames
  /\ ~closed
  /\ appendFrameLocked(o)
  /\ pub' = [pub EXCEPT ![o] = IF attachment = None THEN NoFrame
                               ELSE [seq |-> nextSeq + 1, to |-> attachment, failed |-> "no"]]
  /\ UNCHANGED <<attachment, armed, closing, victim, inMap, lock, pc, connvars, sent, drained, dead>>

\* The frame is queued after session.mu was released.
PublishSend(o) ==
  /\ pub[o].to # None /\ pub[o].failed = "no"
  /\ send(pub[o].to, pub[o].seq)
  /\ pub' = [pub EXCEPT ![o] = NoFrame]
  /\ UNCHANGED <<histvars, attachment, armed, closing, victim, inMap, lock, pc, connvars, drained, dead>>

\* Mutant of PublishRefused: a frame that does not fit is skipped.
MutSkipFrame(o) ==
  /\ pub[o].to # None /\ pub[o].failed = "no"
  /\ Refuses(pub[o].to)
  /\ pub' = [pub EXCEPT ![o] = NoFrame]
  /\ UNCHANGED <<histvars, attachment, armed, closing, victim, inMap, lock, pc, connvars, sent, drained, dead>>

PublishRefused(o) ==
  /\ pub[o].to # None /\ pub[o].failed = "no"
  /\ Refuses(pub[o].to)
  /\ pub' = [pub EXCEPT ![o] = [seq |-> pub[o].seq, to |-> pub[o].to, failed |-> "clear"]]
  /\ UNCHANGED <<histvars, attachment, armed, closing, victim, inMap, lock, pc, connvars, sent, drained, dead>>

\* clearAttachment after a refused frame: the locked part, then the close.
PublishClears(o) ==
  /\ pub[o].failed = "clear"
  /\ ClearLocked(pub[o].to)
  /\ pub' = [pub EXCEPT ![o] = [seq |-> pub[o].seq, to |-> pub[o].to, failed |-> "close"]]
  /\ UNCHANGED <<histvars, closing, victim, inMap, lock, pc, connvars, sent, drained, dead>>

PublishCloses(o) ==
  /\ pub[o].failed = "close"
  /\ dead' = dead \cup {pub[o].to}
  /\ pub' = [pub EXCEPT ![o] = NoFrame]
  /\ UNCHANGED <<histvars, attachment, armed, closing, victim, inMap, lock, pc, connvars, sent, drained>>

Publish(o) == PublishSend(o) \/ PublishRefused(o) \/ PublishClears(o) \/ PublishCloses(o)

-----------------------------------------------------------------------------
(* The end of the session *)

\* The idle timer fires; stopping it has no effect any more.
Expire ==
  /\ armed
  /\ closing = "no"
  /\ armed' = FALSE
  /\ closing' = "fired"
  /\ UNCHANGED <<histvars, attachment, victim, inMap, lock, pc, connvars, sent, drained, dead, pub>>

\* close runs once: for the fired timer, because the shell exited, or because
\* an output stream failed.
CloseCancel ==
  /\ closing \in {"no", "fired"}
  /\ closing' = "cancelled"
  /\ UNCHANGED <<histvars, attachment, armed, victim, inMap, lock, pc, connvars, sent, drained, dead, pub>>

CloseMark ==
  /\ closing = "cancelled"
  /\ closing' = "marked"
  /\ victim' = attachment
  /\ attachment' = None
  /\ armed' = FALSE
  /\ UNCHANGED <<histvars, inMap, lock, pc, connvars, sent, drained, dead, pub>>

\* Mutant of CloseRelease: the manager keeps the session.
MutNotRemoved ==
  /\ closing = "marked"
  /\ closing' = "done"
  /\ dead' = dead \cup ({victim} \ {None})
  /\ UNCHANGED <<histvars, attachment, armed, victim, inMap, lock, pc, connvars, sent, drained, pub>>

\* The attachment is told why (if its queue takes it) and closed, the shell and
\* the proxy session are closed, and the manager forgets the session.
CloseRelease ==
  /\ closing = "marked"
  /\ closing' = "done"
  /\ dead' = dead \cup ({victim} \ {None})
  /\ sent' \in {sent} \cup {[sent EXCEPT ![c] = Append(@, Control)] : c \in {d \in Conns \cap {victim} : Queues(d)}}
  /\ inMap' = FALSE
  /\ victim' = None
  /\ UNCHANGED <<histvars, attachment, armed, lock, pc, connvars, drained, pub>>

-----------------------------------------------------------------------------

Next ==
  \/ \E c \in Conns : \/ Get(c) \/ Attach(c) \/ ReadEnds(c)
                      \/ Write(c) \/ WriterCancelled(c) \/ WriteFails(c)
  \/ \E o \in Streams : publishBinary(o) \/ Publish(o)
  \/ Expire \/ CloseCancel \/ CloseMark \/ CloseRelease

Spec == Init /\ [][Next]_vars

\* Goroutines that can run do run: Attach calls (sync.Mutex lets a waiter in),
\* a reader whose connection is closed or whose context is cancelled, writers
\* and output goroutines, and close once it has begun.  Nothing makes a browser
\* connect or leave, the shell print or exit.
Fairness ==
  /\ \A c \in Conns :
       /\ WF_vars(Attach(c))
       /\ WF_vars((c \in dead \/ cancelled) /\ ReadEnds(c))
       /\ WF_vars(WriterCancelled(c))
  /\ \A o \in Streams : WF_vars(Publish(o))
  /\ WF_vars(Expire)
  /\ WF_vars(closing = "fired" /\ CloseCancel)
  /\ WF_vars(CloseMark)
  /\ WF_vars(CloseRelease)

FairSpec == Spec /\ Fairness

-----------------------------------------------------------------------------
(* Properties *)

\* A browser never gets the frames of one stream out of order, nor a frame
\* twice: what Attach replays and what the output goroutines send live overlap
\* nowhere, even though the live frames are queued outside session.mu.
DeliveredInOrder ==
  \A c \in Conns : \A i, j \in 1 .. Len(sent[c]) :
    (i < j /\ sent[c][i] # Control /\ sent[c][j] # Control) =>
      /\ sent[c][i] # sent[c][j]
      /\ by[sent[c][i]] = by[sent[c][j]] => sent[c][i] < sent[c][j]

\* Once an attachment is the session's, no frame is lost silently: every frame
\* published since is in its queue or on its way there, or the attachment is
\* being closed, so that the browser reconnects (publishBinary clears an
\* attachment that refuses a frame).
LiveFramesArrive ==
  \A c \in Conns :
    (pc[c] = "reading" /\ c \notin dead /\ attachment = c) =>
      \A seq \in since[c] + 1 .. nextSeq :
        \/ \E i \in 1 .. Len(sent[c]) : sent[c][i] = seq
        \/ \E o \in Streams : pub[o].to = c /\ (pub[o].seq = seq \/ pub[o].failed # "no")

\* What a round of Attach's replay reads, whichever frame the round before
\* ended with, is all the frames after it that the ring still holds, oldest
\* first: the ring arithmetic of appendFrameLocked and snapshotFramesAfter.
ReplayIsTheTail ==
  \A after \in 0 .. nextSeq :
    LET first == IF nextSeq - HistorySize > after THEN nextSeq - HistorySize ELSE after
    IN  snapshotFramesAfter(after) = [i \in 1 .. nextSeq - first |-> first + i]

\* A session that browsers have left does not live forever: when nothing is
\* attached and no Attach call is under way, the idle timer runs, unless an
\* Attach call stopped it and then failed (AttachFails leaves it off) or no
\* browser has been attached yet.
DetachedSessionsAreTimed ==
  (closing = "no" /\ attachment = None /\ lock = None) =>
    \/ armed
    \/ \E c \in Conns : pc[c] = "failed"
    \/ \A c \in Conns : pc[c] \in {"idle", "found"}

-----------------------------------------------------------------------------
(* The invariant the four properties above follow from *)

\* The calls between taking and releasing attachMu.
Holding == {"locked", "stopped", "evicting", "removing", "greeting", "replaying", "setting"}

\* The calls that have been, or may have been, past setAttachment.
Attached == {"reading", "leaving", "shutting", "over"}

\* The position the k-th newest frame is in.
Back(k) == IF k <= pos THEN pos - k ELSE pos - k + HistorySize

HistoryIsTheNewest == \A k \in 1 .. historyLen : ring[Back(k)] = nextSeq - k + 1

AttachesAreSerial ==
  \A c \in Conns :
    /\ pc[c] \in Holding => lock = c
    /\ pc[c] \in {"evicting", "removing"} => old[c] # None

\* The steps of an Attach call that replaces an attachment: nobody else sets
\* one meanwhile, and the old one is closed before it is removed.
EvictionsInOrder ==
  \A c \in Conns :
    /\ pc[c] \in {"evicting", "removing"} => attachment \in {old[c], None}
    /\ pc[c] = "removing" => old[c] \in dead
    /\ pc[c] \in {"greeting", "replaying", "setting"} => attachment = None

\* No browser goes on reading from a session that sends it nothing any more: an
\* attachment that is replaced or refused a frame is closed already or by the
\* next step of an output goroutine, unless the whole session ends.
ReplacedAreClosed ==
  \A c \in Conns : pc[c] = "reading" /\ attachment # c =>
    \/ c \in dead
    \/ cancelled
    \/ \E o \in Streams : pub[o].to = c /\ pub[o].failed = "close"

\* Live frames go to attachments that are past their replay.
TargetsAreAttached ==
  /\ attachment # None => pc[attachment] \in Attached
  /\ \A o \in Streams :
       /\ pub[o].to # None => pc[pub[o].to] \in Attached
       /\ pub[o].failed # "no" => pub[o].to # None

\* A replay sends what is newer than all it has sent, up to replayed.
ReplaysAscend ==
  \A c \in Conns : pc[c] \in {"idle", "found"} \cup Holding =>
    /\ replayed[c] <= nextSeq
    /\ \A i \in 1 .. Len(sent[c]) : sent[c][i] <= replayed[c]
    /\ \A k \in 1 .. Len(batch[c]) :
         /\ batch[c][k] <= replayed[c]
         /\ \A i \in 1 .. Len(sent[c]) : sent[c][i] < batch[c][k]
         /\ \A l \in 1 .. k - 1 : batch[c][l] < batch[c][k]

\* A frame on its way is newer than all its stream has sent there.
LiveFramesAscend ==
  /\ \A c \in Conns : \A i \in 1 .. Len(sent[c]) : sent[c][i] <= nextSeq
  /\ \A o \in Streams : pub[o].to # None =>
       /\ pub[o].seq \in 1 .. nextSeq
       /\ by[pub[o].seq] = o
       /\ \A i \in 1 .. Len(sent[pub[o].to]) :
            LET seq == sent[pub[o].to][i]
            IN  seq # Control /\ by[seq] = o => seq < pub[o].seq

\* The session's state is always one in which the ring holds the newest frames,
\* attachMu has one holder, live frames only go to attachments that have been
\* replayed to, and replayed and live frames are newer than what was sent
\* before; with it, delivery is in order, no live frame is lost silently, a
\* replaced browser is closed and a session nobody uses is timed.
TerminalInv ==
  /\ TypeOK
  /\ HistoryIsTheNewest
  /\ AttachesAreSerial
  /\ EvictionsInOrder
  /\ ReplacedAreClosed
  /\ TargetsAreAttached
  /\ ReplaysAscend
  /\ LiveFramesAscend
  /\ DeliveredInOrder
  /\ LiveFramesArrive
  /\ DetachedSessionsAreTimed

-----------------------------------------------------------------------------
(* Liveness *)

\* A browser that is replaced, refused or detached is disconnected: an Attach
\* call that is past setAttachment and not the session's attachment any more
\* has its connection closed, whoever took its place.
ReplacedConnsClose ==
  \A c \in Conns :
    (pc[c] \in {"reading", "leaving", "shutting"} /\ attachment # c) ~> (c \in dead)

\* The end of a session leaves nothing behind: every Attach call returns with
\* its connection closed, also one that sets its attachment after close looked,
\* and the manager has forgotten the session.
ClosedSessionLetsGo ==
  cancelled ~> /\ ~inMap
               /\ lock = None
               /\ \A c \in Conns : pc[c] \in {"idle", "over", "failed"} /\ (pc[c] # "idle" => c \in dead)

=============================================================================
